--------------------------- MODULE Serialization ---------------------------
(***************************************************************************)
(* The non-scan queue of the WLAN command serialization component          *)
(* (qca-wifi-host-cmn/umac/cmn_services/serialization) of one pdev.        *)
(*                                                                         *)
(* A command of a vdev is activated at once or waits in the pending list.  *)
(* Commands of different vdevs are active together, except that a BLOCKING *)
(* command wants the pdev to itself.  A command leaves the active list     *)
(* when its requester removes it, when it is cancelled, when its           *)
(* activation fails or when its timer expires, and the next pending ones   *)
(* are then moved to the active list.                                      *)
(*                                                                         *)
(* Every body that runs under pdev_queue_lock is one action.  Callbacks    *)
(* run without the lock, and the calls nest (activate, dequeue, move,      *)
(* activate ...), so a thread has a stack of frames, the topmost first;    *)
(* a step replaces the topmost frame by the calls still to be made.        *)
(* A callback that calls the component again is another thread here.       *)
(*                                                                         *)
(* The vdev lists are not state of their own: commands enter and leave the *)
(* list of their vdev together with the list of the pdev, at the same end, *)
(* so the vdev's list is the pdev's restricted to the vdev.                *)
(***************************************************************************)
EXTENDS Integers, FiniteSets, SequencesExt

CONSTANTS
  Cmds,         \* what identifies a command: its type, id and vdev
  Vdevs,        \* the vdevs of the pdev
  VdevOf,       \* cmd.vdev
  Blocking,     \* the commands with is_blocking
  Urgent,       \* the commands with is_high_priority
  Disabling,    \* the commands with queue_disable
  Nodes,        \* the buffers of the command pool, wlan_serialization_command_list
  Threads,      \* contexts that call the component
  Scheduler,    \* the thread that handles the timeouts posted to it
  Scopes,       \* the cancel requests made, records of type Scope
  Rearmed,      \* the commands whose timer is updated
  Closing,      \* the vdevs that are deleted
  MaxPending,   \* WLAN_SER_MAX_PENDING_CMDS_AP and _STA: room of a vdev's list
  MaxRequests,  \* bound: how often each command is requested
  MaxTimeouts,  \* bound: how many timeouts are posted and unhandled
  Faults,       \* whether references, allocations and posts may fail
  None          \* a null pointer

\* struct wlan_serialization_queued_cmd_info as the walk of a cancel uses it:
\* the commands that match, whether all of them are wanted (a vdev or the pdev
\* was given) or one, the queues to walk, TRUE for the active one, in order, and
\* whether the caller disabled the vdev's queue first.
Scope == [sel : SUBSET Cmds, all : BOOLEAN, queues : Seq(BOOLEAN),
          closed : BOOLEAN]

ASSUME CmdAssumption ==
  /\ VdevOf \in [Cmds -> Vdevs]
  /\ Blocking \subseteq Cmds /\ Urgent \subseteq Cmds /\ Disabling \subseteq Cmds
  /\ Scheduler \in Threads
  /\ IsFiniteSet(Threads)
  /\ Scopes \subseteq Scope
  /\ \A s \in Scopes : s.queues # <<>> /\ ~s.closed
  /\ Rearmed \subseteq Cmds /\ Closing \subseteq Vdevs
  /\ MaxPending \in Nat /\ MaxRequests \in Nat /\ MaxTimeouts \in Nat
  /\ Faults \in BOOLEAN
  /\ None \notin Cmds \cup Nodes \cup Vdevs

VARIABLES
  pool,      \* cmd_pool_list; its order only decides which buffer comes next
  pending,   \* pending_list
  active,    \* active_list
  cmd,       \* node -> the command in it
  in_use,    \* node -> the CMD_* bits of cmd_in_use
  bitmap,    \* vdev_active_cmd_bitmap
  blocking_cmd_active,
  blocking_cmd_waiting,
  disabled,  \* the vdevs whose queue_disable is set
  timer,     \* node -> the timer linked to its command: "off", "on", "expired"
  timeouts,  \* the timeout messages in the scheduler's queue, oldest first
  stack,     \* thread -> its frames
  requests,  \* command -> how often it was requested
  owed,      \* command -> the accepted requests whose memory is not released
  corrupt    \* a list walk went on from a node that is not in the list

lists == <<pool, pending, active, cmd>>
marks == <<bitmap, blocking_cmd_active, blocking_cmd_waiting>>
vars == <<lists, marks, in_use, disabled, timer, timeouts, stack, requests,
          owed, corrupt>>

(***************************************************************************)
(* Frames.                                                                 *)
(***************************************************************************)
\* activate_cmd of a node: start the timer, call back, clear the mark, look at
\* the marks others left.  ok: the status so far.
Activate(pc, n, ok) == [pc |-> pc, node |-> n, ok |-> ok]
ActivateFrames ==
  [pc : {"timer", "callback", "settle", "tail"}, node : Nodes, ok : BOOLEAN]

\* dequeue_cmd of a command given by value, or by a pointer into a node.
Dequeue(n, c) == [pc |-> "dequeue", node |-> n, cmd |-> c]
DequeueFrames ==
  [pc : {"dequeue"}, node : Nodes \cup {None}, cmd : Cmds \cup {None}]

\* the WLAN_SER_CB_RELEASE_MEM_CMD callback at the end of dequeue_cmd.
Release(c) == [pc |-> "release", cmd |-> c]
ReleaseFrames == [pc : {"release"}, cmd : Cmds]

\* move_non_scan_pending_to_active: before its first look at the queue, and
\* after an activation.  lookup: it looks at the vdev's list only.
Move(v, blocking_cmd_removed) ==
  [pc |-> "move", vdev |-> v, removed |-> blocking_cmd_removed]
MoveOn(lookup) == [pc |-> "move_on", lookup |-> lookup]
MoveFrames ==
  [pc : {"move"}, vdev : Vdevs \cup {None}, removed : BOOLEAN]
    \cup [pc : {"move_on"}, lookup : BOOLEAN]

\* cancel_non_scan_cmd: the first queue of scope.queues is being walked.
\* "cancel": not begun; "cancelled": the callbacks of cmd run and the walk goes
\* on after the node cursor for at most left nodes; "cancel_end": over.
Cancel(pc, scope, n, c, cursor, left) ==
  [pc |-> pc, scope |-> scope, node |-> n, cmd |-> c, cursor |-> cursor,
   left |-> left]
CancelFrames ==
  [pc : {"cancel", "cancelled", "cancel_end"}, scope : Scope,
   node : Nodes \cup {None}, cmd : Cmds \cup {None},
   cursor : Nodes \cup {None}, left : Nat]

Frames == ActivateFrames \cup DequeueFrames \cup ReleaseFrames \cup MoveFrames
            \cup CancelFrames

\* What a program that walked off a list does is not defined: it ends here.
Idle(t) == ~corrupt /\ stack[t] = <<>>
At(t, pc) == ~corrupt /\ stack[t] # <<>> /\ Head(stack[t]).pc = pc
Top(t) == Head(stack[t])

\* An idle thread makes these calls.
Call(t, frames) == stack' = [stack EXCEPT ![t] = frames]
\* A thread replaces its topmost frame by these.
Continue(t, frames) == stack' = [stack EXCEPT ![t] = frames \o Tail(@)]

(***************************************************************************)
(* The queue.                                                              *)
(***************************************************************************)
Width == 65536  \* blocking_cmd_waiting is a uint16_t ...
Narrow == 256   \* ... and is_active_non_scan_cmd_allowed reads it in a uint8_t

NodeVdev(n) == VdevOf[cmd[n]]
\* The vdev's pending list, as the places its commands have in the pdev's, and
\* its front.
VdevPending(v) == {i \in DOMAIN pending : NodeVdev(pending[i]) = v}
VdevFront(v) == pending[Min(VdevPending(v))]
AnyVdevActive == bitmap # {}
Holding(list, c) == {n \in ToSet(list) : cmd[n] = c}

\* add_cmd_to_queue: a high priority command goes to the front.
Insert(list, n, c) == IF c \in Urgent THEN <<n>> \o list ELSE Append(list, n)

\* Mutants: a vdev with an active command, or one with waiting commands, is
\* given another; an active blocking command is not looked at.
AllowedTwice(c) ==
  /\ IF c \in Blocking THEN ~AnyVdevActive
     ELSE ~blocking_cmd_active /\ blocking_cmd_waiting % Narrow = 0
  /\ VdevPending(VdevOf[c]) = {}
AllowedOutOfTurn(c) ==
  IF c \in Blocking
  THEN ~AnyVdevActive
  ELSE /\ ~blocking_cmd_active
       /\ blocking_cmd_waiting % Narrow = 0
       /\ VdevOf[c] \notin bitmap
AllowedBesideBlocking(c) ==
  /\ IF c \in Blocking
     THEN ~AnyVdevActive
     ELSE blocking_cmd_waiting % Narrow = 0 /\ VdevOf[c] \notin bitmap
  /\ VdevPending(VdevOf[c]) = {}

\* is_active_non_scan_cmd_allowed && is_non_scan_pending_queue_empty.
IsActiveCmdAllowed(c) ==
  /\ IF c \in Blocking
     THEN ~AnyVdevActive
     ELSE /\ ~blocking_cmd_active
          /\ blocking_cmd_waiting % Narrow = 0
          /\ VdevOf[c] \notin bitmap
  /\ VdevPending(VdevOf[c]) = {}

\* What asking that question does to the counter.
WaitingAfterCheck(c) ==
  IF c \in Blocking /\ AnyVdevActive
  THEN (blocking_cmd_waiting + 1) % Width
  ELSE blocking_cmd_waiting

\* Mutant: the counter is taken below zero.
WaitingSigned(c) == IF c \in Blocking THEN blocking_cmd_waiting - 2
                                      ELSE blocking_cmd_waiting

WaitingLess(c) ==
  IF c \in Blocking THEN (blocking_cmd_waiting - 1) % Width
                    ELSE blocking_cmd_waiting

\* add_non_scan_cmd to the active queue, and the mark its callers then set.
Activated(n, c) ==
  /\ active' = Insert(active, n, c)
  /\ bitmap' = bitmap \cup {VdevOf[c]}
  /\ blocking_cmd_active' = (blocking_cmd_active \/ c \in Blocking)

\* Mutant: the node is not given back.
FreedNowhere(n) ==
  /\ UNCHANGED pool
  /\ cmd' = [cmd EXCEPT ![n] = None]
  /\ timer' = [timer EXCEPT ![n] = "off"]

\* The node goes back to the pool, zeroed.
Freed(n) ==
  /\ pool' = pool \cup {n}
  /\ cmd' = [cmd EXCEPT ![n] = None]
  /\ timer' = [timer EXCEPT ![n] = "off"]

Init ==
  /\ pool = Nodes /\ pending = <<>> /\ active = <<>>
  /\ cmd = [n \in Nodes |-> None]
  /\ in_use = [n \in Nodes |-> {}]
  /\ bitmap = {} /\ blocking_cmd_active = FALSE /\ blocking_cmd_waiting = 0
  /\ disabled = {}
  /\ timer = [n \in Nodes |-> "off"]
  /\ timeouts = <<>>
  /\ stack = [t \in Threads |-> <<>>]
  /\ requests = [c \in Cmds |-> 0]
  /\ owed = [c \in Cmds |-> 0]
  /\ corrupt = FALSE

(***************************************************************************)
(* wlan_serialization_request.                                             *)
(***************************************************************************)
\* Why enqueue_cmd refuses a command once it has asked where it belongs: the
\* same command is in that queue, the pool is empty, the vdev's list is full.
\* (A vdev's active list has room for one command; RoomForActive says why that
\* is enough.)
Duplicate(c) ==
  Holding(IF IsActiveCmdAllowed(c) THEN active ELSE pending, c) # {}
\* Mutant: one more than the list has room for.
ListFullLate(c) ==
  ~IsActiveCmdAllowed(c) /\ Cardinality(VdevPending(VdevOf[c])) > MaxPending
ListFull(c) ==
  ~IsActiveCmdAllowed(c) /\ Cardinality(VdevPending(VdevOf[c])) = MaxPending
Refused(c) == Duplicate(c) \/ pool = {} \/ ListFull(c)

Asked(t, c) ==
  /\ Idle(t)
  /\ requests[c] < MaxRequests
  /\ VdevOf[c] \notin disabled
  /\ requests' = [requests EXCEPT ![c] = @ + 1]

RequestRefused(t, c) ==
  /\ Asked(t, c)
  /\ Refused(c)
  /\ blocking_cmd_waiting' = WaitingAfterCheck(c)
  /\ disabled' = IF c \in Disabling /\ ~Duplicate(c) /\ pool # {}
                 THEN disabled \cup {VdevOf[c]} ELSE disabled
  /\ UNCHANGED <<lists, bitmap, blocking_cmd_active, in_use, timer, timeouts,
                 stack, owed, corrupt>>

RequestAccepted(t, c) ==
  /\ Asked(t, c)
  /\ ~Refused(c)
  /\ blocking_cmd_waiting' = WaitingAfterCheck(c)
  /\ disabled' = IF c \in Disabling THEN disabled \cup {VdevOf[c]} ELSE disabled
  /\ owed' = [owed EXCEPT ![c] = @ + 1]
  /\ \E n \in pool :
       /\ pool' = pool \ {n}
       /\ cmd' = [cmd EXCEPT ![n] = c]
       /\ \/ /\ IsActiveCmdAllowed(c)
             /\ Activated(n, c)
             /\ in_use' = [in_use EXCEPT ![n] = @ \cup {"activation"}]
             /\ Call(t, <<Activate("timer", n, TRUE)>>)
             /\ UNCHANGED pending
          \/ /\ ~IsActiveCmdAllowed(c)
             /\ pending' = Insert(pending, n, c)
             /\ UNCHANGED <<active, bitmap, blocking_cmd_active, in_use, stack>>
  /\ UNCHANGED <<timer, timeouts, corrupt>>

(***************************************************************************)
(* wlan_serialization_activate_cmd.                                        *)
(***************************************************************************)
StartTimer(t) ==
  /\ At(t, "timer")
  /\ LET n == Top(t).node IN
       \/ /\ timer' = [timer EXCEPT ![n] = "on"]
          /\ Continue(t, <<Activate("callback", n, TRUE)>>)
       \/ /\ Faults
          /\ Continue(t, <<Activate("settle", n, FALSE)>>)
          /\ UNCHANGED timer
  /\ UNCHANGED <<lists, marks, in_use, disabled, timeouts, requests, owed,
                 corrupt>>

ActivateCallback(t) ==
  /\ At(t, "callback")
  /\ \E ok \in BOOLEAN : Continue(t, <<Activate("settle", Top(t).node, ok)>>)
  /\ UNCHANGED <<lists, marks, in_use, disabled, timer, timeouts, requests,
                 owed, corrupt>>

Settle(t) ==
  /\ At(t, "settle")
  /\ LET n == Top(t).node IN
       /\ in_use' = [in_use EXCEPT ![n] = (@ \ {"activation"}) \cup {"active"}]
       /\ Continue(t, <<Activate("tail", n, Top(t).ok)>>)
  /\ UNCHANGED <<lists, marks, disabled, timer, timeouts, requests, owed,
                 corrupt>>

\* Mutant: nobody looks at the mark of a cancel.
ActivateTailForgets(t) ==
  /\ At(t, "tail")
  /\ LET n == Top(t).node
     IN Continue(t, IF ~Top(t).ok \/ "removal" \in in_use[n]
                    THEN <<Dequeue(n, None)>> ELSE <<>>)
  /\ UNCHANGED <<lists, marks, in_use, disabled, timer, timeouts, requests,
                 owed, corrupt>>

\* Mutant: a command that could not be started stays.
ActivateTailKeepsFailed(t) ==
  /\ At(t, "tail")
  /\ LET n == Top(t).node
         self == [sel |-> {}, all |-> FALSE, queues |-> <<TRUE>>, closed |-> FALSE]
     IN Continue(t, IF "removal" \in in_use[n] THEN <<Dequeue(n, None)>>
                    ELSE IF "cancel" \in in_use[n]
                         THEN <<Cancel("cancel", self, n, None, None, 0)>>
                         ELSE <<>>)
  /\ UNCHANGED <<lists, marks, in_use, disabled, timer, timeouts, requests,
                 owed, corrupt>>

\* The bits are read, and the command is passed on, by the pointer to the node
\* and without the lock.
ActivateTail(t) ==
  /\ At(t, "tail")
  /\ LET n == Top(t).node
         self == [sel |-> {}, all |-> FALSE, queues |-> <<TRUE>>, closed |-> FALSE]
     IN Continue(t, IF ~Top(t).ok \/ "removal" \in in_use[n]
                    THEN <<Dequeue(n, None)>>
                    ELSE IF "cancel" \in in_use[n]
                         THEN <<Cancel("cancel", self, n, None, None, 0)>>
                         ELSE <<>>)
  /\ UNCHANGED <<lists, marks, in_use, disabled, timer, timeouts, requests,
                 owed, corrupt>>

(***************************************************************************)
(* wlan_serialization_dequeue_cmd of an active command.                    *)
(***************************************************************************)
\* A command still being activated is only marked: its activator removes it.
MarkForRemoval(n) ==
  /\ "activation" \in in_use[n]
  /\ in_use' = [in_use EXCEPT ![n] = @ \cup {"removal"}]
  /\ UNCHANGED <<lists, marks, timer>>

\* Mutant: a command is taken from under the thread that activates it.
RemoveActiveAnyway(n) ==
  /\ active' = RemoveFirst(active, n)
  /\ bitmap' = bitmap \ {NodeVdev(n)}
  /\ blocking_cmd_active' = (blocking_cmd_active /\ cmd[n] \notin Blocking)
  /\ Freed(n)
  /\ in_use' = [in_use EXCEPT ![n] = {}]
  /\ UNCHANGED <<pending, blocking_cmd_waiting>>

RemoveActive(n) ==
  /\ "activation" \notin in_use[n]
  /\ active' = RemoveFirst(active, n)
  /\ bitmap' = bitmap \ {NodeVdev(n)}
  /\ blocking_cmd_active' = (blocking_cmd_active /\ cmd[n] \notin Blocking)
  /\ Freed(n)
  /\ in_use' = [in_use EXCEPT ![n] = {}]
  /\ UNCHANGED <<pending, blocking_cmd_waiting>>

\* Mutants: the memory is not released; nothing is moved up.
RemovedSilently(c) == <<Move(VdevOf[c], c \in Blocking)>>
RemovedOnly(c) == <<Release(c)>>

\* What dequeue_cmd does once the command is off the queue.
Removed(c) == <<Move(VdevOf[c], c \in Blocking), Release(c)>>

DequeueCmd(t) ==
  /\ At(t, "dequeue")
  /\ LET c == IF Top(t).node = None THEN Top(t).cmd ELSE cmd[Top(t).node] IN
       \/ /\ c = None \/ Holding(active, c) = {}
          /\ Continue(t, <<>>)
          /\ UNCHANGED <<lists, marks, in_use, timer>>
       \/ /\ c # None
          /\ \E n \in Holding(active, c) :
               \/ MarkForRemoval(n) /\ Continue(t, <<>>)
               \/ RemoveActive(n) /\ Continue(t, Removed(c))
  /\ UNCHANGED <<disabled, timeouts, requests, owed, corrupt>>

ReleaseMem(t) ==
  /\ At(t, "release")
  /\ owed' = [owed EXCEPT ![Top(t).cmd] = @ - 1]
  /\ Continue(t, <<>>)
  /\ UNCHANGED <<lists, marks, in_use, disabled, timer, timeouts, requests,
                 corrupt>>

\* wlan_serialization_remove_cmd: the requester is done with a command.
RemoveCmd(t, c) ==
  /\ Idle(t)
  /\ Holding(active, c) # {}
  /\ Call(t, <<Dequeue(None, c)>>)
  /\ UNCHANGED <<lists, marks, in_use, disabled, timer, timeouts, requests,
                 owed, corrupt>>

(***************************************************************************)
(* wlan_ser_move_non_scan_pending_to_active.                               *)
(***************************************************************************)
\* Where the walk over the pdev's list stops: at a blocking command while any
\* vdev is active, or at a command whose vdev is not active; 0 if nowhere.
StopAt ==
  SelectInSeq(pending, LAMBDA n : \/ cmd[n] \in Blocking /\ AnyVdevActive
                                  \/ NodeVdev(n) \notin bitmap)

\* The walk marks the node after the one it looks at, and clears the mark of a
\* node it passes over.
MovementMarks(k, moved) ==
  [n \in Nodes |->
     IF \E i \in 1..Len(pending) :
          pending[i] = n /\ (k = 0 \/ i < k)
     THEN in_use[n] \ {"movement"}
     ELSE IF \/ k > 1 /\ pending[k] = n
             \/ moved /\ k < Len(pending) /\ pending[k + 1] = n
          THEN in_use[n] \cup {"movement"}
          ELSE in_use[n]]

MoveOne(t, n, bits, lookup) ==
  /\ pending' = RemoveFirst(pending, n)
  /\ Activated(n, cmd[n])
  /\ in_use' = [bits EXCEPT ![n] = @ \cup {"activation"}]
  /\ disabled' = IF cmd[n] \in Disabling THEN disabled \cup {NodeVdev(n)}
                                         ELSE disabled
  /\ blocking_cmd_waiting' = WaitingLess(cmd[n])
  /\ Continue(t, <<Activate("timer", n, TRUE), MoveOn(lookup)>>)
  /\ UNCHANGED <<pool, cmd>>

MoveNone(t, bits) ==
  /\ in_use' = bits
  /\ Continue(t, <<>>)
  /\ UNCHANGED <<lists, marks, disabled>>

\* The front of the vdev's list, whatever the other vdevs do.
MoveFromVdev(t, v) ==
  LET n == VdevFront(v) IN
    IF VdevPending(v) = {} \/ v \in bitmap \/ "movement" \in in_use[n]
    THEN MoveNone(t, in_use)
    ELSE MoveOne(t, n, in_use, TRUE)

MoveFromPdev(t) ==
  LET k == StopAt IN
    IF k = 0 \/ (cmd[pending[k]] \in Blocking /\ AnyVdevActive)
    THEN MoveNone(t, MovementMarks(k, FALSE))
    ELSE MoveOne(t, pending[k], MovementMarks(k, TRUE), FALSE)

MovePendingToActive(t) ==
  /\ At(t, "move")
  /\ IF /\ ~Top(t).removed
        /\ blocking_cmd_waiting = 0
        /\ Top(t).vdev # None
     THEN MoveFromVdev(t, Top(t).vdev)
     ELSE MoveFromPdev(t)
  /\ UNCHANGED <<timer, timeouts, requests, owed, corrupt>>

MoveAgain(t) ==
  /\ At(t, "move_on")
  /\ IF Top(t).lookup \/ blocking_cmd_active
     THEN MoveNone(t, in_use)
     ELSE MoveFromPdev(t)
  /\ UNCHANGED <<timer, timeouts, requests, owed, corrupt>>

(***************************************************************************)
(* wlan_ser_cancel_non_scan_cmd.                                           *)
(***************************************************************************)
OnActive(f) == Head(f.scope.queues)
Walked(f) == IF OnActive(f) THEN active ELSE pending
Wanted(f) == IF f.node = None THEN f.scope.sel
             ELSE IF cmd[f.node] = None THEN {} ELSE {cmd[f.node]}

\* A matching command that is still being activated is only marked.
MarkedOnly(f, n) == OnActive(f) /\ "activation" \in in_use[n]

\* The nodes the walk may still visit, and the first one it cancels.
ToVisit(f, cursor, left) ==
  LET from == IF cursor = None THEN 1
              ELSE 1 + SelectInSeq(Walked(f), LAMBDA n : n = cursor)
      upto == from + left - 1
  IN SubSeq(Walked(f), from,
            IF upto < Len(Walked(f)) THEN upto ELSE Len(Walked(f)))

Walk(t, f, cursor, left) ==
  LET visit == ToVisit(f, cursor, left)
      wanted == Wanted(f)
      k == SelectInSeq(visit, LAMBDA n : cmd[n] \in wanted /\ ~MarkedOnly(f, n))
      seen == IF k = 0 THEN visit ELSE SubSeq(visit, 1, k - 1)
      marked == {n \in ToSet(seen) : cmd[n] \in wanted}
      before == SelectLastInSeq(seen, LAMBDA n : cmd[n] \notin wanted)
      marking == [n \in Nodes |-> IF n \in marked THEN in_use[n] \cup {"cancel"}
                                                  ELSE in_use[n]]
      over == <<Cancel("cancel_end", f.scope, None, None, None, 0)>>
  IN IF k = 0 \/ (OnActive(f) /\ timer[visit[k]] = "off")
     THEN /\ in_use' = marking
          /\ Continue(t, over)
          /\ UNCHANGED <<lists, timer>>
     ELSE LET n == visit[k] IN
          /\ active' = IF OnActive(f) THEN RemoveFirst(active, n) ELSE active
          /\ pending' = IF OnActive(f) THEN pending ELSE RemoveFirst(pending, n)
          /\ in_use' = [marking EXCEPT ![n] = {}]
          /\ Freed(n)
          /\ Continue(t, <<Cancel("cancelled", f.scope, None, cmd[n],
                                  IF before = 0 THEN cursor ELSE seen[before],
                                  left - k)>>)

\* Mutant: the walk stops one short of the end.
CancelStartShort(t) ==
  /\ At(t, "cancel")
  /\ LET f == Top(t) IN Walk(t, f, None, Len(Walked(f)) - 1)
  /\ UNCHANGED <<marks, disabled, timeouts, requests, owed, corrupt>>

CancelStart(t) ==
  /\ At(t, "cancel")
  /\ LET f == Top(t) IN Walk(t, f, None, Len(Walked(f)))
  /\ UNCHANGED <<marks, disabled, timeouts, requests, owed, corrupt>>

\* After the callbacks: the marks of the cancelled command are cleared, and the
\* walk goes on after the node it had remembered before it let go of the lock.
CancelResume(t) ==
  /\ At(t, "cancelled")
  /\ LET f == Top(t)
         ends == ~f.scope.all \/ f.left = 0 \/ Walked(f) = <<>>
         stale == f.cursor # None /\ f.cursor \notin ToSet(Walked(f))
     IN /\ bitmap' = IF OnActive(f) THEN bitmap \ {VdevOf[f.cmd]} ELSE bitmap
        /\ blocking_cmd_active' =
             (blocking_cmd_active /\ ~(OnActive(f) /\ f.cmd \in Blocking))
        /\ blocking_cmd_waiting' =
             IF OnActive(f) THEN blocking_cmd_waiting ELSE WaitingLess(f.cmd)
        /\ owed' = [owed EXCEPT ![f.cmd] = @ - 1]
        /\ \/ /\ ends
              /\ Continue(t, <<Cancel("cancel_end", f.scope, None, None, None, 0)>>)
              /\ UNCHANGED <<lists, in_use, timer, corrupt>>
           \/ /\ ~ends /\ ~stale
              /\ Walk(t, f, f.cursor, f.left)
              /\ UNCHANGED corrupt
           \/ /\ ~ends /\ stale
              /\ corrupt' = TRUE
              /\ Continue(t, <<>>)
              /\ UNCHANGED <<lists, in_use, timer>>
  /\ UNCHANGED <<disabled, timeouts, requests>>

\* The queue is looked at without the lock; then the next queue is walked.
CancelEnd(t) ==
  /\ At(t, "cancel_end")
  /\ LET f == Top(t)
         more == Tail(f.scope.queues)
         move == IF OnActive(f) /\ active = <<>> /\ ~AnyVdevActive
                 THEN <<Move(None, FALSE)>> ELSE <<>>
         next == IF more = <<>> THEN <<>>
                 ELSE <<Cancel("cancel", [f.scope EXCEPT !.queues = more],
                               None, None, None, 0)>>
     IN Continue(t, move \o next)
  /\ UNCHANGED <<lists, marks, in_use, disabled, timer, timeouts, requests,
                 owed, corrupt>>

\* wlan_serialization_cancel_request, and wlan_serialization_purge_all_* as a
\* caller may use it.
CancelRequest(t, scope) ==
  /\ Idle(t)
  /\ \E n \in ToSet(active) \cup ToSet(pending) : cmd[n] \in scope.sel
  /\ Call(t, <<Cancel("cancel", scope, None, None, None, 0)>>)
  /\ UNCHANGED <<lists, marks, in_use, disabled, timer, timeouts, requests,
                 owed, corrupt>>

\* A vdev is deleted: its queue is disabled, and what is queued is purged
\* (wlan_ser_vdev_queue_disable, wlan_serialization_purge_all_cmd_by_vdev_id).
CloseSession(t, v) ==
  /\ Idle(t)
  /\ disabled' = disabled \cup {v}
  /\ LET scope == [sel |-> {c \in Cmds : VdevOf[c] = v}, all |-> TRUE,
                   queues |-> <<FALSE, TRUE>>, closed |-> TRUE]
     IN Call(t, <<Cancel("cancel", scope, None, None, None, 0)>>)
  /\ UNCHANGED <<lists, marks, in_use, timer, timeouts, requests, owed, corrupt>>

(***************************************************************************)
(* Timers, and the rest of the interface.                                  *)
(***************************************************************************)
\* The timer handler posts a copy of the command to the scheduler.
TimerExpires(n) ==
  /\ ~corrupt
  /\ timer[n] = "on"
  /\ Len(timeouts) < MaxTimeouts
  /\ timer' = [timer EXCEPT ![n] = "expired"]
  /\ timeouts' = Append(timeouts, cmd[n])
  /\ UNCHANGED <<lists, marks, in_use, disabled, stack, requests, owed, corrupt>>

\* It has no reference or no memory, or the post fails: the timeout is lost.
TimeoutLost(n) ==
  /\ Faults /\ ~corrupt
  /\ timer[n] = "on"
  /\ timer' = [timer EXCEPT ![n] = "expired"]
  /\ UNCHANGED <<lists, marks, in_use, disabled, timeouts, stack, requests,
                 owed, corrupt>>

\* The scheduler calls back and dequeues if the command is still active.
HandleTimeout ==
  /\ Idle(Scheduler)
  /\ timeouts # <<>>
  /\ timeouts' = Tail(timeouts)
  /\ Call(Scheduler, IF Holding(active, Head(timeouts)) = {} THEN <<>>
                     ELSE <<Dequeue(None, Head(timeouts))>>)
  /\ UNCHANGED <<lists, marks, in_use, disabled, timer, requests, owed, corrupt>>

UpdateTimer(c) ==
  /\ ~corrupt
  /\ \E n \in Nodes :
       /\ timer[n] = "expired"
       /\ cmd[n] = c
       /\ timer' = [timer EXCEPT ![n] = "on"]
  /\ UNCHANGED <<lists, marks, in_use, disabled, timeouts, stack, requests,
                 owed, corrupt>>

\* The steps of a call that has begun.
Step(t) ==
  \/ StartTimer(t) \/ ActivateCallback(t) \/ Settle(t) \/ ActivateTail(t)
  \/ DequeueCmd(t) \/ ReleaseMem(t) \/ MovePendingToActive(t) \/ MoveAgain(t)
  \/ CancelStart(t) \/ CancelResume(t) \/ CancelEnd(t)

Begin(t) ==
  \/ \E c \in Cmds : \/ RequestAccepted(t, c) \/ RequestRefused(t, c)
                     \/ RemoveCmd(t, c)
  \/ \E scope \in Scopes : CancelRequest(t, scope)
  \/ \E v \in Closing : CloseSession(t, v)

Next ==
  \/ \E t \in Threads : Step(t) \/ Begin(t)
  \/ \E n \in Nodes : TimerExpires(n) \/ TimeoutLost(n)
  \/ HandleTimeout
  \/ \E c \in Rearmed : UpdateTimer(c)

Spec == Init /\ [][Next]_vars

\* A call that has begun goes on: nothing in it waits.  A timer that runs
\* expires, and the scheduler thread serves its queue.
FairSpec ==
  /\ Spec
  /\ \A t \in Threads : WF_vars(Step(t))
  /\ \A n \in Nodes : WF_vars(TimerExpires(n))
  /\ WF_vars(HandleTimeout)

(***************************************************************************)
(* Properties.                                                             *)
(***************************************************************************)
Bits == {"activation", "active", "cancel", "removal", "movement"}

\* The type invariant: the values the fields of the pdev queue, the pool's
\* nodes and the timers take.
TypeOK ==
  /\ pool \in SUBSET Nodes
  /\ pending \in Seq(Nodes) /\ active \in Seq(Nodes)
  /\ cmd \in [Nodes -> Cmds \cup {None}]
  /\ in_use \in [Nodes -> SUBSET Bits]
  /\ bitmap \in SUBSET Vdevs
  /\ blocking_cmd_active \in BOOLEAN
  /\ blocking_cmd_waiting \in 0 .. Width - 1
  /\ disabled \in SUBSET Vdevs
  /\ timer \in [Nodes -> {"off", "on", "expired"}]
  /\ timeouts \in Seq(Cmds)
  /\ stack \in [Threads -> Seq(Frames)]
  /\ requests \in [Cmds -> Nat]
  /\ owed \in [Cmds -> Nat]
  /\ corrupt \in BOOLEAN

\* Where frames are, as <<thread, height above the bottom of its stack>>, and
\* the frame at a place.
Places == UNION {{t} \X DOMAIN stack[t] : t \in Threads}
FrameAt(p) == stack[p[1]][Len(stack[p[1]]) + 1 - p[2]]

\* A cancelled active command whose callbacks run: off the list, its vdev's bit
\* still set.
IsLeaving(f, v) == f.pc = "cancelled" /\ OnActive(f) /\ VdevOf[f.cmd] = v
Leaving(v) == {p \in Places : IsLeaving(FrameAt(p), v)}
ActiveOn(v) == {n \in ToSet(active) : NodeVdev(n) = v}

\* A node is in the pool, pending or active, never in two lists or in none, and
\* only a node of the pool has no command: whatever path a command takes, with
\* rejections, moves, cancels and timeouts in any order, no buffer is lost.
NodesConserved ==
  /\ IsInjective(pending) /\ IsInjective(active)
  /\ pool \cap (ToSet(pending) \cup ToSet(active)) = {}
  /\ ToSet(pending) \cap ToSet(active) = {}
  /\ pool \cup ToSet(pending) \cup ToSet(active) = Nodes
  /\ \A n \in Nodes : n \in pool <=> cmd[n] = None

\* A vdev's bit in vdev_active_cmd_bitmap is set exactly while one command of
\* the vdev is active or is leaving after a cancel, so two never run together
\* and the vdev's active list, which has room for one, is never full.
RoomForActive ==
  \A v \in Vdevs :
    Cardinality(ActiveOn(v)) + Cardinality(Leaving(v))
      = IF v \in bitmap THEN 1 ELSE 0

\* The threads in activate_cmd of a node before its mark is cleared.
IsActivating(f, n) == f.pc \in {"timer", "callback", "settle"} /\ f.node = n
Activating(n) == {p \in Places : IsActivating(FrameAt(p), n)}

\* A command marked for activation has exactly one thread activating it and
\* stays on the active list: what makes it safe that activate_cmd uses the
\* node without the lock while its callback runs.
ActivatorHasNode ==
  \A n \in Nodes :
    IF "activation" \in in_use[n]
    THEN n \in ToSet(active) /\ Cardinality(Activating(n)) = 1
    ELSE Activating(n) = {}

\* A removal or a cancel that found its command half activated is not lost: as
\* long as the mark is there, the thread that activates the command has yet to
\* look at it or is acting on it.
Serves(f, n) ==
  /\ f.pc \in {"timer", "callback", "settle", "tail", "dequeue", "cancel"}
  /\ f.node = n
MarksServed ==
  \A n \in Nodes :
    in_use[n] \cap {"removal", "cancel"} # {} =>
      \E p \in Places : Serves(FrameAt(p), n)

\* The releases of a command that are on their way, at the end of dequeue_cmd or
\* of a cancel.
IsReleasing(f, c) == f.pc \in {"release", "cancelled"} /\ f.cmd = c
Releasing(c) == {p \in Places : IsReleasing(FrameAt(p), c)}

\* Every accepted request gets exactly one release of its memory: what is owed
\* to a command is what is queued of it plus what is on its way out.
ReleasedOnce ==
  \A c \in Cmds :
    owed[c] = Cardinality(Holding(pending, c)) + Cardinality(Holding(active, c))
                + Cardinality(Releasing(c))

\* "For blocking commands, no other commands from any vdev should be active"
\* (is_active_non_scan_cmd_allowed).
BlockingAlone ==
  \A m, n \in ToSet(active) : cmd[m] \in Blocking => m = n

\* blocking_cmd_waiting "Indicate[s] if a blocking cmd is in pending queue",
\* checked when no call is in progress.
WaitingTellsBlocking ==
  (\A t \in Threads : Idle(t)) =>
    (blocking_cmd_waiting # 0 <=> \E n \in ToSet(pending) : cmd[n] \in Blocking)

\* A walk that lets go of the lock for a callback goes on from a node that is
\* still in the queue ("extract node from queue which is next to prev node").
CursorInQueue == ~corrupt

\* The commands of a vdev are activated in the order of its queue: one that
\* becomes active, at once, by a move or by the next round of a move, passes no
\* command of its vdev that waits, whatever happened while the lock was free.
InOrder ==
  [][\A n \in ToSet(active') \ ToSet(active) :
       LET v == VdevOf[cmd'[n]]
       IN VdevPending(v) = {} \/ VdevFront(v) = n]_vars

\* "Purge all scan and non scan commands for vdev id": once the purge of a vdev
\* that takes no more commands is done with the pending queue, none is left.
PurgeComplete ==
  \A t \in Threads :
    stack[t] # <<>> =>
      LET f == Last(stack[t]) IN
        \/ f.pc \notin {"cancel", "cancelled", "cancel_end"} \/ ~f.scope.closed
        \/ ~OnActive(f) /\ f.pc # "cancel_end"
        \/ \A n \in ToSet(pending) : cmd[n] \notin f.scope.sel

\* The pool has a buffer for every place in the lists: it is empty only when
\* each vdev's own pending list is full, so no vdev is refused because of another.
PoolSuffices ==
  pool = {} => \A v \in Vdevs : Cardinality(VdevPending(v)) >= MaxPending

\* Every accepted command is released in the end even if nobody removes it:
\* it becomes active, and when its requester is silent its timer ends it.
EventuallyReleased == \A c \in Cmds : owed[c] > 0 ~> owed[c] = 0

(***************************************************************************)
(* The inductive invariant.                                                *)
(***************************************************************************)
\* A walk has a queue to walk and, after a cancel, a command to release; a
\* cancel by the activator's own pointer walks the active queue only.
WalkOK(f) ==
  /\ f.pc \in {"cancel", "cancelled", "cancel_end"} => f.scope.queues # <<>>
  /\ f.pc = "cancelled" => f.cmd \in Cmds
  /\ f.pc = "cancel" /\ f.node # None => f.scope.queues = <<TRUE>>
FrameInv == \A p \in Places : WalkOK(FrameAt(p))

\* The marks are on active nodes only.
BitsInv ==
  \A n \in Nodes :
    in_use[n] \cap {"activation", "removal", "cancel"} # {} => n \in ToSet(active)

\* A node marked for activation has one thread activating it, no other node any.
ActivationInv ==
  /\ \A p \in Places, n \in Nodes :
       IsActivating(FrameAt(p), n) => "activation" \in in_use[n]
  /\ \A p, q \in Places, n \in Nodes :
       IsActivating(FrameAt(p), n) /\ IsActivating(FrameAt(q), n) => p = q
  /\ \A n \in Nodes :
       "activation" \in in_use[n] => \E p \in Places : IsActivating(FrameAt(p), n)

\* Only active nodes have a timer, an activation has started it unless it has
\* failed to, and an active node without one has a thread that will start it
\* or remove the node.  (A cancel gives up on a node without a timer.)
Untimed(f) == f.pc = "timer" \/ (f.pc \in {"settle", "tail"} /\ ~f.ok)
TimerInv ==
  /\ \A n \in Nodes : timer[n] # "off" => n \in ToSet(active)
  /\ \A p \in Places, n \in Nodes :
       IsActivating(FrameAt(p), n) /\ timer[n] = "off" => Untimed(FrameAt(p))
UntimedServed ==
  \A n \in ToSet(active) : timer[n] = "off" =>
    \E p \in Places : /\ Serves(FrameAt(p), n)
                      /\ Untimed(FrameAt(p)) \/ FrameAt(p).pc = "dequeue"

\* Who has the bit of a vdev: one active node or one that is leaving.
BitmapInv ==
  /\ \A n \in ToSet(active) : NodeVdev(n) \in bitmap
  /\ \A m, n \in ToSet(active) : NodeVdev(m) = NodeVdev(n) => m = n
  /\ \A p \in Places, v \in Vdevs : IsLeaving(FrameAt(p), v) =>
       /\ v \in bitmap
       /\ \A n \in ToSet(active) : NodeVdev(n) # v
       /\ \A q \in Places : IsLeaving(FrameAt(q), v) => p = q
  /\ \A v \in bitmap :
       \/ \E n \in ToSet(active) : NodeVdev(n) = v
       \/ \E p \in Places : IsLeaving(FrameAt(p), v)

\* What holds in every reachable state of every instance, and why.
IInv ==
  /\ TypeOK /\ NodesConserved /\ FrameInv /\ BitsInv /\ ActivationInv
  /\ TimerInv /\ UntimedServed /\ BitmapInv /\ MarksServed /\ ReleasedOnce

=============================================================================
