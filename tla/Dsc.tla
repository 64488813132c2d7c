-------------------------------- MODULE Dsc --------------------------------
(***************************************************************************)
(* The WLAN driver synchronization core ("DSC") of qcacld-3.0.             *)
(*                                                                         *)
(* DSC keeps a tree of one driver, its psocs (SoCs) and their vdevs        *)
(* (network interfaces).  A thread protects itself with an OPERATION       *)
(* (shared: many may run on a node) or with a TRANSITION (exclusive along  *)
(* every path of the tree that goes through the node).  A transition may   *)
(* start while operations are in flight; its owner then waits for them in  *)
(* *_wait_for_ops.  A thread that may not start a transition either gets   *)
(* an error or queues on the node (trans_start_wait) and sleeps until a    *)
(* trans_stop somewhere in the tree triggers it or a destroy aborts it.    *)
(*                                                                         *)
(* Every function body that runs under the driver's one spinlock is one    *)
(* action.  A call that returns an error changes nothing, so it is a       *)
(* stuttering step and has no action of its own.                           *)
(***************************************************************************)
EXTENDS Naturals, Sequences

CONSTANTS
  Threads,  \* contexts that call DSC; each runs one protected section at a time
  Driver,   \* the root of the tree, struct dsc_driver
  Psocs,    \* the psocs that can be created, struct dsc_psoc
  Vdevs,    \* the vdevs that can be created, struct dsc_vdev
  PsocOf,   \* vdev->psoc
  None      \* a null pointer

Nodes == {Driver} \cup Psocs \cup Vdevs

ASSUME TreeAssumption ==
  /\ Driver \notin Psocs \cup Vdevs
  /\ Psocs \cap Vdevs = {}
  /\ PsocOf \in [Vdevs -> Psocs]
  /\ None \notin Nodes \cup Threads

VARIABLES
  live,       \* the nodes created, attached to their parent and not detached
  dying,      \* node -> the thread inside dsc_*_destroy of it, or None
  active,     \* trans.active_desc of a node: whose transition it is, or None
  queue,      \* trans.queue of a node: the waiting threads, oldest first
  ops,        \* ops of a node: the threads whose operation is in flight
  event,      \* ops.event of a node: set by the last op to stop
  pc,         \* what a thread is doing
  at,         \* the node a thread is doing it on, None when idle
  done,       \* the nodes a thread's *_wait_for_ops has gone through
  waiton,     \* the node whose ops.event a thread sleeps on, or None
  recovering, \* qdf_is_recovering(), set and cleared by subsystem restart
  unloading   \* qdf_is_driver_unloading(), set by module removal

vars == <<live, dying, active, queue, ops, event, pc, at, done, waiton,
          recovering, unloading>>

(* "pending", "granted" and "aborted" are a thread in __dsc_tran_wait: its  *)
(* event not yet set, set by a trigger, set by an abort.                   *)
PC == {"idle", "op", "pending", "granted", "aborted",
       "trans", "draining", "drained", "destroying"}

(* The states in which a thread holds the transition of at[t].             *)
Holding == {"granted", "trans", "draining", "drained"}

TypeOK ==
  /\ live \subseteq Nodes
  /\ dying \in [Nodes -> Threads \cup {None}]
  /\ active \in [Nodes -> Threads \cup {None}]
  /\ queue \in [Nodes -> Seq(Threads)]
  /\ ops \in [Nodes -> SUBSET Threads]
  /\ event \in [Nodes -> BOOLEAN]
  /\ pc \in [Threads -> PC]
  /\ at \in [Threads -> Nodes \cup {None}]
  /\ done \in [Threads -> SUBSET Nodes]
  /\ waiton \in [Threads -> Nodes \cup {None}]
  /\ recovering \in BOOLEAN
  /\ unloading \in BOOLEAN

---------------------------------------------------------------------------
(* The tree                                                                *)

Parent(n) == IF n \in Vdevs THEN PsocOf[n] ELSE Driver

Ancestors(n) ==
  IF n \in Vdevs THEN {PsocOf[n], Driver}
  ELSE IF n \in Psocs THEN {Driver}
  ELSE {}

(* dsc_for_each_psoc_vdev and dsc_for_each_driver_psoc                     *)
PsocVdevs(p) == {v \in Vdevs \cap live : PsocOf[v] = p}
DriverPsocs == Psocs \cap live

DownTree(n) == {m \in live : n \in Ancestors(m)}

(* Nobody calls into a node before it is created or once its destruction   *)
(* has begun: the osif_*_sync layer registers it after create and          *)
(* unregisters it before destroy.                                          *)
Callable(n) == n \in live /\ dying[n] = None

---------------------------------------------------------------------------
(* Predicates on transitions.  act is the value of active they look at.    *)

TransActive(act, n) == act[n] # None
TransQueued(n) == queue[n] # <<>>
ActiveOrQueued(n) == TransActive(active, n) \/ TransQueued(n)
ActiveDownTree(act, n) == \E m \in DownTree(n) : TransActive(act, m)

(* Mutant: forgets the driver's own transition.                            *)
DriverCanTransDownTreeOnly ==
  IF ~ActiveDownTree(active, Driver) THEN "SUCCESS" ELSE "AGAIN"

DriverCanTrans ==
  IF ~ActiveOrQueued(Driver) /\ ~ActiveDownTree(active, Driver)
    THEN "SUCCESS" ELSE "AGAIN"

(* Mutant: forgets the transitions of the psoc's vdevs.                    *)
PsocCanTransNoDownTree(p) ==
  IF ActiveOrQueued(Driver) THEN "INVAL"
  ELSE IF ActiveOrQueued(p) THEN "AGAIN"
  ELSE "SUCCESS"

PsocCanTrans(p) ==
  IF ActiveOrQueued(Driver) THEN "INVAL"
  ELSE IF ActiveOrQueued(p) \/ ActiveDownTree(active, p) THEN "AGAIN"
  ELSE "SUCCESS"

(* Mutant: a psoc transition that only waits does not count.               *)
VdevCanTransActiveOnly(v) ==
  IF ActiveOrQueued(Driver) \/ recovering THEN "INVAL"
  ELSE IF TransActive(active, PsocOf[v])
    THEN IF unloading THEN "INVAL" ELSE "BUSY"
  ELSE IF ActiveOrQueued(v) THEN "BUSY"
  ELSE "SUCCESS"

VdevCanTrans(v) ==
  IF ActiveOrQueued(Driver) \/ recovering THEN "INVAL"
  ELSE IF ActiveOrQueued(PsocOf[v])
    THEN IF unloading THEN "INVAL" ELSE "BUSY"
  ELSE IF ActiveOrQueued(v) THEN "BUSY"
  ELSE "SUCCESS"

(* What __dsc_*_can_trans, and so __dsc_*_can_op, answers for a node.      *)
CanTrans(n) ==
  IF n \in Vdevs THEN VdevCanTrans(n)
  ELSE IF n \in Psocs THEN PsocCanTrans(n)
  ELSE DriverCanTrans

(* Mutant: forgets the rest of the tree.                                   *)
DriverCanTriggerNoDownTree(act) == ~TransActive(act, Driver)

DriverCanTrigger(act) ==
  ~TransActive(act, Driver) /\ ~ActiveDownTree(act, Driver)

PsocCanTrigger(act, p) ==
  /\ ~TransActive(act, Driver) /\ ~TransQueued(Driver)
  /\ ~TransActive(act, p)
  /\ ~ActiveDownTree(act, p)

---------------------------------------------------------------------------
(* Triggering: the nodes whose oldest waiter a trans_stop starts           *)

QueuedOf(S) == {n \in S : TransQueued(n)}

(* Mutant: the vdevs' waiters are not triggered.                           *)
PsocOrNothing(p) == QueuedOf({p})

(* A psoc's oldest waiter, or else the oldest waiter of each of its vdevs. *)
PsocOrVdevs(p) ==
  IF TransQueued(p) THEN {p} ELSE QueuedOf(PsocVdevs(p))

DriverTriggers ==
  IF TransQueued(Driver) THEN {Driver}
  ELSE UNION {PsocOrVdevs(p) : p \in DriverPsocs}

(* __dsc_driver_trans_trigger_checked: a queued driver transition keeps     *)
(* everybody else waiting, and starts once nothing down-tree is active.    *)
DriverChecked(act) == IF DriverCanTrigger(act) THEN {Driver} ELSE {}
PsocChecked(act, p) == IF PsocCanTrigger(act, p) THEN {p} ELSE {}

(* Mutant: a stop on a psoc does not look at the driver's queue.           *)
PsocTriggersNoUpTree(act, p) == PsocOrVdevs(p)

PsocTriggers(act, p) ==
  IF TransQueued(Driver) THEN DriverChecked(act) ELSE PsocOrVdevs(p)

(* Mutant: a stop on a vdev does not look at its psoc's queue.             *)
VdevTriggersNoPsoc(act, v) ==
  IF TransQueued(Driver) THEN DriverChecked(act) ELSE QueuedOf({v})

VdevTriggers(act, v) ==
  IF TransQueued(Driver) THEN DriverChecked(act)
  ELSE IF TransQueued(PsocOf[v]) THEN PsocChecked(act, PsocOf[v])
  ELSE QueuedOf({v})

Triggers(act, n) ==
  IF n \in Vdevs THEN VdevTriggers(act, n)
  ELSE IF n \in Psocs THEN PsocTriggers(act, n)
  ELSE DriverTriggers

(* dsc_psoc_trans_stop ends the driver's transition if the psoc has none.  *)
StoppedBy(n) ==
  IF n \in Psocs /\ ~TransActive(active, n) THEN Driver ELSE n

---------------------------------------------------------------------------
(* Creating and destroying nodes                                           *)

AllIdle ==
  /\ dying = [n \in Nodes |-> None]
  /\ active = [n \in Nodes |-> None]
  /\ queue = [n \in Nodes |-> <<>>]
  /\ ops = [n \in Nodes |-> {}]
  /\ event = [n \in Nodes |-> FALSE]
  /\ pc = [t \in Threads |-> "idle"]
  /\ at = [t \in Threads |-> None]
  /\ done = [t \in Threads |-> {}]
  /\ waiton = [t \in Threads |-> None]
  /\ recovering = FALSE
  /\ unloading = FALSE

(* Before dsc_driver_create.                                               *)
Init == live = {} /\ AllIdle

Create(n) ==
  /\ n \notin live
  /\ n # Driver => Callable(Parent(n))
  /\ live' = live \cup {n}
  /\ active' = [active EXCEPT ![n] = None]
  /\ queue' = [queue EXCEPT ![n] = <<>>]
  /\ ops' = [ops EXCEPT ![n] = {}]
  /\ event' = [event EXCEPT ![n] = FALSE]
  /\ UNCHANGED <<dying, pc, at, done, waiton, recovering, unloading>>

(* What the callers of dsc_*_destroy guarantee: the node has no children   *)
(* and no operation in flight (both asserted), no transition of its own,   *)
(* and no thread sleeps on its event.                                      *)
Quiescent(n) ==
  /\ Callable(n)
  /\ DownTree(n) = {}
  /\ ops[n] = {}
  /\ active[n] = None
  /\ \A t \in Threads : waiton[t] # n

(* Destruction by the owner of a transition up the tree (vdevs, when their *)
(* psoc is removed): the queue may hold waiters, which are aborted.        *)
DestroyProtected(t, n) ==
  /\ pc[t] \in {"trans", "drained"}
  /\ at[t] \in Ancestors(n)
  /\ Quiescent(n)
  /\ dying' = [dying EXCEPT ![n] = t]
  /\ UNCHANGED <<live, active, queue, ops, event, pc, at, done, waiton,
                 recovering, unloading>>

(* Destruction by a thread that holds nothing: nobody waits on the node.   *)
DestroyIdle(t, n) ==
  /\ pc[t] = "idle"
  /\ Quiescent(n)
  /\ ~TransQueued(n)
  /\ dying' = [dying EXCEPT ![n] = t]
  /\ pc' = [pc EXCEPT ![t] = "destroying"]
  /\ at' = [at EXCEPT ![t] = n]
  /\ UNCHANGED <<live, active, queue, ops, event, done, waiton,
                 recovering, unloading>>

(* One round of the abort loop, which runs without the lock.               *)
TransAbort(n) ==
  /\ dying[n] # None
  /\ TransQueued(n)
  /\ pc' = [pc EXCEPT ![Head(queue[n])] = "aborted"]
  /\ queue' = [queue EXCEPT ![n] = Tail(@)]
  /\ UNCHANGED <<live, dying, active, ops, event, at, done, waiton,
                 recovering, unloading>>

(* The loop has found the queue empty: detach under the lock and free.     *)
Detach(n) ==
  /\ dying[n] # None
  /\ ~TransQueued(n)
  /\ live' = live \ {n}
  /\ dying' = [dying EXCEPT ![n] = None]
  /\ IF pc[dying[n]] = "destroying"
       THEN /\ pc' = [pc EXCEPT ![dying[n]] = "idle"]
            /\ at' = [at EXCEPT ![dying[n]] = None]
       ELSE UNCHANGED <<pc, at>>
  /\ UNCHANGED <<active, queue, ops, event, done, waiton,
                 recovering, unloading>>

---------------------------------------------------------------------------
(* Operations                                                              *)

OpStart(t, n) ==
  /\ pc[t] = "idle"
  /\ Callable(n)
  /\ CanTrans(n) = "SUCCESS"
  /\ ops' = [ops EXCEPT ![n] = @ \cup {t}]
  /\ pc' = [pc EXCEPT ![t] = "op"]
  /\ at' = [at EXCEPT ![t] = n]
  /\ UNCHANGED <<live, dying, active, queue, event, done, waiton,
                 recovering, unloading>>

(* Mutant: the count is compared before it is decremented.                 *)
OpStopEarlyCompare(t) ==
  /\ pc[t] = "op"
  /\ ops' = [ops EXCEPT ![at[t]] = @ \ {t}]
  /\ event' = IF ops[at[t]] = {} THEN [event EXCEPT ![at[t]] = TRUE] ELSE event
  /\ pc' = [pc EXCEPT ![t] = "idle"]
  /\ at' = [at EXCEPT ![t] = None]
  /\ UNCHANGED <<live, dying, active, queue, done, waiton,
                 recovering, unloading>>

OpStop(t) ==
  /\ pc[t] = "op"
  /\ ops' = [ops EXCEPT ![at[t]] = @ \ {t}]
  /\ event' = IF ops[at[t]] = {t} THEN [event EXCEPT ![at[t]] = TRUE] ELSE event
  /\ pc' = [pc EXCEPT ![t] = "idle"]
  /\ at' = [at EXCEPT ![t] = None]
  /\ UNCHANGED <<live, dying, active, queue, done, waiton,
                 recovering, unloading>>

---------------------------------------------------------------------------
(* Transitions                                                             *)

(* Mutant: the container is recorded in place of the description.          *)
TransStartWrongDesc(t, n) ==
  /\ pc[t] = "idle"
  /\ Callable(n)
  /\ CanTrans(n) = "SUCCESS"
  /\ active' = [active EXCEPT ![n] = n]
  /\ pc' = [pc EXCEPT ![t] = "trans"]
  /\ at' = [at EXCEPT ![t] = n]
  /\ UNCHANGED <<live, dying, queue, ops, event, done, waiton,
                 recovering, unloading>>

(* dsc_*_trans_start, and dsc_*_trans_start_wait when it need not wait.    *)
TransStart(t, n) ==
  /\ pc[t] = "idle"
  /\ Callable(n)
  /\ CanTrans(n) = "SUCCESS"
  /\ active' = [active EXCEPT ![n] = t]
  /\ pc' = [pc EXCEPT ![t] = "trans"]
  /\ at' = [at EXCEPT ![t] = n]
  /\ UNCHANGED <<live, dying, queue, ops, event, done, waiton,
                 recovering, unloading>>

(* dsc_*_trans_start_wait that must wait; "INVAL" is returned at once.     *)
TransStartWait(t, n) ==
  /\ pc[t] = "idle"
  /\ Callable(n)
  /\ CanTrans(n) \notin {"SUCCESS", "INVAL"}
  /\ queue' = [queue EXCEPT ![n] = Append(@, t)]
  /\ pc' = [pc EXCEPT ![t] = "pending"]
  /\ at' = [at EXCEPT ![t] = n]
  /\ UNCHANGED <<live, dying, active, ops, event, done, waiton,
                 recovering, unloading>>

(* __dsc_tran_wait returns: with the transition, or with E_ABORTED.        *)
TranWaitGranted(t) ==
  /\ pc[t] = "granted"
  /\ pc' = [pc EXCEPT ![t] = "trans"]
  /\ UNCHANGED <<live, dying, active, queue, ops, event, at, done, waiton,
                 recovering, unloading>>

TranWaitAborted(t) ==
  /\ pc[t] = "aborted"
  /\ pc' = [pc EXCEPT ![t] = "idle"]
  /\ at' = [at EXCEPT ![t] = None]
  /\ UNCHANGED <<live, dying, active, queue, ops, event, done, waiton,
                 recovering, unloading>>

(* The effect of dsc_*_trans_stop(n) on the tree and on the waiters it     *)
(* starts; caller is the thread that goes back to idle.                    *)
StopAndTrigger(caller, n) ==
  LET act == [active EXCEPT ![StoppedBy(n)] = None]
      S   == Triggers(act, n)
  IN  /\ active' = [m \in Nodes |->
                      IF m \in S THEN Head(queue[m]) ELSE act[m]]
      /\ queue' = [m \in Nodes |->
                      IF m \in S THEN Tail(queue[m]) ELSE queue[m]]
      /\ pc' = [u \in Threads |->
                  IF u = caller THEN "idle"
                  ELSE IF \E m \in S : Head(queue[m]) = u THEN "granted"
                  ELSE pc[u]]
      /\ at' = [at EXCEPT ![caller] = None]
      /\ done' = [done EXCEPT ![caller] = {}]

(* A thread may stop its transition with or without having waited for ops. *)
TransStop(t) ==
  /\ pc[t] \in {"trans", "drained"}
  /\ \A n \in Nodes : dying[n] # t
  /\ StopAndTrigger(t, at[t])
  /\ UNCHANGED <<live, dying, ops, event, waiton, recovering, unloading>>

---------------------------------------------------------------------------
(* Waiting for operations                                                  *)

(* The nodes whose operations the owner of a transition on n waits for:    *)
(* n and its down-tree; for a vdev, osif_vdev_sync_trans_start also calls  *)
(* dsc_vdev_wait_for_uptree_ops, which goes on to the psoc and the driver. *)
Scope(n) ==
  IF n \in Vdevs THEN {n, PsocOf[n], Driver} ELSE {n} \cup DownTree(n)

(* The node just before m in that walk (siblings in any order).            *)
Before(n, m) ==
  IF n \in Vdevs THEN (IF m = Driver THEN PsocOf[n] ELSE n) ELSE Parent(m)

WalkNext(t) ==
  {m \in Scope(at[t]) \ done[t] :
      m = at[t] \/ Before(at[t], m) \in done[t]}

WaitForOps(t) ==
  /\ pc[t] = "trans"
  /\ pc' = [pc EXCEPT ![t] = "draining"]
  /\ UNCHANGED <<live, dying, active, queue, ops, event, at, done, waiton,
                 recovering, unloading>>

(* Mutant: the event is not reset before the sleep.                        *)
CheckOpsNoReset(t, m) ==
  /\ pc[t] = "draining"
  /\ waiton[t] = None
  /\ m \in WalkNext(t)
  /\ IF ops[m] = {}
       THEN done' = [done EXCEPT ![t] = @ \cup {m}] /\ UNCHANGED waiton
       ELSE waiton' = [waiton EXCEPT ![t] = m] /\ UNCHANGED done
  /\ UNCHANGED <<live, dying, active, queue, ops, event, pc, at,
                 recovering, unloading>>

(* Under the lock: no operation on m, or reset its event and go to sleep.  *)
CheckOps(t, m) ==
  /\ pc[t] = "draining"
  /\ waiton[t] = None
  /\ m \in WalkNext(t)
  /\ IF ops[m] = {}
       THEN /\ done' = [done EXCEPT ![t] = @ \cup {m}]
            /\ UNCHANGED <<event, waiton>>
       ELSE /\ event' = [event EXCEPT ![m] = FALSE]
            /\ waiton' = [waiton EXCEPT ![t] = m]
            /\ UNCHANGED done
  /\ UNCHANGED <<live, dying, active, queue, ops, pc, at,
                 recovering, unloading>>

(* Mutant: the wait may time out.                                          *)
OpsEventWakeTimeout(t) ==
  /\ waiton[t] # None
  /\ done' = [done EXCEPT ![t] = @ \cup {waiton[t]}]
  /\ waiton' = [waiton EXCEPT ![t] = None]
  /\ UNCHANGED <<live, dying, active, queue, ops, event, pc, at,
                 recovering, unloading>>

(* qdf_wait_single_event returns.                                          *)
OpsEventWake(t) ==
  /\ waiton[t] # None
  /\ event[waiton[t]]
  /\ done' = [done EXCEPT ![t] = @ \cup {waiton[t]}]
  /\ waiton' = [waiton EXCEPT ![t] = None]
  /\ UNCHANGED <<live, dying, active, queue, ops, event, pc, at,
                 recovering, unloading>>

(* Mutant: the walk ends with the node it started from.                    *)
WaitForOpsDoneOwnNode(t) ==
  /\ pc[t] = "draining"
  /\ waiton[t] = None
  /\ at[t] \in done[t]
  /\ pc' = [pc EXCEPT ![t] = "drained"]
  /\ UNCHANGED <<live, dying, active, queue, ops, event, at, done, waiton,
                 recovering, unloading>>

(* The walk has reached the end of the lists.                              *)
WaitForOpsDone(t) ==
  /\ pc[t] = "draining"
  /\ waiton[t] = None
  /\ Scope(at[t]) \subseteq done[t]
  /\ pc' = [pc EXCEPT ![t] = "drained"]
  /\ UNCHANGED <<live, dying, active, queue, ops, event, at, done, waiton,
                 recovering, unloading>>

---------------------------------------------------------------------------
(* The flags DSC reads; their writers are outside it.                      *)
SetRecovering ==
  /\ recovering' = ~recovering
  /\ UNCHANGED <<live, dying, active, queue, ops, event, pc, at, done,
                 waiton, unloading>>

SetUnloading ==
  /\ unloading' = ~unloading
  /\ UNCHANGED <<live, dying, active, queue, ops, event, pc, at, done,
                 waiton, recovering>>

Begin(t) ==
  \E n \in Nodes : OpStart(t, n) \/ TransStart(t, n) \/ TransStartWait(t, n)

(* What a thread does once it is in a protected section, up to its end.    *)
Proceed(t) ==
  \/ \E m \in Nodes : CheckOps(t, m)
  \/ OpStop(t)
  \/ TranWaitGranted(t)
  \/ TranWaitAborted(t)
  \/ WaitForOps(t)
  \/ OpsEventWake(t)
  \/ WaitForOpsDone(t)
  \/ TransStop(t)

Destroy(t) == \E n \in Nodes : DestroyProtected(t, n) \/ DestroyIdle(t, n)

Next ==
  \/ \E n \in Nodes : Create(n) \/ TransAbort(n) \/ Detach(n)
  \/ \E t \in Threads : Begin(t) \/ Proceed(t) \/ Destroy(t)
  \/ SetRecovering
  \/ SetUnloading

Spec == Init /\ [][Next]_vars

(* The tree between its creation and its destruction, with every section   *)
(* finite: the debug build panics when an operation or a transition takes  *)
(* longer than a minute (DSC_OP_TIMEOUT_MS, DSC_TRANS_TIMEOUT_MS).         *)
SteadyInit == live = Nodes /\ AllIdle

SteadyNext == \E t \in Threads : Begin(t) \/ Proceed(t)

SteadySpec ==
  /\ SteadyInit
  /\ [][SteadyNext]_vars
  /\ \A t \in Threads : WF_vars(Proceed(t))

---------------------------------------------------------------------------
(* Properties                                                              *)

(* Two transitions are never active on one path of the tree: while a node  *)
(* transitions, no ancestor and no descendant of it does.                  *)
TreeExclusion ==
  \A n \in Nodes : active[n] # None =>
    \A a \in Ancestors(n) : active[a] = None

(* A thread that was told it owns a transition, by trans_start or by a     *)
(* wake-up, owns it until it stops it: nobody else's stop ends it.         *)
OwnersHold ==
  \A t \in Threads : pc[t] \in Holding => active[at[t]] = t

(* A transition on the node or on a path through it is active, or one up   *)
(* the tree is queued.                                                     *)
HeldBack(n) ==
  \/ active[n] # None
  \/ \E a \in Ancestors(n) : ActiveOrQueued(a)
  \/ ActiveDownTree(active, n)

(* Nobody waits for a stop that will not come: each queued waiter has an   *)
(* active transition, or a waiter with priority over it, whose trans_stop  *)
(* reaches its queue.                                                      *)
NoStrandedWaiter == \A n \in live : TransQueued(n) => HeldBack(n)

(* When wait_for_ops has returned, the subtree (and for a vdev its psoc    *)
(* and the driver) has no operation in flight, and none starts until the   *)
(* transition is stopped.                                                  *)
DrainedMeansQuiet ==
  \A t \in Threads : pc[t] = "drained" =>
    \A m \in Scope(at[t]) : ops[m] = {}

(* A thread asleep in wait_for_ops has been, or will be, woken by the last *)
(* operation: its event is set exactly when no operation is left, although *)
(* several walkers reset the same event.                                   *)
NoLostWakeup ==
  \A t \in Threads : waiton[t] # None =>
    (event[waiton[t]] <=> ops[waiton[t]] = {})

(* While a transition waits on a node, no transition starts below it: new  *)
(* ones are refused and a stop does not trigger those queued there.        *)
WaitersBlockDownTree ==
  [][\A n \in Nodes, m \in live :
       (TransQueued(n) /\ n \in live /\ n \in Ancestors(m))
         => active'[m] \in {active[m], None}]_vars

(* A thread that waits for the driver is served: nothing overtakes it for  *)
(* ever, whatever transitions and operations the other threads begin.      *)
DriverWaiterServed ==
  \A t \in Threads :
    (pc[t] = "pending" /\ at[t] = Driver) ~> (pc[t] = "trans")

(* A thread that waits for a psoc is served, provided the driver's own     *)
(* transitions pause now and then: they come first at every stop.          *)
PsocWaiterServed ==
  []<>(~ActiveOrQueued(Driver)) =>
    \A t \in Threads :
      (pc[t] = "pending" /\ at[t] \in Psocs) ~> (pc[t] = "trans")

(* A thread that waits for a vdev is served, provided the transitions of   *)
(* the driver and of its psoc pause now and then at the same time.         *)
VdevWaiterServed ==
  \A v \in Vdevs :
    []<>(\A a \in Ancestors(v) : ~ActiveOrQueued(a)) =>
      \A t \in Threads : (pc[t] = "pending" /\ at[t] = v) ~> (pc[t] = "trans")

(* wait_for_ops returns: the operations it waits for stop, and no others   *)
(* take their place.                                                       *)
WaitForOpsReturns ==
  \A t \in Threads : (pc[t] = "draining") ~> (pc[t] = "drained")

---------------------------------------------------------------------------
(* The inductive invariant: the properties above, strengthened by what the *)
(* functions of the module keep true of each other.                        *)

(* On one path of the tree.                                                *)
Related(n, m) == n = m \/ n \in Ancestors(m) \/ m \in Ancestors(n)

(* at and pc agree; parents outlive their children.                        *)
PlaceInv ==
  /\ \A t \in Threads : pc[t] # "idle" => at[t] \in Nodes
  /\ \A n \in live : Ancestors(n) \subseteq live

(* An active transition is held by the thread it names.                    *)
ActiveInv ==
  \A n \in Nodes : active[n] # None =>
    /\ n \in live
    /\ at[active[n]] = n
    /\ pc[active[n]] \in Holding

(* A queue holds threads that wait for that node, none of them twice.      *)
QueueInv ==
  \A n \in Nodes :
    /\ queue[n] # <<>> => n \in live
    /\ \A i \in 1..Len(queue[n]) :
         pc[queue[n][i]] = "pending" /\ at[queue[n][i]] = n
    /\ \A i, j \in 1..Len(queue[n]) :
         i # j => queue[n][i] # queue[n][j]

OpsInv ==
  /\ \A n \in Nodes : \A t \in ops[n] :
       n \in live /\ pc[t] = "op" /\ at[t] = n
  /\ \A t \in Threads : pc[t] = "op" => t \in ops[at[t]]

(* A node under destruction is quiet, and its waiters (if any) are held    *)
(* back by the transition of the thread that destroys it.                  *)
DyingInv ==
  \A n \in Nodes : dying[n] # None =>
    /\ n \in live
    /\ active[n] = None
    /\ ops[n] = {}
    /\ DownTree(n) = {}
    /\ \A t \in Threads : waiton[t] # n
    /\ \/ pc[dying[n]] = "destroying" /\ at[dying[n]] = n /\ queue[n] = <<>>
       \/ pc[dying[n]] \in Holding /\ at[dying[n]] \in Ancestors(n)

(* A walk visits nodes on the walker's own paths, and those it has left    *)
(* behind stay without operations.                                         *)
WalkInv ==
  \A t \in Threads :
    /\ waiton[t] # None =>
         /\ pc[t] = "draining"
         /\ waiton[t] \in live
         /\ Related(at[t], waiton[t])
    /\ done[t] # {} => pc[t] \in {"draining", "drained"}
    /\ \A m \in done[t] : Related(at[t], m) /\ ops[m] = {}

(* Inductive: every step of Next preserves it.                             *)
IInv ==
  /\ TypeOK
  /\ PlaceInv
  /\ ActiveInv
  /\ QueueInv
  /\ OpsInv
  /\ DyingInv
  /\ WalkInv
  /\ TreeExclusion
  /\ OwnersHold
  /\ NoStrandedWaiter
  /\ DrainedMeansQuiet
  /\ NoLostWakeup
============================================================================
