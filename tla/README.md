# TLA+ models of the WLAN driver's synchronization

The repository holds the out-of-tree kernel modules of one phone: WLAN, camera,
display, audio, graphics, IPA, charger, touch and others, some twelve thousand
files of largely independent device drivers. This project verifies three parts on
which the largest of them, the WLAN driver, rests its concurrency:

- the **Driver Synchronization Core** ("DSC", `components/dsc`), a lock over the
  tree of driver, radios (psocs) and interfaces (vdevs);
- the **vdev registry** of `os_if/sync` and the life cycle HDD gives a network
  interface with it, through mode changes and subsystem restarts;
- the **command serialization** of the common host code
  (`umac/cmn_services/serialization`), which orders the commands of all vdevs.

Paths are relative to `src/qcom/opensource/wlan/qcacld-3.0/`; those of serialization
to `src/qcom/opensource/wlan/qca-wifi-host-cmn/umac/cmn_services/serialization/`.

## 1. Inventory

### The parts that are modelled

| part | state | operations | talks to |
|---|---|---|---|
| DSC (`components/dsc/src`) | a tree driver - psocs - vdevs; per node an active transition, a queue of waiting ones, a count of operations and an event; one spinlock | create, destroy, `op_start/stop`, `trans_start`, `trans_start_wait`, `trans_stop`, `wait_for_ops`, `wait_for_uptree_ops` | reads `qdf_is_recovering()` and `qdf_is_driver_unloading()`; sleeps on QDF events |
| osif sync (`os_if/sync/src`) | a driver pointer and fixed arrays that map a device or net_device to a DSC node | register, unregister, lookup, and the DSC operations by device | DSC; its own spinlocks, which it drops before a call that may sleep |
| HDD (`core/hdd/src/wlan_hdd_driver_ops.c`, `wlan_hdd_main.c`), PLD (`core/pld`) | driver state flags; transitions held from one callback to a later one | probe, remove, unload, mode change, interface open/close, subsystem-restart shutdown and re-init | osif sync |
| QDF events (`qca-wifi-host-cmn/qdf`) | a Linux completion | set, set_all, reset, wait | DSC |
| serialization (`src/wlan_serialization_*.c`) | per pdev: a pool of command buffers, pending and active lists of the pdev and of each vdev, a bit per vdev with an active command, a flag and a counter for blocking commands, marks on each buffer, timers | request, remove, cancel, purge, timer expiry and update, queue disable, move of pending commands | calls its clients back without its lock; clients call it again from there; the scheduler thread |

A thread protects itself with an *operation* (shared: any number on a node) or a
*transition* (exclusive along every path of the tree through the node). Every
entry point of the WLAN driver, from netlink callbacks to module unload, goes
through one of the two, so an error here is a race anywhere in the driver.

What is hard about it:

- **Interleavings**: a transition is checked against its own node, its ancestors
  and its descendants, by different code for each level.
- **Wake-ups**: a thread that must wait queues on its node and is started by the
  `trans_stop` of *another* transition, possibly on another node. If that stop does
  not look in the right queues nobody ever will.
- **Unlock before sleep**: `wait_for_ops` reads the count under the lock, sleeps
  after the unlock, and goes on to the next node unlocked. Several walkers reset
  and wait on the same event.
- **Lifetime**: nodes are destroyed while threads hold transitions above them and
  others wait on them.
- **Flags** that DSC reads at one moment and its users change at another.
- **Look up, unlock, use**: osif sync finds a node under its lock and passes it on
  after the unlock; a mode change frees nodes meanwhile. What protects the node is a
  lock of the network stack (rtnl) that neither layer mentions.
- **Commands refused during a restart** are cached on the node and replayed by a walk
  that takes no lock.
- **Callbacks without the lock**: serialization lets go of its lock for every
  callback, and every body after it starts from what it remembered.
- **Nobody polls**: a pending command is moved up only by the end of another one.

What makes it correct: exclusion on every path; a transition stays its owner's until the
owner stops it; after `wait_for_ops` the scope is quiet and stays so; every waiter is
eventually started or aborted; requests for a larger part of the tree are not overtaken
for ever by requests for smaller parts. An interface's node stays in place as long as
anybody uses it, no entry of the fixed array is lost, calls return (all but one known
circle of waits), and what a restart replays is what the user still wants. Each command
is activated in the order of its vdev, alone if it is blocking, and released exactly
once, and no buffer is lost on any of the ways it may leave.

### The rest of the repository

`PROJECT.json` lists every part under "components" with the reason it is not
modelled. In short: the other drivers mostly program registers or exchange
messages with firmware that is not in the repository. Those with a concurrent
core of their own, and so candidates for further work, are the WLAN vdev and peer
state machines, IPA's power manager (`dataipa`), KGSL timelines and events
(`graphics-kernel`), camera sync (`camera-kernel`), Synx, MMRM and the Bluetooth codec
state machine.

## 2. Plan and status

1. `Dsc` - the core, with its proofs in `DscProofs`. **Done.**
2. `TreeLock` - what DSC promises, as an abstract lock; `DscLock` states that `Dsc`
   implements it, `DscLockProofs` proves it. **Done.**
3. `Serialization` - the non-scan command queue, with its proofs in
   `SerializationProofs` and, of what holds on a condition, `SerializationConditions`.
   **Done.**
4. `OsifVdev` - the vdev registry and its users in HDD, with its proofs in
   `OsifVdevProofs`. **Done.**
5. Not begun: probe, remove and unload; idle shutdown; a restart during a mode change
   beyond the point where DSC refuses it; work items that delete interfaces (lpc,
   pre-CAC); the scan queue of serialization.

## 3. Modules

| module | what it is |
|---|---|
| `Dsc` | the core: state, one action per operation, specification, properties, inductive invariant |
| `TreeLock` | abstract specification: a lock over a tree, without queues, events or walks; its promise, proved |
| `DscLock` | the refinement mapping from `Dsc` to `TreeLock` |
| `MCDsc` | trees and symmetry for TLC |
| `DscProofs` | the theorems about `Dsc` and their proofs |
| `DscLockProofs` | the proof that `Dsc` implements `TreeLock` |
| `OsifVdev` | the vdev registry, the interface life cycle, mode change, subsystem restart; its runs need no MC module |
| `OsifVdevProofs` | the theorems about `OsifVdev` and their proofs |
| `Serialization` | the non-scan command queue of one pdev |
| `MCSerialization` | commands, cancel requests and symmetry for TLC |
| `SerializationProofs` | the theorems about `Serialization` that need no condition, and their proofs |
| `SerializationConditions` | the conditions under which the pool suffices, a blocking command is alone and a purge is complete, and the proofs |

### How `Dsc` corresponds to the code

Everything DSC does to its data happens under the driver's one spinlock, so each
locked body is one action and the C code between two locked bodies is where other
threads may step in. The three levels have the same operations in three files; an
action takes the node as a parameter and the three can-transition and trigger
functions, which differ, have a definition each.

| variable | code |
|---|---|
| `live`, `dying` | membership in `driver->psocs` / `psoc->vdevs`; a destroy in progress and by whom |
| `active[n]` | `trans.active_desc`: the description is unique to the call, so it is the thread |
| `queue[n]` | `trans.queue`, oldest first |
| `ops[n]` | `ops.count`: the set of threads counted |
| `event[n]` | `ops.event`: `qdf_event_set_all` and `qdf_event_reset` make it a flag that stays set until the next reset |
| `pc`, `at` | where a thread is and on which node. `pending`, `granted`, `aborted` are the three states of its `dsc_tran` |
| `done`, `waiton` | the nodes a `wait_for_ops` walk has left behind, and the one it sleeps on |
| `recovering`, `unloading` | the two flags of CDS |

| action | code |
|---|---|
| `Create` | `dsc_*_create`: init, attach to the parent |
| `DestroyProtected`, `DestroyIdle`, `TransAbort`, `Detach` | `dsc_*_destroy`: entry; one round of the unlocked abort loop; detach and free |
| `OpStart`, `OpStop` | `_dsc_*_op_start`, `_dsc_*_op_stop` |
| `TransStart`, `TransStartWait` | `dsc_*_trans_start`, `dsc_*_trans_start_wait` |
| `TranWaitGranted`, `TranWaitAborted` | the return of `__dsc_tran_wait` |
| `TransStop` | `dsc_*_trans_stop`, with all the triggering it does |
| `WaitForOps`, `CheckOps`, `OpsEventWake`, `WaitForOpsDone` | `dsc_*_wait_for_ops`: entry; the locked test of one node; the end of a sleep; return |
| `SetRecovering`, `SetUnloading` | `cds_set_recovery_in_progress`, `cds_set_unload_in_progress`, at any time |

Choices that a reader should know:

- A call that returns an error changes nothing, so it has no action.
- A *thread* is a context with at most one protected section. A kernel thread that
  nests sections is several of them.
- `Callable` is the contract of osif sync: nobody reaches a node before register or
  after unregister, which precedes destroy.
- `Quiescent`, `DestroyProtected` and `DestroyIdle` state what callers of destroy
  guarantee: no children and no operations (the code asserts both), no transition
  and no sleeper on the node, and either an ancestor's transition is held (HDD
  closing its interfaces when the psoc is removed) or nobody is queued.
- A vdev's owner also waits for the operations of its psoc and of the driver, because
  `__osif_vdev_sync_trans_start` calls `dsc_vdev_wait_for_uptree_ops`.
- Siblings are walked in any order; the code's list order is one of them.
- Not modelled: memory allocation failures, the `WLAN_DSC_DEBUG` lists and timers,
  and the lifetime of a list node under an unlocked cursor.

### How `TreeLock` abstracts `Dsc`

A transition is a *hold*, an operation a *use*, and a holder is *alone* once its
`wait_for_ops` has returned. `LetGo` lets one holder go and gives nodes to any number
of others in the same step, as long as they exclude each other: this is a
`trans_stop` with all it triggers. `BeAlone` is one look at the whole scope, where the
code walks it node by node without the lock. Queues, events, creation and destruction
have no counterpart and are stutters.

### How `OsifVdev` corresponds to the code

| variable | code |
|---|---|
| `inUse`, `netDev`, `vdev` | the fields of the entries of `__osif_vdev_sync_arr` |
| `alive` | allocated `struct dsc_vdev`s |
| `trans`, `driver`, `psoc` | the transition of each node: none, queued or active |
| `ops`, `opAt` | operations in flight; the entry and node an operation was started on |
| `cmd` | `nb_cmd_during_ssr` |
| `exists`, `up`, `opened` | interfaces the kernel knows, `IFF_UP`, `DEVICE_IFACE_OPENED` |
| `user`, `mode`, `ssr` | where the three threads are, with what they remember |

- cfg80211 and the network core call the driver with the rtnl lock held, so one `user`
  makes these calls: add (`Add*`), delete (`Del*`), open and stop (`Hdd*`). Each lock
  region of osif sync is a step, and so is each part between two of them.
- DSC appears by its contract: `VdevCanTrans` answers a request, `Triggered` says who
  is started by a stop, a wait for operations ends when there are none.
- `hdd_driver_mode_change` waits for the driver's transition and its operations. It
  ends without having done anything if the context, as in a restart, or the new mode is
  not valid (`ModeRefused`); else it stops all interfaces (`ModeStopsAll`), closes them
  one by one (`Close*`), each with the rtnl lock, and opens any number of new ones under
  the rtnl lock (`ModeLocks`, `ModeOpens`). Modules that cannot be stopped or started
  again, and interfaces that cannot be opened, end it early.
- The firmware may go down in the middle of anything, a mode change and the replay of
  an earlier restart included. Shutdown takes the psoc's transition, re-init clears
  `recovering`, replays the cached commands entry by entry and ends the transition; a
  re-init that failed, or in which the firmware went down again, is followed by another
  shutdown.
- The replay reads the node of an entry without a lock. If an add has taken the entry
  and has no node for it yet, the code dereferences NULL: the model sets `oops` and
  stops. This needs the add to fall into the replay.
- A restart that begins during a driver's transition is refused the psoc's
  (`__dsc_psoc_can_trans`), and goes on without. The model ends there (`Refused`): the
  code's re-init replays commands beside the mode change and its
  `dsc_psoc_trans_stop` ends the *driver's* transition, which belongs to another
  thread. No document of the repository speaks of this; it is recorded as a hazard.
  Properties hold up to `oops` and `Refused` (`Over`), and calls need not return after.
- Other behaviours of the code the model has: an interface that is taken down when the
  firmware has just failed stays open in the driver (`HddStopped`), or the command is
  cached after the replay has passed; a delete that fails after it unregistered the
  interface leaves one that no later call finds (`DelCloseFails`).

### How `Serialization` corresponds to the code

Everything under `pdev_queue_lock` is one action. Calls nest (activate, dequeue, move,
activate ...), so a thread has a stack of frames, one for each call still to return,
and a step replaces the topmost by the calls still to be made.

| variable | code |
|---|---|
| `pool`, `pending`, `active`, `cmd` | `cmd_pool_list` and the lists of the pdev queue, of buffers; the command in each |
| `in_use` | the bits of `cmd_in_use`: activation, active, cancel, removal, movement |
| `bitmap`, `blocking_cmd_active`, `blocking_cmd_waiting` | the fields of the same names |
| `disabled` | `queue_disable` of a vdev's queue |
| `timer`, `timeouts` | the timer linked to a buffer; timeouts posted to the scheduler |
| `requests`, `owed` | bound on requests; accepted requests whose memory is not yet released |
| `corrupt` | a walk went on from a buffer that had left its list: the model stops |

| action | code |
|---|---|
| `RequestAccepted`, `RequestRefused` | `wlan_serialization_request`, `enqueue_cmd` |
| `StartTimer`, `ActivateCallback`, `Settle`, `ActivateTail` | `activate_cmd` |
| `RemoveCmd`, `DequeueCmd`, `ReleaseMem` | `remove_cmd`, `dequeue_cmd` |
| `MovePendingToActive`, `MoveAgain` | `move_non_scan_pending_to_active`: first round, later rounds |
| `CancelRequest`, `CancelStart`, `CancelResume`, `CancelEnd` | `cancel_non_scan_cmd`: a walk up to the first command it cancels; the walk after its callbacks; the end |
| `CloseSession` | deletion of a vdev: disable its queue, then purge it |
| `TimerExpires`, `TimeoutLost`, `HandleTimeout`, `UpdateTimer` | the timer handler, its failures, the scheduler's message, `update_timer` |

- A command and a cancel request are values; a client that calls the component from a
  callback is another thread.
- A vdev's lists are the pdev's restricted to the vdev: the code changes both in the
  same locked body at the same end.
- The pool is a set. The code's is a queue of five buffers per vdev, one active and
  four pending; which buffer comes next matters to nothing.
- `blocking_cmd_waiting` is 16 bits wide and read into 8 (`Width`, `Narrow`).
- Only commands that have the same type, id and vdev are the same to the code; each
  member of `Cmds` stands for one such triple.
- Left out: scan commands, the rules callbacks, history, creation and destruction of
  the pdev, psoc and vdev objects.

## 4. Runs

| run | instance | checks | size |
|---|---|---|---|
| `tree` | 1 psoc, 2 vdevs, 3 threads, nodes created and destroyed at will, both flags free | `TypeOK`, `TreeExclusion`, `OwnersHold`, `NoStrandedWaiter`, `DrainedMeansQuiet`, `NoLostWakeup`, `WaitersBlockDownTree`, `ImplementsTreeLock`, no deadlock | 680,000 states |
| `psocs` | 2 psocs with a vdev each, 3 threads, tree fixed | `IInv`, no deadlock | 115,000 states |
| `live` | 1 psoc, 1 vdev, 3 threads, tree fixed, fair | `DriverWaiterServed`, `PsocWaiterServed`, `VdevWaiterServed`, `WaitForOpsReturns` | 19,000 states |
| `ifaces` | 2 interfaces, 2 nodes, 2 entries of which the replay sees 1, 2 operators, fair | `TypeOK`, `SectionKeepsNode`, `LookupUnambiguous`, `EntriesConserved`, `UpStaysUp`, `NoOtherCircle`, `IInv`, no deadlock | 374,000 states |
| `rtnl` | 1 interface, 1 node, 1 operator, 1 entry, fair | `CallsReturn`: violated | - |
| `ser_safe` | 2 vdevs with 2 commands each, one blocking; 2 threads; a cancel; one vdev is deleted | `TypeOK`, `NodesConserved`, `RoomForActive`, `ActivatorHasNode`, `MarksServed`, `ReleasedOnce`, `PurgeComplete`, `InOrder` | 898,000 states |
| `ser_live` | 3 commands, none blocking, 2 threads, timeouts, fair | `ReleasedOnce`, `EventuallyReleased` | 214,000 states |
| `ser_edges` | 4 commands requested twice, 1 thread; lists of length 1 and a pool of 4, which is emptied; failing timers and lost timeouts; high priority, disabling and blocking commands | `PoolSuffices`, `BlockingAlone`, `IInv` | 463,000 states |
| `ser_blocking` | 3 commands, 2 threads | `BlockingAlone`: violated | - |
| `ser_waiting` | 3 commands, one requested twice | `WaitingTellsBlocking`: violated | - |
| `ser_cursor` | as `ser_safe`, no cancel | `CursorInQueue`: violated | - |
| `ser_urgent` | as `ser_cursor`, with a high-priority command | `PurgeComplete`: violated | - |

The runs of serialization allow deadlock because a component nobody calls any more,
each command having been requested `MaxRequests` times, has nothing to do.

**Bounds.** Three levels are all the tree has. Two siblings are needed for a stop on
one to meet an active transition on the other, once below a psoc (`tree`) and once
below the driver (`psocs`). Three threads are needed for one to hold, one to wait and
one to interfere; two threads can sleep on the same event while the third runs the
operation they wait for. Nothing else is bounded: queues cannot outgrow the threads.
The proofs remove these bounds for all but the liveness properties.

`ifaces`: two interfaces and two nodes let an entry be given to another interface while
somebody still has the first; one operator can hold up a teardown while the other comes
and goes. With one entry beyond `ReplayedSlots` there is one the replay misses: the
code's array has more entries (`WLAN_MAX_VDEVS + WLAN_MAX_ML_VDEVS`) than the replay
looks at. Nothing is bounded but these sets. The circle of `rtnl` needs one interface
only.

`ser_*`: two commands of one vdev are needed for order and for a walk with a
remembered node, two vdevs for commands beside each other, two threads for a step
into every gap between two locked bodies. `MaxRequests` bounds how often a command is
requested, `MaxTimeouts` how many timeouts are unhandled at a time; `MaxPending` is
the code's 4, or 1 where a full list is wanted. The pool has a buffer for every
place in the lists, as in the code, wherever it is asked whether it suffices. In
`ser_edges` both vdevs fill their lists, and requests meet the empty pool.

**Symmetry.** In `ser_*` without liveness the buffers of the pool are
interchangeable. In `Dsc` threads are, in the runs whose cfg says so, none of which
has a liveness property.

**Fairness.** `Dsc`: `SteadySpec` has weak fairness on what a thread does once it is in a
protected section, and none on beginning one. Sections are finite by design:
with `WLAN_DSC_DEBUG` an operation or a transition that lasts longer than a minute
panics (`DSC_OP_TIMEOUT_MS`, `DSC_TRANS_TIMEOUT_MS` in `__wlan_dsc.h`). A waiter on
the driver is served unconditionally. A waiter on a psoc is served if the driver's
transitions pause now and then, and a waiter on a vdev if those of driver and psoc
pause at the same time: the code gives them priority at every stop, so without
that condition the properties are false.

`Serialization`: `FairSpec` is weakly fair to each thread's `Step` (nothing in a call
that has begun waits, and callbacks return), to the timers and to the scheduler's
queue. Nobody has to remove a command: its timer does. `EventuallyReleased` holds
without blocking commands and cancels only. With them the findings below leave a
counter or a bit in a state in which pending commands are not moved any more.

`OsifVdev`: `FairSpec` is weakly fair to what a call does once it has begun, until
`Over`, and strongly fair to the mode change, because it competes for the rtnl lock with
a user who may call again and again: a kernel mutex is handed to those who wait for it.

**Findings.**

- `rtnl`. A delete comes in while a restart replays its commands, and is queued on its
  vdev with the rtnl lock held. A mode change that comes after it is queued on the driver
  and goes first when the restart ends. It then waits for the rtnl lock to close its
  first interface, and the delete waits for the mode change to end. The timers of a
  `WLAN_DSC_DEBUG` build assert that no transition waits (`__wlan_dsc.c:232`) or lasts
  (`:189`) that long. In behaviours without this overtaking every call returns
  (`NoOtherCircle`).
- `ser_blocking`. Between a dequeue and the move that follows it the lock is free. A
  blocking command of another vdev may become active there, and the move then
  activates a second command beside it without a look at `blocking_cmd_active`.
  `BlockingAlone` holds as long as calls do not overlap (`ser_edges`, and
  `BlockingIsAlone` below).
- `ser_waiting`. `blocking_cmd_waiting` is counted up by the question whether a command
  may be active, also when the request is then refused, and not when the command is
  queued for another reason; it no longer says whether a blocking command is pending.
- `ser_cursor`. A cancel goes on from a list node it remembered across its callbacks,
  although another thread may have moved it off the list.
- `ser_urgent`. A purge visits as many nodes as the queue had at its start. A
  high-priority command that arrives at the front uses one of them up, and a command
  of the vdev being deleted stays pending. Without high-priority commands
  `PurgeComplete` holds (`ser_safe`, and `PurgeIsComplete` below).

A comment that is out of date, without a run: `wlan_dsc_vdev.c:151` says that during the
psoc transition of a restart a vdev request is "rejected and queued", with `E_BUSY`; the
code answers `E_INVAL` (line 174), and the unit test expects what the code does.

Each property of a passing run has a mutant (the operators marked *Mutant*), a
plausible slip in the function it replaces, that TLC shows to break it.

## 5. Proofs

### `Dsc`

`DscProofs` proves, for every finite or infinite set of threads and every tree that
satisfies `TreeAssumption`, that `Spec` implies always `TypeOK`,
`TreeExclusion /\ OwnersHold`, `NoStrandedWaiter`, `DrainedMeansQuiet`,
`NoLostWakeup`, and the step property `WaitersBlockDownTree`; and that `IInv` also
holds under `SteadySpec`.

None of the properties is inductive by itself. `IInv` adds what they lean on:

- `ActiveInv`, `QueueInv`, `OpsInv`: what a node records about a thread and what the
  thread is doing agree. Exclusion needs this to turn "no transition is active" into
  "no thread holds one".
- `DyingInv`: a node under destruction is quiet, and its waiters, if any, are held
  back by the destroyer's own transition, so aborting them strands nobody.
- `WalkInv`: the nodes a walk has left behind are on the walker's paths and have no
  operations. It stays true because `can_op` on such a node sees the walker's
  transition; this is the heart of `DrainedMeansQuiet` and, with `OpsInv`, of
  `NoLostWakeup`: a walker's event can only be reset while operations are still in
  flight, and no operation starts where a walker sleeps.

The proof has a lemma per action. The long one is `trans_stop`: `TriggerFacts` shows
that the waiters a stop starts are on disjoint paths with nothing active on them, and
that every waiter it leaves is held back by something still active, just started, or
queued above it. `NoStrandedWaiter` is then preserved, although the stop removed the
very transition that may have held the waiter back.

`TreeLock` proves `LockKeepsPromise`: holders exclude each other along every path, and
one that was told it is alone stays alone, because nobody begins to use a path that is
held. `DscLockProofs` proves `DscImplementsTreeLock`, that `Dsc`'s `Spec` implies
`ImplementsTreeLock`, for every tree and set of threads. It shows for each action of
`Dsc` the step of `TreeLock` it is, or that it is a stutter. Two of them need the
inductive invariant: `TransStop` is a `LetGo` because of `TriggerFacts`, and
`WaitForOpsDone` is a `BeAlone` because of `WalkInv`, which makes a series of looks
at single nodes as good as one look at all.

Assumed are `TreeAssumption` of `Dsc` (the tree has three levels, its parts are
disjoint) and nothing else.

### `OsifVdev`

`OsifVdevProofs` proves that `Spec` implies always `TypeOK`, `SectionKeepsNode`,
`LookupUnambiguous` and `EntriesConserved`, and the step property `UpStaysUp`, for any
sets of interfaces, nodes and operators and any number of entries, with any number of
them seen by the replay. Assumed are `SlotsAssumption` (at least one entry, the replay
looks at no more than there are) and `NoneAssumption` (NULL is neither an interface, a
node nor an entry).

The properties speak of one moment; why they last is in the parts of `IInv`:

- `PhaseInv`, `TransInv`: the transitions of driver and psoc follow from where mode
  change and restart are, and exclude each other although both threads may be under
  way; a transition on a vdev is the user's, active only while none above it is, and
  queued only behind an active psoc or a driver that waits or is active. This keeps the
  mode change from closing an interface that a delete has in its hands, with the one
  exception of a delete that sleeps (`Asleep`): its entry may be unregistered under it,
  but not freed, because it holds the rtnl lock;
- `UserInv`, `ModeInv`: what the user and the mode change hold at each step between two
  lock regions: an add has its entry before it has a node, a delete its entry with the
  node still in it, a close has unregistered the entry but not yet freed the node;
- `NodesInv`, `OpsInv`: a node is in at most one entry, and every operation is on a node
  that its entry still has: whoever frees a node has waited for its operations in a
  transition, under which none begins;
- `CommandInv`: a cached command belongs to an interface that is down, and still does
  when the replay acts on the command it read; nothing else a restart does closes an
  interface.

There is a lemma for each action, or for a group of actions that leave the registry
alone.

### `Serialization`

`SerializationProofs` proves that `Spec` implies always `TypeOK`, `NodesConserved`,
`RoomForActive`, `ActivatorHasNode`, `MarksServed` and `ReleasedOnce`, and the step
property `InOrder`, for any commands and vdevs, any of them blocking, urgent or
queue-disabling, any pool, any finite set of threads, all bounds, and with failing
timers and lost timeouts. Assumed is `CmdAssumption` alone: the constants have their
types, NULL is none of the values, a cancel request names at least one queue and is not
the purge of a deleted vdev (`CloseSession` makes those), and the threads are finitely
many, without which "as many releases as threads about to make
one" would have no meaning.

Calls nest, so the invariant is stated over *places*: a thread and a height in its
stack, counted from the bottom. A step of a thread only changes what is at its topmost
place and above, so every other call in progress, its own callers' included, keeps its
place and its frame; a small set of step shapes (a frame is popped, swapped, covered by
another, or begun on an empty stack) serves all actions.

- `FrameInv`: a walk has a queue to walk, remembers the command it still has to
  release, and a walk by the activator's own pointer is of the active queue.
- `BitsInv`, `ActivationInv`: only active nodes carry marks, and the mark for
  activation is there exactly while one place is activating the node. `RemoveActive`
  and the cancel look only at that mark; these two make it mean what it should, and
  give `ActivatorHasNode`.
- `TimerInv`, `UntimedServed`: a cancel of an active command gives up if it finds no
  timer. It is harmless because an active node without a timer has an activator that
  will start it, or that has failed and is about to dequeue the node. Without this
  `MarksServed` is not preserved by a cancel.
- `BitmapInv`: the bit of a vdev belongs to one active node or to one cancelled node
  whose callbacks are running. `RoomForActive` counts what this part says without
  counting, and is derived from it.
- `NodesConserved`, `MarksServed` and `ReleasedOnce` themselves. For the last, a lemma
  counts: a step that takes a node of a command off a list either begins its release or
  the command is put on the other list, so both sides of the equation change alike.

`InOrder` is a step property: a request may activate at once only if nothing of
its vdev is pending, and both kinds of move take the first node of its vdev. For the
walk over the pdev's list this needs that the walk stops at the *first* node whose
vdev has no active command, and that nodes it passed over are of other vdevs.

### `Serialization`, on conditions

Three properties that the runs check are not true of every instance, or of every
behaviour. `SerializationConditions` states under which conditions they are and proves
them from `IInv` and one more invariant each.

| theorem | condition | concludes |
|---|---|---|
| `PoolIsEnough` | `PoolSized`: finitely many vdevs, and a buffer for each place of their lists, `MaxPending` pending and one active | always `PoolSuffices` |
| `BlockingIsAlone` | always `CallsDoNotOverlap` (one thread at a time is in a call) and `WaitingCounted` (`blocking_cmd_waiting` is not 0 while a blocking command is pending) | always `BlockingAlone` |
| `PurgeIsComplete` | no high-priority commands, and always `CursorsStay` (the node a purge of a deleted vdev remembers across its callbacks stays in the pending list) | always `PurgeComplete` |

- **The pool.** `wlan_serialization_pdev_create_handler` allocates what `PoolSized` asks
  for: one active command and, with the default limits of `wlan_serialization_main_i.h`,
  four pending ones for each of `WLAN_SER_MAX_VDEVS`. `RoomInv` says that no vdev's
  pending list exceeds its limit: a move or a cancel takes from it and a request looks
  at its length first. The count is a pigeonhole without a sum: if the pool is empty,
  every buffer is a vdev with a number, 0 for its active command and 1, 2, ... for its
  pending ones, and no two buffers have the same; a vdev whose list has room leaves one
  such pair over, so there are fewer buffers than pairs, against `PoolSized`.
- **Blocking commands.** `FlagInv`: every active blocking command has set
  `blocking_cmd_active`, and while it is set only one vdev's bit is, and its command,
  active or leaving, is a blocking one. `MovesInv`: a thread about to move a pending
  command up finds the flag clear. The second is what `ser_blocking` breaks, by a request
  between a dequeue and its move, so calls must not overlap; and a move that looks at one
  vdev's list only does not look at the bits of the others, but relies on the counter, so
  the counter must not be 0 while a blocking command is pending. Refused requests count it
  up as well (`ser_waiting`), which the theorem allows; a counter that wraps to 0 does not.
- **Purges.** The vdev's queue is disabled before the purge begins and no queue is
  enabled again, so no command it wants arrives. `Ahead`, for a purge whose callbacks
  run: every command it wants is behind the node it remembers, within the number of nodes
  it may still visit; `Purged`, once it is done with the pending list: there is none.
  A command another thread appends, moves or cancels keeps `Ahead` (lemma `AheadStays`), and
  a round of the walk leads from `Ahead` to `Ahead` or to `Purged` (lemmas `PendingVisit`,
  `PendingWalk`, `PurgeWalk`). High-priority commands break it (`ser_urgent`), and so does
  a remembered node that leaves the list (`ser_cursor`). It is not enough that the node is
  in the list when the walk goes on, which is what `CursorInQueue` asks: it may have left
  and been queued again at the end, and the walk then skips what lies between.

### Only model-checked

- Every liveness property: temporal reasoning with fairness is out of the prover's
  reach. These are `DriverWaiterServed`, `PsocWaiterServed`, `VdevWaiterServed`,
  `WaitForOpsReturns`, `NoOtherCircle` and `EventuallyReleased`.
- That a condition of `SerializationConditions` other than `PoolSized` holds of an
  instance. They are conditions on how the component is called, and the runs that
  violate `CursorInQueue` and `BlockingAlone` show callers that break them.

## 6. Not modelled

- Of DSC: allocation failures, the `WLAN_DSC_DEBUG` lists and the timers that panic,
  the lifetime of a list node under an unlocked cursor.
- Of osif sync: the psoc and driver registries, of one entry each and the same form;
  they are the contract `Callable` of `Dsc`.
- Of HDD: probe, remove and unload, idle shutdown and restart, what a restart does after
  it was refused the psoc during a mode change, the work items that wait for a vdev
  without the rtnl lock. They change the
  same state from more threads, and their interplay with PLD is only partly in the
  repository.
- Of serialization: the scan queue, rules callbacks, history, object life cycle.
- The other components of `PROJECT.json`, each with its reason there.
