----------------------------- MODULE DscProofs -----------------------------
(***************************************************************************)
(* Proofs about Dsc, for every tree and every set of threads.              *)
(***************************************************************************)
EXTENDS Dsc, SequenceTheorems, TLAPS

---------------------------------------------------------------------------
(* The tree has three levels, and the ancestors of a node form a chain.    *)
LEMMA TreeFacts ==
  /\ \A n \in Nodes : Ancestors(n) \subseteq Nodes
  /\ \A n \in Nodes : n \notin Ancestors(n)
  /\ \A n \in Nodes : \A a \in Ancestors(n) : Ancestors(a) \subseteq Ancestors(n)
  /\ \A n \in Nodes : \A a, b \in Ancestors(n) : Related(a, b)
  /\ \A n \in Nodes : n # Driver => Driver \in Ancestors(n)
  /\ Ancestors(Driver) = {}
  /\ \A p \in Psocs : p \in Nodes /\ Ancestors(p) = {Driver}
  /\ \A v \in Vdevs : v \in Nodes /\ Ancestors(v) = {PsocOf[v], Driver}
                        /\ PsocOf[v] \in Psocs
  /\ Driver \in Nodes /\ Driver \notin Psocs /\ Driver \notin Vdevs
  /\ \A p \in Psocs : p \notin Vdevs
  /\ \A n \in Nodes : n = Driver \/ n \in Psocs \/ n \in Vdevs
BY TreeAssumption DEF Nodes, Ancestors, Related

(* can_trans answers SUCCESS only where no transition is active or queued  *)
(* on the node or above it, nor active below it.                           *)
LEMMA CanTransFacts ==
  ASSUME TypeOK, ActiveInv, NEW n \in Nodes, CanTrans(n) = "SUCCESS"
  PROVE  /\ \A m \in Nodes : Related(n, m) => active[m] = None
         /\ queue[n] = <<>>
         /\ \A a \in Ancestors(n) : queue[a] = <<>>
<1>1. CASE n = Driver
  BY <1>1, TreeFacts DEF CanTrans, DriverCanTrans, ActiveOrQueued, ActiveDownTree,
     TransActive, TransQueued, DownTree, ActiveInv, Related
<1>2. CASE n \in Psocs
  BY <1>2, TreeFacts DEF CanTrans, PsocCanTrans, ActiveOrQueued, ActiveDownTree,
     TransActive, TransQueued, DownTree, ActiveInv, Related
<1>3. CASE n \in Vdevs
  BY <1>3, TreeFacts DEF CanTrans, VdevCanTrans, ActiveOrQueued,
     TransActive, TransQueued, Related
<1> QED BY <1>1, <1>2, <1>3, TreeFacts

(* While can_trans answers SUCCESS for n, no thread holds a transition on   *)
(* a path through n.                                                       *)
LEMMA NoHolderNearby ==
  ASSUME IInv, NEW n \in Nodes, CanTrans(n) = "SUCCESS", NEW u \in Threads,
         pc[u] \in Holding
  PROVE  ~Related(at[u], n)
BY CanTransFacts, TreeAssumption DEF IInv, TypeOK, OwnersHold, PlaceInv, Holding,
   Related

(* When can_trans does not answer SUCCESS and a wait is allowed, some other *)
(* transition stands in the way that will trigger the waiter when it stops. *)
LEMMA CannotTransFacts ==
  ASSUME IInv, NEW n \in live, CanTrans(n) \notin {"SUCCESS", "INVAL"}
  PROVE  HeldBack(n)
<1> USE TreeFacts DEF IInv, TypeOK, NoStrandedWaiter, HeldBack, ActiveOrQueued, TransActive
<1>1. CASE n = Driver
  BY <1>1 DEF CanTrans, DriverCanTrans
<1>2. CASE n \in Psocs
  BY <1>2 DEF CanTrans, PsocCanTrans
<1>3. CASE n \in Vdevs
  BY <1>3 DEF CanTrans, VdevCanTrans
<1> QED BY <1>1, <1>2, <1>3

(* Creating a node: it is idle, and its parent is there to outlive it.     *)
LEMMA CreateStep ==
  ASSUME IInv, NEW n \in Nodes, Create(n)
  PROVE  IInv'
<1> USE DEF IInv
<1>1. TypeOK'
  BY DEF TypeOK, Create
<1>2. PlaceInv'
  BY TreeFacts DEF PlaceInv, Create, Callable, Parent
<1>3. ActiveInv'
  BY DEF ActiveInv, Create
<1>4. QueueInv'
  BY DEF QueueInv, Create
<1>5. OpsInv'
  BY DEF OpsInv, Create
<1>6. DyingInv'
  BY TreeFacts DEF DyingInv, Create, Callable, Parent, DownTree
<1>7. WalkInv'
  BY DEF WalkInv, Create
<1>8. TreeExclusion'
  BY DEF TreeExclusion, Create
<1>9. OwnersHold'
  BY DEF OwnersHold, Create, ActiveInv
<1>10. NoStrandedWaiter'
  BY TreeFacts, TreeAssumption DEF NoStrandedWaiter, Create, ActiveInv, QueueInv,
     HeldBack, ActiveOrQueued, ActiveDownTree, TransActive, TransQueued, DownTree
<1>11. DrainedMeansQuiet'
  BY DEF TypeOK, DrainedMeansQuiet, Create, Scope, DownTree
<1>12. NoLostWakeup'
  BY DEF NoLostWakeup, Create, WalkInv
<1> QED BY <1>1, <1>2, <1>3, <1>4, <1>5, <1>6, <1>7, <1>8, <1>9, <1>10, <1>11, <1>12

(* Beginning a destroy under a transition held up the tree: that           *)
(* transition is what holds back the waiters still on the node.            *)
LEMMA DestroyProtectedStep ==
  ASSUME IInv, NEW t \in Threads, NEW n \in Nodes, DestroyProtected(t, n)
  PROVE  IInv'
<1> USE DEF IInv
<1>1. TypeOK'
  BY DEF TypeOK, DestroyProtected
<1>2. PlaceInv'
  BY DEF PlaceInv, DestroyProtected
<1>3. ActiveInv'
  BY DEF ActiveInv, DestroyProtected
<1>4. QueueInv'
  BY DEF QueueInv, DestroyProtected
<1>5. OpsInv'
  BY DEF OpsInv, DestroyProtected
<1>6. DyingInv'
  BY DEF DyingInv, DestroyProtected, Quiescent, Callable, DownTree, Holding
<1>7. WalkInv'
  BY DEF WalkInv, DestroyProtected
<1>8. TreeExclusion'
  BY DEF TreeExclusion, DestroyProtected
<1>9. OwnersHold'
  BY DEF OwnersHold, DestroyProtected
<1>10. NoStrandedWaiter'
  BY DEF NoStrandedWaiter, DestroyProtected, HeldBack, ActiveOrQueued,
     ActiveDownTree, TransActive, TransQueued, DownTree
<1>11. DrainedMeansQuiet'
  BY DEF DrainedMeansQuiet, DestroyProtected, Scope, DownTree
<1>12. NoLostWakeup'
  BY DEF NoLostWakeup, DestroyProtected
<1> QED BY <1>1, <1>2, <1>3, <1>4, <1>5, <1>6, <1>7, <1>8, <1>9, <1>10, <1>11, <1>12

(* Beginning a destroy with nothing held: the node has no waiter to        *)
(* strand.                                                                 *)
LEMMA DestroyIdleStep ==
  ASSUME IInv, NEW t \in Threads, NEW n \in Nodes, DestroyIdle(t, n)
  PROVE  IInv'
<1> USE DEF IInv
<1>1. TypeOK'
  BY DEF TypeOK, DestroyIdle, PC
<1>2. PlaceInv'
  BY DEF TypeOK, PlaceInv, DestroyIdle
<1>3. ActiveInv'
  BY DEF ActiveInv, DestroyIdle, Holding
<1>4. QueueInv'
  BY DEF QueueInv, DestroyIdle
<1>5. OpsInv'
  BY DEF OpsInv, DestroyIdle
<1>6. DyingInv'
  BY DEF TypeOK, DyingInv, DestroyIdle, Quiescent, Callable, TransQueued, DownTree,
     Holding
<1>7. WalkInv'
  BY DEF WalkInv, DestroyIdle
<1>8. TreeExclusion'
  BY DEF TreeExclusion, DestroyIdle
<1>9. OwnersHold'
  BY DEF OwnersHold, DestroyIdle, Holding
<1>10. NoStrandedWaiter'
  BY DEF NoStrandedWaiter, DestroyIdle, HeldBack, ActiveOrQueued, ActiveDownTree,
     TransActive, TransQueued, DownTree
<1>11. DrainedMeansQuiet'
  BY DEF DrainedMeansQuiet, DestroyIdle, Scope, DownTree
<1>12. NoLostWakeup'
  BY DEF NoLostWakeup, DestroyIdle
<1> QED BY <1>1, <1>2, <1>3, <1>4, <1>5, <1>6, <1>7, <1>8, <1>9, <1>10, <1>11, <1>12

(* One round of the abort loop takes the oldest waiter off the queue and   *)
(* leaves the others as they were.                                         *)
LEMMA TransAbortStep ==
  ASSUME IInv, NEW n \in Nodes, TransAbort(n)
  PROVE  IInv'
<1> USE DEF IInv
<1> DEFINE h == Head(queue[n])
<1>0. /\ h \in Threads /\ pc[h] = "pending" /\ at[h] = n
      /\ queue[n] \in Seq(Threads) /\ Len(queue[n]) > 0
      /\ Tail(queue[n]) \in Seq(Threads)
      /\ dying[n] # None
  BY DEF TypeOK, TransAbort, TransQueued, QueueInv
<1>1. TypeOK'
  BY <1>0 DEF TypeOK, TransAbort, PC
<1>2. PlaceInv'
  BY <1>0 DEF PlaceInv, TransAbort
<1>3. ActiveInv'
  BY <1>0 DEF ActiveInv, TransAbort, Holding
<1>4. QueueInv'
  BY DEF TypeOK, QueueInv, TransAbort, TransQueued
<1>5. OpsInv'
  BY <1>0 DEF OpsInv, TransAbort
<1>6. DyingInv'
  BY <1>0 DEF DyingInv, TransAbort, DownTree
<1>7. WalkInv'
  BY <1>0 DEF WalkInv, TransAbort
<1>8. TreeExclusion'
  BY DEF TreeExclusion, TransAbort
<1>9. OwnersHold'
  BY DEF OwnersHold, TransAbort, Holding
<1>10. NoStrandedWaiter'
  <2> SUFFICES ASSUME NEW m \in live', queue'[m] # <<>>
               PROVE  HeldBack(m)'
    BY DEF NoStrandedWaiter, TransQueued
  <2>1. HeldBack(m) /\ n \notin Ancestors(m)
    BY <1>0 DEF TransAbort, DyingInv, NoStrandedWaiter, TransQueued, DownTree
  <2> QED
    BY <2>1 DEF TransAbort, HeldBack, ActiveOrQueued, ActiveDownTree, TransActive,
       TransQueued, DownTree
<1>11. DrainedMeansQuiet'
  BY DEF DrainedMeansQuiet, TransAbort, Scope, DownTree
<1>12. NoLostWakeup'
  BY DEF NoLostWakeup, TransAbort
<1> QED BY <1>1, <1>2, <1>3, <1>4, <1>5, <1>6, <1>7, <1>8, <1>9, <1>10, <1>11, <1>12

(* Detaching a node: it has become quiet, so nobody refers to it any more. *)
LEMMA DetachStep ==
  ASSUME IInv, NEW n \in Nodes, Detach(n)
  PROVE  IInv'
<1> USE DEF IInv
<1> DEFINE d == dying[n]
<1>quiet. /\ d \in Threads /\ n \in live /\ active[n] = None /\ queue[n] = <<>>
          /\ ops[n] = {} /\ DownTree(n) = {}
          /\ \A t \in Threads : waiton[t] # n
          /\ pc[d] = "destroying" => at[d] = n
  <2>1. dying[n] # None /\ queue[n] = <<>>
    BY DEF Detach, TransQueued
  <2>2. d \in Threads
    BY <2>1 DEF TypeOK
  <2>3. pc[d] \in Holding => pc[d] # "destroying"
    BY DEF Holding
  <2> QED BY <2>1, <2>2, <2>3 DEF DyingInv
<1>upd. /\ live' = live \ {n} /\ dying' = [dying EXCEPT ![n] = None]
        /\ UNCHANGED <<active, queue, ops, event, done, waiton, recovering, unloading>>
  BY DEF Detach
<1>thr. /\ \A t \in Threads : pc'[t] # "idle" => pc'[t] = pc[t] /\ at'[t] = at[t]
        /\ \A t \in Threads : pc[t] # "destroying" \/ t # d => pc'[t] = pc[t] /\ at'[t] = at[t]
        /\ pc' \in [Threads -> PC] /\ at' \in [Threads -> Nodes \cup {None}]
  <2>1. CASE pc[d] = "destroying"
    BY <1>quiet, <2>1 DEF Detach, TypeOK, PC
  <2>2. CASE pc[d] # "destroying"
    BY <1>quiet, <2>2 DEF Detach, TypeOK, PC
  <2> QED BY <2>1, <2>2
<1>same. \A t \in Threads : pc[t] # "destroying" => pc'[t] = pc[t] /\ at'[t] = at[t]
  BY <1>thr
<1> HIDE DEF d
<1>1. TypeOK'
  BY <1>quiet, <1>upd, <1>thr DEF TypeOK
<1>2. PlaceInv'
  BY <1>quiet, <1>upd, <1>thr DEF PlaceInv, DownTree
<1>3. ActiveInv'
  <2> SUFFICES ASSUME NEW m \in Nodes, active[m] # None
               PROVE  m \in live' /\ at'[active[m]] = m /\ pc'[active[m]] \in Holding
    BY <1>upd DEF ActiveInv
  <2>1. active[m] \in Threads /\ m # n
    BY <1>quiet DEF TypeOK
  <2>2. m \in live /\ at[active[m]] = m /\ pc[active[m]] \in Holding
    BY DEF ActiveInv
  <2>3. pc[active[m]] # "destroying"
    BY <2>2 DEF Holding
  <2> QED BY <1>upd, <1>same, <2>1, <2>2, <2>3
<1>4. QueueInv'
  BY <1>quiet, <1>upd, <1>thr DEF TypeOK, QueueInv
<1>5. OpsInv'
  BY <1>quiet, <1>upd, <1>thr DEF TypeOK, OpsInv
<1>6. DyingInv'
  <2> SUFFICES ASSUME NEW m \in Nodes, dying'[m] # None
               PROVE  /\ m \in live /\ m # n /\ active[m] = None /\ ops[m] = {}
                      /\ DownTree(m)' = {}
                      /\ \A t \in Threads : waiton[t] # m
                      /\ \/ /\ pc'[dying[m]] = "destroying" /\ at'[dying[m]] = m
                            /\ queue[m] = <<>>
                         \/ pc'[dying[m]] \in Holding /\ at'[dying[m]] \in Ancestors(m)
    BY <1>upd DEF DyingInv
  <2>1. m # n /\ dying[m] # None /\ dying[m] \in Threads
    BY <1>upd DEF TypeOK
  <2>2. DownTree(m)' = {}
    BY <1>upd, <2>1 DEF DyingInv, DownTree
  <2>3. CASE pc[dying[m]] = "destroying"
    <3>1. at[dying[m]] = m /\ queue[m] = <<>>
      BY <2>1, <2>3 DEF DyingInv, Holding
    <3>2. dying[m] # d \/ pc[d] # "destroying"
      BY <1>quiet, <2>1, <3>1
    <3> QED BY <1>thr, <2>1, <2>2, <2>3, <3>1, <3>2 DEF DyingInv
  <2>4. CASE pc[dying[m]] # "destroying"
    BY <1>same, <2>1, <2>2, <2>4 DEF DyingInv
  <2> QED BY <2>3, <2>4
<1>7. WalkInv'
  <2>1. \A t \in Threads : waiton[t] # None => waiton[t] \in live /\ waiton[t] # n
    BY <1>quiet DEF WalkInv
  <2>2. \A t \in Threads : pc[t] \in {"draining", "drained"} =>
          pc'[t] = pc[t] /\ at'[t] = at[t]
    BY <1>same
  <2> QED BY <1>upd, <2>1, <2>2 DEF WalkInv, Related
<1>8. TreeExclusion'
  BY <1>upd DEF TreeExclusion
<1>9. OwnersHold'
  BY <1>quiet, <1>upd, <1>thr DEF OwnersHold, Holding
<1>10. NoStrandedWaiter'
  <2> SUFFICES ASSUME NEW m \in live', queue'[m] # <<>>
               PROVE  HeldBack(m)'
    BY DEF NoStrandedWaiter, TransQueued
  <2>1. m \in live /\ m # n /\ HeldBack(m) /\ n \notin Ancestors(m)
    BY <1>quiet, <1>upd, <1>thr DEF NoStrandedWaiter, TransQueued, DownTree
  <2> QED
    BY <1>quiet, <1>upd, <2>1 DEF HeldBack, ActiveOrQueued, ActiveDownTree,
       TransActive, TransQueued, DownTree
<1>11. DrainedMeansQuiet'
  <2>1. \A t \in Threads : pc'[t] = "drained" => pc[t] = "drained" /\ at'[t] = at[t]
    BY <1>thr
  <2>2. \A k \in Nodes : Scope(k)' \subseteq Scope(k)
    BY <1>upd DEF Scope, DownTree
  <2>3. \A t \in Threads : pc[t] = "drained" => at[t] \in Nodes
    BY DEF PlaceInv
  <2> QED BY <1>upd, <2>1, <2>2, <2>3 DEF DrainedMeansQuiet
<1>12. NoLostWakeup'
  BY <1>quiet, <1>upd, <1>thr DEF NoLostWakeup
<1> QED BY <1>1, <1>2, <1>3, <1>4, <1>5, <1>6, <1>7, <1>8, <1>9, <1>10, <1>11, <1>12

(* Starting an operation: can_op answered SUCCESS, so no owner on the      *)
(* node's paths has waited, or is waiting, for operations to end.          *)
LEMMA OpStartStep ==
  ASSUME IInv, NEW t \in Threads, NEW n \in Nodes, OpStart(t, n)
  PROVE  IInv'
<1> USE DEF IInv
<1>0. \A u \in Threads : pc[u] \in Holding => ~Related(at[u], n)
  BY NoHolderNearby DEF OpStart
<1>1. TypeOK'
  BY DEF TypeOK, OpStart, PC
<1>2. PlaceInv'
  BY DEF TypeOK, PlaceInv, OpStart
<1>3. ActiveInv'
  BY DEF ActiveInv, OpStart, Holding
<1>4. QueueInv'
  BY DEF QueueInv, OpStart
<1>5. OpsInv'
  BY DEF TypeOK, OpsInv, OpStart, Callable
<1>6. DyingInv'
  BY DEF DyingInv, OpStart, Callable, DownTree, Holding
<1>7. WalkInv'
  BY <1>0 DEF WalkInv, OpStart, Holding
<1>8. TreeExclusion'
  BY DEF TreeExclusion, OpStart
<1>9. OwnersHold'
  BY DEF OwnersHold, OpStart, Holding
<1>10. NoStrandedWaiter'
  BY DEF NoStrandedWaiter, OpStart, HeldBack, ActiveOrQueued, ActiveDownTree,
     TransActive, TransQueued, DownTree
<1>11. DrainedMeansQuiet'
  BY <1>0, TreeFacts DEF DrainedMeansQuiet, OpStart, Scope, DownTree, Related,
     Holding
<1>12. NoLostWakeup'
  BY <1>0 DEF NoLostWakeup, WalkInv, OpStart, Holding
<1> QED BY <1>1, <1>2, <1>3, <1>4, <1>5, <1>6, <1>7, <1>8, <1>9, <1>10, <1>11, <1>12

(* Stopping an operation: the last one sets the event sleepers wait for.   *)
LEMMA OpStopStep ==
  ASSUME IInv, NEW t \in Threads, OpStop(t)
  PROVE  IInv'
<1> USE DEF IInv
<1>1. TypeOK'
  BY DEF TypeOK, OpStop, PC
<1>2. PlaceInv'
  BY DEF TypeOK, PlaceInv, OpStop
<1>3. ActiveInv'
  BY DEF ActiveInv, OpStop, Holding
<1>4. QueueInv'
  BY DEF QueueInv, OpStop
<1>5. OpsInv'
  BY DEF TypeOK, OpsInv, OpStop
<1>6. DyingInv'
  BY DEF DyingInv, OpStop, DownTree, Holding
<1>7. WalkInv'
  BY DEF WalkInv, OpStop
<1>8. TreeExclusion'
  BY DEF TreeExclusion, OpStop
<1>9. OwnersHold'
  BY DEF OwnersHold, OpStop, Holding
<1>10. NoStrandedWaiter'
  BY DEF NoStrandedWaiter, OpStop, HeldBack, ActiveOrQueued, ActiveDownTree,
     TransActive, TransQueued, DownTree
<1>11. DrainedMeansQuiet'
  BY DEF DrainedMeansQuiet, OpStop, Scope, DownTree
<1>12. NoLostWakeup'
  BY DEF TypeOK, NoLostWakeup, OpStop, OpsInv
<1> QED BY <1>1, <1>2, <1>3, <1>4, <1>5, <1>6, <1>7, <1>8, <1>9, <1>10, <1>11, <1>12

(* Starting a transition at once: no other is active on the node's paths.  *)
LEMMA TransStartStep ==
  ASSUME IInv, NEW t \in Threads, NEW n \in Nodes, TransStart(t, n)
  PROVE  IInv'
<1> USE DEF IInv
<1>0. /\ \A m \in Nodes : Related(n, m) => active[m] = None
      /\ queue[n] = <<>>
  BY CanTransFacts DEF TransStart
<1>1. TypeOK'
  BY DEF TypeOK, TransStart, PC
<1>2. PlaceInv'
  BY DEF TypeOK, PlaceInv, TransStart
<1>3. ActiveInv'
  BY DEF TypeOK, ActiveInv, TransStart, Callable, Holding
<1>4. QueueInv'
  BY DEF QueueInv, TransStart
<1>5. OpsInv'
  BY DEF OpsInv, TransStart
<1>6. DyingInv'
  BY CanTransFacts, TreeFacts DEF DyingInv, TransStart, Callable, DownTree, Holding
<1>7. WalkInv'
  BY DEF WalkInv, TransStart
<1>8. TreeExclusion'
  BY <1>0, TreeFacts DEF TreeExclusion, TransStart, Related
<1>9. OwnersHold'
  BY <1>0, TreeAssumption DEF TypeOK, OwnersHold, TransStart, Related
<1>10. NoStrandedWaiter'
  <2> SUFFICES ASSUME NEW m \in live', queue'[m] # <<>>
               PROVE  HeldBack(m)'
    BY DEF NoStrandedWaiter, TransQueued
  <2>1. m \in live /\ HeldBack(m)
    BY DEF TransStart, NoStrandedWaiter, TransQueued
  <2> QED
    BY <1>0, <2>1, TreeAssumption DEF TransStart, HeldBack, ActiveOrQueued,
       ActiveDownTree, TransActive, TransQueued, DownTree
<1>11. DrainedMeansQuiet'
  BY DEF DrainedMeansQuiet, TransStart, Scope, DownTree
<1>12. NoLostWakeup'
  BY DEF NoLostWakeup, TransStart
<1> QED BY <1>1, <1>2, <1>3, <1>4, <1>5, <1>6, <1>7, <1>8, <1>9, <1>10, <1>11, <1>12

(* Queueing a transition: whatever refused it holds the waiter back.       *)
LEMMA TransStartWaitStep ==
  ASSUME IInv, NEW t \in Threads, NEW n \in Nodes, TransStartWait(t, n)
  PROVE  IInv'
<1> USE DEF IInv
<1>1. TypeOK'
  BY DEF TypeOK, TransStartWait, PC
<1>2. PlaceInv'
  BY DEF TypeOK, PlaceInv, TransStartWait
<1>3. ActiveInv'
  BY DEF ActiveInv, TransStartWait, Holding
<1>4. QueueInv'
  BY DEF TypeOK, QueueInv, TransStartWait, Callable
<1>5. OpsInv'
  BY DEF OpsInv, TransStartWait
<1>6. DyingInv'
  BY DEF DyingInv, TransStartWait, Callable, DownTree, Holding
<1>7. WalkInv'
  BY DEF WalkInv, TransStartWait
<1>8. TreeExclusion'
  BY DEF TreeExclusion, TransStartWait
<1>9. OwnersHold'
  BY DEF OwnersHold, TransStartWait, Holding
<1>10. NoStrandedWaiter'
  <2> SUFFICES ASSUME NEW m \in live', queue'[m] # <<>>
               PROVE  HeldBack(m)'
    BY DEF NoStrandedWaiter, TransQueued
  <2>1. m \in live /\ HeldBack(m)
    BY CannotTransFacts DEF TransStartWait, NoStrandedWaiter, TransQueued
  <2>2. \A k \in Nodes : queue[k] # <<>> => queue'[k] # <<>>
    <3>1. queue[n] \in Seq(Threads) /\ queue' = [queue EXCEPT ![n] = Append(queue[n], t)]
      BY DEF TransStartWait, TypeOK
    <3>2. Append(queue[n], t) # <<>>
      BY <3>1, AppendProperties
    <3> QED BY <3>1, <3>2 DEF TypeOK
  <2> QED
    BY <2>1, <2>2, TreeFacts DEF TransStartWait, HeldBack, ActiveOrQueued,
       ActiveDownTree, TransActive, TransQueued, DownTree
<1>11. DrainedMeansQuiet'
  BY DEF DrainedMeansQuiet, TransStartWait, Scope, DownTree
<1>12. NoLostWakeup'
  BY DEF NoLostWakeup, TransStartWait
<1> QED BY <1>1, <1>2, <1>3, <1>4, <1>5, <1>6, <1>7, <1>8, <1>9, <1>10, <1>11, <1>12

(* A triggered waiter wakes up: it owned the transition since the trigger. *)
LEMMA TranWaitGrantedStep ==
  ASSUME IInv, NEW t \in Threads, TranWaitGranted(t)
  PROVE  IInv'
<1> USE DEF IInv
<1>1. TypeOK'
  BY DEF TypeOK, TranWaitGranted, PC
<1>2. PlaceInv'
  BY DEF PlaceInv, TranWaitGranted
<1>3. ActiveInv'
  BY DEF ActiveInv, TranWaitGranted, Holding
<1>4. QueueInv'
  BY DEF QueueInv, TranWaitGranted
<1>5. OpsInv'
  BY DEF OpsInv, TranWaitGranted
<1>6. DyingInv'
  BY DEF DyingInv, TranWaitGranted, DownTree, Holding
<1>7. WalkInv'
  BY DEF WalkInv, TranWaitGranted
<1>8. TreeExclusion'
  BY DEF TreeExclusion, TranWaitGranted
<1>9. OwnersHold'
  BY DEF OwnersHold, TranWaitGranted, Holding
<1>10. NoStrandedWaiter'
  BY DEF NoStrandedWaiter, TranWaitGranted, HeldBack, ActiveOrQueued,
     ActiveDownTree, TransActive, TransQueued, DownTree
<1>11. DrainedMeansQuiet'
  BY DEF DrainedMeansQuiet, TranWaitGranted, Scope, DownTree
<1>12. NoLostWakeup'
  BY DEF NoLostWakeup, TranWaitGranted
<1> QED BY <1>1, <1>2, <1>3, <1>4, <1>5, <1>6, <1>7, <1>8, <1>9, <1>10, <1>11, <1>12

(* An aborted waiter wakes up: it was off the queue since the abort.       *)
LEMMA TranWaitAbortedStep ==
  ASSUME IInv, NEW t \in Threads, TranWaitAborted(t)
  PROVE  IInv'
<1> USE DEF IInv
<1>1. TypeOK'
  BY DEF TypeOK, TranWaitAborted, PC
<1>2. PlaceInv'
  BY DEF TypeOK, PlaceInv, TranWaitAborted
<1>3. ActiveInv'
  BY DEF ActiveInv, TranWaitAborted, Holding
<1>4. QueueInv'
  BY DEF QueueInv, TranWaitAborted
<1>5. OpsInv'
  BY DEF OpsInv, TranWaitAborted
<1>6. DyingInv'
  BY DEF DyingInv, TranWaitAborted, DownTree, Holding
<1>7. WalkInv'
  BY DEF WalkInv, TranWaitAborted
<1>8. TreeExclusion'
  BY DEF TreeExclusion, TranWaitAborted
<1>9. OwnersHold'
  BY DEF OwnersHold, TranWaitAborted, Holding
<1>10. NoStrandedWaiter'
  BY DEF NoStrandedWaiter, TranWaitAborted, HeldBack, ActiveOrQueued,
     ActiveDownTree, TransActive, TransQueued, DownTree
<1>11. DrainedMeansQuiet'
  BY DEF DrainedMeansQuiet, TranWaitAborted, Scope, DownTree
<1>12. NoLostWakeup'
  BY DEF NoLostWakeup, TranWaitAborted
<1> QED BY <1>1, <1>2, <1>3, <1>4, <1>5, <1>6, <1>7, <1>8, <1>9, <1>10, <1>11, <1>12

(* Entering wait_for_ops changes only what the owner is doing.             *)
LEMMA WaitForOpsStep ==
  ASSUME IInv, NEW t \in Threads, WaitForOps(t)
  PROVE  IInv'
<1> USE DEF IInv
<1>1. TypeOK'
  BY DEF TypeOK, WaitForOps, PC
<1>2. PlaceInv'
  BY DEF PlaceInv, WaitForOps
<1>3. ActiveInv'
  BY DEF ActiveInv, WaitForOps, Holding
<1>4. QueueInv'
  BY DEF QueueInv, WaitForOps
<1>5. OpsInv'
  BY DEF OpsInv, WaitForOps
<1>6. DyingInv'
  BY DEF DyingInv, WaitForOps, DownTree, Holding
<1>7. WalkInv'
  BY DEF WalkInv, WaitForOps
<1>8. TreeExclusion'
  BY DEF TreeExclusion, WaitForOps
<1>9. OwnersHold'
  BY DEF OwnersHold, WaitForOps, Holding
<1>10. NoStrandedWaiter'
  BY DEF NoStrandedWaiter, WaitForOps, HeldBack, ActiveOrQueued, ActiveDownTree,
     TransActive, TransQueued, DownTree
<1>11. DrainedMeansQuiet'
  BY DEF DrainedMeansQuiet, WaitForOps, Scope, DownTree
<1>12. NoLostWakeup'
  BY DEF NoLostWakeup, WaitForOps
<1> QED BY <1>1, <1>2, <1>3, <1>4, <1>5, <1>6, <1>7, <1>8, <1>9, <1>10, <1>11, <1>12

(* Looking at one node's count: the walk passes it, or resets its event    *)
(* while operations are still in flight and sleeps.                        *)
LEMMA CheckOpsStep ==
  ASSUME IInv, NEW t \in Threads, NEW m \in Nodes, CheckOps(t, m)
  PROVE  IInv'
<1> USE DEF IInv
<1>0. /\ m \in Scope(at[t]) /\ pc[t] = "draining"
      /\ UNCHANGED <<live, dying, active, queue, ops, pc, at, recovering, unloading>>
  BY DEF CheckOps, WalkNext
<1>split. \/ /\ ops[m] = {}
             /\ done' = [done EXCEPT ![t] = done[t] \cup {m}]
             /\ event' = event /\ waiton' = waiton
          \/ /\ ops[m] # {}
             /\ event' = [event EXCEPT ![m] = FALSE]
             /\ waiton' = [waiton EXCEPT ![t] = m]
             /\ done' = done
  BY DEF CheckOps
<1>1. TypeOK'
  <2>1. CASE ops[m] = {}
    <3>1. done' = [done EXCEPT ![t] = done[t] \cup {m}] /\ UNCHANGED <<event, waiton>>
      BY <2>1 DEF CheckOps
    <3>2. done[t] \cup {m} \in SUBSET Nodes
      BY DEF TypeOK
    <3> QED BY <1>0, <3>1, <3>2 DEF TypeOK
  <2>2. CASE ops[m] # {}
    BY <1>0, <2>2 DEF TypeOK, CheckOps
  <2> QED BY <2>1, <2>2
<1>2. PlaceInv'
  BY DEF PlaceInv, CheckOps
<1>3. ActiveInv'
  BY DEF ActiveInv, CheckOps
<1>4. QueueInv'
  BY DEF QueueInv, CheckOps
<1>5. OpsInv'
  BY DEF OpsInv, CheckOps
<1>6. DyingInv'
  BY DEF TypeOK, DyingInv, CheckOps, DownTree
<1>7. WalkInv'
  <2>1. at[t] \in live
    BY <1>0, TreeAssumption DEF PlaceInv, ActiveInv, OwnersHold, Holding
  <2>2. m \in live /\ Related(at[t], m)
    BY <1>0, <2>1, TreeFacts DEF Scope, DownTree, PlaceInv, Related
  <2> QED BY <1>0, <1>split, <2>2 DEF TypeOK, WalkInv
<1>8. TreeExclusion'
  BY DEF TreeExclusion, CheckOps
<1>9. OwnersHold'
  BY DEF OwnersHold, CheckOps
<1>10. NoStrandedWaiter'
  BY DEF NoStrandedWaiter, CheckOps, HeldBack, ActiveOrQueued, ActiveDownTree,
     TransActive, TransQueued, DownTree
<1>11. DrainedMeansQuiet'
  BY DEF DrainedMeansQuiet, CheckOps, Scope, DownTree
<1>12. NoLostWakeup'
  BY DEF TypeOK, NoLostWakeup, CheckOps, WalkNext
<1> QED BY <1>1, <1>2, <1>3, <1>4, <1>5, <1>6, <1>7, <1>8, <1>9, <1>10, <1>11, <1>12

(* Waking from the event: it is set only when no operation is left.        *)
LEMMA OpsEventWakeStep ==
  ASSUME IInv, NEW t \in Threads, OpsEventWake(t)
  PROVE  IInv'
<1> USE DEF IInv
<1>1. TypeOK'
  BY DEF TypeOK, OpsEventWake
<1>2. PlaceInv'
  BY DEF PlaceInv, OpsEventWake
<1>3. ActiveInv'
  BY DEF ActiveInv, OpsEventWake
<1>4. QueueInv'
  BY DEF QueueInv, OpsEventWake
<1>5. OpsInv'
  BY DEF OpsInv, OpsEventWake
<1>6. DyingInv'
  BY TreeAssumption DEF DyingInv, OpsEventWake, DownTree
<1>7. WalkInv'
  BY DEF WalkInv, OpsEventWake, NoLostWakeup
<1>8. TreeExclusion'
  BY DEF TreeExclusion, OpsEventWake
<1>9. OwnersHold'
  BY DEF OwnersHold, OpsEventWake
<1>10. NoStrandedWaiter'
  BY DEF OpsEventWake, NoStrandedWaiter, HeldBack, ActiveOrQueued, ActiveDownTree,
     TransActive, TransQueued, DownTree
<1>11. DrainedMeansQuiet'
  BY DEF DrainedMeansQuiet, OpsEventWake, Scope, DownTree
<1>12. NoLostWakeup'
  BY DEF NoLostWakeup, OpsEventWake
<1> QED BY <1>1, <1>2, <1>3, <1>4, <1>5, <1>6, <1>7, <1>8, <1>9, <1>10, <1>11, <1>12

(* Leaving wait_for_ops: each node of the walk was found quiet and stayed  *)
(* so.                                                                     *)
LEMMA WaitForOpsDoneStep ==
  ASSUME IInv, NEW t \in Threads, WaitForOpsDone(t)
  PROVE  IInv'
<1> USE DEF IInv
<1>1. TypeOK'
  BY DEF TypeOK, WaitForOpsDone, PC
<1>2. PlaceInv'
  BY DEF PlaceInv, WaitForOpsDone
<1>3. ActiveInv'
  BY DEF ActiveInv, WaitForOpsDone, Holding
<1>4. QueueInv'
  BY DEF QueueInv, WaitForOpsDone
<1>5. OpsInv'
  BY DEF OpsInv, WaitForOpsDone
<1>6. DyingInv'
  BY DEF DyingInv, WaitForOpsDone, DownTree, Holding
<1>7. WalkInv'
  BY DEF WalkInv, WaitForOpsDone
<1>8. TreeExclusion'
  BY DEF TreeExclusion, WaitForOpsDone
<1>9. OwnersHold'
  BY DEF OwnersHold, WaitForOpsDone, Holding
<1>10. NoStrandedWaiter'
  BY DEF NoStrandedWaiter, WaitForOpsDone, HeldBack, ActiveOrQueued, ActiveDownTree,
     TransActive, TransQueued, DownTree
<1>11. DrainedMeansQuiet'
  BY DEF DrainedMeansQuiet, WaitForOpsDone, WalkInv, Scope, DownTree
<1>12. NoLostWakeup'
  BY DEF NoLostWakeup, WaitForOpsDone
<1> QED BY <1>1, <1>2, <1>3, <1>4, <1>5, <1>6, <1>7, <1>8, <1>9, <1>10, <1>11, <1>12

---------------------------------------------------------------------------
(* What a trans_stop by the owner t of a transition on at[t] triggers: the *)
(* nodes of S have waiters, and starting all of them leaves at most one    *)
(* active transition on every path; whoever still waits is held back.      *)
LEMMA TriggerFacts ==
  ASSUME IInv, NEW t \in Threads, pc[t] \in {"trans", "drained"}
  PROVE  LET n == at[t]
             act == [active EXCEPT ![n] = None]
             S == Triggers(act, n)
         IN
           /\ n \in live /\ n \in Nodes /\ active[n] = t /\ StoppedBy(n) = n
           /\ S \subseteq live
           /\ \A m \in S : queue[m] # <<>>
           /\ \A m \in S, k \in Nodes : Related(m, k) => act[k] = None
           /\ \A m, k \in S : Related(m, k) => m = k
           /\ \A m \in live : queue[m] # <<>> =>
                \/ m \in S
                \/ act[m] # None
                \/ \E a \in Ancestors(m) : act[a] # None \/ queue[a] # <<>>
                \/ \E k \in live : m \in Ancestors(k) /\ (act[k] # None \/ k \in S)
<1> DEFINE n == at[t]
           act == [active EXCEPT ![n] = None]
           S == Triggers(act, n)
<1>0. n = at[t] /\ act = [active EXCEPT ![n] = None] /\ S = Triggers(act, n)
  OBVIOUS
<1> SUFFICES
       /\ n \in live /\ n \in Nodes /\ active[n] = t /\ StoppedBy(n) = n
       /\ S \subseteq live
       /\ \A m \in S : queue[m] # <<>>
       /\ \A m \in S, k \in Nodes : Related(m, k) => act[k] = None
       /\ \A m, k \in S : Related(m, k) => m = k
       /\ \A m \in live : queue[m] # <<>> =>
            \/ m \in S
            \/ act[m] # None
            \/ \E a \in Ancestors(m) : act[a] # None \/ queue[a] # <<>>
            \/ \E k \in live : m \in Ancestors(k) /\ (act[k] # None \/ k \in S)
  OBVIOUS
<1> HIDE DEF n, act, S
<1> USE DEF IInv
<1>1. n \in live /\ n \in Nodes /\ active[n] = t /\ t # None
  BY <1>0, TreeAssumption DEF TypeOK, PlaceInv, ActiveInv, OwnersHold, Holding
<1>2. StoppedBy(n) = n
  BY <1>1 DEF StoppedBy, TransActive
<1>3. act \in [Nodes -> Threads \cup {None}]
      /\ act[n] = None /\ \A k \in Nodes : k # n => act[k] = active[k]
  BY <1>0, <1>1 DEF TypeOK
<1>4. \A k \in Nodes : Related(n, k) => act[k] = None
  BY <1>1, <1>3, TreeFacts DEF TreeExclusion, Related
<1>5. live \subseteq Nodes /\ \A m \in live : Ancestors(m) \subseteq live
  BY DEF TypeOK, PlaceInv
<1>6. \A m \in live : queue[m] # <<>> =>
        \/ active[m] # None
        \/ \E a \in Ancestors(m) : active[a] # None \/ queue[a] # <<>>
        \/ \E k \in live : m \in Ancestors(k) /\ active[k] # None
  BY DEF NoStrandedWaiter, HeldBack, ActiveOrQueued, ActiveDownTree, DownTree,
     TransActive, TransQueued
<1>7. \A k \in live : act[k] # None => active[k] # None
  BY <1>3, <1>5
<1> DEFINE Good ==
       /\ S \subseteq live
       /\ \A m \in S : queue[m] # <<>>
       /\ \A m \in S, k \in Nodes : Related(m, k) => act[k] = None
       /\ \A m, k \in S : Related(m, k) => m = k
<1> DEFINE Left(m) ==
       \/ m \in S
       \/ act[m] # None
       \/ \E a \in Ancestors(m) : act[a] # None \/ queue[a] # <<>>
       \/ \E k \in live : m \in Ancestors(k) /\ (act[k] # None \/ k \in S)
<1>8. CASE TransQueued(Driver) /\ n # Driver
  <2>1. S = DriverChecked(act)
    BY <1>0, <1>1, <1>8, TreeFacts DEF Triggers, VdevTriggers, PsocTriggers
  <2>2. Driver \in live
    BY <1>1, <1>5, <1>8, TreeFacts
  <2>3. ASSUME NEW k \in live, act[k] # None PROVE k = Driver \/ Driver \in Ancestors(k)
    BY <1>5, TreeFacts
  <2>4. CASE DriverCanTrigger(act)
    <3>1. S = {Driver} /\ \A k \in live : act[k] = None
      BY <2>1, <2>3, <2>4 DEF DriverChecked, DriverCanTrigger, ActiveDownTree,
         DownTree,
         TransActive
    <3>2. \A k \in Nodes : act[k] = None
      BY <3>1, <1>3 DEF ActiveInv
    <3>3. Good
      BY <3>1, <3>2, <2>2, <1>8 DEF TransQueued
    <3>4. \A m \in live : Left(m)
      BY <3>1, <1>8, <1>5, TreeFacts DEF TransQueued
    <3> QED BY <1>1, <1>2, <3>3, <3>4
  <2>5. CASE ~DriverCanTrigger(act)
    <3>1. S = {}
      BY <2>1, <2>5 DEF DriverChecked
    <3>2. \E k \in live : (k = Driver \/ Driver \in Ancestors(k)) /\ act[k] # None
      BY <2>2, <2>5 DEF DriverCanTrigger, ActiveDownTree, DownTree, TransActive
    <3>3. Left(Driver)
      BY <3>2
    <3>4. \A m \in live : Left(m)
      <4>1. ASSUME NEW m \in live, m # Driver PROVE Left(m)
        <5>1. Driver \in Ancestors(m) /\ queue[Driver] # <<>>
          BY <4>1, <1>8, <1>5, TreeFacts DEF TransQueued
        <5> QED BY <5>1
      <4> QED BY <3>3, <4>1
    <3> QED BY <1>1, <1>2, <3>1, <3>4
  <2> QED BY <2>4, <2>5
<1>9. CASE n = Driver
  <2>1. \A k \in Nodes : act[k] = None
    BY <1>4, <1>9, TreeFacts DEF Related
  <2>2. S = DriverTriggers
    BY <1>0, <1>9, TreeFacts DEF Triggers
  <2>3. CASE TransQueued(Driver)
    <3>1. S = {Driver}
      BY <2>2, <2>3 DEF DriverTriggers
    <3>2. Good
      BY <3>1, <2>1, <2>3, <1>1, <1>9 DEF TransQueued
    <3>3. \A m \in live : Left(m)
      BY <3>1, <2>3, <1>5, TreeFacts DEF TransQueued
    <3> QED BY <1>1, <1>2, <3>2, <3>3
  <2>4. CASE ~TransQueued(Driver)
    <3>1. \A m : m \in S <=> \E p \in Psocs \cap live : m \in PsocOrVdevs(p)
      BY <2>2, <2>4 DEF DriverTriggers, DriverPsocs
    <3>2. \A m : m \in S <=>
            /\ m \in live /\ queue[m] # <<>>
            /\ m \in Psocs \/ (m \in Vdevs /\ queue[PsocOf[m]] = <<>>)
      <4>1. \A p \in Psocs \cap live : \A m : m \in PsocOrVdevs(p) <=>
              \/ m = p /\ queue[p] # <<>>
              \/ /\ queue[p] = <<>> /\ m \in live /\ queue[m] # <<>>
                 /\ m \in Vdevs /\ PsocOf[m] = p
        BY DEF PsocOrVdevs, QueuedOf, PsocVdevs, TransQueued
      <4>2. \A m \in Vdevs \cap live : PsocOf[m] \in Psocs \cap live
        BY <1>5, TreeFacts
      <4>3. ASSUME NEW m, m \in S
            PROVE  /\ m \in live /\ queue[m] # <<>>
                   /\ m \in Psocs \/ (m \in Vdevs /\ queue[PsocOf[m]] = <<>>)
        <5>1. PICK p \in Psocs \cap live : m \in PsocOrVdevs(p)
          BY <3>1, <4>3
        <5> QED BY <4>1, <5>1
      <4>4. ASSUME NEW m, m \in live, queue[m] # <<>>,
                   m \in Psocs \/ (m \in Vdevs /\ queue[PsocOf[m]] = <<>>)
            PROVE  m \in S
        <5>1. CASE m \in Psocs
          BY <3>1, <4>1, <4>4, <5>1
        <5>2. CASE m \in Vdevs /\ queue[PsocOf[m]] = <<>>
          BY <3>1, <4>1, <4>2, <4>4, <5>2
        <5> QED BY <4>4, <5>1, <5>2
      <4> QED BY <4>3, <4>4
    <3>3. Good
      <4>1. \A m, k \in S : Related(m, k) => m = k
        <5>1. \A m, k \in S : m \notin Ancestors(k)
          <6> SUFFICES ASSUME NEW m \in S, NEW k \in S, m \in Ancestors(k) PROVE FALSE
            OBVIOUS
          <6>1. /\ m \in Psocs \/ m \in Vdevs
                /\ queue[m] # <<>>
                /\ k \in Psocs \/ (k \in Vdevs /\ queue[PsocOf[k]] = <<>>)
            BY <3>2
          <6>2. m # Driver
            BY <6>1, TreeFacts
          <6>3. CASE k \in Psocs
            BY <6>2, <6>3, TreeFacts
          <6>4. CASE k \in Vdevs /\ queue[PsocOf[k]] = <<>>
            BY <6>1, <6>2, <6>4, TreeFacts
          <6> QED BY <6>1, <6>3, <6>4
        <5> QED BY <5>1 DEF Related
      <4> QED BY <3>2, <2>1, <4>1
    <3>4. \A m \in live : queue[m] # <<>> => Left(m)
      <4> SUFFICES ASSUME NEW m \in live, queue[m] # <<>> PROVE Left(m)
        OBVIOUS
      <4>1. m \in Psocs \/ m \in Vdevs
        BY <2>4, <1>5, TreeFacts DEF TransQueued
      <4>2. CASE m \in Psocs
        BY <4>2, <3>2
      <4>3. CASE m \in Vdevs
        <5>1. PsocOf[m] \in Ancestors(m)
          BY <4>3, TreeFacts
        <5> QED BY <4>3, <5>1, <3>2
      <4> QED BY <4>1, <4>2, <4>3
    <3> QED BY <1>1, <1>2, <3>3, <3>4
  <2> QED BY <2>3, <2>4
<1>10. CASE ~TransQueued(Driver) /\ n \in Psocs
  <2>1. S = PsocOrVdevs(n)
    BY <1>0, <1>10, TreeFacts DEF Triggers, PsocTriggers
  <2>2. \A m : m \in S <=>
            \/ m = n /\ queue[n] # <<>>
            \/ /\ queue[n] = <<>> /\ m \in live /\ queue[m] # <<>>
               /\ m \in Vdevs /\ PsocOf[m] = n
    BY <2>1 DEF PsocOrVdevs, QueuedOf, PsocVdevs, TransQueued
  <2>3. S \subseteq live /\ \A m \in S : queue[m] # <<>>
    BY <2>2, <1>1
  <2>4. \A m, k \in S : Related(m, k) => m = k
    BY <2>2, <1>10, <1>5, TreeFacts DEF Related
  <2>5. \A m \in S, k \in Nodes : Related(m, k) => Related(n, k)
    BY <2>2, <1>10, <1>5, TreeFacts DEF Related
  <2>6. ASSUME NEW m \in live, queue[m] # <<>> PROVE Left(m)
    <3>1. CASE m = n \/ n \in Ancestors(m)
      <4>1. CASE m = n
        BY <2>2, <2>6, <4>1
      <4>2. CASE n \in Ancestors(m)
        <5>1. m \in Vdevs /\ PsocOf[m] = n
          BY <4>2, <1>5, <1>10, TreeFacts
        <5> QED BY <2>2, <2>6, <4>2, <5>1
      <4> QED BY <3>1, <4>1, <4>2
    <3>2. CASE m # n /\ n \notin Ancestors(m)
      <4>1. m \in Psocs \/ m \in Vdevs
        BY <1>10, <2>6, <1>5, TreeFacts DEF TransQueued
      <4>2. \A k \in live : m \in Ancestors(k) => k # n
        BY <4>1, <1>10, TreeFacts
      <4> QED BY <1>3, <1>5, <1>6, <2>6, <3>2, <4>2
    <3> QED BY <3>1, <3>2
  <2> QED BY <1>1, <1>2, <1>4, <2>3, <2>4, <2>5, <2>6
<1>11. CASE ~TransQueued(Driver) /\ n \in Vdevs
  <2> DEFINE p == PsocOf[n]
  <2>0. p \in Psocs /\ p \in live /\ p \in Nodes /\ n \notin Psocs /\ n # Driver
    BY <1>1, <1>5, <1>11, TreeFacts
  <2>1. S = IF TransQueued(p) THEN PsocChecked(act, p) ELSE QueuedOf({n})
    BY <1>0, <1>11 DEF Triggers, VdevTriggers
  <2>2. ASSUME NEW m \in live, queue[m] # <<>>, m # n, m # p PROVE Left(m)
    <3>1. m \in Psocs \/ m \in Vdevs
      BY <1>11, <2>2, <1>5, TreeFacts DEF TransQueued
    <3>2. n \notin Ancestors(m) /\ \A k \in live : m \in Ancestors(k) => k # n
      BY <2>0, <2>2, <3>1, <1>11, TreeFacts
    <3> QED BY <1>3, <1>5, <1>6, <2>2, <3>2
  <2>3. CASE TransQueued(p) /\ PsocCanTrigger(act, p)
    <3>1. S = {p}
      BY <2>1, <2>3 DEF PsocChecked
    <3>2. \A k \in Nodes : Related(p, k) => act[k] = None
      <4>1. act[Driver] = None /\ act[p] = None
            /\ \A k \in live : p \in Ancestors(k) => act[k] = None
        BY <2>3 DEF PsocCanTrigger, ActiveDownTree, DownTree, TransActive
      <4>2. \A k \in Nodes : p \in Ancestors(k) => act[k] = None
        BY <4>1, <1>3 DEF ActiveInv
      <4> QED BY <4>1, <4>2, <2>0, TreeFacts DEF Related
    <3>3. Good
      BY <3>1, <3>2, <2>0, <2>3 DEF TransQueued
    <3>4. Left(n) /\ Left(p)
      <4>1. p \in Ancestors(n) /\ queue[p] # <<>>
        BY <2>3, <1>11, TreeFacts DEF TransQueued
      <4> QED BY <3>1, <4>1
    <3> QED BY <1>1, <1>2, <2>2, <3>3, <3>4
  <2>4. CASE TransQueued(p) /\ ~PsocCanTrigger(act, p)
    <3>1. S = {}
      BY <2>1, <2>4 DEF PsocChecked
    <3>2. act[Driver] = None /\ act[p] = None
      BY <1>4, <2>0, <1>11, TreeFacts DEF Related
    <3>3. \E k \in live : p \in Ancestors(k) /\ act[k] # None
      BY <3>2, <2>4, <1>11 DEF PsocCanTrigger, ActiveDownTree, DownTree, TransActive
    <3>4. Left(n) /\ Left(p)
      BY <3>3, <2>0, <2>4, <1>11, TreeFacts DEF TransQueued
    <3> QED BY <1>1, <1>2, <2>2, <3>1, <3>4
  <2>5. CASE ~TransQueued(p)
    <3>1. S = IF queue[n] # <<>> THEN {n} ELSE {}
      BY <2>1, <2>5 DEF QueuedOf, TransQueued
    <3>2. Good
      BY <3>1, <1>1, <1>4
    <3>3. (queue[n] # <<>> => Left(n)) /\ queue[p] = <<>>
      BY <3>1, <2>5 DEF TransQueued
    <3> QED BY <1>1, <1>2, <2>2, <3>2, <3>3
  <2> QED BY <2>3, <2>4, <2>5
<1> QED BY <1>1, <1>8, <1>9, <1>10, <1>11, TreeFacts

(* trans_stop by its owner preserves the invariant.                        *)
LEMMA TransStopStep ==
  ASSUME IInv, NEW t \in Threads, TransStop(t)
  PROVE  IInv'
<1> DEFINE n == at[t]
           act == [active EXCEPT ![n] = None]
           S == Triggers(act, n)
<1>a. pc[t] \in {"trans", "drained"} /\ \A k \in Nodes : dying[k] # t
  BY DEF TransStop
<1>b. /\ n \in live /\ n \in Nodes /\ active[n] = t /\ StoppedBy(n) = n
      /\ S \subseteq live
      /\ \A m \in S : queue[m] # <<>>
      /\ \A m \in S, k \in Nodes : Related(m, k) => act[k] = None
      /\ \A m, k \in S : Related(m, k) => m = k
      /\ \A m \in live : queue[m] # <<>> =>
           \/ m \in S
           \/ act[m] # None
           \/ \E a \in Ancestors(m) : act[a] # None \/ queue[a] # <<>>
           \/ \E k \in live : m \in Ancestors(k) /\ (act[k] # None \/ k \in S)
  BY <1>a, TriggerFacts
<1>c. /\ active' = [m \in Nodes |-> IF m \in S THEN Head(queue[m]) ELSE act[m]]
      /\ queue' = [m \in Nodes |-> IF m \in S THEN Tail(queue[m]) ELSE queue[m]]
      /\ pc' = [u \in Threads |->
                  IF u = t THEN "idle"
                  ELSE IF \E m \in S : Head(queue[m]) = u THEN "granted"
                  ELSE pc[u]]
      /\ at' = [at EXCEPT ![t] = None]
      /\ done' = [done EXCEPT ![t] = {}]
      /\ UNCHANGED <<live, dying, ops, event, waiton, recovering, unloading>>
  BY <1>b DEF TransStop, StopAndTrigger
<1> HIDE DEF act, S
<1> USE DEF IInv
<1>d. /\ act \in [Nodes -> Threads \cup {None}]
      /\ act[n] = None /\ \A k \in Nodes : k # n => act[k] = active[k]
      /\ S \subseteq Nodes
  BY <1>b DEF act, TypeOK
(* The threads that are triggered wait, each at the node it is head of.    *)
<1>e. ASSUME NEW m \in S
      PROVE  /\ m \in Nodes /\ queue[m] \in Seq(Threads) /\ Len(queue[m]) > 0
             /\ Head(queue[m]) = queue[m][1] /\ 1 \in 1..Len(queue[m])
             /\ Head(queue[m]) \in Threads /\ Head(queue[m]) # t
             /\ pc[Head(queue[m])] = "pending" /\ at[Head(queue[m])] = m
             /\ Tail(queue[m]) \in Seq(Threads)
             /\ Len(Tail(queue[m])) = Len(queue[m]) - 1
             /\ \A i \in 1..Len(Tail(queue[m])) :
                  i + 1 \in 1..Len(queue[m]) /\ Tail(queue[m])[i] = queue[m][i + 1]
  <2>1. m \in Nodes /\ queue[m] \in Seq(Threads) /\ queue[m] # <<>>
    BY <1>b, <1>d DEF TypeOK
  <2>2. /\ Len(queue[m]) > 0 /\ Head(queue[m]) = queue[m][1] /\ 1 \in 1..Len(queue[m])
        /\ Head(queue[m]) \in Threads /\ Tail(queue[m]) \in Seq(Threads)
        /\ Len(Tail(queue[m])) = Len(queue[m]) - 1
        /\ \A i \in 1..Len(Tail(queue[m])) :
             i + 1 \in 1..Len(queue[m]) /\ Tail(queue[m])[i] = queue[m][i + 1]
    BY <2>1
  <2>3. pc[Head(queue[m])] = "pending" /\ at[Head(queue[m])] = m
    BY <2>1, <2>2 DEF QueueInv
  <2> QED BY <1>a, <2>1, <2>2, <2>3
<1>f. /\ \A u \in Threads : u # t /\ pc[u] # "pending" => pc'[u] = pc[u]
      /\ \A u \in Threads : u # t => at'[u] = at[u]
      /\ \A m \in S : pc'[Head(queue[m])] = "granted"
      /\ \A u \in Threads : u # t /\ pc'[u] # pc[u] =>
           /\ pc'[u] = "granted" /\ pc[u] = "pending"
           /\ at[u] \in S /\ Head(queue[at[u]]) = u
      /\ pc'[t] = "idle" /\ at'[t] = None
  BY <1>c, <1>e DEF TypeOK
<1>g. \A k \in Nodes : active[k] # None /\ k # n => active[k] \in Threads /\ active[k] # t
  BY DEF TypeOK, ActiveInv
<1>1. TypeOK'
  BY <1>b, <1>c, <1>d, <1>e DEF TypeOK, PC
<1>2. PlaceInv'
  BY <1>c, <1>f DEF PlaceInv
<1>3. ActiveInv'
  <2> SUFFICES ASSUME NEW k \in Nodes, active'[k] # None
               PROVE  k \in live /\ at'[active'[k]] = k /\ pc'[active'[k]] \in Holding
    BY <1>c DEF ActiveInv
  <2>1. CASE k \in S
    BY <2>1, <1>b, <1>c, <1>e, <1>f DEF Holding
  <2>2. CASE k \notin S
    <3>1. k # n /\ active'[k] = active[k] /\ active[k] # None
      BY <2>2, <1>c, <1>d
    <3> QED BY <3>1, <1>f, <1>g DEF ActiveInv, Holding
  <2> QED BY <2>1, <2>2
<1>4. QueueInv'
  <2> SUFFICES ASSUME NEW k \in Nodes
               PROVE  /\ queue'[k] # <<>> => k \in live
                      /\ \A i \in 1..Len(queue'[k]) :
                           pc'[queue'[k][i]] = "pending" /\ at'[queue'[k][i]] = k
                      /\ \A i, j \in 1..Len(queue'[k]) :
                           i # j => queue'[k][i] # queue'[k][j]
    BY <1>c DEF QueueInv
  <2>1. CASE k \in S
    <3>1. queue'[k] = Tail(queue[k])
      BY <2>1, <1>c
    <3>2. ASSUME NEW i \in 1..Len(queue'[k])
          PROVE  pc'[queue'[k][i]] = "pending" /\ at'[queue'[k][i]] = k
      <4>1. /\ i + 1 \in 1..Len(queue[k]) /\ queue'[k][i] = queue[k][i + 1]
            /\ i + 1 # 1 /\ queue[k][i + 1] \in Threads
        BY <2>1, <3>1, <1>e
      <4>2. /\ pc[queue[k][i + 1]] = "pending" /\ at[queue[k][i + 1]] = k
            /\ queue[k][i + 1] # Head(queue[k])
        BY <2>1, <4>1, <1>e DEF QueueInv
      <4> QED BY <4>1, <4>2, <1>a, <1>f
    <3>3. ASSUME NEW i \in 1..Len(queue'[k]), NEW j \in 1..Len(queue'[k]), i # j
          PROVE  queue'[k][i] # queue'[k][j]
      <4>1. /\ i + 1 \in 1..Len(queue[k]) /\ queue'[k][i] = queue[k][i + 1]
            /\ j + 1 \in 1..Len(queue[k]) /\ queue'[k][j] = queue[k][j + 1]
            /\ i + 1 # j + 1
        BY <2>1, <3>1, <3>3, <1>e
      <4> QED BY <4>1 DEF QueueInv
    <3> QED BY <2>1, <3>2, <3>3, <1>b
  <2>2. CASE k \notin S
    <3>1. queue'[k] = queue[k] /\ queue[k] \in Seq(Threads)
      BY <2>2, <1>c DEF TypeOK
    <3>2. ASSUME NEW i \in 1..Len(queue[k])
          PROVE  pc'[queue[k][i]] = "pending" /\ at'[queue[k][i]] = k
      <4>1. queue[k][i] \in Threads /\ pc[queue[k][i]] = "pending" /\ at[queue[k][i]] = k
        BY <3>1 DEF QueueInv
      <4> QED BY <4>1, <2>2, <1>a, <1>f
    <3> QED BY <3>1, <3>2 DEF QueueInv
  <2> QED BY <2>1, <2>2
<1>5. OpsInv'
  <2>1. \A k \in Nodes, u \in Threads : u \in ops[k] => pc[u] = "op" /\ at[u] = k /\ k \in live
    BY DEF OpsInv, TypeOK
  <2>2. \A u \in Threads : pc[u] = "op" => pc'[u] = "op" /\ at'[u] = at[u]
    BY <1>a, <1>f
  <2>3. \A u \in Threads : pc'[u] = "op" => pc[u] = "op" /\ at'[u] = at[u]
    BY <1>f
  <2> QED BY <1>c, <2>1, <2>2, <2>3 DEF TypeOK, OpsInv
<1>6. DyingInv'
  <2> SUFFICES ASSUME NEW k \in Nodes, dying[k] # None
               PROVE  /\ k \in live
                      /\ active'[k] = None
                      /\ ops[k] = {}
                      /\ DownTree(k) = {}
                      /\ \A u \in Threads : waiton[u] # k
                      /\ \/ /\ pc'[dying[k]] = "destroying" /\ at'[dying[k]] = k
                            /\ queue'[k] = <<>>
                         \/ pc'[dying[k]] \in Holding /\ at'[dying[k]] \in Ancestors(k)
    BY <1>c DEF DyingInv, DownTree
  <2>1. /\ k \in live /\ active[k] = None /\ ops[k] = {} /\ DownTree(k) = {}
        /\ \A u \in Threads : waiton[u] # k
        /\ \/ pc[dying[k]] = "destroying" /\ at[dying[k]] = k /\ queue[k] = <<>>
           \/ pc[dying[k]] \in Holding /\ at[dying[k]] \in Ancestors(k)
    BY DEF DyingInv
  <2>2. dying[k] \in Threads /\ dying[k] # t
    BY <1>a DEF TypeOK
  <2>3. k \notin S
    <3> SUFFICES ASSUME k \in S PROVE FALSE
      OBVIOUS
    <3>1. pc[dying[k]] \in Holding /\ at[dying[k]] \in Ancestors(k)
      BY <1>b, <2>1
    <3>2. active[at[dying[k]]] = dying[k] /\ at[dying[k]] \in Nodes
      BY <2>2, <3>1, TreeFacts DEF OwnersHold
    <3>3. act[at[dying[k]]] # None
      BY <1>b, <1>d, <2>2, <3>2, TreeAssumption
    <3> QED BY <1>b, <3>1, <3>2, <3>3 DEF Related
  <2>4. active'[k] = None /\ queue'[k] = queue[k]
    BY <1>c, <1>d, <2>1, <2>3
  <2>5. pc[dying[k]] # "pending" => pc'[dying[k]] = pc[dying[k]] /\ at'[dying[k]] = at[dying[k]]
    BY <1>f, <2>2
  <2>6. pc[dying[k]] # "pending"
    BY <2>1 DEF Holding
  <2> QED BY <2>1, <2>4, <2>5, <2>6
<1>7. WalkInv'
  <2> SUFFICES ASSUME NEW u \in Threads
               PROVE  /\ waiton[u] # None =>
                           /\ pc'[u] = "draining"
                           /\ waiton[u] \in live
                           /\ Related(at'[u], waiton[u])
                      /\ done'[u] # {} => pc'[u] \in {"draining", "drained"}
                      /\ \A m \in done'[u] : Related(at'[u], m) /\ ops[m] = {}
    BY <1>c DEF WalkInv, Related
  <2>1. CASE u = t
    BY <2>1, <1>a, <1>c DEF WalkInv, TypeOK
  <2>2. CASE u # t
    <3>1. done'[u] = done[u] /\ at'[u] = at[u]
      BY <2>2, <1>c, <1>f DEF TypeOK
    <3> QED BY <2>2, <3>1, <1>f DEF WalkInv
  <2> QED BY <2>1, <2>2
<1>8. TreeExclusion'
  <2> SUFFICES ASSUME NEW k \in Nodes, active'[k] # None,
                      NEW a \in Ancestors(k), active'[a] # None
               PROVE  FALSE
    BY DEF TreeExclusion
  <2>1. a \in Nodes /\ a # k /\ Related(a, k) /\ Related(k, a)
    BY TreeFacts DEF Related
  <2>2. CASE k \in S \/ a \in S
    BY <2>1, <2>2, <1>b, <1>c
  <2>3. CASE k \notin S /\ a \notin S
    BY <2>1, <2>3, <1>c, <1>d DEF TreeExclusion
  <2> QED BY <2>2, <2>3
<1>9. OwnersHold'
  <2> SUFFICES ASSUME NEW u \in Threads, pc'[u] \in Holding PROVE active'[at'[u]] = u
    BY DEF OwnersHold
  <2>1. u # t /\ at'[u] = at[u]
    BY <1>f DEF Holding
  <2>2. CASE pc'[u] # pc[u]
    BY <2>1, <2>2, <1>c, <1>d, <1>f
  <2>3. CASE pc'[u] = pc[u]
    <3>1. active[at[u]] = u /\ at[u] \in Nodes
      BY <2>3 DEF OwnersHold, PlaceInv, Holding
    <3>2. at[u] # n /\ act[at[u]] = u /\ u # None
      BY <3>1, <2>1, <1>b, <1>d, TreeAssumption
    <3>3. at[u] \notin S
      BY <3>1, <3>2, <1>b DEF Related
    <3> QED BY <2>1, <3>1, <3>2, <3>3, <1>c
  <2> QED BY <2>2, <2>3
<1>10. NoStrandedWaiter'
  <2>1. /\ \A k \in Nodes : k \in S \/ act[k] # None => active'[k] # None
        /\ \A k \in Nodes : queue[k] # <<>> => active'[k] # None \/ queue'[k] # <<>>
    BY <1>c, <1>d, <1>e, TreeAssumption
  <2> SUFFICES ASSUME NEW m \in live, queue'[m] # <<>>
               PROVE  \/ active'[m] # None
                      \/ \E a \in Ancestors(m) : active'[a] # None \/ queue'[a] # <<>>
                      \/ \E k \in live : m \in Ancestors(k) /\ active'[k] # None
    BY <1>c DEF NoStrandedWaiter, HeldBack, ActiveOrQueued, ActiveDownTree,
       DownTree,
       TransActive, TransQueued
  <2>2. m \in Nodes /\ Ancestors(m) \subseteq Nodes /\ live \subseteq Nodes
    BY TreeFacts DEF TypeOK
  <2>3. m \in S \/ queue[m] # <<>>
    BY <1>c, <2>2
  <2> QED BY <2>1, <2>2, <2>3, <1>b
<1>11. DrainedMeansQuiet'
  BY <1>a, <1>c, <1>f DEF DrainedMeansQuiet, Scope, DownTree
<1>12. NoLostWakeup'
  BY <1>c DEF NoLostWakeup
<1> QED BY <1>1, <1>2, <1>3, <1>4, <1>5, <1>6, <1>7, <1>8, <1>9, <1>10, <1>11, <1>12

---------------------------------------------------------------------------
(* An idle tree satisfies the invariant, created or not.                   *)
LEMMA InitIInv == Init \/ SteadyInit => IInv
<1> SUFFICES ASSUME live = {} \/ live = Nodes, AllIdle PROVE IInv
  BY DEF Init, SteadyInit
<1> USE TreeAssumption DEF AllIdle
<1>1. TypeOK
  <2>1. queue \in [Nodes -> Seq(Threads)]
    OBVIOUS
  <2>2. pc \in [Threads -> PC] /\ event \in [Nodes -> BOOLEAN]
    BY DEF PC
  <2> QED BY <2>1, <2>2 DEF TypeOK
<1>2. PlaceInv /\ ActiveInv /\ QueueInv /\ OpsInv /\ WalkInv
  BY TreeFacts DEF PlaceInv, ActiveInv, QueueInv, OpsInv, WalkInv
<1>3. DyingInv
  BY DEF DyingInv
<1>4. TreeExclusion /\ OwnersHold /\ NoLostWakeup
  BY DEF TreeExclusion, OwnersHold, NoLostWakeup, Holding
<1>5. NoStrandedWaiter
  <2>1. \A n \in live : queue[n] = <<>>
    OBVIOUS
  <2> QED BY <2>1 DEF NoStrandedWaiter, TransQueued
<1>6. DrainedMeansQuiet
  BY DEF DrainedMeansQuiet
<1> QED BY <1>1, <1>2, <1>3, <1>4, <1>5, <1>6 DEF IInv

(* The two flags are read only when a call is made.                        *)
LEMMA FlagStep ==
  ASSUME IInv, SetRecovering \/ SetUnloading \/ UNCHANGED vars
  PROVE  IInv'
<1>1. UNCHANGED <<live, dying, active, queue, ops, event, pc, at, done, waiton>>
  BY DEF SetRecovering, SetUnloading, vars
<1>2. recovering' \in BOOLEAN /\ unloading' \in BOOLEAN
  BY DEF SetRecovering, SetUnloading, vars, IInv, TypeOK
<1> QED BY <1>1, <1>2 DEF IInv, TypeOK, PlaceInv, ActiveInv, QueueInv, OpsInv,
   DyingInv, WalkInv,
     TreeExclusion, OwnersHold, NoStrandedWaiter, HeldBack, ActiveOrQueued, ActiveDownTree,
     DownTree, TransActive, TransQueued, DrainedMeansQuiet, Scope, NoLostWakeup

(* Every step of the specification preserves the invariant.                *)
LEMMA NextIInv == IInv /\ [Next]_vars => IInv'
<1> SUFFICES ASSUME IInv, [Next]_vars PROVE IInv'
  OBVIOUS
<1>1. ASSUME NEW n \in Nodes, Create(n) \/ TransAbort(n) \/ Detach(n) PROVE IInv'
  BY <1>1, CreateStep, TransAbortStep, DetachStep
<1>2. ASSUME NEW t \in Threads, Begin(t) PROVE IInv'
  BY <1>2, OpStartStep, TransStartStep, TransStartWaitStep DEF Begin
<1>3. ASSUME NEW t \in Threads, Proceed(t) PROVE IInv'
  BY <1>3, CheckOpsStep, OpStopStep, TranWaitGrantedStep, TranWaitAbortedStep,
     WaitForOpsStep, OpsEventWakeStep, WaitForOpsDoneStep, TransStopStep DEF Proceed
<1>4. ASSUME NEW t \in Threads, Destroy(t) PROVE IInv'
  BY <1>4, DestroyProtectedStep, DestroyIdleStep DEF Destroy
<1> QED BY <1>1, <1>2, <1>3, <1>4, FlagStep DEF Next

(* IInv holds in every reachable state, for every tree and set of threads. *)
THEOREM Invariance == Spec => []IInv
<1> QED BY InitIInv, NextIInv, PTL DEF Spec

(* The same for a tree that exists from the start and is never torn down.  *)
THEOREM SteadyInvariance == SteadySpec => []IInv
<1>1. [SteadyNext]_vars => [Next]_vars
  BY DEF SteadyNext, Next
<1> QED BY <1>1, InitIInv, NextIInv, PTL DEF SteadySpec

(* Every variable keeps its type.                                          *)
THEOREM TypeCorrect == Spec => []TypeOK
<1>1. IInv => TypeOK
  BY DEF IInv
<1> QED BY <1>1, Invariance, PTL

(* Transitions exclude each other along every path of the tree.            *)
THEOREM TransitionsExclude == Spec => []TreeExclusion
<1>1. IInv => TreeExclusion
  BY DEF IInv
<1> QED BY <1>1, Invariance, PTL

(* A thread keeps the transition it was given until it stops it itself.    *)
THEOREM OwnershipIsKept == Spec => []OwnersHold
<1>1. IInv => OwnersHold
  BY DEF IInv
<1> QED BY <1>1, Invariance, PTL

(* No queued waiter is ever forgotten by the stops that should trigger it. *)
THEOREM WaitersAreReached == Spec => []NoStrandedWaiter
<1>1. IInv => NoStrandedWaiter
  BY DEF IInv
<1> QED BY <1>1, Invariance, PTL

(* After wait_for_ops the transition's owner is alone in its scope.        *)
THEOREM DrainIsSound == Spec => []DrainedMeansQuiet
<1>1. IInv => DrainedMeansQuiet
  BY DEF IInv
<1> QED BY <1>1, Invariance, PTL

(* Resetting and setting ops.event never loses the wake-up of a sleeper.   *)
THEOREM WakeupsAreKept == Spec => []NoLostWakeup
<1>1. IInv => NoLostWakeup
  BY DEF IInv
<1> QED BY <1>1, Invariance, PTL

(* A stop triggers no waiter that has a queued transition above it.        *)
LEMMA TriggerPriority ==
  ASSUME IInv, NEW t \in Threads, at[t] \in Nodes,
         NEW m \in Triggers([active EXCEPT ![at[t]] = None], at[t]),
         NEW a \in Ancestors(m)
  PROVE  queue[a] = <<>>
<1> DEFINE n == at[t]
           act == [active EXCEPT ![n] = None]
<1>0. n \in Nodes /\ m \in Triggers(act, n) /\ live \subseteq Nodes
  BY DEF IInv, TypeOK
<1> HIDE DEF n, act
<1>1. m # Driver
  BY TreeFacts
<1>2. ~TransQueued(Driver)
  BY <1>0, <1>1, TreeFacts DEF Triggers, VdevTriggers, PsocTriggers, DriverTriggers,
     DriverChecked
<1>3. m \in Psocs \/ (m \in Vdevs /\ ~TransQueued(PsocOf[m]))
  <2>1. \A p \in Psocs : \A k \in PsocOrVdevs(p) :
          k \in Psocs \/ (k \in Vdevs /\ ~TransQueued(PsocOf[k]))
    BY DEF PsocOrVdevs, QueuedOf, PsocVdevs
  <2>2. CASE n \in Vdevs
    BY <1>0, <1>2, <2>2, TreeFacts DEF Triggers, VdevTriggers, PsocChecked, QueuedOf
  <2>3. CASE n \in Psocs
    BY <1>0, <1>2, <2>1, <2>3, TreeFacts DEF Triggers, PsocTriggers
  <2>4. CASE n = Driver
    BY <1>0, <1>2, <2>1, <2>4, TreeFacts DEF Triggers, DriverTriggers, DriverPsocs
  <2> QED BY <1>0, <2>2, <2>3, <2>4, TreeFacts
<1> QED BY <1>2, <1>3, TreeFacts DEF TransQueued

(* While a transition waits on a node, none starts below it.               *)
THEOREM WaitersHavePriority == Spec => WaitersBlockDownTree
<1> DEFINE A == \A n \in Nodes, m \in live :
                 (TransQueued(n) /\ n \in live /\ n \in Ancestors(m))
                   => active'[m] \in {active[m], None}
<1>1. IInv /\ [Next]_vars => A
  <2> SUFFICES ASSUME IInv, [Next]_vars, NEW n \in Nodes, NEW m \in live,
                      TransQueued(n), n \in Ancestors(m)
               PROVE  active'[m] \in {active[m], None}
    OBVIOUS
  <2>0. m \in Nodes /\ active \in [Nodes -> Threads \cup {None}] /\ queue[n] # <<>>
    BY DEF IInv, TypeOK, TransQueued
  <2>1. ASSUME NEW k \in Nodes, Create(k) PROVE active'[m] = active[m]
    BY <2>0, <2>1 DEF Create
  <2>2. ASSUME NEW t \in Threads, NEW k \in Nodes, TransStart(t, k)
        PROVE  active'[m] = active[m]
    <3>1. k # m
      BY <2>0, <2>2, CanTransFacts DEF IInv, TransStart
    <3> QED BY <2>0, <2>2, <3>1 DEF TransStart
  <2>3. ASSUME NEW t \in Threads, TransStop(t) PROVE active'[m] \in {active[m], None}
    <3>1. pc[t] \in {"trans", "drained"} /\ at[t] \in Nodes /\ StoppedBy(at[t]) = at[t]
      BY <2>3, TriggerFacts DEF TransStop
    <3>2. m \notin Triggers([active EXCEPT ![at[t]] = None], at[t])
      BY <2>0, <3>1, TriggerPriority
    <3>3. active'[m] = [active EXCEPT ![at[t]] = None][m]
      BY <2>0, <2>3, <3>1, <3>2 DEF TransStop, StopAndTrigger
    <3> QED BY <2>0, <3>1, <3>3
  <2>4. CASE UNCHANGED active
    BY <2>4
  <2> QED
    BY <2>1, <2>2, <2>3, <2>4 DEF Next, Begin, Proceed, Destroy, vars, TransAbort,
       Detach,
       OpStart, TransStartWait, CheckOps, OpStop, TranWaitGranted, TranWaitAborted,
       WaitForOps, OpsEventWake, WaitForOpsDone, DestroyProtected, DestroyIdle,
       SetRecovering, SetUnloading
<1> QED BY <1>1, Invariance, PTL DEF Spec, WaitersBlockDownTree

============================================================================
