--------------------------- MODULE DscLockProofs ---------------------------
(***************************************************************************)
(* The proof that Dsc implements TreeLock, for every tree and every set of *)
(* threads.                                                                *)
(***************************************************************************)
EXTENDS DscLock, DscProofs

(* The tree gives the lock the paths and spans it asks for.                *)
LEMMA PathsFacts == Lock!PathsOK
<1>1. PathOf \in [Nodes -> SUBSET Nodes] /\ SpanOf \in [Nodes -> SUBSET Nodes]
  BY TreeFacts DEF PathOf, SpanOf
<1>2. \A n \in Nodes : n \in PathOf[n]
  BY DEF PathOf, Related
<1>3. \A n, m \in Nodes : m \in PathOf[n] => n \in PathOf[m]
  BY DEF PathOf, Related
<1>4. \A n \in Nodes : SpanOf[n] \subseteq PathOf[n]
  BY TreeFacts DEF PathOf, SpanOf, Related
<1> QED BY <1>1, <1>2, <1>3, <1>4, TreeAssumption DEF Lock!PathsOK

(* An ancestor-free, descendant-free set of active nodes is exclusive.     *)
LEMMA ExclusiveFacts ==
  ASSUME NEW h,
         \A n \in Nodes : h[n] # None => \A a \in Ancestors(n) : h[a] = None
  PROVE  Lock!Exclusive(h)
BY TreeFacts DEF Lock!Exclusive, PathOf, Related

(* A node for which can_trans answers SUCCESS is free.                     *)
LEMMA FreeFacts ==
  ASSUME IInv, NEW n \in Nodes, CanTrans(n) = "SUCCESS"
  PROVE  Lock!Free(n)
BY CanTransFacts DEF IInv, Lock!Free, PathOf

(* Nobody holds, uses or waits in an initial state of DSC.                *)
LEMMA LockInitStep == Init \/ SteadyInit => Lock!LockInit
BY TreeAssumption DEF Init, SteadyInit, AllIdle, Lock!LockInit, Alone

(* A step that changes neither the transitions nor whose walk has returned *)
(* leaves the lock's third variable alone.                                 *)
LEMMA AloneSame ==
  ASSUME TypeOK, active' = active,
         \A t \in Threads : pc'[t] = "drained" <=> pc[t] = "drained"
  PROVE  Alone' = Alone
BY DEF Alone, TypeOK

(* Every step of Dsc is a step of the lock or leaves it unchanged.         *)
LEMMA LockStep ==
  ASSUME IInv, IInv', [Next]_vars
  PROVE  [Lock!LockNext]_(Lock!lockVars)
<1> USE DEF Lock!lockVars, IInv
<1>0. \A n \in Nodes : ops[n] # {} => n \in live
  BY DEF OpsInv, TypeOK
<1>1. ASSUME NEW n \in Nodes, Create(n) PROVE UNCHANGED Lock!lockVars
  <2>1. active' = active /\ ops' = ops
    BY <1>1, <1>0 DEF Create, TypeOK, ActiveInv
  <2> QED BY <1>1, <2>1, AloneSame DEF Create
<1>2. ASSUME NEW t \in Threads, NEW n \in Nodes,
             DestroyProtected(t, n) \/ DestroyIdle(t, n)
      PROVE  UNCHANGED Lock!lockVars
  BY <1>2, AloneSame DEF DestroyProtected, DestroyIdle, TypeOK
<1>3. ASSUME NEW n \in Nodes, TransAbort(n) PROVE UNCHANGED Lock!lockVars
  <2>1. Head(queue[n]) \in Threads /\ pc[Head(queue[n])] = "pending"
    BY <1>3 DEF TransAbort, TransQueued, QueueInv, TypeOK
  <2> QED BY <1>3, <2>1, AloneSame DEF TransAbort, TypeOK
<1>4. ASSUME NEW n \in Nodes, Detach(n) PROVE UNCHANGED Lock!lockVars
  <2>1. dying[n] \in Threads
    BY <1>4 DEF Detach, TypeOK
  <2> QED BY <1>4, <2>1, AloneSame DEF Detach, TypeOK
<1>5. ASSUME NEW t \in Threads, NEW n \in Nodes, OpStart(t, n) PROVE Lock!Use(t, n)
  BY <1>5, FreeFacts, AloneSame DEF OpStart, Lock!Use, TypeOK
<1>6. ASSUME NEW t \in Threads, OpStop(t) PROVE Lock!Leave(t, at[t]) /\ at[t] \in Nodes
  BY <1>6, AloneSame DEF OpStop, Lock!Leave, OpsInv, PlaceInv, TypeOK
<1>7. ASSUME NEW t \in Threads, NEW n \in Nodes, TransStart(t, n) PROVE Lock!Hold(t, n)
  <2>1. Alone' = Alone
    <3>1. Lock!Free(n)
      BY <1>7, FreeFacts DEF TransStart
    <3>2. active[n] = None
      BY <3>1, PathsFacts DEF Lock!Free, Lock!PathsOK
    <3> QED BY <1>7, <3>2, TreeAssumption DEF TransStart, Alone, TypeOK
  <2> QED BY <1>7, <2>1, FreeFacts DEF TransStart, Lock!Hold
<1>8. ASSUME NEW t \in Threads, NEW n \in Nodes, TransStartWait(t, n)
      PROVE  UNCHANGED Lock!lockVars
  BY <1>8, AloneSame DEF TransStartWait, TypeOK
<1>9. ASSUME NEW t \in Threads,
             \/ TranWaitGranted(t) \/ TranWaitAborted(t)
             \/ WaitForOps(t) \/ OpsEventWake(t) \/ \E m \in Nodes : CheckOps(t, m)
      PROVE  UNCHANGED Lock!lockVars
  BY <1>9, AloneSame DEF TranWaitGranted, TranWaitAborted, WaitForOps, OpsEventWake,
     CheckOps, TypeOK
<1>10. ASSUME NEW t \in Threads, WaitForOpsDone(t)
       PROVE  Lock!BeAlone(at[t]) /\ at[t] \in Nodes
  <2>1. at[t] \in Nodes /\ active[at[t]] = t /\ active' = active /\ ops' = ops
    BY <1>10 DEF WaitForOpsDone, PlaceInv, OwnersHold, Holding
  <2>2. \A m \in SpanOf[at[t]] : ops[m] = {}
    <3>1. \A m \in Scope(at[t]) : ops[m] = {}
      BY <1>10, <2>1 DEF WaitForOpsDone, WalkInv, TypeOK
    <3>2. \A m \in SpanOf[at[t]] : m \in Nodes /\ (m \in live => m \in Scope(at[t]))
      BY <2>1, TreeFacts DEF SpanOf, Scope, DownTree
    <3> QED BY <3>1, <3>2, <1>0
  <2>3. Alone' = Alone \cup {at[t]}
    <3>1. \A u \in Threads : pc'[u] = "drained" <=> u = t \/ pc[u] = "drained"
      BY <1>10 DEF WaitForOpsDone, TypeOK
    <3>2. \A n \in Nodes : active[n] = t => n = at[t]
      BY TreeAssumption DEF ActiveInv
    <3>3. \A n \in Nodes : active[n] # None => active[n] \in Threads
      BY DEF TypeOK
    <3>4. active[at[t]] # None /\ pc'[active[at[t]]] = "drained"
      BY <2>1, <3>1, TreeAssumption
    <3> QED BY <2>1, <3>1, <3>2, <3>3, <3>4 DEF Alone
  <2> QED BY <2>1, <2>2, <2>3, TreeAssumption DEF Lock!BeAlone, TypeOK
<1>11. ASSUME NEW t \in Threads, TransStop(t) PROVE Lock!LetGo(at[t]) /\ at[t] \in Nodes
  <2> DEFINE n == at[t]
             act == [active EXCEPT ![n] = None]
             S == Triggers(act, n)
  <2>1. /\ n \in Nodes /\ active[n] = t /\ StoppedBy(n) = n
        /\ S \subseteq Nodes
        /\ \A m \in S : queue[m] # <<>> /\ act[m] = None
    BY <1>11, TriggerFacts DEF TransStop, TypeOK, Related
  <2>2. /\ active' = [m \in Nodes |-> IF m \in S THEN Head(queue[m]) ELSE act[m]]
        /\ pc' = [u \in Threads |->
                    IF u = t THEN "idle"
                    ELSE IF \E m \in S : Head(queue[m]) = u THEN "granted"
                    ELSE pc[u]]
        /\ ops' = ops
    BY <1>11, <2>1 DEF TransStop, StopAndTrigger
  <2>3. \A m \in S : Head(queue[m]) \in Threads /\ pc[Head(queue[m])] = "pending"
    <3> HIDE DEF S, act
    <3> SUFFICES ASSUME NEW m \in S
                 PROVE  Head(queue[m]) \in Threads /\ pc[Head(queue[m])] = "pending"
      OBVIOUS
    <3>1. m \in Nodes /\ queue[m] \in Seq(Threads) /\ queue[m] # <<>>
      BY <2>1 DEF TypeOK
    <3>2. Head(queue[m]) = queue[m][1] /\ 1 \in 1..Len(queue[m])
      BY <3>1
    <3> QED BY <3>1, <3>2 DEF QueueInv
  <2>4. pc[t] # "pending"
    BY <1>11 DEF TransStop
  <2>5. /\ act \in [Nodes -> Threads \cup {None}]
        /\ act[n] = None /\ \A k \in Nodes : k # n => act[k] = active[k]
    BY <2>1 DEF TypeOK
  <2> HIDE DEF act, S
  <2>6. \A m \in Nodes \ {n} : active[m] # None => active'[m] = active[m]
    BY <2>1, <2>2, <2>5
  <2>7. active'[n] # active[n]
    BY <2>1, <2>2, <2>3, <2>4, <2>5, TreeAssumption
  <2>8. Alone' = Alone \ {n}
    <3>1. \A m \in S : pc'[active'[m]] # "drained"
      BY <2>1, <2>2, <2>3, <2>4
    <3>2. \A u \in Threads : u # t /\ pc[u] # "pending" => pc'[u] = pc[u]
      BY <2>2, <2>3
    <3>3. \A m \in Nodes \ {n} : active[m] # None =>
            active[m] \in Threads /\ active[m] # t /\ pc[active[m]] # "pending"
      BY DEF ActiveInv, TypeOK, Holding
    <3>4. \A m \in Nodes \ (S \cup {n}) : active'[m] = active[m]
      BY <2>2, <2>5
    <3>5. n \notin S => active'[n] = None
      BY <2>1, <2>2, <2>5
    <3> QED BY <2>1, <2>5, <2>6, <3>1, <3>2, <3>3, <3>4, <3>5 DEF Alone
  <2>9. Lock!Exclusive(active')
    BY ExclusiveFacts DEF TreeExclusion
  <2> QED
    BY <2>1, <2>2, <2>6, <2>7, <2>8, <2>9, TreeAssumption DEF Lock!LetGo, TypeOK
<1>12. CASE SetRecovering \/ SetUnloading
  BY <1>12, AloneSame DEF SetRecovering, SetUnloading
<1>13. CASE UNCHANGED vars
  BY <1>13, AloneSame DEF vars
<1> QED
  BY <1>1, <1>2, <1>3, <1>4, <1>5, <1>6, <1>7, <1>8, <1>9, <1>10, <1>11, <1>12, <1>13
     DEF Next, Begin, Proceed, Destroy, Lock!LockNext

(* DSC implements the tree lock: whatever the threads do, what they see of *)
(* dsc_*_op_start, trans_start(_wait), trans_stop and wait_for_ops is a    *)
(* behaviour of TreeLock.                                                  *)
THEOREM DscImplementsTreeLock == Spec => ImplementsTreeLock
<1>1. Init => Lock!LockInit
  BY LockInitStep
<1>2. IInv /\ IInv' /\ [Next]_vars => [Lock!LockNext]_(Lock!lockVars)
  BY LockStep
<1> QED BY <1>1, <1>2, Invariance, PTL DEF Spec, ImplementsTreeLock, Lock!LockSpec
============================================================================
