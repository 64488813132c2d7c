------------------------------ MODULE DscLock ------------------------------
(***************************************************************************)
(* Dsc implements TreeLock: a transition is a hold, an operation a use,    *)
(* and a thread is alone when its walk of *_wait_for_ops has returned.     *)
(***************************************************************************)
EXTENDS Dsc

(* The nodes a node shares a path with; the scope of a walk as if every    *)
(* node were alive.                                                        *)
PathOf == [n \in Nodes |-> {m \in Nodes : Related(n, m)}]
SpanOf ==
  [n \in Nodes |->
     IF n \in Vdevs THEN {n, PsocOf[n], Driver}
     ELSE {m \in Nodes : m = n \/ n \in Ancestors(m)}]

Alone == {n \in Nodes : active[n] # None /\ pc[active[n]] = "drained"}

Lock == INSTANCE TreeLock
          WITH Path <- PathOf, Span <- SpanOf,
               holder <- active, users <- ops, alone <- Alone

(* The code's three-level checks, queues, triggers and unlocked walks      *)
(* behave like the lock of TreeLock: in particular a stop with all its     *)
(* triggers is one hand-over between compatible holders, and a walk that   *)
(* looks at one node at a time is one look at the whole scope.             *)
ImplementsTreeLock == Lock!LockSpec
============================================================================
