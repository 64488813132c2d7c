------------------------------ MODULE TreeLock ------------------------------
(***************************************************************************)
(* What DSC promises the rest of the WLAN driver, without queues, events   *)
(* or walks: a lock over the nodes of a tree.  A thread that holds a node  *)
(* excludes every other holder from the paths through it at once, and      *)
(* newcomers from using them; once it has been told that it is ALONE, the  *)
(* scope of its node has no users until it lets go.                        *)
(***************************************************************************)
EXTENDS TLAPS

CONSTANTS
  Threads,
  Nodes,
  Path,     \* node -> the nodes on the paths of the tree through it
  Span,     \* node -> the nodes its holder waits for to be alone
  None

(* What the two functions have to be: paths are symmetric, and a holder    *)
(* waits only for nodes on its own paths.                                  *)
PathsOK ==
  /\ Path \in [Nodes -> SUBSET Nodes]
  /\ \A n \in Nodes : n \in Path[n]
  /\ \A n, m \in Nodes : m \in Path[n] => n \in Path[m]
  /\ Span \in [Nodes -> SUBSET Nodes]
  /\ \A n \in Nodes : Span[n] \subseteq Path[n]
  /\ None \notin Threads

VARIABLES
  holder,   \* node -> the thread that holds it, or None
  users,    \* node -> the threads that use it
  alone     \* the nodes whose holder has been told that it is alone

lockVars == <<holder, users, alone>>

LockTypeOK ==
  /\ holder \in [Nodes -> Threads \cup {None}]
  /\ users \in [Nodes -> SUBSET Threads]
  /\ alone \subseteq Nodes

Exclusive(h) ==
  \A n \in Nodes : h[n] # None => \A m \in Path[n] \ {n} : h[m] = None

Free(n) == \A m \in Path[n] : holder[m] = None

LockInit ==
  /\ holder = [n \in Nodes |-> None]
  /\ users = [n \in Nodes |-> {}]
  /\ alone = {}

Use(t, n) ==
  /\ Free(n)
  /\ users' = [users EXCEPT ![n] = @ \cup {t}]
  /\ UNCHANGED <<holder, alone>>

Leave(t, n) ==
  /\ t \in users[n]
  /\ users' = [users EXCEPT ![n] = @ \ {t}]
  /\ UNCHANGED <<holder, alone>>

Hold(t, n) ==
  /\ Free(n)
  /\ holder' = [holder EXCEPT ![n] = t]
  /\ UNCHANGED <<users, alone>>

(* The holder lets go of n.  In the same step others may be given n or any *)
(* free nodes, as many as exclude each other nowhere.                      *)
LetGo(n) ==
  /\ holder[n] # None
  /\ holder' \in [Nodes -> Threads \cup {None}]
  /\ holder'[n] # holder[n]
  /\ \A m \in Nodes \ {n} : holder[m] # None => holder'[m] = holder[m]
  /\ Exclusive(holder')
  /\ alone' = alone \ {n}
  /\ UNCHANGED users

(* One look at the whole scope finds nobody.                               *)
BeAlone(n) ==
  /\ holder[n] # None
  /\ \A m \in Span[n] : users[m] = {}
  /\ alone' = alone \cup {n}
  /\ UNCHANGED <<holder, users>>

LockNext ==
  \/ \E t \in Threads, n \in Nodes : Use(t, n) \/ Leave(t, n) \/ Hold(t, n)
  \/ \E n \in Nodes : LetGo(n) \/ BeAlone(n)

LockSpec == LockInit /\ [][LockNext]_lockVars

(* The promise: holders exclude each other, and one that has been told so  *)
(* is alone in its scope.                                                  *)
LockPromise ==
  /\ Exclusive(holder)
  /\ \A n \in alone : holder[n] # None /\ \A m \in Span[n] : users[m] = {}

(* Every behaviour of the lock keeps the promise: nobody starts to use a   *)
(* path that is held, so a holder that was alone stays alone.              *)
THEOREM LockKeepsPromise ==
  ASSUME PathsOK
  PROVE  LockSpec => [](LockTypeOK /\ LockPromise)
<1> DEFINE Inv == LockTypeOK /\ LockPromise
<1> USE PathsOK DEF PathsOK
<1>1. LockInit => Inv
  BY DEF LockInit, LockTypeOK, LockPromise, Exclusive
<1>2. Inv /\ [LockNext]_lockVars => Inv'
  <2> SUFFICES ASSUME Inv, [LockNext]_lockVars PROVE Inv'
    OBVIOUS
  <2> USE DEF LockTypeOK, LockPromise, Exclusive
  <2>1. ASSUME NEW t \in Threads, NEW n \in Nodes, Use(t, n) PROVE Inv'
    BY <2>1 DEF Use, Free
  <2>2. ASSUME NEW t \in Threads, NEW n \in Nodes, Leave(t, n) PROVE Inv'
    BY <2>2 DEF Leave
  <2>3. ASSUME NEW t \in Threads, NEW n \in Nodes, Hold(t, n) PROVE Inv'
    BY <2>3 DEF Hold, Free
  <2>4. ASSUME NEW n \in Nodes, LetGo(n) PROVE Inv'
    BY <2>4 DEF LetGo
  <2>5. ASSUME NEW n \in Nodes, BeAlone(n) PROVE Inv'
    BY <2>5 DEF BeAlone
  <2>6. CASE UNCHANGED lockVars
    BY <2>6 DEF lockVars
  <2> QED BY <2>1, <2>2, <2>3, <2>4, <2>5, <2>6 DEF LockNext
<1> QED BY <1>1, <1>2, PTL DEF LockSpec
============================================================================
