---------------------- MODULE SerializationConditions ----------------------
(***************************************************************************)
(* What Serialization promises on a condition, and the proofs: that the    *)
(* pool is enough if it has a buffer for every place in the lists, that a  *)
(* blocking command is alone if calls do not overlap and the counter of    *)
(* waiting ones is not lost, and that a purge is complete if nothing jumps *)
(* the queue and the node it remembers stays.                              *)
(* The runs that refute two of these without their conditions show that    *)
(* the conditions are needed.                                              *)
(***************************************************************************)
EXTENDS SerializationProofs

---------------------------------------------------------------------------
(* What a step does to the pending list.                                   *)
Keeps == pending' = pending /\ \A m \in ToSet(pending) : cmd'[m] = cmd[m]
Drops(n) ==
  /\ pending' = RemoveFirst(pending, n)
  /\ \A m \in ToSet(pending) : m # n => cmd'[m] = cmd[m]
Adds(n, c) ==
  /\ ~IsActiveCmdAllowed(c) /\ ~ListFull(c) /\ VdevOf[c] \notin disabled
  /\ pending' = Insert(pending, n, c)
  /\ cmd' = [cmd EXCEPT ![n] = c]
Changes ==
  \/ Keeps
  \/ \E n \in ToSet(pending) : Drops(n)
  \/ \E n \in pool, c \in Cmds : Adds(n, c)

(* A move takes one pending command, or none.                              *)
LEMMA MoveChanges ==
  ASSUME IInv, NEW t \in Threads, MovePendingToActive(t) \/ MoveAgain(t)
  PROVE  Changes
<1> DEFINE Moved == \/ \E bits : MoveNone(t, bits)
                    \/ \E n \in ToSet(pending) : \E bits, lookup :
                         MoveOne(t, n, bits, lookup)
<1>1. MoveFromPdev(t) => Moved
  BY StopAtFacts DEF MoveFromPdev
<1>2. \A v : MoveFromVdev(t, v) => Moved
  BY VdevFrontFacts DEF MoveFromVdev
<1>3. Moved
  <2>1. (\E bits : MoveNone(t, bits)) => Moved
    OBVIOUS
  <2> HIDE DEF Moved
  <2> QED BY <1>1, <1>2, <2>1 DEF MovePendingToActive, MoveAgain
<1> QED BY <1>3 DEF MoveNone, MoveOne, Changes, Keeps, Drops, lists

(* A walk takes a command off the list it walks, or none.                  *)
LEMMA WalkChanges ==
  ASSUME IInv, NEW t \in Threads, NEW f, NEW cursor \in Nodes \cup {None},
         NEW left \in Nat, cursor # None => cursor \in ToSet(Walked(f)),
         Walk(t, f, cursor, left)
  PROVE  Changes
<1>1. PICK M : \/ WalkEnds(t, f, M)
               \/ \E n \in ToSet(Walked(f)) : WalkTakes(t, f, M, n)
  BY WalkFacts
<1>2. CASE WalkEnds(t, f, M)
  BY <1>2 DEF WalkEnds, Changes, Keeps, lists
<1>3. ASSUME NEW n \in ToSet(Walked(f)), WalkTakes(t, f, M, n)
      PROVE  Changes
  <2>1. cmd' = [cmd EXCEPT ![n] = None] /\ cmd \in [Nodes -> Cmds \cup {None}]
    BY <1>3 DEF WalkTakes, Freed, IInv, TypeOK
  <2>2. CASE OnActive(f)
    <3>1. n \notin ToSet(pending) /\ pending' = pending
      BY <1>3, <2>2 DEF WalkTakes, Walked, IInv, NodesConserved
    <3>2. \A m \in ToSet(pending) : cmd'[m] = cmd[m]
      BY <2>1, <3>1, ListFacts
    <3> QED BY <3>1, <3>2 DEF Changes, Keeps
  <2>3. CASE ~OnActive(f)
    <3>1. n \in ToSet(pending) /\ pending' = RemoveFirst(pending, n)
      BY <1>3, <2>3 DEF WalkTakes, Walked
    <3>2. \A m \in ToSet(pending) : m # n => cmd'[m] = cmd[m]
      BY <2>1, ListFacts
    <3> QED BY <3>1, <3>2 DEF Changes, Drops
  <2> QED BY <2>2, <2>3
<1> QED BY <1>1, <1>2, <1>3

(* A step of a cancel.                                                     *)
LEMMA CancelChanges ==
  ASSUME IInv, NEW t \in Threads, CancelStart(t) \/ CancelResume(t)
  PROVE  Changes
<1>1. PICK f : f = Top(t)
  OBVIOUS
<1>2. At(t, "cancel") \/ At(t, "cancelled")
  BY DEF CancelStart, CancelResume
<1>3. Len(Walked(f)) \in Nat
  BY DEF Walked, IInv, TypeOK
<1>4. f.cursor \in Nodes \cup {None} /\ f.left \in Nat
  BY <1>1, <1>2, CancelFrameFacts
<1>5. CASE CancelStart(t)
  BY <1>1, <1>3, <1>5, WalkChanges DEF CancelStart
<1>6. CASE CancelResume(t)
  <2>1. \/ UNCHANGED lists
        \/ /\ ~(f.cursor # None /\ f.cursor \notin ToSet(Walked(f)))
           /\ Walk(t, f, f.cursor, f.left)
    BY <1>1, <1>6 DEF CancelResume
  <2>2. CASE UNCHANGED lists
    BY <2>2 DEF Changes, Keeps, lists
  <2> QED BY <1>4, <2>1, <2>2, WalkChanges
<1> QED BY <1>5, <1>6

(* A removal of an active command leaves the pending ones alone.           *)
LEMMA DequeueChanges ==
  ASSUME IInv, NEW t \in Threads, DequeueCmd(t)
  PROVE  Changes
<1>1. \/ UNCHANGED lists
      \/ \E n \in ToSet(active) : RemoveActive(n)
  BY DEF DequeueCmd, MarkForRemoval, Holding
<1>2. CASE UNCHANGED lists
  BY <1>2 DEF Changes, Keeps, lists
<1>3. ASSUME NEW n \in ToSet(active), RemoveActive(n)
      PROVE  Changes
  <2>1. /\ pending' = pending /\ cmd' = [cmd EXCEPT ![n] = None]
        /\ cmd \in [Nodes -> Cmds \cup {None}] /\ n \notin ToSet(pending)
    BY <1>3 DEF RemoveActive, Freed, IInv, TypeOK, NodesConserved
  <2>2. \A m \in ToSet(pending) : cmd'[m] = cmd[m]
    BY <2>1, ListFacts
  <2> QED BY <2>1, <2>2 DEF Changes, Keeps
<1> QED BY <1>1, <1>2, <1>3

(* An accepted request becomes active or waits.                            *)
LEMMA RequestChanges ==
  ASSUME IInv, NEW t \in Threads, NEW c \in Cmds, RequestAccepted(t, c)
  PROVE  Changes
<1>1. PICK n \in pool :
        /\ cmd' = [cmd EXCEPT ![n] = c]
        /\ \/ pending' = pending
           \/ ~IsActiveCmdAllowed(c) /\ pending' = Insert(pending, n, c)
  BY DEF RequestAccepted
<1>2. ~ListFull(c) /\ VdevOf[c] \notin disabled
  BY DEF RequestAccepted, Refused, Asked
<1>3. \A m \in ToSet(pending) : m # n /\ m \in Nodes
  BY ListFacts
<1>4. cmd \in [Nodes -> Cmds \cup {None}]
  BY DEF IInv, TypeOK
<1>5. \A m \in ToSet(pending) : cmd'[m] = cmd[m]
  BY <1>1, <1>3, <1>4
<1> QED BY <1>1, <1>2, <1>5 DEF Changes, Keeps, Adds

(* A step adds one command to the pending list, takes one off or keeps it. *)
LEMMA NextChanges ==
  ASSUME IInv, [Next]_vars
  PROVE  Changes
<1>1. CASE UNCHANGED lists
  BY <1>1 DEF Changes, Keeps, lists
<1>2. ASSUME NEW t \in Threads, Step(t)
      PROVE  Changes
  <2>1. CASE StartTimer(t) \/ ActivateCallback(t) \/ Settle(t) \/ ActivateTail(t)
             \/ ReleaseMem(t) \/ CancelEnd(t)
    BY <1>1, <2>1
       DEF StartTimer, ActivateCallback, Settle, ActivateTail, ReleaseMem, CancelEnd
  <2> QED BY <1>2, <2>1, MoveChanges, CancelChanges, DequeueChanges DEF Step
<1>3. ASSUME NEW t \in Threads, Begin(t)
      PROVE  Changes
  <2>1. CASE \/ \E c \in Cmds : RequestRefused(t, c) \/ RemoveCmd(t, c)
             \/ \E scope \in Scopes : CancelRequest(t, scope)
             \/ \E v \in Closing : CloseSession(t, v)
    BY <1>1, <2>1 DEF RequestRefused, RemoveCmd, CancelRequest, CloseSession
  <2> QED BY <1>3, <2>1, RequestChanges DEF Begin
<1>4. CASE \/ \E m \in Nodes : TimerExpires(m) \/ TimeoutLost(m)
           \/ HandleTimeout
           \/ \E c \in Rearmed : UpdateTimer(c)
  BY <1>1, <1>4 DEF TimerExpires, TimeoutLost, HandleTimeout, UpdateTimer
<1>5. CASE UNCHANGED vars
  BY <1>1, <1>5 DEF vars
<1> QED BY <1>2, <1>3, <1>4, <1>5 DEF Next

---------------------------------------------------------------------------
(* The pool.  No vdev has more commands waiting than its list has room for. *)
RoomInv == \A v \in Vdevs : Cardinality(VdevPending(v)) <= MaxPending

(* The nodes of a vdev that wait, counted by their places or as a set.     *)
PendingOn(v) == {n \in ToSet(pending) : NodeVdev(n) = v}

(* A set of nodes of a list has as many places in it as elements.          *)
LEMMA PlacesOf ==
  ASSUME NEW s \in Seq(Nodes), IsInjective(s), NEW S \in SUBSET ToSet(s)
  PROVE  /\ IsFiniteSet(S) /\ Cardinality(S) \in Nat
         /\ Cardinality({i \in DOMAIN s : s[i] \in S}) = Cardinality(S)
<1> DEFINE I == {i \in DOMAIN s : s[i] \in S}
           g == [i \in I |-> s[i]]
<1>1. IsFiniteSet(I)
  <2>1. I \in SUBSET (1 .. Len(s)) /\ 1 \in Int /\ Len(s) \in Int
    OBVIOUS
  <2>2. IsFiniteSet(1 .. Len(s))
    BY <2>1, FS_Interval
  <2> QED BY <2>1, <2>2, FS_Subset
<1>2. g \in Bijection(I, S)
  <2>1. g \in [I -> S]
    OBVIOUS
  <2>2. \A i, j \in I : g[i] = g[j] => i = j
    BY DEF IsInjective
  <2>3. \A n \in S : \E i \in I : g[i] = n
    BY DEF ToSet
  <2> HIDE DEF g, I
  <2> QED BY <2>1, <2>2, <2>3 DEF Bijection, Injection, Surjection, IsInjective
<1> HIDE DEF g, I
<1>3. ExistsBijection(I, S)
  BY <1>2 DEF ExistsBijection
<1>4. IsFiniteSet(S) /\ Cardinality(S) = Cardinality(I)
  BY <1>1, <1>3, FS_Bijection
<1> QED BY <1>4, FS_CardinalityType DEF I

(* How many commands of a vdev wait.                                       *)
LEMMA PendingSize ==
  ASSUME IInv, NEW v
  PROVE  /\ IsFiniteSet(PendingOn(v)) /\ Cardinality(PendingOn(v)) \in Nat
         /\ Cardinality(VdevPending(v)) = Cardinality(PendingOn(v))
<1>1. pending \in Seq(Nodes) /\ IsInjective(pending)
  BY DEF IInv, TypeOK, NodesConserved
<1>2. VdevPending(v) = {i \in DOMAIN pending : pending[i] \in PendingOn(v)}
  BY DEF VdevPending, PendingOn, ToSet
<1>3. PendingOn(v) \in SUBSET ToSet(pending)
  BY DEF PendingOn
<1> QED BY <1>1, <1>2, <1>3, PlacesOf

(* A step keeps the lists within their room: only a request makes one      *)
(* longer, and it is refused if the list is full.                          *)
LEMMA RoomStep ==
  ASSUME IInv, IInv', RoomInv, [Next]_vars
  PROVE  RoomInv'
<1> SUFFICES ASSUME NEW v \in Vdevs
             PROVE  Cardinality(VdevPending(v))' <= MaxPending
  BY DEF RoomInv
<1>1. /\ IsFiniteSet(PendingOn(v)) /\ Cardinality(PendingOn(v)) \in Nat
      /\ Cardinality(VdevPending(v)) = Cardinality(PendingOn(v))
      /\ Cardinality(PendingOn(v)) <= MaxPending
  BY PendingSize DEF IInv, RoomInv
<1>2. /\ Cardinality(PendingOn(v))' \in Nat
      /\ Cardinality(VdevPending(v))' = Cardinality(PendingOn(v))'
  <2>1. pending' \in Seq(Nodes) /\ IsInjective(pending')
    BY DEF IInv, TypeOK, NodesConserved
  <2>2. VdevPending(v)' = {i \in DOMAIN pending' : pending'[i] \in PendingOn(v)'}
    BY DEF VdevPending, PendingOn, ToSet
  <2>3. PICK S : S = PendingOn(v)' /\ S \in SUBSET ToSet(pending')
    BY DEF PendingOn
  <2>4. /\ Cardinality(S) \in Nat
        /\ Cardinality({i \in DOMAIN pending' : pending'[i] \in S}) = Cardinality(S)
    BY <2>1, <2>3, PlacesOf
  <2>5. Cardinality(PendingOn(v))' = Cardinality(S)
    BY <2>3
  <2>6. Cardinality(VdevPending(v))' = Cardinality({i \in DOMAIN pending' : pending'[i] \in S})
    BY <2>2, <2>3
  <2> QED BY <2>4, <2>5, <2>6
<1>3. pending \in Seq(Nodes) /\ IsInjective(pending) /\ MaxPending \in Nat
  BY CmdAssumption DEF IInv, TypeOK, NodesConserved
<1>4. CASE Keeps
  <2>1. PendingOn(v)' = PendingOn(v)
    BY <1>4 DEF Keeps, PendingOn, NodeVdev
  <2> QED BY <1>1, <1>2, <2>1
<1>5. ASSUME NEW n \in ToSet(pending), Drops(n)
      PROVE  Cardinality(VdevPending(v))' <= MaxPending
  <2>1. ToSet(pending') = ToSet(pending) \ {n}
    BY <1>3, <1>5, RemoveFacts DEF Drops
  <2>2. PendingOn(v)' \in SUBSET PendingOn(v)
    BY <1>5, <2>1 DEF Drops, PendingOn, NodeVdev
  <2>3. PICK S : S = PendingOn(v)'
    OBVIOUS
  <2>4. Cardinality(S) <= Cardinality(PendingOn(v))
    BY <1>1, <2>2, <2>3, FS_Subset
  <2>5. Cardinality(S) = Cardinality(PendingOn(v))'
    BY <2>3
  <2> QED BY <1>1, <1>2, <1>3, <2>4, <2>5
<1>6. ASSUME NEW n \in pool, NEW c \in Cmds, Adds(n, c)
      PROVE  Cardinality(VdevPending(v))' <= MaxPending
  <2>1. n \in Nodes /\ n \notin ToSet(pending) /\ cmd \in [Nodes -> Cmds \cup {None}]
    BY ListFacts DEF IInv, TypeOK
  <2>2. ToSet(pending') = ToSet(pending) \cup {n}
    BY <1>3, <1>6, <2>1, InsertFacts DEF Adds
  <2>3. cmd'[n] = c /\ \A m \in ToSet(pending) : cmd'[m] = cmd[m]
    BY <1>6, <2>1, ListFacts DEF Adds
  <2>4. PICK S, T : S = PendingOn(v)' /\ T = PendingOn(v)
    OBVIOUS
  <2>5. Cardinality(S) = Cardinality(PendingOn(v))' /\ Cardinality(T) = Cardinality(PendingOn(v))
    BY <2>4
  <2>6. CASE VdevOf[c] = v
    <3>1. S = T \cup {n} /\ n \notin T
      BY <2>1, <2>2, <2>3, <2>4, <2>6 DEF PendingOn, NodeVdev
    <3>2. Cardinality(VdevPending(v)) # MaxPending
      BY <1>6, <2>6 DEF Adds, ListFull
    <3>3. Cardinality(S) = Cardinality(T) + 1
      BY <1>1, <2>4, <3>1, FS_AddElement
    <3> QED BY <1>1, <1>2, <1>3, <2>5, <3>2, <3>3
  <2>7. CASE VdevOf[c] # v
    <3>1. S = T
      BY <2>1, <2>2, <2>3, <2>4, <2>7 DEF PendingOn, NodeVdev
    <3> QED BY <1>1, <1>2, <1>3, <2>5, <3>1
  <2> QED BY <2>6, <2>7
<1> QED BY <1>4, <1>5, <1>6, NextChanges DEF Changes

(* The pool has a buffer for every place in the lists: MaxPending waiting  *)
(* commands and an active one of every vdev.  (The code's five buffers for *)
(* each vdev are that: WLAN_SER_MAX_PENDING_CMDS is four.)                 *)
PoolSized ==
  /\ IsFiniteSet(Vdevs)
  /\ Cardinality(Nodes) >= Cardinality(Vdevs) * (MaxPending + 1)

(* The waiting nodes of each vdev can be numbered from one.                *)
LEMMA Numbering ==
  ASSUME IInv
  PROVE  \E num : \A v : \A n \in PendingOn(v) :
           /\ num[n] \in 1 .. Cardinality(PendingOn(v))
           /\ \A m \in PendingOn(v) : num[m] = num[n] => m = n
<1> DEFINE B(v) == Bijection(1 .. Cardinality(PendingOn(v)), PendingOn(v))
           h(v) == CHOOSE x \in B(v) : TRUE
           num == [n \in ToSet(pending) |->
                     CHOOSE i \in 1 .. Cardinality(PendingOn(NodeVdev(n))) :
                       h(NodeVdev(n))[i] = n]
<1>1. ASSUME NEW v, NEW n \in PendingOn(v)
      PROVE  num[n] \in 1 .. Cardinality(PendingOn(v)) /\ h(v)[num[n]] = n
  <2>1. n \in ToSet(pending) /\ NodeVdev(n) = v
    BY DEF PendingOn
  <2>2. B(v) # {}
    BY PendingSize, FS_CardinalityType DEF ExistsBijection
  <2>3. h(v) \in B(v)
    BY <2>2
  <2>4. PICK H : H = h(v)
    OBVIOUS
  <2>5. \E i \in 1 .. Cardinality(PendingOn(v)) : H[i] = n
    BY <2>3, <2>4 DEF Bijection, Surjection
  <2>6. num[n] = CHOOSE i \in 1 .. Cardinality(PendingOn(v)) : H[i] = n
    BY <2>1, <2>4
  <2> QED BY <2>4, <2>5, <2>6
<1> HIDE DEF h, num
<1> QED BY <1>1

(* If the pool is empty, each place in the lists is taken.                 *)
LEMMA PoolCount ==
  ASSUME IInv, RoomInv, PoolSized
  PROVE  PoolSuffices
<1> SUFFICES ASSUME pool = {}, NEW w \in Vdevs,
                    ~(Cardinality(VdevPending(w)) >= MaxPending)
             PROVE  FALSE
  BY DEF PoolSuffices
<1> DEFINE All == Vdevs \X (0 .. MaxPending)
           T == All \ {<<w, MaxPending>>}
<1>1. /\ \A v : IsFiniteSet(PendingOn(v)) /\ Cardinality(PendingOn(v)) \in Nat
      /\ \A v \in Vdevs : Cardinality(PendingOn(v)) <= MaxPending
      /\ Cardinality(PendingOn(w)) < MaxPending
      /\ MaxPending \in Nat
  BY PendingSize, CmdAssumption DEF RoomInv
<1>2. PICK num : \A v : \A n \in PendingOn(v) :
        /\ num[n] \in 1 .. Cardinality(PendingOn(v))
        /\ \A m \in PendingOn(v) : num[m] = num[n] => m = n
  BY Numbering
<1> DEFINE rank(n) == IF n \in ToSet(active) THEN 0 ELSE num[n]
           g == [n \in Nodes |-> <<NodeVdev(n), rank(n)>>]
<1>3. \A n \in Nodes :
        /\ NodeVdev(n) \in Vdevs
        /\ n \in ToSet(active) \/ n \in PendingOn(NodeVdev(n))
        /\ n \in ToSet(active) => n \notin ToSet(pending)
  BY ListFacts DEF PendingOn, IInv, NodesConserved
<1>4. ASSUME NEW n \in Nodes
      PROVE  /\ rank(n) \in 0 .. MaxPending /\ (rank(n) = 0 <=> n \in ToSet(active))
             /\ NodeVdev(n) = w => rank(n) # MaxPending
  <2>1. CASE n \in ToSet(active)
    BY <1>1, <2>1
  <2>2. CASE n \notin ToSet(active)
    <3>1. n \in PendingOn(NodeVdev(n)) /\ NodeVdev(n) \in Vdevs
      BY <1>3, <2>2
    <3>2. num[n] \in 1 .. Cardinality(PendingOn(NodeVdev(n)))
      BY <1>2, <3>1
    <3>3. rank(n) = num[n]
      BY <2>2
    <3>4. Cardinality(PendingOn(NodeVdev(n))) <= MaxPending
      BY <1>1, <3>1
    <3>5. Cardinality(PendingOn(NodeVdev(n))) \in Nat
      BY <1>1
    <3>6. NodeVdev(n) = w => Cardinality(PendingOn(NodeVdev(n))) < MaxPending
      BY <1>1
    <3> HIDE DEF rank
    <3> QED BY <1>1, <2>2, <3>2, <3>3, <3>4, <3>5, <3>6
  <2> QED BY <2>1, <2>2
<1>5. ASSUME NEW m \in Nodes, NEW n \in Nodes, NodeVdev(m) = NodeVdev(n), rank(m) = rank(n)
      PROVE  m = n
  <2>1. CASE rank(m) = 0
    BY <1>4, <1>5, <2>1 DEF IInv, BitmapInv
  <2>2. CASE rank(m) # 0
    <3>1. m \notin ToSet(active) /\ n \notin ToSet(active)
      BY <1>4, <1>5, <2>2
    <3>2. m \in PendingOn(NodeVdev(n)) /\ n \in PendingOn(NodeVdev(n)) /\ num[m] = num[n]
      BY <1>3, <1>5, <3>1
    <3> QED BY <1>2, <3>2
  <2> QED BY <2>1, <2>2
<1> HIDE DEF rank
<1>6. g \in Injection(Nodes, T)
  <2>1. \A n \in Nodes : <<NodeVdev(n), rank(n)>> \in T
    BY <1>3, <1>4
  <2>2. g \in [Nodes -> T]
    BY <2>1
  <2>3. \A m, n \in Nodes : g[m] = g[n] => m = n
    BY <1>5
  <2> HIDE DEF g, T
  <2> QED BY <2>2, <2>3 DEF Injection, IsInjective
<1>7. IsFiniteSet(T) /\ Cardinality(T) = Cardinality(Vdevs) * (MaxPending + 1) - 1
  <2>1. 0 \in Int /\ MaxPending \in Int
    BY <1>1
  <2>2. IsFiniteSet(0 .. MaxPending) /\ Cardinality(0 .. MaxPending) = MaxPending + 1
    BY <1>1, <2>1, FS_Interval
  <2>3. IsFiniteSet(All) /\ Cardinality(All) = Cardinality(Vdevs) * (MaxPending + 1)
    BY <2>2, FS_Product DEF PoolSized
  <2>4. <<w, MaxPending>> \in All
    BY <1>1
  <2> HIDE DEF All
  <2> QED BY <2>3, <2>4, FS_RemoveElement
<1> HIDE DEF g, T
<1>8. Cardinality(Nodes) <= Cardinality(T)
  BY <1>6, <1>7, FS_Injection
<1>9. Cardinality(Vdevs) \in Nat /\ Cardinality(Nodes) \in Nat
  BY <1>6, <1>7, FS_Injection, FS_CardinalityType DEF PoolSized
<1>10. PICK x : x = Cardinality(Vdevs) * (MaxPending + 1) /\ x \in Int
  BY <1>1, <1>9
<1>11. Cardinality(Nodes) >= x /\ Cardinality(T) = x - 1
  BY <1>7, <1>10 DEF PoolSized
<1> QED BY <1>8, <1>9, <1>10, <1>11

(* A pool with a buffer for every place is enough: it is empty only when   *)
(* each vdev's own pending list is full, so get_cmd_from_pool never fails  *)
(* for a vdev because of the commands of another.                          *)
THEOREM PoolIsEnough == PoolSized => (Spec => []PoolSuffices)
<1> SUFFICES ASSUME PoolSized PROVE Spec => []PoolSuffices
  OBVIOUS
<1>1. Init => RoomInv
  <2>1. Init => \A v : VdevPending(v) = {}
    BY DEF Init, VdevPending
  <2>2. Cardinality({}) = 0 /\ 0 <= MaxPending
    BY FS_EmptySet, CmdAssumption
  <2>3. \A v : VdevPending(v) = {} => Cardinality(VdevPending(v)) <= MaxPending
    BY <2>2
  <2> QED BY <2>1, <2>3 DEF RoomInv
<1>2. IInv /\ IInv' /\ RoomInv /\ [Next]_vars => RoomInv'
  BY RoomStep
<1>3. IInv /\ RoomInv => PoolSuffices
  BY PoolCount
<1> QED BY <1>1, <1>2, <1>3, Invariance, PTL DEF Spec

---------------------------------------------------------------------------
(* Blocking commands.  The conditions: one thread at a time is in a call,  *)
(* and the counter is not zero while a blocking command waits.             *)
CallsDoNotOverlap ==
  \A t, u \in Threads : stack[t] # <<>> /\ stack[u] # <<>> => t = u
WaitingCounted ==
  (\E n \in ToSet(pending) : cmd[n] \in Blocking) => blocking_cmd_waiting # 0

(* A blocking command of the vdev is active or is leaving.                 *)
Blocks(v) ==
  \/ \E n \in ToSet(active) : cmd[n] \in Blocking /\ NodeVdev(n) = v
  \/ \E p \in Places : IsLeaving(FrameAt(p), v) /\ FrameAt(p).cmd \in Blocking

(* blocking_cmd_active is set while a blocking command has the pdev, and   *)
(* then its vdev's is the only bit; a move is the next thing its thread    *)
(* does, and begins while no blocking command is active.                   *)
Ready(s, blocked) == \A i \in DOMAIN s : s[i].pc = "move" => i = 1 /\ ~blocked
FlagInv ==
  /\ \A n \in ToSet(active) : cmd[n] \in Blocking => blocking_cmd_active
  /\ blocking_cmd_active => \E v \in Vdevs : bitmap = {v} /\ Blocks(v)
MovesInv == \A t \in Threads : Ready(stack[t], blocking_cmd_active)
BlockInv == FlagInv /\ MovesInv

(* The frames that replace the topmost one of a thread.                    *)
Goes(t, fs) ==
  /\ fs \in Seq(Frames) /\ Ready(fs, blocking_cmd_active')
  /\ Continue(t, fs)

(* At most one of two frames is a move, and it is the topmost.             *)
LEMMA ReadyFrames ==
  ASSUME NEW b
  PROVE  /\ Ready(<<>>, b)
         /\ \A f : f.pc # "move" \/ ~b => Ready(<<f>>, b)
         /\ \A f, g : (f.pc # "move" \/ ~b) /\ g.pc # "move" => Ready(<<f, g>>, b)
<1>1. DOMAIN <<>> = {}
  OBVIOUS
<1>2. \A f : DOMAIN <<f>> = {1} /\ <<f>>[1] = f
  OBVIOUS
<1>3. \A f, g : DOMAIN <<f, g>> = {1, 2} /\ <<f, g>>[1] = f /\ <<f, g>>[2] = g
  OBVIOUS
<1> QED BY <1>1, <1>2, <1>3 DEF Ready

(* Frames that go on top of those of a thread whose calls do not overlap.  *)
LEMMA MovesContinue ==
  ASSUME StackOK, MovesInv, CallsDoNotOverlap, NEW t \in Threads, stack[t] # <<>>,
         NEW fs, Goes(t, fs)
  PROVE  MovesInv'
<1>1. /\ Tail(stack[t]) \in Seq(Frames) /\ Len(Tail(stack[t])) = Len(stack[t]) - 1
      /\ Len(stack[t]) \in Nat \ {0} /\ fs \in Seq(Frames)
      /\ \A i \in 1 .. Len(stack[t]) - 1 : Tail(stack[t])[i] = stack[t][i + 1]
  BY TopFacts DEF Goes
<1>2. PICK new : new = fs \o Tail(stack[t])
  OBVIOUS
<1>3. stack' = [stack EXCEPT ![t] = new]
  BY <1>2 DEF Goes, Continue
<1>4. ASSUME NEW i \in DOMAIN new, new[i].pc = "move"
      PROVE  i = 1 /\ ~blocking_cmd_active'
  <2>1. i \in 1 .. Len(fs) + (Len(stack[t]) - 1)
    BY <1>1, <1>2
  <2>2. CASE i <= Len(fs)
    <3>1. i \in DOMAIN fs /\ new[i] = fs[i]
      BY <1>1, <1>2, <2>1, <2>2
    <3> QED BY <1>4, <3>1 DEF Goes, Ready
  <2>3. CASE i > Len(fs)
    <3>1. i - Len(fs) \in 1 .. Len(stack[t]) - 1 /\ new[i] = Tail(stack[t])[i - Len(fs)]
      BY <1>1, <1>2, <2>1, <2>3
    <3>2. PICK j : j = i - Len(fs)
      OBVIOUS
    <3>3. j \in 1 .. Len(stack[t]) - 1 /\ new[i] = stack[t][j + 1]
      BY <1>1, <3>1, <3>2
    <3>4. j + 1 \in DOMAIN stack[t] /\ j + 1 # 1
      BY <1>1, <3>3 DEF StackOK
    <3> QED BY <1>4, <3>3, <3>4 DEF MovesInv, Ready
  <2> QED BY <1>1, <2>1, <2>2, <2>3
<1>5. ASSUME NEW u \in Threads
      PROVE  Ready(stack'[u], blocking_cmd_active')
  <2>1. CASE u = t
    BY <1>3, <1>4, <2>1 DEF Ready, StackOK
  <2>2. CASE u # t
    <3>1. stack'[u] = <<>>
      BY <1>3, <2>2 DEF CallsDoNotOverlap, StackOK
    <3> QED BY <3>1, ReadyFrames
  <2> QED BY <2>1, <2>2
<1> QED BY <1>5 DEF MovesInv

(* A thread that makes the only call.                                      *)
LEMMA MovesCall ==
  ASSUME StackOK, CallsDoNotOverlap', NEW t \in Threads, NEW f \in Frames,
         f.pc # "move", Call(t, <<f>>)
  PROVE  MovesInv'
<1>1. stack'[t] = <<f>> /\ <<f>> # <<>> /\ \A u \in Threads \ {t} : stack'[u] = stack[u]
  BY DEF Call, StackOK
<1>2. \A u \in Threads \ {t} : stack'[u] = <<>>
  BY <1>1 DEF CallsDoNotOverlap
<1> QED BY <1>1, <1>2, ReadyFrames DEF MovesInv

(* Nothing happens to who has the pdev.                                    *)
Steady ==
  /\ UNCHANGED <<bitmap, blocking_cmd_active>>
  /\ active' = active /\ \A n \in ToSet(active) : cmd'[n] = cmd[n]
  /\ \A p \in Places : \A v : IsLeaving(FrameAt(p), v) =>
       p \in Places' /\ FrameAt(p)' = FrameAt(p)

(* Then the flag still says it.                                            *)
LEMMA SteadyFlag ==
  ASSUME FlagInv, Steady
  PROVE  FlagInv'
<1>1. \A v : Blocks(v) => Blocks(v)'
  BY DEF Blocks, Steady, NodeVdev
<1> QED BY <1>1 DEF FlagInv, Steady

(* The frames below the topmost stay.                                      *)
LEMMA OthersStay ==
  ASSUME StackOK, NEW t \in Threads, stack[t] # <<>>, NEW fs \in Seq(Frames),
         Continue(t, fs)
  PROVE  \A p \in Places : p # TopAt(t) => p \in Places' /\ FrameAt(p)' = FrameAt(p)
BY ContinueFacts

(* A step of a call that takes nothing off a list and is not the end of a  *)
(* cancelled command.                                                      *)
LEMMA SteadyStep ==
  ASSUME IInv, BlockInv, CallsDoNotOverlap, NEW t \in Threads, NEW pc, At(t, pc),
         pc # "cancelled" \/ ~OnActive(Top(t)), NEW fs, Goes(t, fs), active' = active,
         \A n \in ToSet(active) : cmd'[n] = cmd[n],
         UNCHANGED <<bitmap, blocking_cmd_active>>
  PROVE  BlockInv'
<1>1. StackOK /\ stack[t] # <<>> /\ Top(t).pc = pc /\ FrameAt(TopAt(t)) = Top(t)
  BY AtFacts, TopFacts
<1>2. \A p \in Places : p # TopAt(t) => p \in Places' /\ FrameAt(p)' = FrameAt(p)
  BY <1>1, OthersStay DEF Goes
<1>3. \A v : ~IsLeaving(Top(t), v)
  BY <1>1 DEF IsLeaving
<1>4. Steady
  BY <1>1, <1>2, <1>3 DEF Steady
<1> QED BY <1>1, <1>4, SteadyFlag, MovesContinue DEF BlockInv

(* A frame of the purge of a vdev that is deleted.                         *)
IsPurge(f) == f.pc \in {"cancel", "cancelled", "cancel_end"} /\ f.scope.closed

(* Frames a step goes on with that are no move and no purge.               *)
Harmless(fs) ==
  fs \in Seq(Frames) /\ \A i \in DOMAIN fs : fs[i].pc # "move" /\ ~IsPurge(fs[i])

(* One such frame, two or none.                                            *)
LEMMA HarmlessFrames ==
  /\ Harmless(<<>>)
  /\ \A f \in Frames : f.pc # "move" /\ ~IsPurge(f) => Harmless(<<f>>)
  /\ \A f, g \in Frames :
       f.pc # "move" /\ ~IsPurge(f) /\ g.pc # "move" /\ ~IsPurge(g) => Harmless(<<f, g>>)
<1>1. <<>> \in Seq(Frames) /\ DOMAIN <<>> = {}
  OBVIOUS
<1>2. \A f \in Frames : <<f>> \in Seq(Frames) /\ DOMAIN <<f>> = {1} /\ <<f>>[1] = f
  OBVIOUS
<1>3. \A f, g \in Frames : /\ <<f, g>> \in Seq(Frames) /\ DOMAIN <<f, g>> = {1, 2}
                           /\ <<f, g>>[1] = f /\ <<f, g>>[2] = g
  OBVIOUS
<1> QED BY <1>1, <1>2, <1>3 DEF Harmless

(* A step of a thread that leaves the queue alone.                         *)
Inert(t) ==
  /\ UNCHANGED <<lists, disabled, bitmap, blocking_cmd_active>>
  /\ \E pc \in {"timer", "callback", "settle", "tail", "release", "dequeue",
                "move", "move_on"} : At(t, pc)
  /\ \E fs : Harmless(fs) /\ Continue(t, fs)

(* Those of an activation, and the release of memory.                      *)
LEMMA ActivationInert ==
  ASSUME IInv, NEW t \in Threads,
         \/ StartTimer(t) \/ ActivateCallback(t) \/ Settle(t) \/ ActivateTail(t)
         \/ ReleaseMem(t)
  PROVE  Inert(t)
<1>1. CASE StartTimer(t) \/ ActivateCallback(t) \/ Settle(t)
  <2>1. \E pc \in {"timer", "callback", "settle"} : At(t, pc)
    BY <1>1 DEF StartTimer, ActivateCallback, Settle
  <2>2. Top(t).node \in Nodes /\ Top(t).ok \in BOOLEAN
    BY <2>1, AtFacts, FrameKinds
  <2>3. \E pc \in {"callback", "settle", "tail"}, ok \in BOOLEAN :
          Continue(t, <<Activate(pc, Top(t).node, ok)>>)
    BY <1>1, <2>2 DEF StartTimer, ActivateCallback, Settle
  <2>4. PICK pc \in {"callback", "settle", "tail"}, ok \in BOOLEAN :
          Continue(t, <<Activate(pc, Top(t).node, ok)>>)
    BY <2>3
  <2>5. PICK f : f = Activate(pc, Top(t).node, ok)
    OBVIOUS
  <2>6. f \in Frames /\ f.pc # "move" /\ ~IsPurge(f)
    BY <2>2, <2>5, FrameTypes DEF Activate, IsPurge
  <2>7. Harmless(<<f>>) /\ Continue(t, <<f>>)
    BY <2>4, <2>5, <2>6, HarmlessFrames
  <2>8. UNCHANGED <<lists, disabled, bitmap, blocking_cmd_active>>
    BY <1>1 DEF StartTimer, ActivateCallback, Settle, marks
  <2> QED BY <2>1, <2>7, <2>8 DEF Inert
<1>2. CASE ActivateTail(t)
  <2> DEFINE self == [sel |-> {}, all |-> FALSE, queues |-> <<TRUE>>, closed |-> FALSE]
             n == Top(t).node
             d == Dequeue(n, None)
             g == Cancel("cancel", self, n, None, None, 0)
  <2>1. At(t, "tail") /\ n \in Nodes
    BY <1>2, AtFacts, FrameKinds DEF ActivateTail
  <2>2. Continue(t, <<d>>) \/ Continue(t, <<g>>) \/ Continue(t, <<>>)
    BY <1>2 DEF ActivateTail
  <2>3. d \in Frames /\ d.pc # "move" /\ ~IsPurge(d)
    BY <2>1, FrameTypes DEF Dequeue, IsPurge
  <2>4. g \in Frames /\ g.pc # "move" /\ ~IsPurge(g)
    <3>1. <<TRUE>> \in Seq(BOOLEAN)
      OBVIOUS
    <3>2. self \in Scope /\ ~self.closed
      BY <3>1 DEF Scope
    <3> HIDE DEF self
    <3> QED BY <2>1, <3>2, FrameTypes DEF Cancel, IsPurge
  <2> HIDE DEF d, g
  <2>5. \E fs : Harmless(fs) /\ Continue(t, fs)
    BY <2>2, <2>3, <2>4, HarmlessFrames
  <2>6. UNCHANGED <<lists, disabled, bitmap, blocking_cmd_active>>
    BY <1>2 DEF ActivateTail, marks
  <2> QED BY <2>1, <2>5, <2>6 DEF Inert
<1>3. CASE ReleaseMem(t)
  <2>1. UNCHANGED <<lists, disabled, bitmap, blocking_cmd_active>>
    BY <1>3 DEF ReleaseMem, marks
  <2> QED BY <1>3, <2>1, HarmlessFrames DEF Inert, ReleaseMem
<1> QED BY <1>1, <1>2, <1>3

(* A move that finds nothing, and a dequeue that removes nothing.          *)
LEMMA NothingInert ==
  ASSUME NEW t \in Threads,
         \E pc \in {"dequeue", "move", "move_on"} : At(t, pc), Continue(t, <<>>),
         UNCHANGED <<lists, disabled, bitmap, blocking_cmd_active>>
  PROVE  Inert(t)
BY HarmlessFrames DEF Inert

(* An inert step keeps the pdev with who has it.                           *)
LEMMA InertBlocks ==
  ASSUME IInv, BlockInv, CallsDoNotOverlap, NEW t \in Threads, Inert(t)
  PROVE  BlockInv'
<1>1. PICK pc : /\ pc \in {"timer", "callback", "settle", "tail", "release", "dequeue",
                           "move", "move_on"}
                /\ At(t, pc)
  BY DEF Inert
<1>2. PICK fs : Harmless(fs) /\ Continue(t, fs)
  BY DEF Inert
<1>3. Goes(t, fs)
  BY <1>2 DEF Harmless, Goes, Ready
<1> QED BY <1>1, <1>3, SteadyStep DEF Inert, lists

(* The removal of an active command: if a blocking one has the pdev, it is *)
(* the one that is removed.                                                *)
LEMMA RemoveBlocks ==
  ASSUME IInv, BlockInv, CallsDoNotOverlap, NEW t \in Threads, At(t, "dequeue"),
         NEW n \in ToSet(active), RemoveActive(n), NEW c \in Cmds,
         Continue(t, Removed(c))
  PROVE  BlockInv'
<1> USE DEF IInv
<1>1. /\ ToSet(active') = ToSet(active) \ {n} /\ cmd' = [cmd EXCEPT ![n] = None]
      /\ cmd \in [Nodes -> Cmds \cup {None}] /\ ToSet(active) \subseteq Nodes
      /\ blocking_cmd_active' = (blocking_cmd_active /\ cmd[n] \notin Blocking)
  BY RemoveFacts, ListFacts DEF RemoveActive, Freed, TypeOK, NodesConserved
<1>2. NodeVdev(n) \in bitmap /\ NodeVdev(n) \in Vdevs
  BY ListFacts DEF BitmapInv
<1>3. blocking_cmd_active => cmd[n] \in Blocking /\ \A m \in ToSet(active) : m = n
  <2> SUFFICES ASSUME blocking_cmd_active
               PROVE  cmd[n] \in Blocking /\ \A m \in ToSet(active) : m = n
    OBVIOUS
  <2>1. PICK v \in Vdevs : bitmap = {v} /\ Blocks(v)
    BY DEF BlockInv, FlagInv
  <2>2. NodeVdev(n) = v /\ \A m \in ToSet(active) : NodeVdev(m) = v
    BY <1>2, <2>1 DEF BitmapInv
  <2>3. \A m \in ToSet(active) : m = n
    BY <2>2 DEF BitmapInv
  <2>4. ~\E p \in Places : IsLeaving(FrameAt(p), v)
    BY <2>2 DEF BitmapInv
  <2> QED BY <2>1, <2>3, <2>4 DEF Blocks
<1>4. ~blocking_cmd_active'
  BY <1>1, <1>3
<1>5. \A m \in ToSet(active') : cmd'[m] \notin Blocking
  BY <1>1, <1>3 DEF BlockInv, FlagInv
<1>6. FlagInv'
  BY <1>4, <1>5 DEF FlagInv
<1>7. Goes(t, Removed(c))
  <2> DEFINE f == Move(VdevOf[c], c \in Blocking)  g == Release(c)
  <2>1. g \in Frames /\ g.pc # "move"
    BY FrameTypes DEF Release
  <2>4. f \in Frames
    <3>1. VdevOf[c] \in Vdevs /\ (c \in Blocking) \in BOOLEAN
      BY CmdAssumption
    <3> QED BY <3>1, FrameTypes
  <2>2. Removed(c) = <<f, g>>
    BY DEF Removed
  <2> HIDE DEF f, g
  <2>3. <<f, g>> \in Seq(Frames)
    BY <2>1, <2>4
  <2>5. Ready(<<f, g>>, blocking_cmd_active')
    BY <1>4, <2>1, ReadyFrames, Zenon
  <2> QED BY <2>2, <2>3, <2>5 DEF Goes
<1> QED BY <1>6, <1>7, AtFacts, MovesContinue DEF BlockInv

(* A dequeue.                                                              *)
LEMMA DequeueBlocks ==
  ASSUME IInv, BlockInv, CallsDoNotOverlap, NEW t \in Threads, DequeueCmd(t)
  PROVE  BlockInv'
<1>1. At(t, "dequeue") /\ disabled' = disabled
  BY DEF DequeueCmd
<1>2. PICK c : c = IF Top(t).node = None THEN Top(t).cmd ELSE cmd[Top(t).node]
  OBVIOUS
<1>3. \/ UNCHANGED <<lists, marks>> /\ Continue(t, <<>>)
      \/ \E n \in Holding(active, c) : RemoveActive(n) /\ Continue(t, Removed(c))
  BY <1>2 DEF DequeueCmd, MarkForRemoval
<1>4. CASE UNCHANGED <<lists, marks>> /\ Continue(t, <<>>)
  BY <1>1, <1>4, NothingInert, InertBlocks DEF marks
<1>5. ASSUME NEW n \in Holding(active, c), RemoveActive(n), Continue(t, Removed(c))
      PROVE  BlockInv'
  <2>1. n \in ToSet(active) /\ c \in Cmds
    BY ListFacts DEF Holding
  <2> QED BY <1>1, <1>5, <2>1, RemoveBlocks
<1> QED BY <1>3, <1>4, <1>5

(* A pending command becomes active while no blocking command is, alone if *)
(* it is a blocking one.                                                   *)
LEMMA MoveOneBlocks ==
  ASSUME IInv, BlockInv, CallsDoNotOverlap, NEW t \in Threads,
         At(t, "move") \/ At(t, "move_on"), ~blocking_cmd_active,
         NEW n \in ToSet(pending), cmd[n] \in Blocking => bitmap = {},
         NEW bits, NEW lookup \in BOOLEAN, MoveOne(t, n, bits, lookup)
  PROVE  BlockInv'
<1> USE DEF IInv
<1>1. /\ n \in Nodes /\ n \notin ToSet(active) /\ cmd[n] \in Cmds /\ NodeVdev(n) \in Vdevs
      /\ active \in Seq(Nodes) /\ IsInjective(active)
  BY ListFacts DEF NodesConserved, TypeOK
<1>2. /\ ToSet(active') = ToSet(active) \cup {n} /\ cmd' = cmd
      /\ bitmap' = bitmap \cup {NodeVdev(n)}
      /\ blocking_cmd_active' = (blocking_cmd_active \/ cmd[n] \in Blocking)
  BY <1>1, InsertFacts DEF MoveOne, Activated, NodeVdev
<1>3. FlagInv'
  <2>1. \A m \in ToSet(active') : cmd'[m] \in Blocking => blocking_cmd_active'
    BY <1>2 DEF BlockInv, FlagInv
  <2>2. blocking_cmd_active' => bitmap' = {NodeVdev(n)} /\ Blocks(NodeVdev(n))'
    BY <1>2 DEF Blocks, NodeVdev
  <2>3. NodeVdev(n)' = NodeVdev(n)
    BY <1>2 DEF NodeVdev
  <2> QED BY <1>1, <2>1, <2>2, <2>3 DEF FlagInv
<1>4. \E fs : Goes(t, fs)
  <2> DEFINE f == Activate("timer", n, TRUE)  g == MoveOn(lookup)
  <2>1. f \in Frames /\ g \in Frames /\ f.pc # "move" /\ g.pc # "move"
    BY <1>1, FrameTypes DEF Activate, MoveOn
  <2>2. Continue(t, <<f, g>>)
    BY DEF MoveOne
  <2> HIDE DEF f, g
  <2>3. <<f, g>> \in Seq(Frames)
    BY <2>1
  <2>4. Ready(<<f, g>>, blocking_cmd_active')
    BY <2>1, ReadyFrames, Zenon
  <2> QED BY <2>2, <2>3, <2>4 DEF Goes
<1> QED BY <1>3, <1>4, AtFacts, MovesContinue DEF BlockInv

(* A move from the list of the pdev.                                       *)
LEMMA PdevBlocks ==
  ASSUME IInv, BlockInv, CallsDoNotOverlap, NEW t \in Threads,
         At(t, "move") \/ At(t, "move_on"), ~blocking_cmd_active, MoveFromPdev(t)
  PROVE  BlockInv'
<1> DEFINE k == StopAt
<1>1. CASE k = 0 \/ (cmd[pending[k]] \in Blocking /\ AnyVdevActive)
  BY <1>1, NothingInert, InertBlocks DEF MoveFromPdev, MoveNone, marks
<1>2. CASE ~(k = 0 \/ (cmd[pending[k]] \in Blocking /\ AnyVdevActive))
  <2>1. MoveOne(t, pending[k], MovementMarks(k, TRUE), FALSE)
    BY <1>2 DEF MoveFromPdev
  <2>2. pending[k] \in ToSet(pending) /\ (cmd[pending[k]] \in Blocking => bitmap = {})
    BY <1>2, StopAtFacts DEF AnyVdevActive
  <2> HIDE DEF k
  <2> QED BY <2>1, <2>2, MoveOneBlocks
<1> QED BY <1>1, <1>2

(* A move, whichever list it looks at.  It looks at the vdev's list only   *)
(* if no blocking command waits.                                           *)
LEMMA MoveBlocks ==
  ASSUME IInv, BlockInv, CallsDoNotOverlap, WaitingCounted, NEW t \in Threads,
         MovePendingToActive(t) \/ MoveAgain(t)
  PROVE  BlockInv'
<1>1. CASE MoveAgain(t)
  <2>1. At(t, "move_on")
    BY <1>1 DEF MoveAgain
  <2>2. MoveNone(t, in_use) \/ (~blocking_cmd_active /\ MoveFromPdev(t))
    <3>1. IF Top(t).lookup \/ blocking_cmd_active THEN MoveNone(t, in_use)
                                                  ELSE MoveFromPdev(t)
      BY <1>1 DEF MoveAgain
    <3>2. CASE Top(t).lookup \/ blocking_cmd_active
      BY <3>1, <3>2
    <3>3. CASE ~(Top(t).lookup \/ blocking_cmd_active)
      BY <3>1, <3>3
    <3> QED BY <3>2, <3>3
  <2> QED BY <2>1, <2>2, NothingInert, InertBlocks, PdevBlocks DEF MoveNone, marks
<1>2. CASE MovePendingToActive(t)
  <2>1. At(t, "move")
    BY <1>2 DEF MovePendingToActive
  <2>2. ~blocking_cmd_active
    <3>1. stack[t] # <<>> /\ stack[t] \in Seq(Frames) /\ Head(stack[t]).pc = "move"
      BY <2>1, AtFacts DEF StackOK, Top
    <3>2. 1 \in DOMAIN stack[t] /\ stack[t][1].pc = "move"
      BY <3>1
    <3> QED BY <3>2 DEF BlockInv, MovesInv, Ready
  <2>3. CASE MoveFromPdev(t)
    BY <2>1, <2>2, <2>3, PdevBlocks
  <2>4. ASSUME NEW v, blocking_cmd_waiting = 0, MoveFromVdev(t, v)
        PROVE  BlockInv'
    <3>1. CASE MoveNone(t, in_use)
      BY <2>1, <3>1, NothingInert, InertBlocks DEF MoveNone, marks
    <3>2. CASE VdevPending(v) # {} /\ MoveOne(t, VdevFront(v), in_use, TRUE)
      <4>1. VdevFront(v) \in ToSet(pending)
        BY <3>2, VdevFrontFacts
      <4>2. cmd[VdevFront(v)] \notin Blocking
        BY <2>4, <4>1 DEF WaitingCounted
      <4> QED BY <2>1, <2>2, <3>2, <4>1, <4>2, MoveOneBlocks
    <3> QED BY <2>4, <3>1, <3>2 DEF MoveFromVdev
  <2> QED BY <1>2, <2>3, <2>4 DEF MovePendingToActive
<1> QED BY <1>1, <1>2

(* What a cancel does to the lists when it has the lock: it takes a        *)
(* command off the list it walks, or it is done with the list.             *)
Over(f) == Cancel("cancel_end", f.scope, None, None, None, 0)
LEMMA CancelShape ==
  ASSUME IInv, NEW t \in Threads, CancelStart(t) \/ CancelResume(t), NEW f, f = Top(t)
  PROVE  \/ UNCHANGED lists /\ (Continue(t, <<>>) \/ Continue(t, <<Over(f)>>))
         \/ \E n \in ToSet(Walked(f)) : \E M : WalkTakes(t, f, M, n)
<1> DEFINE Shape == \/ UNCHANGED lists /\ (Continue(t, <<>>) \/ Continue(t, <<Over(f)>>))
                    \/ \E n \in ToSet(Walked(f)) : \E M : WalkTakes(t, f, M, n)
<1>1. At(t, "cancel") \/ At(t, "cancelled")
  BY DEF CancelStart, CancelResume
<1>2. Len(Walked(f)) \in Nat /\ f.cursor \in Nodes \cup {None} /\ f.left \in Nat
  <2>1. Len(Walked(f)) \in Nat
    BY DEF Walked, IInv, TypeOK
  <2> QED BY <1>1, <2>1, CancelFrameFacts
<1>3. ASSUME NEW cursor \in Nodes \cup {None}, NEW left \in Nat,
             cursor # None => cursor \in ToSet(Walked(f)), Walk(t, f, cursor, left)
      PROVE  Shape
  <2>1. PICK M : WalkEnds(t, f, M) \/ \E n \in ToSet(Walked(f)) : WalkTakes(t, f, M, n)
    BY <1>3, WalkFacts
  <2>2. CASE WalkEnds(t, f, M)
    BY <2>2 DEF WalkEnds, Over
  <2> QED BY <2>1, <2>2
<1> HIDE DEF Shape
<1>4. CASE CancelStart(t)
  <2>1. Walk(t, f, None, Len(Walked(f)))
    BY <1>4 DEF CancelStart
  <2>2. None \in Nodes \cup {None} /\ (None # None => None \in ToSet(Walked(f)))
    OBVIOUS
  <2> QED BY <1>2, <1>3, <2>1, <2>2 DEF Shape
<1>5. CASE CancelResume(t)
  <2>1. \/ UNCHANGED lists /\ (Continue(t, <<>>) \/ Continue(t, <<Over(f)>>))
        \/ /\ ~(f.cursor # None /\ f.cursor \notin ToSet(Walked(f)))
           /\ Walk(t, f, f.cursor, f.left)
    BY <1>5 DEF CancelResume, Over
  <2> QED BY <1>2, <1>3, <2>1 DEF Shape
<1> QED BY <1>4, <1>5 DEF Shape

(* The frame a cancel goes on with, if any, and what it takes.             *)
LEMMA CancelGoes ==
  ASSUME IInv, NEW t \in Threads, CancelStart(t) \/ CancelResume(t), NEW f, f = Top(t)
  PROVE  /\ \E fs : Goes(t, fs)
         /\ \/ UNCHANGED lists
            \/ \E n \in ToSet(Walked(f)) :
                 /\ cmd' = [cmd EXCEPT ![n] = None]
                 /\ active' = IF OnActive(f) THEN RemoveFirst(active, n) ELSE active
                 /\ \E cursor, left : \E g \in Frames :
                      /\ g = Cancel("cancelled", f.scope, None, cmd[n], cursor, left)
                      /\ Continue(t, <<g>>)
<1>1. f.scope \in Scope
  BY CancelFrameFacts DEF CancelStart, CancelResume
<1>2. ASSUME NEW g \in Frames, g.pc # "move", Continue(t, <<g>>)
      PROVE  Goes(t, <<g>>)
  <2>1. <<g>> \in Seq(Frames)
    OBVIOUS
  <2>2. Ready(<<g>>, blocking_cmd_active')
    BY <1>2, ReadyFrames, Zenon
  <2> QED BY <1>2, <2>1, <2>2 DEF Goes
<1>3. CASE UNCHANGED lists /\ Continue(t, <<>>)
  <2>1. <<>> \in Seq(Frames)
    OBVIOUS
  <2>2. Ready(<<>>, blocking_cmd_active')
    BY ReadyFrames
  <2> QED BY <1>3, <2>1, <2>2 DEF Goes
<1>4. CASE UNCHANGED lists /\ Continue(t, <<Over(f)>>)
  <2>1. Over(f) \in Frames /\ Over(f).pc # "move"
    BY <1>1, FrameTypes DEF Over, Cancel
  <2> QED BY <1>2, <1>4, <2>1
<1>5. ASSUME NEW n \in ToSet(Walked(f)), NEW M, WalkTakes(t, f, M, n)
      PROVE  /\ \E fs : Goes(t, fs)
             /\ cmd' = [cmd EXCEPT ![n] = None]
             /\ active' = IF OnActive(f) THEN RemoveFirst(active, n) ELSE active
             /\ \E cursor, left : \E g \in Frames :
                  /\ g = Cancel("cancelled", f.scope, None, cmd[n], cursor, left)
                  /\ Continue(t, <<g>>)
  <2>1. PICK cursor \in Nodes \cup {None}, left \in Nat :
          Continue(t, <<Cancel("cancelled", f.scope, None, cmd[n], cursor, left)>>)
    BY <1>5 DEF WalkTakes
  <2>2. cmd[n] \in Cmds
    BY ListFacts DEF Walked
  <2>3. PICK g : g = Cancel("cancelled", f.scope, None, cmd[n], cursor, left)
    OBVIOUS
  <2>4. g \in Frames /\ g.pc # "move" /\ Continue(t, <<g>>)
    BY <1>1, <2>1, <2>2, <2>3, FrameTypes DEF Cancel
  <2> QED BY <1>2, <1>5, <2>3, <2>4 DEF WalkTakes, Freed
<1> QED BY <1>3, <1>4, <1>5, CancelShape

(* A walk begins.  What it takes off the active list is leaving.           *)
LEMMA CancelStartBlocks ==
  ASSUME IInv, BlockInv, CallsDoNotOverlap, NEW t \in Threads, CancelStart(t)
  PROVE  BlockInv'
<1> USE DEF IInv
<1>1. PICK f : f = Top(t)
  OBVIOUS
<1>2. At(t, "cancel") /\ UNCHANGED <<bitmap, blocking_cmd_active>>
  BY DEF CancelStart, marks
<1>3. PICK fs : Goes(t, fs)
  BY <1>1, CancelGoes
<1>4. CASE UNCHANGED lists
  BY <1>2, <1>3, <1>4, SteadyStep DEF lists
<1>5. ASSUME NEW n \in ToSet(Walked(f)), cmd' = [cmd EXCEPT ![n] = None],
             active' = IF OnActive(f) THEN RemoveFirst(active, n) ELSE active,
             NEW cursor, NEW left, NEW g \in Frames,
             g = Cancel("cancelled", f.scope, None, cmd[n], cursor, left),
             Continue(t, <<g>>)
      PROVE  BlockInv'
  <2>1. cmd \in [Nodes -> Cmds \cup {None}] /\ ToSet(active) \subseteq Nodes
    BY ListFacts DEF TypeOK
  <2>2. CASE ~OnActive(f)
    <3>1. active' = active /\ n \notin ToSet(active)
      BY <1>5, <2>2 DEF Walked, NodesConserved
    <3>2. \A m \in ToSet(active) : cmd'[m] = cmd[m]
      BY <1>5, <2>1, <3>1
    <3> QED BY <1>2, <1>3, <3>1, <3>2, SteadyStep
  <2>3. CASE OnActive(f)
    <3>1. n \in ToSet(active) /\ ToSet(active') = ToSet(active) \ {n}
      BY <1>5, <2>3, RemoveFacts DEF Walked, TypeOK, NodesConserved
    <3>2. \A m \in ToSet(active') : cmd'[m] = cmd[m]
      BY <1>5, <2>1, <3>1
    <3>3. StackOK /\ stack[t] # <<>> /\ Top(t).pc = "cancel"
      BY <1>2, AtFacts
    <3>4. PICK top \in Places : FrameAt(top) = Top(t) /\ Swaps(top, g)
      BY <1>5, <3>3, Continue1
    <3>5. \A v : ~IsLeaving(FrameAt(top), v)
      BY <3>3, <3>4 DEF IsLeaving
    <3>6. IsLeaving(g, NodeVdev(n)) /\ g.cmd = cmd[n]
      BY <1>5, <2>3 DEF IsLeaving, OnActive, Cancel, NodeVdev
    <3>7. \A v : Blocks(v) => Blocks(v)'
      <4>1. ASSUME NEW v, NEW p \in Places, IsLeaving(FrameAt(p), v),
                   FrameAt(p).cmd \in Blocking
            PROVE  Blocks(v)'
        <5>1. p \in Places' /\ FrameAt(p)' = FrameAt(p)
          BY <3>4, <3>5, <4>1 DEF Swaps, Others
        <5> QED BY <4>1, <5>1 DEF Blocks
      <4>2. ASSUME NEW v, NEW m \in ToSet(active), cmd[m] \in Blocking, NodeVdev(m) = v
            PROVE  Blocks(v)'
        <5>1. CASE m # n
          BY <3>1, <3>2, <4>2, <5>1 DEF Blocks, NodeVdev
        <5>2. CASE m = n
          <6>1. top \in Places' /\ FrameAt(top)' = g
            BY <3>4 DEF Swaps
          <6>2. IsLeaving(g, v) /\ g.cmd \in Blocking
            BY <3>6, <4>2, <5>2
          <6> QED BY <6>1, <6>2 DEF Blocks
        <5> QED BY <5>1, <5>2
      <4> QED BY <4>1, <4>2 DEF Blocks
    <3>8. FlagInv'
      BY <1>2, <3>1, <3>2, <3>7 DEF BlockInv, FlagInv
    <3> QED BY <1>3, <3>3, <3>8, MovesContinue DEF BlockInv
  <2> QED BY <2>2, <2>3
<1>6. CASE ~UNCHANGED lists
  <2>1. PICK n \in ToSet(Walked(f)) :
          /\ cmd' = [cmd EXCEPT ![n] = None]
          /\ active' = IF OnActive(f) THEN RemoveFirst(active, n) ELSE active
          /\ \E cursor, left : \E g \in Frames :
               /\ g = Cancel("cancelled", f.scope, None, cmd[n], cursor, left)
               /\ Continue(t, <<g>>)
    BY <1>1, <1>6, CancelGoes
  <2>2. PICK cursor, left : \E g \in Frames :
          /\ g = Cancel("cancelled", f.scope, None, cmd[n], cursor, left)
          /\ Continue(t, <<g>>)
    BY <2>1
  <2>3. PICK g \in Frames :
          /\ g = Cancel("cancelled", f.scope, None, cmd[n], cursor, left)
          /\ Continue(t, <<g>>)
    BY <2>2
  <2> QED BY <1>5, <2>1, <2>3
<1> QED BY <1>4, <1>6

(* A walk goes on.  If a blocking command has the pdev and an active       *)
(* command was cancelled, it was that one, and the pdev is free.           *)
LEMMA CancelResumeBlocks ==
  ASSUME IInv, BlockInv, CallsDoNotOverlap, NEW t \in Threads, CancelResume(t)
  PROVE  BlockInv'
<1> USE DEF IInv
<1>1. PICK f : f = Top(t)
  OBVIOUS
<1>2. /\ At(t, "cancelled") /\ StackOK /\ stack[t] # <<>>
      /\ TopAt(t) \in Places /\ FrameAt(TopAt(t)) = f /\ f.pc = "cancelled"
      /\ f.cmd \in Cmds
  <2>1. At(t, "cancelled")
    BY DEF CancelResume
  <2>2. f.cmd \in Cmds /\ f.pc = "cancelled"
    BY <1>1, <2>1, AtFacts, CancelFrameFacts
  <2> QED BY <1>1, <2>1, <2>2, AtFacts, TopFacts
<1>3. PICK fs : Goes(t, fs)
  BY <1>1, CancelGoes
<1>4. cmd \in [Nodes -> Cmds \cup {None}] /\ ToSet(active) \subseteq Nodes
  BY ListFacts DEF TypeOK
<1>5. CASE ~OnActive(f)
  <2>1. UNCHANGED <<bitmap, blocking_cmd_active>>
    <3>1. bitmap' = bitmap
      BY <1>1, <1>5 DEF CancelResume
    <3>2. blocking_cmd_active' = (blocking_cmd_active /\ ~(OnActive(f) /\ f.cmd \in Blocking))
      BY <1>1 DEF CancelResume
    <3>3. blocking_cmd_active' = blocking_cmd_active
      BY <1>5, <3>2 DEF TypeOK
    <3> QED BY <3>1, <3>3
  <2>2. active' = active /\ \A m \in ToSet(active) : cmd'[m] = cmd[m]
    <3>1. CASE UNCHANGED lists
      BY <3>1 DEF lists
    <3>2. ASSUME NEW n \in ToSet(Walked(f)), cmd' = [cmd EXCEPT ![n] = None]
          PROVE  \A m \in ToSet(active) : cmd'[m] = cmd[m]
      <4>1. n \notin ToSet(active)
        BY <1>5 DEF Walked, NodesConserved
      <4> QED BY <1>4, <3>2, <4>1
    <3> QED BY <1>1, <1>5, <3>1, <3>2, CancelGoes
  <2> QED BY <1>1, <1>2, <1>3, <1>5, <2>1, <2>2, SteadyStep
<1>6. CASE OnActive(f)
  <2>1. IsLeaving(f, VdevOf[f.cmd]) /\ VdevOf[f.cmd] \in Vdevs
    BY <1>2, <1>6, CmdAssumption DEF IsLeaving
  <2>2. /\ VdevOf[f.cmd] \in bitmap
        /\ \A n \in ToSet(active) : NodeVdev(n) # VdevOf[f.cmd]
        /\ \A q \in Places : IsLeaving(FrameAt(q), VdevOf[f.cmd]) => q = TopAt(t)
    BY <1>2, <2>1 DEF BitmapInv
  <2>3. blocking_cmd_active => f.cmd \in Blocking /\ ToSet(active) = {}
    <3> SUFFICES ASSUME blocking_cmd_active
                 PROVE  f.cmd \in Blocking /\ ToSet(active) = {}
      OBVIOUS
    <3>1. PICK v \in Vdevs : bitmap = {v} /\ Blocks(v)
      BY DEF BlockInv, FlagInv
    <3>2. v = VdevOf[f.cmd] /\ \A n \in ToSet(active) : NodeVdev(n) = v
      BY <2>2, <3>1 DEF BitmapInv
    <3>3. ToSet(active) = {}
      BY <2>2, <3>2
    <3> QED BY <1>2, <2>2, <3>1, <3>2, <3>3 DEF Blocks
  <2>4. ~blocking_cmd_active'
    <3>1. blocking_cmd_active' = (blocking_cmd_active /\ ~(OnActive(f) /\ f.cmd \in Blocking))
      BY <1>1 DEF CancelResume
    <3> QED BY <1>6, <2>3, <3>1
  <2>5. \A m \in ToSet(active') : m \in ToSet(active) /\ cmd'[m] = cmd[m]
    <3>1. CASE UNCHANGED lists
      BY <3>1 DEF lists
    <3>2. ASSUME NEW n \in ToSet(Walked(f)), cmd' = [cmd EXCEPT ![n] = None],
                 active' = RemoveFirst(active, n)
          PROVE  \A m \in ToSet(active') : m \in ToSet(active) /\ cmd'[m] = cmd[m]
      <4>1. ToSet(active') = ToSet(active) \ {n}
        BY <1>6, <3>2, RemoveFacts DEF Walked, TypeOK, NodesConserved
      <4> QED BY <1>4, <3>2, <4>1
    <3> QED BY <1>1, <1>6, <3>1, <3>2, CancelGoes
  <2>6. \A m \in ToSet(active') : cmd'[m] \notin Blocking
    BY <2>3, <2>5 DEF BlockInv, FlagInv
  <2>7. FlagInv'
    BY <2>4, <2>6 DEF FlagInv
  <2> QED BY <1>2, <1>3, <2>7, MovesContinue DEF BlockInv
<1> QED BY <1>5, <1>6

(* The frames after a walk: a move if the pdev is free, and the walk of    *)
(* the next queue if there is one.                                         *)
NextWalk(f) ==
  Cancel("cancel", [f.scope EXCEPT !.queues = Tail(f.scope.queues)], None, None, None, 0)
LEMMA CancelEndShape ==
  ASSUME IInv, NEW t \in Threads, CancelEnd(t), NEW f, f = Top(t)
  PROVE  /\ At(t, "cancel_end") /\ f.scope \in Scope /\ f.scope.queues # <<>>
         /\ UNCHANGED <<lists, disabled, bitmap, blocking_cmd_active>>
         /\ \E fs : /\ fs \in Seq(Frames) /\ Continue(t, fs)
                    /\ \A i \in DOMAIN fs :
                         \/ fs[i] = Move(None, FALSE) /\ i = 1 /\ bitmap = {}
                         \/ fs[i] = NextWalk(f) /\ Tail(f.scope.queues) # <<>>
<1> DEFINE m == Move(None, FALSE)  g == NextWalk(f)  more == Tail(f.scope.queues)
<1>1. /\ At(t, "cancel_end") /\ StackOK /\ stack[t] # <<>> /\ f \in Frames
      /\ f.pc = "cancel_end" /\ f.scope \in Scope
      /\ UNCHANGED <<lists, disabled, bitmap, blocking_cmd_active>>
  BY AtFacts, FrameKinds DEF CancelEnd, marks
<1>2. f.scope.queues # <<>> /\ f.scope.queues \in Seq(BOOLEAN)
  <2>1. f.scope.queues # <<>>
    BY <1>1, TopFacts DEF IInv, FrameInv, WalkOK
  <2> QED BY <1>1, <2>1 DEF Scope
<1>3. m \in Frames
  BY FrameTypes
<1>4. g \in Frames
  <2>1. more \in Seq(BOOLEAN)
    BY <1>2, HeadTailProperties
  <2>2. [f.scope EXCEPT !.queues = more] \in Scope
    <3> HIDE DEF more
    <3> QED BY <1>1, <2>1 DEF Scope
  <2>3. PICK s \in Scope : s = [f.scope EXCEPT !.queues = more]
    BY <2>2
  <2>4. g = Cancel("cancel", s, None, None, None, 0)
    BY <2>3 DEF NextWalk
  <2> QED BY <2>4, FrameTypes
<1>5. \/ Continue(t, <<>> \o <<>>)
      \/ bitmap = {} /\ Continue(t, <<m>> \o <<>>)
      \/ more # <<>> /\ Continue(t, <<>> \o <<g>>)
      \/ bitmap = {} /\ more # <<>> /\ Continue(t, <<m>> \o <<g>>)
  BY DEF CancelEnd, NextWalk, AnyVdevActive
<1> HIDE DEF m, g, more
<1>6. \/ Continue(t, <<>>)
      \/ bitmap = {} /\ Continue(t, <<m>>)
      \/ more # <<>> /\ Continue(t, <<g>>)
      \/ bitmap = {} /\ more # <<>> /\ Continue(t, <<m, g>>)
  BY <1>5, ShortConcat
<1>7. /\ <<>> \in Seq(Frames) /\ DOMAIN <<>> = {}
      /\ <<m>> \in Seq(Frames) /\ DOMAIN <<m>> = {1} /\ <<m>>[1] = m
      /\ <<g>> \in Seq(Frames) /\ DOMAIN <<g>> = {1} /\ <<g>>[1] = g
      /\ <<m, g>> \in Seq(Frames) /\ DOMAIN <<m, g>> = {1, 2}
      /\ <<m, g>>[1] = m /\ <<m, g>>[2] = g
  BY <1>3, <1>4
<1> DEFINE Good(fs) == /\ fs \in Seq(Frames) /\ Continue(t, fs)
                       /\ \A i \in DOMAIN fs : \/ fs[i] = m /\ i = 1 /\ bitmap = {}
                                               \/ fs[i] = g /\ more # <<>>
<1>8. \E fs : Good(fs)
  <2>1. CASE Continue(t, <<>>)
    <3>1. Good(<<>>)
      BY <1>7, <2>1
    <3> QED BY <3>1
  <2>2. CASE bitmap = {} /\ Continue(t, <<m>>)
    <3>1. Good(<<m>>)
      BY <1>7, <2>2
    <3> QED BY <3>1
  <2>3. CASE more # <<>> /\ Continue(t, <<g>>)
    <3>1. Good(<<g>>)
      BY <1>7, <2>3
    <3> QED BY <3>1
  <2>4. CASE bitmap = {} /\ more # <<>> /\ Continue(t, <<m, g>>)
    <3>1. Good(<<m, g>>)
      BY <1>7, <2>4
    <3> QED BY <3>1
  <2> QED BY <1>6, <2>1, <2>2, <2>3, <2>4
<1> QED BY <1>1, <1>2, <1>8 DEF m, g, more

(* The end of a walk.                                                      *)
LEMMA CancelEndBlocks ==
  ASSUME IInv, BlockInv, CallsDoNotOverlap, NEW t \in Threads, CancelEnd(t)
  PROVE  BlockInv'
<1>1. PICK f : f = Top(t)
  OBVIOUS
<1>2. At(t, "cancel_end") /\ UNCHANGED <<lists, bitmap, blocking_cmd_active>>
  BY <1>1, CancelEndShape
<1>3. PICK fs : /\ fs \in Seq(Frames) /\ Continue(t, fs)
                /\ \A i \in DOMAIN fs :
                     \/ fs[i] = Move(None, FALSE) /\ i = 1 /\ bitmap = {}
                     \/ fs[i] = NextWalk(f)
  BY <1>1, CancelEndShape
<1>4. NextWalk(f).pc # "move"
  BY DEF NextWalk, Cancel
<1>5. bitmap = {} => ~blocking_cmd_active'
  BY <1>2 DEF BlockInv, FlagInv
<1>6. Goes(t, fs)
  BY <1>3, <1>4, <1>5 DEF Goes, Ready
<1> QED BY <1>2, <1>6, SteadyStep DEF lists

(* A call that is begun, or no call at all, with the queue left alone.     *)
LEMMA CallBlocks ==
  ASSUME IInv, BlockInv, CallsDoNotOverlap',
         UNCHANGED <<lists, bitmap, blocking_cmd_active>>,
         \/ UNCHANGED stack
         \/ \E t \in Threads : \E f \in Frames :
              Idle(t) /\ f.pc # "move" /\ Call(t, <<f>>)
  PROVE  BlockInv'
<1>1. StackOK
  BY DEF IInv, TypeOK, StackOK
<1>2. CASE UNCHANGED stack
  <2>1. Places' = Places /\ Others(Places)
    BY <1>2, SameStack
  <2>2. Steady
    BY <2>1 DEF Steady, Others, lists
  <2> QED BY <1>2, <2>2, SteadyFlag DEF BlockInv, MovesInv
<1>3. ASSUME NEW t \in Threads, NEW f \in Frames, Idle(t), f.pc # "move", Call(t, <<f>>)
      PROVE  BlockInv'
  <2>1. PICK new : Begins(new, f)
    BY <1>1, <1>3, Call1 DEF Idle
  <2>2. Steady
    BY <2>1 DEF Steady, Begins, Others, lists
  <2> QED BY <1>1, <1>3, <2>2, SteadyFlag, MovesCall DEF BlockInv
<1> QED BY <1>2, <1>3

(* A call that begins without touching the queue: a removal, a cancel      *)
(* request, the purge of a vdev, or a timeout that is handled.             *)
Purge(v) ==
  Cancel("cancel", [sel |-> {c \in Cmds : VdevOf[c] = v}, all |-> TRUE,
                    queues |-> <<FALSE, TRUE>>, closed |-> TRUE], None, None, None, 0)
LEMMA BeginShape ==
  ASSUME IInv, NEW t \in Threads, Idle(t),
         \/ \E c \in Cmds : RemoveCmd(t, c)
         \/ \E scope \in Scopes : CancelRequest(t, scope)
         \/ \E v \in Closing : CloseSession(t, v)
         \/ t = Scheduler /\ HandleTimeout
  PROVE  /\ UNCHANGED <<lists, marks>>
         /\ \/ UNCHANGED <<stack, disabled>>
            \/ \E f \in Frames :
                 /\ f.pc # "move" /\ Call(t, <<f>>)
                 /\ \/ ~IsPurge(f) /\ UNCHANGED disabled
                    \/ \E v \in Closing : f = Purge(v) /\ disabled' = disabled \cup {v}
<1>1. ASSUME NEW c \in Cmds, Call(t, <<Dequeue(None, c)>>)
      PROVE  \E f \in Frames : f.pc # "move" /\ ~IsPurge(f) /\ Call(t, <<f>>)
  <2>1. PICK f : f = Dequeue(None, c)
    OBVIOUS
  <2>2. f \in Frames /\ f.pc # "move" /\ ~IsPurge(f)
    BY <2>1, FrameTypes DEF Dequeue, IsPurge
  <2> QED BY <1>1, <2>1, <2>2
<1>2. ASSUME NEW c \in Cmds, RemoveCmd(t, c)
      PROVE  /\ UNCHANGED <<lists, marks, disabled>>
             /\ \E f \in Frames : f.pc # "move" /\ ~IsPurge(f) /\ Call(t, <<f>>)
  BY <1>1, <1>2 DEF RemoveCmd
<1>3. ASSUME NEW scope \in Scopes, CancelRequest(t, scope)
      PROVE  /\ UNCHANGED <<lists, marks, disabled>>
             /\ \E f \in Frames : f.pc # "move" /\ ~IsPurge(f) /\ Call(t, <<f>>)
  <2>1. PICK f : f = Cancel("cancel", scope, None, None, None, 0)
    OBVIOUS
  <2>2. f \in Frames /\ f.pc # "move" /\ ~IsPurge(f)
    BY <2>1, FrameTypes, CmdAssumption DEF Cancel, IsPurge
  <2> QED BY <1>3, <2>1, <2>2 DEF CancelRequest
<1>4. ASSUME NEW v \in Closing, CloseSession(t, v)
      PROVE  /\ UNCHANGED <<lists, marks>> /\ disabled' = disabled \cup {v}
             /\ Purge(v) \in Frames /\ Purge(v).pc # "move" /\ Call(t, <<Purge(v)>>)
  <2> DEFINE scope == [sel |-> {c \in Cmds : VdevOf[c] = v}, all |-> TRUE,
                       queues |-> <<FALSE, TRUE>>, closed |-> TRUE]
  <2>1. scope \in Scope
    BY DEF Scope
  <2>2. Purge(v) = Cancel("cancel", scope, None, None, None, 0)
    BY DEF Purge
  <2>3. Call(t, <<Purge(v)>>)
    BY <1>4 DEF CloseSession, Purge
  <2> HIDE DEF scope
  <2>4. Purge(v) \in Frames /\ Purge(v).pc # "move"
    BY <2>1, <2>2, FrameTypes DEF Cancel
  <2> QED BY <1>4, <2>3, <2>4 DEF CloseSession
<1>5. CASE t = Scheduler /\ HandleTimeout
  <2>1. UNCHANGED <<lists, marks, disabled>>
    BY <1>5 DEF HandleTimeout
  <2>2. Head(timeouts) \in Cmds
    BY <1>5 DEF HandleTimeout, IInv, TypeOK
  <2>3. Call(t, <<>>) \/ Call(t, <<Dequeue(None, Head(timeouts))>>)
    BY <1>5 DEF HandleTimeout
  <2>4. Call(t, <<>>) => UNCHANGED stack
    BY DEF Call, Idle, IInv, TypeOK
  <2> QED BY <1>1, <2>1, <2>2, <2>3, <2>4
<1> QED BY <1>2, <1>3, <1>4, <1>5

(* An accepted request is active at once or waits.                         *)
LEMMA RequestBlocks ==
  ASSUME IInv, BlockInv, CallsDoNotOverlap', NEW t \in Threads, NEW c \in Cmds,
         RequestAccepted(t, c)
  PROVE  BlockInv'
<1> USE DEF IInv
<1>1. StackOK /\ Idle(t)
  BY DEF TypeOK, StackOK, RequestAccepted, Asked
<1>2. PICK n \in pool :
        /\ cmd' = [cmd EXCEPT ![n] = c]
        /\ \/ /\ IsActiveCmdAllowed(c) /\ Activated(n, c)
              /\ Call(t, <<Activate("timer", n, TRUE)>>)
           \/ UNCHANGED <<active, bitmap, blocking_cmd_active, stack>>
  BY DEF RequestAccepted
<1>3. /\ n \in Nodes /\ n \notin ToSet(active) /\ VdevOf[c] \in Vdevs
      /\ active \in Seq(Nodes) /\ IsInjective(active) /\ ToSet(active) \subseteq Nodes
  BY ListFacts, CmdAssumption DEF TypeOK, NodesConserved
<1>4. cmd'[n] = c /\ \A m \in ToSet(active) : cmd'[m] = cmd[m]
  BY <1>2, <1>3 DEF TypeOK
<1>5. CASE UNCHANGED <<active, bitmap, blocking_cmd_active, stack>>
  <2>1. Places' = Places /\ Others(Places)
    BY <1>5, SameStack
  <2>2. Steady
    BY <1>4, <1>5, <2>1 DEF Steady, Others
  <2> QED BY <1>5, <2>2, SteadyFlag DEF BlockInv, MovesInv
<1>6. CASE /\ IsActiveCmdAllowed(c) /\ Activated(n, c)
           /\ Call(t, <<Activate("timer", n, TRUE)>>)
  <2>1. /\ ToSet(active') = ToSet(active) \cup {n}
        /\ bitmap' = bitmap \cup {VdevOf[c]}
        /\ blocking_cmd_active' = (blocking_cmd_active \/ c \in Blocking)
    BY <1>3, <1>6, InsertFacts DEF Activated
  <2>2. ~blocking_cmd_active /\ (c \in Blocking => bitmap = {})
    <3>1. CASE c \in Blocking
      BY <1>6, <3>1 DEF IsActiveCmdAllowed, AnyVdevActive, BlockInv, FlagInv
    <3>2. CASE c \notin Blocking
      BY <1>6, <3>2 DEF IsActiveCmdAllowed
    <3> QED BY <3>1, <3>2
  <2>3. \A m \in ToSet(active') : cmd'[m] \in Blocking => blocking_cmd_active'
    BY <1>4, <2>1 DEF BlockInv, FlagInv
  <2>4. blocking_cmd_active' => bitmap' = {VdevOf[c]} /\ Blocks(VdevOf[c])'
    BY <1>4, <2>1, <2>2 DEF Blocks, NodeVdev
  <2>5. FlagInv'
    BY <1>3, <2>3, <2>4 DEF FlagInv
  <2>6. PICK f : f = Activate("timer", n, TRUE)
    OBVIOUS
  <2>7. f \in Frames /\ f.pc # "move" /\ Call(t, <<f>>)
    BY <1>3, <1>6, <2>6, FrameTypes DEF Activate
  <2> QED BY <1>1, <2>5, <2>7, MovesCall DEF BlockInv
<1> QED BY <1>2, <1>5, <1>6

(* Every step keeps the pdev with one blocking command.                    *)
LEMMA BlockStep ==
  ASSUME IInv, BlockInv, CallsDoNotOverlap, CallsDoNotOverlap', WaitingCounted,
         [Next]_vars
  PROVE  BlockInv'
<1>1. ASSUME NEW t \in Threads, Step(t)
      PROVE  BlockInv'
  <2>1. CASE StartTimer(t) \/ ActivateCallback(t) \/ Settle(t) \/ ActivateTail(t)
             \/ ReleaseMem(t)
    BY <2>1, ActivationInert, InertBlocks
  <2> QED BY <1>1, <2>1, DequeueBlocks, MoveBlocks, CancelStartBlocks,
             CancelResumeBlocks, CancelEndBlocks DEF Step
<1>2. ASSUME NEW t \in Threads, Begin(t)
      PROVE  BlockInv'
  <2>1. ASSUME NEW c \in Cmds, RequestRefused(t, c)
        PROVE  BlockInv'
    <3>1. UNCHANGED <<lists, bitmap, blocking_cmd_active, stack>>
      BY <2>1 DEF RequestRefused
    <3> QED BY <3>1, CallBlocks
  <2>2. CASE \/ \E c \in Cmds : RemoveCmd(t, c)
             \/ \E scope \in Scopes : CancelRequest(t, scope)
             \/ \E v \in Closing : CloseSession(t, v)
    <3>1. Idle(t)
      BY <2>2 DEF RemoveCmd, CancelRequest, CloseSession
    <3> QED BY <2>2, <3>1, BeginShape, CallBlocks DEF marks
  <2> QED BY <1>2, <2>1, <2>2, RequestBlocks DEF Begin
<1>3. CASE HandleTimeout
  <2>1. Scheduler \in Threads /\ Idle(Scheduler)
    BY <1>3, CmdAssumption DEF HandleTimeout
  <2> QED BY <1>3, <2>1, BeginShape, CallBlocks DEF marks
<1>4. CASE \/ \E m \in Nodes : TimerExpires(m) \/ TimeoutLost(m)
           \/ \E c \in Rearmed : UpdateTimer(c)
  <2>1. UNCHANGED <<lists, bitmap, blocking_cmd_active, stack>>
    BY <1>4 DEF TimerExpires, TimeoutLost, UpdateTimer, marks
  <2> QED BY <2>1, CallBlocks
<1>5. CASE UNCHANGED vars
  <2>1. UNCHANGED <<lists, bitmap, blocking_cmd_active, stack>>
    BY <1>5 DEF vars, marks
  <2> QED BY <2>1, CallBlocks
<1> QED BY <1>1, <1>2, <1>3, <1>4, <1>5 DEF Next

(* If one thread at a time is in a call and blocking_cmd_waiting is not    *)
(* zero while a blocking command waits, a blocking command is active       *)
(* alone, as is_active_non_scan_cmd_allowed says: only overlapping calls,  *)
(* or a counter that lost count, let another command in beside it.         *)
THEOREM BlockingIsAlone ==
  Spec /\ []CallsDoNotOverlap /\ []WaitingCounted => []BlockingAlone
<1>1. Init => BlockInv
  <2>1. Init => ToSet(active) = {} /\ ~blocking_cmd_active
    BY DEF Init, ToSet
  <2>2. Init => \A t \in Threads : stack[t] = <<>>
    BY DEF Init
  <2>3. Init => MovesInv
    BY <2>2, ReadyFrames DEF MovesInv
  <2> QED BY <2>1, <2>3 DEF BlockInv, FlagInv
<1>2. /\ IInv /\ BlockInv /\ CallsDoNotOverlap /\ CallsDoNotOverlap' /\ WaitingCounted
      /\ [Next]_vars
      => BlockInv'
  BY BlockStep
<1>3. IInv /\ BlockInv => BlockingAlone
  <2> SUFFICES ASSUME IInv, BlockInv, NEW m \in ToSet(active), NEW n \in ToSet(active),
                      cmd[m] \in Blocking
               PROVE  m = n
    BY DEF BlockingAlone
  <2>1. PICK v \in Vdevs : bitmap = {v}
    BY DEF BlockInv, FlagInv
  <2>2. NodeVdev(m) = v /\ NodeVdev(n) = v
    BY <2>1 DEF IInv, BitmapInv
  <2> QED BY <2>2 DEF IInv, BitmapInv
<1> QED BY <1>1, <1>2, <1>3, Invariance, PTL DEF Spec

---------------------------------------------------------------------------
(* Purges.  The node a walk remembers is at place r of the pending list;   *)
(* before the first node it passes, r is 0.                                *)
Stands(cursor, r) ==
  r \in 0 .. Len(pending) /\ IF r = 0 THEN cursor = None ELSE pending[r] = cursor

(* Then the walk visits the nodes after it.                                *)
LEMMA PendingVisit ==
  ASSUME IInv, NEW f, ~OnActive(f), NEW cursor, NEW left \in Nat, NEW r \in Nat,
         Stands(cursor, r)
  PROVE  \E l \in Nat :
           /\ l = IF r + left < Len(pending) THEN left ELSE Len(pending) - r
           /\ ToVisit(f, cursor, left) \in Seq(Nodes)
           /\ Len(ToVisit(f, cursor, left)) = l /\ l <= left /\ r + l <= Len(pending)
           /\ \A i \in 1 .. l : ToVisit(f, cursor, left)[i] = pending[r + i]
<1> DEFINE w == pending
           I == {i \in 1 .. Len(w) : w[i] = cursor}
           from == IF cursor = None THEN 1 ELSE 1 + SelectInSeq(w, LAMBDA n : n = cursor)
           upto == from + left - 1
           hi == IF upto < Len(w) THEN upto ELSE Len(w)
<1>1. /\ w \in Seq(Nodes) /\ IsInjective(w) /\ DOMAIN w = 1 .. Len(w) /\ Len(w) \in Nat
      /\ None \notin Nodes /\ r \in 0 .. Len(w)
  BY CmdAssumption DEF IInv, TypeOK, NodesConserved, Stands
<1>2. ToVisit(f, cursor, left) = SubSeq(w, from, hi)
  BY DEF ToVisit, Walked
<1>3. from = 1 + r
  <2>1. CASE r = 0
    BY <2>1 DEF Stands
  <2>2. CASE r # 0
    <3>1. r \in DOMAIN w /\ w[r] = cursor
      BY <1>1, <2>2 DEF Stands
    <3>2. cursor # None
      BY <1>1, <3>1
    <3>3. I = {r}
      BY <1>1, <3>1 DEF IsInjective
    <3>4. SelectInSeq(w, LAMBDA n : n = cursor) = Min(I)
      BY <3>3 DEF SelectInSeq
    <3>5. I \in SUBSET Nat /\ I # {}
      BY <3>3
    <3>6. Min(I) \in I
      <4> HIDE DEF I
      <4> QED BY <3>5, MinFacts
    <3> QED BY <3>2, <3>3, <3>4, <3>6
  <2> QED BY <2>1, <2>2
<1>4. upto = from + left - 1 /\ hi = IF upto < Len(w) THEN upto ELSE Len(w)
  OBVIOUS
<1> DEFINE v == SubSeq(w, from, hi)
           l == IF r + left < Len(w) THEN left ELSE Len(w) - r
<1> HIDE DEF from, upto, hi
<1>5. upto = r + left
  <2>1. \A x : x = 1 + r => x + left - 1 = r + left
    OBVIOUS
  <2> QED BY <1>3, <1>4, <2>1
<1>6. hi = r + l /\ l \in Nat /\ l <= left /\ r + l <= Len(w)
  <2>1. Len(w) \in Nat /\ r \in 0 .. Len(w)
    BY <1>1
  <2>2. \A n \in Nat : r \in 0 .. n =>
          /\ r + left < n => r + left <= n
          /\ ~(r + left < n) => r + (n - r) = n /\ n - r \in Nat /\ n - r <= left
    OBVIOUS
  <2>3. CASE r + left < Len(w)
    <3>1. l = left /\ hi = r + left
      BY <1>4, <1>5, <2>3
    <3> QED BY <2>1, <2>2, <2>3, <3>1
  <2>4. CASE ~(r + left < Len(w))
    <3>1. l = Len(w) - r /\ hi = Len(w)
      BY <1>4, <1>5, <2>4
    <3> HIDE DEF l
    <3> QED BY <2>1, <2>2, <2>4, <3>1
  <2> QED BY <2>3, <2>4
<1>7. l = IF r + left < Len(w) THEN left ELSE Len(w) - r
  OBVIOUS
<1> HIDE DEF l
<1>8. hi \in Int /\ from \in Int /\ \A i \in from .. hi : w[i] \in Nodes
  BY <1>1, <1>3, <1>6
<1>9. /\ v \in Seq(Nodes)
      /\ Len(v) = IF from <= hi THEN hi - from + 1 ELSE 0
      /\ \A i \in 1 .. hi - from + 1 : v[i] = w[from + i - 1]
  BY <1>8, SubSeqProperties
<1> HIDE DEF v
<1>10. Len(v) = l
  BY <1>1, <1>3, <1>6, <1>9
<1>11. ASSUME NEW i \in 1 .. l
       PROVE  v[i] = w[r + i]
  <2>1. i \in 1 .. hi - from + 1 /\ from + i - 1 = r + i
    BY <1>1, <1>3, <1>6
  <2> QED BY <1>9, <2>1
<1>12. ToVisit(f, cursor, left) = v
  BY <1>2 DEF v
<1> QED BY <1>6, <1>7, <1>9, <1>10, <1>11, <1>12

(* The walk of a purge over the pending list: it ends, having met no       *)
(* command it wants, or takes off the first and remembers the node before. *)
LEMMA PendingWalk ==
  ASSUME IInv, NEW t \in Threads, NEW f, ~OnActive(f), f.node = None, NEW cursor,
         NEW left \in Nat, NEW r \in Nat,
         Stands(cursor, r), Walk(t, f, cursor, left)
  PROVE  \/ /\ UNCHANGED lists /\ Continue(t, <<Over(f)>>)
            /\ \A i \in 1 .. Len(pending) :
                 r < i /\ i <= r + left => cmd[pending[i]] \notin f.scope.sel
         \/ \E k \in 1 .. left :
              /\ r + k <= Len(pending)
              /\ \A i \in 1 .. Len(pending) :
                   r < i /\ i < r + k => cmd[pending[i]] \notin f.scope.sel
              /\ pending' = RemoveFirst(pending, pending[r + k])
              /\ cmd' = [cmd EXCEPT ![pending[r + k]] = None]
              /\ Continue(t, <<Cancel("cancelled", f.scope, None, cmd[pending[r + k]],
                                 IF k = 1 THEN cursor ELSE pending[r + k - 1], left - k)>>)
<1> DEFINE visit == ToVisit(f, cursor, left)
           sel == f.scope.sel
           Hit(n) == cmd[n] \in sel
           I == {i \in 1 .. Len(visit) : Hit(visit[i])}
           k == SelectInSeq(visit, LAMBDA n : cmd[n] \in Wanted(f) /\ ~MarkedOnly(f, n))
           seen == IF k = 0 THEN visit ELSE SubSeq(visit, 1, k - 1)
           before == SelectLastInSeq(seen, LAMBDA n : cmd[n] \notin Wanted(f))
           next == IF before = 0 THEN cursor ELSE seen[before]
<1>1. PICK l \in Nat :
        /\ l = IF r + left < Len(pending) THEN left ELSE Len(pending) - r
        /\ visit \in Seq(Nodes) /\ Len(visit) = l /\ l <= left /\ r + l <= Len(pending)
        /\ \A i \in 1 .. l : visit[i] = pending[r + i]
  BY PendingVisit
<1>2. r \in Nat /\ Len(pending) \in Nat /\ DOMAIN pending = 1 .. Len(pending)
  BY DEF Stands, IInv, TypeOK
<1>10. PICK len \in Nat :
         /\ len = Len(pending) /\ r + l <= len /\ l <= left
         /\ l = IF r + left < len THEN left ELSE len - r
  BY <1>1, <1>2
<1>3. Wanted(f) = sel /\ \A n : ~MarkedOnly(f, n)
  BY DEF Wanted, MarkedOnly
<1>4. \/ k = 0 /\ UNCHANGED lists /\ Continue(t, <<Over(f)>>)
      \/ /\ k # 0 /\ pending' = RemoveFirst(pending, visit[k]) /\ Freed(visit[k])
         /\ Continue(t, <<Cancel("cancelled", f.scope, None, cmd[visit[k]], next,
                                 left - k)>>)
  BY DEF Walk, Over
<1>5. k = IF I # {} THEN Min(I) ELSE 0
  BY <1>3 DEF SelectInSeq
<1> HIDE DEF visit
<1>6. I \in SUBSET Nat
  OBVIOUS
<1>7. I # {} => k \in I /\ \A y \in I : k <= y
  <2> HIDE DEF I, k
  <2> QED BY <1>5, <1>6, MinFacts
<1>8. CASE k = 0
  <2>1. I = {}
    <3>1. 0 \notin I
      OBVIOUS
    <3> QED BY <1>7, <1>8, <3>1
  <2>2. ASSUME NEW i \in 1 .. Len(pending), r < i, i <= r + left
        PROVE  ~Hit(pending[i])
    <3>1. i - r \in 1 .. l /\ r + (i - r) = i
      BY <1>10, <2>2
    <3>2. visit[i - r] = pending[r + (i - r)]
      BY <1>1, <3>1
    <3>3. ~Hit(visit[i - r])
      BY <1>1, <2>1, <3>1
    <3> QED BY <3>1, <3>2, <3>3
  <2> HIDE DEF k
  <2> QED BY <1>4, <1>8, <2>2
<1>9. CASE k # 0
  <2>1. k \in I /\ \A y \in I : k <= y
    BY <1>5, <1>7, <1>9
  <2> HIDE DEF k
  <2>2. k \in 1 .. l
    BY <1>1, <2>1
  <2>3. visit[k] = pending[r + k] /\ k \in 1 .. left /\ r + k <= Len(pending)
    <3>1. k \in 1 .. left /\ r + k <= len
      BY <1>10, <2>2
    <3> QED BY <1>1, <1>10, <2>2, <3>1
  <2>4. ASSUME NEW i \in 1 .. Len(pending), r < i, i < r + k
        PROVE  ~Hit(pending[i])
    <3>1. i - r \in 1 .. l /\ ~(k <= i - r) /\ r + (i - r) = i
      BY <1>10, <2>2, <2>4
    <3>2. visit[i - r] = pending[r + (i - r)]
      BY <1>1, <3>1
    <3>3. i - r \notin I
      BY <2>1, <3>1
    <3>4. ~Hit(visit[i - r])
      BY <1>1, <3>1, <3>3
    <3> QED BY <3>1, <3>2, <3>4
  <2>5. next = IF k = 1 THEN cursor ELSE pending[r + k - 1]
    <3> DEFINE q == SubSeq(visit, 1, k - 1)
               J == {i \in 1 .. Len(q) : cmd[q[i]] \notin Wanted(f)}
    <3>1. seen = q
      BY <1>9
    <3>2. before = IF J # {} THEN Max(J) ELSE 0
      BY <3>1 DEF SelectLastInSeq
    <3>3. k - 1 \in Int /\ \A i \in 1 .. k - 1 : i \in 1 .. l /\ visit[i] \in Nodes
      BY <1>1, <2>2
    <3>4. /\ q \in Seq(Nodes) /\ Len(q) = IF 1 <= k - 1 THEN (k - 1) - 1 + 1 ELSE 0
          /\ \A i \in 1 .. (k - 1) - 1 + 1 : q[i] = visit[1 + i - 1]
      BY <3>3, SubSeqProperties
    <3> HIDE DEF q, seen, before
    <3>5. Len(q) = k - 1 /\ k - 1 \in Nat
      BY <2>2, <3>4
    <3>6. ASSUME NEW i \in 1 .. k - 1
          PROVE  q[i] = pending[r + i] /\ r + i \in 1 .. Len(pending) /\ r < r + i
                 /\ r + i < r + k
      <4>1. i \in 1 .. (k - 1) - 1 + 1 /\ 1 + i - 1 = i /\ i \in 1 .. l
        BY <2>2, <3>3
      <4>2. q[i] = visit[i]
        BY <3>4, <4>1
      <4>3. r + i \in 1 .. len /\ r < r + i /\ r + i < r + k
        BY <1>10, <2>2, <4>1
      <4> QED BY <1>1, <1>10, <4>1, <4>2, <4>3
    <3>7. J = 1 .. k - 1
      <4>1. \A i \in 1 .. k - 1 : cmd[q[i]] \notin Wanted(f)
        BY <1>3, <2>4, <3>6
      <4> QED BY <3>5, <4>1
    <3> HIDE DEF J
    <3>8. CASE k = 1
      <4>1. J = {}
        BY <3>7, <3>8
      <4> QED BY <3>2, <3>8, <4>1
    <3>9. CASE k # 1
      <4>1. k - 1 \in J /\ J \in SUBSET (1 .. k - 1)
        BY <2>2, <3>7, <3>9
      <4>2. Max(J) \in J /\ \A y \in J : y <= Max(J)
        BY <3>5, <4>1, MaxFacts
      <4>3. Max(J) = k - 1
        BY <2>2, <3>7, <4>1, <4>2
      <4>4. before = k - 1 /\ before # 0
        BY <2>2, <3>2, <3>9, <4>1, <4>3
      <4>5. next = q[k - 1]
        BY <3>1, <4>4
      <4>6. k - 1 \in 1 .. k - 1 /\ r + (k - 1) = r + k - 1
        BY <1>2, <2>2, <3>9
      <4> QED BY <3>6, <3>9, <4>5, <4>6
    <3> QED BY <3>8, <3>9
  <2> HIDE DEF next
  <2>6. /\ pending' = RemoveFirst(pending, pending[r + k])
        /\ cmd' = [cmd EXCEPT ![pending[r + k]] = None]
        /\ Continue(t, <<Cancel("cancelled", f.scope, None, cmd[pending[r + k]],
                           IF k = 1 THEN cursor ELSE pending[r + k - 1], left - k)>>)
    BY <1>4, <1>9, <2>3, <2>5 DEF Freed
  <2> QED BY <2>3, <2>4, <2>6
<1> QED BY <1>8, <1>9

(* No command of the vdev is pending; those that are, are ahead of the     *)
(* walk and within the nodes it has left.                                  *)
Purged(f) == \A n \in ToSet(pending) : cmd[n] \notin f.scope.sel
Ahead(f) ==
  \E r \in Nat :
    /\ Stands(f.cursor, r)
    /\ \A i \in 1 .. Len(pending) :
         cmd[pending[i]] \in f.scope.sel => r < i /\ i <= r + f.left

(* The commands a purge wants are of vdevs that take no more, so what is   *)
(* purged stays so.                                                        *)
LEMMA PurgedStays ==
  ASSUME IInv, Changes, NEW f, Purged(f), \A c \in f.scope.sel : VdevOf[c] \in disabled
  PROVE  Purged(f)'
<1>1. pending \in Seq(Nodes) /\ IsInjective(pending) /\ cmd \in [Nodes -> Cmds \cup {None}]
  BY DEF IInv, TypeOK, NodesConserved
<1>2. CASE Keeps
  BY <1>2 DEF Keeps, Purged
<1>3. ASSUME NEW n \in ToSet(pending), Drops(n)
      PROVE  Purged(f)'
  <2>1. ToSet(pending') = ToSet(pending) \ {n}
    BY <1>1, <1>3, RemoveFacts DEF Drops
  <2> QED BY <1>3, <2>1 DEF Drops, Purged
<1>4. ASSUME NEW n \in pool, NEW c \in Cmds, Adds(n, c)
      PROVE  Purged(f)'
  <2>1. n \in Nodes /\ n \notin ToSet(pending) /\ ToSet(pending) \subseteq Nodes
    BY ListFacts DEF IInv, TypeOK
  <2>2. ToSet(pending') = ToSet(pending) \cup {n}
    BY <1>1, <1>4, <2>1, InsertFacts DEF Adds
  <2>3. cmd'[n] = c /\ \A m \in ToSet(pending) : cmd'[m] = cmd[m]
    BY <1>1, <1>4, <2>1 DEF Adds
  <2>4. c \notin f.scope.sel
    BY <1>4 DEF Adds
  <2> QED BY <2>2, <2>3, <2>4 DEF Purged
<1> QED BY <1>2, <1>3, <1>4 DEF Changes

(* What is ahead of a walk stays ahead of it while the node it remembers   *)
(* is in the list and nothing is put in front of that.                     *)
LEMMA AheadStays ==
  ASSUME IInv, Changes, Urgent = {}, NEW f, f.left \in Nat, Ahead(f),
         \A c \in f.scope.sel : VdevOf[c] \in disabled,
         f.cursor # None => f.cursor \in ToSet(pending')
  PROVE  Ahead(f)'
<1> DEFINE sel == f.scope.sel
<1>1. /\ pending \in Seq(Nodes) /\ IsInjective(pending) /\ cmd \in [Nodes -> Cmds \cup {None}]
      /\ None \notin Nodes /\ DOMAIN pending = 1 .. Len(pending) /\ Len(pending) \in Nat
  BY CmdAssumption DEF IInv, TypeOK, NodesConserved
<1>2. PICK r \in Nat :
        /\ Stands(f.cursor, r)
        /\ \A i \in 1 .. Len(pending) : cmd[pending[i]] \in sel => r < i /\ i <= r + f.left
  BY DEF Ahead
<1>3. PICK len \in Nat, left \in Nat : len = Len(pending) /\ left = f.left /\ r <= len
  <2>1. r <= Len(pending)
    BY <1>1, <1>2 DEF Stands
  <2> QED BY <1>1, <2>1
<1>4. CASE Keeps
  <2>1. \A i \in 1 .. Len(pending) : cmd'[pending[i]] = cmd[pending[i]]
    BY <1>1, <1>4 DEF Keeps, ToSet
  <2>2. Stands(f.cursor, r)'
    BY <1>2, <1>4 DEF Keeps, Stands
  <2>3. \A i \in 1 .. Len(pending') : cmd'[pending'[i]] \in sel => r < i /\ i <= r + f.left
    BY <1>2, <1>4, <2>1 DEF Keeps
  <2> QED BY <2>2, <2>3 DEF Ahead
<1>5. ASSUME NEW n \in ToSet(pending), Drops(n)
      PROVE  Ahead(f)'
  <2>1. PICK k \in 1 .. Len(pending) :
          /\ pending[k] = n
          /\ pending' \in Seq(Nodes) /\ Len(pending') = Len(pending) - 1
          /\ \A i \in 1 .. Len(pending) - 1 :
               pending'[i] = IF i < k THEN pending[i] ELSE pending[i + 1]
    <3>1. PICK q : q = RemoveFirst(pending, n)
      OBVIOUS
    <3>2. \E k \in 1 .. Len(pending) :
            /\ pending[k] = n /\ q \in Seq(Nodes) /\ Len(q) = Len(pending) - 1
            /\ \A i \in 1 .. Len(pending) - 1 :
                 q[i] = IF i < k THEN pending[i] ELSE pending[i + 1]
      <4>1. pending \in Seq(Nodes) /\ n \in ToSet(pending)
        BY <1>1
      <4> QED BY <3>1, <4>1, RemoveOrder
    <3>3. pending' = q
      BY <1>5, <3>1 DEF Drops
    <3> QED BY <3>2, <3>3
  <2>2. ToSet(pending') = ToSet(pending) \ {n}
    BY <1>1, <1>5, RemoveFacts DEF Drops
  <2>3. r # k
    <3> SUFFICES ASSUME r = k PROVE FALSE
      OBVIOUS
    <3>1. r # 0 /\ pending[r] = f.cursor /\ f.cursor \in Nodes
      BY <1>1, <1>2, <2>1 DEF Stands
    <3> QED BY <1>1, <2>1, <2>2, <3>1
  <2> DEFINE at(i) == IF i < k THEN i ELSE i + 1
             s == IF r < k THEN r ELSE r - 1
  <2>4. ASSUME NEW i \in 1 .. len - 1
        PROVE  /\ at(i) \in 1 .. len /\ at(i) # k
               /\ r < at(i) /\ at(i) <= r + left => s < i /\ i <= s + left
    BY <1>3, <2>1, <2>3
  <2>5. s \in Nat /\ s \in 0 .. len - 1 /\ (s = 0 => r = 0)
        /\ (s # 0 => s \in 1 .. len - 1 /\ at(s) = r)
    BY <1>3, <2>1, <2>3
  <2>6. \A i \in 1 .. len - 1 : pending'[i] = pending[at(i)]
    BY <1>3, <2>1
  <2> HIDE DEF at, s
  <2>7. Stands(f.cursor, s)'
    <3>1. Len(pending') = len - 1
      BY <1>3, <2>1
    <3>2. CASE s = 0
      BY <1>2, <2>5, <3>1, <3>2 DEF Stands
    <3>3. CASE s # 0
      <4>1. pending'[s] = pending[r]
        BY <2>5, <2>6, <3>3
      <4>2. r # 0
        BY <2>4, <2>5, <3>3
      <4> QED BY <1>2, <2>5, <3>1, <3>3, <4>1, <4>2 DEF Stands
    <3> QED BY <3>2, <3>3
  <2>8. ASSUME NEW i \in 1 .. len - 1, cmd'[pending'[i]] \in sel
        PROVE  s < i /\ i <= s + left
    <3>1. at(i) \in 1 .. Len(pending) /\ at(i) # k /\ pending'[i] = pending[at(i)]
      BY <1>3, <2>4, <2>6
    <3>2. pending[at(i)] \in ToSet(pending) /\ pending[at(i)] # n
      BY <1>1, <2>1, <3>1 DEF ToSet, IsInjective
    <3>3. cmd[pending[at(i)]] \in sel
      BY <1>5, <2>8, <3>1, <3>2 DEF Drops
    <3>4. r < at(i) /\ at(i) <= r + left
      BY <1>2, <1>3, <3>1, <3>3
    <3> QED BY <2>4, <3>4
  <2>9. Len(pending') = len - 1
    BY <1>3, <2>1
  <2> QED BY <1>3, <2>5, <2>7, <2>8, <2>9 DEF Ahead
<1>6. ASSUME NEW n \in pool, NEW c \in Cmds, Adds(n, c)
      PROVE  Ahead(f)'
  <2>1. n \in Nodes /\ n \notin ToSet(pending) /\ ToSet(pending) \subseteq Nodes
    BY ListFacts DEF IInv, TypeOK
  <2>2. pending' = Append(pending, n)
    BY <1>6 DEF Adds, Insert
  <2>3. /\ Len(pending') = len + 1 /\ pending'[len + 1] = n
        /\ \A i \in 1 .. len : pending'[i] = pending[i]
    BY <1>1, <1>3, <2>1, <2>2
  <2>4. cmd'[n] = c /\ \A m \in ToSet(pending) : cmd'[m] = cmd[m]
    BY <1>1, <1>6, <2>1 DEF Adds
  <2>5. c \notin sel
    BY <1>6 DEF Adds
  <2>6. \A i \in 1 .. len : pending[i] \in ToSet(pending)
    BY <1>1, <1>3 DEF ToSet
  <2>7. ASSUME NEW i \in 1 .. len + 1, cmd'[pending'[i]] \in sel
        PROVE  r < i /\ i <= r + left
    <3>1. i \in 1 .. len
      BY <2>3, <2>4, <2>5, <2>7
    <3> QED BY <1>2, <1>3, <2>3, <2>4, <2>6, <2>7, <3>1
  <2>8. Stands(f.cursor, r)'
    <3>1. r \in 0 .. len + 1 /\ (r # 0 => r \in 1 .. len)
      BY <1>3
    <3> QED BY <1>2, <2>3, <3>1 DEF Stands
  <2> QED BY <1>3, <2>3, <2>7, <2>8 DEF Ahead
<1> QED BY <1>4, <1>5, <1>6 DEF Changes

(* The purge of a deleted vdev takes all commands of vdevs that take no    *)
(* more; while it walks the pending list they are ahead of it, and then    *)
(* there are none.                                                         *)
PurgeOK(f) ==
  /\ f.node = None /\ f.scope.all /\ \A c \in f.scope.sel : VdevOf[c] \in disabled
  /\ OnActive(f) \/ f.pc = "cancel_end" => Purged(f)
  /\ ~OnActive(f) /\ f.pc = "cancelled" => Ahead(f)
PurgeInv == \A p \in Places : IsPurge(FrameAt(p)) => PurgeOK(FrameAt(p))

(* The condition: the node a purge remembers while it lets go of the lock  *)
(* for a callback stays in the pending list.                               *)
Remembers(f) ==
  IsPurge(f) /\ f.pc = "cancelled" /\ ~OnActive(f) /\ f.cursor # None
CursorsStay ==
  \A p \in Places : Remembers(FrameAt(p)) => FrameAt(p).cursor \in ToSet(pending)

(* A purge that others interleave with.                                    *)
LEMMA PurgeStays ==
  ASSUME IInv, Changes, disabled \subseteq disabled', Urgent = {}, NEW f \in Frames,
         IsPurge(f), PurgeOK(f), Remembers(f) => f.cursor \in ToSet(pending')
  PROVE  PurgeOK(f)'
<1>1. f.left \in Nat
  BY FrameKinds DEF IsPurge
<1>2. Purged(f) => Purged(f)'
  BY PurgedStays DEF PurgeOK
<1>3. ~OnActive(f) /\ f.pc = "cancelled" => Ahead(f)'
  BY <1>1, AheadStays DEF PurgeOK, Remembers
<1>4. OnActive(f)' <=> OnActive(f)
  BY DEF OnActive
<1>5. OnActive(f) \/ f.pc = "cancel_end" => Purged(f)'
  BY <1>2 DEF PurgeOK
<1> QED BY <1>3, <1>4, <1>5 DEF PurgeOK

(* A round of the walk of a purge over the pending list.                   *)
LEMMA PurgeWalk ==
  ASSUME IInv, NEW t \in Threads, NEW f, ~OnActive(f), f.node = None, f.scope \in Scope,
         NEW cursor, NEW left \in Nat, NEW r \in Nat, Stands(cursor, r),
         \A i \in 1 .. Len(pending) :
           cmd[pending[i]] \in f.scope.sel => r < i /\ i <= r + left,
         Walk(t, f, cursor, left)
  PROVE  \E g \in Frames :
           /\ Continue(t, <<g>>) /\ g.scope = f.scope /\ g.node = None
           /\ \/ g.pc = "cancel_end" /\ Purged(f)'
              \/ g.pc = "cancelled" /\ Ahead(g)'
<1> DEFINE sel == f.scope.sel
<1>1. /\ pending \in Seq(Nodes) /\ IsInjective(pending) /\ cmd \in [Nodes -> Cmds \cup {None}]
      /\ DOMAIN pending = 1 .. Len(pending) /\ Len(pending) \in Nat
  BY DEF IInv, TypeOK, NodesConserved
<1>2. PICK len \in Nat : len = Len(pending) /\ r <= len
  <2>1. r <= Len(pending)
    BY <1>1 DEF Stands
  <2> QED BY <1>1, <2>1
<1>3. CASE /\ UNCHANGED lists /\ Continue(t, <<Over(f)>>)
           /\ \A i \in 1 .. Len(pending) :
                r < i /\ i <= r + left => cmd[pending[i]] \notin sel
  <2>1. PICK g : g = Over(f)
    OBVIOUS
  <2>2. g \in Frames /\ g.scope = f.scope /\ g.node = None /\ g.pc = "cancel_end"
    BY <2>1, FrameTypes DEF Over, Cancel
  <2>3. Purged(f)'
    <3>1. \A i \in 1 .. Len(pending) : cmd[pending[i]] \notin sel
      BY <1>3
    <3> QED BY <1>1, <1>3, <3>1 DEF Purged, ToSet, lists
  <2> QED BY <1>3, <2>1, <2>2, <2>3
<1>4. ASSUME NEW k \in 1 .. left, r + k <= Len(pending),
             \A i \in 1 .. Len(pending) :
               r < i /\ i < r + k => cmd[pending[i]] \notin sel,
             pending' = RemoveFirst(pending, pending[r + k]),
             cmd' = [cmd EXCEPT ![pending[r + k]] = None],
             Continue(t, <<Cancel("cancelled", f.scope, None, cmd[pending[r + k]],
                             IF k = 1 THEN cursor ELSE pending[r + k - 1], left - k)>>)
      PROVE  \E g \in Frames :
               /\ Continue(t, <<g>>) /\ g.scope = f.scope /\ g.node = None
               /\ g.pc = "cancelled" /\ Ahead(g)'
  <2>1. r + k \in 1 .. len /\ r + k <= len
    BY <1>2, <1>4
  <2>2. PICK n : n = pending[r + k] /\ n \in ToSet(pending) /\ n \in Nodes
    BY <1>1, <1>2, <2>1 DEF ToSet
  <2>3. PICK x \in Nodes \cup {None} : x = IF k = 1 THEN cursor ELSE pending[r + k - 1]
    <3>1. CASE k = 1
      <4>1. cursor \in Nodes \cup {None}
        BY <1>1 DEF Stands
      <4> QED BY <3>1, <4>1
    <3>2. CASE k # 1
      <4>1. r + k - 1 \in 1 .. len
        BY <2>1, <3>2
      <4> QED BY <1>1, <1>2, <3>2, <4>1
    <3> QED BY <3>1, <3>2
  <2>4. PICK y \in Nat : y = left - k
    OBVIOUS
  <2>5. cmd[n] \in Cmds
    BY <2>2, ListFacts
  <2>6. PICK g : g = Cancel("cancelled", f.scope, None, cmd[n], x, y)
    OBVIOUS
  <2>7. /\ g \in Frames /\ Continue(t, <<g>>) /\ g.scope = f.scope /\ g.node = None
        /\ g.pc = "cancelled" /\ g.cursor = x /\ g.left = y
    <3>1. Continue(t, <<g>>)
      BY <1>4, <2>2, <2>3, <2>4, <2>6
    <3> QED BY <2>3, <2>4, <2>5, <2>6, <3>1, FrameTypes DEF Cancel
  <2>8. PICK k0 \in 1 .. len :
          /\ pending[k0] = n
          /\ Len(pending') = len - 1
          /\ \A i \in 1 .. len - 1 :
               pending'[i] = IF i < k0 THEN pending[i] ELSE pending[i + 1]
    <3>1. PICK q : q = RemoveFirst(pending, n)
      OBVIOUS
    <3>2. \E j \in 1 .. Len(pending) :
            /\ pending[j] = n /\ q \in Seq(Nodes) /\ Len(q) = Len(pending) - 1
            /\ \A i \in 1 .. Len(pending) - 1 :
                 q[i] = IF i < j THEN pending[i] ELSE pending[i + 1]
      <4>1. pending \in Seq(Nodes) /\ n \in ToSet(pending)
        BY <1>1, <2>2
      <4> QED BY <3>1, <4>1, RemoveOrder
    <3>3. pending' = q
      BY <1>4, <2>2, <3>1
    <3> QED BY <1>2, <3>2, <3>3
  <2>9. k0 = r + k
    BY <1>1, <1>2, <2>1, <2>2, <2>8 DEF IsInjective
  <2>10. PICK s \in Nat : s = r + k - 1
    OBVIOUS
  <2>11. Stands(x, s)'
    <3>1. s \in 0 .. len - 1 /\ s < k0
      BY <2>1, <2>9, <2>10
    <3>2. CASE k = 1
      <4>1. s = r /\ x = cursor
        BY <2>3, <2>10, <3>2
      <4>2. CASE r = 0
        BY <2>8, <3>1, <4>1, <4>2 DEF Stands
      <4>3. CASE r # 0
        <5>1. r \in 1 .. len - 1 /\ r < k0
          BY <3>1, <4>1, <4>3
        <5>2. pending'[r] = pending[r]
          BY <2>8, <5>1
        <5> QED BY <2>8, <3>1, <4>1, <4>3, <5>2 DEF Stands
      <4> QED BY <4>2, <4>3
    <3>3. CASE k # 1
      <4>1. s \in 1 .. len - 1 /\ x = pending[s]
        BY <2>1, <2>3, <2>10, <3>1, <3>3
      <4>2. pending'[s] = pending[s]
        BY <2>8, <3>1, <4>1
      <4> QED BY <2>8, <3>1, <4>1, <4>2 DEF Stands
    <3> QED BY <3>2, <3>3
  <2>12. \A m \in ToSet(pending) : m # n => cmd'[m] = cmd[m]
    BY <1>1, <1>4, <2>2, ListFacts
  <2>13. ASSUME NEW i \in 1 .. len - 1, cmd'[pending'[i]] \in sel
         PROVE  s < i /\ i <= s + y
    <3>1. CASE i < k0
      <4>1. i \in 1 .. Len(pending) /\ i # k0 /\ pending'[i] = pending[i]
        BY <1>2, <2>8, <3>1
      <4>2. pending[i] \in ToSet(pending) /\ pending[i] # n
        BY <1>1, <1>2, <2>8, <4>1 DEF ToSet, IsInjective
      <4>3. cmd[pending[i]] \in sel
        BY <2>12, <2>13, <4>1, <4>2
      <4>4. r < i /\ i < r + k
        BY <2>9, <3>1, <4>1, <4>3
      <4> QED BY <1>4, <4>1, <4>3, <4>4
    <3>2. CASE ~(i < k0)
      <4>1. i + 1 \in 1 .. Len(pending) /\ i + 1 # k0 /\ pending'[i] = pending[i + 1]
        BY <1>2, <2>8, <3>2
      <4>2. pending[i + 1] \in ToSet(pending) /\ pending[i + 1] # n
        BY <1>1, <1>2, <2>8, <4>1 DEF ToSet, IsInjective
      <4>3. cmd[pending[i + 1]] \in sel
        BY <2>12, <2>13, <4>1, <4>2
      <4>4. i + 1 <= r + left
        BY <4>1, <4>3
      <4> QED BY <2>4, <2>9, <2>10, <3>2, <4>4
    <3> QED BY <3>1, <3>2
  <2>14. Ahead(g)'
    BY <2>7, <2>8, <2>10, <2>11, <2>13 DEF Ahead
  <2> QED BY <2>7, <2>14
<1> QED BY <1>3, <1>4, PendingWalk

(* The frames after a step are those before it and those it goes on with.  *)
LEMMA NewFrames ==
  ASSUME StackOK, NEW t \in Threads, stack[t] # <<>>, NEW fs \in Seq(Frames),
         Continue(t, fs), NEW p \in Places'
  PROVE  \/ p \in Places /\ FrameAt(p)' = FrameAt(p)
         \/ \E i \in DOMAIN fs : FrameAt(p)' = fs[i]
<1>1. CASE p \in Places \ {TopAt(t)}
  BY <1>1, ContinueFacts
<1>2. ASSUME NEW j \in 1 .. Len(fs), p = <<t, Len(stack[t]) - 1 + j>>
      PROVE  \E i \in DOMAIN fs : FrameAt(p)' = fs[i]
  <2>1. FrameAt(p)' = fs[Len(fs) + 1 - j]
    BY <1>2, ContinueFacts
  <2>2. Len(fs) + 1 - j \in DOMAIN fs
    BY <1>2
  <2> QED BY <2>1, <2>2
<1>3. Places' = (Places \ {TopAt(t)})
                  \cup {<<t, Len(stack[t]) - 1 + j>> : j \in 1 .. Len(fs)}
  BY ContinueFacts
<1> QED BY <1>1, <1>2, <1>3

(* No queue is enabled again.                                              *)
LEMMA DisabledGrows ==
  ASSUME [Next]_vars
  PROVE  disabled \subseteq disabled'
<1>1. ASSUME NEW t \in Threads, Step(t)
      PROVE  disabled \subseteq disabled'
  <2>1. MovePendingToActive(t) \/ MoveAgain(t) => disabled \subseteq disabled'
    <3>1. \A n, bits, lookup : MoveOne(t, n, bits, lookup) => disabled \subseteq disabled'
      BY DEF MoveOne
    <3>2. \A bits : MoveNone(t, bits) => disabled' = disabled
      BY DEF MoveNone
    <3> QED BY <3>1, <3>2 DEF MovePendingToActive, MoveAgain, MoveFromPdev, MoveFromVdev
  <2>2. \/ StartTimer(t) \/ ActivateCallback(t) \/ Settle(t) \/ ActivateTail(t)
        \/ DequeueCmd(t) \/ ReleaseMem(t)
        => disabled' = disabled
    BY DEF StartTimer, ActivateCallback, Settle, ActivateTail, DequeueCmd, ReleaseMem
  <2>3. CancelStart(t) \/ CancelResume(t) \/ CancelEnd(t) => disabled' = disabled
    BY DEF CancelStart, CancelResume, CancelEnd
  <2> QED BY <1>1, <2>1, <2>2, <2>3 DEF Step
<1>2. ASSUME NEW t \in Threads, Begin(t)
      PROVE  disabled \subseteq disabled'
  <2>1. \A c : RequestAccepted(t, c) \/ RequestRefused(t, c) => disabled \subseteq disabled'
    BY DEF RequestAccepted, RequestRefused
  <2>2. \A c : RemoveCmd(t, c) => disabled' = disabled
    BY DEF RemoveCmd
  <2>3. \A scope : CancelRequest(t, scope) => disabled' = disabled
    BY DEF CancelRequest
  <2>4. \A v : CloseSession(t, v) => disabled \subseteq disabled'
    BY DEF CloseSession
  <2> QED BY <1>2, <2>1, <2>2, <2>3, <2>4 DEF Begin
<1>3. CASE \/ \E n \in Nodes : TimerExpires(n) \/ TimeoutLost(n)
           \/ HandleTimeout \/ \E c \in Rearmed : UpdateTimer(c)
  BY <1>3 DEF TimerExpires, TimeoutLost, HandleTimeout, UpdateTimer
<1>4. CASE UNCHANGED vars
  BY <1>4 DEF vars
<1> QED BY <1>1, <1>2, <1>3, <1>4 DEF Next

(* The purges are right after a step if those it begins or goes on with    *)
(* are.                                                                    *)
LEMMA PurgeFrames ==
  ASSUME IInv, PurgeInv, CursorsStay', Urgent = {}, [Next]_vars,
         \A p \in Places' :
           \/ p \in Places /\ FrameAt(p)' = FrameAt(p)
           \/ \E f : FrameAt(p)' = f /\ (IsPurge(f) => PurgeOK(f)')
  PROVE  PurgeInv'
<1> SUFFICES ASSUME NEW p \in Places', IsPurge(FrameAt(p))'
             PROVE  PurgeOK(FrameAt(p))'
  BY DEF PurgeInv
<1>1. ASSUME NEW f, FrameAt(p)' = f, PurgeOK(f)'
      PROVE  PurgeOK(FrameAt(p))'
  BY <1>1 DEF PurgeOK, Purged, Ahead, OnActive, Stands
<1>2. ASSUME NEW f, FrameAt(p)' = f
      PROVE  IsPurge(f)
  BY <1>2 DEF IsPurge
<1>3. CASE p \in Places /\ FrameAt(p)' = FrameAt(p)
  <2>1. PICK f : f = FrameAt(p)
    OBVIOUS
  <2>2. FrameAt(p)' = f
    BY <1>3, <2>1
  <2>3. f \in Frames
    <3>1. StackOK
      BY DEF IInv, TypeOK, StackOK
    <3>2. PICK t \in Threads : \E h \in 1 .. Len(stack[t]) : p = <<t, h>>
      BY <1>3, <3>1, PlacesFacts
    <3>3. PICK h \in 1 .. Len(stack[t]) : p = <<t, h>>
      BY <3>2
    <3>4. stack[t] \in Seq(Frames) /\ Len(stack[t]) + 1 - h \in DOMAIN stack[t]
      BY <3>1 DEF StackOK
    <3>5. f = stack[t][Len(stack[t]) + 1 - h]
      BY <2>1, <3>3 DEF FrameAt
    <3> QED BY <3>4, <3>5
  <2>4. IsPurge(f) /\ PurgeOK(f)
    BY <1>2, <1>3, <2>1, <2>2 DEF PurgeInv
  <2>5. Remembers(f) => f.cursor \in ToSet(pending')
    BY <2>2 DEF CursorsStay, Remembers, IsPurge, OnActive
  <2>6. PurgeOK(f)'
    BY <2>3, <2>4, <2>5, NextChanges, DisabledGrows, PurgeStays
  <2> QED BY <1>1, <2>2, <2>6
<1>4. ASSUME NEW f, FrameAt(p)' = f, IsPurge(f) => PurgeOK(f)'
      PROVE  PurgeOK(FrameAt(p))'
  BY <1>1, <1>2, <1>4
<1> QED BY <1>3, <1>4

(* So it is for a step of a call ...                                       *)
LEMMA PurgeContinue ==
  ASSUME IInv, PurgeInv, CursorsStay', Urgent = {}, [Next]_vars,
         NEW t \in Threads, stack[t] # <<>>, NEW fs \in Seq(Frames), Continue(t, fs),
         \A i \in DOMAIN fs : IsPurge(fs[i]) => PurgeOK(fs[i])'
  PROVE  PurgeInv'
<1>1. StackOK
  BY DEF IInv, TypeOK, StackOK
<1>2. ASSUME NEW p \in Places'
      PROVE  \/ p \in Places /\ FrameAt(p)' = FrameAt(p)
             \/ \E f : FrameAt(p)' = f /\ (IsPurge(f) => PurgeOK(f)')
  BY <1>1, NewFrames
<1> QED BY <1>2, PurgeFrames

(* ... and for one that begins a call, or none.                            *)
LEMMA PurgeCall ==
  ASSUME IInv, PurgeInv, CursorsStay', Urgent = {}, [Next]_vars,
         \/ UNCHANGED stack
         \/ \E t \in Threads : \E f \in Frames :
              Idle(t) /\ Call(t, <<f>>) /\ (IsPurge(f) => PurgeOK(f)')
  PROVE  PurgeInv'
<1>1. StackOK
  BY DEF IInv, TypeOK, StackOK
<1>2. CASE UNCHANGED stack
  <2>1. \A p \in Places' : p \in Places /\ FrameAt(p)' = FrameAt(p)
    BY <1>2, SameStack DEF Others
  <2> QED BY <2>1, PurgeFrames
<1>3. ASSUME NEW t \in Threads, NEW f \in Frames, Idle(t), Call(t, <<f>>),
             IsPurge(f) => PurgeOK(f)'
      PROVE  PurgeInv'
  <2>1. PICK new : Begins(new, f)
    BY <1>1, <1>3, Call1 DEF Idle
  <2>2. ASSUME NEW p \in Places'
        PROVE  \/ p \in Places /\ FrameAt(p)' = FrameAt(p)
               \/ \E g : FrameAt(p)' = g /\ (IsPurge(g) => PurgeOK(g)')
    BY <1>3, <2>1 DEF Begins, Others
  <2> QED BY <2>2, PurgeFrames
<1> QED BY <1>2, <1>3

(* A step that leaves the queue alone leaves the purges alone.             *)
LEMMA InertPurges ==
  ASSUME IInv, PurgeInv, CursorsStay', Urgent = {}, [Next]_vars, NEW t \in Threads,
         Inert(t)
  PROVE  PurgeInv'
<1>1. stack[t] # <<>>
  BY AtFacts DEF Inert
<1>2. PICK fs : Harmless(fs) /\ Continue(t, fs)
  BY DEF Inert
<1> QED BY <1>1, <1>2, PurgeContinue DEF Harmless

(* A dequeue goes on with a move and the release of memory.                *)
LEMMA DequeuePurges ==
  ASSUME IInv, PurgeInv, CursorsStay', Urgent = {}, [Next]_vars, NEW t \in Threads,
         DequeueCmd(t)
  PROVE  PurgeInv'
<1>1. At(t, "dequeue") /\ disabled' = disabled /\ stack[t] # <<>>
  BY AtFacts DEF DequeueCmd
<1>2. PICK c : c = IF Top(t).node = None THEN Top(t).cmd ELSE cmd[Top(t).node]
  OBVIOUS
<1>3. \/ UNCHANGED <<lists, marks>> /\ Continue(t, <<>>)
      \/ \E n \in Holding(active, c) : RemoveActive(n) /\ Continue(t, Removed(c))
  BY <1>2 DEF DequeueCmd, MarkForRemoval
<1>4. CASE UNCHANGED <<lists, marks>> /\ Continue(t, <<>>)
  BY <1>1, <1>4, NothingInert, InertPurges DEF marks
<1>5. ASSUME NEW n \in Holding(active, c), Continue(t, Removed(c))
      PROVE  PurgeInv'
  <2> DEFINE f == Move(VdevOf[c], c \in Blocking)  g == Release(c)
  <2>1. c \in Cmds
    BY ListFacts DEF Holding
  <2>2. g \in Frames /\ ~IsPurge(g)
    BY <2>1, FrameTypes DEF Release, IsPurge
  <2>3. f \in Frames /\ ~IsPurge(f)
    <3>1. VdevOf[c] \in Vdevs /\ (c \in Blocking) \in BOOLEAN
      BY <2>1, CmdAssumption
    <3>2. ~IsPurge(f)
      BY DEF IsPurge, Move
    <3> QED BY <3>1, <3>2, FrameTypes
  <2>4. Continue(t, <<f, g>>)
    BY <1>5 DEF Removed
  <2> HIDE DEF f, g
  <2>5. <<f, g>> \in Seq(Frames) /\ \A i \in DOMAIN <<f, g>> : ~IsPurge(<<f, g>>[i])
    <3>1. DOMAIN <<f, g>> = {1, 2} /\ <<f, g>>[1] = f /\ <<f, g>>[2] = g
      OBVIOUS
    <3> QED BY <2>2, <2>3, <3>1
  <2> QED BY <1>1, <2>4, <2>5, PurgeContinue
<1> QED BY <1>3, <1>4, <1>5

(* A move goes on with an activation and a move.                           *)
LEMMA MovePurges ==
  ASSUME IInv, PurgeInv, CursorsStay', Urgent = {}, [Next]_vars, NEW t \in Threads,
         MovePendingToActive(t) \/ MoveAgain(t)
  PROVE  PurgeInv'
<1> DEFINE Moved == \/ \E bits : MoveNone(t, bits)
                    \/ \E n \in ToSet(pending) : \E bits : \E lookup \in BOOLEAN :
                         MoveOne(t, n, bits, lookup)
<1>1. MoveFromPdev(t) => Moved
  BY StopAtFacts DEF MoveFromPdev
<1>2. \A v : MoveFromVdev(t, v) => Moved
  BY VdevFrontFacts DEF MoveFromVdev
<1>3. Moved
  <2>1. (\E bits : MoveNone(t, bits)) => Moved
    OBVIOUS
  <2> HIDE DEF Moved
  <2> QED BY <1>1, <1>2, <2>1 DEF MovePendingToActive, MoveAgain
<1>4. \E pc \in {"move", "move_on"} : At(t, pc)
  BY DEF MovePendingToActive, MoveAgain
<1>5. stack[t] # <<>>
  BY <1>4, AtFacts
<1>6. ASSUME NEW bits, MoveNone(t, bits)
      PROVE  PurgeInv'
  <2>1. Continue(t, <<>>) /\ UNCHANGED <<lists, disabled, bitmap, blocking_cmd_active>>
    BY <1>6 DEF MoveNone, marks
  <2> QED BY <1>4, <2>1, NothingInert, InertPurges
<1>7. ASSUME NEW n \in ToSet(pending), NEW bits, NEW lookup \in BOOLEAN,
             MoveOne(t, n, bits, lookup)
      PROVE  PurgeInv'
  <2> DEFINE f == Activate("timer", n, TRUE)  g == MoveOn(lookup)
  <2>1. n \in Nodes
    BY ListFacts
  <2>2. f \in Frames /\ g \in Frames
    BY <2>1, FrameTypes
  <2>3. ~IsPurge(f) /\ ~IsPurge(g)
    BY DEF Activate, MoveOn, IsPurge
  <2>4. Continue(t, <<f, g>>)
    BY <1>7 DEF MoveOne
  <2> HIDE DEF f, g
  <2>5. <<f, g>> \in Seq(Frames) /\ \A i \in DOMAIN <<f, g>> : ~IsPurge(<<f, g>>[i])
    <3>1. DOMAIN <<f, g>> = {1, 2} /\ <<f, g>>[1] = f /\ <<f, g>>[2] = g
      OBVIOUS
    <3> QED BY <2>2, <2>3, <3>1
  <2> QED BY <1>5, <2>4, <2>5, PurgeContinue
<1> QED BY <1>3, <1>6, <1>7

(* The frame a walk goes on with, if any, is of the same cancel.           *)
LEMMA CancelKeepsScope ==
  ASSUME IInv, NEW t \in Threads, CancelStart(t) \/ CancelResume(t), NEW f, f = Top(t)
  PROVE  \/ Continue(t, <<>>)
         \/ \E g \in Frames :
              /\ Continue(t, <<g>>) /\ g.scope = f.scope /\ g.node = None
              /\ g.pc \in {"cancelled", "cancel_end"}
<1>1. f.scope \in Scope
  BY CancelFrameFacts DEF CancelStart, CancelResume
<1>2. CASE Continue(t, <<Over(f)>>)
  <2>1. PICK g : g = Over(f)
    OBVIOUS
  <2>2. g \in Frames /\ g.scope = f.scope /\ g.node = None /\ g.pc = "cancel_end"
    BY <1>1, <2>1, FrameTypes DEF Over, Cancel
  <2> QED BY <1>2, <2>1, <2>2
<1>3. ASSUME NEW n \in ToSet(Walked(f)), NEW M, WalkTakes(t, f, M, n)
      PROVE  \E g \in Frames :
               /\ Continue(t, <<g>>) /\ g.scope = f.scope /\ g.node = None
               /\ g.pc \in {"cancelled", "cancel_end"}
  <2>1. PICK cursor \in Nodes \cup {None}, left \in Nat :
          Continue(t, <<Cancel("cancelled", f.scope, None, cmd[n], cursor, left)>>)
    BY <1>3 DEF WalkTakes
  <2>2. cmd[n] \in Cmds
    BY ListFacts DEF Walked
  <2>3. PICK g : g = Cancel("cancelled", f.scope, None, cmd[n], cursor, left)
    OBVIOUS
  <2>4. g \in Frames /\ g.scope = f.scope /\ g.node = None /\ g.pc = "cancelled"
    BY <1>1, <2>2, <2>3, FrameTypes DEF Cancel
  <2> QED BY <2>1, <2>3, <2>4
<1> QED BY <1>2, <1>3, CancelShape

(* The walk of a purge over the pending list, from its beginning or from   *)
(* the node it remembers.                                                  *)
LEMMA PurgeRound ==
  ASSUME IInv, NEW t \in Threads, CancelStart(t) \/ CancelResume(t), NEW f, f = Top(t),
         f.scope \in Scope, PurgeOK(f), ~OnActive(f)
  PROVE  \/ Continue(t, <<>>)
         \/ \E g \in Frames :
              /\ Continue(t, <<g>>) /\ g.scope = f.scope /\ g.node = None
              /\ \/ g.pc = "cancel_end" /\ Purged(f)'
                 \/ g.pc = "cancelled" /\ Ahead(g)'
<1>1. pending \in Seq(Nodes) /\ Len(pending) \in Nat /\ Walked(f) = pending
  BY DEF IInv, TypeOK, Walked
<1>2. f.node = None /\ f.scope.all
  BY DEF PurgeOK
<1>3. CASE CancelStart(t)
  <2>1. Walk(t, f, None, Len(pending))
    BY <1>1, <1>3 DEF CancelStart
  <2>2. Stands(None, 0)
    BY <1>1 DEF Stands
  <2>3. \A i \in 1 .. Len(pending) :
          cmd[pending[i]] \in f.scope.sel => 0 < i /\ i <= 0 + Len(pending)
    BY <1>1
  <2> QED BY <1>1, <1>2, <2>1, <2>2, <2>3, PurgeWalk
<1>4. CASE CancelResume(t)
  <2>1. f.pc = "cancelled" /\ f.left \in Nat
    BY <1>4, AtFacts, FrameKinds DEF CancelResume
  <2>2. PICK r \in Nat :
          /\ Stands(f.cursor, r)
          /\ \A i \in 1 .. Len(pending) :
               cmd[pending[i]] \in f.scope.sel => r < i /\ i <= r + f.left
    BY <2>1 DEF PurgeOK, Ahead
  <2>3. \/ /\ f.left = 0 \/ pending = <<>>
           /\ UNCHANGED lists /\ Continue(t, <<Over(f)>>)
        \/ Walk(t, f, f.cursor, f.left)
        \/ Continue(t, <<>>)
    BY <1>1, <1>2, <1>4 DEF CancelResume, Over
  <2>4. CASE /\ f.left = 0 \/ pending = <<>>
             /\ UNCHANGED lists /\ Continue(t, <<Over(f)>>)
    <3>1. \A i \in 1 .. Len(pending) : cmd[pending[i]] \notin f.scope.sel
      <4>1. CASE f.left = 0
        BY <1>1, <2>2, <4>1
      <4>2. CASE pending = <<>>
        BY <4>2
      <4> QED BY <2>4, <4>1, <4>2
    <3>2. Purged(f)'
      BY <1>1, <2>4, <3>1 DEF Purged, ToSet, lists
    <3>3. PICK g : g = Over(f)
      OBVIOUS
    <3>4. g \in Frames /\ g.scope = f.scope /\ g.node = None /\ g.pc = "cancel_end"
      BY <3>3, FrameTypes DEF Over, Cancel
    <3> QED BY <2>4, <3>2, <3>3, <3>4
  <2>5. CASE Walk(t, f, f.cursor, f.left)
    BY <1>2, <2>1, <2>2, <2>5, PurgeWalk
  <2> QED BY <2>3, <2>4, <2>5
<1> QED BY <1>3, <1>4

(* A walk, of a purge or of another cancel, over one list or the other.    *)
LEMMA CancelPurges ==
  ASSUME IInv, PurgeInv, CursorsStay', Urgent = {}, [Next]_vars, NEW t \in Threads,
         CancelStart(t) \/ CancelResume(t)
  PROVE  PurgeInv'
<1>1. PICK f : f = Top(t)
  OBVIOUS
<1>2. \E pc \in {"cancel", "cancelled"} : At(t, pc)
  BY DEF CancelStart, CancelResume
<1>3. /\ StackOK /\ stack[t] # <<>> /\ f \in Frames
      /\ f.pc \in {"cancel", "cancelled", "cancel_end"} /\ f.scope \in Scope
  BY <1>1, <1>2, AtFacts, FrameKinds
<1>4. disabled' = disabled
  BY DEF CancelStart, CancelResume
<1>5. IsPurge(f) => PurgeOK(f)
  BY <1>1, <1>3, TopFacts DEF PurgeInv
<1>6. CASE Continue(t, <<>>)
  BY <1>3, <1>6, HarmlessFrames, PurgeContinue DEF Harmless
<1>7. ASSUME NEW g \in Frames, Continue(t, <<g>>), IsPurge(g) => PurgeOK(g)'
      PROVE  PurgeInv'
  <2>1. <<g>> \in Seq(Frames) /\ \A i \in DOMAIN <<g>> : <<g>>[i] = g
    OBVIOUS
  <2>2. PICK fs : fs = <<g>>
    OBVIOUS
  <2>3. ASSUME NEW i \in DOMAIN fs, IsPurge(fs[i])
        PROVE  PurgeOK(fs[i])'
    <3>1. fs[i] = g
      BY <2>1, <2>2
    <3> QED BY <1>7, <2>3, <3>1
  <2> QED BY <1>3, <1>7, <2>1, <2>2, <2>3, PurgeContinue
<1>8. ASSUME NEW g \in Frames, g.scope = f.scope, g.node = None, IsPurge(g),
             OnActive(g) \/ g.pc = "cancel_end" => Purged(f)',
             ~OnActive(g) /\ g.pc = "cancelled" => Ahead(g)'
      PROVE  PurgeOK(g)'
  <2>1. IsPurge(f)
    BY <1>3, <1>8 DEF IsPurge
  <2>2. g.scope.all /\ \A c \in g.scope.sel : VdevOf[c] \in disabled'
    BY <1>4, <1>5, <1>8, <2>1 DEF PurgeOK
  <2>3. Purged(f)' => Purged(g)'
    BY <1>8 DEF Purged
  <2>4. OnActive(g)' <=> OnActive(g)
    BY DEF OnActive
  <2> QED BY <1>8, <2>2, <2>3, <2>4 DEF PurgeOK
<1>9. CASE ~IsPurge(f)
  <2>1. ASSUME NEW g \in Frames, Continue(t, <<g>>), g.scope = f.scope
        PROVE  PurgeInv'
    <3>1. ~IsPurge(g)
      BY <1>3, <1>9, <2>1 DEF IsPurge
    <3> QED BY <1>7, <2>1, <3>1
  <2> QED BY <1>1, <1>6, <2>1, CancelKeepsScope
<1>10. CASE IsPurge(f) /\ OnActive(f)
  <2>1. Purged(f)'
    BY <1>5, <1>10, NextChanges, PurgedStays DEF PurgeOK
  <2>2. ASSUME NEW g \in Frames, Continue(t, <<g>>), g.scope = f.scope, g.node = None
        PROVE  PurgeInv'
    <3>1. OnActive(g)
      BY <1>10, <2>2 DEF OnActive
    <3>2. IsPurge(g) => PurgeOK(g)'
      BY <1>8, <2>1, <2>2, <3>1
    <3> QED BY <1>7, <2>2, <3>2
  <2> QED BY <1>1, <1>6, <2>2, CancelKeepsScope
<1>11. CASE IsPurge(f) /\ ~OnActive(f)
  <2>1. ASSUME NEW g \in Frames, Continue(t, <<g>>), g.scope = f.scope, g.node = None,
               \/ g.pc = "cancel_end" /\ Purged(f)'
               \/ g.pc = "cancelled" /\ Ahead(g)'
        PROVE  PurgeInv'
    <3>1. ~OnActive(g)
      BY <1>11, <2>1 DEF OnActive
    <3>2. IsPurge(g) => PurgeOK(g)'
      BY <1>8, <2>1, <3>1
    <3> QED BY <1>7, <2>1, <3>2
  <2> QED BY <1>1, <1>3, <1>5, <1>6, <1>11, <2>1, PurgeRound
<1> QED BY <1>9, <1>10, <1>11

(* The end of a walk.  When a purge goes on to the active list, nothing it *)
(* wants is pending.                                                       *)
LEMMA CancelEndPurges ==
  ASSUME IInv, PurgeInv, CursorsStay', Urgent = {}, [Next]_vars, NEW t \in Threads,
         CancelEnd(t)
  PROVE  PurgeInv'
<1>1. PICK f : f = Top(t)
  OBVIOUS
<1>2. /\ At(t, "cancel_end") /\ UNCHANGED <<lists, disabled>>
      /\ f.scope \in Scope /\ stack[t] # <<>> /\ StackOK /\ f.pc = "cancel_end"
  BY <1>1, CancelEndShape, AtFacts
<1>3. PICK fs : /\ fs \in Seq(Frames) /\ Continue(t, fs)
                /\ \A i \in DOMAIN fs : fs[i] = Move(None, FALSE) \/ fs[i] = NextWalk(f)
  BY <1>1, CancelEndShape
<1>4. IsPurge(f) => PurgeOK(f)
  BY <1>1, <1>2, TopFacts DEF PurgeInv
<1>5. ~IsPurge(Move(None, FALSE))
  BY DEF IsPurge, Move
<1>6. PICK g : g = NextWalk(f)
  OBVIOUS
<1>7. /\ g.pc = "cancel" /\ g.node = None /\ g.scope.sel = f.scope.sel
      /\ g.scope.all = f.scope.all /\ g.scope.closed = f.scope.closed
  BY <1>2, <1>6 DEF NextWalk, Cancel, Scope
<1>8. IsPurge(g) => PurgeOK(g)'
  <2> SUFFICES ASSUME IsPurge(g)
               PROVE  PurgeOK(g)'
    OBVIOUS
  <2>1. IsPurge(f)
    BY <1>2, <1>7 DEF IsPurge
  <2>2. Purged(f) /\ f.scope.all /\ \A c \in f.scope.sel : VdevOf[c] \in disabled
    BY <1>2, <1>4, <2>1 DEF PurgeOK
  <2>3. Purged(g)'
    BY <1>2, <1>7, <2>2 DEF Purged, lists
  <2>4. g.scope.all /\ \A c \in g.scope.sel : VdevOf[c] \in disabled'
    BY <1>2, <1>7, <2>2
  <2> QED BY <1>7, <2>3, <2>4 DEF PurgeOK
<1>9. ASSUME NEW i \in DOMAIN fs, IsPurge(fs[i])
      PROVE  PurgeOK(fs[i])'
  <2>1. fs[i] = g
    BY <1>3, <1>5, <1>6, <1>9
  <2> QED BY <1>8, <1>9, <2>1
<1> QED BY <1>2, <1>3, <1>9, PurgeContinue

(* A call begins.  The purge of a deleted vdev begins with the pending     *)
(* list, and the vdev's queue is disabled.                                 *)
LEMMA BeginPurges ==
  ASSUME IInv, PurgeInv, CursorsStay', Urgent = {}, [Next]_vars, NEW t \in Threads,
         Idle(t),
         \/ \E c \in Cmds : RemoveCmd(t, c)
         \/ \E scope \in Scopes : CancelRequest(t, scope)
         \/ \E v \in Closing : CloseSession(t, v)
         \/ t = Scheduler /\ HandleTimeout
  PROVE  PurgeInv'
<1>1. ASSUME NEW v, NEW f, f = Purge(v), disabled' = disabled \cup {v}
      PROVE  PurgeOK(f)'
  <2> DEFINE scope == [sel |-> {c \in Cmds : VdevOf[c] = v}, all |-> TRUE,
                       queues |-> <<FALSE, TRUE>>, closed |-> TRUE]
  <2>1. /\ scope.sel = {c \in Cmds : VdevOf[c] = v} /\ scope.all = TRUE
        /\ scope.queues = <<FALSE, TRUE>>
    OBVIOUS
  <2>2. f = Cancel("cancel", scope, None, None, None, 0)
    BY <1>1 DEF Purge
  <2> HIDE DEF scope
  <2>3. f.pc = "cancel" /\ f.scope = scope /\ f.node = None
    BY <2>2 DEF Cancel
  <2>4. ~OnActive(f)
    <3>1. \A x, y : Head(<<x, y>>) = x
      OBVIOUS
    <3>2. Head(<<FALSE, TRUE>>) = FALSE
      BY <3>1, Zenon
    <3>3. Head(f.scope.queues) = FALSE
      BY <2>1, <2>3, <3>2, Zenon
    <3> QED BY <3>3, Zenon DEF OnActive
  <2>5. f.scope.all
    BY <2>1, <2>3, Zenon
  <2>6. \A c \in f.scope.sel : VdevOf[c] \in disabled'
    BY <1>1, <2>1, <2>3
  <2>7. OnActive(f)' <=> OnActive(f)
    BY DEF OnActive
  <2> QED BY <2>3, <2>4, <2>5, <2>6, <2>7 DEF PurgeOK
<1>2. CASE UNCHANGED stack
  BY <1>2, PurgeCall
<1>3. ASSUME NEW f \in Frames, Call(t, <<f>>),
             \/ ~IsPurge(f)
             \/ \E v \in Closing : f = Purge(v) /\ disabled' = disabled \cup {v}
      PROVE  PurgeInv'
  <2>1. IsPurge(f) => PurgeOK(f)'
    BY <1>1, <1>3
  <2> QED BY <1>3, <2>1, PurgeCall
<1> QED BY <1>2, <1>3, BeginShape

(* An accepted request goes on with an activation or is done.              *)
LEMMA RequestPurges ==
  ASSUME IInv, PurgeInv, CursorsStay', Urgent = {}, [Next]_vars, NEW t \in Threads,
         NEW c \in Cmds, RequestAccepted(t, c)
  PROVE  PurgeInv'
<1>1. Idle(t)
  BY DEF RequestAccepted, Asked
<1>2. PICK n \in pool : Call(t, <<Activate("timer", n, TRUE)>>) \/ UNCHANGED stack
  BY DEF RequestAccepted
<1>3. PICK f : f = Activate("timer", n, TRUE)
  OBVIOUS
<1>4. n \in Nodes
  BY DEF IInv, TypeOK
<1>5. f \in Frames /\ ~IsPurge(f)
  BY <1>3, <1>4, FrameTypes DEF Activate, IsPurge
<1> QED BY <1>1, <1>2, <1>3, <1>5, PurgeCall

(* Every step keeps the purges right.                                      *)
LEMMA PurgeStep ==
  ASSUME IInv, PurgeInv, CursorsStay', Urgent = {}, [Next]_vars
  PROVE  PurgeInv'
<1>1. ASSUME NEW t \in Threads, Step(t)
      PROVE  PurgeInv'
  <2>1. CASE StartTimer(t) \/ ActivateCallback(t) \/ Settle(t) \/ ActivateTail(t)
             \/ ReleaseMem(t)
    BY <2>1, ActivationInert, InertPurges
  <2> QED BY <1>1, <2>1, DequeuePurges, MovePurges, CancelPurges, CancelEndPurges
          DEF Step
<1>2. ASSUME NEW t \in Threads, Begin(t)
      PROVE  PurgeInv'
  <2>1. ASSUME NEW c \in Cmds, RequestRefused(t, c)
        PROVE  PurgeInv'
    <3>1. UNCHANGED stack
      BY <2>1 DEF RequestRefused
    <3> QED BY <3>1, PurgeCall
  <2>2. CASE \/ \E c \in Cmds : RemoveCmd(t, c)
             \/ \E scope \in Scopes : CancelRequest(t, scope)
             \/ \E v \in Closing : CloseSession(t, v)
    <3>1. Idle(t)
      BY <2>2 DEF RemoveCmd, CancelRequest, CloseSession
    <3> QED BY <2>2, <3>1, BeginPurges
  <2> QED BY <1>2, <2>1, <2>2, RequestPurges DEF Begin
<1>3. CASE HandleTimeout
  <2>1. Scheduler \in Threads /\ Idle(Scheduler)
    BY <1>3, CmdAssumption DEF HandleTimeout
  <2> QED BY <1>3, <2>1, BeginPurges
<1>4. CASE \/ \E m \in Nodes : TimerExpires(m) \/ TimeoutLost(m)
           \/ \E c \in Rearmed : UpdateTimer(c)
  <2>1. UNCHANGED stack
    BY <1>4 DEF TimerExpires, TimeoutLost, UpdateTimer
  <2> QED BY <2>1, PurgeCall
<1>5. CASE UNCHANGED vars
  <2>1. UNCHANGED stack
    BY <1>5 DEF vars
  <2> QED BY <2>1, PurgeCall
<1> QED BY <1>1, <1>2, <1>3, <1>4, <1>5 DEF Next

(* If nothing jumps the queue and the node a purge remembers stays in the  *)
(* list, the purge of a deleted vdev leaves none of its commands pending   *)
(* once it is done with that list, whatever other threads request, remove, *)
(* move or cancel while its callbacks run.                                 *)
THEOREM PurgeIsComplete ==
  Urgent = {} => (Spec /\ []CursorsStay => []PurgeComplete)
<1> SUFFICES ASSUME Urgent = {}
             PROVE  Spec /\ []CursorsStay => []PurgeComplete
  OBVIOUS
<1>1. Init => PurgeInv
  <2>1. Init => Places = {}
    BY DEF Init, Places
  <2> QED BY <2>1 DEF PurgeInv
<1>2. IInv /\ PurgeInv /\ CursorsStay' /\ [Next]_vars => PurgeInv'
  BY PurgeStep
<1>3. IInv /\ PurgeInv => PurgeComplete
  <2> SUFFICES ASSUME IInv, PurgeInv, NEW t \in Threads, stack[t] # <<>>
               PROVE  LET f == Last(stack[t]) IN
                        \/ ~IsPurge(f)
                        \/ ~OnActive(f) /\ f.pc # "cancel_end"
                        \/ Purged(f)
    BY DEF PurgeComplete, IsPurge, Purged
  <2>1. PICK f : f = Last(stack[t])
    OBVIOUS
  <2>2. StackOK
    BY DEF IInv, TypeOK, StackOK
  <2>3. Len(stack[t]) \in Nat \ {0}
    BY <2>2, TopFacts
  <2>4. <<t, 1>> \in Places
    BY <2>2, <2>3, PlacesFacts
  <2>5. FrameAt(<<t, 1>>) = f
    <3>1. Len(stack[t]) + 1 - 1 = Len(stack[t])
      BY <2>3
    <3> QED BY <2>1, <3>1 DEF FrameAt, Last
  <2>6. IsPurge(f) => PurgeOK(f)
    BY <2>4, <2>5 DEF PurgeInv
  <2> QED BY <2>1, <2>6 DEF PurgeOK
<1> QED BY <1>1, <1>2, <1>3, Invariance, PTL DEF Spec
=============================================================================
