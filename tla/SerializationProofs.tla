------------------------- MODULE SerializationProofs -------------------------
(***************************************************************************)
(* Proofs about Serialization, for all commands, vdevs, threads and pools. *)
(***************************************************************************)
EXTENDS Serialization, SequenceTheorems, FiniteSetTheorems,
        WellFoundedInduction, TLAPS

---------------------------------------------------------------------------
(* Places in a list: a set of them has a first and a last one.             *)
LEMMA MinFacts ==
  ASSUME NEW S \in SUBSET Nat, S # {}
  PROVE  Min(S) \in S /\ \A y \in S : Min(S) <= y
<1> DEFINE R == OpToRel(<, Nat)
<1>1. \A x, y \in S : y < x => <<y, x>> \in R
  BY DEF OpToRel
<1> HIDE DEF R
<1>2. \E x \in S : \A y \in S : ~(<<y, x>> \in R)
  BY NatLessThanWellFounded, WFMin DEF R
<1>3. \A x, y \in S : ~(y < x) => x <= y
  OBVIOUS
<1>4. \E x \in S : \A y \in S : x <= y
  BY <1>1, <1>2, <1>3
<1> QED BY <1>4 DEF Min

(* A set of places up to k has a last one.                                 *)
LEMMA MaxFacts ==
  ASSUME NEW k \in Nat, NEW S \in SUBSET (1 .. k), S # {}
  PROVE  Max(S) \in S /\ \A y \in S : y <= Max(S)
<1> DEFINE T == {k - x : x \in S}
<1>1. T \in SUBSET Nat /\ T # {}
  <2>1. \A x \in S : k - x \in Nat
    OBVIOUS
  <2> QED BY <2>1
<1> HIDE DEF T
<1>2. Min(T) \in T /\ \A y \in T : Min(T) <= y
  BY <1>1, MinFacts
<1>3. PICK x \in S : Min(T) = k - x
  BY <1>2 DEF T
<1>4. \A y \in S : k - x <= k - y
  BY <1>2, <1>3 DEF T
<1>5. \A y \in S : x >= y
  BY <1>4
<1>6. Max(S) \in S /\ \A y \in S : Max(S) >= y
  BY <1>5 DEF Max
<1>7. \A y, z \in S : z >= y => y <= z
  OBVIOUS
<1> QED BY <1>6, <1>7

(* A node put into a list it was not in.                                   *)
LEMMA InsertFacts ==
  ASSUME NEW s \in Seq(Nodes), IsInjective(s), NEW n \in Nodes, n \notin ToSet(s),
         NEW c
  PROVE  /\ Insert(s, n, c) \in Seq(Nodes)
         /\ IsInjective(Insert(s, n, c))
         /\ ToSet(Insert(s, n, c)) = ToSet(s) \cup {n}
<1>1. CASE c \in Urgent
  <2> DEFINE r == <<n>> \o s
  <2>1. /\ r \in Seq(Nodes) /\ Len(r) = Len(s) + 1 /\ r[1] = n
        /\ \A i \in 1 .. Len(s) : r[i + 1] = s[i]
    OBVIOUS
  <2> HIDE DEF r
  <2>2. DOMAIN r = 1 .. Len(s) + 1 /\ DOMAIN s = 1 .. Len(s) /\ Len(s) \in Nat
    BY <2>1
  <2>3. \A i \in 1 .. Len(s) + 1 :
          i = 1 \/ (i - 1 \in 1 .. Len(s) /\ r[i] = s[i - 1])
    <3>1. TAKE i \in 1 .. Len(s) + 1
    <3>2. i # 1 => i - 1 \in 1 .. Len(s)
      BY <2>2
    <3>3. i # 1 => r[(i - 1) + 1] = s[i - 1]
      BY <2>1, <3>2
    <3>4. (i - 1) + 1 = i
      OBVIOUS
    <3> QED BY <3>2, <3>3, <3>4
  <2>4. IsInjective(r)
    <3>1. ASSUME NEW i \in 1 .. Len(s) + 1, NEW j \in 1 .. Len(s) + 1, r[i] = r[j]
          PROVE  i = j
      <4>1. \A k \in 1 .. Len(s) + 1 : k # 1 => k - 1 \in DOMAIN s /\ r[k] = s[k - 1]
        BY <2>2, <2>3
      <4>2. \A k \in 1 .. Len(s) + 1 : k # 1 => r[k] # n
        BY <4>1 DEF ToSet
      <4>3. i # 1 /\ j # 1 => i - 1 = j - 1
        BY <3>1, <4>1 DEF IsInjective
      <4> QED BY <2>1, <3>1, <4>2, <4>3
    <3> QED BY <2>2, <3>1 DEF IsInjective
  <2>5. ToSet(r) = ToSet(s) \cup {n}
    <3>1. ToSet(r) \subseteq ToSet(s) \cup {n}
      <4>1. \A i \in DOMAIN r : r[i] = n \/ r[i] \in ToSet(s)
        BY <2>1, <2>2, <2>3 DEF ToSet
      <4> QED BY <4>1 DEF ToSet
    <3>2. n \in ToSet(r)
      BY <2>1, <2>2 DEF ToSet
    <3>3. \A i \in 1 .. Len(s) : i + 1 \in DOMAIN r /\ r[i + 1] = s[i]
      BY <2>1, <2>2
    <3>4. ToSet(s) \subseteq ToSet(r)
      BY <2>2, <3>3 DEF ToSet
    <3> QED BY <3>1, <3>2, <3>4
  <2>6. Insert(s, n, c) = r
    BY <1>1 DEF Insert, r
  <2> QED BY <2>1, <2>4, <2>5, <2>6
<1>2. CASE c \notin Urgent
  <2> DEFINE r == Append(s, n)
  <2>1. /\ r \in Seq(Nodes) /\ Len(r) = Len(s) + 1 /\ r[Len(s) + 1] = n
        /\ \A i \in 1 .. Len(s) : r[i] = s[i]
    OBVIOUS
  <2> HIDE DEF r
  <2>2. DOMAIN r = 1 .. Len(s) + 1 /\ DOMAIN s = 1 .. Len(s) /\ Len(s) \in Nat
    BY <2>1
  <2>3. IsInjective(r)
    BY <2>1, <2>2 DEF IsInjective, ToSet
  <2>4. ToSet(r) = ToSet(s) \cup {n}
    BY <2>1, <2>2 DEF ToSet
  <2>5. Insert(s, n, c) = r
    BY <1>2 DEF Insert, r
  <2> QED BY <2>1, <2>3, <2>4, <2>5
<1> QED BY <1>1, <1>2

(* A node taken out of a list: those behind it move up.                    *)
LEMMA RemoveOrder ==
  ASSUME NEW s \in Seq(Nodes), NEW n \in ToSet(s)
  PROVE  \E k \in 1 .. Len(s) :
           /\ s[k] = n
           /\ RemoveFirst(s, n) \in Seq(Nodes) /\ Len(RemoveFirst(s, n)) = Len(s) - 1
           /\ \A i \in 1 .. Len(s) - 1 :
                RemoveFirst(s, n)[i] = IF i < k THEN s[i] ELSE s[i + 1]
<1> DEFINE I == {i \in 1 .. Len(s) : s[i] = n}
           r == RemoveAt(s, Min(I))
<1>1. DOMAIN s = 1 .. Len(s) /\ Len(s) \in Nat
  OBVIOUS
<1>2. I # {} /\ I \in SUBSET Nat
  BY <1>1 DEF ToSet
<1> HIDE DEF I
<1>3. Min(I) \in I
  BY <1>2, MinFacts
<1>4. PICK k \in 1 .. Len(s) : k = Min(I) /\ s[k] = n
  BY <1>3 DEF I
<1>5. RemoveFirst(s, n) = r
  BY <1>2 DEF RemoveFirst, SelectInSeq, I
<1>6. /\ r \in Seq(Nodes) /\ Len(r) = Len(s) - 1
      /\ \A i \in 1 .. Len(s) - 1 : r[i] = IF i < k THEN s[i] ELSE s[i + 1]
  <2> DEFINE a == SubSeq(s, 1, k - 1)  b == SubSeq(s, k + 1, Len(s))
  <2>1. /\ a \in Seq(Nodes) /\ Len(a) = k - 1
        /\ \A i \in 1 .. k - 1 : a[i] = s[i]
    <3>1. k - 1 \in Int /\ \A i \in 1 .. k - 1 : s[i] \in Nodes
      BY <1>1
    <3>2. /\ a \in Seq(Nodes) /\ Len(a) = IF 1 <= k - 1 THEN (k - 1) - 1 + 1 ELSE 0
          /\ \A i \in 1 .. (k - 1) - 1 + 1 : a[i] = s[1 + i - 1]
      BY <3>1, SubSeqProperties
    <3> HIDE DEF a
    <3>3. \A i \in 1 .. k - 1 : 1 + i - 1 = i /\ i \in 1 .. (k - 1) - 1 + 1
      OBVIOUS
    <3> QED BY <3>2, <3>3
  <2>2. /\ b \in Seq(Nodes) /\ Len(b) = Len(s) - k
        /\ \A i \in 1 .. Len(s) - k : b[i] = s[k + i]
    <3>1. /\ k + 1 \in Int /\ Len(s) \in Int
          /\ \A i \in k + 1 .. Len(s) : s[i] \in Nodes
      BY <1>1
    <3>2. /\ b \in Seq(Nodes)
          /\ Len(b) = IF k + 1 <= Len(s) THEN Len(s) - (k + 1) + 1 ELSE 0
          /\ \A i \in 1 .. Len(s) - (k + 1) + 1 : b[i] = s[k + 1 + i - 1]
      BY <3>1, SubSeqProperties
    <3> HIDE DEF b
    <3>3. \A i \in 1 .. Len(s) - k :
            k + 1 + i - 1 = k + i /\ i \in 1 .. Len(s) - (k + 1) + 1
      BY <1>1
    <3>4. \A l \in Nat : k \in 1 .. l =>
            (IF k + 1 <= l THEN l - (k + 1) + 1 ELSE 0) = l - k
      OBVIOUS
    <3>5. Len(b) = Len(s) - k
      BY <1>1, <3>2, <3>4
    <3> QED BY <3>2, <3>3, <3>5
  <2>3. r = a \o b
    BY <1>4 DEF RemoveAt
  <2> HIDE DEF a, b, r
  <2>4. /\ r \in Seq(Nodes) /\ Len(r) = Len(a) + Len(b)
        /\ \A i \in 1 .. Len(a) + Len(b) :
             r[i] = IF i <= Len(a) THEN a[i] ELSE b[i - Len(a)]
    BY <2>1, <2>2, <2>3, ConcatProperties
  <2>5. ASSUME NEW i \in 1 .. Len(s) - 1, i >= k
        PROVE  r[i] = s[i + 1]
    <3>1. i - Len(a) \in 1 .. Len(s) - k /\ k + (i - Len(a)) = i + 1 /\ ~(i <= Len(a))
      BY <2>1, <2>5, <1>1
    <3>2. b[i - Len(a)] = s[i + 1]
      BY <2>2, <3>1
    <3>3. i \in 1 .. Len(a) + Len(b)
      BY <1>1, <2>1, <2>2
    <3> QED BY <2>4, <3>1, <3>2, <3>3
  <2>6. ASSUME NEW i \in 1 .. Len(s) - 1, i < k
        PROVE  r[i] = s[i]
    <3>1. i \in 1 .. k - 1 /\ i <= Len(a) /\ i \in 1 .. Len(a) + Len(b)
      BY <1>1, <2>1, <2>2, <2>6
    <3> QED BY <2>1, <2>4, <3>1
  <2>7. Len(r) = Len(s) - 1
    BY <1>1, <2>1, <2>2, <2>4
  <2> QED BY <2>4, <2>5, <2>6, <2>7, <1>1
<1> HIDE DEF r
<1> QED BY <1>4, <1>5, <1>6

(* The list is without the node, and has each of the others once.          *)
LEMMA RemoveFacts ==
  ASSUME NEW s \in Seq(Nodes), IsInjective(s), NEW n \in ToSet(s)
  PROVE  /\ RemoveFirst(s, n) \in Seq(Nodes)
         /\ IsInjective(RemoveFirst(s, n))
         /\ ToSet(RemoveFirst(s, n)) = ToSet(s) \ {n}
<1>1. DOMAIN s = 1 .. Len(s) /\ Len(s) \in Nat
  OBVIOUS
<1>2. PICK r : r = RemoveFirst(s, n)
  OBVIOUS
<1>4. PICK k \in 1 .. Len(s) :
        /\ s[k] = n /\ r \in Seq(Nodes) /\ Len(r) = Len(s) - 1
        /\ \A i \in 1 .. Len(s) - 1 : r[i] = IF i < k THEN s[i] ELSE s[i + 1]
  BY <1>2, RemoveOrder
<1>6. /\ r \in Seq(Nodes) /\ Len(r) = Len(s) - 1
      /\ \A i \in 1 .. Len(s) - 1 : r[i] = IF i < k THEN s[i] ELSE s[i + 1]
  BY <1>4
<1>7. DOMAIN r = 1 .. Len(s) - 1
  BY <1>6
<1>8. IsInjective(r)
  <2> DEFINE at(i) == IF i < k THEN i ELSE i + 1
  <2>1. \A i \in 1 .. Len(s) - 1 :
          at(i) \in DOMAIN s \ {k} /\ r[i] = s[at(i)]
    BY <1>1, <1>6
  <2>2. \A i, j \in 1 .. Len(s) - 1 : at(i) = at(j) => i = j
    OBVIOUS
  <2> HIDE DEF at
  <2> QED BY <1>7, <2>1, <2>2 DEF IsInjective
<1>9. ToSet(r) = ToSet(s) \ {n}
  <2>1. ASSUME NEW i \in 1 .. Len(s), i # k
        PROVE  s[i] \in ToSet(r)
    <3>1. CASE i < k
      BY <3>1, <1>1, <1>6, <1>7 DEF ToSet
    <3>2. CASE i > k
      <4>1. i - 1 \in 1 .. Len(s) - 1 /\ r[i - 1] = s[i]
        BY <3>2, <1>1, <1>6
      <4> QED BY <4>1, <1>7 DEF ToSet
    <3> QED BY <2>1, <3>1, <3>2
  <2>2. ASSUME NEW i \in 1 .. Len(s) - 1
        PROVE  r[i] \in ToSet(s) /\ r[i] # n
    <3>1. PICK j \in DOMAIN s \ {k} : r[i] = s[j]
      <4>1. i \in DOMAIN s /\ i + 1 \in DOMAIN s
        BY <1>1
      <4>2. (i < k => i # k) /\ (~(i < k) => i + 1 # k)
        OBVIOUS
      <4>3. r[i] = IF i < k THEN s[i] ELSE s[i + 1]
        BY <1>6
      <4> QED BY <4>1, <4>2, <4>3
    <3> QED BY <1>1, <1>4, <3>1 DEF ToSet, IsInjective
  <2> QED BY <1>1, <1>4, <1>7, <2>1, <2>2 DEF ToSet
<1> QED BY <1>2, <1>6, <1>8, <1>9

---------------------------------------------------------------------------
(* Stacks: a thread's topmost place, and the one above it.                 *)
TopAt(t) == <<t, Len(stack[t])>>
Above(t) == <<t, Len(stack[t]) + 1>>

StackOK == stack \in [Threads -> Seq(Frames)]

(* A place is a thread with a height its stack reaches.                    *)
LEMMA PlacesFacts ==
  ASSUME StackOK
  PROVE  /\ \A p \in Places : \E t \in Threads : \E h \in 1 .. Len(stack[t]) : p = <<t, h>>
         /\ \A t \in Threads : \A h \in 1 .. Len(stack[t]) : <<t, h>> \in Places
         /\ \A t \in Threads, h \in Nat : <<t, h>> \in Places => h \in 1 .. Len(stack[t])
BY DEF StackOK, Places

(* The frames of a thread that is in a call.                               *)
LEMMA TopFacts ==
  ASSUME StackOK, NEW t \in Threads, stack[t] # <<>>
  PROVE  /\ TopAt(t) \in Places /\ FrameAt(TopAt(t)) = Top(t)
         /\ Top(t) \in Frames
         /\ Above(t) \notin Places /\ Above(t) # TopAt(t)
         /\ Tail(stack[t]) \in Seq(Frames)
         /\ Len(Tail(stack[t])) = Len(stack[t]) - 1 /\ Len(stack[t]) \in Nat \ {0}
         /\ \A i \in 1 .. Len(stack[t]) - 1 : Tail(stack[t])[i] = stack[t][i + 1]
<1>1. stack[t] \in Seq(Frames) /\ Len(stack[t]) \in Nat \ {0}
  BY DEF StackOK
<1>2. TopAt(t) \in Places
  BY <1>1, PlacesFacts DEF TopAt
<1>3. Above(t) \notin Places
  BY <1>1, PlacesFacts DEF Above
<1>4. FrameAt(TopAt(t)) = Top(t) /\ Top(t) \in Frames
  BY <1>1 DEF FrameAt, TopAt, Top
<1>5. Above(t) # TopAt(t)
  BY <1>2, <1>3
<1> QED BY <1>1, <1>2, <1>3, <1>4, <1>5

(* The topmost frame is replaced by others; those below stay where they    *)
(* are.                                                                    *)
LEMMA ContinueFacts ==
  ASSUME StackOK, NEW t \in Threads, stack[t] # <<>>, NEW fs \in Seq(Frames),
         Continue(t, fs)
  PROVE  /\ StackOK'
         /\ Places' = (Places \ {TopAt(t)})
                         \cup {<<t, Len(stack[t]) - 1 + j>> : j \in 1 .. Len(fs)}
         /\ \A p \in Places \ {TopAt(t)} : FrameAt(p)' = FrameAt(p)
         /\ \A j \in 1 .. Len(fs) : \A p : p = <<t, Len(stack[t]) - 1 + j>> =>
              FrameAt(p)' = fs[Len(fs) + 1 - j]
<1> DEFINE L == Len(stack[t])  new == fs \o Tail(stack[t])
<1>1. stack' = [stack EXCEPT ![t] = new]
  BY DEF Continue
<1>2. /\ L \in Nat \ {0} /\ Len(fs) \in Nat
      /\ Tail(stack[t]) \in Seq(Frames) /\ Len(Tail(stack[t])) = L - 1
  BY TopFacts
<1>3. /\ new \in Seq(Frames) /\ Len(new) = Len(fs) + (L - 1)
      /\ \A i \in 1 .. Len(fs) : new[i] = fs[i]
      /\ \A i \in 1 .. L - 1 : new[Len(fs) + i] = stack[t][i + 1]
  BY <1>2, TopFacts
<1> HIDE DEF new
<1>4. StackOK'
  BY <1>1, <1>3 DEF StackOK
<1>5. /\ \A u \in Threads \ {t} : stack'[u] = stack[u]
      /\ stack'[t] = new
  BY <1>1 DEF StackOK
<1>6. ASSUME NEW p
      PROVE  p \in Places' <=>
               \/ p \in Places \ {TopAt(t)}
               \/ \E j \in 1 .. Len(fs) : p = <<t, L - 1 + j>>
  <2>1. p \in Places' <=> \E u \in Threads : \E h \in 1 .. Len(stack'[u]) : p = <<u, h>>
    BY <1>4 DEF Places, StackOK
  <2>2. p \in Places <=> \E u \in Threads : \E h \in 1 .. Len(stack[u]) : p = <<u, h>>
    BY DEF Places, StackOK
  <2>3. \A h : h \in 1 .. Len(new) <=>
                (h \in 1 .. L /\ h # L) \/ \E j \in 1 .. Len(fs) : h = L - 1 + j
    <3>1. TAKE h
    <3>2. ASSUME h \in 1 .. Len(new), h \notin 1 .. L \/ h = L
          PROVE  h - L + 1 \in 1 .. Len(fs) /\ h = L - 1 + (h - L + 1)
      <4>1. \A l, m \in Nat : h \in 1 .. m + (l - 1) /\ (h \notin 1 .. l \/ h = l) =>
              h - l + 1 \in 1 .. m /\ h = l - 1 + (h - l + 1)
        OBVIOUS
      <4> QED BY <1>2, <1>3, <3>2, <4>1
    <3>3. ASSUME NEW j \in 1 .. Len(fs), h = L - 1 + j
          PROVE  h \in 1 .. Len(new)
      BY <1>2, <1>3, <3>3
    <3>4. h \in 1 .. L /\ h # L => h \in 1 .. Len(new)
      BY <1>2, <1>3
    <3> QED BY <3>2, <3>3, <3>4
  <2> HIDE DEF L
  <2>4. \A u \in Threads : (\E h \in 1 .. Len(stack'[u]) : p = <<u, h>>) <=>
          \/ u # t /\ \E h \in 1 .. Len(stack[u]) : p = <<u, h>>
          \/ u = t /\ \E h \in 1 .. L : h # L /\ p = <<u, h>>
          \/ u = t /\ \E j \in 1 .. Len(fs) : p = <<t, L - 1 + j>>
    <3>1. TAKE u \in Threads
    <3>2. CASE u # t
      BY <1>5, <3>2
    <3>3. CASE u = t
      <4>1. (\E h \in 1 .. Len(stack'[u]) : p = <<u, h>>) <=>
              \E h : h \in 1 .. Len(new) /\ p = <<t, h>>
        BY <1>5, <3>3
      <4> QED BY <2>3, <3>3, <4>1
    <3> QED BY <3>2, <3>3
  <2> QED BY <2>1, <2>2, <2>4 DEF TopAt, L
<1>7. ASSUME NEW p \in Places, p # TopAt(t)
      PROVE  FrameAt(p)' = FrameAt(p)
  <2>1. PICK u \in Threads : \E h \in 1 .. Len(stack[u]) : p = <<u, h>>
    BY PlacesFacts
  <2>2. PICK h \in 1 .. Len(stack[u]) : p = <<u, h>>
    BY <2>1
  <2>3. CASE u # t
    BY <2>2, <2>3, <1>5 DEF FrameAt
  <2>4. CASE u = t
    <3>1. h \in 1 .. L - 1
      BY <1>2, <2>2, <2>4, <1>7 DEF TopAt
    <3>2. /\ L - h \in 1 .. L - 1
          /\ Len(new) + 1 - h = Len(fs) + (L - h)
          /\ (L - h) + 1 = L + 1 - h
      BY <1>2, <1>3, <3>1
    <3>3. new[Len(new) + 1 - h] = stack[t][L + 1 - h]
      BY <1>3, <3>2
    <3> QED BY <1>5, <2>2, <2>4, <3>3 DEF FrameAt
  <2> QED BY <2>3, <2>4
<1>8. ASSUME NEW j \in 1 .. Len(fs), NEW p, p = <<t, L - 1 + j>>
      PROVE  FrameAt(p)' = fs[Len(fs) + 1 - j]
  <2>1. \A l, m \in Nat : j \in 1 .. m =>
          m + (l - 1) + 1 - (l - 1 + j) = m + 1 - j /\ m + 1 - j \in 1 .. m
    OBVIOUS
  <2>2. /\ Len(new) + 1 - (L - 1 + j) = Len(fs) + 1 - j
        /\ Len(fs) + 1 - j \in 1 .. Len(fs)
    BY <1>2, <1>3, <2>1
  <2>3. FrameAt(p)' = new[Len(new) + 1 - (L - 1 + j)]
    BY <1>5, <1>8 DEF FrameAt
  <2> QED BY <1>3, <2>2, <2>3
<1>9. Places' = (Places \ {TopAt(t)}) \cup {<<t, L - 1 + j>> : j \in 1 .. Len(fs)}
  BY <1>6
<1> QED BY <1>4, <1>7, <1>8, <1>9

(* What happens at the top of one stack: the frame there ends, is replaced *)
(* by another or by two, or a call is begun.                               *)
Others(ps) == \A p \in ps : FrameAt(p)' = FrameAt(p)
Pops(top) == Places' = Places \ {top} /\ Others(Places \ {top})
Swaps(top, f) ==
  Places' = Places /\ Others(Places \ {top}) /\ FrameAt(top)' = f
Pushes(top, new, f, g) ==
  /\ Places' = Places \cup {new} /\ new \notin Places
  /\ Others(Places \ {top})
  /\ FrameAt(new)' = f /\ FrameAt(top)' = g
Begins(new, f) ==
  /\ Places' = Places \cup {new} /\ new \notin Places
  /\ Others(Places) /\ FrameAt(new)' = f

(* The topmost frame ends.                                                 *)
LEMMA Continue0 ==
  ASSUME StackOK, NEW t \in Threads, stack[t] # <<>>, Continue(t, <<>>)
  PROVE  StackOK' /\ \E top \in Places : FrameAt(top) = Top(t) /\ Pops(top)
<1>1. <<>> \in Seq(Frames) /\ Len(<<>>) = 0 /\ 1 .. 0 = {}
  OBVIOUS
<1>2. PICK top : top = TopAt(t)
  OBVIOUS
<1>3. /\ StackOK' /\ Others(Places \ {top})
      /\ Places' = (Places \ {top})
                     \cup {<<t, Len(stack[t]) - 1 + j>> : j \in 1 .. Len(<<>>)}
  BY <1>1, <1>2, ContinueFacts DEF Others
<1>4. StackOK' /\ Pops(top)
  BY <1>1, <1>3 DEF Pops
<1> QED BY <1>2, <1>4, TopFacts

(* The topmost frame is replaced by one other.                             *)
LEMMA Continue1 ==
  ASSUME StackOK, NEW t \in Threads, stack[t] # <<>>, NEW f \in Frames,
         Continue(t, <<f>>)
  PROVE  StackOK' /\ \E top \in Places : FrameAt(top) = Top(t) /\ Swaps(top, f)
<1> DEFINE fs == <<f>>
<1>1. fs \in Seq(Frames) /\ Len(fs) = 1 /\ 1 .. 1 = {1} /\ fs[1] = f /\ 1 + 1 - 1 = 1
  OBVIOUS
<1>2. PICK top : top = TopAt(t)
  OBVIOUS
<1>3. Len(stack[t]) - 1 + 1 = Len(stack[t])
  BY TopFacts
<1>4. Continue(t, fs)
  OBVIOUS
<1> HIDE DEF fs
<1>5. /\ StackOK'
      /\ \A p : p \in Places' <=> p \in Places \ {top} \/ p = top
      /\ Others(Places \ {top}) /\ FrameAt(top)' = f
  <2>1. StackOK' /\ Others(Places \ {top})
    BY <1>1, <1>2, <1>4, ContinueFacts DEF Others
  <2>2. \A p : p \in Places' <=> p \in Places \ {top} \/ p = <<t, Len(stack[t]) - 1 + 1>>
    <3>1. Places' = (Places \ {top})
                      \cup {<<t, Len(stack[t]) - 1 + j>> : j \in 1 .. Len(fs)}
      BY <1>1, <1>2, <1>4, ContinueFacts
    <3>2. 1 .. Len(fs) = {1}
      BY <1>1
    <3> QED BY <3>1, <3>2
  <2>3. \A p : p = <<t, Len(stack[t]) - 1 + 1>> => FrameAt(p)' = fs[Len(fs) + 1 - 1]
    BY <1>1, <1>4, ContinueFacts
  <2>4. top = <<t, Len(stack[t]) - 1 + 1>>
    BY <1>2, <1>3 DEF TopAt
  <2> QED BY <1>1, <2>1, <2>2, <2>3, <2>4
<1>6. Places' = Places
  BY <1>2, <1>5, TopFacts
<1> QED BY <1>2, <1>5, <1>6, TopFacts DEF Swaps

(* The topmost frame is replaced by two calls, f to be made first.         *)
LEMMA Continue2 ==
  ASSUME StackOK, NEW t \in Threads, stack[t] # <<>>, NEW f \in Frames,
         NEW g \in Frames, Continue(t, <<f, g>>)
  PROVE  /\ StackOK'
         /\ \E top, new :
              top \in Places /\ FrameAt(top) = Top(t) /\ Pushes(top, new, f, g)
<1> DEFINE fs == <<f, g>>
<1>1. /\ fs \in Seq(Frames) /\ Len(fs) = 2 /\ 1 .. 2 = {1, 2} /\ fs[1] = f /\ fs[2] = g
      /\ 2 + 1 - 1 = 2 /\ 2 + 1 - 2 = 1
  OBVIOUS
<1>2. PICK top, new : top = TopAt(t) /\ new = Above(t)
  OBVIOUS
<1>3. Len(stack[t]) - 1 + 1 = Len(stack[t]) /\ Len(stack[t]) - 1 + 2 = Len(stack[t]) + 1
  BY TopFacts
<1>4. Continue(t, fs)
  OBVIOUS
<1> HIDE DEF fs
<1>5. /\ StackOK'
      /\ \A p : p \in Places' <=> p \in Places \ {top} \/ p = top \/ p = new
      /\ Others(Places \ {top}) /\ FrameAt(top)' = g /\ FrameAt(new)' = f
  <2>1. StackOK' /\ Others(Places \ {top})
    BY <1>1, <1>2, <1>4, ContinueFacts DEF Others
  <2>2. \A p : p \in Places' <=>
          \/ p \in Places \ {top}
          \/ p = <<t, Len(stack[t]) - 1 + 1>> \/ p = <<t, Len(stack[t]) - 1 + 2>>
    <3>1. Places' = (Places \ {top})
                      \cup {<<t, Len(stack[t]) - 1 + j>> : j \in 1 .. Len(fs)}
      BY <1>1, <1>2, <1>4, ContinueFacts
    <3>2. 1 .. Len(fs) = {1, 2}
      BY <1>1
    <3> QED BY <3>1, <3>2
  <2>3. /\ \A p : p = <<t, Len(stack[t]) - 1 + 1>> => FrameAt(p)' = fs[Len(fs) + 1 - 1]
        /\ \A p : p = <<t, Len(stack[t]) - 1 + 2>> => FrameAt(p)' = fs[Len(fs) + 1 - 2]
    BY <1>1, <1>4, ContinueFacts
  <2>4. /\ top = <<t, Len(stack[t]) - 1 + 1>>
        /\ new = <<t, Len(stack[t]) - 1 + 2>>
    BY <1>2, <1>3 DEF TopAt, Above
  <2> QED BY <1>1, <2>1, <2>2, <2>3, <2>4
<1>6. Places' = Places \cup {new} /\ new \notin Places
  BY <1>2, <1>5, TopFacts
<1> QED BY <1>2, <1>5, <1>6, TopFacts DEF Pushes

(* A thread that was idle makes a call.                                    *)
LEMMA Call1 ==
  ASSUME StackOK, NEW t \in Threads, stack[t] = <<>>, NEW f \in Frames,
         Call(t, <<f>>)
  PROVE  StackOK' /\ \E new : Begins(new, f)
<1>1. PICK new : new = <<t, 1>>
  OBVIOUS
<1>2. /\ StackOK' /\ stack'[t] = <<f>> /\ Len(stack'[t]) = 1 /\ Len(stack[t]) = 0
      /\ \A u \in Threads \ {t} : stack'[u] = stack[u]
  BY DEF Call, StackOK
<1>3. \A p \in Places : p[1] \in Threads \ {t}
  BY <1>2 DEF Places
<1>4. Others(Places)
  BY <1>2, <1>3 DEF Others, FrameAt
<1>5. FrameAt(new)' = f
  <2>1. new[1] = t /\ new[2] = 1 /\ 1 + 1 - 1 = 1 /\ <<f>>[1] = f
    BY <1>1
  <2>2. FrameAt(new)' = stack'[t][Len(stack'[t]) + 1 - 1]
    BY <2>1 DEF FrameAt
  <2> QED BY <1>2, <2>1, <2>2
<1>6. new \notin Places
  BY <1>1, <1>3
<1>7. Places' = Places \cup {new}
  BY <1>1, <1>2 DEF Places, StackOK
<1> QED BY <1>4, <1>5, <1>6, <1>7, <1>2 DEF Begins

(* Nothing happens to any stack.                                           *)
LEMMA SameStack ==
  ASSUME UNCHANGED stack
  PROVE  (StackOK' <=> StackOK) /\ Places' = Places /\ Others(Places)
BY DEF StackOK, Places, Others, FrameAt

(* Frames of each kind, by their program counter.                          *)
LEMMA FrameKinds ==
  ASSUME NEW f \in Frames
  PROVE  /\ f.pc \in {"timer", "callback", "settle", "tail"} =>
              f.node \in Nodes /\ f.ok \in BOOLEAN
         /\ f.pc = "dequeue" => f.node \in Nodes \cup {None} /\ f.cmd \in Cmds \cup {None}
         /\ f.pc = "release" => f.cmd \in Cmds
         /\ f.pc = "move" => f.vdev \in Vdevs \cup {None} /\ f.removed \in BOOLEAN
         /\ f.pc \in {"cancel", "cancelled", "cancel_end"} =>
              /\ f.scope \in Scope /\ f.node \in Nodes \cup {None}
              /\ f.cmd \in Cmds \cup {None} /\ f.cursor \in Nodes \cup {None}
              /\ f.left \in Nat
BY DEF Frames, ActivateFrames, DequeueFrames, ReleaseFrames, MoveFrames, CancelFrames

(* What the constructors of frames build are frames.                       *)
LEMMA FrameTypes ==
  /\ \A pc \in {"timer", "callback", "settle", "tail"}, n \in Nodes, ok \in BOOLEAN :
       Activate(pc, n, ok) \in Frames
  /\ \A n \in Nodes \cup {None}, c \in Cmds \cup {None} : Dequeue(n, c) \in Frames
  /\ \A c \in Cmds : Release(c) \in Frames
  /\ \A v \in Vdevs \cup {None}, b \in BOOLEAN : Move(v, b) \in Frames
  /\ \A b \in BOOLEAN : MoveOn(b) \in Frames
  /\ \A pc \in {"cancel", "cancelled", "cancel_end"}, s \in Scope,
       n, m \in Nodes \cup {None}, c \in Cmds \cup {None}, l \in Nat :
       Cancel(pc, s, n, c, m, l) \in Frames
BY DEF Frames, ActivateFrames, DequeueFrames, ReleaseFrames, MoveFrames, CancelFrames,
       Activate, Dequeue, Release, Move, MoveOn, Cancel

(* A thread in a call.                                                     *)
LEMMA AtFacts ==
  ASSUME IInv, NEW t \in Threads, NEW pc, At(t, pc)
  PROVE  /\ StackOK /\ stack[t] # <<>> /\ Top(t) \in Frames /\ Top(t).pc = pc
         /\ ~corrupt
BY TopFacts DEF IInv, TypeOK, StackOK, At, Top

---------------------------------------------------------------------------
(* Steps that touch only frames that neither activate nor release, at the  *)
(* places D, and only the marks others leave for an activator.             *)
Neutral(f) == f.pc \notin {"timer", "callback", "settle", "release", "cancelled"}
Calm(D) ==
  /\ Places' \ D = Places \ D /\ Others(Places \ D)
  /\ \A p \in Places : p \in D => Neutral(FrameAt(p))
  /\ \A p \in Places' : p \in D => Neutral(FrameAt(p))' /\ WalkOK(FrameAt(p))'
SameMarks(bs) ==
  \A n \in Nodes, b \in bs : b \in in_use'[n] <=> b \in in_use[n]
SameTimers == \A n \in Nodes : timer'[n] = "off" <=> timer[n] = "off"

(* A calm step that keeps every mark served preserves the invariant.       *)
LEMMA CalmStep ==
  ASSUME IInv, TypeOK', NEW D, Calm(D), SameMarks({"activation"}), SameTimers,
         UNCHANGED <<lists, bitmap, owed>>, BitsInv', MarksServed', UntimedServed'
  PROVE  IInv'
<1> USE DEF IInv, lists
<1>1. /\ \A p \in Places :
           Neutral(FrameAt(p)) \/ (p \in Places' /\ FrameAt(p)' = FrameAt(p))
      /\ \A p \in Places' :
           Neutral(FrameAt(p))' \/ (p \in Places /\ FrameAt(p)' = FrameAt(p))
      /\ \A p \in Places' :
           WalkOK(FrameAt(p))' \/ (p \in Places /\ FrameAt(p)' = FrameAt(p))
  BY DEF Calm, Others
<1>2. \A f, x : Neutral(f) => /\ ~IsActivating(f, x) /\ ~IsLeaving(f, x)
                             /\ ~IsReleasing(f, x)
  BY DEF Neutral, IsActivating, IsLeaving, IsReleasing
<1>3. NodesConserved'
  BY DEF NodesConserved
<1>4. FrameInv'
  BY <1>1 DEF FrameInv
<1>5. ActivationInv'
  BY <1>1, <1>2 DEF ActivationInv, SameMarks
<1>6. TimerInv'
  <2>1. ASSUME NEW p \in Places', NEW n \in Nodes,
               IsActivating(FrameAt(p), n)', timer'[n] = "off"
        PROVE  Untimed(FrameAt(p))'
    BY <1>1, <1>2, <2>1 DEF TimerInv, SameTimers
  <2>2. \A n \in Nodes : timer'[n] # "off" => n \in ToSet(active)
    BY DEF TimerInv, SameTimers
  <2> QED BY <2>1, <2>2 DEF TimerInv
<1>7. BitmapInv'
  BY <1>1, <1>2 DEF BitmapInv, NodeVdev
<1>8. ReleasedOnce'
  <2>1. \A c \in Cmds : Releasing(c)' = Releasing(c)
    BY <1>1, <1>2 DEF Releasing
  <2> QED BY <2>1 DEF ReleasedOnce, Holding
<1> QED BY <1>3, <1>4, <1>5, <1>6, <1>7, <1>8

(* Steps that touch no mark but the movement's, and only frames that serve *)
(* no node either.                                                         *)
Plain(f) ==
  \/ f.pc \in {"move", "move_on", "cancel_end"}
  \/ f.pc \in {"cancel", "dequeue"} /\ f.node = None
Quiet(D) ==
  /\ Places' \ D = Places \ D /\ Others(Places \ D)
  /\ \A p \in Places : p \in D => Plain(FrameAt(p))
  /\ \A p \in Places' : p \in D => Plain(FrameAt(p))' /\ WalkOK(FrameAt(p))'
AllMarks == {"activation", "removal", "cancel"}

(* A quiet step preserves the invariant.                                   *)
LEMMA QuietStep ==
  ASSUME IInv, TypeOK', NEW D, Quiet(D), SameMarks(AllMarks), SameTimers,
         UNCHANGED <<lists, bitmap, owed>>
  PROVE  IInv'
<1> USE DEF IInv, lists
<1>1. \A n \in Nodes : None # n
  BY CmdAssumption
<1>2. \A p \in Places : Plain(FrameAt(p)) \/ (p \in Places' /\ FrameAt(p)' = FrameAt(p))
  BY DEF Quiet, Others
<1>3. \A f, n : Plain(f) /\ n \in Nodes => ~Serves(f, n)
  BY <1>1 DEF Plain, Serves
<1>4. Calm(D)
  BY DEF Calm, Quiet, Plain, Neutral
<1>5. BitsInv'
  BY DEF BitsInv, SameMarks, AllMarks
<1>6. MarksServed'
  BY <1>2, <1>3 DEF MarksServed, SameMarks, AllMarks
<1>7. UntimedServed'
  <2>1. ASSUME NEW n \in ToSet(active), timer'[n] = "off"
        PROVE  \E p \in Places' : /\ Serves(FrameAt(p), n)'
                                  /\ Untimed(FrameAt(p))' \/ FrameAt(p)'.pc = "dequeue"
    <3>1. n \in Nodes
      BY DEF TypeOK, ToSet
    <3>2. PICK p \in Places : /\ Serves(FrameAt(p), n)
                              /\ Untimed(FrameAt(p)) \/ FrameAt(p).pc = "dequeue"
      BY <2>1, <3>1 DEF UntimedServed, SameTimers
    <3>3. p \in Places' /\ FrameAt(p)' = FrameAt(p)
      BY <1>2, <1>3, <3>1, <3>2
    <3> QED BY <3>2, <3>3
  <2> QED BY <2>1 DEF UntimedServed
<1>8. SameMarks({"activation"})
  BY DEF SameMarks, AllMarks
<1> QED BY <1>4, <1>5, <1>6, <1>7, <1>8, CalmStep

(* A call is begun with a frame nobody looks at.                           *)
LEMMA QuietCall ==
  ASSUME IInv, NEW t \in Threads, Idle(t), NEW f \in Frames, Plain(f), WalkOK(f),
         Call(t, <<f>>)
  PROVE  StackOK' /\ \E D : Quiet(D)
<1>1. StackOK /\ stack[t] = <<>>
  BY DEF IInv, TypeOK, StackOK, Idle
<1>2. StackOK' /\ \E new : Begins(new, f)
  BY <1>1, Call1
<1>3. PICK new : Begins(new, f)
  BY <1>2
<1>4. Quiet({new})
  BY <1>3 DEF Quiet, Begins, Others
<1> QED BY <1>2, <1>4

(* wlan_serialization_remove_cmd begins a dequeue by value.                *)
LEMMA RemoveCmdStep ==
  ASSUME IInv, NEW t \in Threads, NEW c \in Cmds, RemoveCmd(t, c)
  PROVE  IInv'
<1>1. Dequeue(None, c) \in Frames /\ Plain(Dequeue(None, c)) /\ WalkOK(Dequeue(None, c))
  BY FrameTypes DEF Plain, WalkOK, Dequeue
<1>2. StackOK' /\ \E D : Quiet(D)
  BY <1>1, QuietCall DEF RemoveCmd
<1>3. UNCHANGED <<lists, marks, in_use, disabled, timer, timeouts, requests, owed, corrupt>>
  BY DEF RemoveCmd
<1>4. TypeOK'
  BY <1>2, <1>3 DEF IInv, TypeOK, StackOK, lists, marks
<1>5. SameMarks(AllMarks) /\ SameTimers
  BY <1>3 DEF SameMarks, SameTimers
<1> QED BY <1>2, <1>3, <1>4, <1>5, QuietStep DEF marks

(* wlan_serialization_cancel_request begins a cancel.                      *)
LEMMA CancelRequestStep ==
  ASSUME IInv, NEW t \in Threads, NEW scope \in Scopes, CancelRequest(t, scope)
  PROVE  IInv'
<1> DEFINE f == Cancel("cancel", scope, None, None, None, 0)
<1>1. f \in Frames /\ Plain(f) /\ WalkOK(f)
  BY FrameTypes, CmdAssumption DEF Plain, WalkOK, Cancel
<1>2. StackOK' /\ \E D : Quiet(D)
  BY <1>1, QuietCall DEF CancelRequest
<1>3. UNCHANGED <<lists, marks, in_use, disabled, timer, timeouts, requests, owed, corrupt>>
  BY DEF CancelRequest
<1>4. TypeOK'
  BY <1>2, <1>3 DEF IInv, TypeOK, StackOK, lists, marks
<1>5. SameMarks(AllMarks) /\ SameTimers
  BY <1>3 DEF SameMarks, SameTimers
<1> QED BY <1>2, <1>3, <1>4, <1>5, QuietStep DEF marks

(* The purge of a vdev that is deleted begins.                             *)
LEMMA CloseSessionStep ==
  ASSUME IInv, NEW t \in Threads, NEW v \in Closing, CloseSession(t, v)
  PROVE  IInv'
<1> DEFINE scope == [sel |-> {c \in Cmds : VdevOf[c] = v}, all |-> TRUE,
                     queues |-> <<FALSE, TRUE>>, closed |-> TRUE]
           f == Cancel("cancel", scope, None, None, None, 0)
<1>1. scope \in Scope /\ scope.queues # <<>>
  BY DEF Scope
<1> HIDE DEF scope
<1>2. f \in Frames /\ Plain(f) /\ WalkOK(f)
  BY <1>1, FrameTypes DEF Plain, WalkOK, Cancel
<1>3. StackOK' /\ \E D : Quiet(D)
  BY <1>2, QuietCall DEF CloseSession, scope
<1>4. /\ UNCHANGED <<lists, marks, in_use, timer, timeouts, requests, owed, corrupt>>
      /\ disabled' = disabled \cup {v}
  BY DEF CloseSession
<1>5. TypeOK'
  BY <1>3, <1>4, CmdAssumption DEF IInv, TypeOK, StackOK, lists, marks
<1>6. SameMarks(AllMarks) /\ SameTimers
  BY <1>4 DEF SameMarks, AllMarks, SameTimers
<1> QED BY <1>3, <1>4, <1>5, <1>6, QuietStep DEF marks

(* The 16 bits of blocking_cmd_waiting.                                    *)
LEMMA WaitingFacts ==
  ASSUME IInv, NEW c
  PROVE  /\ WaitingAfterCheck(c) \in 0 .. Width - 1
         /\ WaitingLess(c) \in 0 .. Width - 1
<1>1. \A x \in Int : x % Width \in 0 .. Width - 1
  BY DEF Width
<1>2. blocking_cmd_waiting \in 0 .. Width - 1
  BY DEF IInv, TypeOK
<1>3. blocking_cmd_waiting \in Int
  BY <1>2 DEF Width
<1>4. WaitingAfterCheck(c) \in 0 .. Width - 1
  <2>1. (blocking_cmd_waiting + 1) % Width \in 0 .. Width - 1
    BY <1>1, <1>3
  <2> QED BY <1>2, <2>1 DEF WaitingAfterCheck
<1>5. WaitingLess(c) \in 0 .. Width - 1
  <2>1. (blocking_cmd_waiting - 1) % Width \in 0 .. Width - 1
    BY <1>1, <1>3
  <2> QED BY <1>2, <2>1 DEF WaitingLess
<1> QED BY <1>4, <1>5

(* A refused request changes the counter and the bounds only.              *)
LEMMA RequestRefusedStep ==
  ASSUME IInv, NEW t \in Threads, NEW c \in Cmds, RequestRefused(t, c)
  PROVE  IInv'
<1>1. /\ UNCHANGED <<lists, bitmap, blocking_cmd_active, in_use, timer, timeouts,
                     stack, owed, corrupt>>
      /\ requests' = [requests EXCEPT ![c] = @ + 1]
      /\ disabled' \in {disabled, disabled \cup {VdevOf[c]}}
      /\ blocking_cmd_waiting' = WaitingAfterCheck(c)
  BY DEF RequestRefused, Asked
<1>2. Quiet({})
  BY <1>1, SameStack DEF Quiet
<1>3. blocking_cmd_waiting' \in 0 .. Width - 1
  BY <1>1, WaitingFacts
<1>4. TypeOK'
  <2>1. disabled' \in SUBSET Vdevs
    <3>1. VdevOf[c] \in Vdevs
      BY CmdAssumption
    <3> QED BY <1>1, <3>1 DEF IInv, TypeOK
  <2>2. requests' \in [Cmds -> Nat]
    BY <1>1 DEF IInv, TypeOK
  <2> QED BY <1>1, <1>3, <2>1, <2>2 DEF IInv, TypeOK, lists
<1>5. SameMarks(AllMarks) /\ SameTimers
  BY <1>1 DEF SameMarks, SameTimers
<1> QED BY <1>1, <1>2, <1>4, <1>5, QuietStep

(* The scheduler takes a timeout and dequeues an active command.           *)
LEMMA HandleTimeoutStep ==
  ASSUME IInv, HandleTimeout
  PROVE  IInv'
<1> DEFINE c == Head(timeouts)  f == Dequeue(None, c)
<1>1. c \in Cmds /\ timeouts' \in Seq(Cmds)
  BY DEF IInv, TypeOK, HandleTimeout
<1> HIDE DEF c
<1>2. f \in Frames /\ Plain(f) /\ WalkOK(f)
  BY <1>1, FrameTypes DEF Plain, WalkOK, Dequeue
<1>3. StackOK' /\ \E D : Quiet(D)
  <2>1. CASE Call(Scheduler, <<f>>)
    BY <1>2, <2>1, QuietCall, CmdAssumption DEF HandleTimeout
  <2>2. CASE Call(Scheduler, <<>>)
    <3>1. stack' = stack
      BY <2>2, CmdAssumption DEF HandleTimeout, Call, Idle, IInv, TypeOK
    <3>2. Quiet({})
      BY <3>1, SameStack DEF Quiet
    <3>3. StackOK'
      BY <3>1 DEF IInv, TypeOK, StackOK
    <3> QED BY <3>2, <3>3
  <2> QED BY <2>1, <2>2 DEF HandleTimeout, c
<1>4. UNCHANGED <<lists, marks, in_use, disabled, timer, requests, owed, corrupt>>
  BY DEF HandleTimeout
<1>5. TypeOK'
  BY <1>1, <1>3, <1>4 DEF IInv, TypeOK, StackOK, lists, marks
<1>6. SameMarks(AllMarks) /\ SameTimers
  BY <1>4 DEF SameMarks, AllMarks, SameTimers
<1> QED BY <1>3, <1>4, <1>5, <1>6, QuietStep DEF marks

(* Nodes in a list, and what is in them.                                   *)
LEMMA ListFacts ==
  ASSUME IInv
  PROVE  /\ ToSet(active) \subseteq Nodes /\ ToSet(pending) \subseteq Nodes
         /\ \A n \in ToSet(active) \cup ToSet(pending) :
              n \notin pool /\ cmd[n] \in Cmds /\ NodeVdev(n) \in Vdevs
         /\ \A n \in Nodes : timer[n] # "off" => n \in ToSet(active)
<1>1. ToSet(active) \subseteq Nodes /\ ToSet(pending) \subseteq Nodes
  BY DEF IInv, TypeOK, ToSet
<1>2. \A n \in Nodes : cmd[n] \in Cmds \cup {None}
  BY DEF IInv, TypeOK
<1>3. \A n \in ToSet(active) \cup ToSet(pending) : n \notin pool /\ cmd[n] # None
  BY <1>1 DEF IInv, NodesConserved
<1> QED BY <1>1, <1>2, <1>3, CmdAssumption DEF NodeVdev, IInv, TimerInv

(* A timer that runs expires and is posted.                                *)
LEMMA TimerExpiresStep ==
  ASSUME IInv, NEW n \in Nodes, TimerExpires(n)
  PROVE  IInv'
<1>1. /\ UNCHANGED <<lists, marks, in_use, disabled, stack, requests, owed, corrupt>>
      /\ timer' = [timer EXCEPT ![n] = "expired"] /\ timer[n] = "on"
      /\ timeouts' = Append(timeouts, cmd[n])
  BY DEF TimerExpires
<1>2. Quiet({})
  BY <1>1, SameStack DEF Quiet
<1>3. timeouts' \in Seq(Cmds)
  <2>1. cmd[n] \in Cmds
    BY <1>1, ListFacts
  <2>2. timeouts \in Seq(Cmds)
    BY DEF IInv, TypeOK
  <2> QED BY <1>1, <2>1, <2>2
<1>4. TypeOK'
  BY <1>1, <1>3 DEF IInv, TypeOK, lists, marks
<1>5. SameMarks(AllMarks) /\ SameTimers
  BY <1>1 DEF SameMarks, SameTimers, IInv, TypeOK
<1> QED BY <1>1, <1>2, <1>4, <1>5, QuietStep DEF marks

(* A timer expires and its timeout is lost.                                *)
LEMMA TimeoutLostStep ==
  ASSUME IInv, NEW n \in Nodes, TimeoutLost(n)
  PROVE  IInv'
<1>1. /\ UNCHANGED <<lists, marks, in_use, disabled, timeouts, stack, requests,
                     owed, corrupt>>
      /\ timer' = [timer EXCEPT ![n] = "expired"] /\ timer[n] = "on"
  BY DEF TimeoutLost
<1>2. Quiet({})
  BY <1>1, SameStack DEF Quiet
<1>3. TypeOK'
  BY <1>1 DEF IInv, TypeOK, lists, marks
<1>4. SameMarks(AllMarks) /\ SameTimers
  BY <1>1 DEF SameMarks, SameTimers, IInv, TypeOK
<1> QED BY <1>1, <1>2, <1>3, <1>4, QuietStep DEF marks

(* An expired timer is started again.                                      *)
LEMMA UpdateTimerStep ==
  ASSUME IInv, NEW c \in Rearmed, UpdateTimer(c)
  PROVE  IInv'
<1>1. PICK n \in Nodes : timer[n] = "expired" /\ timer' = [timer EXCEPT ![n] = "on"]
  BY DEF UpdateTimer
<1>2. UNCHANGED <<lists, marks, in_use, disabled, timeouts, stack, requests, owed, corrupt>>
  BY DEF UpdateTimer
<1>3. Quiet({})
  BY <1>2, SameStack DEF Quiet
<1>4. TypeOK'
  BY <1>1, <1>2 DEF IInv, TypeOK, lists, marks
<1>5. SameMarks(AllMarks) /\ SameTimers
  BY <1>1, <1>2 DEF SameMarks, SameTimers, IInv, TypeOK
<1> QED BY <1>2, <1>3, <1>4, <1>5, QuietStep DEF marks

(* A move touches the movement bits only.                                  *)
LEMMA MarksFacts ==
  ASSUME IInv, NEW k, NEW moved
  PROVE  /\ MovementMarks(k, moved) \in [Nodes -> SUBSET Bits]
         /\ \A n \in Nodes, b \in {"activation", "removal", "cancel"} :
              b \in MovementMarks(k, moved)[n] <=> b \in in_use[n]
<1>1. \A n \in Nodes : MovementMarks(k, moved)[n] \in
        {in_use[n] \ {"movement"}, in_use[n] \cup {"movement"}, in_use[n]}
  BY DEF MovementMarks
<1>2. \A n \in Nodes : in_use[n] \in SUBSET Bits
  BY DEF IInv, TypeOK
<1>3. \A n \in Nodes : MovementMarks(k, moved)[n] \in SUBSET Bits
  BY <1>1, <1>2 DEF Bits
<1>4. MovementMarks(k, moved) \in [Nodes -> SUBSET Bits]
  BY <1>3 DEF MovementMarks
<1> QED BY <1>1, <1>4

(* A round of a move that moves nothing.                                   *)
LEMMA MoveNoneStep ==
  ASSUME IInv, NEW t \in Threads, At(t, "move") \/ At(t, "move_on"),
         NEW bits \in [Nodes -> SUBSET Bits],
         \A n \in Nodes, b \in {"activation", "removal", "cancel"} :
           b \in bits[n] <=> b \in in_use[n],
         MoveNone(t, bits), UNCHANGED <<timer, timeouts, requests, owed, corrupt>>
  PROVE  IInv'
<1>1. StackOK /\ stack[t] # <<>> /\ Top(t) \in Frames /\ Top(t).pc \in {"move", "move_on"}
  BY AtFacts
<1>2. PICK top \in Places : StackOK' /\ FrameAt(top) = Top(t) /\ Pops(top)
  BY <1>1, Continue0 DEF MoveNone
<1>3. Quiet({top})
  BY <1>1, <1>2 DEF Quiet, Pops, Others, Plain
<1>4. UNCHANGED <<lists, marks, disabled>> /\ in_use' = bits
  BY DEF MoveNone
<1>5. TypeOK'
  BY <1>2, <1>4 DEF IInv, TypeOK, StackOK, lists, marks
<1>6. SameMarks(AllMarks) /\ SameTimers
  BY <1>4 DEF SameMarks, AllMarks, SameTimers
<1> QED BY <1>3, <1>4, <1>5, <1>6, QuietStep DEF marks

(* Lists of one call or none, one after the other.                         *)
LEMMA ShortConcat ==
  ASSUME NEW x, NEW y
  PROVE  /\ <<>> \o <<>> = <<>> /\ <<x>> \o <<>> = <<x>>
         /\ <<>> \o <<y>> = <<y>> /\ <<x>> \o <<y>> = <<x, y>>
<1>1. <<>> \in Seq({x, y}) /\ <<x>> \in Seq({x, y}) /\ <<y>> \in Seq({x, y})
  OBVIOUS
<1>2. <<>> \o <<>> = <<>> /\ <<x>> \o <<>> = <<x>> /\ <<>> \o <<y>> = <<y>>
  BY <1>1, ConcatEmptySeq
<1>3. <<x>> \o <<y>> = <<x, y>>
  <2>1. /\ <<x>> \o <<y>> \in Seq({x, y}) /\ Len(<<x>> \o <<y>>) = 2
        /\ (<<x>> \o <<y>>)[1] = x /\ (<<x>> \o <<y>>)[2] = y
    OBVIOUS
  <2> DEFINE r == <<x>> \o <<y>>
  <2> HIDE DEF r
  <2>2. r \in Seq({x, y}) /\ Len(r) = 2 /\ r[1] = x /\ r[2] = y => r = <<x, y>>
    BY SeqEqual
  <2> QED BY <2>1, <2>2 DEF r
<1> QED BY <1>2, <1>3

(* A walk is over: the next queue, and a move if none is active.           *)
LEMMA CancelEndStep ==
  ASSUME IInv, NEW t \in Threads, CancelEnd(t)
  PROVE  IInv'
<1> DEFINE f == Top(t)
           more == Tail(f.scope.queues)
           scope == [f.scope EXCEPT !.queues = more]
           m == Move(None, FALSE)
           g == Cancel("cancel", scope, None, None, None, 0)
<1>1. /\ StackOK /\ stack[t] # <<>> /\ f \in Frames /\ f.pc = "cancel_end"
      /\ f.scope \in Scope
  BY AtFacts, FrameKinds DEF CancelEnd
<1>2. f.scope.queues # <<>>
  BY <1>1, TopFacts DEF IInv, FrameInv, WalkOK
<1>3. scope \in Scope /\ scope.queues = more
  <2>1. f.scope.queues \in Seq(BOOLEAN)
    BY <1>1 DEF Scope
  <2>2. more \in Seq(BOOLEAN)
    BY <1>2, <2>1, HeadTailProperties
  <2> HIDE DEF more, f
  <2> QED BY <1>1, <2>2 DEF Scope
<1>4. m \in Frames /\ Plain(m) /\ WalkOK(m)
  BY FrameTypes DEF Plain, WalkOK, Move
<1>5. more # <<>> => g \in Frames /\ Plain(g) /\ WalkOK(g)
  <2> HIDE DEF scope
  <2> QED BY <1>3, FrameTypes DEF Plain, WalkOK, Cancel
<1>6. \/ Continue(t, <<>> \o <<>>)
      \/ Continue(t, <<m>> \o <<>>)
      \/ more # <<>> /\ Continue(t, <<>> \o <<g>>)
      \/ more # <<>> /\ Continue(t, <<m>> \o <<g>>)
  BY DEF CancelEnd
<1>7. StackOK' /\ \E D : Quiet(D)
  <2> HIDE DEF m, g, f
  <2>1. Plain(f)
    BY <1>1 DEF Plain
  <2>3. CASE Continue(t, <<>>)
    <3>1. PICK top \in Places : StackOK' /\ FrameAt(top) = f /\ Pops(top)
      BY <1>1, <2>3, Continue0 DEF f
    <3>2. Quiet({top})
      BY <2>1, <3>1 DEF Quiet, Pops, Others
    <3> QED BY <3>1, <3>2
  <2>4. CASE Continue(t, <<m>>)
    <3>1. PICK top \in Places : StackOK' /\ FrameAt(top) = f /\ Swaps(top, m)
      BY <1>1, <1>4, <2>4, Continue1 DEF f
    <3>2. Quiet({top})
      BY <1>4, <2>1, <3>1 DEF Quiet, Swaps, Others
    <3> QED BY <3>1, <3>2
  <2>5. CASE more # <<>> /\ Continue(t, <<g>>)
    <3>1. PICK top \in Places : StackOK' /\ FrameAt(top) = f /\ Swaps(top, g)
      BY <1>1, <1>5, <2>5, Continue1 DEF f
    <3>2. Quiet({top})
      BY <1>5, <2>1, <2>5, <3>1 DEF Quiet, Swaps, Others
    <3> QED BY <3>1, <3>2
  <2>6. CASE more # <<>> /\ Continue(t, <<m, g>>)
    <3>1. PICK top, new :
              top \in Places /\ StackOK' /\ FrameAt(top) = f /\ Pushes(top, new, m, g)
      BY <1>1, <1>4, <1>5, <2>6, Continue2 DEF f
    <3>2. Quiet({top, new})
      BY <1>4, <1>5, <2>1, <2>6, <3>1 DEF Quiet, Pushes, Others
    <3> QED BY <3>1, <3>2
  <2> QED BY <1>6, <2>3, <2>4, <2>5, <2>6, ShortConcat
<1>8. UNCHANGED <<lists, marks, in_use, disabled, timer, timeouts, requests, owed, corrupt>>
  BY DEF CancelEnd
<1>9. TypeOK'
  BY <1>7, <1>8 DEF IInv, TypeOK, StackOK, lists, marks
<1>10. SameMarks(AllMarks) /\ SameTimers
  BY <1>8 DEF SameMarks, SameTimers
<1> QED BY <1>7, <1>8, <1>9, <1>10, QuietStep DEF marks

---------------------------------------------------------------------------
(* The sets ReleasedOnce counts are finite.                                *)
LEMMA FinitePlaces ==
  ASSUME NEW s \in [Threads -> Seq(Frames)]
  PROVE  IsFiniteSet(UNION {{t} \X DOMAIN s[t] : t \in Threads})
<1> DEFINE At1(t) == {t} \X DOMAIN s[t]
           All == {At1(t) : t \in Threads}
           f == [t \in Threads |-> At1(t)]
<1>1. ASSUME NEW t \in Threads
      PROVE  IsFiniteSet(At1(t))
  <2>1. DOMAIN s[t] = 1 .. Len(s[t]) /\ Len(s[t]) \in Int
    OBVIOUS
  <2>2. IsFiniteSet(DOMAIN s[t])
    BY <2>1, FS_Interval
  <2> QED BY <2>2, FS_Singleton, FS_Product
<1>2. f \in Surjection(Threads, All)
  BY DEF Surjection
<1>3. IsFiniteSet(All)
  BY <1>2, FS_Surjection, CmdAssumption
<1>4. \A T \in All : IsFiniteSet(T)
  BY <1>1
<1> QED BY <1>3, <1>4, FS_UNION

(* A list has finitely many nodes.                                         *)
LEMMA FiniteList ==
  ASSUME NEW s \in Seq(Nodes)
  PROVE  IsFiniteSet(ToSet(s))
<1>1. s \in Surjection(1 .. Len(s), ToSet(s))
  BY DEF Surjection, ToSet
<1>2. IsFiniteSet(1 .. Len(s))
  BY FS_Interval
<1> QED BY <1>1, <1>2, FS_Surjection

(* Sets that differ in one element at most.                                *)
Unit(b) == IF b THEN 1 ELSE 0
(* Their cardinalities differ by that element.                             *)
LEMMA UnitChange ==
  ASSUME NEW S, NEW T, NEW x, IsFiniteSet(S), IsFiniteSet(T), S \ {x} = T \ {x}
  PROVE  /\ Cardinality(S) \in Nat /\ Cardinality(T) \in Nat
         /\ Cardinality(S) + Unit(x \in T) = Cardinality(T) + Unit(x \in S)
<1>1. Cardinality(S) \in Nat /\ Cardinality(T) \in Nat
  BY FS_CardinalityType
<1>2. /\ Cardinality(S \ {x}) = IF x \in S THEN Cardinality(S) - 1 ELSE Cardinality(S)
      /\ Cardinality(T \ {x}) = IF x \in T THEN Cardinality(T) - 1 ELSE Cardinality(T)
  BY FS_RemoveElement
<1> QED BY <1>1, <1>2 DEF Unit

Balanced(c) ==
  owed[c] = Cardinality(Holding(pending, c)) + Cardinality(Holding(active, c))
              + Cardinality(Releasing(c))

(* What is owed to a command stays in balance when one node n is taken out *)
(* of a list or put into one, and one frame is replaced.                   *)
LEMMA Balance ==
  ASSUME IInv, StackOK', pending' \in Seq(Nodes), active' \in Seq(Nodes),
         NEW c \in Cmds, NEW n, NEW top,
         Holding(pending, c)' \ {n} = Holding(pending, c) \ {n},
         Holding(active, c)' \ {n} = Holding(active, c) \ {n},
         Releasing(c)' \ {top} = Releasing(c) \ {top},
         owed'[c] \in Int,
         owed'[c] + Unit(n \in Holding(pending, c)) + Unit(n \in Holding(active, c))
                  + Unit(top \in Releasing(c))
           = owed[c] + Unit(n \in Holding(pending, c)')
                  + Unit(n \in Holding(active, c)') + Unit(top \in Releasing(c)')
  PROVE  Balanced(c)'
<1>1. /\ IsFiniteSet(Holding(pending, c)) /\ IsFiniteSet(Holding(active, c))
      /\ IsFiniteSet(Holding(pending, c)') /\ IsFiniteSet(Holding(active, c)')
  <2>1. /\ IsFiniteSet(ToSet(pending)) /\ IsFiniteSet(ToSet(active))
        /\ IsFiniteSet(ToSet(pending')) /\ IsFiniteSet(ToSet(active'))
    BY FiniteList DEF IInv, TypeOK
  <2>2. /\ Holding(pending, c) \in SUBSET ToSet(pending)
        /\ Holding(active, c) \in SUBSET ToSet(active)
        /\ Holding(pending, c)' \in SUBSET ToSet(pending')
        /\ Holding(active, c)' \in SUBSET ToSet(active')
    BY DEF Holding
  <2> QED BY <2>1, <2>2, FS_Subset
<1>2. IsFiniteSet(Releasing(c)) /\ IsFiniteSet(Releasing(c)')
  <2>1. IsFiniteSet(Places) /\ IsFiniteSet(Places')
    BY FinitePlaces DEF IInv, TypeOK, StackOK, Places
  <2>2. Releasing(c) \in SUBSET Places /\ Releasing(c)' \in SUBSET Places'
    BY DEF Releasing
  <2> QED BY <2>1, <2>2, FS_Subset
<1> DEFINE P == Holding(pending, c)  A == Holding(active, c)  R == Releasing(c)
           Pn == Holding(pending, c)'  An == Holding(active, c)'  Rn == Releasing(c)'
<1>3. /\ Cardinality(P) \in Nat /\ Cardinality(Pn) \in Nat
      /\ Cardinality(P) + Unit(n \in Pn) = Cardinality(Pn) + Unit(n \in P)
  BY <1>1, UnitChange
<1>4. /\ Cardinality(A) \in Nat /\ Cardinality(An) \in Nat
      /\ Cardinality(A) + Unit(n \in An) = Cardinality(An) + Unit(n \in A)
  BY <1>1, UnitChange
<1>5. /\ Cardinality(R) \in Nat /\ Cardinality(Rn) \in Nat
      /\ Cardinality(R) + Unit(top \in Rn) = Cardinality(Rn) + Unit(top \in R)
  BY <1>2, UnitChange
<1>6. owed[c] = Cardinality(P) + Cardinality(A) + Cardinality(R)
  BY DEF IInv, ReleasedOnce
<1>7. \A b : Unit(b) \in Nat
  BY DEF Unit
<1>8. owed'[c] + Unit(n \in P) + Unit(n \in A) + Unit(top \in R)
        = owed[c] + Unit(n \in Pn) + Unit(n \in An) + Unit(top \in Rn)
  OBVIOUS
<1> HIDE DEF P, A, R, Pn, An, Rn
<1>9. owed'[c] = Cardinality(Pn) + Cardinality(An) + Cardinality(Rn)
  <2>1. PICK i, j, k, l, m, o \in Nat :
          /\ i = Unit(n \in P) /\ j = Unit(n \in A) /\ k = Unit(top \in R)
          /\ l = Unit(n \in Pn) /\ m = Unit(n \in An) /\ o = Unit(top \in Rn)
    BY <1>7
  <2>2. /\ owed'[c] + i + j + k = owed[c] + l + m + o
        /\ Cardinality(P) + l = Cardinality(Pn) + i
        /\ Cardinality(A) + m = Cardinality(An) + j
        /\ Cardinality(R) + o = Cardinality(Rn) + k
    BY <1>3, <1>4, <1>5, <1>8, <2>1
  <2>3. PICK x \in Int : x = owed'[c]
    OBVIOUS
  <2>4. PICK p, a, r, pn, an, rn \in Nat :
          /\ p = Cardinality(P) /\ a = Cardinality(A) /\ r = Cardinality(R)
          /\ pn = Cardinality(Pn) /\ an = Cardinality(An) /\ rn = Cardinality(Rn)
    BY <1>3, <1>4, <1>5
  <2>5. /\ x + i + j + k = p + a + r + l + m + o
        /\ p + l = pn + i /\ a + m = an + j /\ r + o = rn + k
    BY <1>6, <2>2, <2>3, <2>4
  <2>6. x = pn + an + rn
    BY <2>5
  <2> QED BY <2>3, <2>4, <2>6
<1> QED BY <1>9 DEF Pn, An, Rn, Balanced

(* A command that is being released is owed something.                     *)
LEMMA OwedPositive ==
  ASSUME IInv, NEW c \in Cmds, NEW p \in Places, IsReleasing(FrameAt(p), c)
  PROVE  owed[c] \in Nat \ {0}
<1>1. p \in Releasing(c) /\ Releasing(c) \in SUBSET Places
  BY DEF Releasing
<1>2. IsFiniteSet(Places)
  BY FinitePlaces DEF IInv, TypeOK, StackOK, Places
<1>3. IsFiniteSet(Releasing(c))
  BY <1>1, <1>2, FS_Subset
<1>4. Cardinality(Releasing(c)) \in Nat /\ Cardinality(Releasing(c)) # 0
  BY <1>1, <1>3, FS_EmptySet, FS_CardinalityType
<1>5. IsFiniteSet(ToSet(pending)) /\ IsFiniteSet(ToSet(active))
  BY FiniteList DEF IInv, TypeOK
<1>6. Holding(pending, c) \in SUBSET ToSet(pending)
        /\ Holding(active, c) \in SUBSET ToSet(active)
  BY DEF Holding
<1>7. IsFiniteSet(Holding(pending, c)) /\ IsFiniteSet(Holding(active, c))
  BY <1>5, <1>6, FS_Subset
<1>8. Cardinality(Holding(pending, c)) \in Nat /\ Cardinality(Holding(active, c)) \in Nat
  BY <1>7, FS_CardinalityType
<1>9. owed[c] = Cardinality(Holding(pending, c)) + Cardinality(Holding(active, c))
                  + Cardinality(Releasing(c))
  BY DEF IInv, ReleasedOnce
<1> QED BY <1>4, <1>8, <1>9

---------------------------------------------------------------------------
(* activate_cmd goes on to its callback or past it, with a timer unless it *)
(* has failed to start one.                                                *)
LEMMA StillActivating ==
  ASSUME IInv, NEW t \in Threads, At(t, "timer") \/ At(t, "callback"),
         NEW n, n = Top(t).node,
         NEW pc \in {"callback", "settle"}, NEW ok \in BOOLEAN,
         Continue(t, <<Activate(pc, n, ok)>>),
         timer' \in [Nodes -> {"off", "on", "expired"}],
         \A m \in Nodes : m # n => timer'[m] = timer[m],
         timer[n] # "off" => timer'[n] # "off",
         timer'[n] = "off" => Untimed(Activate(pc, n, ok)),
         UNCHANGED <<lists, marks, in_use, disabled, timeouts, requests, owed,
                     corrupt>>
  PROVE  IInv'
<1> DEFINE g == Activate(pc, n, ok)
<1>1. Top(t).pc \in {"timer", "callback"} /\ n \in Nodes
  BY AtFacts, FrameKinds
<1>2. PICK top \in Places :
        /\ StackOK'
        /\ FrameAt(top).pc \in {"timer", "callback"} /\ FrameAt(top).node = n
        /\ Swaps(top, g)
  BY <1>1, AtFacts, FrameTypes, Continue1
<1>3. g.pc = pc /\ g.node = n
  BY DEF Activate
<1>4. /\ IsActivating(FrameAt(top), n) /\ IsActivating(g, n)
      /\ \A m : IsActivating(FrameAt(top), m) \/ IsActivating(g, m) => m = n
      /\ \A m : Serves(FrameAt(top), m) => m = n
      /\ Serves(g, n) /\ WalkOK(g)
      /\ \A c : ~IsReleasing(FrameAt(top), c) /\ ~IsReleasing(g, c)
      /\ \A v : ~IsLeaving(FrameAt(top), v) /\ ~IsLeaving(g, v)
  BY <1>2, <1>3 DEF IsActivating, Serves, WalkOK, IsReleasing, IsLeaving
<1>5. timer'[n] = "off" => Untimed(g)
  OBVIOUS
<1> HIDE DEF g
<1>6. /\ Places' = Places /\ FrameAt(top)' = g
      /\ \A p \in Places : p # top => FrameAt(p)' = FrameAt(p)
  BY <1>2 DEF Swaps, Others
<1>7. n \in ToSet(active)
  BY <1>1, <1>4 DEF IInv, ActivationInv, BitsInv
<1> USE DEF lists, marks
<1>8. TypeOK'
  BY <1>2 DEF IInv, TypeOK, StackOK
<1>9. NodesConserved'
  BY DEF IInv, NodesConserved
<1>10. FrameInv'
  BY <1>4, <1>6 DEF IInv, FrameInv
<1>11. BitsInv'
  BY DEF IInv, BitsInv
<1>12. ActivationInv'
  <2>1. \A p \in Places, m \in Nodes :
          IsActivating(FrameAt(p), m)' <=> IsActivating(FrameAt(p), m)
    BY <1>4, <1>6
  <2> QED BY <1>6, <2>1 DEF IInv, ActivationInv
<1>13. TimerInv'
  BY <1>1, <1>4, <1>5, <1>6, <1>7 DEF IInv, TimerInv
<1>14. UntimedServed'
  <2>1. ASSUME NEW m \in ToSet(active), timer'[m] = "off"
        PROVE  \E p \in Places : /\ Serves(FrameAt(p), m)'
                                 /\ Untimed(FrameAt(p))' \/ FrameAt(p)'.pc = "dequeue"
    <3>1. CASE m = n
      BY <1>4, <1>5, <1>6, <2>1, <3>1
    <3>2. CASE m # n
      <4>1. timer[m] = "off"
        BY <2>1, <3>2, ListFacts
      <4>2. PICK p \in Places : /\ Serves(FrameAt(p), m)
                                /\ Untimed(FrameAt(p)) \/ FrameAt(p).pc = "dequeue"
        BY <2>1, <4>1 DEF IInv, UntimedServed
      <4>3. FrameAt(p)' = FrameAt(p)
        BY <1>4, <1>6, <3>2, <4>2
      <4> QED BY <4>2, <4>3
    <3> QED BY <3>1, <3>2
  <2> QED BY <1>6, <2>1 DEF UntimedServed
<1>15. BitmapInv'
  <2>1. \A p \in Places, v \in Vdevs :
          IsLeaving(FrameAt(p), v)' <=> IsLeaving(FrameAt(p), v)
    BY <1>4, <1>6
  <2>2. bitmap \subseteq Vdevs
    BY DEF IInv, TypeOK
  <2> QED BY <1>6, <2>1, <2>2 DEF IInv, BitmapInv, NodeVdev
<1>16. MarksServed'
  BY <1>4, <1>6 DEF IInv, MarksServed
<1>17. ReleasedOnce'
  <2>1. \A c \in Cmds : Releasing(c)' = Releasing(c)
    BY <1>4, <1>6 DEF Releasing
  <2> QED BY <2>1 DEF IInv, ReleasedOnce, Holding
<1> QED BY <1>8, <1>9, <1>10, <1>11, <1>12, <1>13, <1>14, <1>15, <1>16, <1>17
        DEF IInv

(* activate_cmd starts the timer, or fails to.                             *)
LEMMA StartTimerStep ==
  ASSUME IInv, NEW t \in Threads, StartTimer(t)
  PROVE  IInv'
<1>1. PICK n \in Nodes : n = Top(t).node
  BY AtFacts, FrameKinds DEF StartTimer
<1>2. timer \in [Nodes -> {"off", "on", "expired"}]
  BY DEF IInv, TypeOK
<1>3. CASE /\ timer' = [timer EXCEPT ![n] = "on"]
           /\ Continue(t, <<Activate("callback", n, TRUE)>>)
  BY <1>1, <1>2, <1>3, StillActivating DEF StartTimer
<1>4. CASE timer' = timer /\ Continue(t, <<Activate("settle", n, FALSE)>>)
  <2>1. Untimed(Activate("settle", n, FALSE))
    BY DEF Untimed, Activate
  <2> QED BY <1>1, <1>2, <1>4, <2>1, StillActivating DEF StartTimer
<1> QED BY <1>1, <1>3, <1>4 DEF StartTimer

(* The activation callback returns; the timer has been started.            *)
LEMMA ActivateCallbackStep ==
  ASSUME IInv, NEW t \in Threads, ActivateCallback(t)
  PROVE  IInv'
<1>1. PICK n \in Nodes : n = Top(t).node
  BY AtFacts, FrameKinds DEF ActivateCallback
<1>2. timer[n] # "off"
  <2>1. /\ StackOK /\ stack[t] # <<>> /\ Top(t).pc = "callback"
    BY AtFacts DEF ActivateCallback
  <2>2. TopAt(t) \in Places /\ FrameAt(TopAt(t)) = Top(t)
    BY <2>1, TopFacts
  <2>3. IsActivating(Top(t), n) /\ ~Untimed(Top(t))
    BY <1>1, <2>1 DEF IsActivating, Untimed
  <2> QED BY <2>2, <2>3 DEF IInv, TimerInv
<1>3. timer \in [Nodes -> {"off", "on", "expired"}]
  BY DEF IInv, TypeOK
<1>4. PICK ok \in BOOLEAN : Continue(t, <<Activate("settle", n, ok)>>)
  BY <1>1 DEF ActivateCallback
<1> QED BY <1>1, <1>2, <1>3, <1>4, StillActivating DEF ActivateCallback

(* The activation mark is cleared: the frame serves the node on.           *)
LEMMA SettleStep ==
  ASSUME IInv, NEW t \in Threads, Settle(t)
  PROVE  IInv'
<1>1. PICK n \in Nodes, ok \in BOOLEAN :
        n = Top(t).node /\ ok = Top(t).ok /\ Top(t).pc = "settle"
  BY AtFacts, FrameKinds DEF Settle
<1> DEFINE g == Activate("tail", n, ok)
<1>2. PICK top \in Places :
        /\ StackOK' /\ FrameAt(top) = Top(t) /\ Swaps(top, g)
  BY <1>1, AtFacts, FrameTypes, Continue1 DEF Settle
<1>3. g.pc = "tail" /\ g.node = n /\ g.ok = ok
  BY DEF Activate
<1>4. /\ IsActivating(FrameAt(top), n)
      /\ \A m : IsActivating(FrameAt(top), m) => m = n
      /\ \A m : ~IsActivating(g, m)
      /\ \A m : Serves(FrameAt(top), m) => Serves(g, m)
      /\ Untimed(FrameAt(top)) => Untimed(g)
      /\ FrameAt(top).pc # "dequeue" /\ WalkOK(g)
      /\ \A c : ~IsReleasing(FrameAt(top), c) /\ ~IsReleasing(g, c)
      /\ \A v : ~IsLeaving(FrameAt(top), v) /\ ~IsLeaving(g, v)
  BY <1>1, <1>2, <1>3 DEF IsActivating, Serves, WalkOK, IsReleasing, IsLeaving, Untimed
<1> HIDE DEF g
<1>5. /\ Places' = Places /\ FrameAt(top)' = g
      /\ \A p \in Places : p # top => FrameAt(p)' = FrameAt(p)
  BY <1>2 DEF Swaps, Others
<1>6. /\ UNCHANGED <<lists, marks, disabled, timer, timeouts, requests, owed, corrupt>>
      /\ in_use' = [in_use EXCEPT ![n] = (@ \ {"activation"}) \cup {"active"}]
  BY <1>1 DEF Settle
<1> USE DEF lists, marks
<1>7. /\ in_use' \in [Nodes -> SUBSET Bits]
      /\ \A m \in Nodes \ {n} : in_use'[m] = in_use[m]
      /\ in_use'[n] = (in_use[n] \ {"activation"}) \cup {"active"}
  <2>1. in_use \in [Nodes -> SUBSET Bits]
    BY DEF IInv, TypeOK
  <2> QED BY <1>6, <2>1 DEF Bits
<1>8. TypeOK'
  BY <1>2, <1>6, <1>7 DEF IInv, TypeOK, StackOK
<1>9. NodesConserved'
  BY <1>6 DEF IInv, NodesConserved
<1>10. FrameInv'
  BY <1>4, <1>5 DEF IInv, FrameInv
<1>11. BitsInv'
  BY <1>6, <1>7 DEF IInv, BitsInv
<1>12. ActivationInv'
  <2>1. \A p \in Places, m \in Nodes :
          IsActivating(FrameAt(p), m)' <=> IsActivating(FrameAt(p), m) /\ m # n
    BY <1>4, <1>5 DEF IInv, ActivationInv
  <2>2. \A m \in Nodes : "activation" \in in_use'[m] <=> "activation" \in in_use[m] /\ m # n
    BY <1>7
  <2> QED BY <1>5, <2>1, <2>2 DEF IInv, ActivationInv
<1>13. TimerInv'
  BY <1>4, <1>5, <1>6 DEF IInv, TimerInv
<1>14. UntimedServed'
  BY <1>4, <1>5, <1>6 DEF IInv, UntimedServed
<1>15. BitmapInv'
  <2>1. \A p \in Places, v \in Vdevs :
          IsLeaving(FrameAt(p), v)' <=> IsLeaving(FrameAt(p), v)
    BY <1>4, <1>5
  <2>2. bitmap \subseteq Vdevs
    BY DEF IInv, TypeOK
  <2> QED BY <1>5, <1>6, <2>1, <2>2 DEF IInv, BitmapInv, NodeVdev
<1>16. MarksServed'
  BY <1>4, <1>5, <1>7 DEF IInv, MarksServed
<1>17. ReleasedOnce'
  <2>1. \A c \in Cmds : Releasing(c)' = Releasing(c)
    BY <1>4, <1>5 DEF Releasing
  <2> QED BY <1>6, <2>1 DEF IInv, ReleasedOnce, Holding
<1> QED BY <1>8, <1>9, <1>10, <1>11, <1>12, <1>13, <1>14, <1>15, <1>16, <1>17
        DEF IInv

(* The activator's last look at its node: whatever was marked is acted on. *)
LEMMA ActivateTailStep ==
  ASSUME IInv, NEW t \in Threads, ActivateTail(t)
  PROVE  IInv'
<1>1. PICK n \in Nodes, ok \in BOOLEAN :
        n = Top(t).node /\ ok = Top(t).ok /\ Top(t).pc = "tail"
  BY AtFacts, FrameKinds DEF ActivateTail
<1> DEFINE self == [sel |-> {}, all |-> FALSE, queues |-> <<TRUE>>, closed |-> FALSE]
           d == Dequeue(n, None)
           g == Cancel("cancel", self, n, None, None, 0)
<1>2. UNCHANGED <<lists, marks, in_use, disabled, timer, timeouts, requests, owed,
                  corrupt>>
  BY DEF ActivateTail
<1>3. d \in Frames /\ Neutral(d) /\ WalkOK(d) /\ Serves(d, n) /\ d.pc = "dequeue"
  BY FrameTypes DEF Dequeue, Neutral, WalkOK, Serves
<1>4. g \in Frames /\ Neutral(g) /\ WalkOK(g) /\ Serves(g, n)
  <2>1. <<TRUE>> \in Seq(BOOLEAN) /\ <<TRUE>> # <<>>
    <3>1. Len(<<TRUE>>) = 1 /\ Len(<<>>) = 0
      OBVIOUS
    <3> QED BY <3>1
  <2>2. self \in Scope /\ self.queues = <<TRUE>> /\ <<TRUE>> # <<>>
    BY <2>1 DEF Scope
  <2> HIDE DEF self
  <2> QED BY <2>2, FrameTypes DEF Cancel, Neutral, WalkOK, Serves
<1>5. \/ (~ok \/ "removal" \in in_use[n]) /\ Continue(t, <<d>>)
      \/ ok /\ "removal" \notin in_use[n] /\ "cancel" \in in_use[n] /\ Continue(t, <<g>>)
      \/ ok /\ "removal" \notin in_use[n] /\ "cancel" \notin in_use[n] /\ Continue(t, <<>>)
  BY <1>1 DEF ActivateTail
<1> HIDE DEF d, g
<1>6. StackOK /\ stack[t] # <<>>
  BY AtFacts DEF ActivateTail
<1>7. \E top \in Places :
        /\ StackOK' /\ FrameAt(top) = Top(t)
        /\ \/ (~ok \/ "removal" \in in_use[n]) /\ Swaps(top, d)
           \/ ok /\ "removal" \notin in_use[n] /\ Swaps(top, g)
           \/ ok /\ in_use[n] \cap {"removal", "cancel"} = {} /\ Pops(top)
  BY <1>3, <1>4, <1>5, <1>6, Continue0, Continue1
<1>8. PICK top \in Places :
        /\ StackOK' /\ FrameAt(top) = Top(t)
        /\ \/ (~ok \/ "removal" \in in_use[n]) /\ Swaps(top, d)
           \/ ok /\ "removal" \notin in_use[n] /\ Swaps(top, g)
           \/ ok /\ in_use[n] \cap {"removal", "cancel"} = {} /\ Pops(top)
  BY <1>7
<1>9. /\ \A p \in Places : p # top => p \in Places' /\ FrameAt(p)' = FrameAt(p)
      /\ \/ (~ok \/ "removal" \in in_use[n]) /\ top \in Places' /\ FrameAt(top)' = d
         \/ ok /\ top \in Places' /\ FrameAt(top)' = g
         \/ ok /\ in_use[n] \cap {"removal", "cancel"} = {}
  BY <1>8 DEF Swaps, Pops, Others
<1>10. Calm({top})
  <2>1. Neutral(Top(t))
    BY <1>1 DEF Neutral
  <2> QED BY <1>3, <1>4, <1>8, <2>1 DEF Calm, Swaps, Pops, Others
<1>11. /\ \A m : Serves(FrameAt(top), m) => m = n
       /\ Untimed(FrameAt(top)) => ~ok
       /\ FrameAt(top).pc # "dequeue"
  BY <1>1, <1>8 DEF Serves, Untimed
<1>12. TypeOK'
  BY <1>2, <1>8 DEF IInv, TypeOK, StackOK, lists, marks
<1>13. BitsInv'
  BY <1>2 DEF IInv, BitsInv, lists
<1>14. MarksServed'
  BY <1>2, <1>3, <1>4, <1>9, <1>11 DEF IInv, MarksServed
<1>15. UntimedServed'
  BY <1>2, <1>3, <1>9, <1>11 DEF IInv, UntimedServed, lists
<1>16. SameMarks({"activation"}) /\ SameTimers
  BY <1>2 DEF SameMarks, SameTimers
<1> QED BY <1>2, <1>10, <1>12, <1>13, <1>14, <1>15, <1>16, CalmStep DEF marks

---------------------------------------------------------------------------
(* dequeue_cmd: a command is in one active node at most, and the frame     *)
(* that was to serve a node is gone only if the node is.                   *)
LEMMA DequeueFacts ==
  ASSUME IInv, NEW t \in Threads, At(t, "dequeue"), NEW c,
         c = IF Top(t).node = None THEN Top(t).cmd ELSE cmd[Top(t).node]
  PROVE  /\ \A m, n \in ToSet(active) : cmd[m] = cmd[n] => m = n
         /\ \A m \in ToSet(active) : Serves(Top(t), m) => cmd[m] = c
<1>1. \A m, n \in ToSet(active) : cmd[m] = cmd[n] => m = n
  BY DEF IInv, BitmapInv, NodeVdev
<1>2. \A m \in ToSet(active) : m # None
  BY ListFacts, CmdAssumption
<1> QED BY <1>1, <1>2 DEF Serves

(* The command is not active any more: no active node loses its frame.     *)
LEMMA DequeueNothingStep ==
  ASSUME IInv, NEW t \in Threads, At(t, "dequeue"), Continue(t, <<>>),
         \A m \in ToSet(active) : ~Serves(Top(t), m),
         UNCHANGED <<lists, marks, in_use, disabled, timer, timeouts, requests, owed,
                     corrupt>>
  PROVE  IInv'
<1>1. PICK top \in Places : StackOK' /\ FrameAt(top) = Top(t) /\ Pops(top)
  BY AtFacts, Continue0
<1>2. \A p \in Places : p # top => p \in Places' /\ FrameAt(p)' = FrameAt(p)
  BY <1>1 DEF Pops, Others
<1>3. Calm({top})
  <2>1. Neutral(Top(t))
    BY AtFacts DEF Neutral
  <2> QED BY <1>1, <2>1 DEF Calm, Pops, Others
<1>4. TypeOK'
  BY <1>1 DEF IInv, TypeOK, StackOK, lists, marks
<1>5. BitsInv'
  BY DEF IInv, BitsInv, lists
<1>6. MarksServed'
  <2>1. ASSUME NEW m \in Nodes, in_use[m] \cap {"removal", "cancel"} # {}
        PROVE  \E p \in Places' : Serves(FrameAt(p), m)'
    <3>1. m \in ToSet(active)
      BY <2>1 DEF IInv, BitsInv
    <3>2. PICK p \in Places : Serves(FrameAt(p), m)
      BY <2>1 DEF IInv, MarksServed
    <3> QED BY <1>1, <1>2, <3>1, <3>2
  <2> QED BY <2>1 DEF MarksServed
<1>7. UntimedServed'
  BY <1>1, <1>2 DEF IInv, UntimedServed, lists
<1>8. SameMarks({"activation"}) /\ SameTimers
  BY DEF SameMarks, SameTimers
<1> QED BY <1>3, <1>4, <1>5, <1>6, <1>7, <1>8, CalmStep DEF marks

(* The command is being activated: its activator gets a mark to serve.     *)
LEMMA MarkForRemovalStep ==
  ASSUME IInv, NEW t \in Threads, At(t, "dequeue"), Continue(t, <<>>),
         NEW n \in ToSet(active), MarkForRemoval(n),
         \A m \in ToSet(active) : Serves(Top(t), m) => m = n,
         UNCHANGED <<disabled, timeouts, requests, owed, corrupt>>
  PROVE  IInv'
<1>1. PICK top \in Places : StackOK' /\ FrameAt(top) = Top(t) /\ Pops(top)
  BY AtFacts, Continue0
<1>2. \A p \in Places : p # top => p \in Places' /\ FrameAt(p)' = FrameAt(p)
  BY <1>1 DEF Pops, Others
<1>3. FrameAt(top).pc = "dequeue"
  BY <1>1, AtFacts
<1>4. Calm({top})
  <2>1. Neutral(FrameAt(top))
    BY <1>3 DEF Neutral
  <2> QED BY <1>1, <2>1 DEF Calm, Pops, Others
<1>5. /\ UNCHANGED <<lists, marks, timer>> /\ "activation" \in in_use[n] /\ n \in Nodes
      /\ in_use' = [in_use EXCEPT ![n] = @ \cup {"removal"}]
  BY ListFacts DEF MarkForRemoval
<1>6. /\ in_use' \in [Nodes -> SUBSET Bits]
      /\ \A m \in Nodes \ {n} : in_use'[m] = in_use[m]
      /\ in_use'[n] = in_use[n] \cup {"removal"}
  <2>1. in_use \in [Nodes -> SUBSET Bits]
    BY DEF IInv, TypeOK
  <2> QED BY <1>5, <2>1 DEF Bits
<1>7. PICK q \in Places : IsActivating(FrameAt(q), n)
  BY <1>5 DEF IInv, ActivationInv
<1>8. q # top /\ Serves(FrameAt(q), n) /\ (timer[n] = "off" => Untimed(FrameAt(q)))
  <2>1. q # top /\ Serves(FrameAt(q), n)
    BY <1>3, <1>7 DEF IsActivating, Serves
  <2> QED BY <1>5, <1>7, <2>1 DEF IInv, TimerInv
<1>9. TypeOK'
  BY <1>1, <1>5, <1>6 DEF IInv, TypeOK, StackOK, lists, marks
<1>10. BitsInv'
  BY <1>5, <1>6 DEF IInv, BitsInv, lists
<1>11. MarksServed'
  <2>1. ASSUME NEW m \in Nodes, in_use'[m] \cap {"removal", "cancel"} # {}
        PROVE  \E p \in Places' : Serves(FrameAt(p), m)'
    <3>1. CASE m = n
      BY <1>2, <1>8, <3>1
    <3>2. CASE m # n
      <4>1. in_use[m] \cap {"removal", "cancel"} # {}
        BY <1>6, <2>1, <3>2
      <4>2. m \in ToSet(active)
        BY <4>1 DEF IInv, BitsInv
      <4>3. PICK p \in Places : Serves(FrameAt(p), m)
        BY <4>1 DEF IInv, MarksServed
      <4> QED BY <1>1, <1>2, <3>2, <4>2, <4>3
    <3> QED BY <3>1, <3>2
  <2> QED BY <2>1 DEF MarksServed
<1>12. UntimedServed'
  <2>1. ASSUME NEW m \in ToSet(active), timer[m] = "off"
        PROVE  \E p \in Places' : /\ Serves(FrameAt(p), m)'
                                  /\ Untimed(FrameAt(p))' \/ FrameAt(p)'.pc = "dequeue"
    <3>1. CASE m = n
      BY <1>2, <1>8, <2>1, <3>1
    <3>2. CASE m # n
      <4>1. PICK p \in Places : /\ Serves(FrameAt(p), m)
                                /\ Untimed(FrameAt(p)) \/ FrameAt(p).pc = "dequeue"
        BY <2>1 DEF IInv, UntimedServed
      <4> QED BY <1>1, <1>2, <3>2, <4>1
    <3> QED BY <3>1, <3>2
  <2> QED BY <1>5, <2>1 DEF UntimedServed, lists
<1>13. SameMarks({"activation"}) /\ SameTimers
  BY <1>5, <1>6 DEF SameMarks, SameTimers
<1> QED BY <1>4, <1>5, <1>9, <1>10, <1>11, <1>12, <1>13, CalmStep DEF marks

(* The command leaves the active list and the node goes to the pool.       *)
LEMMA RemoveActiveStep ==
  ASSUME IInv, NEW t \in Threads, At(t, "dequeue"), NEW c \in Cmds,
         Continue(t, Removed(c)),
         NEW n \in ToSet(active), cmd[n] = c, RemoveActive(n),
         \A m \in ToSet(active) : Serves(Top(t), m) => m = n,
         UNCHANGED <<disabled, timeouts, requests, owed, corrupt>>
  PROVE  IInv'
<1> DEFINE m1 == Move(VdevOf[c], c \in Blocking)  r1 == Release(c)
<1>1. /\ m1 \in Frames /\ r1 \in Frames
      /\ \A x : ~IsActivating(m1, x) /\ ~IsActivating(r1, x) /\ ~IsLeaving(m1, x)
                /\ ~IsLeaving(r1, x) /\ ~IsReleasing(m1, x)
                /\ (IsReleasing(r1, x) <=> x = c)
      /\ WalkOK(m1) /\ WalkOK(r1)
  <2>1. VdevOf[c] \in Vdevs /\ (c \in Blocking) \in BOOLEAN
    BY CmdAssumption
  <2> QED BY <2>1, FrameTypes
          DEF Move, Release, IsActivating, IsLeaving, IsReleasing, WalkOK
<1>2. Continue(t, <<m1, r1>>)
  BY DEF Removed
<1> HIDE DEF m1, r1
<1>3. PICK top, new :
        top \in Places /\ StackOK' /\ FrameAt(top) = Top(t) /\ Pushes(top, new, m1, r1)
  BY <1>1, <1>2, AtFacts, Continue2
<1>4. /\ Places' = Places \cup {new} /\ new \notin Places /\ new # top
      /\ FrameAt(top)' = r1 /\ FrameAt(new)' = m1
      /\ \A p \in Places : p # top => FrameAt(p)' = FrameAt(p)
  BY <1>3 DEF Pushes, Others
<1>5. \A x : ~IsActivating(FrameAt(top), x) /\ ~IsLeaving(FrameAt(top), x)
             /\ ~IsReleasing(FrameAt(top), x)
  BY <1>3, AtFacts DEF IsActivating, IsLeaving, IsReleasing
<1>6. /\ \A p \in Places : \A x :
           IsActivating(FrameAt(p), x)' <=> IsActivating(FrameAt(p), x)
      /\ \A p \in Places : \A x : IsLeaving(FrameAt(p), x)' <=> IsLeaving(FrameAt(p), x)
      /\ \A x : ~IsActivating(FrameAt(new), x)' /\ ~IsLeaving(FrameAt(new), x)'
  BY <1>1, <1>4, <1>5
<1>7. /\ "activation" \notin in_use[n] /\ n \in Nodes
      /\ active' = RemoveFirst(active, n)
      /\ bitmap' = bitmap \ {NodeVdev(n)}
      /\ blocking_cmd_active' \in BOOLEAN
      /\ pool' = pool \cup {n}
      /\ cmd' = [cmd EXCEPT ![n] = None]
      /\ timer' = [timer EXCEPT ![n] = "off"]
      /\ in_use' = [in_use EXCEPT ![n] = {}]
      /\ UNCHANGED <<pending, blocking_cmd_waiting>>
  BY ListFacts DEF RemoveActive, Freed
<1>8. /\ active' \in Seq(Nodes) /\ IsInjective(active')
      /\ ToSet(active') = ToSet(active) \ {n}
  BY <1>7, RemoveFacts DEF IInv, TypeOK, NodesConserved
<1>9. /\ cmd' \in [Nodes -> Cmds \cup {None}] /\ cmd'[n] = None
      /\ \A m \in Nodes : m # n => cmd'[m] = cmd[m]
      /\ timer' \in [Nodes -> {"off", "on", "expired"}] /\ timer'[n] = "off"
      /\ \A m \in Nodes : m # n => timer'[m] = timer[m]
      /\ in_use' \in [Nodes -> SUBSET Bits] /\ in_use'[n] = {}
      /\ \A m \in Nodes : m # n => in_use'[m] = in_use[m]
  BY <1>7 DEF IInv, TypeOK
<1>10. TypeOK'
  BY <1>3, <1>7, <1>8, <1>9 DEF IInv, TypeOK, StackOK
<1>11. NodesConserved'
  BY <1>7, <1>8, <1>9 DEF IInv, NodesConserved
<1>12. FrameInv'
  BY <1>1, <1>4 DEF IInv, FrameInv
<1>13. BitsInv'
  BY <1>8, <1>9 DEF IInv, BitsInv
<1>14. ActivationInv'
  BY <1>4, <1>6, <1>7, <1>9 DEF IInv, ActivationInv
<1>15. TimerInv'
  <2>1. \A m \in Nodes : timer'[m] # "off" => m \in ToSet(active')
    BY <1>8, <1>9 DEF IInv, TimerInv
  <2>2. ASSUME NEW p \in Places', NEW m \in Nodes,
               IsActivating(FrameAt(p), m)', timer'[m] = "off"
        PROVE  Untimed(FrameAt(p))'
    <3>1. p \in Places /\ p # top /\ IsActivating(FrameAt(p), m)
      BY <1>4, <1>5, <1>6, <2>2
    <3>2. m # n
      BY <1>7, <3>1 DEF IInv, ActivationInv
    <3> QED BY <1>4, <1>9, <2>2, <3>1, <3>2 DEF IInv, TimerInv
  <2> QED BY <2>1, <2>2 DEF TimerInv
<1>16. ASSUME NEW m \in ToSet(active), m # n, NEW p \in Places, Serves(FrameAt(p), m)
       PROVE  p \in Places' /\ FrameAt(p)' = FrameAt(p)
  BY <1>3, <1>4, <1>16
<1>17. UntimedServed'
  <2>1. ASSUME NEW m \in ToSet(active), m # n, timer'[m] = "off"
        PROVE  \E p \in Places' : /\ Serves(FrameAt(p), m)'
                                  /\ Untimed(FrameAt(p))' \/ FrameAt(p)'.pc = "dequeue"
    <3>1. timer[m] = "off"
      BY <1>9, <2>1, ListFacts
    <3>2. PICK p \in Places : /\ Serves(FrameAt(p), m)
                              /\ Untimed(FrameAt(p)) \/ FrameAt(p).pc = "dequeue"
      BY <3>1 DEF IInv, UntimedServed
    <3> QED BY <1>16, <2>1, <3>2
  <2> QED BY <1>8, <2>1 DEF UntimedServed
<1>18. MarksServed'
  <2>1. ASSUME NEW m \in Nodes, in_use'[m] \cap {"removal", "cancel"} # {}
        PROVE  \E p \in Places' : Serves(FrameAt(p), m)'
    <3>1. m # n /\ in_use[m] \cap {"removal", "cancel"} # {}
      BY <1>9, <2>1
    <3>2. m \in ToSet(active)
      BY <3>1 DEF IInv, BitsInv
    <3>3. PICK p \in Places : Serves(FrameAt(p), m)
      BY <3>1 DEF IInv, MarksServed
    <3> QED BY <1>16, <3>1, <3>2, <3>3
  <2> QED BY <2>1 DEF MarksServed
<1>19. BitmapInv'
  <2>1. \A m \in ToSet(active') :
          /\ m \in ToSet(active) /\ m # n /\ NodeVdev(m)' = NodeVdev(m)
          /\ NodeVdev(m) # NodeVdev(n)
    BY <1>8, <1>9, ListFacts DEF NodeVdev, IInv, BitmapInv
  <2>2. \A m \in ToSet(active) : m # n => m \in ToSet(active')
    BY <1>8
  <2>3. \A p \in Places : ~IsLeaving(FrameAt(p), NodeVdev(n))
    BY ListFacts DEF IInv, BitmapInv
  <2>4. bitmap \subseteq Vdevs
    BY DEF IInv, TypeOK
  <2>5. /\ \A m \in ToSet(active') : NodeVdev(m)' \in bitmap'
        /\ \A l, m \in ToSet(active') : NodeVdev(l)' = NodeVdev(m)' => l = m
    BY <1>7, <2>1 DEF IInv, BitmapInv
  <2>6. ASSUME NEW p \in Places', NEW v \in Vdevs, IsLeaving(FrameAt(p), v)'
        PROVE  /\ v \in bitmap'
               /\ \A m \in ToSet(active') : NodeVdev(m)' # v
               /\ \A q \in Places' : IsLeaving(FrameAt(q), v)' => p = q
    <3>1. p \in Places /\ IsLeaving(FrameAt(p), v) /\ v # NodeVdev(n)
      BY <1>4, <1>6, <2>3, <2>6
    <3> QED BY <1>4, <1>6, <1>7, <2>1, <3>1 DEF IInv, BitmapInv
  <2>7. ASSUME NEW v \in bitmap'
        PROVE  \/ \E m \in ToSet(active') : NodeVdev(m)' = v
               \/ \E p \in Places' : IsLeaving(FrameAt(p), v)'
    <3>1. v \in bitmap /\ v # NodeVdev(n)
      BY <1>7
    <3> QED BY <1>4, <1>6, <2>1, <2>2, <3>1 DEF IInv, BitmapInv
  <2> QED BY <2>5, <2>6, <2>7 DEF BitmapInv
<1>20. ReleasedOnce'
  <2>1. ASSUME NEW d \in Cmds
        PROVE  Balanced(d)'
    <3>1. n \notin ToSet(pending)
      BY DEF IInv, NodesConserved
    <3>2. Holding(pending, d)' = Holding(pending, d) /\ n \notin Holding(pending, d)
      BY <1>7, <1>9, <3>1, ListFacts DEF Holding
    <3>3. /\ Holding(active, d)' \ {n} = Holding(active, d) \ {n}
          /\ n \notin Holding(active, d)' /\ (n \in Holding(active, d) <=> d = c)
      BY <1>8, <1>9, ListFacts DEF Holding
    <3>4. /\ Releasing(d)' \ {top} = Releasing(d) \ {top}
          /\ top \notin Releasing(d) /\ (top \in Releasing(d)' <=> d = c)
      BY <1>1, <1>3, <1>4, <1>5 DEF Releasing
    <3>5. owed'[d] = owed[d] /\ owed[d] \in Int
      BY DEF IInv, TypeOK
    <3>6. /\ Unit(n \in Holding(pending, d)) = 0 /\ Unit(n \in Holding(pending, d)') = 0
          /\ Unit(n \in Holding(active, d)') = 0 /\ Unit(top \in Releasing(d)) = 0
          /\ Unit(n \in Holding(active, d)) = Unit(top \in Releasing(d)')
          /\ Unit(n \in Holding(active, d)) \in Nat
      BY <3>2, <3>3, <3>4 DEF Unit
    <3>7. owed'[d] + Unit(n \in Holding(pending, d)) + Unit(n \in Holding(active, d))
                   + Unit(top \in Releasing(d))
            = owed[d] + Unit(n \in Holding(pending, d)')
                   + Unit(n \in Holding(active, d)') + Unit(top \in Releasing(d)')
      BY <3>5, <3>6
    <3> QED BY <1>3, <1>7, <1>8, <1>10, <3>2, <3>3, <3>4, <3>5, <3>7, Balance
            DEF TypeOK
  <2> QED BY <2>1 DEF ReleasedOnce, Balanced
<1> QED BY <1>10, <1>11, <1>12, <1>13, <1>14, <1>15, <1>17, <1>18, <1>19, <1>20
        DEF IInv

(* dequeue_cmd of an active command.                                       *)
LEMMA DequeueCmdStep ==
  ASSUME IInv, NEW t \in Threads, DequeueCmd(t)
  PROVE  IInv'
<1> DEFINE c == IF Top(t).node = None THEN Top(t).cmd ELSE cmd[Top(t).node]
<1>1. At(t, "dequeue") /\ UNCHANGED <<disabled, timeouts, requests, owed, corrupt>>
  BY DEF DequeueCmd
<1>2. \/ /\ c = None \/ Holding(active, c) = {}
         /\ Continue(t, <<>>)
         /\ UNCHANGED <<lists, marks, in_use, timer>>
      \/ /\ c # None
         /\ \E n \in Holding(active, c) :
              \/ MarkForRemoval(n) /\ Continue(t, <<>>)
              \/ RemoveActive(n) /\ Continue(t, Removed(c))
  BY DEF DequeueCmd
<1>3. /\ \A m, n \in ToSet(active) : cmd[m] = cmd[n] => m = n
      /\ \A m \in ToSet(active) : Serves(Top(t), m) => cmd[m] = c
  BY <1>1, DequeueFacts
<1> HIDE DEF c
<1>4. \A m \in ToSet(active) : cmd[m] \in Cmds /\ cmd[m] # None
  BY ListFacts, CmdAssumption
<1>5. CASE /\ c = None \/ Holding(active, c) = {}
           /\ Continue(t, <<>>)
           /\ UNCHANGED <<lists, marks, in_use, timer>>
  <2>1. \A m \in ToSet(active) : ~Serves(Top(t), m)
    BY <1>3, <1>4, <1>5 DEF Holding
  <2> QED BY <1>1, <1>5, <2>1, DequeueNothingStep
<1>6. ASSUME NEW n \in Holding(active, c), MarkForRemoval(n), Continue(t, <<>>)
      PROVE  IInv'
  <2>1. n \in ToSet(active) /\ \A m \in ToSet(active) : Serves(Top(t), m) => m = n
    BY <1>3 DEF Holding
  <2> QED BY <1>1, <1>6, <2>1, MarkForRemovalStep
<1>7. ASSUME NEW n \in Holding(active, c), RemoveActive(n), Continue(t, Removed(c))
      PROVE  IInv'
  <2>1. /\ n \in ToSet(active) /\ cmd[n] = c /\ c \in Cmds
        /\ \A m \in ToSet(active) : Serves(Top(t), m) => m = n
    BY <1>3, <1>4 DEF Holding
  <2> QED BY <1>1, <1>7, <2>1, RemoveActiveStep
<1> QED BY <1>2, <1>5, <1>6, <1>7

(* The memory of a command is released.                                    *)
LEMMA ReleaseMemStep ==
  ASSUME IInv, NEW t \in Threads, ReleaseMem(t)
  PROVE  IInv'
<1>1. PICK c \in Cmds : c = Top(t).cmd /\ Top(t).pc = "release"
  BY AtFacts, FrameKinds DEF ReleaseMem
<1>2. PICK top \in Places : StackOK' /\ FrameAt(top) = Top(t) /\ Pops(top)
  BY AtFacts, Continue0 DEF ReleaseMem
<1>3. /\ UNCHANGED <<lists, marks, in_use, disabled, timer, timeouts, requests, corrupt>>
      /\ owed' = [owed EXCEPT ![c] = @ - 1]
  BY <1>1 DEF ReleaseMem
<1>4. /\ Places' = Places \ {top}
      /\ \A p \in Places : p # top => FrameAt(p)' = FrameAt(p)
  BY <1>2 DEF Pops, Others
<1>5. \A x : /\ ~IsActivating(FrameAt(top), x) /\ ~IsLeaving(FrameAt(top), x)
             /\ ~Serves(FrameAt(top), x)
             /\ IsReleasing(FrameAt(top), x) <=> x = c
  BY <1>1, <1>2 DEF IsActivating, IsLeaving, IsReleasing, Serves
<1>6. owed[c] \in Nat \ {0}
  BY <1>5, OwedPositive
<1>7. owed' \in [Cmds -> Nat] /\ owed'[c] = owed[c] - 1
      /\ \A d \in Cmds : d # c => owed'[d] = owed[d]
  <2>1. owed \in [Cmds -> Nat]
    BY DEF IInv, TypeOK
  <2>2. owed[c] - 1 \in Nat
    BY <1>6
  <2> QED BY <1>3, <2>1, <2>2
<1> USE DEF lists, marks
<1>8. TypeOK'
  BY <1>2, <1>3, <1>7 DEF IInv, TypeOK, StackOK
<1>9. NodesConserved'
  BY <1>3 DEF IInv, NodesConserved
<1>10. FrameInv'
  BY <1>4 DEF IInv, FrameInv
<1>11. BitsInv'
  BY <1>3 DEF IInv, BitsInv
<1>12. ActivationInv'
  BY <1>3, <1>4, <1>5 DEF IInv, ActivationInv
<1>13. TimerInv'
  BY <1>3, <1>4, <1>5 DEF IInv, TimerInv
<1>14. UntimedServed'
  BY <1>3, <1>4, <1>5 DEF IInv, UntimedServed
<1>15. BitmapInv'
  BY <1>3, <1>4, <1>5 DEF IInv, BitmapInv, NodeVdev
<1>16. MarksServed'
  BY <1>3, <1>4, <1>5 DEF IInv, MarksServed
<1>17. ReleasedOnce'
  <2>1. ASSUME NEW d \in Cmds
        PROVE  Balanced(d)'
    <3>1. /\ Holding(pending, d)' = Holding(pending, d)
          /\ Holding(active, d)' = Holding(active, d)
      BY <1>3 DEF Holding
    <3>2. /\ Releasing(d)' \ {top} = Releasing(d) \ {top}
          /\ top \notin Releasing(d)' /\ (top \in Releasing(d) <=> d = c)
      BY <1>4, <1>5 DEF Releasing
    <3>3. owed'[d] \in Int /\ owed[d] \in Int /\ owed'[d] = owed[d] - Unit(d = c)
      BY <1>6, <1>7 DEF IInv, TypeOK, Unit
    <3>4. /\ Unit(top \in Releasing(d)') = 0 /\ Unit(top \in Releasing(d)) = Unit(d = c)
          /\ \A x : Unit(x) \in Nat
      BY <3>2 DEF Unit
    <3>5. owed'[d] + Unit(None \in Holding(pending, d)) + Unit(None \in Holding(active, d))
                   + Unit(top \in Releasing(d))
            = owed[d] + Unit(None \in Holding(pending, d)')
                   + Unit(None \in Holding(active, d)') + Unit(top \in Releasing(d)')
      BY <3>1, <3>3, <3>4
    <3>6. /\ Holding(pending, d)' \ {None} = Holding(pending, d) \ {None}
          /\ Holding(active, d)' \ {None} = Holding(active, d) \ {None}
          /\ pending' \in Seq(Nodes) /\ active' \in Seq(Nodes)
      BY <1>8, <3>1 DEF TypeOK
    <3> QED BY <1>2, <3>2, <3>3, <3>5, <3>6, Balance
  <2> QED BY <2>1 DEF ReleasedOnce, Balanced
<1> QED BY <1>8, <1>9, <1>10, <1>11, <1>12, <1>13, <1>14, <1>15, <1>16, <1>17
        DEF IInv

---------------------------------------------------------------------------
(* A node n enters the active list with a command c of a vdev that has no  *)
(* active command, and a thread begins to activate it at the place new; at *)
(* the places D only frames that nobody looks at come or go.               *)
Enters(n, c, new, D) ==
  /\ n \in Nodes \ ToSet(active) /\ ToSet(active') = ToSet(active) \cup {n}
  /\ c \in Cmds /\ VdevOf[c] \notin bitmap
  /\ cmd'[n] = c /\ \A m \in ToSet(active) : cmd'[m] = cmd[m]
  /\ bitmap' = bitmap \cup {VdevOf[c]}
  /\ \A m \in Nodes, b \in AllMarks :
       b \in in_use'[m] <=> b \in in_use[m] \/ (m = n /\ b = "activation")
  /\ timer' = timer
  /\ new \in Places' /\ new \notin Places
  /\ FrameAt(new)' = Activate("timer", n, TRUE)
  /\ Places' \ (D \cup {new}) = Places \ D /\ Others(Places \ D)
  /\ \A p \in Places : p \in D => Plain(FrameAt(p))
  /\ \A p \in Places' : p \in D /\ p # new => Plain(FrameAt(p))' /\ WalkOK(FrameAt(p))'

(* What an activation that begins preserves, whoever begins it.            *)
LEMMA EntersStep ==
  ASSUME IInv, NEW n, NEW c, NEW new, NEW D, Enters(n, c, new, D)
  PROVE  /\ FrameInv' /\ BitsInv' /\ ActivationInv' /\ TimerInv'
         /\ UntimedServed' /\ BitmapInv' /\ MarksServed'
         /\ \A d \in Cmds : Releasing(d)' = Releasing(d)
<1> DEFINE g == Activate("timer", n, TRUE)
<1>1. /\ n \in Nodes /\ n \notin ToSet(active) /\ ToSet(active') = ToSet(active) \cup {n}
      /\ c \in Cmds /\ VdevOf[c] \notin bitmap
      /\ cmd'[n] = c /\ \A m \in ToSet(active) : cmd'[m] = cmd[m]
      /\ bitmap' = bitmap \cup {VdevOf[c]} /\ timer' = timer
      /\ new \in Places' /\ new \notin Places /\ FrameAt(new)' = g
  BY DEF Enters
<1>2. \A m \in Nodes, b \in {"activation", "removal", "cancel"} :
        b \in in_use'[m] <=> b \in in_use[m] \/ (m = n /\ b = "activation")
  BY DEF Enters, AllMarks
<1>3. /\ \A x : IsActivating(g, x) <=> x = n
      /\ \A x : Serves(g, x) <=> x = n
      /\ \A x : ~IsLeaving(g, x) /\ ~IsReleasing(g, x)
      /\ Untimed(g) /\ WalkOK(g)
  BY DEF Activate, IsActivating, Serves, IsLeaving, IsReleasing, Untimed, WalkOK
<1>4. \A f, x : Plain(f) => ~IsActivating(f, x) /\ ~IsLeaving(f, x) /\ ~IsReleasing(f, x)
  BY DEF Plain, IsActivating, IsLeaving, IsReleasing
<1>5. \A f, x : Plain(f) /\ x \in Nodes => ~Serves(f, x)
  <2>1. \A x \in Nodes : x # None
    BY CmdAssumption
  <2> QED BY <2>1 DEF Plain, Serves
<1> HIDE DEF g
<1>6. \A p \in Places : Plain(FrameAt(p)) \/ (p \in Places' /\ FrameAt(p)' = FrameAt(p))
  BY DEF Enters, Others
<1>7. \A p \in Places' : p # new =>
        \/ Plain(FrameAt(p))' /\ WalkOK(FrameAt(p))'
        \/ p \in Places /\ FrameAt(p)' = FrameAt(p)
  BY DEF Enters, Others
<1>8. \A p \in Places : \A x :
        /\ IsActivating(FrameAt(p), x) => p \in Places' /\ IsActivating(FrameAt(p), x)'
        /\ IsLeaving(FrameAt(p), x) => p \in Places' /\ IsLeaving(FrameAt(p), x)'
        /\ IsReleasing(FrameAt(p), x) => p \in Places' /\ IsReleasing(FrameAt(p), x)'
  BY <1>4, <1>6
<1>9. \A p \in Places' : \A x : p # new =>
        /\ IsActivating(FrameAt(p), x)' =>
             p \in Places /\ IsActivating(FrameAt(p), x) /\ FrameAt(p)' = FrameAt(p)
        /\ IsLeaving(FrameAt(p), x)' => p \in Places /\ IsLeaving(FrameAt(p), x)
        /\ IsReleasing(FrameAt(p), x)' => p \in Places /\ IsReleasing(FrameAt(p), x)
  BY <1>4, <1>7
<1>10. /\ "activation" \notin in_use[n] /\ "removal" \notin in_use[n]
       /\ "cancel" \notin in_use[n] /\ timer[n] = "off"
       /\ \A p \in Places : ~IsActivating(FrameAt(p), n)
  BY <1>1 DEF IInv, BitsInv, TimerInv, ActivationInv
<1>11. FrameInv'
  BY <1>1, <1>3, <1>7 DEF IInv, FrameInv
<1>12. BitsInv'
  <2>1. ASSUME NEW m \in Nodes, in_use'[m] \cap {"activation", "removal", "cancel"} # {}
        PROVE  m \in ToSet(active')
    <3>1. m = n \/ in_use[m] \cap {"activation", "removal", "cancel"} # {}
      BY <1>2, <2>1
    <3> QED BY <1>1, <3>1 DEF IInv, BitsInv
  <2> QED BY <2>1 DEF BitsInv
<1>13. ActivationInv'
  <2>1. ASSUME NEW p \in Places', NEW m \in Nodes, IsActivating(FrameAt(p), m)'
        PROVE  /\ "activation" \in in_use'[m]
               /\ (p = new /\ m = n) \/ (p # new /\ m # n /\ p \in Places
                                          /\ IsActivating(FrameAt(p), m))
    <3>1. CASE p = new
      BY <1>1, <1>2, <1>3, <2>1, <3>1
    <3>2. CASE p # new
      <4>1. p \in Places /\ IsActivating(FrameAt(p), m)
        BY <1>9, <2>1, <3>2
      <4>2. "activation" \in in_use[m] /\ m # n
        BY <1>10, <4>1 DEF IInv, ActivationInv
      <4> QED BY <1>2, <3>2, <4>1, <4>2
    <3> QED BY <3>1, <3>2
  <2>2. \A p, q \in Places', m \in Nodes :
          IsActivating(FrameAt(p), m)' /\ IsActivating(FrameAt(q), m)' => p = q
    BY <2>1 DEF IInv, ActivationInv
  <2>3. ASSUME NEW m \in Nodes, "activation" \in in_use'[m]
        PROVE  \E p \in Places' : IsActivating(FrameAt(p), m)'
    <3>1. CASE m = n
      BY <1>1, <1>3, <3>1
    <3>2. CASE m # n
      <4>1. "activation" \in in_use[m]
        BY <1>2, <2>3, <3>2
      <4> QED BY <1>8, <4>1 DEF IInv, ActivationInv
    <3> QED BY <3>1, <3>2
  <2> QED BY <2>1, <2>2, <2>3 DEF ActivationInv
<1>14. TimerInv'
  <2>1. \A m \in Nodes : timer'[m] # "off" => m \in ToSet(active')
    BY <1>1 DEF IInv, TimerInv
  <2>2. \A p \in Places', m \in Nodes :
          IsActivating(FrameAt(p), m)' /\ timer'[m] = "off" => Untimed(FrameAt(p))'
    BY <1>1, <1>3, <1>9 DEF IInv, TimerInv
  <2> QED BY <2>1, <2>2 DEF TimerInv
<1>15. UntimedServed'
  <2>1. ASSUME NEW m \in ToSet(active'), timer'[m] = "off"
        PROVE  \E p \in Places' : /\ Serves(FrameAt(p), m)'
                                  /\ Untimed(FrameAt(p))' \/ FrameAt(p)'.pc = "dequeue"
    <3>1. CASE m = n
      BY <1>1, <1>3, <3>1
    <3>2. CASE m # n
      <4>1. m \in ToSet(active) /\ m \in Nodes /\ timer[m] = "off"
        BY <1>1, <2>1, <3>2, ListFacts
      <4>2. PICK p \in Places : /\ Serves(FrameAt(p), m)
                                /\ Untimed(FrameAt(p)) \/ FrameAt(p).pc = "dequeue"
        BY <4>1 DEF IInv, UntimedServed
      <4>3. p \in Places' /\ FrameAt(p)' = FrameAt(p)
        BY <1>5, <1>6, <4>1, <4>2
      <4> QED BY <4>2, <4>3
    <3> QED BY <3>1, <3>2
  <2> QED BY <2>1 DEF UntimedServed
<1>16. BitmapInv'
  <2>1. /\ NodeVdev(n)' = VdevOf[c] /\ VdevOf[c] \in Vdevs
        /\ \A m \in ToSet(active) : NodeVdev(m)' = NodeVdev(m) /\ NodeVdev(m) \in bitmap
    BY <1>1, CmdAssumption DEF NodeVdev, IInv, BitmapInv
  <2>2. /\ \A m \in ToSet(active') : NodeVdev(m)' \in bitmap'
        /\ \A l, m \in ToSet(active') : NodeVdev(l)' = NodeVdev(m)' => l = m
    BY <1>1, <2>1 DEF IInv, BitmapInv
  <2>3. ASSUME NEW p \in Places', NEW v \in Vdevs, IsLeaving(FrameAt(p), v)'
        PROVE  /\ v \in bitmap'
               /\ \A m \in ToSet(active') : NodeVdev(m)' # v
               /\ \A q \in Places' : IsLeaving(FrameAt(q), v)' => p = q
    <3>1. p # new /\ \A q \in Places' : IsLeaving(FrameAt(q), v)' => q # new
      BY <1>1, <1>3, <2>3
    <3>2. p \in Places /\ IsLeaving(FrameAt(p), v)
      BY <1>9, <2>3, <3>1
    <3>3. v \in bitmap /\ v # VdevOf[c]
      BY <1>1, <3>2 DEF IInv, BitmapInv
    <3>4. \A m \in ToSet(active') : NodeVdev(m)' # v
      BY <1>1, <2>1, <3>2, <3>3 DEF IInv, BitmapInv
    <3>5. \A q \in Places' : IsLeaving(FrameAt(q), v)' =>
            q \in Places /\ IsLeaving(FrameAt(q), v)
      BY <1>9, <3>1
    <3>6. \A q \in Places' : IsLeaving(FrameAt(q), v)' => p = q
      BY <3>2, <3>5 DEF IInv, BitmapInv
    <3> QED BY <1>1, <3>3, <3>4, <3>6
  <2>4. ASSUME NEW v \in bitmap'
        PROVE  \/ \E m \in ToSet(active') : NodeVdev(m)' = v
               \/ \E p \in Places' : IsLeaving(FrameAt(p), v)'
    BY <1>1, <1>8, <2>1 DEF IInv, BitmapInv
  <2> QED BY <2>2, <2>3, <2>4 DEF BitmapInv
<1>17. MarksServed'
  <2>1. ASSUME NEW m \in Nodes, in_use'[m] \cap {"removal", "cancel"} # {}
        PROVE  \E p \in Places' : Serves(FrameAt(p), m)'
    <3>1. in_use[m] \cap {"removal", "cancel"} # {}
      BY <1>2, <2>1
    <3>2. PICK p \in Places : Serves(FrameAt(p), m)
      BY <3>1 DEF IInv, MarksServed
    <3> QED BY <1>5, <1>6, <3>2
  <2> QED BY <2>1 DEF MarksServed
<1>18. ASSUME NEW d \in Cmds
       PROVE  Releasing(d)' = Releasing(d)
  BY <1>1, <1>3, <1>8, <1>9 DEF Releasing
<1> QED BY <1>11, <1>12, <1>13, <1>14, <1>15, <1>16, <1>17, <1>18

(* A pending command of a vdev without an active one is moved.             *)
LEMMA MoveOneStep ==
  ASSUME IInv, NEW t \in Threads, At(t, "move") \/ At(t, "move_on"),
         NEW n \in ToSet(pending), NodeVdev(n) \notin bitmap,
         NEW bits \in [Nodes -> SUBSET Bits],
         \A m \in Nodes, b \in {"activation", "removal", "cancel"} :
           b \in bits[m] <=> b \in in_use[m],
         NEW lookup \in BOOLEAN,
         MoveOne(t, n, bits, lookup), UNCHANGED <<timer, timeouts, requests, owed, corrupt>>
  PROVE  IInv'
<1> DEFINE g == Activate("timer", n, TRUE)  h == MoveOn(lookup)
<1>1. /\ n \in Nodes /\ cmd[n] \in Cmds /\ n \notin ToSet(active)
      /\ NodeVdev(n) = VdevOf[cmd[n]]
  BY ListFacts DEF IInv, NodesConserved, NodeVdev
<1>2. g \in Frames /\ h \in Frames /\ Plain(h) /\ WalkOK(h)
  BY <1>1, FrameTypes DEF Plain, WalkOK, MoveOn
<1>3. StackOK /\ stack[t] # <<>> /\ Top(t) \in Frames /\ Top(t).pc \in {"move", "move_on"}
  BY AtFacts
<1>4. Continue(t, <<g, h>>)
  BY DEF MoveOne
<1> HIDE DEF g, h
<1>5. PICK top, new :
        top \in Places /\ StackOK' /\ FrameAt(top) = Top(t) /\ Pushes(top, new, g, h)
  BY <1>2, <1>3, <1>4, Continue2
<1>6. /\ pending' = RemoveFirst(pending, n)
      /\ active' = Insert(active, n, cmd[n])
      /\ bitmap' = bitmap \cup {VdevOf[cmd[n]]}
      /\ blocking_cmd_active' \in BOOLEAN
      /\ in_use' = [bits EXCEPT ![n] = @ \cup {"activation"}]
      /\ disabled' \in {disabled, disabled \cup {NodeVdev(n)}}
      /\ blocking_cmd_waiting' = WaitingLess(cmd[n])
      /\ UNCHANGED <<pool, cmd>>
  BY DEF MoveOne, Activated, IInv, TypeOK
<1>7. /\ pending' \in Seq(Nodes) /\ IsInjective(pending')
      /\ ToSet(pending') = ToSet(pending) \ {n}
  BY <1>6, RemoveFacts DEF IInv, TypeOK, NodesConserved
<1>8. /\ active' \in Seq(Nodes) /\ IsInjective(active')
      /\ ToSet(active') = ToSet(active) \cup {n}
  BY <1>1, <1>6, InsertFacts DEF IInv, TypeOK, NodesConserved
<1>9. /\ in_use' \in [Nodes -> SUBSET Bits]
      /\ \A m \in Nodes, b \in AllMarks :
           b \in in_use'[m] <=> b \in in_use[m] \/ (m = n /\ b = "activation")
  BY <1>1, <1>6 DEF Bits, AllMarks
<1>10. TypeOK'
  <2>1. blocking_cmd_waiting' \in 0 .. Width - 1
    BY <1>6, WaitingFacts
  <2>2. disabled' \in SUBSET Vdevs /\ bitmap' \in SUBSET Vdevs
    BY <1>1, <1>6, CmdAssumption DEF IInv, TypeOK
  <2> QED BY <1>5, <1>6, <1>7, <1>8, <1>9, <2>1, <2>2 DEF IInv, TypeOK, StackOK
<1>11. NodesConserved'
  BY <1>1, <1>6, <1>7, <1>8 DEF IInv, NodesConserved
<1>12. Enters(n, cmd[n], new, {top})
  <2>1. Plain(FrameAt(top))
    BY <1>3, <1>5 DEF Plain
  <2>2. /\ new \in Places' /\ new \notin Places /\ FrameAt(new)' = g
        /\ Places' \ ({top} \cup {new}) = Places \ {top} /\ Others(Places \ {top})
        /\ \A p \in Places' : p \in {top} /\ p # new =>
             Plain(FrameAt(p))' /\ WalkOK(FrameAt(p))'
    BY <1>2, <1>5 DEF Pushes
  <2> QED BY <1>1, <1>6, <1>8, <1>9, <2>1, <2>2 DEF Enters, g
<1>13. /\ FrameInv' /\ BitsInv' /\ ActivationInv' /\ TimerInv'
       /\ UntimedServed' /\ BitmapInv' /\ MarksServed'
       /\ \A d \in Cmds : Releasing(d)' = Releasing(d)
  BY <1>12, EntersStep
<1>14. ReleasedOnce'
  <2>1. ASSUME NEW d \in Cmds
        PROVE  Balanced(d)'
    <3>1. /\ Holding(pending, d)' \ {n} = Holding(pending, d) \ {n}
          /\ n \notin Holding(pending, d)' /\ (n \in Holding(pending, d) <=> d = cmd[n])
      BY <1>6, <1>7 DEF Holding
    <3>2. /\ Holding(active, d)' \ {n} = Holding(active, d) \ {n}
          /\ n \notin Holding(active, d) /\ (n \in Holding(active, d)' <=> d = cmd[n])
      BY <1>1, <1>6, <1>8 DEF Holding
    <3>3. Releasing(d)' = Releasing(d)
      BY <1>13
    <3>4. owed'[d] = owed[d] /\ owed[d] \in Int
      BY DEF IInv, TypeOK
    <3>5. /\ Unit(n \in Holding(active, d)) = 0 /\ Unit(n \in Holding(pending, d)') = 0
          /\ Unit(n \in Holding(pending, d)) = Unit(n \in Holding(active, d)')
          /\ \A x : Unit(x) \in Nat
      BY <3>1, <3>2 DEF Unit
    <3>6. owed'[d] + Unit(n \in Holding(pending, d)) + Unit(n \in Holding(active, d))
                   + Unit(top \in Releasing(d))
            = owed[d] + Unit(n \in Holding(pending, d)')
                   + Unit(n \in Holding(active, d)') + Unit(top \in Releasing(d)')
      BY <3>3, <3>4, <3>5
    <3>7. Releasing(d)' \ {top} = Releasing(d) \ {top}
      BY <3>3
    <3> QED BY <1>5, <1>7, <1>8, <3>1, <3>2, <3>4, <3>6, <3>7, Balance
  <2> QED BY <2>1 DEF ReleasedOnce, Balanced
<1> QED BY <1>10, <1>11, <1>13, <1>14 DEF IInv

(* Where the walk over the pending list stops: it passes only commands of  *)
(* vdevs that have an active one.                                          *)
LEMMA StopAtFacts ==
  ASSUME IInv, StopAt # 0
  PROVE  /\ StopAt \in 1 .. Len(pending) /\ pending[StopAt] \in ToSet(pending)
         /\ \/ cmd[pending[StopAt]] \in Blocking /\ AnyVdevActive
            \/ NodeVdev(pending[StopAt]) \notin bitmap
         /\ \A i \in 1 .. Len(pending) : i < StopAt => NodeVdev(pending[i]) \in bitmap
<1> DEFINE Stops(n) == \/ cmd[n] \in Blocking /\ AnyVdevActive
                       \/ NodeVdev(n) \notin bitmap
           I == {i \in 1 .. Len(pending) : Stops(pending[i])}
<1>1. StopAt = IF I # {} THEN Min(I) ELSE 0
  BY DEF StopAt, SelectInSeq
<1>2. pending \in Seq(Nodes) /\ DOMAIN pending = 1 .. Len(pending)
  BY DEF IInv, TypeOK
<1>3. I \in SUBSET Nat
  OBVIOUS
<1> HIDE DEF I
<1>4. StopAt \in I /\ \A y \in I : StopAt <= y
  BY <1>1, <1>3, MinFacts
<1>5. \A i \in 1 .. Len(pending) : i < StopAt => i \notin I
  BY <1>3, <1>4
<1> QED BY <1>2, <1>4, <1>5 DEF I, ToSet

(* A round of a move over the list of the pdev.                            *)
LEMMA MoveFromPdevStep ==
  ASSUME IInv, NEW t \in Threads, At(t, "move") \/ At(t, "move_on"), MoveFromPdev(t),
         UNCHANGED <<timer, timeouts, requests, owed, corrupt>>
  PROVE  IInv'
<1> DEFINE k == StopAt
<1>1. CASE k = 0 \/ (cmd[pending[k]] \in Blocking /\ AnyVdevActive)
  <2>1. MoveNone(t, MovementMarks(k, FALSE))
    BY <1>1 DEF MoveFromPdev
  <2> QED BY <2>1, MarksFacts, MoveNoneStep
<1>2. CASE ~(k = 0 \/ (cmd[pending[k]] \in Blocking /\ AnyVdevActive))
  <2>1. MoveOne(t, pending[k], MovementMarks(k, TRUE), FALSE)
    BY <1>2 DEF MoveFromPdev
  <2>2. pending[k] \in ToSet(pending) /\ NodeVdev(pending[k]) \notin bitmap
    BY <1>2, StopAtFacts
  <2> HIDE DEF k
  <2> QED BY <2>1, <2>2, MarksFacts, MoveOneStep
<1> QED BY <1>1, <1>2

(* The front of a vdev's list is a pending node of the vdev.               *)
LEMMA VdevFrontFacts ==
  ASSUME IInv, NEW v, VdevPending(v) # {}
  PROVE  VdevFront(v) \in ToSet(pending) /\ NodeVdev(VdevFront(v)) = v
<1>1. pending \in Seq(Nodes) /\ DOMAIN pending = 1 .. Len(pending)
  BY DEF IInv, TypeOK
<1>2. VdevPending(v) \in SUBSET Nat
  BY <1>1 DEF VdevPending
<1>3. Min(VdevPending(v)) \in VdevPending(v)
  BY <1>2, MinFacts
<1> QED BY <1>3 DEF VdevFront, VdevPending, ToSet

(* A move that looks at the list of one vdev.                              *)
LEMMA MoveFromVdevStep ==
  ASSUME IInv, NEW t \in Threads, At(t, "move") \/ At(t, "move_on"), NEW v,
         MoveFromVdev(t, v), UNCHANGED <<timer, timeouts, requests, owed, corrupt>>
  PROVE  IInv'
<1> DEFINE n == VdevFront(v)
<1>1. in_use \in [Nodes -> SUBSET Bits]
  BY DEF IInv, TypeOK
<1>2. CASE VdevPending(v) = {} \/ v \in bitmap \/ "movement" \in in_use[n]
  <2>1. MoveNone(t, in_use)
    BY <1>2 DEF MoveFromVdev
  <2> QED BY <1>1, <2>1, MoveNoneStep
<1>3. CASE ~(VdevPending(v) = {} \/ v \in bitmap \/ "movement" \in in_use[n])
  <2>1. MoveOne(t, n, in_use, TRUE)
    BY <1>3 DEF MoveFromVdev
  <2>2. n \in ToSet(pending) /\ NodeVdev(n) \notin bitmap
    BY <1>3, VdevFrontFacts
  <2> HIDE DEF n
  <2> QED BY <1>1, <2>1, <2>2, MoveOneStep
<1> QED BY <1>2, <1>3

(* move_non_scan_pending_to_active, its first round and the next.          *)
LEMMA MoveStep ==
  ASSUME IInv, NEW t \in Threads, MovePendingToActive(t) \/ MoveAgain(t)
  PROVE  IInv'
<1>1. in_use \in [Nodes -> SUBSET Bits]
  BY DEF IInv, TypeOK
<1>2. CASE MovePendingToActive(t)
  BY <1>2, MoveFromVdevStep, MoveFromPdevStep DEF MovePendingToActive
<1>3. CASE MoveAgain(t)
  BY <1>1, <1>3, MoveNoneStep, MoveFromPdevStep DEF MoveAgain
<1> QED BY <1>2, <1>3

---------------------------------------------------------------------------
(* A request gets a node of the pool.                                      *)
LEMMA RequestAcceptedStep ==
  ASSUME IInv, NEW t \in Threads, NEW c \in Cmds, RequestAccepted(t, c)
  PROVE  IInv'
<1>1. PICK n \in pool :
        /\ pool' = pool \ {n}
        /\ cmd' = [cmd EXCEPT ![n] = c]
        /\ \/ /\ IsActiveCmdAllowed(c)
              /\ Activated(n, c)
              /\ in_use' = [in_use EXCEPT ![n] = @ \cup {"activation"}]
              /\ Call(t, <<Activate("timer", n, TRUE)>>)
              /\ UNCHANGED pending
           \/ /\ ~IsActiveCmdAllowed(c)
              /\ pending' = Insert(pending, n, c)
              /\ UNCHANGED <<active, bitmap, blocking_cmd_active, in_use, stack>>
  BY DEF RequestAccepted
<1>2. /\ requests' = [requests EXCEPT ![c] = @ + 1]
      /\ owed' = [owed EXCEPT ![c] = @ + 1]
      /\ blocking_cmd_waiting' = WaitingAfterCheck(c)
      /\ disabled' \in {disabled, disabled \cup {VdevOf[c]}}
      /\ UNCHANGED <<timer, timeouts, corrupt>>
      /\ Idle(t)
  BY DEF RequestAccepted, Asked
<1>3. /\ n \in Nodes /\ n \notin ToSet(active) /\ n \notin ToSet(pending)
      /\ VdevOf[c] \in Vdevs /\ c # None
  BY CmdAssumption DEF IInv, TypeOK, NodesConserved
<1>4. /\ cmd' \in [Nodes -> Cmds \cup {None}] /\ cmd'[n] = c
      /\ \A m \in Nodes : m # n => cmd'[m] = cmd[m]
  BY <1>1, <1>3 DEF IInv, TypeOK
<1>5. /\ owed' \in [Cmds -> Nat] /\ \A d \in Cmds : owed'[d] = owed[d] + Unit(d = c)
      /\ requests' \in [Cmds -> Nat]
      /\ \A d \in Cmds : owed[d] \in Nat
  BY <1>2 DEF IInv, TypeOK, Unit
<1>6. disabled' \in SUBSET Vdevs /\ blocking_cmd_waiting' \in 0 .. Width - 1
  BY <1>2, <1>3, WaitingFacts DEF IInv, TypeOK
<1>7. CASE /\ IsActiveCmdAllowed(c)
           /\ Activated(n, c)
           /\ in_use' = [in_use EXCEPT ![n] = @ \cup {"activation"}]
           /\ Call(t, <<Activate("timer", n, TRUE)>>)
           /\ UNCHANGED pending
  <2> DEFINE g == Activate("timer", n, TRUE)
  <2>1. PICK new : StackOK' /\ Begins(new, g)
    <3>1. StackOK /\ stack[t] = <<>> /\ g \in Frames /\ Call(t, <<g>>)
      BY <1>2, <1>3, <1>7, FrameTypes DEF Idle, IInv, TypeOK, StackOK
    <3> QED BY <3>1, Call1
  <2>2. /\ active' = Insert(active, n, c)
        /\ bitmap' = bitmap \cup {VdevOf[c]}
        /\ blocking_cmd_active' \in BOOLEAN
    BY <1>7 DEF Activated, IInv, TypeOK
  <2>3. VdevOf[c] \notin bitmap
    BY <1>7 DEF IsActiveCmdAllowed, AnyVdevActive
  <2>4. /\ active' \in Seq(Nodes) /\ IsInjective(active')
        /\ ToSet(active') = ToSet(active) \cup {n}
    BY <1>3, <2>2, InsertFacts DEF IInv, TypeOK, NodesConserved
  <2>5. /\ in_use' \in [Nodes -> SUBSET Bits]
        /\ \A m \in Nodes, b \in AllMarks :
             b \in in_use'[m] <=> b \in in_use[m] \/ (m = n /\ b = "activation")
    <3>1. in_use \in [Nodes -> SUBSET Bits]
      BY DEF IInv, TypeOK
    <3> QED BY <1>3, <1>7, <3>1 DEF Bits, AllMarks
  <2>6. TypeOK'
    <3>1. bitmap' \in SUBSET Vdevs /\ pool' \in SUBSET Nodes
      BY <1>1, <1>3, <2>2 DEF IInv, TypeOK
    <3> QED BY <1>2, <1>4, <1>5, <1>6, <1>7, <2>1, <2>2, <2>4, <2>5, <3>1
            DEF IInv, TypeOK, StackOK
  <2>7. NodesConserved'
    <3>1. \A m \in Nodes : m \in pool' <=> cmd'[m] = None
      BY <1>1, <1>3, <1>4 DEF IInv, NodesConserved
    <3> QED BY <1>1, <1>3, <1>7, <2>4, <3>1 DEF IInv, NodesConserved
  <2>8. Enters(n, c, new, {})
    <3>1. \A m \in ToSet(active) : cmd'[m] = cmd[m]
      BY <1>3, <1>4, ListFacts
    <3> QED BY <1>2, <1>3, <1>4, <2>1, <2>2, <2>3, <2>4, <2>5, <3>1 DEF Enters, Begins
  <2>9. /\ FrameInv' /\ BitsInv' /\ ActivationInv' /\ TimerInv'
        /\ UntimedServed' /\ BitmapInv' /\ MarksServed'
        /\ \A d \in Cmds : Releasing(d)' = Releasing(d)
    BY <2>8, EntersStep
  <2>10. ASSUME NEW d \in Cmds
         PROVE  Balanced(d)'
    <3>1. /\ Holding(pending, d)' = Holding(pending, d) /\ n \notin Holding(pending, d)
      BY <1>3, <1>4, <1>7, ListFacts DEF Holding
    <3>2. /\ Holding(active, d)' \ {n} = Holding(active, d) \ {n}
          /\ n \notin Holding(active, d) /\ (n \in Holding(active, d)' <=> d = c)
      BY <1>3, <1>4, <2>4, ListFacts DEF Holding
    <3>3. Releasing(d)' = Releasing(d)
      BY <2>9
    <3>4. /\ Unit(n \in Holding(active, d)) = 0 /\ Unit(n \in Holding(pending, d)) = 0
          /\ Unit(n \in Holding(pending, d)') = 0
          /\ Unit(n \in Holding(active, d)') = Unit(d = c)
          /\ \A x : Unit(x) \in Nat
      BY <3>1, <3>2 DEF Unit
    <3>5. /\ owed'[d] + Unit(n \in Holding(pending, d)) + Unit(n \in Holding(active, d))
                      + Unit(new \in Releasing(d))
               = owed[d] + Unit(n \in Holding(pending, d)')
                      + Unit(n \in Holding(active, d)') + Unit(new \in Releasing(d)')
          /\ owed'[d] \in Int
      BY <1>5, <3>3, <3>4
    <3>6. /\ Releasing(d)' \ {new} = Releasing(d) \ {new}
          /\ Holding(pending, d)' \ {n} = Holding(pending, d) \ {n}
          /\ pending' \in Seq(Nodes)
      BY <2>6, <3>1, <3>3 DEF TypeOK
    <3> QED BY <2>1, <2>4, <3>2, <3>5, <3>6, Balance
  <2> QED BY <2>6, <2>7, <2>9, <2>10 DEF IInv, ReleasedOnce, Balanced
<1>8. CASE /\ pending' = Insert(pending, n, c)
           /\ UNCHANGED <<active, bitmap, blocking_cmd_active, in_use, stack>>
  <2>1. /\ pending' \in Seq(Nodes) /\ IsInjective(pending')
        /\ ToSet(pending') = ToSet(pending) \cup {n}
    BY <1>3, <1>8, InsertFacts DEF IInv, TypeOK, NodesConserved
  <2>2. /\ (StackOK' <=> StackOK) /\ Places' = Places
        /\ \A p \in Places : FrameAt(p)' = FrameAt(p)
    BY <1>8, SameStack DEF Others
  <2>3. TypeOK'
    <3>1. pool' \in SUBSET Nodes
      BY <1>1 DEF IInv, TypeOK
    <3> QED BY <1>2, <1>4, <1>5, <1>6, <1>8, <2>1, <3>1 DEF IInv, TypeOK
  <2>4. NodesConserved'
    <3>1. \A m \in Nodes : m \in pool' <=> cmd'[m] = None
      BY <1>1, <1>3, <1>4 DEF IInv, NodesConserved
    <3> QED BY <1>1, <1>3, <1>8, <2>1, <3>1 DEF IInv, NodesConserved
  <2>5. FrameInv' /\ BitsInv' /\ ActivationInv' /\ MarksServed'
    BY <1>8, <2>2 DEF IInv, FrameInv, BitsInv, ActivationInv, MarksServed
  <2>6. TimerInv' /\ UntimedServed'
    BY <1>2, <1>8, <2>2 DEF IInv, TimerInv, UntimedServed
  <2>7. BitmapInv'
    <3>1. \A m \in ToSet(active) : NodeVdev(m)' = NodeVdev(m)
      BY <1>3, <1>4, ListFacts DEF NodeVdev
    <3> QED BY <1>8, <2>2, <3>1 DEF IInv, BitmapInv
  <2>8. ASSUME NEW d \in Cmds
        PROVE  Balanced(d)'
    <3>1. /\ Holding(active, d)' = Holding(active, d) /\ n \notin Holding(active, d)
      BY <1>3, <1>4, <1>8, ListFacts DEF Holding
    <3>2. /\ Holding(pending, d)' \ {n} = Holding(pending, d) \ {n}
          /\ n \notin Holding(pending, d) /\ (n \in Holding(pending, d)' <=> d = c)
      BY <1>3, <1>4, <2>1, ListFacts DEF Holding
    <3>3. Releasing(d)' = Releasing(d)
      BY <2>2 DEF Releasing
    <3>4. /\ Unit(n \in Holding(active, d)) = 0 /\ Unit(n \in Holding(pending, d)) = 0
          /\ Unit(n \in Holding(active, d)') = 0
          /\ Unit(n \in Holding(pending, d)') = Unit(d = c)
          /\ \A x : Unit(x) \in Nat
      BY <3>1, <3>2 DEF Unit
    <3>5. /\ owed'[d] + Unit(n \in Holding(pending, d)) + Unit(n \in Holding(active, d))
                      + Unit(None \in Releasing(d))
               = owed[d] + Unit(n \in Holding(pending, d)')
                      + Unit(n \in Holding(active, d)') + Unit(None \in Releasing(d)')
          /\ owed'[d] \in Int
      BY <1>5, <3>3, <3>4
    <3>6. /\ Releasing(d)' \ {None} = Releasing(d) \ {None}
          /\ Holding(active, d)' \ {n} = Holding(active, d) \ {n}
          /\ active' \in Seq(Nodes) /\ StackOK'
      BY <2>3, <3>1, <3>3 DEF TypeOK, StackOK
    <3> QED BY <2>1, <3>2, <3>5, <3>6, Balance
  <2> QED BY <2>3, <2>4, <2>5, <2>6, <2>7, <2>8 DEF IInv, ReleasedOnce, Balanced
<1> QED BY <1>1, <1>7, <1>8

---------------------------------------------------------------------------
(* The nodes a walk may visit: the whole list if it starts at the front.   *)
LEMMA ToVisitFacts ==
  ASSUME IInv, NEW f, NEW cursor \in Nodes \cup {None}, NEW left \in Nat,
         cursor # None => cursor \in ToSet(Walked(f))
  PROVE  /\ ToVisit(f, cursor, left) \in Seq(Nodes)
         /\ Len(ToVisit(f, cursor, left)) <= left
         /\ ToSet(ToVisit(f, cursor, left)) \subseteq ToSet(Walked(f))
         /\ cursor = None /\ left = Len(Walked(f)) => ToVisit(f, cursor, left) = Walked(f)
<1> DEFINE w == Walked(f)
           I == {i \in 1 .. Len(w) : w[i] = cursor}
           from == IF cursor = None THEN 1 ELSE 1 + SelectInSeq(w, LAMBDA n : n = cursor)
           upto == from + left - 1
           hi == IF upto < Len(w) THEN upto ELSE Len(w)
<1>1. w \in Seq(Nodes)
  BY DEF IInv, TypeOK, Walked
<1>2. ToVisit(f, cursor, left) = SubSeq(w, from, hi)
  BY DEF ToVisit
<1> HIDE DEF w
<1>3. DOMAIN w = 1 .. Len(w) /\ Len(w) \in Nat
  BY <1>1
<1>4. from \in 1 .. Len(w) + 1
  <2>1. CASE cursor = None
    BY <1>3, <2>1
  <2>2. CASE cursor # None
    <3>1. I # {} /\ I \in SUBSET Nat
      BY <1>3, <2>2 DEF ToSet, w
    <3>2. SelectInSeq(w, LAMBDA n : n = cursor) = Min(I)
      BY <3>1 DEF SelectInSeq
    <3>3. Min(I) \in I
      <4> HIDE DEF I
      <4> QED BY <3>1, MinFacts
    <3>4. Min(I) \in 1 .. Len(w)
      BY <3>3
    <3> QED BY <1>3, <2>2, <3>2, <3>4
  <2> QED BY <2>1, <2>2
<1> DEFINE r == SubSeq(w, from, hi)
<1>5. cursor = None => from = 1
  OBVIOUS
<1>6. upto = from + left - 1 /\ hi = IF upto < Len(w) THEN upto ELSE Len(w)
  OBVIOUS
<1> HIDE DEF from, upto, hi
<1>7. hi \in Int /\ hi <= Len(w) /\ from \in Int /\ hi - from + 1 <= left
  <2>1. \A l \in Nat : \A i \in 1 .. l + 1 :
          /\ i \in Int /\ i + left - 1 \in Int /\ (i + left - 1) - i + 1 <= left
          /\ ~(i + left - 1 < l) => l - i + 1 <= left
    OBVIOUS
  <2>2. CASE upto < Len(w)
    BY <1>3, <1>4, <1>6, <2>1, <2>2
  <2>3. CASE ~(upto < Len(w))
    BY <1>3, <1>4, <1>6, <2>1, <2>3
  <2> QED BY <2>2, <2>3
<1>8. \A i \in from .. hi : i \in 1 .. Len(w) /\ w[i] \in Nodes
  BY <1>1, <1>3, <1>4, <1>7
<1>9. /\ r \in Seq(Nodes)
      /\ Len(r) = IF from <= hi THEN hi - from + 1 ELSE 0
      /\ \A i \in 1 .. hi - from + 1 : r[i] = w[from + i - 1]
  BY <1>7, <1>8, SubSeqProperties
<1>10. cursor = None /\ left = Len(w) => r = w
  <2>1. SUFFICES ASSUME cursor = None, left = Len(w)
                 PROVE  r = w
    OBVIOUS
  <2>2. \A l \in Nat : 1 + l - 1 = l
    OBVIOUS
  <2>3. from = 1 /\ upto = Len(w)
    BY <1>3, <1>5, <1>6, <2>1, <2>2
  <2>4. hi = Len(w)
    BY <1>6, <2>3
  <2> QED BY <1>1, <2>3, <2>4, SubSeqFull
<1> HIDE DEF r
<1>11. Len(r) <= left
  BY <1>7, <1>9
<1>12. ToSet(r) \subseteq ToSet(w)
  <2>1. ASSUME NEW i \in DOMAIN r
        PROVE  r[i] \in ToSet(w)
    <3>1. i \in 1 .. hi - from + 1
      BY <1>7, <1>9
    <3>2. from + i - 1 \in 1 .. Len(w)
      BY <1>3, <1>4, <1>7, <3>1
    <3> QED BY <1>3, <1>9, <3>1, <3>2 DEF ToSet
  <2> QED BY <2>1 DEF ToSet
<1> QED BY <1>2, <1>9, <1>10, <1>11, <1>12 DEF r, w

(* What a walk does: it marks the commands M that are being activated, and *)
(* it ends, or takes one other that matches off the list.                  *)
Marking(M) == [n \in Nodes |-> IF n \in M THEN in_use[n] \cup {"cancel"} ELSE in_use[n]]
WalkEnds(t, f, M) ==
  /\ in_use' = Marking(M)
  /\ Continue(t, <<Cancel("cancel_end", f.scope, None, None, None, 0)>>)
  /\ UNCHANGED <<lists, timer>>
WalkTakes(t, f, M, n) ==
  /\ cmd[n] \in Wanted(f) /\ ~MarkedOnly(f, n)
  /\ active' = IF OnActive(f) THEN RemoveFirst(active, n) ELSE active
  /\ pending' = IF OnActive(f) THEN pending ELSE RemoveFirst(pending, n)
  /\ in_use' = [Marking(M) EXCEPT ![n] = {}]
  /\ Freed(n)
  /\ \E cursor \in Nodes \cup {None}, left \in Nat :
       Continue(t, <<Cancel("cancelled", f.scope, None, cmd[n], cursor, left)>>)

(* A walk from the front that ends has marked every match, or has met an   *)
(* active one without a timer.                                             *)
LEMMA WalkFacts ==
  ASSUME IInv, NEW t \in Threads, NEW f, NEW cursor \in Nodes \cup {None},
         NEW left \in Nat, cursor # None => cursor \in ToSet(Walked(f)),
         Walk(t, f, cursor, left)
  PROVE  \E M \in SUBSET ToSet(Walked(f)) :
           /\ \A m \in M : MarkedOnly(f, m)
           /\ \/ /\ WalkEnds(t, f, M)
                 /\ cursor = None /\ left = Len(Walked(f)) =>
                      \/ \A m \in ToSet(Walked(f)) : cmd[m] \in Wanted(f) => m \in M
                      \/ \E m \in ToSet(Walked(f)) :
                           OnActive(f) /\ cmd[m] \in Wanted(f) /\ timer[m] = "off"
              \/ \E n \in ToSet(Walked(f)) \ M : WalkTakes(t, f, M, n)
<1> DEFINE visit == ToVisit(f, cursor, left)
           wanted == Wanted(f)
           Hit(n) == cmd[n] \in wanted /\ ~MarkedOnly(f, n)
           I == {i \in 1 .. Len(visit) : Hit(visit[i])}
           k == SelectInSeq(visit, LAMBDA n : cmd[n] \in wanted /\ ~MarkedOnly(f, n))
           seen == IF k = 0 THEN visit ELSE SubSeq(visit, 1, k - 1)
           M == {n \in ToSet(seen) : cmd[n] \in wanted}
           before == SelectLastInSeq(seen, LAMBDA n : cmd[n] \notin wanted)
           next == IF before = 0 THEN cursor ELSE seen[before]
<1>1. /\ visit \in Seq(Nodes) /\ Len(visit) <= left
      /\ ToSet(visit) \subseteq ToSet(Walked(f))
      /\ cursor = None /\ left = Len(Walked(f)) => visit = Walked(f)
  BY ToVisitFacts
<1>2. \/ /\ k = 0 \/ (OnActive(f) /\ timer[visit[k]] = "off")
         /\ WalkEnds(t, f, M)
      \/ /\ k # 0 /\ ~(OnActive(f) /\ timer[visit[k]] = "off")
         /\ active' = IF OnActive(f) THEN RemoveFirst(active, visit[k]) ELSE active
         /\ pending' = IF OnActive(f) THEN pending ELSE RemoveFirst(pending, visit[k])
         /\ in_use' = [Marking(M) EXCEPT ![visit[k]] = {}]
         /\ Freed(visit[k])
         /\ Continue(t, <<Cancel("cancelled", f.scope, None, cmd[visit[k]], next,
                                  left - k)>>)
  BY DEF Walk, WalkEnds, Marking
<1>3. k = IF I # {} THEN Min(I) ELSE 0
  BY DEF SelectInSeq
<1> HIDE DEF visit
<1>4. DOMAIN visit = 1 .. Len(visit) /\ Len(visit) \in Nat
  BY <1>1
<1>5. I \in SUBSET Nat
  OBVIOUS
<1>6. I # {} => k \in I /\ \A y \in I : k <= y
  <2> HIDE DEF I, k
  <2> QED BY <1>3, <1>5, MinFacts
<1>7. k # 0 => /\ k \in 1 .. Len(visit) /\ Hit(visit[k]) /\ visit[k] \in ToSet(Walked(f))
               /\ \A i \in 1 .. Len(visit) : i < k => ~Hit(visit[i])
  <2>1. k # 0 => k \in I /\ \A y \in I : k <= y
    BY <1>3, <1>6
  <2>2. k \in I => k \in 1 .. Len(visit) /\ Hit(visit[k])
    OBVIOUS
  <2>3. k \in I => visit[k] \in ToSet(Walked(f))
    BY <1>1, <1>4, <2>2 DEF ToSet
  <2>4. ASSUME k \in I, \A y \in I : k <= y, NEW i \in 1 .. Len(visit), i < k
        PROVE  ~Hit(visit[i])
    <3>1. i \notin I
      <4> HIDE DEF I, k
      <4> QED BY <1>5, <2>4
    <3> QED BY <3>1
  <2> HIDE DEF I, k, Hit
  <2> QED BY <2>1, <2>2, <2>3, <2>4
<1>8. k = 0 => \A i \in 1 .. Len(visit) : ~Hit(visit[i])
  <2>1. k = 0 => I = {}
    <3>1. 0 \notin I
      OBVIOUS
    <3> QED BY <1>6, <3>1
  <2> QED BY <2>1
<1> HIDE DEF k, I
<1>9. /\ seen \in Seq(Nodes)
      /\ \A x \in ToSet(seen) : \E i \in 1 .. Len(visit) : x = visit[i] /\ ~Hit(visit[i])
      /\ k = 0 => seen = visit
  <2>1. CASE k = 0
    BY <1>1, <1>4, <1>8, <2>1 DEF ToSet
  <2>2. CASE k # 0
    <3> DEFINE r == SubSeq(visit, 1, k - 1)
    <3>1. k \in 1 .. Len(visit) /\ k - 1 \in Int
      BY <1>7, <2>2
    <3>2. \A i \in 1 .. k - 1 : i \in 1 .. Len(visit) /\ visit[i] \in Nodes /\ i < k
      BY <1>1, <1>4, <3>1
    <3>3. /\ r \in Seq(Nodes) /\ Len(r) = IF 1 <= k - 1 THEN (k - 1) - 1 + 1 ELSE 0
          /\ \A i \in 1 .. (k - 1) - 1 + 1 : r[i] = visit[1 + i - 1]
      BY <3>1, <3>2, SubSeqProperties
    <3> HIDE DEF r
    <3>4. DOMAIN r = 1 .. k - 1
      BY <3>1, <3>3
    <3>5. \A i \in 1 .. k - 1 : i \in 1 .. (k - 1) - 1 + 1 /\ 1 + i - 1 = i
      BY <3>1
    <3>6. \A i \in 1 .. k - 1 : r[i] = visit[i]
      BY <3>3, <3>5
    <3>7. seen = r
      BY <2>2 DEF r
    <3>8. \A x \in ToSet(r) : \E i \in 1 .. k - 1 : x = visit[i]
      BY <3>4, <3>6 DEF ToSet
    <3> HIDE DEF Hit
    <3>9. \A i \in 1 .. k - 1 : i \in 1 .. Len(visit) /\ ~Hit(visit[i])
      BY <1>7, <2>2, <3>2
    <3> QED BY <2>2, <3>3, <3>7, <3>8, <3>9
  <2> QED BY <2>1, <2>2
<1>10. M \in SUBSET ToSet(Walked(f)) /\ \A m \in M : MarkedOnly(f, m)
  <2>1. \A i \in 1 .. Len(visit) : visit[i] \in ToSet(Walked(f))
    BY <1>1, <1>4 DEF ToSet
  <2> HIDE DEF seen
  <2> QED BY <1>9, <2>1
<1>11. next \in Nodes \cup {None}
  <2> DEFINE J == {i \in 1 .. Len(seen) : cmd[seen[i]] \notin wanted}
  <2>1. before = IF J # {} THEN Max(J) ELSE 0
    BY DEF SelectLastInSeq
  <2> HIDE DEF seen
  <2>2. Len(seen) \in Nat /\ J \in SUBSET (1 .. Len(seen))
        /\ \A i \in 1 .. Len(seen) : seen[i] \in Nodes
    BY <1>9
  <2>3. J # {} => Max(J) \in 1 .. Len(seen)
    <3> HIDE DEF J
    <3> QED BY <2>2, MaxFacts
  <2> HIDE DEF before, J
  <2>4. before # 0 => seen[before] \in Nodes
    BY <2>1, <2>2, <2>3
  <2> QED BY <2>4
<1>12. CASE WalkEnds(t, f, M) /\ k = 0
  <2>1. ASSUME cursor = None, left = Len(Walked(f)),
               NEW m \in ToSet(Walked(f)), cmd[m] \in Wanted(f)
        PROVE  m \in M
    <3>1. seen = Walked(f)
      BY <1>1, <1>9, <1>12, <2>1
    <3> HIDE DEF seen
    <3> QED BY <2>1, <3>1
  <2> HIDE DEF M
  <2> QED BY <1>10, <1>12, <2>1
<1>13. CASE WalkEnds(t, f, M) /\ k # 0 /\ OnActive(f) /\ timer[visit[k]] = "off"
  <2>1. cmd[visit[k]] \in Wanted(f) /\ visit[k] \in ToSet(Walked(f))
    BY <1>7, <1>13
  <2> HIDE DEF M
  <2> QED BY <1>10, <1>13, <2>1
<1>14. CASE /\ k # 0
            /\ active' = IF OnActive(f) THEN RemoveFirst(active, visit[k]) ELSE active
            /\ pending' = IF OnActive(f) THEN pending ELSE RemoveFirst(pending, visit[k])
            /\ in_use' = [Marking(M) EXCEPT ![visit[k]] = {}]
            /\ Freed(visit[k])
            /\ Continue(t, <<Cancel("cancelled", f.scope, None, cmd[visit[k]], next,
                                     left - k)>>)
  <2>1. /\ visit[k] \in ToSet(Walked(f)) /\ cmd[visit[k]] \in Wanted(f)
        /\ ~MarkedOnly(f, visit[k])
    BY <1>7, <1>14
  <2>2. left - k \in Nat
    <3>1. k \in 1 .. Len(visit)
      BY <1>7, <1>14
    <3> QED BY <1>1, <1>4, <3>1
  <2> HIDE DEF M, next
  <2>3. visit[k] \notin M
    BY <1>10, <2>1
  <2>4. WalkTakes(t, f, M, visit[k])
    BY <1>11, <1>14, <2>1, <2>2 DEF WalkTakes
  <2> QED BY <1>10, <2>1, <2>3, <2>4
<1> QED BY <1>2, <1>12, <1>13, <1>14

(* A step of a cancel: the frame f it begins with is done with its         *)
(* command, if it had one.                                                 *)
Concludes(f) ==
  /\ owed' \in [Cmds -> Nat]
  /\ \A d \in Cmds : owed'[d] = owed[d] - Unit(IsReleasing(f, d))
  /\ bitmap' = {v \in bitmap : ~IsLeaving(f, v)}

(* The cancel goes over to g or, if g is not there, ends.                  *)
Leads(top, g) ==
  /\ \A p \in Places : p # top => p \in Places' /\ FrameAt(p)' = FrameAt(p)
  /\ \A p \in Places' : p # top => p \in Places /\ FrameAt(p)' = FrameAt(p)
  /\ top \in Places' => FrameAt(top)' = g

(* The walk is over, and the node the frame f was to serve is served by    *)
(* others or has no marks.                                                 *)
LEMMA WalkEndsStep ==
  ASSUME IInv, TypeOK', NEW top \in Places, NEW f, NEW g, FrameAt(top) = f,
         f.pc \in {"cancel", "cancelled"},
         g.pc = "cancel_end", WalkOK(g), Leads(top, g),
         NEW M \in SUBSET ToSet(active), \A m \in M : "activation" \in in_use[m],
         in_use' = Marking(M), UNCHANGED <<lists, timer>>, Concludes(f),
         f.pc = "cancel" /\ f.node \in ToSet(active) =>
           f.node \in M \/ timer[f.node] = "off"
  PROVE  IInv'
<1> USE DEF lists
<1>1. /\ \A p \in Places : p # top => p \in Places' /\ FrameAt(p)' = FrameAt(p)
      /\ \A p \in Places' : p # top => p \in Places /\ FrameAt(p)' = FrameAt(p)
      /\ top \in Places' => FrameAt(top)' = g
  BY DEF Leads
<1>2. \A x : /\ ~IsActivating(f, x) /\ ~IsActivating(g, x) /\ ~IsLeaving(g, x)
             /\ ~IsReleasing(g, x)
             /\ Serves(f, x) => f.pc = "cancel" /\ f.node = x
  BY DEF IsActivating, IsLeaving, IsReleasing, Serves
<1>3. ~Untimed(f) /\ f.pc # "dequeue"
  BY DEF Untimed
<1>4. \A p \in Places : \A x : IsActivating(FrameAt(p), x) =>
        p # top /\ p \in Places' /\ FrameAt(p)' = FrameAt(p) /\ Serves(FrameAt(p), x)
  BY <1>1, <1>2 DEF IsActivating, Serves
<1>5. \A p \in Places' : \A x :
        (\/ IsActivating(FrameAt(p), x)' \/ IsLeaving(FrameAt(p), x)'
         \/ IsReleasing(FrameAt(p), x)')
          => p # top /\ p \in Places /\ FrameAt(p)' = FrameAt(p)
  BY <1>1, <1>2
<1>6. \A m \in Nodes : /\ "activation" \in in_use'[m] <=> "activation" \in in_use[m]
                       /\ "removal" \in in_use'[m] <=> "removal" \in in_use[m]
                       /\ "cancel" \in in_use'[m] <=> "cancel" \in in_use[m] \/ m \in M
  BY DEF Marking
<1>7. NodesConserved'
  BY DEF IInv, NodesConserved
<1>8. FrameInv'
  BY <1>1 DEF IInv, FrameInv
<1>9. BitsInv'
  <2>1. ASSUME NEW m \in Nodes, in_use'[m] \cap {"activation", "removal", "cancel"} # {}
        PROVE  m \in ToSet(active)
    <3>1. m \in M \/ in_use[m] \cap {"activation", "removal", "cancel"} # {}
      BY <1>6, <2>1
    <3> QED BY <3>1 DEF IInv, BitsInv
  <2> QED BY <2>1 DEF BitsInv
<1>10. ActivationInv'
  <2>1. ASSUME NEW p \in Places', NEW m \in Nodes, IsActivating(FrameAt(p), m)'
        PROVE  p \in Places /\ IsActivating(FrameAt(p), m)
    BY <1>5, <2>1
  <2> QED BY <1>4, <1>6, <2>1 DEF IInv, ActivationInv
<1>11. TimerInv'
  <2>1. ASSUME NEW p \in Places', NEW m \in Nodes,
               IsActivating(FrameAt(p), m)', timer'[m] = "off"
        PROVE  Untimed(FrameAt(p))'
    <3>1. p \in Places /\ FrameAt(p)' = FrameAt(p)
      BY <1>5, <2>1
    <3> QED BY <2>1, <3>1 DEF IInv, TimerInv
  <2> QED BY <2>1 DEF IInv, TimerInv
<1>12. UntimedServed'
  BY <1>1, <1>3 DEF IInv, UntimedServed
<1>13. BitmapInv'
  <2>1. bitmap' = {v \in bitmap : ~IsLeaving(f, v)} /\ bitmap \subseteq Vdevs
    BY DEF Concludes, IInv, TypeOK
  <2>2. \A m \in ToSet(active) : NodeVdev(m)' = NodeVdev(m) /\ NodeVdev(m) \in Vdevs
    BY ListFacts DEF NodeVdev
  <2>3. \A m \in ToSet(active) : NodeVdev(m) \in bitmap'
    BY <2>1, <2>2 DEF IInv, BitmapInv
  <2>4. ASSUME NEW p \in Places', NEW v \in Vdevs, IsLeaving(FrameAt(p), v)'
        PROVE  /\ v \in bitmap'
               /\ \A m \in ToSet(active) : NodeVdev(m)' # v
               /\ \A q \in Places' : IsLeaving(FrameAt(q), v)' => p = q
    <3>1. p \in Places /\ p # top /\ IsLeaving(FrameAt(p), v)
      BY <1>5, <2>4
    <3>2. \A q \in Places' : IsLeaving(FrameAt(q), v)' =>
            q \in Places /\ IsLeaving(FrameAt(q), v)
      BY <1>5
    <3>3. ~IsLeaving(f, v)
      BY <3>1 DEF IInv, BitmapInv
    <3> QED BY <2>1, <2>2, <3>1, <3>2, <3>3 DEF IInv, BitmapInv
  <2>5. ASSUME NEW v \in bitmap'
        PROVE  \/ \E m \in ToSet(active) : NodeVdev(m)' = v
               \/ \E p \in Places' : IsLeaving(FrameAt(p), v)'
    <3>1. v \in bitmap /\ ~IsLeaving(f, v)
      BY <2>1
    <3> QED BY <1>1, <2>2, <3>1 DEF IInv, BitmapInv
  <2>6. \A l, m \in ToSet(active) : NodeVdev(l)' = NodeVdev(m)' => l = m
    BY <2>2 DEF IInv, BitmapInv
  <2> QED BY <2>2, <2>3, <2>4, <2>5, <2>6 DEF BitmapInv
<1>14. MarksServed'
  <2>1. ASSUME NEW m \in Nodes, in_use'[m] \cap {"removal", "cancel"} # {}
        PROVE  \E p \in Places' : Serves(FrameAt(p), m)'
    <3>1. CASE m \in M
      BY <1>4, <3>1 DEF IInv, ActivationInv
    <3>2. CASE m \notin M
      <4>1. in_use[m] \cap {"removal", "cancel"} # {}
        BY <1>6, <2>1, <3>2
      <4>2. m \in ToSet(active)
        BY <4>1 DEF IInv, BitsInv
      <4>3. PICK p \in Places : Serves(FrameAt(p), m)
        BY <4>1 DEF IInv, MarksServed
      <4>4. CASE p # top
        BY <1>1, <4>3, <4>4
      <4>5. CASE p = top
        <5>1. timer[m] = "off"
          BY <1>2, <3>2, <4>2, <4>3, <4>5
        <5>2. PICK q \in Places : /\ Serves(FrameAt(q), m)
                                  /\ Untimed(FrameAt(q)) \/ FrameAt(q).pc = "dequeue"
          BY <4>2, <5>1 DEF IInv, UntimedServed
        <5> QED BY <1>1, <1>3, <5>2
      <4> QED BY <4>4, <4>5
    <3> QED BY <3>1, <3>2
  <2> QED BY <2>1 DEF MarksServed
<1>15. ReleasedOnce'
  <2>1. ASSUME NEW d \in Cmds
        PROVE  Balanced(d)'
    <3>1. /\ Holding(pending, d)' = Holding(pending, d)
          /\ Holding(active, d)' = Holding(active, d)
      BY DEF Holding
    <3>2. /\ Releasing(d)' \ {top} = Releasing(d) \ {top}
          /\ top \notin Releasing(d)' /\ (top \in Releasing(d) <=> IsReleasing(f, d))
      BY <1>1, <1>2 DEF Releasing
    <3>3. /\ owed'[d] \in Int /\ owed[d] \in Int
          /\ owed'[d] = owed[d] - Unit(IsReleasing(f, d))
      BY DEF Concludes, IInv, TypeOK
    <3>4. /\ Unit(top \in Releasing(d)') = 0
          /\ Unit(top \in Releasing(d)) = Unit(IsReleasing(f, d))
          /\ \A x : Unit(x) \in Nat
      BY <3>2 DEF Unit
    <3>5. owed'[d] + Unit(None \in Holding(pending, d)) + Unit(None \in Holding(active, d))
                   + Unit(top \in Releasing(d))
            = owed[d] + Unit(None \in Holding(pending, d)')
                   + Unit(None \in Holding(active, d)') + Unit(top \in Releasing(d)')
      BY <3>1, <3>3, <3>4
    <3>6. /\ Holding(pending, d)' \ {None} = Holding(pending, d) \ {None}
          /\ Holding(active, d)' \ {None} = Holding(active, d) \ {None}
          /\ pending' \in Seq(Nodes) /\ active' \in Seq(Nodes) /\ StackOK'
      BY <3>1 DEF TypeOK, StackOK
    <3> QED BY <3>2, <3>3, <3>5, <3>6, Balance
  <2> QED BY <2>1 DEF ReleasedOnce, Balanced
<1> QED BY <1>7, <1>8, <1>9, <1>10, <1>11, <1>12, <1>13, <1>14, <1>15 DEF IInv

(* A command is cancelled: off its list, its callbacks about to run.       *)
Takes(f, g, M, n, onActive) ==
  /\ g.pc = "cancelled" /\ g.cmd = cmd[n] /\ WalkOK(g) /\ OnActive(g) = onActive
  /\ onActive => n \in ToSet(active) /\ "activation" \notin in_use[n]
                 /\ active' = RemoveFirst(active, n) /\ pending' = pending
  /\ ~onActive => n \in ToSet(pending) /\ M = {}
                 /\ pending' = RemoveFirst(pending, n) /\ active' = active
  /\ in_use' = [Marking(M) EXCEPT ![n] = {}] /\ Freed(n)
  /\ f.pc = "cancel" /\ f.node \in ToSet(active) => onActive /\ f.node = n

(* A cancelled command leaves its list.                                    *)
LEMMA WalkTakesStep ==
  ASSUME IInv, TypeOK', NEW top \in Places, NEW f, NEW g, FrameAt(top) = f,
         f.pc \in {"cancel", "cancelled"}, Leads(top, g), top \in Places',
         NEW M \in SUBSET ToSet(active), \A m \in M : "activation" \in in_use[m],
         NEW n, NEW onActive \in BOOLEAN, Takes(f, g, M, n, onActive), Concludes(f)
  PROVE  IInv'
<1>1. /\ \A p \in Places : p # top => p \in Places' /\ FrameAt(p)' = FrameAt(p)
      /\ \A p \in Places' : p # top => p \in Places /\ FrameAt(p)' = FrameAt(p)
      /\ FrameAt(top)' = g
  BY DEF Leads
<1>2. n \in Nodes /\ cmd[n] \in Cmds /\ n \notin pool
  BY ListFacts DEF Takes
<1>3. /\ \A x : ~IsActivating(f, x) /\ ~IsActivating(g, x)
      /\ \A x : Serves(f, x) => f.pc = "cancel" /\ f.node = x
      /\ \A v : IsLeaving(g, v) <=> onActive /\ v = NodeVdev(n)
      /\ \A c : IsReleasing(g, c) <=> c = cmd[n]
  BY DEF IsActivating, IsLeaving, IsReleasing, Serves, Takes, NodeVdev
<1>4. ~Untimed(f) /\ f.pc # "dequeue"
  BY DEF Untimed
<1>5. \A p \in Places : \A x : IsActivating(FrameAt(p), x) =>
        p # top /\ p \in Places' /\ FrameAt(p)' = FrameAt(p) /\ Serves(FrameAt(p), x)
  BY <1>1, <1>3 DEF IsActivating, Serves
<1>6. \A p \in Places' : \A x : IsActivating(FrameAt(p), x)' =>
        p # top /\ p \in Places /\ FrameAt(p)' = FrameAt(p)
  BY <1>1, <1>3
<1>7. /\ \A m \in Nodes : m # n =>
           /\ "activation" \in in_use'[m] <=> "activation" \in in_use[m]
           /\ "removal" \in in_use'[m] <=> "removal" \in in_use[m]
           /\ "cancel" \in in_use'[m] <=> "cancel" \in in_use[m] \/ m \in M
      /\ in_use'[n] = {}
  BY <1>2 DEF Marking, Takes
<1>8. "activation" \notin in_use[n]
  <2>1. CASE onActive
    BY <2>1 DEF Takes
  <2>2. CASE ~onActive
    <3>1. n \notin ToSet(active)
      BY <2>2 DEF Takes, IInv, NodesConserved
    <3> QED BY <1>2, <3>1 DEF IInv, BitsInv
  <2> QED BY <2>1, <2>2
<1>9. /\ onActive => /\ IsInjective(active') /\ ToSet(active') = ToSet(active) \ {n}
                     /\ pending' = pending
      /\ ~onActive => /\ IsInjective(pending') /\ ToSet(pending') = ToSet(pending) \ {n}
                      /\ active' = active
  <2>1. /\ active \in Seq(Nodes) /\ pending \in Seq(Nodes)
        /\ IsInjective(active) /\ IsInjective(pending)
    BY DEF IInv, TypeOK, NodesConserved
  <2> QED BY <2>1, RemoveFacts DEF Takes
<1>10. /\ ToSet(active') = ToSet(active) \ {n} /\ IsInjective(active')
       /\ ToSet(pending') = ToSet(pending) \ {n} /\ IsInjective(pending')
       /\ (n \in ToSet(active) <=> onActive) /\ (n \in ToSet(pending) <=> ~onActive)
  <2>1. CASE onActive
    <3>1. n \in ToSet(active) /\ n \notin ToSet(pending)
      BY <2>1 DEF Takes, IInv, NodesConserved
    <3> QED BY <1>9, <2>1, <3>1 DEF IInv, NodesConserved
  <2>2. CASE ~onActive
    <3>1. n \notin ToSet(active) /\ n \in ToSet(pending)
      BY <2>2 DEF Takes, IInv, NodesConserved
    <3> QED BY <1>9, <2>2, <3>1 DEF IInv, NodesConserved
  <2> QED BY <2>1, <2>2
<1>11. /\ pool' = pool \cup {n} /\ cmd'[n] = None /\ timer'[n] = "off"
       /\ \A m \in Nodes : m # n => cmd'[m] = cmd[m] /\ timer'[m] = timer[m]
  BY <1>2 DEF Takes, Freed, IInv, TypeOK
<1>12. NodesConserved'
  BY <1>2, <1>10, <1>11 DEF IInv, NodesConserved
<1>13. FrameInv'
  <2>1. WalkOK(g)
    BY DEF Takes
  <2> QED BY <1>1, <2>1 DEF IInv, FrameInv
<1>14. BitsInv'
  <2>1. ASSUME NEW m \in Nodes, in_use'[m] \cap {"activation", "removal", "cancel"} # {}
        PROVE  m \in ToSet(active')
    <3>1. m # n /\ (m \in M \/ in_use[m] \cap {"activation", "removal", "cancel"} # {})
      BY <1>7, <2>1
    <3> QED BY <1>10, <3>1 DEF IInv, BitsInv
  <2> QED BY <2>1 DEF BitsInv
<1>15. ActivationInv'
  <2>1. ASSUME NEW p \in Places', NEW m \in Nodes, IsActivating(FrameAt(p), m)'
        PROVE  p \in Places /\ IsActivating(FrameAt(p), m) /\ m # n
    <3>1. p \in Places /\ IsActivating(FrameAt(p), m)
      BY <1>6, <2>1
    <3> QED BY <1>8, <3>1 DEF IInv, ActivationInv
  <2> QED BY <1>5, <1>7, <2>1 DEF IInv, ActivationInv
<1>16. TimerInv'
  <2>1. ASSUME NEW p \in Places', NEW m \in Nodes,
               IsActivating(FrameAt(p), m)', timer'[m] = "off"
        PROVE  Untimed(FrameAt(p))'
    <3>1. p \in Places /\ FrameAt(p)' = FrameAt(p) /\ IsActivating(FrameAt(p), m)
      BY <1>6, <2>1
    <3>2. m # n
      BY <1>8, <3>1 DEF IInv, ActivationInv
    <3> QED BY <1>11, <2>1, <3>1, <3>2 DEF IInv, TimerInv
  <2>2. \A m \in Nodes : timer'[m] # "off" => m \in ToSet(active')
    BY <1>10, <1>11 DEF IInv, TimerInv
  <2> QED BY <2>1, <2>2 DEF TimerInv
<1>17. UntimedServed'
  <2>1. ASSUME NEW m \in ToSet(active'), timer'[m] = "off"
        PROVE  \E p \in Places' : /\ Serves(FrameAt(p), m)'
                                  /\ Untimed(FrameAt(p))' \/ FrameAt(p)'.pc = "dequeue"
    <3>1. m \in ToSet(active) /\ timer[m] = "off"
      BY <1>10, <1>11, <2>1, ListFacts
    <3>2. PICK p \in Places : /\ Serves(FrameAt(p), m)
                              /\ Untimed(FrameAt(p)) \/ FrameAt(p).pc = "dequeue"
      BY <3>1 DEF IInv, UntimedServed
    <3> QED BY <1>1, <1>4, <3>2
  <2> QED BY <2>1 DEF UntimedServed
<1>18. BitmapInv'
  <2>1. bitmap' = {v \in bitmap : ~IsLeaving(f, v)} /\ bitmap \subseteq Vdevs
    BY DEF Concludes, IInv, TypeOK
  <2>2. \A m \in ToSet(active') :
          /\ m \in ToSet(active) /\ m # n
          /\ NodeVdev(m)' = NodeVdev(m) /\ NodeVdev(m) \in Vdevs
    BY <1>10, <1>11, ListFacts DEF NodeVdev
  <2>3. \A m \in ToSet(active) : /\ NodeVdev(m) \in Vdevs /\ NodeVdev(m) \in bitmap'
                                 /\ \A p \in Places : ~IsLeaving(FrameAt(p), NodeVdev(m))
    BY <2>1, ListFacts DEF IInv, BitmapInv
  <2>4. \A p \in Places' : \A v : IsLeaving(FrameAt(p), v)' =>
          \/ p = top /\ onActive /\ v = NodeVdev(n)
          \/ p # top /\ p \in Places /\ IsLeaving(FrameAt(p), v)
    BY <1>1, <1>3
  <2>5. ASSUME NEW p \in Places', NEW v \in Vdevs, IsLeaving(FrameAt(p), v)'
        PROVE  /\ v \in bitmap'
               /\ \A m \in ToSet(active') : NodeVdev(m)' # v
               /\ \A q \in Places' : IsLeaving(FrameAt(q), v)' => p = q
    <3>1. CASE p = top /\ onActive /\ v = NodeVdev(n)
      <4>1. n \in ToSet(active)
        BY <1>10, <3>1
      <4>2. v \in bitmap' /\ \A q \in Places : ~IsLeaving(FrameAt(q), v)
        BY <2>3, <3>1, <4>1
      <4>3. \A m \in ToSet(active') : NodeVdev(m)' # v
        BY <2>2, <3>1, <4>1 DEF IInv, BitmapInv
      <4> QED BY <2>4, <3>1, <4>2, <4>3
    <3>2. CASE p # top /\ p \in Places /\ IsLeaving(FrameAt(p), v)
      <4>1. v \in bitmap /\ ~IsLeaving(f, v)
        BY <3>2 DEF IInv, BitmapInv
      <4>2. \A m \in ToSet(active) : NodeVdev(m) # v
        BY <3>2 DEF IInv, BitmapInv
      <4>3. \A q \in Places' : IsLeaving(FrameAt(q), v)' =>
              q \in Places /\ IsLeaving(FrameAt(q), v)
        BY <1>10, <2>4, <4>2
      <4>4. \A q \in Places' : IsLeaving(FrameAt(q), v)' => p = q
        BY <3>2, <4>3 DEF IInv, BitmapInv
      <4> QED BY <2>1, <2>2, <4>1, <4>2, <4>4
    <3> QED BY <2>4, <2>5, <3>1, <3>2
  <2>6. ASSUME NEW v \in bitmap'
        PROVE  \/ \E m \in ToSet(active') : NodeVdev(m)' = v
               \/ \E p \in Places' : IsLeaving(FrameAt(p), v)'
    <3>1. v \in bitmap /\ ~IsLeaving(f, v)
      BY <2>1
    <3>2. CASE \E p \in Places : IsLeaving(FrameAt(p), v)
      BY <1>1, <3>1, <3>2
    <3>3. ASSUME NEW m \in ToSet(active), NodeVdev(m) = v
          PROVE  \/ \E l \in ToSet(active') : NodeVdev(l)' = v
                 \/ \E p \in Places' : IsLeaving(FrameAt(p), v)'
      <4>1. CASE m = n
        BY <1>1, <1>3, <1>10, <3>3, <4>1
      <4>2. CASE m # n
        BY <1>10, <2>2, <3>3, <4>2
      <4> QED BY <4>1, <4>2
    <3> QED BY <3>1, <3>2, <3>3 DEF IInv, BitmapInv
  <2>7. \A l, m \in ToSet(active') : NodeVdev(l)' = NodeVdev(m)' => l = m
    BY <2>2 DEF IInv, BitmapInv
  <2> QED BY <2>2, <2>3, <2>5, <2>6, <2>7 DEF BitmapInv
<1>19. MarksServed'
  <2>1. ASSUME NEW m \in Nodes, in_use'[m] \cap {"removal", "cancel"} # {}
        PROVE  \E p \in Places' : Serves(FrameAt(p), m)'
    <3>1. m # n
      BY <1>7, <2>1
    <3>2. CASE m \in M
      BY <1>5, <3>2 DEF IInv, ActivationInv
    <3>3. CASE m \notin M
      <4>1. in_use[m] \cap {"removal", "cancel"} # {}
        BY <1>7, <2>1, <3>1, <3>3
      <4>2. m \in ToSet(active)
        BY <4>1 DEF IInv, BitsInv
      <4>3. PICK p \in Places : Serves(FrameAt(p), m)
        BY <4>1 DEF IInv, MarksServed
      <4>4. p # top
        BY <1>3, <3>1, <4>2, <4>3 DEF Takes
      <4> QED BY <1>1, <4>3, <4>4
    <3> QED BY <3>2, <3>3
  <2> QED BY <2>1 DEF MarksServed
<1>20. ReleasedOnce'
  <2>1. ASSUME NEW d \in Cmds
        PROVE  Balanced(d)'
    <3>1. /\ Holding(pending, d)' \ {n} = Holding(pending, d) \ {n}
          /\ Holding(active, d)' \ {n} = Holding(active, d) \ {n}
          /\ n \notin Holding(pending, d)' /\ n \notin Holding(active, d)'
          /\ n \in Holding(active, d) <=> onActive /\ d = cmd[n]
          /\ n \in Holding(pending, d) <=> ~onActive /\ d = cmd[n]
      BY <1>10, <1>11, ListFacts DEF Holding
    <3>2. /\ Releasing(d)' \ {top} = Releasing(d) \ {top}
          /\ top \in Releasing(d)' <=> d = cmd[n]
          /\ top \in Releasing(d) <=> IsReleasing(f, d)
      BY <1>1, <1>3 DEF Releasing
    <3>3. /\ owed'[d] \in Int /\ owed[d] \in Int
          /\ owed'[d] = owed[d] - Unit(IsReleasing(f, d))
      BY DEF Concludes, IInv, TypeOK
    <3>4. /\ Unit(top \in Releasing(d)') = Unit(d = cmd[n])
          /\ Unit(top \in Releasing(d)) = Unit(IsReleasing(f, d))
          /\ Unit(n \in Holding(pending, d)') = 0 /\ Unit(n \in Holding(active, d)') = 0
          /\ Unit(n \in Holding(pending, d)) + Unit(n \in Holding(active, d))
               = Unit(d = cmd[n])
          /\ \A x : Unit(x) \in Nat
      BY <3>1, <3>2 DEF Unit
    <3>5. owed'[d] + Unit(n \in Holding(pending, d)) + Unit(n \in Holding(active, d))
                   + Unit(top \in Releasing(d))
            = owed[d] + Unit(n \in Holding(pending, d)')
                   + Unit(n \in Holding(active, d)') + Unit(top \in Releasing(d)')
      BY <3>3, <3>4
    <3>6. pending' \in Seq(Nodes) /\ active' \in Seq(Nodes) /\ StackOK'
      BY DEF TypeOK, StackOK
    <3> QED BY <3>1, <3>2, <3>3, <3>5, <3>6, Balance
  <2> QED BY <2>1 DEF ReleasedOnce, Balanced
<1> QED BY <1>12, <1>13, <1>14, <1>15, <1>16, <1>17, <1>18, <1>19, <1>20 DEF IInv

(* The frame of a cancel.                                                  *)
LEMMA CancelFrameFacts ==
  ASSUME IInv, NEW t \in Threads, At(t, "cancel") \/ At(t, "cancelled"),
         NEW f, f = Top(t)
  PROVE  /\ f \in Frames /\ f.pc \in {"cancel", "cancelled"}
         /\ f.scope \in Scope /\ f.scope.queues # <<>> /\ OnActive(f) \in BOOLEAN
         /\ f.cursor \in Nodes \cup {None} /\ f.left \in Nat
         /\ f.pc = "cancelled" => f.cmd \in Cmds
         /\ f.pc = "cancel" /\ f.node \in ToSet(active) =>
              OnActive(f) /\ Wanted(f) = {cmd[f.node]}
<1>1. /\ StackOK /\ stack[t] # <<>> /\ f \in Frames /\ f.pc \in {"cancel", "cancelled"}
  BY AtFacts
<1>2. /\ f.scope \in Scope /\ f.cursor \in Nodes \cup {None} /\ f.left \in Nat
  BY <1>1, FrameKinds
<1>3. WalkOK(f)
  BY <1>1, TopFacts DEF IInv, FrameInv
<1>4. f.scope.queues # <<>> /\ (f.pc = "cancelled" => f.cmd \in Cmds)
  BY <1>1, <1>3 DEF WalkOK
<1>5. OnActive(f) \in BOOLEAN
  <2>1. f.scope.queues \in Seq(BOOLEAN)
    BY <1>2 DEF Scope
  <2> QED BY <1>4, <2>1, HeadTailProperties DEF OnActive
<1>6. ASSUME f.pc = "cancel", f.node \in ToSet(active)
      PROVE  OnActive(f) /\ Wanted(f) = {cmd[f.node]}
  <2>1. f.node # None /\ cmd[f.node] # None
    BY <1>6, ListFacts, CmdAssumption
  <2>2. f.scope.queues = <<TRUE>>
    BY <1>3, <1>6, <2>1 DEF WalkOK
  <2>3. Head(<<TRUE>>) = TRUE
    <3>1. \A x : Head(<<x>>) = x
      OBVIOUS
    <3> QED BY <3>1, Zenon
  <2> QED BY <2>1, <2>2, <2>3 DEF OnActive, Wanted
<1> QED BY <1>1, <1>2, <1>4, <1>5, <1>6

(* A walk sets known bits only.                                            *)
LEMMA MarkingFacts ==
  ASSUME IInv, NEW M
  PROVE  /\ Marking(M) \in [Nodes -> SUBSET Bits]
         /\ \A n \in Nodes : [Marking(M) EXCEPT ![n] = {}] \in [Nodes -> SUBSET Bits]
<1>1. in_use \in [Nodes -> SUBSET Bits]
  BY DEF IInv, TypeOK
<1>2. \A n \in Nodes :
        (IF n \in M THEN in_use[n] \cup {"cancel"} ELSE in_use[n]) \in SUBSET Bits
  BY <1>1 DEF Bits
<1>3. Marking(M) \in [Nodes -> SUBSET Bits]
  BY <1>2 DEF Marking
<1> QED BY <1>3

(* What a step of a cancel does besides walking.                           *)
Beside ==
  /\ blocking_cmd_active' \in BOOLEAN /\ blocking_cmd_waiting' \in 0 .. Width - 1
  /\ corrupt' \in BOOLEAN /\ UNCHANGED <<disabled, timeouts, requests>>

(* A walk that begins at the front or goes on after a callback.            *)
LEMMA WalkStep ==
  ASSUME IInv, NEW t \in Threads, At(t, "cancel") \/ At(t, "cancelled"),
         NEW f, f = Top(t), NEW cursor \in Nodes \cup {None}, NEW left \in Nat,
         cursor # None => cursor \in ToSet(Walked(f)),
         f.pc = "cancel" => cursor = None /\ left = Len(Walked(f)),
         Walk(t, f, cursor, left), Concludes(f), Beside
  PROVE  IInv'
<1>1. /\ f \in Frames /\ f.pc \in {"cancel", "cancelled"}
      /\ f.scope \in Scope /\ f.scope.queues # <<>> /\ OnActive(f) \in BOOLEAN
      /\ f.pc = "cancel" /\ f.node \in ToSet(active) =>
           OnActive(f) /\ Wanted(f) = {cmd[f.node]}
  BY CancelFrameFacts
<1>2. PICK M \in SUBSET ToSet(Walked(f)) :
        /\ \A m \in M : MarkedOnly(f, m)
        /\ \/ /\ WalkEnds(t, f, M)
              /\ cursor = None /\ left = Len(Walked(f)) =>
                   \/ \A m \in ToSet(Walked(f)) : cmd[m] \in Wanted(f) => m \in M
                   \/ \E m \in ToSet(Walked(f)) :
                        OnActive(f) /\ cmd[m] \in Wanted(f) /\ timer[m] = "off"
           \/ \E n \in ToSet(Walked(f)) \ M : WalkTakes(t, f, M, n)
  BY WalkFacts
<1>3. /\ M \in SUBSET ToSet(active) /\ \A m \in M : "activation" \in in_use[m]
      /\ ~OnActive(f) => M = {}
  BY <1>2 DEF MarkedOnly, Walked
<1>4. /\ bitmap' \in SUBSET Vdevs /\ owed' \in [Cmds -> Nat]
      /\ blocking_cmd_active' \in BOOLEAN /\ blocking_cmd_waiting' \in 0 .. Width - 1
      /\ corrupt' \in BOOLEAN /\ UNCHANGED <<disabled, timeouts, requests>>
  BY DEF Concludes, Beside, IInv, TypeOK
<1>5. \A m, n \in ToSet(active) : cmd[m] = cmd[n] => m = n
  BY DEF IInv, BitmapInv, NodeVdev
<1>6. StackOK /\ stack[t] # <<>>
  BY AtFacts
<1>7. CASE /\ WalkEnds(t, f, M)
           /\ cursor = None /\ left = Len(Walked(f)) =>
                \/ \A m \in ToSet(Walked(f)) : cmd[m] \in Wanted(f) => m \in M
                \/ \E m \in ToSet(Walked(f)) :
                     OnActive(f) /\ cmd[m] \in Wanted(f) /\ timer[m] = "off"
  <2> DEFINE g == Cancel("cancel_end", f.scope, None, None, None, 0)
  <2>1. g \in Frames /\ g.pc = "cancel_end" /\ WalkOK(g)
    BY <1>1, FrameTypes DEF Cancel, WalkOK
  <2>2. Continue(t, <<g>>) /\ in_use' = Marking(M) /\ UNCHANGED <<lists, timer>>
    BY <1>7 DEF WalkEnds
  <2> HIDE DEF g
  <2>3. PICK top \in Places : StackOK' /\ FrameAt(top) = f /\ Swaps(top, g)
    BY <1>6, <2>1, <2>2, Continue1
  <2>4. Leads(top, g)
    BY <2>3 DEF Leads, Swaps, Others
  <2>5. TypeOK'
    BY <1>4, <2>2, <2>3, MarkingFacts DEF IInv, TypeOK, StackOK, lists
  <2>6. f.pc = "cancel" /\ f.node \in ToSet(active) => f.node \in M \/ timer[f.node] = "off"
    BY <1>1, <1>5, <1>7 DEF Walked
  <2> QED BY <1>1, <1>3, <2>1, <2>2, <2>3, <2>4, <2>5, <2>6, WalkEndsStep
<1>8. ASSUME NEW n \in ToSet(Walked(f)) \ M, WalkTakes(t, f, M, n)
      PROVE  IInv'
  <2>1. PICK cur \in Nodes \cup {None}, l \in Nat :
          Continue(t, <<Cancel("cancelled", f.scope, None, cmd[n], cur, l)>>)
    BY <1>8 DEF WalkTakes
  <2> DEFINE g == Cancel("cancelled", f.scope, None, cmd[n], cur, l)
  <2>2. n \in Nodes /\ cmd[n] \in Cmds
    BY ListFacts DEF Walked
  <2>3. /\ g \in Frames /\ g.pc = "cancelled" /\ g.cmd = cmd[n] /\ WalkOK(g)
        /\ OnActive(g) = OnActive(f)
    BY <1>1, <2>2, FrameTypes DEF Cancel, WalkOK, OnActive
  <2> HIDE DEF g
  <2>4. PICK top \in Places : StackOK' /\ FrameAt(top) = f /\ Swaps(top, g)
    <3>1. Continue(t, <<g>>)
      BY <2>1 DEF g
    <3> QED BY <1>6, <2>3, <3>1, Continue1
  <2>5. Leads(top, g) /\ top \in Places'
    BY <2>4 DEF Leads, Swaps, Others
  <2>6. /\ OnActive(f) => n \in ToSet(active) /\ "activation" \notin in_use[n]
                          /\ active' = RemoveFirst(active, n) /\ pending' = pending
        /\ ~OnActive(f) => n \in ToSet(pending)
                          /\ pending' = RemoveFirst(pending, n) /\ active' = active
        /\ in_use' = [Marking(M) EXCEPT ![n] = {}] /\ Freed(n)
        /\ cmd[n] \in Wanted(f)
    BY <1>8 DEF WalkTakes, MarkedOnly, Walked
  <2>7. f.pc = "cancel" /\ f.node \in ToSet(active) => OnActive(f) /\ f.node = n
    BY <1>1, <1>5, <2>6
  <2>8. Takes(f, g, M, n, OnActive(f))
    BY <1>3, <2>3, <2>6, <2>7 DEF Takes
  <2>9. TypeOK'
    <3>1. active' \in Seq(Nodes) /\ pending' \in Seq(Nodes)
      <4>1. /\ active \in Seq(Nodes) /\ pending \in Seq(Nodes)
            /\ IsInjective(active) /\ IsInjective(pending)
        BY DEF IInv, TypeOK, NodesConserved
      <4> QED BY <2>6, <4>1, RemoveFacts
    <3>2. /\ pool' \in SUBSET Nodes /\ cmd' \in [Nodes -> Cmds \cup {None}]
          /\ timer' \in [Nodes -> {"off", "on", "expired"}]
      BY <2>2, <2>6 DEF Freed, IInv, TypeOK
    <3>3. in_use' \in [Nodes -> SUBSET Bits]
      BY <2>2, <2>6, MarkingFacts
    <3> QED BY <1>4, <2>4, <3>1, <3>2, <3>3 DEF IInv, TypeOK, StackOK
  <2> QED BY <1>1, <1>3, <2>4, <2>5, <2>8, <2>9, WalkTakesStep
<1> QED BY <1>2, <1>7, <1>8

(* A cancel begins to walk its first queue.                                *)
LEMMA CancelStartStep ==
  ASSUME IInv, NEW t \in Threads, CancelStart(t)
  PROVE  IInv'
<1>1. PICK f : f = Top(t)
  OBVIOUS
<1>2. At(t, "cancel") /\ f.pc = "cancel"
  BY <1>1, AtFacts DEF CancelStart
<1>3. /\ Walk(t, f, None, Len(Walked(f)))
      /\ UNCHANGED <<marks, disabled, timeouts, requests, owed, corrupt>>
  BY <1>1 DEF CancelStart
<1>4. Len(Walked(f)) \in Nat
  BY DEF Walked, IInv, TypeOK
<1>5. Concludes(f)
  <2>1. \A x : ~IsReleasing(f, x) /\ ~IsLeaving(f, x)
    BY <1>2 DEF IsReleasing, IsLeaving
  <2>2. \A x : Unit(IsReleasing(f, x)) = 0
    BY <2>1 DEF Unit
  <2>3. owed \in [Cmds -> Nat] /\ \A d \in Cmds : owed[d] = owed[d] - 0
    BY DEF IInv, TypeOK
  <2> QED BY <1>3, <2>1, <2>2, <2>3 DEF Concludes, marks
<1>6. Beside
  BY <1>3 DEF Beside, marks, IInv, TypeOK
<1> QED BY <1>1, <1>2, <1>3, <1>4, <1>5, <1>6, WalkStep

(* A cancel concludes its command and walks on, ends, or has lost its      *)
(* place.                                                                  *)
LEMMA CancelResumeStep ==
  ASSUME IInv, NEW t \in Threads, CancelResume(t)
  PROVE  IInv'
<1>1. PICK f : f = Top(t)
  OBVIOUS
<1> DEFINE ends == ~f.scope.all \/ f.left = 0 \/ Walked(f) = <<>>
           stale == f.cursor # None /\ f.cursor \notin ToSet(Walked(f))
           g == Cancel("cancel_end", f.scope, None, None, None, 0)
<1>2. At(t, "cancelled") /\ f.pc = "cancelled" /\ StackOK /\ stack[t] # <<>>
  BY <1>1, AtFacts DEF CancelResume
<1>3. /\ f.scope \in Scope /\ f.scope.queues # <<>> /\ OnActive(f) \in BOOLEAN
      /\ f.cursor \in Nodes \cup {None} /\ f.left \in Nat /\ f.cmd \in Cmds
  BY <1>1, <1>2, CancelFrameFacts
<1>4. /\ bitmap' = IF OnActive(f) THEN bitmap \ {VdevOf[f.cmd]} ELSE bitmap
      /\ blocking_cmd_active' =
           (blocking_cmd_active /\ ~(OnActive(f) /\ f.cmd \in Blocking))
      /\ blocking_cmd_waiting' =
           IF OnActive(f) THEN blocking_cmd_waiting ELSE WaitingLess(f.cmd)
      /\ owed' = [owed EXCEPT ![f.cmd] = @ - 1]
      /\ UNCHANGED <<disabled, timeouts, requests>>
  BY <1>1 DEF CancelResume
<1>5. \/ /\ Continue(t, <<g>>) /\ UNCHANGED <<lists, in_use, timer, corrupt>>
      \/ /\ ~stale /\ Walk(t, f, f.cursor, f.left) /\ UNCHANGED corrupt
      \/ /\ corrupt' = TRUE /\ Continue(t, <<>>) /\ UNCHANGED <<lists, in_use, timer>>
  BY <1>1 DEF CancelResume
<1>6. g \in Frames /\ g.pc = "cancel_end" /\ WalkOK(g)
  BY <1>3, FrameTypes DEF Cancel, WalkOK
<1> HIDE DEF g
<1>7. Concludes(f)
  <2>1. \A d \in Cmds : IsReleasing(f, d) <=> d = f.cmd
    BY <1>2 DEF IsReleasing
  <2>2. owed[f.cmd] \in Nat \ {0}
    <3>1. TopAt(t) \in Places /\ FrameAt(TopAt(t)) = f
      BY <1>1, <1>2, TopFacts
    <3> QED BY <1>3, <2>1, <3>1, OwedPositive
  <2>3. owed \in [Cmds -> Nat] /\ owed[f.cmd] - 1 \in Nat
    BY <2>2 DEF IInv, TypeOK
  <2>4. owed' \in [Cmds -> Nat] /\ \A d \in Cmds : owed'[d] = owed[d] - Unit(d = f.cmd)
    BY <1>3, <1>4, <2>3 DEF Unit
  <2>5. \A d \in Cmds : Unit(IsReleasing(f, d)) = Unit(d = f.cmd)
    BY <2>1 DEF Unit
  <2>6. bitmap' = {v \in bitmap : ~IsLeaving(f, v)}
    BY <1>2, <1>3, <1>4 DEF IsLeaving
  <2> QED BY <2>4, <2>5, <2>6 DEF Concludes
<1>8. /\ blocking_cmd_active' \in BOOLEAN /\ blocking_cmd_waiting' \in 0 .. Width - 1
      /\ bitmap' \in SUBSET Vdevs /\ owed' \in [Cmds -> Nat]
  <2>1. blocking_cmd_waiting' \in 0 .. Width - 1
    BY <1>4, WaitingFacts DEF IInv, TypeOK
  <2> QED BY <1>4, <1>7, <2>1 DEF Concludes, IInv, TypeOK
<1>9. CASE ~stale /\ Walk(t, f, f.cursor, f.left) /\ UNCHANGED corrupt
  <2>1. Beside
    BY <1>4, <1>8, <1>9 DEF Beside, IInv, TypeOK
  <2>2. f.cursor # None => f.cursor \in ToSet(Walked(f))
    BY <1>9
  <2> QED BY <1>1, <1>2, <1>3, <1>7, <1>9, <2>1, <2>2, WalkStep
<1>10. CASE /\ Continue(t, <<g>>) \/ Continue(t, <<>>)
            /\ UNCHANGED <<lists, in_use, timer>> /\ corrupt' \in BOOLEAN
  <2>1. PICK top \in Places : StackOK' /\ FrameAt(top) = f /\ (Swaps(top, g) \/ Pops(top))
    BY <1>1, <1>2, <1>6, <1>10, Continue0, Continue1
  <2>2. Leads(top, g)
    BY <2>1 DEF Leads, Swaps, Pops, Others
  <2>3. in_use' = Marking({})
    BY <1>10 DEF Marking, IInv, TypeOK
  <2>4. TypeOK'
    BY <1>4, <1>8, <1>10, <2>1 DEF IInv, TypeOK, StackOK, lists
  <2> QED BY <1>2, <1>6, <1>7, <1>10, <2>1, <2>2, <2>3, <2>4, WalkEndsStep
<1>11. corrupt \in BOOLEAN
  BY DEF IInv, TypeOK
<1> QED BY <1>5, <1>9, <1>10, <1>11

---------------------------------------------------------------------------
(* The invariant holds when the queue has been set up.                     *)
LEMMA InitIInv ==
  ASSUME Init
  PROVE  IInv
<1> USE DEF Init
<1>1. <<>> \in Seq(Nodes) /\ <<>> \in Seq(Cmds) /\ <<>> \in Seq(Frames)
  OBVIOUS
<1>2. ToSet(<<>>) = {} /\ IsInjective(<<>>)
  BY DEF ToSet, IsInjective
<1>3. Places = {}
  <2>1. \A t \in Threads : DOMAIN stack[t] = {}
    OBVIOUS
  <2> QED BY <2>1 DEF Places
<1>4. TypeOK
  <2>1. 0 \in 0 .. Width - 1
    BY DEF Width
  <2>2. /\ stack \in [Threads -> Seq(Frames)] /\ in_use \in [Nodes -> SUBSET Bits]
        /\ cmd \in [Nodes -> Cmds \cup {None}]
        /\ timer \in [Nodes -> {"off", "on", "expired"}]
        /\ requests \in [Cmds -> Nat] /\ owed \in [Cmds -> Nat]
    BY <1>1
  <2> QED BY <1>1, <2>1, <2>2 DEF TypeOK
<1>5. NodesConserved
  BY <1>2 DEF NodesConserved
<1>6. FrameInv /\ BitsInv /\ ActivationInv /\ TimerInv /\ UntimedServed
      /\ BitmapInv /\ MarksServed
  BY <1>2, <1>3
     DEF FrameInv, BitsInv, ActivationInv, TimerInv, UntimedServed, BitmapInv, MarksServed
<1>7. ReleasedOnce
  <2>1. \A c \in Cmds : Holding(pending, c) = {} /\ Holding(active, c) = {}
                        /\ Releasing(c) = {} /\ owed[c] = 0
    BY <1>2, <1>3 DEF Holding, Releasing
  <2>2. Cardinality({}) = 0 /\ 0 = 0 + 0 + 0
    BY FS_EmptySet
  <2> QED BY <2>1, <2>2 DEF ReleasedOnce
<1> QED BY <1>4, <1>5, <1>6, <1>7 DEF IInv

(* A step of something else changes nothing.                               *)
LEMMA StutterIInv ==
  ASSUME IInv, UNCHANGED vars
  PROVE  IInv'
<1>1. Quiet({}) /\ UNCHANGED <<lists, marks, in_use, disabled, timer, timeouts, stack,
                               requests, owed, corrupt>>
  BY SameStack DEF Quiet, vars
<1>2. TypeOK'
  BY <1>1 DEF IInv, TypeOK, lists, marks
<1>3. SameMarks(AllMarks) /\ SameTimers
  BY <1>1 DEF SameMarks, SameTimers
<1> QED BY <1>1, <1>2, <1>3, QuietStep DEF marks

(* Every step preserves the invariant.                                     *)
LEMMA NextIInv ==
  ASSUME IInv, [Next]_vars
  PROVE  IInv'
<1>1. ASSUME NEW t \in Threads, Step(t)
      PROVE  IInv'
  BY <1>1, StartTimerStep, ActivateCallbackStep, SettleStep, ActivateTailStep,
     DequeueCmdStep, ReleaseMemStep, MoveStep, CancelStartStep, CancelResumeStep,
     CancelEndStep DEF Step
<1>2. ASSUME NEW t \in Threads, Begin(t)
      PROVE  IInv'
  BY <1>2, RequestAcceptedStep, RequestRefusedStep, RemoveCmdStep, CancelRequestStep,
     CloseSessionStep DEF Begin
<1>3. ASSUME NEW n \in Nodes, TimerExpires(n) \/ TimeoutLost(n)
      PROVE  IInv'
  BY <1>3, TimerExpiresStep, TimeoutLostStep
<1>4. CASE HandleTimeout
  BY <1>4, HandleTimeoutStep
<1>5. ASSUME NEW c \in Rearmed, UpdateTimer(c)
      PROVE  IInv'
  BY <1>5, UpdateTimerStep
<1>6. CASE UNCHANGED vars
  BY <1>6, StutterIInv
<1> QED BY <1>1, <1>2, <1>3, <1>4, <1>5, <1>6 DEF Next

(* The inductive invariant holds of the pdev queue whatever the threads do: *)
(* requests, removals, cancels, moves and timeouts in any interleaving.     *)
THEOREM Invariance == Spec => []IInv
<1>1. Init => IInv
  BY InitIInv
<1>2. IInv /\ [Next]_vars => IInv'
  BY NextIInv
<1> QED BY <1>1, <1>2, PTL DEF Spec

(* The fields of the queue, the nodes and the frames keep their types; the *)
(* 16 bits of blocking_cmd_waiting wrap and what is owed is never negative.*)
THEOREM TypeCorrect == Spec => []TypeOK
<1>1. IInv => TypeOK
  BY DEF IInv
<1> QED BY <1>1, Invariance, PTL

(* No buffer of the command pool is ever lost or in two lists.             *)
THEOREM NodesAreConserved == Spec => []NodesConserved
<1>1. IInv => NodesConserved
  BY DEF IInv
<1> QED BY <1>1, Invariance, PTL

(* vdev_active_cmd_bitmap tells exactly which vdevs have a command that is *)
(* active or leaving, so a vdev's active list of one place suffices.       *)
THEOREM OneActivePerVdev == Spec => []RoomForActive
<1>1. IInv => RoomForActive
  <2> SUFFICES ASSUME IInv, NEW v \in Vdevs
               PROVE  Cardinality(ActiveOn(v)) + Cardinality(Leaving(v))
                        = IF v \in bitmap THEN 1 ELSE 0
    BY DEF RoomForActive
  <2>2. /\ Cardinality({}) = 0 /\ \A x : Cardinality({x}) = 1
    BY FS_EmptySet, FS_Singleton
  <2>3. CASE v \notin bitmap
    <3>1. ActiveOn(v) = {} /\ Leaving(v) = {}
      BY <2>3 DEF IInv, BitmapInv, ActiveOn, Leaving
    <3> QED BY <2>2, <2>3, <3>1
  <2>4. ASSUME NEW n \in ToSet(active), NodeVdev(n) = v
        PROVE  ActiveOn(v) = {n} /\ Leaving(v) = {} /\ v \in bitmap
    BY <2>4 DEF IInv, BitmapInv, ActiveOn, Leaving
  <2>5. ASSUME NEW p \in Places, IsLeaving(FrameAt(p), v)
        PROVE  ActiveOn(v) = {} /\ Leaving(v) = {p} /\ v \in bitmap
    BY <2>5 DEF IInv, BitmapInv, ActiveOn, Leaving
  <2>6. v \in bitmap => \/ \E n \in ToSet(active) : NodeVdev(n) = v
                        \/ \E p \in Places : IsLeaving(FrameAt(p), v)
    BY DEF IInv, BitmapInv
  <2>7. 0 + 1 = 1 /\ 1 + 0 = 1
    OBVIOUS
  <2>8. CASE \E n \in ToSet(active) : NodeVdev(n) = v
    <3>1. \E n : ActiveOn(v) = {n} /\ Leaving(v) = {} /\ v \in bitmap
      BY <2>4, <2>8
    <3> QED BY <2>2, <2>7, <3>1
  <2>9. CASE \E p \in Places : IsLeaving(FrameAt(p), v)
    <3>1. \E p : ActiveOn(v) = {} /\ Leaving(v) = {p} /\ v \in bitmap
      BY <2>5, <2>9
    <3> QED BY <2>2, <2>7, <3>1
  <2> QED BY <2>3, <2>6, <2>8, <2>9
<1> QED BY <1>1, Invariance, PTL

(* A node is not taken away from the thread that activates it, and no      *)
(* other thread activates it too.                                          *)
THEOREM ActivatorsHaveTheirNodes == Spec => []ActivatorHasNode
<1>1. IInv => ActivatorHasNode
  <2> SUFFICES ASSUME IInv, NEW n \in Nodes
               PROVE  IF "activation" \in in_use[n]
                      THEN n \in ToSet(active) /\ Cardinality(Activating(n)) = 1
                      ELSE Activating(n) = {}
    BY DEF ActivatorHasNode
  <2>2. CASE "activation" \in in_use[n]
    <3>1. n \in ToSet(active)
      BY <2>2 DEF IInv, BitsInv
    <3>2. PICK p \in Places : IsActivating(FrameAt(p), n)
      BY <2>2 DEF IInv, ActivationInv
    <3>3. Activating(n) = {p}
      BY <3>2 DEF IInv, ActivationInv, Activating
    <3> QED BY <2>2, <3>1, <3>3, FS_Singleton
  <2>3. CASE "activation" \notin in_use[n]
    BY <2>3 DEF IInv, ActivationInv, Activating
  <2> QED BY <2>2, <2>3
<1> QED BY <1>1, Invariance, PTL

(* A removal or a cancel that met a command half activated is acted on by  *)
(* the thread that activates it.                                           *)
THEOREM MarksAreServed == Spec => []MarksServed
<1>1. IInv => MarksServed
  BY DEF IInv
<1> QED BY <1>1, Invariance, PTL

(* Every accepted request has its memory released once.                    *)
THEOREM ReleasesAreExact == Spec => []ReleasedOnce
<1>1. IInv => ReleasedOnce
  BY DEF IInv
<1> QED BY <1>1, Invariance, PTL

---------------------------------------------------------------------------
(* What may become active, and which steps let nothing become active.      *)
NewActive == ToSet(active') \ ToSet(active)
InTurn(n) ==
  LET v == VdevOf[cmd'[n]] IN VdevPending(v) = {} \/ VdevFront(v) = n

(* A request is activated at once only if none of its vdev waits.          *)
LEMMA RequestInTurn ==
  ASSUME IInv, NEW t \in Threads, NEW c \in Cmds, RequestAccepted(t, c),
         NEW n \in NewActive
  PROVE  InTurn(n)
<1>1. PICK m \in pool :
        /\ cmd' = [cmd EXCEPT ![m] = c]
        /\ \/ IsActiveCmdAllowed(c) /\ active' = Insert(active, m, c)
           \/ UNCHANGED active
  BY DEF RequestAccepted, Activated
<1>2. /\ m \in Nodes /\ m \notin ToSet(active)
      /\ active \in Seq(Nodes) /\ IsInjective(active) /\ cmd'[m] = c
  BY <1>1 DEF IInv, TypeOK, NodesConserved
<1>3. IsActiveCmdAllowed(c) /\ active' = Insert(active, m, c)
  BY <1>1 DEF NewActive
<1>4. ToSet(active') = ToSet(active) \cup {m}
  BY <1>2, <1>3, InsertFacts
<1>5. n = m
  BY <1>4 DEF NewActive
<1> QED BY <1>2, <1>3, <1>5 DEF InTurn, IsActiveCmdAllowed

(* A move of the front of a vdev's list.                                   *)
LEMMA MoveOneInTurn ==
  ASSUME IInv, NEW t, NEW m \in ToSet(pending), NEW bits, NEW lookup,
         MoveOne(t, m, bits, lookup), VdevFront(NodeVdev(m)) = m,
         NEW n \in NewActive
  PROVE  InTurn(n)
<1>1. active' = Insert(active, m, cmd[m]) /\ cmd' = cmd
  BY DEF MoveOne, Activated
<1>2. /\ m \in Nodes /\ m \notin ToSet(active)
      /\ active \in Seq(Nodes) /\ IsInjective(active)
  BY ListFacts DEF IInv, TypeOK, NodesConserved
<1>3. ToSet(active') = ToSet(active) \cup {m}
  BY <1>1, <1>2, InsertFacts
<1>4. n = m
  BY <1>3 DEF NewActive
<1> QED BY <1>1, <1>4 DEF InTurn, NodeVdev

(* A round of a move that moves nothing activates nothing.                 *)
LEMMA MoveNoneInTurn ==
  ASSUME NEW t, NEW bits, MoveNone(t, bits)
  PROVE  NewActive = {}
BY DEF MoveNone, NewActive, lists

(* The walk over the pdev's list passes only vdevs that are active, so     *)
(* where it stops is the front of its vdev's list.                         *)
LEMMA PdevInTurn ==
  ASSUME IInv, NEW t, MoveFromPdev(t), NEW n \in NewActive
  PROVE  InTurn(n)
<1> DEFINE k == StopAt  v == NodeVdev(pending[k])
<1>1. ~(k = 0 \/ (cmd[pending[k]] \in Blocking /\ AnyVdevActive))
  BY MoveNoneInTurn DEF MoveFromPdev
<1>2. MoveOne(t, pending[k], MovementMarks(k, TRUE), FALSE)
  BY <1>1 DEF MoveFromPdev
<1>3. /\ k \in 1 .. Len(pending) /\ pending[k] \in ToSet(pending) /\ v \notin bitmap
      /\ \A i \in 1 .. Len(pending) : i < k => NodeVdev(pending[i]) \in bitmap
  BY <1>1, StopAtFacts
<1>4. pending \in Seq(Nodes) /\ DOMAIN pending = 1 .. Len(pending)
  BY DEF IInv, TypeOK
<1> HIDE DEF k
<1>5. k \in VdevPending(v) /\ VdevPending(v) \in SUBSET Nat
  BY <1>3, <1>4 DEF VdevPending
<1>6. \A i \in VdevPending(v) : i \in 1 .. Len(pending) /\ ~(i < k)
  BY <1>3, <1>4 DEF VdevPending
<1>7. Min(VdevPending(v)) = k
  <2> DEFINE S == VdevPending(v)
  <2> HIDE DEF S, v
  <2>1. Min(S) \in S /\ \A y \in S : Min(S) <= y
    BY <1>5, MinFacts DEF S
  <2>2. Min(S) <= k /\ ~(Min(S) < k) /\ Min(S) \in Nat /\ k \in Nat
    BY <1>5, <1>6, <2>1 DEF S
  <2> QED BY <2>2 DEF S
<1>8. VdevFront(v) = pending[k]
  BY <1>7 DEF VdevFront
<1> QED BY <1>2, <1>3, <1>8, MoveOneInTurn

(* A move from a vdev's list takes its front.                              *)
LEMMA VdevInTurn ==
  ASSUME IInv, NEW t, NEW v, MoveFromVdev(t, v), NEW n \in NewActive
  PROVE  InTurn(n)
<1>1. VdevPending(v) # {} /\ MoveOne(t, VdevFront(v), in_use, TRUE)
  BY MoveNoneInTurn DEF MoveFromVdev
<1>2. VdevFront(v) \in ToSet(pending) /\ NodeVdev(VdevFront(v)) = v
  BY <1>1, VdevFrontFacts
<1> QED BY <1>1, <1>2, MoveOneInTurn

(* A cancel activates nothing.                                             *)
LEMMA WalkInTurn ==
  ASSUME IInv, NEW t \in Threads, CancelStart(t) \/ CancelResume(t)
  PROVE  NewActive = {}
<1>1. PICK f : f = Top(t)
  OBVIOUS
<1>2. At(t, "cancel") \/ At(t, "cancelled")
  BY DEF CancelStart, CancelResume
<1>3. \/ active' = active
      \/ \E cursor \in Nodes \cup {None}, left \in Nat :
           /\ cursor # None => cursor \in ToSet(Walked(f))
           /\ Walk(t, f, cursor, left)
  <2>1. Len(Walked(f)) \in Nat
    BY DEF Walked, IInv, TypeOK
  <2>2. f.cursor \in Nodes \cup {None} /\ f.left \in Nat
    BY <1>1, <1>2, CancelFrameFacts
  <2>3. CASE CancelStart(t)
    BY <1>1, <2>1, <2>3 DEF CancelStart
  <2>4. CASE CancelResume(t)
    <3>1. \/ active' = active
          \/ /\ ~(f.cursor # None /\ f.cursor \notin ToSet(Walked(f)))
             /\ Walk(t, f, f.cursor, f.left)
      BY <1>1, <2>4 DEF CancelResume, lists
    <3> QED BY <2>2, <3>1
  <2> QED BY <2>3, <2>4
<1>4. CASE active' = active
  BY <1>4 DEF NewActive
<1>5. ASSUME NEW cursor \in Nodes \cup {None}, NEW left \in Nat,
             cursor # None => cursor \in ToSet(Walked(f)), Walk(t, f, cursor, left)
      PROVE  NewActive = {}
  <2>1. \/ \E M : WalkEnds(t, f, M)
        \/ \E M : \E m \in ToSet(Walked(f)) : WalkTakes(t, f, M, m)
    BY <1>5, WalkFacts
  <2>2. \/ active' = active
        \/ \E m \in ToSet(active) : active' = RemoveFirst(active, m)
    BY <2>1 DEF WalkEnds, WalkTakes, Walked, lists
  <2>3. active \in Seq(Nodes) /\ IsInjective(active)
    BY DEF IInv, TypeOK, NodesConserved
  <2> QED BY <2>2, <2>3, RemoveFacts DEF NewActive
<1> QED BY <1>3, <1>4, <1>5

(* A dequeue activates nothing.                                            *)
LEMMA DequeueInTurn ==
  ASSUME IInv, NEW t \in Threads, DequeueCmd(t)
  PROVE  NewActive = {}
<1>1. \/ active' = active
      \/ \E m \in ToSet(active) : active' = RemoveFirst(active, m)
  BY DEF DequeueCmd, MarkForRemoval, RemoveActive, Holding, lists
<1>2. active \in Seq(Nodes) /\ IsInjective(active)
  BY DEF IInv, TypeOK, NodesConserved
<1> QED BY <1>1, <1>2, RemoveFacts DEF NewActive

(* Whatever becomes active does so in turn.                                *)
LEMMA NextInTurn ==
  ASSUME IInv, Next, NEW n \in NewActive
  PROVE  InTurn(n)
<1>1. CASE active' = active
  BY <1>1 DEF NewActive
<1>2. ASSUME NEW t \in Threads, Step(t)
      PROVE  InTurn(n)
  <2>1. CASE StartTimer(t) \/ ActivateCallback(t) \/ Settle(t) \/ ActivateTail(t)
             \/ ReleaseMem(t) \/ CancelEnd(t)
    BY <1>1, <2>1
       DEF StartTimer, ActivateCallback, Settle, ActivateTail, ReleaseMem, CancelEnd, lists
  <2>2. CASE DequeueCmd(t) \/ CancelStart(t) \/ CancelResume(t)
    BY <2>2, DequeueInTurn, WalkInTurn
  <2>3. CASE MovePendingToActive(t)
    BY <2>3, VdevInTurn, PdevInTurn DEF MovePendingToActive
  <2>4. CASE MoveAgain(t)
    BY <2>4, MoveNoneInTurn, PdevInTurn DEF MoveAgain
  <2> QED BY <1>2, <2>1, <2>2, <2>3, <2>4 DEF Step
<1>3. ASSUME NEW t \in Threads, Begin(t)
      PROVE  InTurn(n)
  <2>1. ASSUME NEW c \in Cmds, RequestAccepted(t, c)
        PROVE  InTurn(n)
    BY <2>1, RequestInTurn
  <2>2. CASE \/ \E c \in Cmds : RequestRefused(t, c) \/ RemoveCmd(t, c)
             \/ \E scope \in Scopes : CancelRequest(t, scope)
             \/ \E v \in Closing : CloseSession(t, v)
    <3>1. active' = active
      BY <2>2 DEF RequestRefused, RemoveCmd, CancelRequest, CloseSession, lists
    <3> QED BY <1>1, <3>1
  <2> QED BY <1>3, <2>1, <2>2 DEF Begin
<1>4. CASE \/ \E m \in Nodes : TimerExpires(m) \/ TimeoutLost(m)
           \/ HandleTimeout
           \/ \E c \in Rearmed : UpdateTimer(c)
  <2>1. active' = active
    BY <1>4 DEF TimerExpires, TimeoutLost, HandleTimeout, UpdateTimer, lists
  <2> QED BY <1>1, <2>1
<1> QED BY <1>2, <1>3, <1>4 DEF Next

(* A command never becomes active before one of its vdev that waits, at    *)
(* once or by a move, whatever ran while the lock was free.                *)
THEOREM ActivationIsInOrder == Spec => InOrder
<1>1. IInv /\ [Next]_vars =>
        [\A n \in ToSet(active') \ ToSet(active) :
           LET v == VdevOf[cmd'[n]]
           IN VdevPending(v) = {} \/ VdevFront(v) = n]_vars
  BY NextInTurn DEF NewActive, InTurn
<1> QED BY <1>1, Invariance, PTL DEF Spec, InOrder
=============================================================================
