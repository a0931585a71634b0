------------------------- MODULE EndpointOrder_proofs -------------------------
(***************************************************************************)
(* What the operators of EndpointOrder return, for any list of addresses:  *)
(* the facts that the proofs about their users cite.                       *)
(***************************************************************************)
EXTENDS EndpointOrder, FiniteSetTheorems, SequenceTheorems, TLAPS

(* A one-to-one numbering of a finite set by 1..n, n its size, is onto. *)
LEMMA NumberingIsOnto ==
  ASSUME NEW S, IsFiniteSet(S), NEW f \in [S -> 1..Cardinality(S)],
         \A x, y \in S : f[x] = f[y] => x = y,
         NEW k \in 1..Cardinality(S)
  PROVE  \E x \in S : f[x] = k
  <1> SUFFICES ASSUME \A x \in S : f[x] # k
               PROVE  FALSE
    OBVIOUS
  <1> DEFINE n == Cardinality(S)
  <1> DEFINE T == (1..n) \ {k}
  <1>1. n \in Nat
    BY FS_CardinalityType
  <1>2. IsFiniteSet(1..n) /\ Cardinality(1..n) = n
    BY <1>1, FS_Interval
  <1>3. IsFiniteSet(T) /\ Cardinality(T) = n - 1
    BY <1>2, FS_RemoveElement
  <1>4. f \in [S -> T]
    OBVIOUS
  <1>5. Cardinality(T) < Cardinality(S)
    BY <1>1, <1>3
  <1> HIDE DEF T
  <1>6. \E x, y \in S : x # y /\ f[x] = f[y]
    BY <1>3, <1>4, <1>5, FS_PigeonHole
  <1> QED
    BY <1>6

(* Picked keeps the order: its k-th element is the one at index at[k] of   *)
(* s, and at runs through I, upwards.                                      *)
LEMMA PickedInOrder ==
  ASSUME NEW S, NEW s \in Seq(S), NEW I \in SUBSET DOMAIN s
  PROVE  \E at \in [1..Cardinality(I) -> I] :
            /\ \A i \in I : \E k \in 1..Cardinality(I) : at[k] = i
            /\ \A j, k \in 1..Cardinality(I) : j < k => at[j] < at[k]
            /\ Cardinality(I) \in Nat
            /\ Picked(s, I) = [k \in 1..Cardinality(I) |-> s[at[k]]]
  <1> DEFINE upto(i) == {j \in I : j <= i}
             n == Cardinality(I)
             rank == [i \in I |-> Cardinality(upto(i))]
  <1>1. I \subseteq 1..Len(s) /\ Len(s) \in Nat
    OBVIOUS
  <1>2. IsFiniteSet(I) /\ n \in Nat
    <2>1. IsFiniteSet(1..Len(s))
      BY <1>1, FS_Interval
    <2>2. IsFiniteSet(I)
      BY <1>1, <2>1, FS_Subset
    <2> QED
      BY <2>2, FS_CardinalityType
  <1>3. ASSUME NEW i \in I
        PROVE  IsFiniteSet(upto(i)) /\ rank[i] \in 1..n
    <2>1. upto(i) \in SUBSET I /\ i \in upto(i)
      BY <1>1
    <2>2. IsFiniteSet(upto(i)) /\ Cardinality(upto(i)) <= n
      BY <2>1, <1>2, FS_Subset
    <2>3. Cardinality(upto(i)) \in Nat /\ Cardinality(upto(i)) # 0
      BY <2>1, <2>2, FS_CardinalityType, FS_EmptySet
    <2> QED
      BY <2>2, <2>3, <1>2
  <1>4. ASSUME NEW i \in I, NEW j \in I, i < j
        PROVE  rank[i] < rank[j]
    <2>1. upto(i) \in SUBSET upto(j) /\ j \in upto(j) /\ j \notin upto(i)
      BY <1>1, <1>4
    <2>2. upto(i) # upto(j)
      BY <2>1
    <2> HIDE DEF upto
    <2>3. Cardinality(upto(i)) <= Cardinality(upto(j)) /\ Cardinality(upto(i)) # Cardinality(upto(j))
      BY <2>1, <2>2, <1>3, FS_Subset
    <2> QED
      BY <2>3, <1>3
  <1> HIDE DEF upto
  <1>5. rank \in [I -> 1..n]
    BY <1>3
  <1>6. \A i, j \in I : rank[i] = rank[j] => i = j
    <2> SUFFICES ASSUME NEW i \in I, NEW j \in I, rank[i] = rank[j], i # j
                 PROVE  FALSE
      OBVIOUS
    <2>1. i < j \/ j < i
      BY <1>1
    <2> QED
      BY <2>1, <1>3, <1>4
  <1>7. ASSUME NEW k \in 1..n
        PROVE  \E i \in I : rank[i] = k
    <2> HIDE DEF rank
    <2> QED
      BY <1>2, <1>5, <1>6, NumberingIsOnto
  <1> DEFINE Kth(k) == CHOOSE i \in I : Cardinality({j \in I : j <= i}) = k
             at == [k \in 1..n |-> Kth(k)]
  <1>8. \A k \in 1..n : at[k] \in I /\ rank[at[k]] = k
    <2>1. \A i \in I : rank[i] = Cardinality({j \in I : j <= i})
      BY DEF upto
    <2> HIDE DEF rank
    <2> QED
      BY <1>7, <2>1
  <1>9. \A i \in I : at[rank[i]] = i
    <2> HIDE DEF rank, at
    <2> QED
      BY <1>5, <1>6, <1>8
  <1>10. \A j, k \in 1..n : j < k => at[j] < at[k]
    <2> HIDE DEF rank, at
    <2> SUFFICES ASSUME NEW j \in 1..n, NEW k \in 1..n, j < k, ~(at[j] < at[k])
                 PROVE  FALSE
      OBVIOUS
    <2>1. at[k] < at[j] \/ at[k] = at[j]
      BY <1>1, <1>8
    <2> QED
      BY <2>1, <1>4, <1>8
  <1>11. Picked(s, I) = [k \in 1..n |-> s[at[k]]]
    BY DEF Picked
  <1>12. at \in [1..n -> I]
    BY <1>8
  <1> HIDE DEF at, rank
  <1>13. \A i \in I : \E k \in 1..n : at[k] = i
    BY <1>5, <1>9
  <1> QED
    BY <1>2, <1>10, <1>11, <1>12, <1>13

(* What is picked, and that it is a sequence *)
LEMMA PickedElements ==
  ASSUME NEW S, NEW s \in Seq(S), NEW I \in SUBSET DOMAIN s
  PROVE  /\ Picked(s, I) \in Seq(S)
         /\ ToSet(Picked(s, I)) = {s[i] : i \in I}
  <1>1. PICK at \in [1..Cardinality(I) -> I] :
            /\ \A i \in I : \E k \in 1..Cardinality(I) : at[k] = i
            /\ \A j, k \in 1..Cardinality(I) : j < k => at[j] < at[k]
            /\ Cardinality(I) \in Nat
            /\ Picked(s, I) = [k \in 1..Cardinality(I) |-> s[at[k]]]
    BY PickedInOrder
  <1>2. Picked(s, I) \in Seq(S) /\ DOMAIN Picked(s, I) = 1..Cardinality(I)
    <2>1. \A k \in 1..Cardinality(I) : s[at[k]] \in S
      BY <1>1
    <2> QED
      BY <1>1, <2>1
  <1>3. ToSet(Picked(s, I)) = {s[i] : i \in I}
    BY <1>1, <1>2, SMTT(30) DEF ToSet
  <1> QED
    BY <1>2, <1>3

(* A set of indexes that is not empty has a first one. *)
LEMMA FirstIndex ==
  ASSUME NEW S, NEW s \in Seq(S), NEW I \in SUBSET DOMAIN s, I # {}
  PROVE  \E i \in I : \A j \in I : i <= j
  <1>1. PICK at \in [1..Cardinality(I) -> I] :
            /\ \A i \in I : \E k \in 1..Cardinality(I) : at[k] = i
            /\ \A j, k \in 1..Cardinality(I) : j < k => at[j] < at[k]
            /\ Cardinality(I) \in Nat
            /\ Picked(s, I) = [k \in 1..Cardinality(I) |-> s[at[k]]]
    BY PickedInOrder, SMTT(60)
  <1>2. 1 \in 1..Cardinality(I) /\ I \subseteq Nat
    BY <1>1
  <1>3. ASSUME NEW j \in I
        PROVE  at[1] <= j
    <2>1. PICK k \in 1..Cardinality(I) : at[k] = j
      BY <1>1
    <2>2. k = 1 \/ 1 < k
      OBVIOUS
    <2> QED
      BY <1>1, <1>2, <2>1, <2>2
  <1> QED
    BY <1>1, <1>2, <1>3

(* ... and a last one. *)
LEMMA LastIndex ==
  ASSUME NEW S, NEW s \in Seq(S), NEW I \in SUBSET DOMAIN s, I # {}
  PROVE  \E i \in I : \A j \in I : i >= j
  <1> DEFINE n == Cardinality(I)
  <1>1. PICK at \in [1..n -> I] :
            /\ \A i \in I : \E k \in 1..n : at[k] = i
            /\ \A j, k \in 1..n : j < k => at[j] < at[k]
            /\ n \in Nat
            /\ Picked(s, I) = [k \in 1..n |-> s[at[k]]]
    BY PickedInOrder, SMTT(60)
  <1> HIDE DEF n
  <1>2. n \in 1..n /\ I \subseteq Nat
    BY <1>1
  <1>3. ASSUME NEW j \in I
        PROVE  at[n] >= j
    <2>1. PICK k \in 1..n : at[k] = j
      BY <1>1
    <2>2. k = n \/ k < n
      BY <1>1
    <2> QED
      BY <1>1, <1>2, <2>1, <2>2
  <1> QED
    BY <1>1, <1>2, <1>3

(* What a concatenation lists *)
LEMMA ConcatElements ==
  ASSUME NEW S, NEW s \in Seq(S), NEW t \in Seq(S)
  PROVE  s \o t \in Seq(S) /\ ToSet(s \o t) = ToSet(s) \cup ToSet(t)
  <1>1. s \o t \in Seq(S)
    BY ConcatProperties
  <1>2. Range(s \o t) = Range(s) \cup Range(t)
    BY RangeConcatenation
  <1>3. ToSet(s \o t) = ToSet(s) \cup ToSet(t)
    BY <1>2, Zenon DEF Range, ToSet
  <1> QED
    BY <1>1, <1>3

(* Distinct lists, in the order of the first appearance, every address     *)
(* but the ones already seen, and each of them once.                       *)
LEMMA DistinctElements ==
  ASSUME NEW S, NEW addrs \in Seq(S), NEW seen
  PROVE  LET d == Distinct(seen, addrs)
         IN  /\ d \in Seq(S)
             /\ ToSet(d) = ToSet(addrs) \ (seen \cup {NoAddr})
             /\ \E at \in [DOMAIN d -> DOMAIN addrs] :
                   /\ \A k \in DOMAIN d :
                         /\ d[k] = addrs[at[k]]
                         /\ \A j \in 1..(at[k] - 1) : addrs[j] # d[k]
                   /\ \A j, k \in DOMAIN d : j < k => at[j] < at[k] /\ d[j] # d[k]
  <1> DEFINE kept == {i \in DOMAIN addrs : /\ addrs[i] \notin seen \cup {NoAddr}
                                          /\ \A j \in 1..(i - 1) : addrs[j] # addrs[i]}
             n == Cardinality(kept)
  <1>1. kept \in SUBSET DOMAIN addrs /\ DOMAIN addrs = 1..Len(addrs) /\ Len(addrs) \in Nat
    OBVIOUS
  <1>2. Distinct(seen, addrs) = Picked(addrs, kept)
    BY DEF Distinct
  <1>3. /\ Picked(addrs, kept) \in Seq(S)
        /\ ToSet(Picked(addrs, kept)) = {addrs[i] : i \in kept}
    BY <1>1, PickedElements
  <1>4. ASSUME NEW a \in ToSet(addrs), a \notin seen \cup {NoAddr}
        PROVE  \E i \in kept : addrs[i] = a
    <2> DEFINE I == {i \in DOMAIN addrs : addrs[i] = a}
    <2>1. I \in SUBSET DOMAIN addrs /\ I # {}
      BY DEF ToSet
    <2>2. PICK i \in I : \A j \in I : i <= j
      BY <2>1, FirstIndex
    <2>3. \A j \in 1..(i - 1) : addrs[j] # addrs[i]
      BY <1>1, <2>2
    <2> QED
      BY <1>4, <2>3
  <1>5. {addrs[i] : i \in kept} = ToSet(addrs) \ (seen \cup {NoAddr})
    BY <1>4 DEF ToSet
  <1>6. PICK at \in [1..n -> kept] :
            /\ \A j, k \in 1..n : j < k => at[j] < at[k]
            /\ n \in Nat
            /\ Picked(addrs, kept) = [k \in 1..n |-> addrs[at[k]]]
    <2> HIDE DEF kept
    <2> QED
      BY <1>1, PickedInOrder
  <1>7. /\ DOMAIN Picked(addrs, kept) = 1..n
        /\ \A k \in 1..n : Picked(addrs, kept)[k] = addrs[at[k]]
    BY <1>6
  <1>8. \A k \in 1..n : /\ at[k] \in 1..Len(addrs)
                        /\ \A j \in 1..(at[k] - 1) : addrs[j] # addrs[at[k]]
    BY <1>1, <1>6
  <1>9. \A j, k \in 1..n : j < k => addrs[at[j]] # addrs[at[k]]
    <2> SUFFICES ASSUME NEW j \in 1..n, NEW k \in 1..n, j < k
                 PROVE  addrs[at[j]] # addrs[at[k]]
      OBVIOUS
    <2>0. at[j] < at[k]
      BY <1>6
    <2>1. at[j] < at[k] /\ at[j] \in Nat \ {0} /\ at[k] \in Nat
      BY <1>1, <1>8, <2>0
    <2>2. at[j] \in 1..(at[k] - 1)
      BY <2>1
    <2> QED
      BY <1>8, <2>2
  <1>10. at \in [1..n -> DOMAIN addrs]
    BY <1>1
  <1> HIDE DEF kept, n
  <1> DEFINE d == Distinct(seen, addrs)
  <1>11. DOMAIN d = 1..n /\ \A k \in 1..n : d[k] = addrs[at[k]]
    BY <1>2, <1>7
  <1>12. d \in Seq(S) /\ ToSet(d) = ToSet(addrs) \ (seen \cup {NoAddr})
    BY <1>2, <1>3, <1>5
  <1> HIDE DEF d
  <1>13. \E f \in [DOMAIN d -> DOMAIN addrs] :
            /\ \A k \in DOMAIN d : /\ d[k] = addrs[f[k]]
                                   /\ \A j \in 1..(f[k] - 1) : addrs[j] # d[k]
            /\ \A j, k \in DOMAIN d : j < k => f[j] < f[k] /\ d[j] # d[k]
    <2>1. at \in [DOMAIN d -> DOMAIN addrs]
      BY <1>10, <1>11
    <2>2. \A k \in 1..n : d[k] = addrs[at[k]] /\ \A j \in 1..(at[k] - 1) : addrs[j] # d[k]
      <3> SUFFICES ASSUME NEW k \in 1..n
                   PROVE  d[k] = addrs[at[k]] /\ \A j \in 1..(at[k] - 1) : addrs[j] # d[k]
        OBVIOUS
      <3>1. d[k] = addrs[at[k]]
        BY <1>11
      <3> QED
        BY <1>8, <3>1
    <2>3. \A j, k \in 1..n : j < k => at[j] < at[k] /\ d[j] # d[k]
      <3> SUFFICES ASSUME NEW j \in 1..n, NEW k \in 1..n, j < k
                   PROVE  at[j] < at[k] /\ d[j] # d[k]
        OBVIOUS
      <3>1. d[j] = addrs[at[j]] /\ d[k] = addrs[at[k]]
        BY <1>11
      <3>2. at[j] < at[k] /\ addrs[at[j]] # addrs[at[k]]
        BY <1>6, <1>9
      <3> QED
        BY <3>1, <3>2
    <2>4. DOMAIN d = 1..n
      BY <1>11
    <2> HIDE DEF kept
    <2> WITNESS at \in [DOMAIN d -> DOMAIN addrs]
    <2> QED
      BY <2>2, <2>3, <2>4
  <1> QED
    BY <1>12, <1>13 DEF d

(* Every known endpoint is in the order of a recovery, wherever it starts, *)
(* and no other address but the current one is.                            *)
LEMMA RecoveryOrder ==
  ASSUME NEW S, NoAddr \notin S, NEW known \in Seq(S), NEW current \in S \cup {NoAddr}
  PROVE  /\ buildEndpointRecoveryOrder(current, known) \in Seq(S)
         /\ ToSet(buildEndpointRecoveryOrder(current, known))
              = (ToSet(known) \cup {current}) \ {NoAddr}
  <1> DEFINE all == <<current>> \o known
             T == S \cup {NoAddr}
             d == Distinct({}, all)
  <1>1. <<current>> \in Seq(T) /\ known \in Seq(T) /\ all \in Seq(T)
    BY SeqMonotonic
  <1>2. d \in Seq(T) /\ ToSet(d) = ToSet(all) \ ({} \cup {NoAddr})
    <2> HIDE DEF all
    <2> QED
      BY <1>1, DistinctElements
  <1>3. ToSet(all) = {current} \cup ToSet(known)
    <2>1. ToSet(<<current>>) = {current}
      BY DEF ToSet
    <2>2. PICK head \in Seq(T) : head = <<current>>
      BY <1>1
    <2>3. ToSet(head \o known) = ToSet(head) \cup ToSet(known)
      BY <1>1, ConcatElements
    <2> QED
      BY <2>1, <2>2, <2>3
  <1>4. d \in Seq(S)
    <2>1. \A i \in 1..Len(d) : d[i] \in ToSet(d)
      BY <1>2 DEF ToSet
    <2>2. \A i \in 1..Len(d) : d[i] \in S
      BY <1>2, <2>1
    <2> QED
      BY <1>2, <2>2
  <1> QED
    BY <1>2, <1>3, <1>4 DEF buildEndpointRecoveryOrder

(* nextEndpointCandidate goes on to the first entry of the queue that is   *)
(* not the current endpoint, and passes over nothing else.                 *)
LEMMA NextCandidate ==
  ASSUME NEW S, NoAddr \notin S, NEW queue \in Seq(S), NEW start \in 0..Len(queue), NEW current
  PROVE  LET c == nextEndpointCandidate(queue, start, current)
         IN  /\ c.next \in start..Len(queue)
             /\ c.candidate \in S \cup {NoAddr}
             /\ c.candidate # NoAddr => /\ c.next > start
                                        /\ c.candidate = queue[c.next]
                                        /\ c.candidate # current
             /\ \A i \in (start + 1)..(c.next - 1) : queue[i] = current
             /\ c.candidate = NoAddr => \A i \in (start + 1)..Len(queue) : queue[i] = current
  <1> DEFINE usable == {i \in (start + 1)..Len(queue) : queue[i] \notin {NoAddr, current}}
  <1>0. DOMAIN queue = 1..Len(queue) /\ Len(queue) \in Nat /\ \A i \in 1..Len(queue) : queue[i] \in S
    OBVIOUS
  <1>1. CASE usable = {}
    BY <1>0, <1>1 DEF nextEndpointCandidate
  <1>2. CASE usable # {}
    <2> DEFINE i == CHOOSE i \in usable : \A j \in usable : i <= j
    <2>1. usable \in SUBSET DOMAIN queue
      BY <1>0
    <2>2. \E k \in usable : \A j \in usable : k <= j
      <3> HIDE DEF usable
      <3> QED
        BY <1>2, <2>1, FirstIndex
    <2>3. i \in usable /\ \A j \in usable : i <= j
      BY <2>2
    <2>4. nextEndpointCandidate(queue, start, current) = [candidate |-> queue[i], next |-> i]
      BY <1>2 DEF nextEndpointCandidate
    <2> HIDE DEF i
    <2>5. \A k \in (start + 1)..(i - 1) : queue[k] = current
      BY <1>0, <2>3
    <2>6. i \in (start + 1)..Len(queue) /\ queue[i] \in S /\ queue[i] # current
      BY <1>0, <2>3
    <2> QED
      BY <2>4, <2>5, <2>6
  <1> QED
    BY <1>1, <1>2
================================================================================
