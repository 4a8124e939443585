------------------------ MODULE SeatSchedulerProofs ------------------------
(***************************************************************************)
(* Proofs about SeatScheduler, for any requests, prompts, seats, pages,    *)
(* budgets and queue depth: a seat has one writer at a time, nothing the   *)
(* adapter asserts ever fails, every page is counted once by each that     *)
(* holds it, and a prefill waits at most one turn of the ring.             *)
(*                                                                         *)
(* The invariant Inv says who may write a seat.  A row of the attempt has  *)
(* its seat's epoch and owner (RowsHeld); a row that is queued has its     *)
(* epoch, and the seat is still its request's or waits for at least that   *)
(* many frames (RowsKept).  An epoch changes only on a seat nobody owns or *)
(* waits for, so that both survive every claim, discard and eviction.  A   *)
(* pending checkpoint waits for the same frame as its seat (PendingKept)   *)
(* and leaves with it (NoneDue).                                           *)
(*                                                                         *)
(* The invariant PagesInv says who has a page.  The count of a page is the *)
(* number of lists it is in (Counted).  No list has a page twice, only the *)
(* running requests hold pages, and a seat has one pending checkpoint and  *)
(* then none of its own (Listed), so that publication replaces no pages.   *)
(* The seat of a cold offer is empty when its request is admitted          *)
(* (ColdKept).                                                             *)
(*                                                                         *)
(* The invariant RingInv counts the places of the ring: a request at the   *)
(* i-th place was passed over at most N - i times in a row.  That its head *)
(* has its grant needs a prefill that asks for a token or more, which the  *)
(* invariant CountsInv gives: the placeholders of a running request cover  *)
(* its queued rows (Owes), so that results never take back too many.       *)
(*                                                                         *)
(* The first part is about the helpers: lists, loops, the pool, pages,     *)
(* frames that retire and requests that leave.  Then one lemma per action  *)
(* shows that it keeps Inv, another, after the lemmas about lists that are *)
(* counted, that it keeps PagesInv, and a third that it keeps CountsInv.   *)
(***************************************************************************)
EXTENDS SeatScheduler, FiniteSetTheorems, FunctionTheorems, SequenceTheorems,
        WellFoundedInduction, TLAPS

-----------------------------------------------------------------------------
\* Least and largest numbers.

LEMMA LeastExists ==
  ASSUME NEW T \in SUBSET Nat, T # {}
  PROVE  \E x \in T : \A y \in T : x <= y
<1> DEFINE R == OpToRel(<, Nat)
<1>1. IsWellFoundedOn(R, Nat)
  BY NatLessThanWellFounded, Zenon
<1>2. \A x, y \in Nat : x < y => <<x, y>> \in R
  BY DEF OpToRel
<1> HIDE DEF R
<1>3. PICK x \in T : \A y \in T : ~ (<<y, x>> \in R)
  BY <1>1, WFMin, Zenon
<1>4. \A y \in T : x \in Nat /\ y \in Nat /\ ~ (y < x)
  BY <1>2, <1>3, Zenon
<1> QED BY <1>4

LEMMA LeastOf ==
  ASSUME NEW T \in SUBSET Nat, T # {}
  PROVE  Min(T) \in T /\ \A y \in T : Min(T) <= y
  BY LeastExists, Zenon DEF Min

LEMMA LargestOf ==
  ASSUME NEW T \in SUBSET Nat, T # {}, NEW n \in Nat, \A y \in T : y <= n
  PROVE  Max(T) \in T /\ \A y \in T : Max(T) >= y
<1> DEFINE U == {n - y : y \in T}
<1>0. \A y \in T : n - y \in Nat
  <2>1. \A y \in T : y \in Nat /\ y <= n
    OBVIOUS
  <2> QED BY <2>1
<1>1. U \in SUBSET Nat /\ U # {}
  BY <1>0, Zenon
<1>2. PICK u \in U : \A w \in U : u <= w
  BY <1>1, LeastExists, Zenon
<1>3. PICK x \in T : u = n - x
  BY <1>2
<1>4. \A y \in T : n - x <= n - y
  BY <1>2, <1>3
<1>5. \A y \in T : x >= y
  BY <1>4
<1> QED BY <1>5, Zenon DEF Max

LEMMA MaxOfTwo ==
  ASSUME NEW a \in Int, NEW b \in Int
  PROVE  Max({a, b}) = IF a >= b THEN a ELSE b
<1>1. \E x \in {a, b} : \A y \in {a, b} : x >= y
  OBVIOUS
<1>2. Max({a, b}) \in {a, b} /\ \A y \in {a, b} : Max({a, b}) >= y
  BY <1>1 DEF Max
<1> QED BY <1>2

LEMMA MinOfTwo ==
  ASSUME NEW a \in Int, NEW b \in Int
  PROVE  Min({a, b}) = IF a <= b THEN a ELSE b
<1>1. \E x \in {a, b} : \A y \in {a, b} : x <= y
  OBVIOUS
<1>2. Min({a, b}) \in {a, b} /\ \A y \in {a, b} : Min({a, b}) <= y
  BY <1>1 DEF Min
<1> QED BY <1>2

LEMMA MinOfThree ==
  ASSUME NEW a \in Int, NEW b \in Int, NEW c \in Int
  PROVE  /\ Min({a, b, c}) \in Int
         /\ Min({a, b, c}) <= a /\ Min({a, b, c}) <= b /\ Min({a, b, c}) <= c
<1>1. \E x \in {a, b, c} : \A y \in {a, b, c} : x <= y
  OBVIOUS
<1>2. Min({a, b, c}) \in {a, b, c} /\ \A y \in {a, b, c} : Min({a, b, c}) <= y
  BY <1>1 DEF Min
<1> QED BY <1>2

-----------------------------------------------------------------------------
\* Lists and dicts.

Rank(I, i) == Cardinality({j \in I : j < i})

\* The members of a finite set of numbers have the ranks below its size.
LEMMA Ranked ==
  ASSUME NEW I \in SUBSET Int, IsFiniteSet(I)
  PROVE  /\ Cardinality(I) \in Nat
         /\ \A i \in I : Rank(I, i) \in 0 .. Cardinality(I) - 1
         /\ \A i, j \in I : i < j => Rank(I, i) < Rank(I, j)
         /\ \A n \in 0 .. Cardinality(I) - 1 : \E i \in I : Rank(I, i) = n
<1> DEFINE m    == Cardinality(I)
           low(i) == {j \in I : j < i}
           rank == [i \in I |-> Cardinality(low(i))]
<1>1. m \in Nat
  BY FS_CardinalityType
<1>2. ASSUME NEW i \in I
      PROVE  /\ IsFiniteSet(low(i)) /\ Cardinality(low(i)) \in Nat
             /\ Cardinality(low(i)) < m
  <2>1. low(i) \in SUBSET I /\ i \in I /\ i \notin low(i)
    OBVIOUS
  <2>2. IsFiniteSet(low(i)) /\ Cardinality(low(i)) <= m /\ Cardinality(low(i)) # m
    BY <2>1, FS_Subset
  <2>3. Cardinality(low(i)) \in Nat
    BY <2>2, FS_CardinalityType
  <2> QED BY <1>1, <2>2, <2>3
<1>3. ASSUME NEW i \in I, NEW j \in I, i < j
      PROVE  Cardinality(low(i)) < Cardinality(low(j))
  <2>0. i \in Int /\ j \in Int /\ i < j /\ \A k \in I : k \in Int
    BY <1>3
  <2>1. low(i) \in SUBSET low(j)
    <3>1. \A k \in I : k < i => k < j
      BY <2>0
    <3> QED BY <3>1, Zenon
  <2>3. i \in low(j) /\ i \notin low(i)
    BY <2>0
  <2>2. Cardinality(low(i)) <= Cardinality(low(j)) /\ Cardinality(low(i)) # Cardinality(low(j))
    BY <2>1, <2>3, <1>2, FS_Subset, Zenon
  <2> QED BY <1>2, <2>2
<1>4. rank \in [I -> 0 .. m - 1]
  BY <1>1, <1>2
<1>5. rank \in Injection(I, 0 .. m - 1)
  <2>1. ASSUME NEW i \in I, NEW j \in I, rank[i] = rank[j]
        PROVE  i = j
    <3>1. i \in Int /\ j \in Int /\ rank[i] = Cardinality(low(i)) /\ rank[j] = Cardinality(low(j))
      OBVIOUS
    <3>2. rank[i] \in Nat
      BY <1>2, <3>1
    <3>3. ~ (i < j) /\ ~ (j < i)
      BY <1>3, <2>1, <3>1, <3>2
    <3> QED BY <3>1, <3>3
  <2> HIDE DEF rank
  <2> QED BY <1>4, <2>1 DEF Injection, IsInjective
<1>6. rank \in Surjection(I, 0 .. m - 1)
  <2>1. IsFiniteSet(0 .. m - 1) /\ Cardinality(0 .. m - 1) = m
    BY <1>1, FS_Interval
  <2> HIDE DEF rank
  <2> QED BY <1>5, <2>1, FS_Injection
<1>7. \A n \in 0 .. m - 1 : \E i \in I : rank[i] = n
  <2> HIDE DEF rank
  <2> QED BY <1>6 DEF Surjection
<1>8. \A i \in I : Rank(I, i) = Cardinality(low(i)) /\ rank[i] = Rank(I, i)
  BY DEF Rank
<1>9. ASSUME NEW i \in I
      PROVE  Rank(I, i) \in 0 .. m - 1
  <2>1. Rank(I, i) \in Nat /\ Rank(I, i) < m
    BY <1>2 DEF Rank
  <2> HIDE DEF m
  <2> QED BY <1>1, <2>1
<1>10. \A i, j \in I : i < j => Rank(I, i) < Rank(I, j)
  BY <1>3, <1>8, Zenon
<1>11. \A n \in 0 .. m - 1 : \E i \in I : Rank(I, i) = n
  BY <1>7, <1>8, Zenon
<1> QED BY <1>1, <1>9, <1>10, <1>11

LEMMA AscendingList ==
  ASSUME NEW I \in SUBSET Int, IsFiniteSet(I)
  PROVE  /\ Cardinality(I) \in Nat
         /\ Ascending(I) \in [1 .. Cardinality(I) -> I]
         /\ \A i \in I : \E n \in 1 .. Cardinality(I) : Ascending(I)[n] = i
         /\ \A n, k \in 1 .. Cardinality(I) :
              n < k => Ascending(I)[n] < Ascending(I)[k]
<1> DEFINE m == Cardinality(I)
           A == Ascending(I)
<1>1. m \in Nat /\ DOMAIN A = 1 .. m
  BY Ranked DEF Ascending
<1>2. ASSUME NEW n \in 1 .. m
      PROVE  A[n] \in I /\ Rank(I, A[n]) = n - 1
  <2>1. n - 1 \in 0 .. m - 1
    BY <1>1
  <2>2. \E i \in I : Rank(I, i) = n - 1
    BY <2>1, Ranked
  <2>3. A[n] = CHOOSE i \in I : Rank(I, i) = n - 1
    BY Zenon DEF Ascending, Rank
  <2> HIDE DEF A
  <2> QED BY <2>2, <2>3
<1>3. A = [n \in 1 .. m |-> A[n]]
  BY DEF Ascending
<1>4. A \in [1 .. m -> I]
  <2> HIDE DEF A
  <2> QED BY <1>2, <1>3
<1>5. \A i, j \in I : Rank(I, i) = Rank(I, j) => i = j
  <2>1. ASSUME NEW i \in I, NEW j \in I, Rank(I, i) = Rank(I, j)
        PROVE  i = j
    <3>1. i \in Int /\ j \in Int /\ Rank(I, i) \in Int
      BY <1>1, Ranked
    <3>2. ~ (i < j) /\ ~ (j < i)
      BY <2>1, <3>1, Ranked
    <3> QED BY <3>1, <3>2
  <2> QED BY <2>1
<1>6. ASSUME NEW i \in I
      PROVE  \E n \in 1 .. m : A[n] = i
  <2>1. Rank(I, i) \in 0 .. m - 1
    BY Ranked
  <2>2. Rank(I, i) + 1 \in 1 .. m /\ (Rank(I, i) + 1) - 1 = Rank(I, i)
    BY <1>1, <2>1
  <2>3. A[Rank(I, i) + 1] \in I /\ Rank(I, A[Rank(I, i) + 1]) = Rank(I, i)
    BY <1>2, <2>2
  <2> HIDE DEF A
  <2> QED BY <1>5, <2>2, <2>3, Zenon
<1>7. ASSUME NEW n \in 1 .. m, NEW k \in 1 .. m, n < k
      PROVE  A[n] < A[k]
  <2>1. A[n] \in I /\ A[k] \in I /\ Rank(I, A[n]) = n - 1 /\ Rank(I, A[k]) = k - 1
    BY <1>2
  <2> HIDE DEF A
  <2>2. A[n] \in Int /\ A[k] \in Int
    BY <2>1, Zenon
  <2>3. A[n] # A[k]
    BY <1>7, <2>1
  <2>4. ~ (A[k] < A[n])
    <3>1. SUFFICES ASSUME A[k] < A[n] PROVE FALSE
      OBVIOUS
    <3>2. Rank(I, A[k]) < Rank(I, A[n])
      BY <2>1, <3>1, Ranked, Zenon
    <3> QED BY <1>7, <2>1, <3>2
  <2> QED BY <2>2, <2>3, <2>4
<1> QED BY <1>1, <1>4, <1>6, <1>7

\* The places `at` of s, m of them, that hold members of S, and the list of them.
Filtered(s, S, list, m, at) ==
  /\ DOMAIN list = 1 .. m
  /\ at \in [1 .. m -> {i \in DOMAIN s : s[i] \in S}]
  /\ \A n \in 1 .. m : list[n] = s[at[n]]
  /\ \A i \in DOMAIN s : s[i] \in S => \E n \in 1 .. m : at[n] = i
  /\ \A n, k \in 1 .. m : n < k => at[n] < at[k]

LEMMA OnlyPlaces ==
  ASSUME NEW T, NEW s \in Seq(T), NEW S
  PROVE  /\ Only(s, S) \in Seq(T)
         /\ \E m \in Nat : \E at : Filtered(s, S, Only(s, S), m, at)
<1> DEFINE I  == {i \in DOMAIN s : s[i] \in S}
           at == Ascending(I)
           m  == Cardinality(I)
           o  == Only(s, S)
<1>1. Len(s) \in Nat /\ DOMAIN s = 1 .. Len(s) /\ \A i \in DOMAIN s : s[i] \in T
  BY LenProperties, ElementOfSeq
<1>2. I \in SUBSET Int /\ IsFiniteSet(I) /\ I \in SUBSET DOMAIN s
  <2>1. IsFiniteSet(1 .. Len(s))
    BY <1>1, FS_Interval
  <2>2. I \in SUBSET (1 .. Len(s))
    BY <1>1
  <2> QED BY <1>1, <2>1, <2>2, FS_Subset
<1>3. o = [n \in DOMAIN at |-> s[at[n]]]
  BY DEF Only
<1> HIDE DEF I, o
<1>4. /\ m \in Nat /\ at \in [1 .. m -> I]
      /\ \A i \in I : \E n \in 1 .. m : at[n] = i
      /\ \A n, k \in 1 .. m : n < k => at[n] < at[k]
  BY <1>2, AscendingList
<1> HIDE DEF at, m
<1>5. DOMAIN at = 1 .. m /\ \A n \in 1 .. m : at[n] \in DOMAIN s
  BY <1>2, <1>4, Zenon
<1>6. o \in [1 .. m -> T] /\ \A n \in 1 .. m : o[n] = s[at[n]]
  BY <1>1, <1>3, <1>5
<1>7. o \in Seq(T) /\ Len(o) = m /\ DOMAIN o = 1 .. m
  BY <1>4, <1>6
<1>8. at \in [1 .. m -> {i \in DOMAIN s : s[i] \in S}]
  BY <1>4 DEF I
<1>9. \A i \in DOMAIN s : s[i] \in S => \E n \in 1 .. m : at[n] = i
  <2>1. \A i \in DOMAIN s : s[i] \in S => i \in I
    BY DEF I
  <2> QED BY <1>4, <2>1
<1>10. Filtered(s, S, o, m, at)
  BY <1>4, <1>6, <1>7, <1>8, <1>9 DEF Filtered
<1> QED BY <1>4, <1>7, <1>10 DEF o

Once(s) == \A i, j \in DOMAIN s : s[i] = s[j] => i = j

LEMMA OnlyMembers ==
  ASSUME NEW T, NEW s \in Seq(T), NEW S
  PROVE  /\ Only(s, S) \in Seq(T)
         /\ Range(Only(s, S)) = Range(s) \cap S
         /\ Once(s) => Once(Only(s, S))
<1> DEFINE o == Only(s, S)
<1>0. o \in Seq(T) /\ \E m \in Nat : \E at : Filtered(s, S, o, m, at)
  BY OnlyPlaces
<1> HIDE DEF o
<1>p. PICK m \in Nat : \E at : Filtered(s, S, o, m, at)
  BY <1>0
<1>q. PICK at : Filtered(s, S, o, m, at)
  BY <1>p
<1>1. /\ o \in Seq(T) /\ DOMAIN o = 1 .. m
      /\ at \in [1 .. m -> {i \in DOMAIN s : s[i] \in S}]
      /\ \A n \in 1 .. m : o[n] = s[at[n]]
      /\ \A i \in DOMAIN s : s[i] \in S => \E n \in 1 .. m : at[n] = i
      /\ \A n, k \in 1 .. m : n < k => at[n] < at[k]
  BY <1>0, <1>q, Zenon DEF Filtered
<1>2. \A n \in 1 .. m : at[n] \in DOMAIN s /\ s[at[n]] \in S
  BY <1>1
<1>3. Range(o) \subseteq Range(s) \cap S
  BY <1>1, <1>2 DEF Range
<1>4. ASSUME NEW x \in Range(s) \cap S
      PROVE  x \in Range(o)
  <2>1. PICK i \in DOMAIN s : s[i] = x
    BY <1>4 DEF Range
  <2>3. PICK n \in 1 .. m : at[n] = i
    BY <1>1, <1>4, <2>1, Zenon
  <2> QED BY <1>1, <2>1, <2>3, Zenon DEF Range
<1>5. ASSUME Once(s), NEW n \in DOMAIN o, NEW k \in DOMAIN o, o[n] = o[k]
      PROVE  n = k
  <2>1. n \in 1 .. m /\ k \in 1 .. m /\ n \in Int /\ k \in Int
    BY <1>1
  <2>2. at[n] \in DOMAIN s /\ at[k] \in DOMAIN s /\ s[at[n]] = s[at[k]]
    BY <1>1, <1>2, <1>5, <2>1
  <2>3. at[n] = at[k]
    BY <1>5, <2>2 DEF Once
  <2>4. at[n] \in Int
    BY <2>2, LenProperties
  <2>5. ~ (n < k) /\ ~ (k < n)
    BY <1>1, <2>1, <2>3, <2>4
  <2> QED BY <2>1, <2>5
<1>6. Once(s) => Once(o)
  BY <1>5 DEF Once
<1> QED BY <1>1, <1>3, <1>4, <1>6 DEF o

LEMMA WithoutMembers ==
  ASSUME NEW T, NEW s \in Seq(T), NEW x
  PROVE  /\ Without(s, x) \in Seq(T)
         /\ Range(Without(s, x)) = Range(s) \ {x}
         /\ Once(s) => Once(Without(s, x))
  BY OnlyMembers DEF Without

Partial(K, V) == UNION {[D -> V] : D \in SUBSET K}

LEMMA PartialIs ==
  ASSUME NEW K, NEW V, NEW f
  PROVE  f \in Partial(K, V) <=> /\ f = [x \in DOMAIN f |-> f[x]]
                                 /\ DOMAIN f \in SUBSET K
                                 /\ \A x \in DOMAIN f : f[x] \in V
<1>1. ASSUME f \in Partial(K, V)
      PROVE  /\ f = [x \in DOMAIN f |-> f[x]]
             /\ DOMAIN f \in SUBSET K
             /\ \A x \in DOMAIN f : f[x] \in V
  <2>1. PICK D \in SUBSET K : f \in [D -> V]
    BY <1>1 DEF Partial
  <2> QED BY <2>1
<1>2. ASSUME f = [x \in DOMAIN f |-> f[x]], DOMAIN f \in SUBSET K,
             \A x \in DOMAIN f : f[x] \in V
      PROVE  f \in Partial(K, V)
  <2>1. f \in [DOMAIN f -> V]
    BY <1>2
  <2> QED BY <1>2, <2>1 DEF Partial
<1> QED BY <1>1, <1>2

LEMMA PutKeys ==
  ASSUME NEW d, NEW k, NEW v
  PROVE  DOMAIN Put(d, k, v) = DOMAIN d \cup {k}
  BY DEF Put

LEMMA PutAt ==
  ASSUME NEW d, NEW k, NEW v
  PROVE  Put(d, k, v)[k] = v
  BY DEF Put

LEMMA PutElsewhere ==
  ASSUME NEW d, NEW k, NEW v, NEW x \in DOMAIN d, x # k
  PROVE  Put(d, k, v)[x] = d[x]
  BY DEF Put

LEMMA PutType ==
  ASSUME NEW K, NEW V, NEW d \in Partial(K, V), NEW k \in K, NEW v \in V
  PROVE  Put(d, k, v) \in Partial(K, V)
<1>1. DOMAIN d \in SUBSET K /\ \A x \in DOMAIN d : d[x] \in V
  BY PartialIs
<1>2. Put(d, k, v) \in [DOMAIN d \cup {k} -> V]
  BY <1>1 DEF Put
<1>3. DOMAIN d \cup {k} \in SUBSET K
  BY <1>1
<1> QED BY <1>2, <1>3, Zenon DEF Partial

LEMMA EmptyPartial ==
  ASSUME NEW K, NEW V
  PROVE  <<>> \in Partial(K, V) /\ DOMAIN <<>> = {}
<1>1. <<>> \in [{} -> V] /\ {} \in SUBSET K /\ DOMAIN <<>> = {}
  OBVIOUS
<1> QED BY <1>1 DEF Partial

-----------------------------------------------------------------------------
\* Loops.

LEMMA UpTo ==
  ASSUME NEW n \in Nat, NEW G, 0 \in G, \A i \in 1 .. n : i - 1 \in G => i \in G
  PROVE  \A i \in 0 .. n : i \in G
<1> DEFINE bad == {i \in 0 .. n : i \notin G}
<1>1. SUFFICES ASSUME bad # {} PROVE FALSE
  OBVIOUS
<1>2. bad \in SUBSET Nat
  OBVIOUS
<1>3. PICK i \in bad : \A j \in bad : i <= j
  <2> HIDE DEF bad
  <2> QED BY <1>1, <1>2, LeastExists
<1>4. i \in 1 .. n /\ i - 1 \in 0 .. n /\ i \notin G
  BY <1>3
<1>5. i - 1 \notin bad
  BY <1>3, <1>4
<1> QED BY <1>4, <1>5

\* f is the state of a loop after each of its n turns.
Turns(f, A, a, n, step) ==
  /\ f \in [0 .. n -> A]
  /\ f[0] = a
  /\ \A i \in 1 .. n : f[i] = step[<<f[i - 1], i>>]

LEMMA LoopRuns ==
  ASSUME NEW A, NEW a \in A, NEW n \in Nat, NEW step \in [A \X (1 .. n) -> A]
  PROVE  \E f : Turns(f, A, a, n, step)
<1> DEFINE G == {m \in 0 .. n : \E f : Turns(f, A, a, m, step)}
<1>1. 0 \in G
  <2>1. Turns([i \in 0 .. 0 |-> a], A, a, 0, step)
    BY DEF Turns
  <2> QED BY <2>1
<1>2. ASSUME NEW m \in 1 .. n, m - 1 \in G
      PROVE  m \in G
  <2>1. PICK f : Turns(f, A, a, m - 1, step)
    BY <1>2
  <2>2. /\ f \in [0 .. m - 1 -> A] /\ f[0] = a
        /\ \A i \in 1 .. m - 1 : f[i] = step[<<f[i - 1], i>>]
    BY <2>1 DEF Turns
  <2> DEFINE last == step[<<f[m - 1], m>>]
             g == [i \in 0 .. m |-> IF i = m THEN last ELSE f[i]]
  <2>3. m - 1 \in 0 .. m - 1 /\ 0 \in 0 .. m - 1
    OBVIOUS
  <2>4. last \in A
    BY <2>2, <2>3
  <2> HIDE DEF last
  <2>5. g \in [0 .. m -> A] /\ g[m] = last /\ \A i \in 0 .. m - 1 : g[i] = f[i]
    <3>1. \A i \in 0 .. m : i # m => i \in 0 .. m - 1
      OBVIOUS
    <3> QED BY <2>2, <2>4, <3>1
  <2> HIDE DEF g
  <2>6. g[0] = a /\ g[m] = step[<<g[m - 1], m>>]
    BY <2>2, <2>3, <2>5, Zenon DEF last
  <2>7. ASSUME NEW i \in 1 .. m
        PROVE  g[i] = step[<<g[i - 1], i>>]
    <3>1. CASE i = m
      BY <2>6, <3>1
    <3>2. CASE i # m
      <4>1. i \in 1 .. m - 1 /\ i \in 0 .. m - 1 /\ i - 1 \in 0 .. m - 1
        BY <3>2
      <4> QED BY <2>2, <2>5, <4>1
    <3> QED BY <3>1, <3>2
  <2>8. Turns(g, A, a, m, step)
    BY <2>5, <2>6, <2>7 DEF Turns
  <2>9. m \in 0 .. n
    OBVIOUS
  <2> QED BY <2>8, <2>9
<1>3. n \in 0 .. n
  OBVIOUS
<1> HIDE DEF G
<1>4. n \in G
  BY <1>1, <1>2, <1>3, UpTo
<1> QED BY <1>4 DEF G

-----------------------------------------------------------------------------
\* The grants of the ring.

Planned == [grants : Partial(Request, Int), budget : Int, slots : Int]

LEMMA ReserveDecodeType ==
  ASSUME NEW acc \in Planned, NEW d \in [key : Request, demand : Int]
  PROVE  ReserveDecode(acc, d) \in Planned
<1> DEFINE grant == Min({d.demand, acc.budget})
           g == Put(acc.grants, d.key, grant)
           b == acc.budget - grant
<1>1. grant \in Int
  BY MinOfTwo DEF Planned
<1>2. ReserveDecode(acc, d) = [acc EXCEPT !.grants = g, !.budget = b]
  BY DEF ReserveDecode
<1> HIDE DEF grant
<1>3. g \in Partial(Request, Int) /\ b \in Int
  BY <1>1, PutType DEF Planned
<1> HIDE DEF g, b
<1> QED BY <1>2, <1>3, Zenon DEF Planned

LEMMA ServePlaceType ==
  ASSUME NEW acc \in Planned, NEW key \in Request, NEW row, row.demand \in Int
  PROVE  ServePlace(acc, key, row) \in Planned
<1> DEFINE grant == Min({row.demand, acc.budget})
           one   == IF row.new THEN 1 ELSE 0
           g == Put(acc.grants, key, grant)
           b == acc.budget - grant
           c == acc.slots - one
<1>1. grant \in Int /\ one \in Int
  BY MinOfTwo DEF Planned
<1>2. \/ ServePlace(acc, key, row) = acc
      \/ ServePlace(acc, key, row) = [acc EXCEPT !.grants = g, !.budget = b, !.slots = c]
  BY DEF ServePlace
<1> HIDE DEF grant, one
<1>3. g \in Partial(Request, Int) /\ b \in Int /\ c \in Int
  BY <1>1, PutType DEF Planned
<1> HIDE DEF g, b, c
<1> QED BY <1>2, <1>3, Zenon DEF Planned

\* f is the plan after each decode, and g after each place of the ring.
ReservedBy(f, A, budget, decodes, slots) ==
  /\ f \in [0 .. Len(decodes) -> A]
  /\ f[0] = [grants |-> <<>>, budget |-> budget, slots |-> slots]
  /\ \A i \in 1 .. Len(decodes) : f[i] = ReserveDecode(f[i - 1], decodes[i])
  /\ f[Len(decodes)] = Reserved(budget, decodes, slots)

ServedBy(g, A, places, budget, decodes, rows, slots) ==
  /\ g \in [0 .. Len(places) -> A]
  /\ g[0] = Reserved(budget, decodes, slots)
  /\ \A i \in 1 .. Len(places) : g[i] = ServePlace(g[i - 1], places[i], rows[places[i]])
  /\ g[Len(places)].grants = Grants(places, budget, decodes, rows, slots)

LEMMA ReservedRuns ==
  ASSUME NEW budget \in Int, NEW slots \in Int,
         NEW decodes \in Seq([key : Request, demand : Int])
  PROVE  /\ \E f : ReservedBy(f, Planned, budget, decodes, slots)
         /\ Reserved(budget, decodes, slots) \in Planned
<1> DEFINE start == [grants |-> <<>>, budget |-> budget, slots |-> slots]
           n == Len(decodes)
           Loop(f) == f = [i \in 0 .. n |-> IF i = 0 THEN start
                                             ELSE ReserveDecode(f[i - 1], decodes[i])]
           after == CHOOSE f : Loop(f)
<1>1. Reserved(budget, decodes, slots) = after[n]
  BY DEF Reserved
<1>2. /\ n \in Nat
      /\ \A i \in 1 .. n : decodes[i] \in [key : Request, demand : Int]
  BY LenProperties, ElementOfSeq, Zenon
<1>3. start \in Planned
  BY EmptyPartial DEF Planned
<1> HIDE DEF start
<1>4. n \in 0 .. n /\ 0 \in 0 .. n
  BY <1>2
<1> HIDE DEF n
<1> DEFINE step == [x \in Planned \X (1 .. n) |-> ReserveDecode(x[1], decodes[x[2]])]
<1>5. step \in [Planned \X (1 .. n) -> Planned]
  BY <1>2, ReserveDecodeType
<1>6. \A x \in Planned : \A i \in 1 .. n : step[<<x, i>>] = ReserveDecode(x, decodes[i])
  OBVIOUS
<1> HIDE DEF step
<1>7. PICK f : Turns(f, Planned, start, n, step)
  BY <1>2, <1>3, <1>5, LoopRuns, Zenon
<1>8. f \in [0 .. n -> Planned] /\ f[0] = start
      /\ \A i \in 1 .. n : f[i] = step[<<f[i - 1], i>>]
  BY <1>7 DEF Turns
<1>9. \A i \in 1 .. n : f[i] = ReserveDecode(f[i - 1], decodes[i])
  <2>1. \A i \in 1 .. n : f[i - 1] \in Planned
    BY <1>2, <1>8
  <2> QED BY <1>6, <1>8, <2>1, Zenon
<1>10. Loop(f)
  <2>1. \A i \in 0 .. n : f[i] = IF i = 0 THEN start
                                 ELSE ReserveDecode(f[i - 1], decodes[i])
    BY <1>2, <1>8, <1>9
  <2> QED BY <1>8, <2>1
<1>11. Loop(after)
  BY <1>10, Zenon
<1>12. /\ DOMAIN after = 0 .. n /\ after = [i \in 0 .. n |-> after[i]] /\ after[0] = start
       /\ \A i \in 1 .. n : after[i] = ReserveDecode(after[i - 1], decodes[i])
  <2> HIDE DEF after
  <2>1. after = [i \in 0 .. n |-> IF i = 0 THEN start
                                   ELSE ReserveDecode(after[i - 1], decodes[i])]
    BY <1>11, Zenon
  <2>2. \A i \in 1 .. n : i \in 0 .. n /\ i # 0
    BY <1>2
  <2> HIDE DEF Loop
  <2> QED BY <1>4, <2>1, <2>2, Zenon
<1> HIDE DEF after, Loop
<1> DEFINE G == {i \in 0 .. n : after[i] \in Planned}
<1>13. 0 \in G
  BY <1>3, <1>4, <1>12
<1>14. ASSUME NEW i \in 1 .. n, i - 1 \in G PROVE i \in G
  <2>1. after[i - 1] \in Planned /\ i \in 0 .. n
    BY <1>14
  <2>2. ReserveDecode(after[i - 1], decodes[i]) \in Planned
    BY <1>2, <2>1, ReserveDecodeType
  <2> QED BY <1>12, <2>1, <2>2, Zenon
<1>15. \A i \in 0 .. n : after[i] \in Planned
  <2> HIDE DEF G
  <2>1. \A i \in 0 .. n : i \in G
    BY <1>2, <1>13, <1>14, UpTo, Zenon
  <2> QED BY <2>1 DEF G
<1>16. after \in [0 .. n -> Planned]
  BY <1>12, <1>15
<1>17. ReservedBy(after, Planned, budget, decodes, slots)
  BY <1>1, <1>12, <1>16, Zenon DEF ReservedBy, n, start
<1> QED BY <1>1, <1>4, <1>15, <1>17

LEMMA GrantsRun ==
  ASSUME NEW places \in Seq(Request), NEW budget \in Int,
         NEW decodes \in Seq([key : Request, demand : Int]),
         NEW rows, \A k \in Range(places) : rows[k].demand \in Int,
         NEW slots \in Int
  PROVE  \E g : ServedBy(g, Planned, places, budget, decodes, rows, slots)
<1> DEFINE first == Reserved(budget, decodes, slots)
           m == Len(places)
           Loop(f) == f = [i \in 0 .. m |-> IF i = 0 THEN first
                             ELSE ServePlace(f[i - 1], places[i], rows[places[i]])]
           served == CHOOSE f : Loop(f)
<1>1. Grants(places, budget, decodes, rows, slots) = served[m].grants
  BY DEF Grants
<1>2. /\ m \in Nat
      /\ \A i \in 1 .. m : places[i] \in Request /\ rows[places[i]].demand \in Int
  <2>1. \A i \in 1 .. m : places[i] \in Range(places)
    BY LenProperties DEF Range
  <2> QED BY <2>1, LenProperties, ElementOfSeq
<1>3. first \in Planned
  BY ReservedRuns, Zenon
<1> HIDE DEF first
<1>4. m \in 0 .. m /\ 0 \in 0 .. m
  BY <1>2
<1> HIDE DEF m
<1>5. ASSUME NEW x \in Planned, NEW i \in 1 .. m
      PROVE  ServePlace(x, places[i], rows[places[i]]) \in Planned
  <2>1. places[i] \in Request /\ rows[places[i]].demand \in Int
    BY <1>2, Zenon
  <2> DEFINE k == places[i]
             row == rows[k]
  <2> HIDE DEF k, row
  <2>2. ServePlace(x, k, row) \in Planned
    BY <2>1, ServePlaceType DEF k, row
  <2> QED BY <2>2 DEF k, row
<1> DEFINE step == [x \in Planned \X (1 .. m) |->
                      ServePlace(x[1], places[x[2]], rows[places[x[2]]])]
<1>6. step \in [Planned \X (1 .. m) -> Planned]
  BY <1>5
<1>7. \A x \in Planned : \A i \in 1 .. m :
        step[<<x, i>>] = ServePlace(x, places[i], rows[places[i]])
  OBVIOUS
<1> HIDE DEF step
<1>8. PICK f : Turns(f, Planned, first, m, step)
  BY <1>2, <1>3, <1>6, LoopRuns, Zenon
<1>9. f \in [0 .. m -> Planned] /\ f[0] = first
      /\ \A i \in 1 .. m : f[i] = step[<<f[i - 1], i>>]
  BY <1>8 DEF Turns
<1>10. \A i \in 1 .. m : f[i] = ServePlace(f[i - 1], places[i], rows[places[i]])
  <2>1. ASSUME NEW i \in 1 .. m PROVE f[i - 1] \in Planned
    <3>1. i - 1 \in 0 .. m
      BY <1>2
    <3> QED BY <1>9, <3>1
  <2> QED BY <1>7, <1>9, <2>1, Zenon
<1>11. Loop(f)
  <2>1. ASSUME NEW i \in 0 .. m
        PROVE  f[i] = IF i = 0 THEN first
                      ELSE ServePlace(f[i - 1], places[i], rows[places[i]])
    <3>1. i = 0 \/ i \in 1 .. m
      BY <1>2
    <3> QED BY <1>9, <1>10, <3>1
  <2> QED BY <1>9, <2>1
<1>12. Loop(served)
  BY <1>11, Zenon
<1>13. /\ DOMAIN served = 0 .. m /\ served = [i \in 0 .. m |-> served[i]]
       /\ served[0] = first
       /\ \A i \in 1 .. m : served[i] = ServePlace(served[i - 1], places[i], rows[places[i]])
  <2> HIDE DEF served
  <2>1. served = [i \in 0 .. m |-> IF i = 0 THEN first
                     ELSE ServePlace(served[i - 1], places[i], rows[places[i]])]
    BY <1>12, Zenon
  <2>2. \A i \in 1 .. m : i \in 0 .. m /\ i # 0
    BY <1>2
  <2> HIDE DEF Loop
  <2> QED BY <1>4, <2>1, <2>2, Zenon
<1> HIDE DEF served, Loop
<1> DEFINE G == {i \in 0 .. m : served[i] \in Planned}
<1>14. 0 \in G
  BY <1>3, <1>4, <1>13
<1>15. ASSUME NEW i \in 1 .. m, i - 1 \in G PROVE i \in G
  <2>1. served[i - 1] \in Planned /\ i \in 0 .. m
    BY <1>15
  <2>2. ServePlace(served[i - 1], places[i], rows[places[i]]) \in Planned
    BY <1>5, <2>1
  <2> QED BY <1>13, <2>1, <2>2, Zenon
<1>16. \A i \in 0 .. m : served[i] \in Planned
  <2> HIDE DEF G
  <2>1. \A i \in 0 .. m : i \in G
    BY <1>2, <1>14, <1>15, UpTo, Zenon
  <2> QED BY <2>1 DEF G
<1>17. served \in [0 .. m -> Planned]
  BY <1>13, <1>16
<1> QED BY <1>1, <1>13, <1>17, Zenon DEF ServedBy, m, first

LEMMA GrantsType ==
  ASSUME NEW places \in Seq(Request), NEW budget \in Int,
         NEW decodes \in Seq([key : Request, demand : Int]),
         NEW rows, \A k \in Range(places) : rows[k].demand \in Int,
         NEW slots \in Int
  PROVE  Grants(places, budget, decodes, rows, slots) \in Partial(Request, Int)
<1>1. PICK g : ServedBy(g, Planned, places, budget, decodes, rows, slots)
  BY GrantsRun, Zenon
<1>2. Len(places) \in 0 .. Len(places)
  BY LenProperties
<1>3. g[Len(places)] \in Planned
  BY <1>1, <1>2, Zenon DEF ServedBy
<1> QED BY <1>1, <1>3 DEF ServedBy, Planned

-----------------------------------------------------------------------------
\* The types of the state.

Salt == {"none"} \cup {SaltOf[r] : r \in Request}

SeatState ==
  [owner : Request \cup {Nobody}, epoch : Nat, tokens : Seq(Token), salt : Salt,
   blocks : Seq(Page), fence : Nat]

Pool == {pool \in [seat : [Seats -> SeatState], order : Seq(Seats)] :
           Range(pool.order) = Seats}

LeaseKey == [rid : Request, seat : Seats, epoch : Nat]

\* A frontier that is known has its lookahead token.
FrontierState ==
  {f \in [tokens : Seq(Token), cursor : Int, known : BOOLEAN, remaining : Int,
          prompt : Nat] :
     f.known /\ f.cursor > 0 => f.cursor < Len(f.tokens)}

PendingState == [fence : Nat, salt : Salt, blocks : Seq(Page)]

PendingStates == {p \in Partial(LeaseKey, PendingState) : IsFiniteSet(DOMAIN p)}

OfferState == [seat : Seats, epoch : Nat, warm : BOOLEAN]

DeferredState == [blocks : Seq(Page), fence : Int]

State ==
  [pool : Pool, frontiers : Partial(LeaseKey, FrontierState),
   pending : PendingStates,
   offers : [Request -> OfferState \cup {NoOffer}],
   ref : [Page -> Int], held : [Request -> Seq(Page)], deferred : Seq(DeferredState)]

Statuses == {"absent", "waiting", "running", "stopped", "capped", "aborted"}

RequestState ==
  [status : Statuses, out : Seq(Token), computed : Int, placeholders : Int,
   drafting : BOOLEAN, lease : {<<>>} \cup (Seats \X Nat)]

Phases == {"idle", "schedule", "allocate", "collect"}

\* The rows of a frame, but for what only the device reads of them.
FrameOK(rows) ==
  /\ DOMAIN rows \in SUBSET Request
  /\ \A r \in DOMAIN rows :
       /\ rows[r].seat \in Seats /\ rows[r].epoch \in Nat
       /\ rows[r].query \in Int /\ rows[r].drafts \in Int
       /\ rows[r].sampling \in BOOLEAN

Typed ==
  /\ st \in State
  /\ req \in [Request -> RequestState]
  /\ running \in Seq(Request) /\ waiting \in Seq(Request) /\ ring \in Seq(Request)
  /\ frames \in Seq(Range(frames)) /\ \A i \in DOMAIN frames : FrameOK(frames[i])
  /\ attempt \in [phase : Phases, next : Nat, rows : {attempt.rows}, left : Int,
                  grants : Partial(Request, Int), preempted : BOOLEAN]
  /\ FrameOK(attempt.rows)

-----------------------------------------------------------------------------
\* The inductive invariant.

\* The requests H own a seat each, which keeps no checkpoint.
Seated(s, H) ==
  /\ Holders(s.pool) = H
  /\ \A i, j \in Seats :
       s.pool.seat[i].owner = s.pool.seat[j].owner /\ s.pool.seat[i].owner # Nobody => i = j
  /\ \A i \in Seats : s.pool.seat[i].owner # Nobody => s.pool.seat[i].blocks = <<>>

\* The seat of a pending checkpoint waits for the same frame.
PendingKept(s) ==
  \A k \in DOMAIN s.pending :
    /\ s.pool.seat[k.seat].owner = Nobody
    /\ s.pool.seat[k.seat].epoch = k.epoch
    /\ s.pool.seat[k.seat].fence = s.pending[k].fence

NoneDue(s) == \A k \in DOMAIN s.pending : s.pending[k].fence > 0

\* The queued rows write seats that are their request's, or wait for them.
RowsKept(s, queue) ==
  \A i \in DOMAIN queue : \A r \in DOMAIN queue[i] :
    LET seat == s.pool.seat[queue[i][r].seat] IN
    /\ seat.epoch = queue[i][r].epoch
    /\ seat.owner \in {r, Nobody}
    /\ seat.owner = Nobody => seat.fence >= i

\* The rows of the attempt write seats that are their request's.
RowsHeld(s, rows) ==
  \A r \in DOMAIN rows :
    /\ s.pool.seat[rows[r].seat].epoch = rows[r].epoch
    /\ s.pool.seat[rows[r].seat].owner = r

\* Queued rows of one seat are of one lease.
Apart(queue) ==
  \A i, j \in DOMAIN queue : \A q \in DOMAIN queue[i], r \in DOMAIN queue[j] :
    queue[i][q].seat = queue[j][r].seat
      => q = r /\ queue[i][q].epoch = queue[j][r].epoch

\* The queues agree with the statuses.
Placed ==
  /\ Once(running)
  /\ \A r \in Request : /\ req[r].status = "running" <=> r \in Range(running)
                        /\ req[r].status = "waiting" <=> r \in Range(waiting)

\* An offer of a seat that may be claimed, for a request with these tokens.
OfferGood(pool, offer, tokens) ==
  LET seat == pool.seat[offer.seat]
  IN  /\ offer \in OfferState
      /\ Current(pool, offer)
      /\ offer.warm => /\ seat.blocks # <<>>
                       /\ Cursor(seat) > 0
                       /\ Len(seat.tokens) <= Len(tokens)

\* The offer of a request that is about to be admitted.
OfferKept(r) == OfferGood(st.pool, st.offers[r], AllTokens(r))

\* The loop has not reached the requests from `next` on.
AttemptKept ==
  /\ attempt.next \in 1 .. Len(running) + 1
  /\ \A r \in DOMAIN attempt.rows : \E i \in 1 .. attempt.next - 1 : running[i] = r
  /\ attempt.phase \in {"idle", "collect"} => DOMAIN attempt.rows = {} /\ attempt.next = 1
  /\ attempt.phase = "allocate" => Queued # <<>> /\ OfferKept(Candidate)

Inv ==
  /\ Typed
  /\ Seated(st, Range(running))
  /\ PendingKept(st) /\ NoneDue(st)
  /\ RowsKept(st, frames) /\ Apart(frames) /\ RowsHeld(st, attempt.rows)
  /\ Placed
  /\ AttemptKept

-----------------------------------------------------------------------------
\* The pool.

LEMMA PoolFacts ==
  ASSUME NEW pool \in Pool
  PROVE  /\ pool.order \in Seq(Seats) /\ Range(pool.order) = Seats
         /\ pool.seat \in [Seats -> SeatState]
         /\ \A i \in Seats : /\ pool.seat[i].owner \in Request \cup {Nobody}
                             /\ pool.seat[i].epoch \in Nat
                             /\ pool.seat[i].tokens \in Seq(Token)
                             /\ pool.seat[i].salt \in Salt
                             /\ pool.seat[i].blocks \in Seq(Page)
                             /\ pool.seat[i].fence \in Nat
  BY DEF Pool, SeatState

LEMMA TouchedOrder ==
  ASSUME NEW order \in Seq(Seats), Range(order) = Seats, NEW i \in Seats
  PROVE  Touched(order, i) \in Seq(Seats) /\ Range(Touched(order, i)) = Seats
<1> DEFINE w == Without(order, i)
           t == Append(w, i)
<1>1. w \in Seq(Seats) /\ Range(w) = Seats \ {i}
  BY WithoutMembers
<1> HIDE DEF w
<1>2. /\ t \in Seq(Seats) /\ Len(t) = Len(w) + 1
      /\ \A j \in 1 .. Len(w) : t[j] = w[j]
      /\ t[Len(w) + 1] = i
  BY <1>1, AppendProperties
<1>3. Len(w) \in Nat /\ DOMAIN w = 1 .. Len(w) /\ DOMAIN t = 1 .. Len(t)
  BY <1>1, <1>2, LenProperties
<1> HIDE DEF t
<1>4. Range(t) \subseteq Seats
  BY <1>2, RangeOfSeq
<1>5. ASSUME NEW k \in Seats
      PROVE  k \in Range(t)
  <2>1. CASE k = i
    <3>1. Len(w) + 1 \in DOMAIN t
      BY <1>2, <1>3
    <3> QED BY <1>2, <2>1, <3>1, Zenon DEF Range
  <2>2. CASE k # i
    <3>1. PICK j \in 1 .. Len(w) : w[j] = k
      BY <1>1, <1>3, <2>2 DEF Range
    <3>2. j \in DOMAIN t /\ t[j] = k
      BY <1>2, <1>3, <3>1
    <3> QED BY <3>2 DEF Range
  <2> QED BY <2>1, <2>2
<1>6. Touched(order, i) = t
  BY DEF Touched, t, w
<1> QED BY <1>2, <1>4, <1>5, <1>6, Zenon

LEMMA PoolNext ==
  ASSUME NEW pool \in Pool, NEW i \in Seats, NEW seat \in SeatState
  PROVE  /\ [pool EXCEPT !.seat[i] = seat] \in Pool
         /\ [pool EXCEPT !.seat[i] = seat].seat[i] = seat
         /\ \A j \in Seats \ {i} : [pool EXCEPT !.seat[i] = seat].seat[j] = pool.seat[j]
         /\ [pool EXCEPT !.seat[i] = seat].order = pool.order
  BY DEF Pool

\* A seat that is taken or left.
Touching(pool, i, seat) ==
  [pool EXCEPT !.seat[i] = seat, !.order = Touched(pool.order, i)]

LEMMA PoolTouched ==
  ASSUME NEW pool \in Pool, NEW i \in Seats, NEW seat \in SeatState
  PROVE  /\ Touching(pool, i, seat) \in Pool
         /\ Touching(pool, i, seat).seat[i] = seat
         /\ \A j \in Seats \ {i} : Touching(pool, i, seat).seat[j] = pool.seat[j]
<1> DEFINE order == Touched(pool.order, i)
           next == [pool EXCEPT !.seat[i] = seat, !.order = order]
<1>1. order \in Seq(Seats) /\ Range(order) = Seats
  BY PoolFacts, TouchedOrder
<1>2. Touching(pool, i, seat) = next
  BY DEF Touching
<1> HIDE DEF order
<1>3. /\ next \in Pool
      /\ next.seat[i] = seat
      /\ \A j \in Seats \ {i} : next.seat[j] = pool.seat[j]
  BY <1>1, Zenon DEF Pool
<1> QED BY <1>2, <1>3

LEMMA NewPoolType ==
  NewPool \in Pool /\ \A i \in Seats : NewPool.seat[i] = EmptySeat
<1>1. Seats \in SUBSET Int /\ IsFiniteSet(Seats)
  BY SeatAssumption
<1> DEFINE A == Ascending(Seats)
           m == Cardinality(Seats)
<1>2. m \in Nat /\ A \in [1 .. m -> Seats] /\ \A i \in Seats : \E n \in 1 .. m : A[n] = i
  BY <1>1, AscendingList
<1>3. NewPool = [seat |-> [s \in Seats |-> EmptySeat], order |-> A]
  BY DEF NewPool
<1> HIDE DEF A, m
<1>4. A \in Seq(Seats) /\ Range(A) = Seats
  BY <1>2 DEF Range
<1>5. EmptySeat \in SeatState
  BY EmptySeq DEF EmptySeat, SeatState, Salt
<1> QED BY <1>3, <1>4, <1>5 DEF Pool

LEMMA ForgottenType ==
  ASSUME NEW seat \in SeatState
  PROVE  /\ Forgotten(seat) \in SeatState
         /\ Forgotten(seat).owner = seat.owner /\ Forgotten(seat).epoch = seat.epoch
         /\ Forgotten(seat).fence = seat.fence /\ Forgotten(seat).blocks = <<>>
         /\ Forgotten(seat).tokens = <<>>
  BY EmptySeq, Zenon DEF Forgotten, SeatState, Salt

LEMMA ReownedType ==
  ASSUME NEW seat \in SeatState, NEW owner \in Request \cup {Nobody}, NEW fence \in Nat
  PROVE  LET next == [seat EXCEPT !.owner = owner, !.fence = fence]
         IN  /\ next \in SeatState
             /\ next.owner = owner
             /\ next.fence = fence
             /\ next.epoch = seat.epoch
             /\ next.blocks = seat.blocks
             /\ next.tokens = seat.tokens
  BY Zenon DEF SeatState

LEMMA RenewedType ==
  ASSUME NEW seat \in SeatState
  PROVE  /\ Renewed(seat) \in SeatState
         /\ Renewed(seat).owner = seat.owner
         /\ Renewed(seat).fence = seat.fence
         /\ Renewed(seat).epoch = seat.epoch + 1
         /\ Renewed(seat).blocks = seat.blocks
         /\ Renewed(seat).tokens = seat.tokens
<1> DEFINE e == seat.epoch + 1
<1>1. e \in Nat
  BY DEF SeatState
<1>2. Renewed(seat) = [seat EXCEPT !.epoch = e]
  BY DEF Renewed
<1> HIDE DEF e
<1>3. LET next == [seat EXCEPT !.epoch = e]
      IN  /\ next \in SeatState
          /\ next.owner = seat.owner
          /\ next.fence = seat.fence
          /\ next.epoch = e
          /\ next.blocks = seat.blocks
          /\ next.tokens = seat.tokens
  BY <1>1, Zenon DEF SeatState
<1> QED BY <1>2, <1>3 DEF e

LEMMA SeatOfOwner ==
  ASSUME NEW pool, NEW r \in Holders(pool)
  PROVE  /\ SeatOf(pool, r) \in Seats /\ pool.seat[SeatOf(pool, r)].owner = r
         /\ r # Nobody
<1>1. r # Nobody /\ \E i \in Seats : pool.seat[i].owner = r
  BY DEF Holders
<1> QED BY <1>1 DEF SeatOf

\* Leaving and taking a seat, and forgetting checkpoints.

LEMMA RetireFields ==
  ASSUME NEW pool \in Pool, NEW r \in Holders(pool), NEW fence \in Nat
  PROVE  LET i    == SeatOf(pool, r)
             next == Retire(pool, r, fence)
         IN  /\ next \in Pool
             /\ next.seat[i].owner = Nobody /\ next.seat[i].fence = fence
             /\ next.seat[i].epoch = pool.seat[i].epoch /\ next.seat[i].blocks = <<>>
             /\ \A j \in Seats \ {i} : next.seat[j] = pool.seat[j]
<1>1. SeatOf(pool, r) \in Seats
  BY SeatOfOwner
<1>2. SUFFICES ASSUME NEW i \in Seats, i = SeatOf(pool, r)
               PROVE  LET next == Retire(pool, r, fence)
                      IN  /\ next \in Pool
                          /\ next.seat[i].owner = Nobody /\ next.seat[i].fence = fence
                          /\ next.seat[i].epoch = pool.seat[i].epoch
                          /\ next.seat[i].blocks = <<>>
                          /\ \A j \in Seats \ {i} : next.seat[j] = pool.seat[j]
  BY <1>1
<1> DEFINE kept == pool.seat[i]
           gone == Forgotten(kept)
           seat == [gone EXCEPT !.owner = Nobody, !.fence = fence]
           next == Touching(pool, i, seat)
<1>3. gone \in SeatState /\ gone.epoch = kept.epoch /\ gone.blocks = <<>>
  BY PoolFacts, ForgottenType
<1>4. Retire(pool, r, fence) = next
  BY <1>2 DEF Retire, Touching
<1> HIDE DEF gone, kept
<1>5. /\ seat \in SeatState
      /\ seat.owner = Nobody
      /\ seat.fence = fence
      /\ seat.epoch = kept.epoch
      /\ seat.blocks = <<>>
  BY <1>3, Zenon DEF SeatState
<1> HIDE DEF seat
<1>6. next \in Pool /\ next.seat[i] = seat /\ \A j \in Seats \ {i} : next.seat[j] = pool.seat[j]
  BY <1>5, PoolTouched
<1> HIDE DEF next
<1> QED BY <1>4, <1>5, <1>6 DEF kept

LEMMA ClaimFields ==
  ASSUME NEW pool \in Pool, NEW r \in Request, NEW offer \in OfferState
  PROVE  LET i    == offer.seat
             next == Claim(pool, r, offer)
         IN  /\ next \in Pool
             /\ next.seat[i].owner = r /\ next.seat[i].fence = pool.seat[i].fence
             /\ \A j \in Seats \ {i} : next.seat[j] = pool.seat[j]
<1> DEFINE i == offer.seat
           kept == pool.seat[i]
           gone == Renewed(Forgotten(kept))
           warm == [kept EXCEPT !.owner = r]
           cold == [gone EXCEPT !.owner = r]
           seat == IF offer.warm THEN warm ELSE cold
           next == Touching(pool, i, seat)
<1>1. i \in Seats
  BY DEF OfferState
<1>2. kept \in SeatState
  BY <1>1, PoolFacts
<1>3. gone \in SeatState /\ gone.fence = kept.fence
  BY <1>2, ForgottenType, RenewedType
<1>4. Claim(pool, r, offer) = next
  BY DEF Claim, Touching
<1> HIDE DEF gone, kept
<1>5. warm \in SeatState /\ warm.owner = r /\ warm.fence = kept.fence
  BY <1>2 DEF SeatState
<1>6. cold \in SeatState /\ cold.owner = r /\ cold.fence = gone.fence
  BY <1>3 DEF SeatState
<1> HIDE DEF warm, cold
<1>7. /\ seat \in SeatState
      /\ seat.owner = r
      /\ seat.fence = kept.fence
  BY <1>3, <1>5, <1>6
<1> HIDE DEF seat
<1>8. next \in Pool /\ next.seat[i] = seat /\ \A j \in Seats \ {i} : next.seat[j] = pool.seat[j]
  BY <1>1, <1>7, PoolTouched
<1> HIDE DEF next
<1> QED BY <1>4, <1>7, <1>8 DEF kept

LEMMA TransferredFields ==
  ASSUME NEW pool \in Pool, NEW r \in Holders(pool)
  PROVE  LET i    == SeatOf(pool, r)
             next == Transferred(pool, r)
         IN  /\ next \in Pool
             /\ next.seat[i].owner = r /\ next.seat[i].fence = pool.seat[i].fence
             /\ next.seat[i].epoch = pool.seat[i].epoch /\ next.seat[i].blocks = <<>>
             /\ \A j \in Seats \ {i} : next.seat[j] = pool.seat[j]
<1> DEFINE i == SeatOf(pool, r)
           seat == [pool.seat[i] EXCEPT !.tokens = <<>>, !.blocks = <<>>]
<1>1. i \in Seats /\ pool.seat[i].owner = r
  BY SeatOfOwner
<1> HIDE DEF i
<1>2. pool.seat[i] \in SeatState
  BY <1>1, PoolFacts
<1>3. /\ seat \in SeatState
      /\ seat.owner = r /\ seat.fence = pool.seat[i].fence /\ seat.epoch = pool.seat[i].epoch
      /\ seat.blocks = <<>>
  BY <1>1, <1>2, EmptySeq, Zenon DEF SeatState
<1>4. Transferred(pool, r) = [pool EXCEPT !.seat[i] = seat]
  BY DEF Transferred, i
<1> HIDE DEF seat
<1> QED BY <1>1, <1>3, <1>4, PoolNext DEF i

LEMMA EvictedFields ==
  ASSUME NEW pool \in Pool, NEW i \in Seats
  PROVE  LET next == Evicted(pool, i)
         IN  /\ next \in Pool
             /\ next.seat[i].owner = pool.seat[i].owner
             /\ next.seat[i].fence = pool.seat[i].fence
             /\ next.seat[i].blocks = <<>>
             /\ \A j \in Seats \ {i} : next.seat[j] = pool.seat[j]
<1> DEFINE kept == pool.seat[i]
           gone == Forgotten(kept)
           seat == Renewed(gone)
           next == [pool EXCEPT !.seat[i] = seat]
<1>1. kept \in SeatState
  BY PoolFacts
<1>2. /\ gone \in SeatState
      /\ gone.owner = kept.owner
      /\ gone.fence = kept.fence
      /\ gone.blocks = <<>>
  BY <1>1, ForgottenType
<1>3. Evicted(pool, i) = next
  BY DEF Evicted
<1> HIDE DEF kept, gone
<1>4. /\ seat \in SeatState
      /\ seat.owner = kept.owner
      /\ seat.fence = kept.fence
      /\ seat.blocks = <<>>
  BY <1>2, RenewedType
<1> HIDE DEF seat
<1>5. next \in Pool /\ next.seat[i] = seat /\ \A j \in Seats \ {i} : next.seat[j] = pool.seat[j]
  BY <1>4, PoolNext
<1> HIDE DEF next
<1> QED BY <1>3, <1>4, <1>5 DEF kept

LEMMA DiscardFields ==
  ASSUME NEW pool \in Pool, NEW offer \in OfferState
  PROVE  LET i    == offer.seat
             next == Discard(pool, offer)
         IN  /\ next \in Pool
             /\ next.seat[i].owner = pool.seat[i].owner
             /\ next.seat[i].fence = pool.seat[i].fence
             /\ next.seat[i].blocks = <<>>
             /\ \A j \in Seats \ {i} : next.seat[j] = pool.seat[j]
<1>1. offer.seat \in Seats
  BY DEF OfferState
<1>2. CASE pool.seat[offer.seat].blocks = <<>>
  BY <1>1, <1>2 DEF Discard
<1>3. CASE pool.seat[offer.seat].blocks # <<>>
  <2>1. Discard(pool, offer) = Evicted(pool, offer.seat)
    BY <1>3, Zenon DEF Discard, Evicted
  <2> QED BY <1>1, <2>1, EvictedFields
<1> QED BY <1>2, <1>3

\* Changes of all seats at once.
LEMMA PoolSeats ==
  ASSUME NEW pool \in Pool, NEW seat \in [Seats -> SeatState]
  PROVE  [pool EXCEPT !.seat = seat] \in Pool /\ [pool EXCEPT !.seat = seat].seat = seat
  BY Zenon DEF Pool

LEMMA InvalidatedFields ==
  ASSUME NEW pool \in Pool
  PROVE  LET next == Invalidated(pool)
         IN  /\ next \in Pool
             /\ \A i \in Seats : /\ next.seat[i].owner = pool.seat[i].owner
                                 /\ next.seat[i].fence = pool.seat[i].fence
                                 /\ next.seat[i].epoch = pool.seat[i].epoch
                                 /\ next.seat[i].owner = Nobody => next.seat[i].blocks = <<>>
                                 /\ next.seat[i].owner # Nobody => next.seat[i] = pool.seat[i]
<1> DEFINE seat == [i \in Seats |-> IF pool.seat[i].owner = Nobody
                                    THEN Forgotten(pool.seat[i]) ELSE pool.seat[i]]
<1>1. \A i \in Seats : pool.seat[i] \in SeatState
  BY PoolFacts
<1>2. /\ seat \in [Seats -> SeatState]
      /\ \A i \in Seats : seat[i] = IF pool.seat[i].owner = Nobody
                                    THEN Forgotten(pool.seat[i]) ELSE pool.seat[i]
  BY <1>1, ForgottenType
<1>3. Invalidated(pool) = [pool EXCEPT !.seat = seat]
  BY DEF Invalidated
<1> HIDE DEF seat
<1>4. Invalidated(pool) \in Pool /\ Invalidated(pool).seat = seat
  BY <1>2, <1>3, PoolSeats
<1> QED BY <1>1, <1>2, <1>4, ForgottenType

-----------------------------------------------------------------------------
\* Pages.

LEMMA StateFacts ==
  ASSUME NEW s \in State
  PROVE  /\ s.pool \in Pool
         /\ s.frontiers \in Partial(LeaseKey, FrontierState)
         /\ s.pending \in Partial(LeaseKey, PendingState)
         /\ IsFiniteSet(DOMAIN s.pending)
         /\ s.offers \in [Request -> OfferState \cup {NoOffer}]
         /\ s.ref \in [Page -> Int]
         /\ s.held \in [Request -> Seq(Page)]
         /\ s.deferred \in Seq(DeferredState)
  BY DEF State, PendingStates

LEMMA RestrictType ==
  ASSUME NEW K, NEW V, NEW f \in Partial(K, V), NEW S \in SUBSET DOMAIN f
  PROVE  Restrict(f, S) \in Partial(K, V) /\ DOMAIN Restrict(f, S) = S
         /\ \A x \in S : Restrict(f, S)[x] = f[x]
<1> DEFINE g == Restrict(f, S)
<1>1. g = [x \in S |-> f[x]]
  BY DEF Restrict
<1> HIDE DEF g
<1>2. DOMAIN g = S /\ \A x \in S : g[x] = f[x]
  BY <1>1
<1>3. DOMAIN f \in SUBSET K /\ \A x \in DOMAIN f : f[x] \in V
  BY PartialIs
<1>4. g = [x \in DOMAIN g |-> g[x]]
  BY <1>1
<1>5. g \in Partial(K, V)
  BY <1>2, <1>3, <1>4, PartialIs
<1> QED BY <1>2, <1>5 DEF g

LEMMA PinnedType ==
  ASSUME NEW ref \in [Page -> Int], NEW blocks
  PROVE  Pinned(ref, blocks) \in [Page -> Int] /\ Unpinned(ref, blocks) \in [Page -> Int]
  BY DEF Pinned, Unpinned

LEMMA UnpinnedEachType ==
  ASSUME NEW ref \in [Page -> Int], NEW lists, IsFiniteSet(DOMAIN lists)
  PROVE  UnpinnedEach(ref, lists) \in [Page -> Int]
<1>1. ASSUME NEW p \in Page
      PROVE  Cardinality({k \in DOMAIN lists : p \in Range(lists[k])}) \in Nat
  <2> DEFINE S == {k \in DOMAIN lists : p \in Range(lists[k])}
  <2>1. S \subseteq DOMAIN lists
    OBVIOUS
  <2> HIDE DEF S
  <2>2. Cardinality(S) \in Nat
    BY <2>1, FS_Subset, FS_CardinalityType
  <2> QED BY <2>2 DEF S
<1>2. \A p \in Page :
        ref[p] - Cardinality({k \in DOMAIN lists : p \in Range(lists[k])}) \in Int
  BY <1>1
<1> QED BY <1>2 DEF UnpinnedEach

LEMMA PrefixType ==
  ASSUME NEW T, NEW s \in Seq(T), NEW m \in Nat \ {0}, NEW n \in Int, n <= Len(s)
  PROVE  SubSeq(s, m, n) \in Seq(T)
<1>1. \A i \in m .. n : s[i] \in T
  <2>1. Len(s) \in Nat /\ DOMAIN s = 1 .. Len(s) /\ \A i \in DOMAIN s : s[i] \in T
    BY LenProperties, ElementOfSeq
  <2>2. \A i \in m .. n : i \in 1 .. Len(s)
    BY <2>1
  <2> QED BY <2>1, <2>2
<1> QED BY <1>1, SubSeqProperties

LEMMA FreePages ==
  ASSUME NEW ref
  PROVE  /\ Free(ref) \in SUBSET Page /\ IsFiniteSet(Free(ref))
         /\ Cardinality(Free(ref)) \in Nat
<1>1. Free(ref) \in SUBSET Page
  BY DEF Free
<1>2. IsFiniteSet(Page)
  BY EngineAssumption
<1> QED BY <1>1, <1>2, FS_Subset, FS_CardinalityType

LEMMA PagesForType ==
  ASSUME NEW tokens \in Int
  PROVE  PagesFor(tokens) \in Int
<1>1. BlockSize \in Nat \ {0}
  BY EngineAssumption
<1>2. \A x \in Int : x \div BlockSize \in Int
  BY <1>1
<1> QED BY <1>1, <1>2 DEF PagesFor

LEMMA NewPagesType ==
  ASSUME NEW held \in Seq(Page), NEW tokens \in Int, Fits(held, tokens)
  PROVE  NewPages(held, tokens) \in Seq(Page)
<1> DEFINE a == Ascending(Free(st.ref))
           m == Cardinality(Free(st.ref))
           lack == Lacking(held, tokens + Drafts)
<1>1. Drafts \in Nat
  BY EngineAssumption
<1>2. PagesFor(tokens + Drafts) - Len(held) \in Int
  BY <1>1, PagesForType, LenProperties
<1>3. lack \in Int /\ lack <= m
  BY <1>2, MaxOfTwo DEF Lacking, Fits
<1>4. Free(st.ref) \in SUBSET Int /\ IsFiniteSet(Free(st.ref)) /\ Free(st.ref) \subseteq Page
  <2>1. \A p \in Page : p \in Int
    BY EngineAssumption
  <2>2. Free(st.ref) \in SUBSET Page /\ IsFiniteSet(Free(st.ref))
    BY FreePages
  <2> HIDE DEF m, a, lack
  <2> QED BY <2>1, <2>2
<1>5. m \in Nat /\ a \in [1 .. m -> Free(st.ref)]
  BY <1>4, AscendingList
<1>6. NewPages(held, tokens) = SubSeq(a, 1, lack)
  BY DEF NewPages
<1> HIDE DEF a, m, lack
<1>7. a \in Seq(Page) /\ Len(a) = m
  BY <1>4, <1>5
<1> QED BY <1>3, <1>6, <1>7, PrefixType

-----------------------------------------------------------------------------
\* Pending checkpoints and their publication.

LEMMA CheckpointType ==
  ASSUME NEW f \in FrontierState
  PROVE  Checkpoint(f) \in Seq(Token)
<1>1. f.tokens \in Seq(Token) /\ f.cursor \in Int /\ Len(f.tokens) \in Nat
  BY LenProperties DEF FrontierState
<1>2. CASE f.known /\ f.cursor > 0
  <2>1. f.cursor + 1 \in Int /\ f.cursor + 1 <= Len(f.tokens)
    BY <1>1, <1>2 DEF FrontierState
  <2>2. SubSeq(f.tokens, 1, f.cursor + 1) \in Seq(Token)
    BY <1>1, <2>1, PrefixType
  <2> QED BY <1>2, <2>2 DEF Checkpoint
<1>3. CASE ~(f.known /\ f.cursor > 0)
  BY <1>3, EmptySeq DEF Checkpoint
<1> QED BY <1>2, <1>3

LEMMA ObservedType ==
  ASSUME NEW s \in State, NEW k
  PROVE  Observed(s, k) \in Seq(Token)
<1>1. \A x \in DOMAIN s.frontiers : s.frontiers[x] \in FrontierState
  BY StateFacts, PartialIs
<1> QED BY <1>1, CheckpointType, EmptySeq DEF Observed

LEMMA KeptPagesType ==
  ASSUME NEW s \in State, NEW k \in DOMAIN s.pending
  PROVE  KeptPages(s, k) \in Seq(Page)
<1> DEFINE blocks == s.pending[k].blocks
           count == PagesFor(Len(Observed(s, k)) - 1)
<1>1. blocks \in Seq(Page) /\ Len(blocks) \in Nat
  <2>1. s.pending[k] \in PendingState
    BY StateFacts, PartialIs
  <2> QED BY <2>1, LenProperties DEF PendingState
<1>2. count \in Int
  <2>1. Len(Observed(s, k)) - 1 \in Int
    BY ObservedType, LenProperties
  <2> QED BY <2>1, PagesForType
<1>3. KeptPages(s, k) = IF Observed(s, k) = <<>> \/ count > Len(blocks) THEN <<>>
                        ELSE SubSeq(blocks, 1, count)
  BY DEF KeptPages
<1> HIDE DEF blocks, count
<1>4. CASE Observed(s, k) = <<>> \/ count > Len(blocks)
  BY <1>3, <1>4, EmptySeq
<1>5. CASE ~(Observed(s, k) = <<>> \/ count > Len(blocks))
  <2>1. count <= Len(blocks)
    BY <1>1, <1>2, <1>5
  <2>2. SubSeq(blocks, 1, count) \in Seq(Page)
    BY <1>1, <1>2, <2>1, PrefixType
  <2> QED BY <1>3, <1>5, <2>2
<1> QED BY <1>4, <1>5

\* What a step leaves as it was: the owners, epochs and fences of all seats, and
\* everything of the owned ones.
Undisturbed(s, next) ==
  \A i \in Seats :
    /\ next.pool.seat[i].owner = s.pool.seat[i].owner
    /\ next.pool.seat[i].epoch = s.pool.seat[i].epoch
    /\ next.pool.seat[i].fence = s.pool.seat[i].fence
    /\ next.pool.seat[i].owner # Nobody => next.pool.seat[i].blocks = s.pool.seat[i].blocks

LEMMA PublishFields ==
  ASSUME NEW s \in State, PendingKept(s)
  PROVE  /\ Publish(s) \in State
         /\ Undisturbed(s, Publish(s))
         /\ DOMAIN Publish(s).pending = DOMAIN s.pending \ Due(s)
         /\ \A k \in DOMAIN Publish(s).pending : Publish(s).pending[k] = s.pending[k]
<1> DEFINE filled(i) == {k \in Due(s) : k.seat = i /\ KeptPages(s, k) # <<>>}
           of(i) == CHOOSE k \in filled(i) : TRUE
           seat == [i \in Seats |->
                      IF filled(i) = {} THEN s.pool.seat[i]
                      ELSE [s.pool.seat[i] EXCEPT !.tokens = Observed(s, of(i)),
                                                  !.salt = s.pending[of(i)].salt,
                                                  !.blocks = KeptPages(s, of(i))]]
           ref == UnpinnedEach(s.ref, [k \in Due(s) |-> OtherPages(s, k)])
           front == Restrict(s.frontiers, DOMAIN s.frontiers \ Due(s))
           pend == Restrict(s.pending, DOMAIN s.pending \ Due(s))
           pool == [s.pool EXCEPT !.seat = seat]
<1>1. Publish(s) = [s EXCEPT !.pool.seat = seat, !.ref = ref, !.frontiers = front,
                             !.pending = pend]
  BY DEF Publish
<1>2. /\ Due(s) \subseteq DOMAIN s.pending
      /\ IsFiniteSet(Due(s))
  <2>1. Due(s) \subseteq DOMAIN s.pending
    BY DEF Due
  <2> QED BY <2>1, StateFacts, FS_Subset
<1>3. \A i \in Seats : filled(i) # {} => of(i) \in Due(s) /\ of(i).seat = i
  OBVIOUS
<1>4. ASSUME NEW i \in Seats
      PROVE  /\ seat[i] \in SeatState
             /\ seat[i].owner = s.pool.seat[i].owner
             /\ seat[i].epoch = s.pool.seat[i].epoch
             /\ seat[i].fence = s.pool.seat[i].fence
             /\ seat[i].owner # Nobody => seat[i].blocks = s.pool.seat[i].blocks
  <2> DEFINE old == s.pool.seat[i]
             k == of(i)
             tokens == Observed(s, k)
             salt == s.pending[k].salt
             blocks == KeptPages(s, k)
  <2>1. old \in SeatState
    BY StateFacts, PoolFacts
  <2>2. CASE filled(i) = {}
    BY <2>1, <2>2
  <2>3. CASE filled(i) # {}
    <3>1. k \in Due(s) /\ k.seat = i /\ k \in DOMAIN s.pending
      BY <1>2, <1>3, <2>3
    <3>2. seat[i] = [old EXCEPT !.tokens = tokens, !.salt = salt, !.blocks = blocks]
      BY <2>3
    <3> HIDE DEF seat, k
    <3>3. s.pending[k] \in PendingState
      BY <3>1, StateFacts, PartialIs
    <3>4. tokens \in Seq(Token) /\ salt \in Salt /\ blocks \in Seq(Page)
      BY <3>1, <3>3, ObservedType, KeptPagesType DEF PendingState
    <3>5. old.owner = Nobody
      BY <3>1 DEF PendingKept
    <3> HIDE DEF tokens, salt, blocks, old
    <3>6. /\ seat[i] \in SeatState
          /\ seat[i].owner = old.owner
          /\ seat[i].epoch = old.epoch
          /\ seat[i].fence = old.fence
      BY <2>1, <3>2, <3>4, Zenon DEF SeatState
    <3> QED BY <3>5, <3>6 DEF old
  <2> QED BY <2>2, <2>3
<1>5. seat \in [Seats -> SeatState]
  <2>1. seat = [i \in Seats |-> seat[i]]
    OBVIOUS
  <2> HIDE DEF seat
  <2> QED BY <1>4, <2>1
<1> HIDE DEF seat
<1>6. pool \in Pool /\ pool.seat = seat
  BY <1>5, StateFacts, PoolSeats
<1>7. ref \in [Page -> Int]
  BY <1>2, StateFacts, UnpinnedEachType
<1>8. front \in Partial(LeaseKey, FrontierState)
  <2>1. DOMAIN s.frontiers \ Due(s) \in SUBSET DOMAIN s.frontiers
    OBVIOUS
  <2> QED BY <2>1, StateFacts, RestrictType
<1>9. /\ pend \in Partial(LeaseKey, PendingState)
      /\ DOMAIN pend = DOMAIN s.pending \ Due(s)
      /\ \A k \in DOMAIN pend : pend[k] = s.pending[k]
  <2>1. DOMAIN s.pending \ Due(s) \in SUBSET DOMAIN s.pending
    OBVIOUS
  <2>2. /\ pend \in Partial(LeaseKey, PendingState)
        /\ DOMAIN pend = DOMAIN s.pending \ Due(s)
        /\ \A k \in DOMAIN s.pending \ Due(s) : pend[k] = s.pending[k]
    <3> DEFINE D == DOMAIN s.pending \ Due(s)
               r == Restrict(s.pending, D)
    <3>1. s.pending \in Partial(LeaseKey, PendingState) /\ D \in SUBSET DOMAIN s.pending
      BY StateFacts
    <3> HIDE DEF D
    <3>2. /\ r \in Partial(LeaseKey, PendingState)
          /\ DOMAIN r = D
          /\ \A k \in D : r[k] = s.pending[k]
      BY <3>1, RestrictType
    <3> QED BY <3>2 DEF D
  <2> HIDE DEF pend
  <2> QED BY <2>2
<1>10. pend \in PendingStates
  <2>1. IsFiniteSet(DOMAIN pend)
    BY <1>9, StateFacts, FS_Subset
  <2> QED BY <1>9, <2>1 DEF PendingStates
<1>11. Publish(s) = [s EXCEPT !.pool = pool, !.ref = ref, !.frontiers = front, !.pending = pend]
  BY <1>1
<1> HIDE DEF pool, ref, front, pend
<1>12. /\ Publish(s) \in State
       /\ Publish(s).pool = pool
       /\ Publish(s).pending = pend
  BY <1>6, <1>7, <1>8, <1>10, <1>11, Zenon DEF State
<1> QED BY <1>4, <1>6, <1>9, <1>12 DEF Undisturbed

-----------------------------------------------------------------------------
\* A request leaves its seat and its pages.

Rowed(queue) == \A i \in DOMAIN queue : FrameOK(queue[i])

\* r has no row beyond the first `fence` frames.
Covers(queue, r, fence) == \A i \in DOMAIN queue : r \in DOMAIN queue[i] => i <= fence

LEMMA LastFrameCovers ==
  ASSUME NEW T, NEW queue \in Seq(T), NEW r
  PROVE  LastFrame(queue, r) \in Nat /\ Covers(queue, r, LastFrame(queue, r))
<1> DEFINE S == {0} \cup {i \in DOMAIN queue : r \in DOMAIN queue[i]}
<1>1. Len(queue) \in Nat /\ DOMAIN queue = 1 .. Len(queue)
  BY LenProperties
<1>2. S \in SUBSET Nat /\ S # {} /\ \A y \in S : y <= Len(queue)
  BY <1>1
<1>3. LastFrame(queue, r) = Max(S)
  BY DEF LastFrame
<1>4. \A i \in DOMAIN queue : r \in DOMAIN queue[i] => i \in S
  OBVIOUS
<1> HIDE DEF S
<1>5. Max(S) \in S /\ \A y \in S : Max(S) >= y
  BY <1>1, <1>2, LargestOf, Zenon
<1>6. \A y \in S : y <= Max(S)
  BY <1>2, <1>5
<1> QED BY <1>2, <1>3, <1>4, <1>5, <1>6, Zenon DEF Covers

LEMMA UndisturbedKeeps ==
  ASSUME NEW s, NEW next, Undisturbed(s, next), NEW H, NEW queue, Rowed(queue),
         next.pending = s.pending \/
           /\ DOMAIN next.pending \subseteq DOMAIN s.pending
           /\ \A k \in DOMAIN next.pending : next.pending[k] = s.pending[k],
         \A k \in DOMAIN s.pending : k.seat \in Seats
  PROVE  /\ Seated(s, H) => Seated(next, H)
         /\ PendingKept(s) => PendingKept(next)
         /\ RowsKept(s, queue) => RowsKept(next, queue)
<1>1. \A i \in Seats : /\ next.pool.seat[i].owner = s.pool.seat[i].owner
                       /\ next.pool.seat[i].epoch = s.pool.seat[i].epoch
                       /\ next.pool.seat[i].fence = s.pool.seat[i].fence
                       /\ next.pool.seat[i].owner # Nobody =>
                            next.pool.seat[i].blocks = s.pool.seat[i].blocks
  BY DEF Undisturbed
<1>2. ASSUME Seated(s, H)
      PROVE  Seated(next, H)
  <2>1. Holders(next.pool) = Holders(s.pool)
    BY <1>1 DEF Holders
  <2> QED BY <1>1, <1>2, <2>1 DEF Seated
<1>3. ASSUME PendingKept(s)
      PROVE  PendingKept(next)
  <2>1. \A k \in DOMAIN next.pending :
          k \in DOMAIN s.pending /\ next.pending[k] = s.pending[k] /\ k.seat \in Seats
    OBVIOUS
  <2> QED BY <1>1, <1>3, <2>1 DEF PendingKept
<1>4. ASSUME RowsKept(s, queue)
      PROVE  RowsKept(next, queue)
  <2>1. \A i \in DOMAIN queue : \A r \in DOMAIN queue[i] : queue[i][r].seat \in Seats
    BY DEF Rowed, FrameOK
  <2> QED BY <1>1, <1>4, <2>1 DEF RowsKept
<1> QED BY <1>2, <1>3, <1>4

LEMMA PendingSeats ==
  ASSUME NEW s \in State
  PROVE  \A k \in DOMAIN s.pending :
           k.seat \in Seats /\ s.pending[k].fence \in Nat /\ k \in LeaseKey
<1>1. \A k \in DOMAIN s.pending : k \in LeaseKey /\ s.pending[k] \in PendingState
  BY StateFacts, PartialIs
<1> QED BY <1>1 DEF LeaseKey, PendingState

LEMMA NativeFreeFields ==
  ASSUME NEW s \in State, NEW r \in Request, NEW fence \in Nat
  PROVE  /\ NativeFree(s, r, fence) \in State
         /\ NativeFree(s, r, fence).pool = s.pool
         /\ NativeFree(s, r, fence).pending = s.pending
<1> DEFINE entry == [blocks |-> s.held[r], fence |-> fence]
           held == [s.held EXCEPT ![r] = <<>>]
           ref == IF fence = 0 THEN Unpinned(s.ref, s.held[r]) ELSE s.ref
           deferred == IF fence = 0 \/ s.held[r] = <<>> THEN s.deferred
                       ELSE Append(s.deferred, entry)
<1>1. NativeFree(s, r, fence) = [s EXCEPT !.held = held, !.ref = ref, !.deferred = deferred]
  BY DEF NativeFree
<1>2. held \in [Request -> Seq(Page)] /\ s.held[r] \in Seq(Page)
  BY StateFacts, EmptySeq
<1>3. ref \in [Page -> Int]
  BY StateFacts, PinnedType, Zenon
<1>4. deferred \in Seq(DeferredState)
  <2>1. entry \in DeferredState
    BY <1>2 DEF DeferredState
  <2> HIDE DEF entry
  <2>2. Append(s.deferred, entry) \in Seq(DeferredState)
    BY <2>1, StateFacts, AppendProperties
  <2> QED BY <2>2, StateFacts
<1> HIDE DEF held, ref, deferred
<1> QED BY <1>1, <1>2, <1>3, <1>4, Zenon DEF State

LEMMA LeaveSeatFields ==
  ASSUME NEW s \in State, NEW r \in Request, r \in Holders(s.pool),
         NEW finished \in BOOLEAN, NEW fence \in Nat
  PROVE  LET i    == SeatOf(s.pool, r)
             key  == [rid |-> r, seat |-> i, epoch |-> s.pool.seat[i].epoch]
             next == LeaveSeat(s, r, finished, fence)
         IN  /\ next \in State
             /\ next.pool = Retire(s.pool, r, fence)
             /\ finished =>
                  /\ DOMAIN next.pending = DOMAIN s.pending \cup {key}
                  /\ next.pending[key].fence = fence
                  /\ \A k \in DOMAIN s.pending \ {key} : next.pending[k] = s.pending[k]
             /\ ~finished => next.pending = s.pending
<1> DEFINE i == SeatOf(s.pool, r)
           key == [rid |-> r, seat |-> i, epoch |-> s.pool.seat[i].epoch]
           entry == [fence |-> fence, salt |-> SaltOf[r], blocks |-> s.held[r]]
           put == Put(s.pending, key, entry)
           pend == IF finished THEN put ELSE s.pending
           ref == IF finished THEN Pinned(s.ref, s.held[r]) ELSE s.ref
           cut == Restrict(s.frontiers, DOMAIN s.frontiers \ {key})
           front == IF finished THEN s.frontiers ELSE cut
           pool == Retire(s.pool, r, fence)
           offers == [s.offers EXCEPT ![r] = NoOffer]
<1>1. LeaveSeat(s, r, finished, fence) =
        [s EXCEPT !.pending = pend, !.ref = ref, !.frontiers = front, !.pool = pool,
                  !.offers = offers]
  BY DEF LeaveSeat
<1>2. key \in LeaseKey
  <2>1. i \in Seats
    BY SeatOfOwner
  <2> HIDE DEF i
  <2> QED BY <2>1, StateFacts, PoolFacts DEF LeaseKey
<1>3. entry \in PendingState
  BY StateFacts, Zenon DEF PendingState, Salt
<1>4. pool \in Pool
  BY StateFacts, RetireFields
<1> HIDE DEF key, entry
<1>5. /\ put \in Partial(LeaseKey, PendingState)
      /\ DOMAIN put = DOMAIN s.pending \cup {key}
      /\ put[key] = entry
      /\ \A k \in DOMAIN s.pending \ {key} : put[k] = s.pending[k]
  <2>1. s.pending \in Partial(LeaseKey, PendingState)
    BY StateFacts
  <2>2. put \in Partial(LeaseKey, PendingState)
    BY <1>2, <1>3, <2>1, PutType
  <2>3. /\ DOMAIN put = DOMAIN s.pending \cup {key}
        /\ put[key] = entry
        /\ \A k \in DOMAIN s.pending \ {key} : put[k] = s.pending[k]
    <3>1. DOMAIN put = DOMAIN s.pending \cup {key}
      BY PutKeys, Zenon
    <3>2. put[key] = entry
      BY PutAt
    <3>3. ASSUME NEW k \in DOMAIN s.pending \ {key}
          PROVE  put[k] = s.pending[k]
      BY PutElsewhere
    <3> HIDE DEF put
    <3> QED BY <3>1, <3>2, <3>3
  <2> HIDE DEF put
  <2> QED BY <2>2, <2>3
<1>6. put \in PendingStates
  <2>1. IsFiniteSet(DOMAIN put)
    <3>1. IsFiniteSet(DOMAIN s.pending \cup {key})
      BY StateFacts, FS_AddElement, Zenon
    <3> QED BY <1>5, <3>1
  <2> QED BY <1>5, <2>1 DEF PendingStates
<1> HIDE DEF put
<1>7. pend \in PendingStates
  BY <1>6 DEF State
<1>8. ref \in [Page -> Int]
  BY StateFacts, PinnedType, Zenon
<1>9. front \in Partial(LeaseKey, FrontierState)
  <2> DEFINE D == DOMAIN s.frontiers \ {key}
  <2>1. D \in SUBSET DOMAIN s.frontiers /\ s.frontiers \in Partial(LeaseKey, FrontierState)
    BY StateFacts
  <2> HIDE DEF D
  <2>2. Restrict(s.frontiers, D) \in Partial(LeaseKey, FrontierState)
    BY <2>1, RestrictType
  <2> QED BY <2>1, <2>2 DEF D
<1>10. offers \in [Request -> OfferState \cup {NoOffer}]
  BY StateFacts
<1> HIDE DEF ref, front, pool, offers
<1>11. /\ LeaveSeat(s, r, finished, fence) \in State
       /\ LeaveSeat(s, r, finished, fence).pool = pool
       /\ LeaveSeat(s, r, finished, fence).pending = pend
  <2> HIDE DEF pend
  <2> QED BY <1>1, <1>4, <1>7, <1>8, <1>9, <1>10, Zenon DEF State
<1>12. put[key].fence = fence
  BY <1>5 DEF entry
<1> QED BY <1>5, <1>11, <1>12 DEF pool, key

\* The seats of the other requests stay theirs.
OthersStay(s, next, r) ==
  \A j \in Seats : s.pool.seat[j].owner \notin {r, Nobody} =>
    /\ next.pool.seat[j].owner = s.pool.seat[j].owner
    /\ next.pool.seat[j].epoch = s.pool.seat[j].epoch

LEMMA LeaveSeatKeeps ==
  ASSUME NEW s \in State, NEW r \in Request, r \in Holders(s.pool),
         NEW finished \in BOOLEAN, NEW fence \in Nat,
         NEW H, Seated(s, H), PendingKept(s),
         NEW queue, Rowed(queue), RowsKept(s, queue), Covers(queue, r, fence)
  PROVE  LET next == LeaveSeat(s, r, finished, fence)
         IN  /\ Seated(next, H \ {r}) /\ PendingKept(next) /\ RowsKept(next, queue)
             /\ OthersStay(s, next, r)
<1>0. SeatOf(s.pool, r) \in Seats /\ s.pool.seat[SeatOf(s.pool, r)].owner = r /\ r # Nobody
  BY SeatOfOwner
<1> SUFFICES ASSUME NEW i \in Seats, i = SeatOf(s.pool, r)
             PROVE  LET next == LeaveSeat(s, r, finished, fence)
                    IN  /\ Seated(next, H \ {r}) /\ PendingKept(next) /\ RowsKept(next, queue)
                        /\ OthersStay(s, next, r)
  BY <1>0
<1> DEFINE key  == [rid |-> r, seat |-> i, epoch |-> s.pool.seat[i].epoch]
           next == LeaveSeat(s, r, finished, fence)
<1>1. /\ next.pool = Retire(s.pool, r, fence)
      /\ finished => /\ DOMAIN next.pending = DOMAIN s.pending \cup {key}
                     /\ next.pending[key].fence = fence
                     /\ \A k \in DOMAIN s.pending \ {key} : next.pending[k] = s.pending[k]
      /\ ~finished => next.pending = s.pending
  BY LeaveSeatFields
<1> HIDE DEF next
<1>2. /\ next.pool.seat[i].owner = Nobody
      /\ next.pool.seat[i].fence = fence
      /\ next.pool.seat[i].epoch = s.pool.seat[i].epoch
      /\ next.pool.seat[i].blocks = <<>>
      /\ \A j \in Seats \ {i} : next.pool.seat[j] = s.pool.seat[j]
  BY <1>1, StateFacts, RetireFields
<1>3. s.pool.seat[i].owner = r /\ r # Nobody
  BY <1>0
<1>4. Seated(next, H \ {r})
  <2>1. /\ Holders(s.pool) = H
        /\ \A a, b \in Seats : s.pool.seat[a].owner = s.pool.seat[b].owner
                               /\ s.pool.seat[a].owner # Nobody => a = b
        /\ \A a \in Seats : s.pool.seat[a].owner # Nobody => s.pool.seat[a].blocks = <<>>
    BY DEF Seated
  <2>2. \A a \in Seats : s.pool.seat[a].owner = r <=> a = i
    BY <1>3, <2>1
  <2>3. Holders(next.pool) = Holders(s.pool) \ {r}
    BY <1>2, <1>3, <2>2 DEF Holders
  <2> QED BY <1>2, <2>1, <2>3 DEF Seated
<1>5. PendingKept(next)
  <2>1. ASSUME NEW k \in DOMAIN s.pending
        PROVE  /\ k.seat \in Seats
               /\ k.seat # i
               /\ s.pool.seat[k.seat].owner = Nobody
               /\ s.pool.seat[k.seat].epoch = k.epoch
               /\ s.pool.seat[k.seat].fence = s.pending[k].fence
               /\ k # key
    <3>1. /\ k.seat \in Seats
          /\ s.pool.seat[k.seat].owner = Nobody
          /\ s.pool.seat[k.seat].epoch = k.epoch
          /\ s.pool.seat[k.seat].fence = s.pending[k].fence
      BY PendingSeats DEF PendingKept
    <3>2. k.seat # i
      BY <1>3, <3>1
    <3> QED BY <3>1, <3>2
  <2>2. key.seat = i /\ key.epoch = s.pool.seat[i].epoch
    OBVIOUS
  <2> HIDE DEF key
  <2>3. CASE finished
    BY <1>1, <1>2, <2>1, <2>2, <2>3 DEF PendingKept
  <2>4. CASE ~finished
    BY <1>1, <1>2, <2>1, <2>4 DEF PendingKept
  <2> QED BY <2>3, <2>4
<1>6. RowsKept(next, queue)
  <2> SUFFICES ASSUME NEW n \in DOMAIN queue, NEW q \in DOMAIN queue[n],
                      NEW a, a = queue[n][q].seat
               PROVE  /\ next.pool.seat[a].epoch = queue[n][q].epoch
                      /\ next.pool.seat[a].owner \in {q, Nobody}
                      /\ next.pool.seat[a].owner = Nobody => next.pool.seat[a].fence >= n
    BY DEF RowsKept
  <2>1. /\ s.pool.seat[a].epoch = queue[n][q].epoch
        /\ s.pool.seat[a].owner \in {q, Nobody}
        /\ s.pool.seat[a].owner = Nobody => s.pool.seat[a].fence >= n
    BY DEF RowsKept
  <2>2. a \in Seats
    BY DEF Rowed, FrameOK
  <2>3. CASE a = i
    <3>1. q = r
      BY <1>3, <2>1, <2>3
    <3>2. n <= fence
      BY <3>1 DEF Covers
    <3> QED BY <1>2, <2>1, <2>3, <3>2
  <2>4. CASE a # i
    BY <1>2, <2>1, <2>2, <2>4
  <2> QED BY <2>3, <2>4
<1>7. OthersStay(s, next, r)
  BY <1>2, <1>3 DEF OthersStay
<1> QED BY <1>4, <1>5, <1>6, <1>7 DEF next

LEMMA FreeRequestBlocksKeeps ==
  ASSUME NEW s \in State, NEW r \in Request,
         NEW finished \in BOOLEAN, NEW fence \in Nat,
         NEW H, Seated(s, H), PendingKept(s),
         NEW queue, Rowed(queue), RowsKept(s, queue), Covers(queue, r, fence)
  PROVE  LET next == FreeRequestBlocks(s, r, finished, fence)
         IN  /\ next \in State
             /\ Seated(next, H \ {r})
             /\ PendingKept(next) /\ NoneDue(next)
             /\ RowsKept(next, queue)
             /\ OthersStay(s, next, r)
<1> DEFINE left == IF r \in Holders(s.pool) THEN LeaveSeat(s, r, finished, fence) ELSE s
           freed == NativeFree(left, r, fence)
           next == Publish(freed)
<1>1. FreeRequestBlocks(s, r, finished, fence) = next
  BY DEF FreeRequestBlocks
<1>2. /\ left \in State
      /\ Seated(left, H \ {r})
      /\ PendingKept(left)
      /\ RowsKept(left, queue)
      /\ OthersStay(s, left, r)
  <2>1. CASE r \in Holders(s.pool)
    <3>1. left = LeaveSeat(s, r, finished, fence)
      BY <2>1
    <3> HIDE DEF left
    <3>2. left \in State
      BY <2>1, <3>1, LeaveSeatFields, Zenon
    <3> QED BY <2>1, <3>1, <3>2, LeaveSeatKeeps
  <2>2. CASE r \notin Holders(s.pool)
    <3>1. H \ {r} = H
      BY <2>2 DEF Seated
    <3> QED BY <2>2, <3>1 DEF OthersStay
  <2> QED BY <2>1, <2>2
<1> HIDE DEF left
<1>3. freed \in State /\ freed.pool = left.pool /\ freed.pending = left.pending
  BY <1>2, NativeFreeFields
<1> HIDE DEF freed
<1>4. /\ Seated(freed, H \ {r})
      /\ PendingKept(freed)
      /\ RowsKept(freed, queue)
  BY <1>2, <1>3 DEF Seated, PendingKept, RowsKept
<1>5. /\ next \in State
      /\ Undisturbed(freed, next)
      /\ DOMAIN next.pending = DOMAIN freed.pending \ Due(freed)
      /\ \A k \in DOMAIN next.pending : next.pending[k] = freed.pending[k]
  BY <1>3, <1>4, PublishFields
<1> HIDE DEF next
<1>6. \A k \in DOMAIN freed.pending : k.seat \in Seats /\ freed.pending[k].fence \in Nat
  BY <1>3, PendingSeats
<1>7. NoneDue(next)
  <2>1. \A k \in DOMAIN next.pending : k \in DOMAIN freed.pending /\ k \notin Due(freed)
    BY <1>5
  <2>2. \A k \in DOMAIN next.pending : freed.pending[k].fence # 0
    BY <2>1 DEF Due
  <2> QED BY <1>5, <1>6, <2>1, <2>2 DEF NoneDue
<1>8. /\ Seated(next, H \ {r})
      /\ PendingKept(next)
      /\ RowsKept(next, queue)
  BY <1>4, <1>5, <1>6, UndisturbedKeeps
<1>9. OthersStay(s, next, r)
  BY <1>2, <1>3, <1>5 DEF OthersStay, Undisturbed
<1> QED BY <1>1, <1>5, <1>7, <1>8, <1>9

-----------------------------------------------------------------------------
\* A frame retires.

LEMMA ExpiredFields ==
  ASSUME NEW s \in State
  PROVE  /\ Expired(s) \in State
         /\ Expired(s).pool = s.pool
         /\ Expired(s).pending = s.pending
<1> DEFINE down == [j \in DOMAIN s.deferred |-> [s.deferred[j] EXCEPT !.fence = @ - 1]]
           due == {j \in DOMAIN down : down[j].fence <= 0}
           ref == UnpinnedEach(s.ref, [j \in due |-> down[j].blocks])
           deferred == Only(down, {d \in Range(down) : d.fence > 0})
<1>1. Expired(s) = [s EXCEPT !.ref = ref, !.deferred = deferred]
  BY DEF Expired
<1>2. /\ s.deferred \in Seq(DeferredState) /\ Len(s.deferred) \in Nat
      /\ DOMAIN s.deferred = 1 .. Len(s.deferred)
      /\ \A j \in DOMAIN s.deferred : s.deferred[j] \in DeferredState
  BY StateFacts, LenProperties, ElementOfSeq
<1>3. \A j \in DOMAIN s.deferred : down[j] \in DeferredState
  <2> TAKE j \in DOMAIN s.deferred
  <2> DEFINE d == s.deferred[j]
             f == d.fence - 1
  <2>1. d \in DeferredState
    BY <1>2
  <2>2. down[j] = [d EXCEPT !.fence = f]
    OBVIOUS
  <2> HIDE DEF d, down
  <2>3. f \in Int
    BY <2>1 DEF DeferredState
  <2> HIDE DEF f
  <2> QED BY <2>1, <2>2, <2>3 DEF DeferredState
<1>4. down \in Seq(DeferredState)
  <2>1. down = [j \in 1 .. Len(s.deferred) |-> down[j]]
    BY <1>2
  <2> HIDE DEF down
  <2>2. down \in [1 .. Len(s.deferred) -> DeferredState]
    BY <1>2, <1>3, <2>1, Zenon
  <2> QED BY <1>2, <2>2
<1>5. IsFiniteSet(due)
  <2>1. due \subseteq 1 .. Len(s.deferred)
    BY <1>2
  <2> HIDE DEF due
  <2>2. IsFiniteSet(1 .. Len(s.deferred))
    BY <1>2, FS_Interval
  <2> QED BY <2>1, <2>2, FS_Subset, Zenon
<1> HIDE DEF down, due
<1>6. ref \in [Page -> Int]
  BY <1>5, StateFacts, UnpinnedEachType, Zenon
<1>7. deferred \in Seq(DeferredState)
  BY <1>4, OnlyPlaces
<1> HIDE DEF ref, deferred
<1> QED BY <1>1, <1>6, <1>7, Zenon DEF State

LEMMA CloserType ==
  ASSUME NEW x, x \in SeatState \/ x \in PendingState
  PROVE  /\ x \in SeatState => Closer(x) \in SeatState
         /\ x \in PendingState => Closer(x) \in PendingState
         /\ Closer(x).fence = IF x.fence >= 1 THEN x.fence - 1 ELSE 0
         /\ x \in SeatState => /\ Closer(x).owner = x.owner
                               /\ Closer(x).epoch = x.epoch
                               /\ Closer(x).blocks = x.blocks
<1> DEFINE f == Max({0, x.fence - 1})
<1>1. x.fence \in Nat
  BY DEF SeatState, PendingState
<1>2. f = IF x.fence >= 1 THEN x.fence - 1 ELSE 0
  BY <1>1, MaxOfTwo
<1>3. Closer(x) = [x EXCEPT !.fence = f]
  BY DEF Closer
<1> HIDE DEF f
<1>4. f \in Nat
  BY <1>1, <1>2
<1>5. CASE x \in SeatState
  <2>1. /\ Closer(x) \in SeatState
        /\ Closer(x).fence = f
        /\ Closer(x).owner = x.owner
        /\ Closer(x).epoch = x.epoch
        /\ Closer(x).blocks = x.blocks
    BY <1>3, <1>4, <1>5, Zenon DEF SeatState
  <2>2. x \notin PendingState
    BY <1>5 DEF SeatState, PendingState
  <2> QED BY <1>2, <2>1, <2>2
<1>6. CASE x \in PendingState
  <2>1. /\ Closer(x) \in PendingState
        /\ Closer(x).fence = f
    BY <1>3, <1>4, <1>6 DEF PendingState
  <2>2. x \notin SeatState
    BY <1>6 DEF SeatState, PendingState
  <2> QED BY <1>2, <2>1, <2>2
<1> QED BY <1>5, <1>6

LEMMA ElapsedFields ==
  ASSUME NEW s \in State
  PROVE  LET next == Elapsed(s)
             down(n) == IF n >= 1 THEN n - 1 ELSE 0
         IN  /\ next \in State
             /\ \A i \in Seats :
                  /\ next.pool.seat[i].owner = s.pool.seat[i].owner
                  /\ next.pool.seat[i].epoch = s.pool.seat[i].epoch
                  /\ next.pool.seat[i].fence = down(s.pool.seat[i].fence)
                  /\ next.pool.seat[i].blocks = s.pool.seat[i].blocks
             /\ DOMAIN next.pending = DOMAIN s.pending
             /\ \A k \in DOMAIN s.pending :
                  next.pending[k].fence = down(s.pending[k].fence)
<1> DEFINE old == Expired(s)
           down(n) == IF n >= 1 THEN n - 1 ELSE 0
           seat == [i \in Seats |-> Closer(s.pool.seat[i])]
           pend == [k \in DOMAIN s.pending |-> Closer(s.pending[k])]
           pool == [s.pool EXCEPT !.seat = seat]
           next == Elapsed(s)
<1>1. old \in State /\ old.pool = s.pool /\ old.pending = s.pending
  BY ExpiredFields
<1>2. next = [old EXCEPT !.pool.seat = [i \in Seats |-> Closer(old.pool.seat[i])],
                         !.pending = [k \in DOMAIN old.pending |-> Closer(old.pending[k])]]
  BY DEF Elapsed
<1> HIDE DEF next, old
<1>3. next = [old EXCEPT !.pool = pool, !.pending = pend]
  BY <1>1, <1>2
<1>4. \A i \in Seats : /\ seat[i] \in SeatState
                       /\ seat[i].owner = s.pool.seat[i].owner
                       /\ seat[i].epoch = s.pool.seat[i].epoch
                       /\ seat[i].fence = down(s.pool.seat[i].fence)
                       /\ seat[i].blocks = s.pool.seat[i].blocks
  <2> TAKE i \in Seats
  <2>1. s.pool.seat[i] \in SeatState
    BY StateFacts, PoolFacts
  <2>2. seat[i] = Closer(s.pool.seat[i])
    OBVIOUS
  <2> HIDE DEF seat
  <2> QED BY <2>1, <2>2, CloserType
<1>5. seat \in [Seats -> SeatState]
  <2>1. seat = [i \in Seats |-> seat[i]]
    OBVIOUS
  <2> HIDE DEF seat
  <2> QED BY <1>4, <2>1
<1> HIDE DEF seat
<1>6. pool \in Pool /\ pool.seat = seat
  BY <1>5, StateFacts, PoolSeats
<1>7. \A k \in DOMAIN s.pending : /\ pend[k] \in PendingState
                                  /\ pend[k].fence = down(s.pending[k].fence)
  <2> TAKE k \in DOMAIN s.pending
  <2>1. s.pending[k] \in PendingState
    BY StateFacts, PartialIs
  <2>2. pend[k] = Closer(s.pending[k])
    OBVIOUS
  <2> HIDE DEF pend
  <2> QED BY <2>1, <2>2, CloserType
<1>8. pend \in PendingStates /\ DOMAIN pend = DOMAIN s.pending
  <2>1. pend = [k \in DOMAIN s.pending |-> pend[k]] /\ DOMAIN pend = DOMAIN s.pending
    OBVIOUS
  <2> HIDE DEF pend
  <2>2. DOMAIN s.pending \in SUBSET LeaseKey /\ IsFiniteSet(DOMAIN s.pending)
    BY StateFacts, PartialIs
  <2>3. pend \in Partial(LeaseKey, PendingState)
    BY <1>7, <2>1, <2>2, PartialIs
  <2> QED BY <2>1, <2>2, <2>3 DEF PendingStates
<1> HIDE DEF pend, pool
<1>9. next \in State /\ next.pool = pool /\ next.pending = pend
  BY <1>1, <1>3, <1>6, <1>8, Zenon DEF State
<1> QED BY <1>4, <1>6, <1>7, <1>8, <1>9 DEF next

\* The oldest frame leaves the queue and the fences come one frame closer.
LEMMA ElapsedKeeps ==
  ASSUME NEW s \in State, NEW H, Seated(s, H), PendingKept(s),
         NEW T, NEW queue \in Seq(T), queue # <<>>, Rowed(queue), RowsKept(s, queue)
  PROVE  LET next == Elapsed(s)
         IN  /\ next \in State /\ Seated(next, H) /\ PendingKept(next)
             /\ Rowed(Tail(queue)) /\ RowsKept(next, Tail(queue))
<1> DEFINE next == Elapsed(s)
           down(n) == IF n >= 1 THEN n - 1 ELSE 0
           rest == Tail(queue)
<1>1. /\ next \in State
      /\ \A i \in Seats :
           /\ next.pool.seat[i].owner = s.pool.seat[i].owner
           /\ next.pool.seat[i].epoch = s.pool.seat[i].epoch
           /\ next.pool.seat[i].fence = down(s.pool.seat[i].fence)
           /\ next.pool.seat[i].blocks = s.pool.seat[i].blocks
      /\ DOMAIN next.pending = DOMAIN s.pending
      /\ \A k \in DOMAIN s.pending : next.pending[k].fence = down(s.pending[k].fence)
  BY ElapsedFields
<1> HIDE DEF next
<1>2. Seated(next, H)
  <2>1. Holders(next.pool) = Holders(s.pool)
    BY <1>1 DEF Holders
  <2> QED BY <1>1, <2>1 DEF Seated
<1>3. PendingKept(next)
  <2> SUFFICES ASSUME NEW k \in DOMAIN next.pending
               PROVE  /\ next.pool.seat[k.seat].owner = Nobody
                      /\ next.pool.seat[k.seat].epoch = k.epoch
                      /\ next.pool.seat[k.seat].fence = next.pending[k].fence
    BY DEF PendingKept
  <2>1. /\ k.seat \in Seats
        /\ s.pool.seat[k.seat].owner = Nobody
        /\ s.pool.seat[k.seat].epoch = k.epoch
        /\ s.pool.seat[k.seat].fence = s.pending[k].fence
    BY <1>1, PendingSeats DEF PendingKept
  <2> QED BY <1>1, <2>1
<1>4. /\ Len(queue) \in Nat /\ DOMAIN queue = 1 .. Len(queue)
      /\ DOMAIN rest = 1 .. Len(rest) /\ Len(rest) = Len(queue) - 1
      /\ \A i \in 1 .. Len(rest) : rest[i] = queue[i + 1]
  BY LenProperties, HeadTailProperties
<1> HIDE DEF rest
<1>5. \A i \in DOMAIN rest : i \in Nat /\ i + 1 \in DOMAIN queue /\ rest[i] = queue[i + 1]
  BY <1>4
<1>6. Rowed(rest)
  BY <1>5 DEF Rowed
<1>7. RowsKept(next, rest)
  <2> SUFFICES ASSUME NEW i \in DOMAIN rest, NEW r \in DOMAIN rest[i],
                      NEW a, a = rest[i][r].seat
               PROVE  /\ next.pool.seat[a].epoch = rest[i][r].epoch
                      /\ next.pool.seat[a].owner \in {r, Nobody}
                      /\ next.pool.seat[a].owner = Nobody => next.pool.seat[a].fence >= i
    BY DEF RowsKept
  <2>1. /\ s.pool.seat[a].epoch = rest[i][r].epoch
        /\ s.pool.seat[a].owner \in {r, Nobody}
        /\ s.pool.seat[a].owner = Nobody => s.pool.seat[a].fence >= i + 1
    BY <1>5 DEF RowsKept
  <2>2. a \in Seats
    BY <1>6 DEF Rowed, FrameOK
  <2>3. s.pool.seat[a].fence \in Nat
    BY <2>2, StateFacts, PoolFacts
  <2>4. i \in Nat
    BY <1>5
  <2>5. next.pool.seat[a].fence = down(s.pool.seat[a].fence)
    BY <1>1, <2>2
  <2>6. s.pool.seat[a].fence >= i + 1 => next.pool.seat[a].fence >= i
    BY <2>3, <2>4, <2>5
  <2> HIDE DEF down
  <2>7. next.pool.seat[a].epoch = s.pool.seat[a].epoch
        /\ next.pool.seat[a].owner = s.pool.seat[a].owner
    BY <1>1, <2>2
  <2> QED BY <2>1, <2>6, <2>7
<1> QED BY <1>1, <1>2, <1>3, <1>6, <1>7 DEF next, rest

-----------------------------------------------------------------------------
\* The frontiers follow the samples.

Followed == [tokens : Seq(Token), cursor : Int, known : BOOLEAN, remaining : Int,
             prompt : Nat]

LEMMA FollowedIs ==
  ASSUME NEW f
  PROVE  f \in FrontierState <=> /\ f \in Followed
                                 /\ f.known /\ f.cursor > 0 => f.cursor < Len(f.tokens)
  BY DEF FrontierState, Followed

LEMMA LostType ==
  ASSUME NEW f \in Followed
  PROVE  Lost(f) \in FrontierState
<1>1. Lost(f) \in Followed /\ ~Lost(f).known
  BY Zenon DEF Lost, Followed
<1> QED BY <1>1, FollowedIs

LEMMA CheckedType ==
  ASSUME NEW f \in Followed
  PROVE  Checked(f) \in FrontierState
<1>1. f.cursor \in Int /\ Len(f.tokens) \in Nat
  BY LenProperties DEF Followed
<1>2. CASE f.cursor >= Len(f.tokens)
  BY <1>2, LostType DEF Checked
<1>3. CASE ~(f.cursor >= Len(f.tokens))
  <2>1. f.cursor < Len(f.tokens) /\ Checked(f) = f
    BY <1>1, <1>3 DEF Checked
  <2> QED BY <2>1, FollowedIs
<1> QED BY <1>2, <1>3

LEMMA AdvancePromptType ==
  ASSUME NEW f \in Followed, NEW query \in Int, NEW drafts \in Int,
         NEW sampled \in Seq(Token)
  PROVE  AdvancePrompt(f, query, drafts, sampled) \in FrontierState
<1> DEFINE c == f.cursor + query
           g == [f EXCEPT !.cursor = c]
           t == g.tokens \o sampled
           n == g.remaining - 1
           h == [g EXCEPT !.tokens = t, !.remaining = n]
<1>1. c \in Int
  BY DEF Followed
<1>2. AdvancePrompt(f, query, drafts, sampled) \in {Lost(g), Checked(h), Checked(g)}
  <2> HIDE DEF h
  <2>1. \/ g.cursor > f.prompt \/ drafts > 0
        \/ g.cursor = f.prompt /\ drafts = 0
        \/ ~((g.cursor > f.prompt \/ drafts > 0) \/ (g.cursor = f.prompt /\ drafts = 0))
    OBVIOUS
  <2>2. g = [f EXCEPT !.cursor = f.cursor + query]
    OBVIOUS
  <2>3. h = [g EXCEPT !.tokens = g.tokens \o sampled, !.remaining = g.remaining - 1]
    BY DEF h
  <2> HIDE DEF g
  <2>4. AdvancePrompt(f, query, drafts, sampled) =
          CASE g.cursor > f.prompt \/ drafts > 0 -> Lost(g)
            [] g.cursor = f.prompt /\ drafts = 0 ->
                 IF Len(sampled) # 1 THEN Lost(g) ELSE Checked(h)
            [] OTHER -> Checked(g)
    BY <2>2, <2>3 DEF AdvancePrompt
  <2>5. CASE g.cursor > f.prompt \/ drafts > 0
    <3>1. ~(g.cursor = f.prompt /\ drafts = 0)
      <4>1. g.cursor \in Int /\ f.prompt \in Int
        BY <1>1 DEF Followed, g
      <4> QED BY <2>5, <4>1
    <3> QED BY <2>4, <2>5, <3>1
  <2>6. CASE g.cursor = f.prompt /\ drafts = 0
    <3>1. ~(g.cursor > f.prompt \/ drafts > 0)
      <4>1. g.cursor \in Int /\ f.prompt \in Int
        BY <1>1 DEF Followed, g
      <4> QED BY <2>6, <4>1
    <3> QED BY <2>4, <2>6, <3>1
  <2>7. CASE ~((g.cursor > f.prompt \/ drafts > 0) \/ (g.cursor = f.prompt /\ drafts = 0))
    BY <2>4, <2>7
  <2> QED BY <2>5, <2>6, <2>7
<1> HIDE DEF c
<1>3. g \in Followed
  BY <1>1, Zenon DEF Followed
<1> HIDE DEF g
<1>4. t \in Seq(Token) /\ n \in Int
  BY <1>3, ConcatProperties DEF Followed
<1> HIDE DEF t, n
<1>5. h \in Followed
  BY <1>3, <1>4, Zenon DEF Followed
<1> HIDE DEF h
<1> QED BY <1>2, <1>3, <1>5, LostType, CheckedType

LEMMA AdvanceOutputType ==
  ASSUME NEW f \in Followed, NEW query \in Int, NEW drafts \in Int,
         NEW sampled \in Seq(Token)
  PROVE  AdvanceOutput(f, query, drafts, sampled) \in FrontierState
<1> DEFINE taken == SubSeq(sampled, 1, Min({Len(sampled), f.remaining}))
           t == f.tokens \o taken
           c == f.cursor + Len(taken)
           n == f.remaining - Len(taken)
           h == [f EXCEPT !.tokens = t, !.cursor = c, !.remaining = n]
<1>1. AdvanceOutput(f, query, drafts, sampled) =
        IF query - drafts # 1 \/ sampled = <<>> THEN Lost(f) ELSE Checked(h)
  BY DEF AdvanceOutput
<1>2. taken \in Seq(Token)
  <2>1. Len(sampled) \in Int /\ f.remaining \in Int
    BY LenProperties DEF Followed
  <2> DEFINE m == Min({Len(sampled), f.remaining})
  <2>2. m \in Int /\ m <= Len(sampled)
    BY <2>1, MinOfTwo
  <2> HIDE DEF m
  <2>3. SubSeq(sampled, 1, m) \in Seq(Token)
    BY <2>2, PrefixType
  <2> QED BY <2>3, Zenon DEF m
<1> HIDE DEF taken
<1>3. t \in Seq(Token) /\ c \in Int /\ n \in Int
  BY <1>2, ConcatProperties, LenProperties DEF Followed
<1> HIDE DEF t, c, n
<1>4. h \in Followed
  BY <1>3, Zenon DEF Followed
<1> HIDE DEF h
<1> QED BY <1>1, <1>4, LostType, CheckedType

LEMMA AdvanceType ==
  ASSUME NEW f \in FrontierState, NEW query \in Int, NEW drafts \in Int,
         NEW sampled \in Seq(Token)
  PROVE  Advance(f, query, drafts, sampled) \in FrontierState
<1>1. Advance(f, query, drafts, sampled) \in
        {f, AdvancePrompt(f, query, drafts, sampled), AdvanceOutput(f, query, drafts, sampled)}
  BY DEF Advance
<1>2. f \in Followed
  BY FollowedIs
<1> QED BY <1>1, <1>2, AdvancePromptType, AdvanceOutputType

LEMMA AdvancedFields ==
  ASSUME NEW s \in State, NEW frame, FrameOK(frame),
         NEW sampled, \A r \in DOMAIN frame : sampled[r] \in Seq(Token)
  PROVE  /\ Advanced(s, frame, sampled) \in State
         /\ Advanced(s, frame, sampled).pool = s.pool
         /\ Advanced(s, frame, sampled).pending = s.pending
<1> DEFINE new(k) == IF /\ k.rid \in DOMAIN frame
                        /\ frame[k.rid].seat = k.seat /\ frame[k.rid].epoch = k.epoch
                     THEN Advance(s.frontiers[k], frame[k.rid].query, frame[k.rid].drafts,
                                  sampled[k.rid])
                     ELSE s.frontiers[k]
           front == [k \in DOMAIN s.frontiers |-> new(k)]
<1>1. Advanced(s, frame, sampled) = [s EXCEPT !.frontiers = front]
  BY DEF Advanced
<1>2. DOMAIN s.frontiers \in SUBSET LeaseKey
      /\ \A k \in DOMAIN s.frontiers : s.frontiers[k] \in FrontierState
  BY StateFacts, PartialIs
<1>3. ASSUME NEW k \in DOMAIN s.frontiers
      PROVE  new(k) \in FrontierState
  <2>1. CASE /\ k.rid \in DOMAIN frame
             /\ frame[k.rid].seat = k.seat /\ frame[k.rid].epoch = k.epoch
    <3>1. frame[k.rid].query \in Int /\ frame[k.rid].drafts \in Int
          /\ sampled[k.rid] \in Seq(Token)
      BY <2>1 DEF FrameOK
    <3> QED BY <1>2, <2>1, <3>1, AdvanceType
  <2>2. CASE ~(/\ k.rid \in DOMAIN frame
               /\ frame[k.rid].seat = k.seat /\ frame[k.rid].epoch = k.epoch)
    BY <1>2, <2>2
  <2> QED BY <2>1, <2>2
<1>4. front \in Partial(LeaseKey, FrontierState)
  <2>1. front = [k \in DOMAIN front |-> front[k]] /\ DOMAIN front = DOMAIN s.frontiers
        /\ \A k \in DOMAIN front : front[k] \in FrontierState
    BY <1>3
  <2> HIDE DEF front
  <2> QED BY <1>2, <2>1, PartialIs
<1> HIDE DEF front
<1> QED BY <1>1, <1>4, Zenon DEF State

-----------------------------------------------------------------------------
\* Requests end one after the other.

\* The state after the i-th request has ended, and after all of them.
EndedOne(s, ended, i, queue) ==
  FreeRequestBlocks(s, ended[i], TRUE, LastFrame(queue, ended[i]))

EndedIn(A, ended, queue) ==
  \A x \in A : \A i \in 1 .. Len(ended) : EndedOne(x, ended, i, queue) \in A

EndedBy(f, A, s, ended, queue) ==
  /\ f \in [0 .. Len(ended) -> A]
  /\ f[0] = s
  /\ \A i \in 1 .. Len(ended) : f[i] = EndedOne(f[i - 1], ended, i, queue)
  /\ f[Len(ended)] = Ended(s, ended, queue)

LEMMA EndedRuns ==
  ASSUME NEW A, NEW s \in A, NEW queue, NEW ended, Len(ended) \in Nat,
         EndedIn(A, ended, queue)
  PROVE  \E f : EndedBy(f, A, s, ended, queue)
<1> DEFINE n == Len(ended)
           one(x, i) == EndedOne(x, ended, i, queue)
           Loop(f) == f = [i \in 0 .. n |-> IF i = 0 THEN s ELSE one(f[i - 1], i)]
           after == CHOOSE f : Loop(f)
           step == [x \in A \X (1 .. n) |-> one(x[1], x[2])]
<1>1. Ended(s, ended, queue) = after[n]
  BY DEF Ended, EndedOne
<1>2. n \in Nat /\ n \in 0 .. n /\ 0 \in 0 .. n
  OBVIOUS
<1>3. \A x \in A : \A i \in 1 .. n : one(x, i) \in A
  BY DEF EndedIn
<1> HIDE DEF n, one
<1>4. step \in [A \X (1 .. n) -> A] /\ \A x \in A : \A i \in 1 .. n : step[<<x, i>>] = one(x, i)
  BY <1>3
<1> HIDE DEF step
<1>5. PICK f : Turns(f, A, s, n, step)
  BY <1>2, <1>4, LoopRuns, Zenon
<1>6. f \in [0 .. n -> A] /\ f[0] = s
      /\ \A i \in 1 .. n : f[i] = step[<<f[i - 1], i>>]
  BY <1>5 DEF Turns
<1>7. \A i \in 1 .. n : f[i] = one(f[i - 1], i)
  <2>1. ASSUME NEW i \in 1 .. n PROVE f[i - 1] \in A
    <3>1. i - 1 \in 0 .. n
      BY <1>2
    <3> QED BY <1>6, <3>1
  <2> QED BY <1>4, <1>6, <2>1, Zenon
<1>8. Loop(f)
  <2>1. ASSUME NEW i \in 0 .. n
        PROVE  f[i] = IF i = 0 THEN s ELSE one(f[i - 1], i)
    <3>1. i = 0 \/ i \in 1 .. n
      BY <1>2
    <3> QED BY <1>6, <1>7, <3>1
  <2> QED BY <1>6, <2>1
<1>9. Loop(after)
  BY <1>8, Zenon
<1>10. /\ DOMAIN after = 0 .. n /\ after = [i \in 0 .. n |-> after[i]] /\ after[0] = s
       /\ \A i \in 1 .. n : after[i] = one(after[i - 1], i)
  <2> HIDE DEF after
  <2>1. after = [i \in 0 .. n |-> IF i = 0 THEN s ELSE one(after[i - 1], i)]
    BY <1>9, Zenon
  <2>2. \A i \in 1 .. n : i \in 0 .. n /\ i # 0
    BY <1>2
  <2> QED BY <1>2, <2>1, <2>2
<1> HIDE DEF after, Loop
<1> DEFINE G == {i \in 0 .. n : after[i] \in A}
<1>11. 0 \in G
  BY <1>2, <1>10
<1>12. ASSUME NEW i \in 1 .. n, i - 1 \in G
       PROVE  i \in G
  <2>1. i \in 0 .. n
    BY <1>2
  <2> QED BY <1>3, <1>10, <1>12, <2>1, Zenon
<1>13. \A i \in 0 .. n : after[i] \in A
  <2> HIDE DEF G
  <2>1. \A i \in 0 .. n : i \in G
    BY <1>2, <1>11, <1>12, UpTo, Zenon
  <2> QED BY <2>1 DEF G
<1>14. after \in [0 .. n -> A]
  BY <1>10, <1>13
<1>15. EndedBy(after, A, s, ended, queue)
  BY <1>1, <1>10, <1>14, Zenon DEF EndedBy, n, one
<1> QED BY <1>15

LEMMA EndedKeeps ==
  ASSUME NEW s \in State, NEW H, Seated(s, H), PendingKept(s),
         NEW T, NEW queue \in Seq(T), Rowed(queue), RowsKept(s, queue),
         NEW ended \in Seq(Request)
  PROVE  LET next == Ended(s, ended, queue)
         IN  /\ next \in State /\ PendingKept(next) /\ RowsKept(next, queue)
             /\ Seated(next, H \ Range(ended))
<1> DEFINE n == Len(ended)
           one(x, i) == EndedOne(x, ended, i, queue)
           A == {x \in State : /\ PendingKept(x) /\ RowsKept(x, queue)
                               /\ Seated(x, Holders(x.pool))}
           gone(i) == {ended[j] : j \in 1 .. i}
<1>1. n \in Nat /\ \A i \in 1 .. n : ended[i] \in Request
  BY LenProperties, ElementOfSeq
<1>2. s \in A /\ Holders(s.pool) = H
  BY DEF Seated
<1>3. ASSUME NEW x \in A, NEW i \in 1 .. n
      PROVE  one(x, i) \in A /\ Holders(one(x, i).pool) = Holders(x.pool) \ {ended[i]}
  <2> DEFINE fence == LastFrame(queue, ended[i])
             next == one(x, i)
  <2>1. fence \in Nat /\ Covers(queue, ended[i], fence)
    BY LastFrameCovers
  <2>2. /\ x \in State /\ PendingKept(x) /\ RowsKept(x, queue)
        /\ Seated(x, Holders(x.pool)) /\ ended[i] \in Request
    BY <1>1
  <2>3. next = FreeRequestBlocks(x, ended[i], TRUE, fence)
    BY DEF EndedOne
  <2> HIDE DEF fence, next
  <2>4. /\ next \in State /\ Seated(next, Holders(x.pool) \ {ended[i]})
        /\ PendingKept(next) /\ RowsKept(next, queue)
    BY <2>1, <2>2, <2>3, FreeRequestBlocksKeeps, Zenon
  <2>5. Holders(next.pool) = Holders(x.pool) \ {ended[i]}
    BY <2>4 DEF Seated
  <2>6. next \in A
    BY <2>4, <2>5, Zenon
  <2> HIDE DEF A
  <2> QED BY <2>5, <2>6 DEF next
<1>4. PICK after : EndedBy(after, A, s, ended, queue)
  <2> HIDE DEF A
  <2>1. EndedIn(A, ended, queue)
    BY <1>3 DEF EndedIn
  <2>2. Len(ended) \in Nat /\ s \in A
    BY <1>1, <1>2
  <2> QED BY <2>1, <2>2, EndedRuns
<1>5. /\ after \in [0 .. n -> A]
      /\ after[0] = s
      /\ \A i \in 1 .. n : after[i] = one(after[i - 1], i)
      /\ after[n] = Ended(s, ended, queue)
  <2> HIDE DEF A
  <2> QED BY <1>4 DEF EndedBy
<1> HIDE DEF n, A, one
<1>6. n \in 0 .. n /\ 0 \in 0 .. n
  BY <1>1
<1> DEFINE G == {i \in 0 .. n : Holders(after[i].pool) = H \ gone(i)}
<1>7. 0 \in G
  <2>1. gone(0) = {}
    OBVIOUS
  <2> HIDE DEF gone
  <2> QED BY <1>2, <1>5, <1>6, <2>1
<1>8. ASSUME NEW i \in 1 .. n, i - 1 \in G
      PROVE  i \in G
  <2>1. /\ after[i - 1] \in A /\ Holders(after[i - 1].pool) = H \ gone(i - 1) /\ i \in 0 .. n
        /\ after[i] = one(after[i - 1], i)
    BY <1>5, <1>8
  <2>2. gone(i) = gone(i - 1) \cup {ended[i]}
    <3>1. i \in Int /\ 1 .. i = (1 .. i - 1) \cup {i}
      BY <1>1
    <3> QED BY <3>1
  <2> HIDE DEF gone
  <2>3. Holders(one(after[i - 1], i).pool) = Holders(after[i - 1].pool) \ {ended[i]}
    BY <1>3, <2>1, Zenon
  <2> QED BY <2>1, <2>2, <2>3
<1> HIDE DEF G
<1>9. n \in G
  BY <1>1, <1>6, <1>7, <1>8, UpTo, Zenon
<1>10. after[n] \in A /\ Holders(after[n].pool) = H \ gone(n)
  BY <1>5, <1>6, <1>9 DEF G
<1>11. gone(n) = Range(ended)
  BY LenProperties DEF Range, n
<1> HIDE DEF gone
<1> QED BY <1>5, <1>10, <1>11, Zenon DEF A

-----------------------------------------------------------------------------
\* Offers and victims.

LEMMA FirstOf ==
  ASSUME NEW T, NEW s \in Seq(T), Range(s) # {}
  PROVE  s[1] \in Range(s) /\ Head(s) = s[1] /\ s # <<>>
<1>1. Len(s) \in Nat /\ DOMAIN s = 1 .. Len(s)
  BY LenProperties
<1>2. 1 \in DOMAIN s
  BY <1>1 DEF Range
<1> QED BY <1>1, <1>2 DEF Range

LEMMA ListedSome ==
  ASSUME NEW T, NEW s \in Seq(T), s # <<>>
  PROVE  Range(s) # {}
<1>1. Len(s) \in Nat /\ DOMAIN s = 1 .. Len(s) /\ Len(s) # 0
  BY LenProperties, EmptySeq
<1>2. 1 \in DOMAIN s
  BY <1>1
<1> QED BY <1>2 DEF Range

LEMMA CursorType ==
  ASSUME NEW pool \in Pool, NEW i \in Seats
  PROVE  Cursor(pool.seat[i]) \in Nat
<1>1. Len(pool.seat[i].tokens) \in Nat
  BY PoolFacts, LenProperties
<1>2. Max({Len(pool.seat[i].tokens) - 1, 0}) \in Nat
  BY <1>1, MaxOfTwo
<1> QED BY <1>2 DEF Cursor

LEMMA LongestIn ==
  ASSUME NEW pool \in Pool, NEW H \in SUBSET Seats, H # {}
  PROVE  Longest(pool, H) \in H
<1> DEFINE cur == [s \in H |-> Cursor(pool.seat[s])]
           C == {cur[s] : s \in H}
<1>1. cur \in [H -> Nat]
  BY CursorType
<1>2. \A s \in H : cur[s] = Cursor(pool.seat[s])
  OBVIOUS
<1> HIDE DEF cur
<1>3. IsFiniteSet(H)
  BY SeatAssumption, FS_Subset, Zenon
<1>4. IsFiniteSet(C)
  <2>1. cur \in Surjection(H, C)
    BY <1>1 DEF Surjection
  <2> QED BY <1>3, <2>1, FS_Surjection
<1>5. C \in SUBSET Int /\ C # {}
  BY <1>1
<1> HIDE DEF C
<1> DEFINE m == Cardinality(C)
           a == Ascending(C)
<1>6. /\ m \in Nat /\ a \in [1 .. m -> C]
      /\ \A c \in C : \E n \in 1 .. m : a[n] = c
      /\ \A n, k \in 1 .. m : n < k => a[n] < a[k]
  BY <1>4, <1>5, AscendingList
<1> HIDE DEF m, a
<1>7. m \in 1 .. m
  <2>1. PICK c \in C : TRUE
    BY <1>5, Zenon
  <2>2. PICK n \in 1 .. m : a[n] = c
    BY <1>6
  <2> QED BY <1>6, <2>2
<1>8. a[m] \in C /\ \A c \in C : c <= a[m]
  <2>1. ASSUME NEW c \in C PROVE c <= a[m]
    <3>1. PICK n \in 1 .. m : a[n] = c
      BY <1>6
    <3>2. n = m \/ n < m
      BY <1>6
    <3>3. a[m] \in Int /\ a[n] \in Int
      BY <1>5, <1>6, <1>7, Zenon
    <3> QED BY <1>6, <1>7, <3>1, <3>2, <3>3
  <2> QED BY <1>6, <1>7, <2>1
<1> DEFINE best == {s \in H : cur[s] = a[m]}
<1>9. best # {} /\ best \in SUBSET Nat
  BY <1>8, SeatAssumption, Zenon DEF C
<1>10. PICK s \in best : \A t \in best : s <= t
  <2> HIDE DEF best
  <2> QED BY <1>9, LeastExists
<1>11. s \in H /\ \A t \in H : \/ cur[s] > cur[t]
                               \/ cur[s] = cur[t] /\ s <= t
  <2> SUFFICES ASSUME NEW t \in H
               PROVE  cur[s] > cur[t] \/ (cur[s] = cur[t] /\ s <= t)
    BY <1>10
  <2>1. cur[t] \in C /\ cur[s] = a[m]
    BY <1>10 DEF C
  <2>2. cur[t] <= cur[s] /\ cur[t] \in Nat /\ cur[s] \in Nat
    BY <1>1, <1>8, <1>10, <2>1
  <2>3. CASE cur[t] = cur[s]
    BY <1>10, <2>1, <2>3
  <2>4. CASE cur[t] # cur[s]
    BY <2>2, <2>4
  <2> QED BY <2>3, <2>4
<1>12. \E x \in H : \A t \in H :
         \/ Cursor(pool.seat[x]) > Cursor(pool.seat[t])
         \/ Cursor(pool.seat[x]) = Cursor(pool.seat[t]) /\ x <= t
  BY <1>2, <1>11
<1> QED BY <1>12 DEF Longest

LEMMA ColdestIn ==
  ASSUME NEW pool \in Pool, NEW A \in SUBSET Seats, A # {}
  PROVE  Coldest(pool, A) \in A
<1> DEFINE empty == {s \in A : pool.seat[s].tokens = <<>>}
           among == IF empty = {} THEN A ELSE empty
           list == Only(pool.order, among)
<1>1. Coldest(pool, A) = list[1]
  BY DEF Coldest
<1>2. among \subseteq A /\ among # {}
  OBVIOUS
<1> HIDE DEF among
<1>3. list \in Seq(Seats) /\ Range(list) = Seats \cap among
  BY PoolFacts, OnlyMembers
<1>4. Range(list) # {}
  BY <1>2, <1>3
<1> HIDE DEF list
<1> QED BY <1>1, <1>2, <1>3, <1>4, FirstOf

LEMMA VictimOf ==
  ASSUME NEW pool \in Pool, NEW exclude, Evictable(pool, exclude) # <<>>
  PROVE  LET i == Head(Evictable(pool, exclude))
         IN  /\ i \in Seats /\ i \notin exclude
             /\ pool.seat[i].owner = Nobody /\ pool.seat[i].fence = 0
<1> DEFINE among == {s \in Hot(pool) \ exclude : pool.seat[s].fence = 0}
           list == Evictable(pool, exclude)
<1>1. list = Only(pool.order, among)
  BY DEF Evictable
<1> HIDE DEF list
<1>2. list \in Seq(Seats) /\ Range(list) = Seats \cap among
  BY <1>1, PoolFacts, OnlyMembers
<1>3. Range(list) # {}
  BY <1>2, ListedSome DEF list
<1>4. Head(list) \in Range(list)
  BY <1>2, <1>3, FirstOf
<1>5. Head(list) \in Seats /\ Head(list) \in among
  BY <1>2, <1>4
<1> QED BY <1>5 DEF Hot, list

LEMMA OfferedGood ==
  ASSUME NEW pool \in Pool, NEW tokens \in Seq(Token), NEW salt, NEW allow_hit,
         Offer(pool, tokens, salt, allow_hit) # NoOffer
  PROVE  OfferGood(pool, Offer(pool, tokens, salt, allow_hit), tokens)
<1> DEFINE hits == IF allow_hit THEN Hits(pool, tokens, salt) ELSE {}
           free == Available(pool)
           o == Offer(pool, tokens, salt, allow_hit)
<1>1. o = CASE hits # {} -> Offered(pool, Longest(pool, hits), TRUE)
            [] hits = {} /\ free # {} -> Offered(pool, Coldest(pool, free), FALSE)
            [] OTHER -> NoOffer
  BY DEF Offer
<1>2. /\ free \in SUBSET Seats
      /\ \A s \in free : pool.seat[s].owner = Nobody /\ pool.seat[s].fence = 0
  BY DEF Available
<1>3. /\ hits \in SUBSET free
      /\ \A s \in hits : /\ pool.seat[s].blocks # <<>>
                         /\ Cursor(pool.seat[s]) > 0
                         /\ Len(tokens) >= Len(pool.seat[s].tokens)
  BY DEF Hits
<1>4. ASSUME NEW s \in Seats, NEW warm \in BOOLEAN
      PROVE  /\ Offered(pool, s, warm) \in OfferState
             /\ Offered(pool, s, warm).seat = s
             /\ Offered(pool, s, warm).warm = warm
             /\ Offered(pool, s, warm).epoch = pool.seat[s].epoch
  BY PoolFacts DEF Offered, OfferState
<1> HIDE DEF hits, free, o
<1>5. CASE hits # {}
  <2>1. Longest(pool, hits) \in hits /\ o = Offered(pool, Longest(pool, hits), TRUE)
    BY <1>1, <1>2, <1>3, <1>5, LongestIn, Zenon
  <2>2. PICK s \in hits : o = Offered(pool, s, TRUE)
    BY <2>1, Zenon
  <2>3. s \in Seats /\ pool.seat[s].owner = Nobody /\ pool.seat[s].fence = 0
    BY <1>2, <1>3
  <2>4. o \in OfferState /\ o.seat = s /\ o.warm = TRUE /\ o.epoch = pool.seat[s].epoch
    BY <1>4, <2>2, <2>3, Zenon
  <2>5. Len(pool.seat[s].tokens) \in Nat /\ Len(tokens) \in Nat
    BY <2>3, PoolFacts, LenProperties
  <2>6. Len(pool.seat[s].tokens) <= Len(tokens)
    BY <1>3, <2>5
  <2> QED BY <1>3, <2>3, <2>4, <2>6 DEF OfferGood, Current, o
<1>6. CASE hits = {} /\ free # {}
  <2>1. Coldest(pool, free) \in free /\ o = Offered(pool, Coldest(pool, free), FALSE)
    BY <1>1, <1>2, <1>6, ColdestIn
  <2>2. PICK s \in free : o = Offered(pool, s, FALSE)
    BY <2>1, Zenon
  <2>3. s \in Seats /\ pool.seat[s].owner = Nobody /\ pool.seat[s].fence = 0
    BY <1>2
  <2>4. o \in OfferState /\ o.seat = s /\ o.warm = FALSE /\ o.epoch = pool.seat[s].epoch
    BY <1>4, <2>2, <2>3, Zenon
  <2> QED BY <2>3, <2>4 DEF OfferGood, Current, o
<1>7. CASE hits = {} /\ free = {}
  BY <1>1, <1>7 DEF o
<1> QED BY <1>5, <1>6, <1>7

-----------------------------------------------------------------------------
\* What the actions have in common.

LEMMA AppendRange ==
  ASSUME NEW T, NEW s \in Seq(T), NEW x \in T
  PROVE  /\ Append(s, x) \in Seq(T) /\ Len(Append(s, x)) = Len(s) + 1
         /\ \A i \in 1 .. Len(s) : Append(s, x)[i] = s[i]
         /\ Append(s, x)[Len(s) + 1] = x
         /\ Range(Append(s, x)) = Range(s) \cup {x}
         /\ Once(s) /\ x \notin Range(s) => Once(Append(s, x))
<1> DEFINE t == Append(s, x)
<1>1. /\ t \in Seq(T) /\ Len(t) = Len(s) + 1
      /\ \A i \in 1 .. Len(s) : t[i] = s[i]
      /\ t[Len(s) + 1] = x
  BY AppendProperties
<1> HIDE DEF t
<1>2. Len(s) \in Nat /\ DOMAIN s = 1 .. Len(s) /\ DOMAIN t = 1 .. Len(s) + 1
  BY <1>1, LenProperties
<1>3. DOMAIN t = DOMAIN s \cup {Len(s) + 1} /\ \A i \in DOMAIN s : t[i] = s[i]
  BY <1>1, <1>2
<1>4. Range(t) = Range(s) \cup {x}
  BY <1>1, <1>3 DEF Range
<1>5. ASSUME Once(s), x \notin Range(s)
      PROVE  Once(t)
  <2>1. \A i \in DOMAIN s : s[i] # x
    BY <1>5 DEF Range
  <2> QED BY <1>1, <1>3, <1>5, <2>1 DEF Once
<1> QED BY <1>1, <1>4, <1>5 DEF t

LEMMA TypedFacts ==
  ASSUME Typed
  PROVE  /\ st \in State
         /\ req \in [Request -> RequestState]
         /\ running \in Seq(Request) /\ waiting \in Seq(Request) /\ ring \in Seq(Request)
         /\ Len(running) \in Nat /\ DOMAIN running = 1 .. Len(running)
         /\ \A i \in 1 .. Len(running) : running[i] \in Request
         /\ frames \in Seq(Range(frames)) /\ Rowed(frames)
         /\ attempt.phase \in Phases /\ attempt.next \in Nat /\ attempt.left \in Int
         /\ attempt.grants \in Partial(Request, Int) /\ attempt.preempted \in BOOLEAN
         /\ FrameOK(attempt.rows)
<1>1. Typed
  OBVIOUS
<1>2. Len(running) \in Nat /\ DOMAIN running = 1 .. Len(running)
      /\ \A i \in 1 .. Len(running) : running[i] \in Request
  BY <1>1, LenProperties, ElementOfSeq DEF Typed
<1> QED BY <1>1, <1>2 DEF Typed, Rowed

LEMMA TokensType ==
  ASSUME Typed, NEW r \in Request
  PROVE  /\ AllTokens(r) \in Seq(Token) /\ Len(AllTokens(r)) \in Nat
         /\ Prompt[r] \in Seq(Token) /\ Len(Prompt[r]) \in Nat
         /\ req[r].out \in Seq(Token) /\ Len(req[r].out) \in Nat
<1>1. Prompt[r] \in Seq(Token)
  BY EngineAssumption
<1>2. req[r].out \in Seq(Token)
  BY TypedFacts DEF RequestState
<1>3. AllTokens(r) \in Seq(Token)
  BY <1>1, <1>2, ConcatProperties DEF AllTokens
<1> QED BY <1>1, <1>2, <1>3, LenProperties

LEMMA CountsType ==
  ASSUME Typed, NEW r \in Request
  PROVE  /\ req[r].computed \in Int /\ req[r].placeholders \in Int
         /\ Demand(r) \in Int /\ Granted(r) \in Int
         /\ Query(r) \in Int
<1>1. /\ req[r].computed \in Int /\ req[r].placeholders \in Int
      /\ attempt.left \in Int /\ attempt.grants \in Partial(Request, Int)
  BY TypedFacts DEF RequestState
<1>2. Drafts \in Nat /\ Len(AllTokens(r)) \in Nat
  BY TokensType, EngineAssumption
<1>3. Demand(r) \in Int
  <2> DEFINE d == Len(AllTokens(r)) + req[r].placeholders - req[r].computed
                    + (IF req[r].drafting THEN Drafts ELSE 0)
  <2>1. d \in Int
    BY <1>1, <1>2
  <2>2. Demand(r) = Max({0, d})
    BY DEF Demand
  <2> HIDE DEF d
  <2> QED BY <2>1, <2>2, MaxOfTwo
<1>4. Granted(r) \in Int
  BY <1>1, PartialIs DEF Granted
<1>5. Query(r) \in Int
  <2>1. Min({Demand(r), attempt.left, Granted(r)}) \in Int
    BY <1>1, <1>3, <1>4, MinOfThree, Zenon
  <2> QED BY <2>1 DEF Query
<1> QED BY <1>1, <1>3, <1>4, <1>5

LEMMA StatusType ==
  ASSUME NEW q \in RequestState, NEW status \in Statuses
  PROVE  [q EXCEPT !.status = status] \in RequestState
  BY DEF RequestState

\* A seat that nothing waits for may change hands.
LEMMA FreeSeatChanges ==
  ASSUME NEW s \in State, NEW next, next.pending = s.pending,
         NEW i \in Seats, s.pool.seat[i].owner = Nobody, s.pool.seat[i].fence = 0,
         \A j \in Seats \ {i} : next.pool.seat[j] = s.pool.seat[j],
         NEW queue, Rowed(queue), RowsKept(s, queue), DOMAIN queue \subseteq Nat \ {0},
         NEW rows, FrameOK(rows), RowsHeld(s, rows),
         PendingKept(s), NoneDue(s)
  PROVE  /\ PendingKept(next) /\ NoneDue(next)
         /\ RowsKept(next, queue)
         /\ RowsHeld(next, rows)
<1>1. PendingKept(next) /\ NoneDue(next)
  <2>1. \A k \in DOMAIN s.pending : k.seat \in Seats /\ k.seat # i
    <3>1. \A k \in DOMAIN s.pending : /\ k.seat \in Seats
                                      /\ s.pool.seat[k.seat].fence = s.pending[k].fence
                                      /\ s.pending[k].fence > 0
      BY PendingSeats DEF PendingKept, NoneDue
    <3> QED BY <3>1
  <2> QED BY <2>1 DEF PendingKept, NoneDue
<1>2. RowsKept(next, queue)
  <2> SUFFICES ASSUME NEW n \in DOMAIN queue, NEW r \in DOMAIN queue[n],
                      NEW a, a = queue[n][r].seat
               PROVE  next.pool.seat[a] = s.pool.seat[a]
    BY DEF RowsKept
  <2>1. a \in Seats /\ r \in Request
    BY DEF Rowed, FrameOK
  <2>2. /\ s.pool.seat[a].owner \in {r, Nobody}
        /\ s.pool.seat[a].owner = Nobody => s.pool.seat[a].fence >= n
    BY DEF RowsKept
  <2>3. a # i
    <3>1. r # Nobody
      BY <2>1, SeatAssumption
    <3>2. n \in Nat \ {0}
      OBVIOUS
    <3> QED BY <2>2, <3>1, <3>2
  <2> QED BY <2>1, <2>3
<1>3. RowsHeld(next, rows)
  <2> SUFFICES ASSUME NEW r \in DOMAIN rows, NEW a, a = rows[r].seat
               PROVE  next.pool.seat[a] = s.pool.seat[a]
    BY DEF RowsHeld
  <2>1. a \in Seats /\ r \in Request /\ r # Nobody
    BY SeatAssumption DEF FrameOK
  <2>2. s.pool.seat[a].owner = r
    BY DEF RowsHeld
  <2> QED BY <2>1, <2>2
<1> QED BY <1>1, <1>2, <1>3

\* It loses its checkpoint and nothing else.
LEMMA FreeSeatForgets ==
  ASSUME NEW s \in State, NEW next, NEW i \in Seats, s.pool.seat[i].owner = Nobody,
         next.pool.seat[i].owner = Nobody,
         \A j \in Seats \ {i} : next.pool.seat[j] = s.pool.seat[j],
         NEW H, Seated(s, H)
  PROVE  Seated(next, H)
<1>1. \A j \in Seats : next.pool.seat[j].owner = s.pool.seat[j].owner
  OBVIOUS
<1>2. \A j \in Seats : next.pool.seat[j].owner # Nobody
                         => next.pool.seat[j].blocks = s.pool.seat[j].blocks
  OBVIOUS
<1>3. Holders(next.pool) = Holders(s.pool)
  BY <1>1 DEF Holders
<1> QED BY <1>1, <1>2, <1>3 DEF Seated

\* Steps that leave the pool and the pending checkpoints alone.
LEMMA SamePool ==
  ASSUME NEW s, NEW next, next.pool = s.pool, next.pending = s.pending
  PROVE  /\ \A H : Seated(s, H) => Seated(next, H)
         /\ PendingKept(s) => PendingKept(next)
         /\ NoneDue(s) => NoneDue(next)
         /\ \A queue : RowsKept(s, queue) => RowsKept(next, queue)
         /\ \A rows : RowsHeld(s, rows) => RowsHeld(next, rows)
  BY DEF Seated, PendingKept, NoneDue, RowsKept, RowsHeld

-----------------------------------------------------------------------------
\* One lemma per action.

LEMMA InitHolds ==
  ASSUME Init
  PROVE  Inv
<1>1. /\ st = [pool |-> NewPool, frontiers |-> <<>>, pending |-> <<>>,
               offers |-> [r \in Request |-> NoOffer],
               ref |-> [p \in Page |-> 0], held |-> [r \in Request |-> <<>>],
               deferred |-> <<>>]
      /\ req = [r \in Request |-> NewRequest]
      /\ running = <<>> /\ waiting = <<>> /\ frames = <<>> /\ ring = <<>>
      /\ attempt = Resting
  BY DEF Init
<1>2. NewPool \in Pool /\ \A i \in Seats : NewPool.seat[i] = EmptySeat
  BY NewPoolType
<1>3. \A K, V : <<>> \in Partial(K, V) /\ DOMAIN <<>> = {}
  BY EmptyPartial
<1>4. st \in State
  <2>1. <<>> \in PendingStates
    BY <1>3, FS_EmptySet DEF PendingStates
  <2> QED BY <1>1, <1>2, <1>3, <2>1 DEF State
<1>5. req \in [Request -> RequestState]
  BY <1>1 DEF NewRequest, RequestState, Statuses
<1>6. /\ attempt.phase = "idle" /\ attempt.next = 1 /\ attempt.rows = <<>>
      /\ attempt.left = 0 /\ attempt.grants = <<>> /\ attempt.preempted = FALSE
  BY <1>1 DEF Resting
<1>7. FrameOK(attempt.rows)
  BY <1>3, <1>6 DEF FrameOK
<1>8. Typed
  <2>1. attempt \in [phase : Phases, next : Nat, rows : {attempt.rows}, left : Int,
                     grants : Partial(Request, Int), preempted : BOOLEAN]
    BY <1>1, <1>3 DEF Resting, Phases
  <2>2. frames \in Seq(Range(frames)) /\ \A i \in DOMAIN frames : FrameOK(frames[i])
    BY <1>1, <1>3, EmptySeq
  <2> QED BY <1>1, <1>4, <1>5, <1>7, <2>1, <2>2, EmptySeq DEF Typed
<1>9. Range(running) = {} /\ Range(waiting) = {}
  BY <1>1, <1>3 DEF Range
<1>10. \A i \in Seats : st.pool.seat[i].owner = Nobody
  BY <1>1, <1>2 DEF EmptySeat
<1>11. Seated(st, Range(running))
  BY <1>9, <1>10 DEF Seated, Holders
<1>12. PendingKept(st) /\ NoneDue(st)
  BY <1>1, <1>3 DEF PendingKept, NoneDue
<1>13. RowsKept(st, frames) /\ Apart(frames) /\ RowsHeld(st, attempt.rows)
  BY <1>1, <1>3, <1>6 DEF RowsKept, Apart, RowsHeld
<1>14. Placed
  <2>1. \A r \in Request : req[r].status = "absent"
    BY <1>1 DEF NewRequest
  <2>2. Once(running)
    BY <1>1, <1>3 DEF Once
  <2> QED BY <1>9, <2>1, <2>2 DEF Placed
<1>15. AttemptKept
  <2>1. Len(running) = 0
    BY <1>1
  <2> QED BY <1>3, <1>6, <2>1 DEF AttemptKept
<1> QED BY <1>8, <1>11, <1>12, <1>13, <1>14, <1>15 DEF Inv

\* No attempt is in progress before or after the step.
LEMMA StillResting ==
  ASSUME Inv, attempt.phase \in {"idle", "collect"}, attempt' = attempt,
         running' \in Seq(Request)
  PROVE  AttemptKept' /\ RowsHeld(st', attempt'.rows)
<1>1. DOMAIN attempt.rows = {} /\ attempt.next = 1
  BY DEF Inv, AttemptKept
<1>2. Len(running') \in Nat
  BY LenProperties
<1>3. attempt.phase # "allocate"
  OBVIOUS
<1> QED BY <1>1, <1>2, <1>3 DEF AttemptKept, RowsHeld

LEMMA ArriveKeeps ==
  ASSUME Inv, NEW r \in Request, Arrive(r)
  PROVE  Inv'
<1>1. /\ attempt.phase = "idle" /\ req[r].status = "absent"
      /\ req' = [req EXCEPT ![r].status = "waiting"]
      /\ waiting' = Append(waiting, r)
      /\ UNCHANGED <<st, running, frames, ring, attempt>>
  BY DEF Arrive, Idle
<1>2. Typed /\ Placed
  BY DEF Inv
<1>3. req' \in [Request -> RequestState]
  <2> DEFINE q == [req[r] EXCEPT !.status = "waiting"]
  <2>1. q \in RequestState
    <3>1. "waiting" \in Statuses
      BY DEF Statuses
    <3>2. req[r] \in RequestState
      BY <1>2, TypedFacts
    <3> QED BY <3>1, <3>2, StatusType
  <2>2. req' = [req EXCEPT ![r] = q]
    BY <1>1
  <2> HIDE DEF q
  <2> QED BY <1>2, <2>1, <2>2, TypedFacts
<1>4. waiting' \in Seq(Request) /\ Range(waiting') = Range(waiting) \cup {r}
  BY <1>1, <1>2, TypedFacts, AppendRange
<1>5. Typed'
  BY <1>1, <1>2, <1>3, <1>4 DEF Typed
<1>6. Placed'
  <2>1. \A x \in Request : req'[x].status = IF x = r THEN "waiting" ELSE req[x].status
    BY <1>1, <1>2, TypedFacts DEF RequestState
  <2> QED BY <1>1, <1>2, <1>4, <2>1 DEF Placed
<1>7. AttemptKept'
  BY <1>1, <1>2, StillResting, TypedFacts
<1> QED BY <1>1, <1>5, <1>6, <1>7 DEF Inv

LEMMA AbortKeeps ==
  ASSUME Inv, NEW r \in Request, Abort(r)
  PROVE  Inv'
<1>1. /\ attempt.phase = "idle" /\ req[r].status \in {"waiting", "running"}
      /\ req' = [req EXCEPT ![r].status = "aborted"]
      /\ running' = Without(running, r)
      /\ waiting' = Without(waiting, r)
      /\ st' = FreeRequestBlocks(st, r, FALSE, LastFrame(frames, r))
      /\ UNCHANGED <<frames, ring, attempt>>
  BY DEF Abort, Idle
<1>2. Typed /\ Placed
  BY DEF Inv
<1>3. req' \in [Request -> RequestState]
  <2> DEFINE q == [req[r] EXCEPT !.status = "aborted"]
  <2>1. q \in RequestState
    <3>1. "aborted" \in Statuses
      BY DEF Statuses
    <3>2. req[r] \in RequestState
      BY <1>2, TypedFacts
    <3> QED BY <3>1, <3>2, StatusType
  <2>2. req' = [req EXCEPT ![r] = q]
    BY <1>1
  <2> HIDE DEF q
  <2> QED BY <1>2, <2>1, <2>2, TypedFacts
<1>4. /\ running' \in Seq(Request) /\ Range(running') = Range(running) \ {r}
      /\ Once(running')
      /\ waiting' \in Seq(Request) /\ Range(waiting') = Range(waiting) \ {r}
  BY <1>1, <1>2, TypedFacts, WithoutMembers DEF Placed
<1>5. LastFrame(frames, r) \in Nat /\ Covers(frames, r, LastFrame(frames, r))
  BY <1>2, TypedFacts, LastFrameCovers
<1>6. /\ st' \in State
      /\ Seated(st', Range(running'))
      /\ PendingKept(st') /\ NoneDue(st')
      /\ RowsKept(st', frames)
  <2>1. st \in State /\ Rowed(frames)
    BY <1>2, TypedFacts
  <2>2. Seated(st, Range(running)) /\ PendingKept(st) /\ RowsKept(st, frames)
    BY DEF Inv
  <2> DEFINE fence == LastFrame(frames, r)
             next == FreeRequestBlocks(st, r, FALSE, fence)
  <2> HIDE DEF fence
  <2>3. /\ next \in State
        /\ Seated(next, Range(running) \ {r})
        /\ PendingKept(next) /\ NoneDue(next)
        /\ RowsKept(next, frames)
    BY <1>5, <2>1, <2>2, FreeRequestBlocksKeeps, Zenon DEF fence
  <2> QED BY <1>1, <1>4, <2>3, Zenon DEF fence
<1>7. Typed'
  BY <1>1, <1>2, <1>3, <1>4, <1>6, Zenon DEF Typed
<1>8. Placed'
  <2>1. \A x \in Request : req'[x].status = IF x = r THEN "aborted" ELSE req[x].status
    BY <1>1, <1>2, TypedFacts DEF RequestState
  <2> QED BY <1>1, <1>2, <1>4, <2>1 DEF Placed
<1>9. AttemptKept' /\ RowsHeld(st', attempt'.rows)
  BY <1>1, <1>4, StillResting, Zenon
<1>10. Apart(frames')
  BY <1>1 DEF Inv
<1> QED BY <1>1, <1>6, <1>7, <1>8, <1>9, <1>10, Zenon DEF Inv

LEMMA ResetPrefixCacheKeeps ==
  ASSUME Inv, ResetPrefixCache
  PROVE  Inv'
<1> DEFINE pool == Invalidated(st.pool)
           ref == UnpinnedEach(st.ref, [i \in Hot(st.pool) |-> st.pool.seat[i].blocks])
           front == [k \in DOMAIN st.frontiers |->
                       IF k \in DOMAIN st.pending THEN Lost(st.frontiers[k])
                       ELSE st.frontiers[k]]
<1>1. /\ attempt.phase = "idle"
      /\ st' = [st EXCEPT !.pool = pool, !.ref = ref, !.frontiers = front]
      /\ UNCHANGED <<req, running, waiting, frames, ring, attempt>>
  BY DEF ResetPrefixCache, Idle
<1>2. Typed /\ Placed /\ st \in State /\ Rowed(frames) /\ running \in Seq(Request)
  BY TypedFacts DEF Inv
<1>3. /\ pool \in Pool
      /\ \A i \in Seats : /\ pool.seat[i].owner = st.pool.seat[i].owner
                          /\ pool.seat[i].fence = st.pool.seat[i].fence
                          /\ pool.seat[i].epoch = st.pool.seat[i].epoch
                          /\ pool.seat[i].owner # Nobody => pool.seat[i] = st.pool.seat[i]
  BY <1>2, StateFacts, InvalidatedFields
<1>4. ref \in [Page -> Int]
  <2>1. Hot(st.pool) \subseteq Seats
    BY DEF Hot
  <2>2. IsFiniteSet(Hot(st.pool))
    BY <2>1, SeatAssumption, FS_Subset
  <2> QED BY <1>2, <2>2, StateFacts, UnpinnedEachType, Zenon
<1>5. front \in Partial(LeaseKey, FrontierState)
  <2>1. DOMAIN st.frontiers \in SUBSET LeaseKey
        /\ \A k \in DOMAIN st.frontiers : st.frontiers[k] \in FrontierState
    BY <1>2, StateFacts, PartialIs
  <2>2. \A k \in DOMAIN st.frontiers : Lost(st.frontiers[k]) \in FrontierState
    BY <2>1, LostType, FollowedIs
  <2>3. front = [k \in DOMAIN front |-> front[k]] /\ DOMAIN front = DOMAIN st.frontiers
        /\ \A k \in DOMAIN front : front[k] \in FrontierState
    BY <2>1, <2>2
  <2> HIDE DEF front
  <2> QED BY <2>1, <2>3, PartialIs
<1> HIDE DEF pool, ref, front
<1>6. st' \in State /\ st'.pool = pool /\ st'.pending = st.pending
  BY <1>1, <1>2, <1>3, <1>4, <1>5, Zenon DEF State
<1>7. Undisturbed(st, st')
  BY <1>3, <1>6 DEF Undisturbed
<1>8. /\ Seated(st', Range(running')) /\ PendingKept(st') /\ NoneDue(st')
      /\ RowsKept(st', frames')
  <2>1. Seated(st, Range(running)) /\ PendingKept(st) /\ NoneDue(st) /\ RowsKept(st, frames)
    BY DEF Inv
  <2>2. Seated(st', Range(running)) /\ PendingKept(st') /\ RowsKept(st', frames)
    BY <1>2, <1>6, <1>7, <2>1, UndisturbedKeeps, PendingSeats, Zenon
  <2>3. NoneDue(st')
    BY <1>6, <2>1 DEF NoneDue
  <2> QED BY <1>1, <2>2, <2>3
<1>9. AttemptKept' /\ RowsHeld(st', attempt'.rows)
  BY <1>1, <1>2, StillResting
<1>10. Typed' /\ Placed' /\ Apart(frames')
  <2>1. Typed'
    BY <1>1, <1>2, <1>6 DEF Typed
  <2> QED BY <1>1, <1>2, <2>1 DEF Placed, Inv
<1> QED BY <1>8, <1>9, <1>10 DEF Inv

LEMMA MembersType ==
  ASSUME NEW T, NEW places \in Seq(T), NEW keys \in Seq(T)
  PROVE  Members(places, keys) \in Seq(T) /\ Range(Members(places, keys)) \subseteq Range(keys)
<1> DEFINE a == Only(places, Range(keys))
           b == Only(keys, Range(keys) \ Range(places))
<1>1. /\ a \in Seq(T) /\ Range(a) = Range(places) \cap Range(keys)
      /\ b \in Seq(T) /\ Range(b) = Range(keys) \cap (Range(keys) \ Range(places))
  BY OnlyMembers
<1> HIDE DEF a, b
<1>2. a \o b \in Seq(T) /\ Range(a \o b) = Range(a) \cup Range(b)
  BY <1>1, ConcatProperties, RangeConcatenation
<1> QED BY <1>1, <1>2, Zenon DEF Members, a, b

LEMMA RotatedType ==
  ASSUME NEW T, NEW places \in Seq(T)
  PROVE  Rotated(places) \in Seq(T)
<1>1. CASE places = <<>>
  BY <1>1 DEF Rotated
<1>2. CASE places # <<>>
  <2>1. Tail(places) \in Seq(T) /\ Head(places) \in T
    BY <1>2, HeadTailProperties
  <2> QED BY <1>2, <2>1, AppendProperties DEF Rotated
<1> QED BY <1>1, <1>2

LEMMA AdmissionRowType ==
  ASSUME Typed, NEW r \in Request
  PROVE  AdmissionRow(r).demand \in Int
<1> DEFINE offer == Previewed(r)
           hit == IF offer # NoOffer /\ offer.warm THEN Cursor(st.pool.seat[offer.seat]) ELSE 0
           demand == Len(AllTokens(r)) - hit
<1>1. AdmissionRow(r).demand = IF demand = 1 THEN 1 + Drafts ELSE demand
  BY DEF AdmissionRow
<1>2. st.pool \in Pool
  BY TypedFacts, StateFacts
<1>3. offer # NoOffer => offer.seat \in Seats
  <2>1. offer # NoOffer => OfferFor(r) # NoOffer /\ offer = OfferFor(r)
    BY DEF Previewed
  <2>2. AllTokens(r) \in Seq(Token)
    BY TokensType
  <2>3. OfferFor(r) # NoOffer => OfferGood(st.pool, OfferFor(r), AllTokens(r))
    BY <1>2, <2>2, OfferedGood DEF OfferFor
  <2> QED BY <2>1, <2>3 DEF OfferGood, OfferState
<1> HIDE DEF offer
<1>4. hit \in Int
  BY <1>2, <1>3, CursorType
<1> HIDE DEF hit
<1>5. Len(AllTokens(r)) \in Int /\ Drafts \in Int
  BY TokensType, EngineAssumption
<1> QED BY <1>1, <1>4, <1>5

LEMMA DecodesType ==
  ASSUME Typed
  PROVE  /\ Decodes \in Seq([key : Request, demand : Int])
         /\ Slots \in Int /\ Slots >= 0
<1> DEFINE decoding == Only(running, {r \in Request :
                         ~Prefilling(r) /\ Demand(r) > 0 /\ ~Saturated(r)})
           D == [key : Request, demand : Int]
           list == [i \in DOMAIN decoding |->
                      [key |-> decoding[i], demand |-> Demand(decoding[i])]]
<1>1. running \in Seq(Request) /\ Len(running) \in Nat
  BY TypedFacts
<1>2. Decodes = list
  BY DEF Decodes
<1>3. decoding \in Seq(Request)
  BY <1>1, OnlyPlaces
<1> HIDE DEF decoding
<1>4. Len(decoding) \in Nat /\ DOMAIN decoding = 1 .. Len(decoding)
      /\ \A i \in 1 .. Len(decoding) : decoding[i] \in Request
  BY <1>3, LenProperties, ElementOfSeq
<1>5. \A i \in 1 .. Len(decoding) :
        [key |-> decoding[i], demand |-> Demand(decoding[i])] \in [key : Request, demand : Int]
  BY <1>4, CountsType
<1>6. list \in [1 .. Len(decoding) -> D]
  BY <1>4, <1>5
<1> HIDE DEF list, D
<1>7. list \in Seq(D)
  BY <1>4, <1>6
<1>8. Slots \in Int /\ Slots >= 0
  <2>1. MaxRunning \in Int
    BY EngineAssumption
  <2>2. MaxRunning - Len(running) \in Int
    BY <1>1, <2>1
  <2> QED BY <2>2, MaxOfTwo DEF Slots
<1> QED BY <1>2, <1>7, <1>8 DEF D

LEMMA BeginScheduleKeeps ==
  ASSUME Inv, BeginSchedule
  PROVE  Inv'
<1> DEFINE first == Only(running, {r \in Request : Prefilling(r)})
           keys == first \o waiting
           members == Members(ring, keys)
           rows == [r \in Range(keys) |->
                      IF r \in Range(waiting) THEN AdmissionRow(r) ELSE PrefillRow(r)]
           grants == Grants(members, Budget, Decodes, rows, Slots)
<1>1. /\ attempt.phase = "idle"
      /\ attempt' = [phase |-> "schedule", next |-> 1, rows |-> <<>>,
                     left |-> Budget, grants |-> grants, preempted |-> FALSE]
      /\ ring' = Rotated(members)
      /\ UNCHANGED <<st, req, running, waiting, frames>>
  BY DEF BeginSchedule, Idle
<1>2. Typed
  BY DEF Inv
<1>3. /\ running \in Seq(Request) /\ waiting \in Seq(Request) /\ ring \in Seq(Request)
      /\ Len(running) \in Nat
  BY <1>2, TypedFacts
<1>4. Decodes \in Seq([key : Request, demand : Int]) /\ Slots \in Int
  BY <1>2, DecodesType
<1>5. first \in Seq(Request) /\ keys \in Seq(Request)
  <2>1. first \in Seq(Request)
    BY <1>3, OnlyPlaces
  <2> HIDE DEF first
  <2> QED BY <1>3, <2>1, ConcatProperties
<1> HIDE DEF first, keys
<1>6. members \in Seq(Request) /\ Range(members) \subseteq Range(keys)
  BY <1>3, <1>5, MembersType
<1>7. \A r \in Range(members) : rows[r].demand \in Int
  <2> SUFFICES ASSUME NEW r \in Range(keys)
               PROVE  rows[r].demand \in Int
    BY <1>6
  <2>1. r \in Request
    BY <1>5, RangeOfSeq
  <2>2. AdmissionRow(r).demand \in Int
    BY <1>2, <2>1, AdmissionRowType
  <2>3. PrefillRow(r).demand \in Int
    BY <1>2, <2>1, CountsType DEF PrefillRow
  <2> QED BY <2>2, <2>3
<1>8. Budget \in Int
  BY EngineAssumption
<1> HIDE DEF members, rows
<1>9. grants \in Partial(Request, Int)
  BY <1>4, <1>6, <1>7, <1>8, GrantsType, Zenon
<1> HIDE DEF grants
<1>10. /\ attempt'.phase = "schedule" /\ attempt'.next = 1 /\ attempt'.rows = <<>>
       /\ DOMAIN attempt'.rows = {}
  BY <1>1, EmptyPartial
<1>11. Typed'
  <2>1. ring' \in Seq(Request)
    BY <1>1, <1>6, RotatedType
  <2>2. attempt' \in [phase : Phases, next : Nat, rows : {attempt'.rows}, left : Int,
                      grants : Partial(Request, Int), preempted : BOOLEAN]
    BY <1>1, <1>8, <1>9, <1>10 DEF Phases
  <2>3. FrameOK(attempt'.rows)
    BY <1>10 DEF FrameOK
  <2> QED BY <1>1, <1>2, <2>1, <2>2, <2>3 DEF Typed
<1>12. AttemptKept'
  BY <1>1, <1>3, <1>10 DEF AttemptKept
<1>13. RowsHeld(st', attempt'.rows)
  BY <1>10 DEF RowsHeld
<1>14. Placed'
  BY <1>1 DEF Inv, Placed
<1> QED BY <1>1, <1>11, <1>12, <1>13, <1>14 DEF Inv

\* The request the running loop serves.
LEMMA ServedOne ==
  ASSUME Typed, Serving
  PROVE  /\ Min(ToServe) \in attempt.next .. Len(running)
         /\ Min(ToServe) \in Nat \ {0} \/ attempt.next = 0
         /\ Served = running[Min(ToServe)]
         /\ attempt.next \in Nat
<1>1. attempt.next \in Nat /\ Len(running) \in Nat
  BY TypedFacts
<1>2. ToServe \in SUBSET Nat /\ ToServe # {} /\ ToServe \subseteq attempt.next .. Len(running)
  BY <1>1 DEF ToServe, Serving
<1>3. Min(ToServe) \in ToServe
  BY <1>2, LeastOf
<1>4. Min(ToServe) \in attempt.next .. Len(running)
  BY <1>2, <1>3, Zenon
<1> QED BY <1>1, <1>4 DEF Served

LEMMA ScheduledType ==
  ASSUME NEW q \in RequestState, NEW computed \in Int, NEW row,
         row.query \in Int, row.drafts \in Int, row.sampling \in BOOLEAN,
         row.seat \in Seats, row.epoch \in Nat
  PROVE  Scheduled(q, computed, row) \in RequestState
         /\ Scheduled(q, computed, row).status = q.status
<1> DEFINE c == computed + row.query
           p == q.placeholders + (IF row.sampling THEN 1 + row.drafts ELSE 0)
           d == q.drafting \/ row.sampling
           l == <<row.seat, row.epoch>>
<1>1. Scheduled(q, computed, row) =
        [q EXCEPT !.computed = c, !.placeholders = p, !.drafting = d, !.lease = l]
  BY DEF Scheduled
<1>2. c \in Int /\ p \in Int /\ d \in BOOLEAN /\ l \in {<<>>} \cup (Seats \X Nat)
  BY DEF RequestState
<1> HIDE DEF c, p, d, l
<1> QED BY <1>1, <1>2, Zenon DEF RequestState

LEMMA RowPut ==
  ASSUME NEW rows, FrameOK(rows), NEW r \in Request, NEW row,
         row.query \in Int, row.drafts \in Int, row.sampling \in BOOLEAN,
         row.seat \in Seats, row.epoch \in Nat
  PROVE  /\ FrameOK(Put(rows, r, row))
         /\ \A s : /\ RowsHeld(s, rows)
                   /\ s.pool.seat[row.seat].epoch = row.epoch
                   /\ s.pool.seat[row.seat].owner = r
                   => RowsHeld(s, Put(rows, r, row))
<1> DEFINE new == Put(rows, r, row)
<1>1. DOMAIN new = DOMAIN rows \cup {r}
  BY PutKeys, Zenon
<1>2. new[r] = row
  BY PutAt
<1>3. ASSUME NEW x \in DOMAIN rows, x # r
      PROVE  new[x] = rows[x]
  BY <1>3, PutElsewhere
<1> HIDE DEF new
<1>4. FrameOK(new)
  BY <1>1, <1>2, <1>3 DEF FrameOK
<1>5. ASSUME NEW s, RowsHeld(s, rows), s.pool.seat[row.seat].epoch = row.epoch,
             s.pool.seat[row.seat].owner = r
      PROVE  RowsHeld(s, new)
  <2> SUFFICES ASSUME NEW x \in DOMAIN new
               PROVE  /\ s.pool.seat[new[x].seat].epoch = new[x].epoch
                      /\ s.pool.seat[new[x].seat].owner = x
    BY DEF RowsHeld
  <2>1. CASE x = r
    BY <1>2, <1>5, <2>1
  <2>2. CASE x # r
    <3>1. x \in DOMAIN rows /\ new[x] = rows[x]
      BY <1>1, <1>3, <2>2
    <3> QED BY <1>5, <3>1 DEF RowsHeld
  <2> QED BY <2>1, <2>2
<1> QED BY <1>4, <1>5 DEF new

LEMMA ScheduleRunningKeeps ==
  ASSUME Inv, ScheduleRunning
  PROVE  Inv'
<1> DEFINE r == Served
           n == Query(r)
           seat == SeatOf(st.pool, r)
           due == Len(AllTokens(r)) + req[r].placeholders - req[r].computed
           drafts == IF req[r].drafting THEN Max({0, n - due}) ELSE 0
           row == Row(r, [seat |-> seat, epoch |-> st.pool.seat[seat].epoch], n,
                      drafts, req[r].computed, n >= due, NoLimit)
           pages == NewPages(st.held[r], req[r].computed + n)
           p == Min(ToServe)
           held == [st.held EXCEPT ![r] = @ \o pages]
           ref == Pinned(st.ref, pages)
           rows == Put(attempt.rows, r, row)
<1>1. /\ Serving
      /\ Fits(st.held[r], req[r].computed + n)
      /\ st' = [st EXCEPT !.held = held, !.ref = ref]
      /\ req' = [req EXCEPT ![r] = Scheduled(req[r], req[r].computed, row)]
      /\ attempt' = [attempt EXCEPT !.next = p + 1, !.left = attempt.left - n,
                                    !.rows = rows]
      /\ UNCHANGED <<running, waiting, frames, ring>>
  BY DEF ScheduleRunning
<1>2. /\ Typed /\ Placed /\ AttemptKept
      /\ Seated(st, Range(running)) /\ RowsHeld(st, attempt.rows)
  BY DEF Inv
<1>3. /\ p \in attempt.next .. Len(running) /\ r = running[p] /\ attempt.next \in Nat
      /\ attempt.next >= 1 /\ Len(running) \in Nat /\ DOMAIN running = 1 .. Len(running)
  BY <1>1, <1>2, ServedOne, TypedFacts DEF AttemptKept
<1>4. r \in Range(running) /\ r \in Request
  BY <1>2, <1>3, TypedFacts DEF Range
<1>5. seat \in Seats /\ st.pool.seat[seat].owner = r
  <2>1. r \in Holders(st.pool)
    BY <1>2, <1>4 DEF Seated
  <2> QED BY <2>1, SeatOfOwner
<1>6. st.pool.seat[seat].epoch \in Nat /\ st \in State
  BY <1>2, <1>5, TypedFacts, StateFacts, PoolFacts
<1>7. n \in Int /\ req[r].computed \in Int /\ due \in Int
  BY <1>2, <1>4, CountsType, TokensType
<1>8. pages \in Seq(Page)
  <2>1. st.held[r] \in Seq(Page)
    BY <1>4, <1>6, StateFacts
  <2>2. req[r].computed + n \in Int
    BY <1>7
  <2> QED BY <1>1, <2>1, <2>2, NewPagesType
<1> HIDE DEF r, n, p, pages, seat
<1>9. drafts \in Int
  BY <1>7, MaxOfTwo
<1>10. (n >= due) \in BOOLEAN
  BY <1>7
<1> HIDE DEF due, drafts
<1>11. /\ row.seat = seat /\ row.epoch = st.pool.seat[seat].epoch
       /\ row.query = n /\ row.drafts = drafts /\ row.sampling = (n >= due)
  BY DEF Row
<1> HIDE DEF row
<1>12. /\ row.query \in Int /\ row.drafts \in Int /\ row.sampling \in BOOLEAN
       /\ row.seat \in Seats /\ row.epoch \in Nat
  BY <1>5, <1>6, <1>7, <1>9, <1>10, <1>11
<1>13. st' \in State /\ st'.pool = st.pool /\ st'.pending = st.pending
  <2>1. held \in [Request -> Seq(Page)]
    <3>1. st.held[r] \o pages \in Seq(Page)
      BY <1>4, <1>6, <1>8, StateFacts, ConcatProperties
    <3> QED BY <1>6, <3>1, StateFacts, Zenon
  <2>2. ref \in [Page -> Int]
    BY <1>6, StateFacts, PinnedType
  <2> HIDE DEF held, ref
  <2> QED BY <1>1, <1>6, <2>1, <2>2, Zenon DEF State
<1>14. /\ req' \in [Request -> RequestState]
       /\ \A x \in Request : req'[x].status = req[x].status
  <2> DEFINE q == Scheduled(req[r], req[r].computed, row)
  <2>1. req[r] \in RequestState /\ req \in [Request -> RequestState]
    BY <1>2, <1>4, TypedFacts
  <2>2. q \in RequestState /\ q.status = req[r].status
    BY <1>7, <1>12, <2>1, ScheduledType
  <2>3. req' = [req EXCEPT ![r] = q]
    BY <1>1
  <2> HIDE DEF q
  <2> QED BY <1>4, <2>1, <2>2, <2>3
<1>15. FrameOK(rows) /\ RowsHeld(st, rows)
  <2>1. FrameOK(attempt.rows)
    BY <1>2, TypedFacts
  <2> QED BY <1>2, <1>4, <1>5, <1>11, <1>12, <2>1, RowPut, Zenon
<1>16. DOMAIN rows = DOMAIN attempt.rows \cup {r}
  BY PutKeys, Zenon
<1> HIDE DEF rows
<1>17. /\ attempt'.phase = "schedule" /\ attempt'.next = p + 1 /\ attempt'.rows = rows
       /\ attempt' \in [phase : Phases, next : Nat, rows : {attempt'.rows}, left : Int,
                        grants : Partial(Request, Int), preempted : BOOLEAN]
  <2>1. attempt \in [phase : Phases, next : Nat, rows : {attempt.rows}, left : Int,
                     grants : Partial(Request, Int), preempted : BOOLEAN]
    BY <1>2 DEF Typed
  <2>2. p + 1 \in Nat /\ attempt.left - n \in Int
    BY <1>3, <1>7, <2>1
  <2> DEFINE a == p + 1
             b == attempt.left - n
  <2> HIDE DEF a, b
  <2>3. attempt' = [attempt EXCEPT !.next = a, !.left = b, !.rows = rows]
    BY <1>1 DEF a, b
  <2>4. a \in Nat /\ b \in Int
    BY <2>2 DEF a, b
  <2>5. attempt.phase = "schedule"
    BY <1>1 DEF Serving
  <2>6. attempt'.next = a
    BY <2>1, <2>3
  <2> QED BY <2>1, <2>3, <2>4, <2>5, <2>6, Zenon DEF a
<1>18. Typed'
  BY <1>1, <1>2, <1>13, <1>14, <1>15, <1>17 DEF Typed
<1>19. Placed'
  BY <1>1, <1>2, <1>14 DEF Placed
<1>20. AttemptKept'
  <2>1. /\ running' = running
        /\ attempt'.next = p + 1
        /\ attempt'.rows = rows
        /\ attempt'.phase = "schedule"
    BY <1>1, <1>17
  <2>2. p \in Int /\ p >= 1 /\ p <= Len(running) /\ p >= attempt.next
    BY <1>3
  <2>3. attempt'.next \in 1 .. Len(running') + 1
    BY <1>3, <2>1, <2>2
  <2>4. \A i \in 1 .. p : i \in 1 .. attempt'.next - 1
    BY <2>1, <2>2
  <2>5. ASSUME NEW x \in DOMAIN attempt'.rows
        PROVE  \E i \in 1 .. attempt'.next - 1 : running'[i] = x
    <3>1. CASE x = r
      <4>1. p \in 1 .. p
        BY <2>2
      <4> QED BY <1>3, <2>1, <2>4, <3>1, <4>1
    <3>2. CASE x # r
      <4>1. PICK i \in 1 .. attempt.next - 1 : running[i] = x
        BY <1>2, <1>16, <2>1, <3>2 DEF AttemptKept
      <4>2. i \in 1 .. p
        BY <1>3, <2>2
      <4> QED BY <2>1, <2>4, <4>1, <4>2
    <3> QED BY <3>1, <3>2
  <2> QED BY <2>1, <2>3, <2>5 DEF AttemptKept
<1>21. /\ Seated(st', Range(running')) /\ PendingKept(st') /\ NoneDue(st')
       /\ RowsKept(st', frames') /\ RowsHeld(st', attempt'.rows)
  <2>1. Seated(st, Range(running)) /\ PendingKept(st) /\ NoneDue(st) /\ RowsKept(st, frames)
    BY DEF Inv
  <2>2. /\ Seated(st', Range(running)) /\ PendingKept(st') /\ NoneDue(st')
        /\ RowsKept(st', frames) /\ RowsHeld(st', rows)
    BY <1>13, <1>15, <2>1, SamePool
  <2> QED BY <1>1, <1>17, <2>2
<1>22. Apart(frames')
  BY <1>1 DEF Inv
<1> QED BY <1>18, <1>19, <1>20, <1>21, <1>22 DEF Inv

\* An idle seat without a fence, evicted.
LEMMA EvictHotFields ==
  ASSUME Inv, NEW exclude, EvictHot(exclude)
  PROVE  /\ st' \in State /\ st'.pending = st.pending /\ st'.offers = st.offers
         /\ Seated(st', Range(running)) /\ PendingKept(st') /\ NoneDue(st')
         /\ RowsKept(st', frames) /\ RowsHeld(st', attempt.rows)
         /\ \A j \in Seats : j \in exclude => st'.pool.seat[j] = st.pool.seat[j]
<1> DEFINE i == Head(Evictable(st.pool, exclude))
           pool == Evicted(st.pool, i)
           ref == Unpinned(st.ref, st.pool.seat[i].blocks)
<1>1. /\ Evictable(st.pool, exclude) # <<>>
      /\ st' = [st EXCEPT !.pool = pool, !.ref = ref]
  BY DEF EvictHot
<1>2. Typed /\ st \in State /\ st.pool \in Pool /\ Rowed(frames)
  BY TypedFacts, StateFacts DEF Inv
<1>3. i \in Seats /\ i \notin exclude /\ st.pool.seat[i].owner = Nobody
      /\ st.pool.seat[i].fence = 0
  BY <1>1, <1>2, VictimOf
<1> HIDE DEF i
<1>4. /\ pool \in Pool
      /\ pool.seat[i].owner = Nobody
      /\ \A j \in Seats \ {i} : pool.seat[j] = st.pool.seat[j]
  BY <1>2, <1>3, EvictedFields
<1>5. ref \in [Page -> Int]
  BY <1>2, StateFacts, PinnedType
<1> HIDE DEF pool, ref
<1>6. st' \in State /\ st'.pool = pool /\ st'.pending = st.pending /\ st'.offers = st.offers
  BY <1>1, <1>2, <1>4, <1>5, Zenon DEF State
<1>7. DOMAIN frames \subseteq Nat \ {0}
  <2>1. DOMAIN frames = 1 .. Len(frames) /\ Len(frames) \in Nat
    BY <1>2, TypedFacts, LenProperties
  <2> QED BY <2>1
<1>8. FrameOK(attempt.rows)
  BY <1>2, TypedFacts
<1>9. /\ PendingKept(st) /\ NoneDue(st) /\ RowsKept(st, frames) /\ RowsHeld(st, attempt.rows)
      /\ Seated(st, Range(running))
  BY DEF Inv
<1>10. PendingKept(st') /\ NoneDue(st') /\ RowsKept(st', frames) /\ RowsHeld(st', attempt.rows)
  BY <1>2, <1>3, <1>4, <1>6, <1>7, <1>8, <1>9, FreeSeatChanges
<1>11. Seated(st', Range(running))
  BY <1>2, <1>3, <1>4, <1>6, <1>9, FreeSeatForgets
<1> QED BY <1>3, <1>4, <1>6, <1>10, <1>11

LEMMA EvictForRunningKeeps ==
  ASSUME Inv, EvictForRunning
  PROVE  Inv'
<1>1. /\ attempt.phase = "schedule" /\ EvictHot({})
      /\ UNCHANGED <<req, running, waiting, frames, ring, attempt>>
  BY DEF EvictForRunning, Serving
<1>2. /\ st' \in State
      /\ Seated(st', Range(running)) /\ PendingKept(st') /\ NoneDue(st')
      /\ RowsKept(st', frames) /\ RowsHeld(st', attempt.rows)
  BY <1>1, EvictHotFields
<1>3. Typed'
  BY <1>1, <1>2 DEF Inv, Typed
<1>4. Placed' /\ Apart(frames')
  BY <1>1 DEF Inv, Placed
<1>5. AttemptKept'
  BY <1>1 DEF Inv, AttemptKept
<1> QED BY <1>1, <1>2, <1>3, <1>4, <1>5 DEF Inv

LEMMA FrontList ==
  ASSUME NEW T, NEW s \in Seq(T), s # <<>>
  PROVE  /\ Front(s) \in Seq(T) /\ Len(Front(s)) = Len(s) - 1
         /\ Len(s) \in Nat \ {0} /\ DOMAIN s = 1 .. Len(s)
         /\ \A i \in 1 .. Len(s) - 1 : Front(s)[i] = s[i]
         /\ Last(s) = s[Len(s)] /\ Last(s) \in T
         /\ Once(s) => Once(Front(s)) /\ Range(Front(s)) = Range(s) \ {Last(s)}
<1> DEFINE f == Front(s)
           n == Len(s)
<1>1. n \in Nat \ {0} /\ DOMAIN s = 1 .. n /\ \A i \in 1 .. n : s[i] \in T
  BY LenProperties, ElementOfSeq, EmptySeq
<1>2. f = SubSeq(s, 1, n - 1)
  BY DEF Front
<1> HIDE DEF n, f
<1>3. f \in Seq(T) /\ Len(f) = n - 1 /\ \A i \in 1 .. n - 1 : f[i] = s[i]
  <2>1. \A i \in 1 .. n - 1 : s[i] \in T
    BY <1>1
  <2>2. /\ SubSeq(s, 1, n - 1) \in Seq(T)
        /\ Len(SubSeq(s, 1, n - 1)) = IF 1 <= n - 1 THEN n - 1 - 1 + 1 ELSE 0
        /\ \A i \in 1 .. n - 1 - 1 + 1 : SubSeq(s, 1, n - 1)[i] = s[1 + i - 1]
    BY <1>1, <2>1, SubSeqProperties
  <2>3. \A i \in 1 .. n - 1 : i \in 1 .. n - 1 - 1 + 1 /\ 1 + i - 1 = i
    BY <1>1
  <2> QED BY <1>1, <1>2, <2>2, <2>3
<1>4. Last(s) = s[n] /\ Last(s) \in T
  BY <1>1 DEF Last, n
<1>5. DOMAIN f = 1 .. n - 1
  BY <1>1, <1>3, LenProperties
<1>6. ASSUME Once(s)
      PROVE  Once(f) /\ Range(f) = Range(s) \ {Last(s)}
  <2>1. \A i \in 1 .. n : i = n \/ i \in 1 .. n - 1
    BY <1>1
  <2>2. \A i \in 1 .. n - 1 : i \in 1 .. n /\ i # n
    BY <1>1
  <2>3. Once(f)
    BY <1>1, <1>3, <1>5, <1>6, <2>2 DEF Once
  <2>4. \A i \in 1 .. n - 1 : s[i] # s[n]
    <3>1. n \in 1 .. n
      BY <1>1
    <3> QED BY <1>1, <1>6, <2>2, <3>1 DEF Once
  <2>5. Range(f) = Range(s) \ {Last(s)}
    BY <1>1, <1>3, <1>4, <1>5, <2>1, <2>2, <2>4 DEF Range
  <2> QED BY <2>3, <2>5
<1> QED BY <1>1, <1>3, <1>4, <1>6 DEF f, n

LEMMA OnceJoin ==
  ASSUME NEW T, NEW s \in Seq(T), NEW t \in Seq(T)
  PROVE  /\ s \o t \in Seq(T) /\ Range(s \o t) = Range(s) \cup Range(t)
         /\ Once(s) /\ Once(t) /\ Range(s) \cap Range(t) = {} => Once(s \o t)
<1> DEFINE u == s \o t
           m == Len(s)
           n == Len(t)
<1>1. /\ u \in Seq(T) /\ Len(u) = m + n /\ Range(u) = Range(s) \cup Range(t)
      /\ \A i \in 1 .. m : u[i] = s[i]
      /\ \A i \in m + 1 .. m + n : u[i] = t[i - m]
  BY ConcatProperties, RangeConcatenation
<1>2. m \in Nat /\ n \in Nat /\ DOMAIN s = 1 .. m /\ DOMAIN t = 1 .. n /\ DOMAIN u = 1 .. m + n
  BY <1>1, LenProperties
<1> HIDE DEF u, m, n
<1>3. \A i \in DOMAIN u : \/ i \in DOMAIN s /\ u[i] = s[i]
                          \/ i - m \in DOMAIN t /\ u[i] = t[i - m]
  <2>1. \A i \in 1 .. m + n : i \in 1 .. m \/ (i \in m + 1 .. m + n /\ i - m \in 1 .. n)
    BY <1>2
  <2> QED BY <1>1, <1>2, <2>1
<1>4. ASSUME Once(s), Once(t), Range(s) \cap Range(t) = {},
             NEW i \in DOMAIN u, NEW j \in DOMAIN u, u[i] = u[j]
      PROVE  i = j
  <2>1. \A a \in DOMAIN s : \A b \in DOMAIN t : s[a] # t[b]
    BY <1>4, Zenon DEF Range
  <2>2. \/ i \in DOMAIN s /\ j \in DOMAIN s /\ s[i] = s[j]
        \/ i - m \in DOMAIN t /\ j - m \in DOMAIN t /\ t[i - m] = t[j - m]
    BY <1>3, <1>4, <2>1
  <2>3. i \in Int /\ j \in Int
    BY <1>2
  <2>4. i = j \/ i - m = j - m
    BY <1>4, <2>2 DEF Once
  <2> QED BY <1>2, <2>3, <2>4
<1>5. Once(s) /\ Once(t) /\ Range(s) \cap Range(t) = {} => Once(u)
  BY <1>4 DEF Once
<1> QED BY <1>1, <1>5 DEF u

\* One more request among those of a list, behind the ones of A.
OnePut(s, x, A) == Only(s, A) \o <<x>> \o Only(s, Request \ A)

LEMMA OncePut ==
  ASSUME NEW s \in Seq(Request), NEW x \in Request, NEW A
  PROVE  /\ OnePut(s, x, A) \in Seq(Request)
         /\ Range(OnePut(s, x, A)) = Range(s) \cup {x}
         /\ Once(s) /\ x \notin Range(s) => Once(OnePut(s, x, A))
<1> DEFINE T == Request
           B == T \ A
           one == <<x>>
           a == Only(s, A)
           b == Only(s, B)
           h == a \o one
           u == OnePut(s, x, A)
<1>0. T \subseteq A \cup B /\ A \cap B = {}
  OBVIOUS
<1>1. one \in Seq(T) /\ Range(one) = {x} /\ Once(one)
  BY DEF Range, Once
<1>2. /\ a \in Seq(T) /\ Range(a) = Range(s) \cap A /\ (Once(s) => Once(a))
      /\ b \in Seq(T) /\ Range(b) = Range(s) \cap B /\ (Once(s) => Once(b))
  BY OnlyMembers
<1>3. Range(s) \subseteq T
  BY RangeOfSeq
<1>4. u = h \o b
  BY DEF OnePut
<1> HIDE DEF one, a, b, u, B
<1>5. /\ h \in Seq(T) /\ Range(h) = Range(a) \cup Range(one)
      /\ Once(a) /\ Range(a) \cap Range(one) = {} => Once(h)
  BY <1>1, <1>2, OnceJoin
<1> HIDE DEF h
<1>6. /\ u \in Seq(T) /\ Range(u) = Range(h) \cup Range(b)
      /\ Once(h) /\ Once(b) /\ Range(h) \cap Range(b) = {} => Once(u)
  <2>1. b \in Seq(T) /\ h \in Seq(T)
    BY <1>2, <1>5
  <2>2. /\ h \o b \in Seq(T) /\ Range(h \o b) = Range(h) \cup Range(b)
        /\ Once(h) /\ Once(b) /\ Range(h) \cap Range(b) = {} => Once(h \o b)
    BY <2>1, OnceJoin
  <2> QED BY <1>4, <2>2
<1>7. Range(u) = Range(s) \cup {x}
  BY <1>0, <1>1, <1>2, <1>3, <1>5, <1>6
<1>8. ASSUME Once(s), x \notin Range(s)
      PROVE  Once(u)
  <2>1. Range(a) \cap Range(one) = {}
    BY <1>1, <1>2, <1>8
  <2>2. Range(h) \cap Range(b) = {}
    BY <1>0, <1>1, <1>2, <1>5, <1>8
  <2> QED BY <1>1, <1>2, <1>5, <1>6, <1>8, <2>1, <2>2
<1> QED BY <1>6, <1>7, <1>8 DEF u

LEMMA PreemptLastKeeps ==
  ASSUME Inv, PreemptLast
  PROVE  Inv'
<1> DEFINE victim == Last(running)
           fence == LastFrame(frames, victim)
           q == [req[victim] EXCEPT !.status = "waiting", !.computed = 0,
                                    !.placeholders = 0, !.drafting = FALSE]
           p == Min(ToServe)
<1>1. /\ Serving
      /\ st' = FreeRequestBlocks(st, victim, FALSE, fence)
      /\ req' = [req EXCEPT ![victim] = q]
      /\ running' = Front(running)
      /\ waiting' = Only(waiting, skipped) \o <<victim>> \o Only(waiting, Request \ skipped)
      /\ attempt' = [attempt EXCEPT !.preempted = TRUE]
      /\ UNCHANGED <<frames, ring>>
  BY DEF PreemptLast
<1>2. /\ Typed /\ Placed /\ AttemptKept /\ Once(running)
      /\ Seated(st, Range(running)) /\ PendingKept(st) /\ RowsKept(st, frames)
      /\ RowsHeld(st, attempt.rows)
  BY DEF Inv, Placed
<1>3. /\ st \in State /\ Rowed(frames) /\ frames \in Seq(Range(frames))
      /\ running \in Seq(Request) /\ waiting \in Seq(Request)
      /\ req \in [Request -> RequestState] /\ FrameOK(attempt.rows)
      /\ attempt.next \in Nat /\ Len(running) \in Nat
  BY <1>2, TypedFacts
<1>4. p \in attempt.next .. Len(running) /\ attempt.next >= 1
  BY <1>1, <1>2, <1>3, ServedOne DEF AttemptKept
<1> HIDE DEF p
<1>5. p \in Int /\ attempt.next <= p /\ p <= Len(running)
  BY <1>3, <1>4
<1>6. running # <<>>
  <2>1. Len(running) # 0
    BY <1>3, <1>4, <1>5
  <2> QED BY <2>1, EmptySeq
<1>7. /\ running' \in Seq(Request) /\ Len(running') = Len(running) - 1
      /\ DOMAIN running = 1 .. Len(running)
      /\ \A i \in 1 .. Len(running) - 1 : running'[i] = running[i]
      /\ victim = running[Len(running)] /\ victim \in Request
      /\ Once(running') /\ Range(running') = Range(running) \ {victim}
  BY <1>1, <1>2, <1>3, <1>6, FrontList, Zenon
<1>8. victim \in Range(running)
  <2>1. Len(running) \in DOMAIN running
    BY <1>3, <1>4, <1>5, <1>7
  <2> QED BY <1>7, <2>1 DEF Range
<1> HIDE DEF victim
<1>9. fence \in Nat /\ Covers(frames, victim, fence)
  BY <1>3, LastFrameCovers
<1> HIDE DEF fence
<1>10. /\ st' \in State /\ Seated(st', Range(running')) /\ PendingKept(st') /\ NoneDue(st')
       /\ RowsKept(st', frames) /\ OthersStay(st, st', victim)
  <2> DEFINE next == FreeRequestBlocks(st, victim, FALSE, fence)
  <2>1. /\ next \in State
        /\ Seated(next, Range(running) \ {victim})
        /\ PendingKept(next) /\ NoneDue(next)
        /\ RowsKept(next, frames)
        /\ OthersStay(st, next, victim)
    BY <1>2, <1>3, <1>7, <1>9, FreeRequestBlocksKeeps, Zenon
  <2> HIDE DEF next
  <2>2. st' = next
    BY <1>1 DEF next
  <2> QED BY <1>7, <2>1, <2>2
<1>11. \A x \in DOMAIN attempt.rows :
         \E i \in 1 .. attempt.next - 1 : running[i] = x /\ i \in 1 .. Len(running) - 1
  <2> SUFFICES ASSUME NEW x \in DOMAIN attempt.rows
               PROVE  \E i \in 1 .. attempt.next - 1 :
                        running[i] = x /\ i \in 1 .. Len(running) - 1
    OBVIOUS
  <2>1. PICK i \in 1 .. attempt.next - 1 : running[i] = x
    BY <1>2 DEF AttemptKept
  <2>2. i \in 1 .. Len(running) - 1
    BY <1>3, <1>5
  <2> QED BY <2>1, <2>2
<1>12. victim \notin DOMAIN attempt.rows
  <2>1. ASSUME NEW i \in 1 .. Len(running) - 1
        PROVE  running[i] # victim
    <3>1. i \in DOMAIN running /\ Len(running) \in DOMAIN running /\ i # Len(running)
      BY <1>3, <1>7
    <3> QED BY <1>2, <1>7, <3>1 DEF Once
  <2> QED BY <1>11, <2>1
<1>13. RowsHeld(st', attempt.rows)
  <2> SUFFICES ASSUME NEW x \in DOMAIN attempt.rows, NEW a, a = attempt.rows[x].seat
               PROVE  /\ st'.pool.seat[a].epoch = attempt.rows[x].epoch
                      /\ st'.pool.seat[a].owner = x
    BY DEF RowsHeld
  <2>1. /\ st.pool.seat[a].epoch = attempt.rows[x].epoch
        /\ st.pool.seat[a].owner = x
    BY <1>2 DEF RowsHeld
  <2>2. a \in Seats /\ x \in Request /\ x # Nobody /\ x # victim
    BY <1>3, <1>12, SeatAssumption DEF FrameOK
  <2> QED BY <1>10, <2>1, <2>2, Zenon DEF OthersStay
<1>14. /\ req' \in [Request -> RequestState]
       /\ \A x \in Request : req'[x].status = IF x = victim THEN "waiting" ELSE req[x].status
  <2>1. q \in RequestState /\ q.status = "waiting"
    <3> DEFINE old == req[victim]
               parked == [old EXCEPT !.status = "waiting"]
               zero == 0
               no == FALSE
    <3>1. old \in RequestState
      BY <1>3, <1>7
    <3>2. q = [parked EXCEPT !.computed = zero, !.placeholders = zero, !.drafting = no]
      <4>1. old = [status |-> old.status, out |-> old.out, computed |-> old.computed,
                   placeholders |-> old.placeholders, drafting |-> old.drafting,
                   lease |-> old.lease]
        BY <3>1 DEF RequestState
      <4> QED BY <4>1
    <3> HIDE DEF old
    <3>3. "waiting" \in Statuses
      BY DEF Statuses
    <3>4. parked \in RequestState /\ parked.status = "waiting"
      BY <3>1, <3>3, StatusType DEF RequestState
    <3>5. zero \in Int /\ no \in BOOLEAN
      OBVIOUS
    <3> HIDE DEF parked, q, zero, no
    <3>6. LET next == [parked EXCEPT !.computed = zero, !.placeholders = zero,
                                     !.drafting = no]
          IN  next \in RequestState /\ next.status = parked.status
      BY <3>4, <3>5, Zenon DEF RequestState
    <3> QED BY <3>2, <3>4, <3>6
  <2> HIDE DEF q
  <2> QED BY <1>1, <1>3, <1>7, <2>1
<1>15. /\ waiting' \in Seq(Request) /\ Range(waiting') = Range(waiting) \cup {victim}
  <2> DEFINE next == OnePut(waiting, victim, skipped)
  <2>1. waiting' = next
    BY <1>1 DEF OnePut
  <2>2. next \in Seq(Request) /\ Range(next) = Range(waiting) \cup {victim}
    BY <1>3, <1>7, OncePut
  <2> HIDE DEF next
  <2> QED BY <2>1, <2>2
<1>16. /\ attempt'.phase = attempt.phase /\ attempt.phase = "schedule"
       /\ attempt'.next = attempt.next
       /\ attempt'.rows = attempt.rows
       /\ attempt' \in [phase : Phases, next : Nat, rows : {attempt'.rows}, left : Int,
                        grants : Partial(Request, Int), preempted : BOOLEAN]
  <2>1. attempt \in [phase : Phases, next : Nat, rows : {attempt.rows}, left : Int,
                     grants : Partial(Request, Int), preempted : BOOLEAN]
    BY <1>2 DEF Typed
  <2> QED BY <1>1, <2>1, Zenon DEF Serving
<1>17. Typed'
  BY <1>1, <1>2, <1>7, <1>10, <1>14, <1>15, <1>16, Zenon DEF Typed
<1>18. Placed'
  BY <1>2, <1>7, <1>8, <1>14, <1>15 DEF Placed
<1>19. AttemptKept'
  <2>1. attempt'.next \in 1 .. Len(running') + 1
    BY <1>3, <1>4, <1>5, <1>7, <1>16
  <2>2. \A x \in DOMAIN attempt'.rows : \E i \in 1 .. attempt'.next - 1 : running'[i] = x
    BY <1>7, <1>11, <1>16
  <2> QED BY <1>16, <2>1, <2>2 DEF AttemptKept
<1>20. Apart(frames') /\ RowsKept(st', frames') /\ RowsHeld(st', attempt'.rows)
  BY <1>1, <1>10, <1>13, <1>16, Zenon DEF Inv
<1> QED BY <1>10, <1>17, <1>18, <1>19, <1>20 DEF Inv

LEMMA CandidateIs ==
  ASSUME Typed, Queued # <<>>
  PROVE  Candidate \in Range(waiting) /\ Candidate \in Request /\ Granted(Candidate) \in Int
<1>1. waiting \in Seq(Request)
  BY TypedFacts
<1> DEFINE queue == Queued
           W == {r \in Request : Granted(r) > 0}
<1>2. queue \in Seq(Request) /\ Range(queue) = Range(waiting) \cap W
  BY <1>1, OnlyMembers DEF Queued
<1>3. Candidate = Head(queue)
  BY DEF Candidate
<1> HIDE DEF queue
<1>4. queue # <<>>
  BY DEF queue
<1>5. Range(queue) # {}
  BY <1>2, <1>4, ListedSome
<1>6. Head(queue) \in Range(queue)
  BY <1>2, <1>5, FirstOf
<1>7. Candidate \in Range(waiting) /\ Candidate \in Request
  BY <1>2, <1>3, <1>6
<1> QED BY <1>7, CountsType

LEMMA ConsiderWaitingKeeps ==
  ASSUME Inv, ConsiderWaiting
  PROVE  Inv'
<1>3. Typed /\ Queued # <<>> /\ Candidate \in Request
  BY CandidateIs DEF Inv, ConsiderWaiting, Admitting
<1> SUFFICES ASSUME NEW r \in Request, r = Candidate
             PROVE  Inv'
  BY <1>3
<1> DEFINE offer == OfferFor(r)
           i == offer.seat
           pool == IF offer.warm THEN st.pool ELSE Discard(st.pool, offer)
           ref == IF offer.warm THEN st.ref ELSE Unpinned(st.ref, st.pool.seat[i].blocks)
           new == [offer EXCEPT !.epoch = pool.seat[i].epoch]
           offers == [st.offers EXCEPT ![r] = new]
           tokens == AllTokens(r)
<1>1. /\ attempt.phase = "schedule" /\ Queued # <<>> /\ offer # NoOffer
      /\ st' = [st EXCEPT !.pool = pool, !.ref = ref, !.offers = offers]
      /\ attempt' = [attempt EXCEPT !.phase = "allocate"]
      /\ UNCHANGED <<req, running, waiting, frames, ring>>
  BY DEF ConsiderWaiting, Admitting
<1>2. /\ Typed /\ st \in State /\ st.pool \in Pool /\ Rowed(frames)
      /\ st.offers \in [Request -> OfferState \cup {NoOffer}] /\ st.ref \in [Page -> Int]
      /\ FrameOK(attempt.rows)
  BY TypedFacts, StateFacts DEF Inv
<1>4. tokens \in Seq(Token)
  BY <1>2, TokensType
<1>5. OfferGood(st.pool, offer, tokens)
  BY <1>1, <1>2, <1>4, OfferedGood DEF OfferFor
<1>6. Queued' = Queued
  <2>1. attempt'.grants = attempt.grants
    BY <1>1, <1>2 DEF Typed
  <2> QED BY <1>1, <2>1 DEF Queued, Granted
<1>7. Candidate' = r
  BY <1>6 DEF Candidate
<1>8. \A x \in Request : AllTokens(x)' = AllTokens(x)
  BY <1>1 DEF AllTokens
<1> HIDE DEF offer
<1>9. offer \in OfferState /\ i \in Seats /\ offer.warm \in BOOLEAN
      /\ st.pool.seat[i].owner = Nobody /\ st.pool.seat[i].fence = 0
  BY <1>5 DEF OfferGood, Current, OfferState
<1>10. /\ pool \in Pool
       /\ pool.seat[i].owner = Nobody
       /\ pool.seat[i].fence = 0
       /\ \A j \in Seats \ {i} : pool.seat[j] = st.pool.seat[j]
       /\ offer.warm => pool = st.pool
  BY <1>2, <1>9, DiscardFields
<1>11. ref \in [Page -> Int]
  BY <1>2, PinnedType
<1> HIDE DEF pool, ref
<1>12. /\ new \in OfferState
       /\ new.seat = i
       /\ new.warm = offer.warm
       /\ new.epoch = pool.seat[i].epoch
  <2>1. pool.seat[i].epoch \in Nat
    BY <1>9, <1>10, PoolFacts
  <2> QED BY <1>9, <2>1 DEF OfferState
<1> HIDE DEF new
<1>13. OfferGood(pool, new, tokens)
  BY <1>5, <1>9, <1>10, <1>12 DEF OfferGood, Current
<1>14. offers \in [Request -> OfferState \cup {NoOffer}] /\ offers[r] = new
  BY <1>2, <1>12
<1> HIDE DEF offers
<1>15. /\ st' \in State /\ st'.pool = pool /\ st'.pending = st.pending
       /\ st'.offers = offers
  BY <1>1, <1>2, <1>10, <1>11, <1>14, Zenon DEF State
<1>16. OfferKept(Candidate)'
  <2>1. OfferGood(st'.pool, st'.offers[r], tokens)
    BY <1>13, <1>14, <1>15
  <2>2. AllTokens(r)' = tokens
    BY <1>8
  <2> QED BY <1>7, <2>1, <2>2 DEF OfferKept
<1>17. /\ PendingKept(st') /\ NoneDue(st') /\ RowsKept(st', frames)
       /\ RowsHeld(st', attempt.rows) /\ Seated(st', Range(running))
  <2>1. DOMAIN frames \subseteq Nat \ {0}
    <3>1. DOMAIN frames = 1 .. Len(frames) /\ Len(frames) \in Nat
      BY <1>2, TypedFacts, LenProperties
    <3> QED BY <3>1
  <2>2. /\ PendingKept(st) /\ NoneDue(st) /\ RowsKept(st, frames) /\ RowsHeld(st, attempt.rows)
        /\ Seated(st, Range(running))
    BY DEF Inv
  <2>3. /\ PendingKept(st') /\ NoneDue(st') /\ RowsKept(st', frames)
        /\ RowsHeld(st', attempt.rows)
    BY <1>2, <1>9, <1>10, <1>15, <2>1, <2>2, FreeSeatChanges
  <2>4. Seated(st', Range(running))
    BY <1>2, <1>9, <1>10, <1>15, <2>2, FreeSeatForgets
  <2> QED BY <2>3, <2>4
<1>18. /\ attempt'.phase = "allocate"
       /\ attempt'.next = attempt.next
       /\ attempt'.rows = attempt.rows
       /\ attempt' \in [phase : Phases, next : Nat, rows : {attempt'.rows}, left : Int,
                        grants : Partial(Request, Int), preempted : BOOLEAN]
  <2>1. attempt \in [phase : Phases, next : Nat, rows : {attempt.rows}, left : Int,
                     grants : Partial(Request, Int), preempted : BOOLEAN]
    BY <1>2 DEF Typed
  <2>2. "allocate" \in Phases
    BY DEF Phases
  <2> QED BY <1>1, <2>1, <2>2
<1>19. Typed'
  BY <1>1, <1>2, <1>15, <1>18 DEF Typed
<1>20. Placed' /\ Apart(frames')
  BY <1>1 DEF Inv, Placed
<1>21. AttemptKept'
  BY <1>1, <1>6, <1>16, <1>18 DEF Inv, AttemptKept
<1> QED BY <1>1, <1>17, <1>18, <1>19, <1>20, <1>21 DEF Inv

LEMMA EvictForWaitingKeeps ==
  ASSUME Inv, EvictForWaiting
  PROVE  Inv'
<1>1. Typed /\ attempt.phase = "allocate" /\ Queued # <<>> /\ OfferKept(Candidate)
  BY DEF Inv, EvictForWaiting, AttemptKept
<1>2. Candidate \in Request
  BY <1>1, CandidateIs
<1> SUFFICES ASSUME NEW r \in Request, r = Candidate
             PROVE  Inv'
  BY <1>2
<1> DEFINE offer == st.offers[r]
           tokens == AllTokens(r)
<1>3. EvictHot({offer.seat}) /\ UNCHANGED <<req, running, waiting, frames, ring, attempt>>
  BY DEF EvictForWaiting
<1>4. OfferGood(st.pool, offer, tokens)
  BY <1>1 DEF OfferKept
<1>5. offer.seat \in Seats
  BY <1>4 DEF OfferGood, OfferState
<1>6. /\ st' \in State /\ st'.offers = st.offers
      /\ Seated(st', Range(running)) /\ PendingKept(st') /\ NoneDue(st')
      /\ RowsKept(st', frames) /\ RowsHeld(st', attempt.rows)
      /\ st'.pool.seat[offer.seat] = st.pool.seat[offer.seat]
  BY <1>3, <1>5, EvictHotFields
<1>7. Typed'
  BY <1>3, <1>6 DEF Inv, Typed
<1>8. Placed' /\ Apart(frames')
  BY <1>3 DEF Inv, Placed
<1>9. Queued' = Queued /\ Candidate' = r /\ AllTokens(r)' = tokens
  <2>1. Queued' = Queued
    BY <1>3 DEF Queued, Granted
  <2> QED BY <1>3, <2>1 DEF Candidate, AllTokens
<1>10. OfferKept(Candidate)'
  <2> DEFINE kept == st'.offers[r]
  <2>1. kept = offer
    BY <1>6
  <2>2. OfferGood(st'.pool, offer, tokens)
    BY <1>4, <1>6 DEF OfferGood, Current
  <2>3. OfferGood(st'.pool, kept, tokens)
    BY <2>1, <2>2
  <2> QED BY <1>9, <2>3 DEF OfferKept
<1>11. AttemptKept'
  BY <1>1, <1>3, <1>9, <1>10 DEF Inv, AttemptKept
<1> QED BY <1>3, <1>6, <1>7, <1>8, <1>11 DEF Inv

\* A frame at the end of the queue.
LEMMA QueuedFrame ==
  ASSUME Inv
  PROVE  LET next == Append(frames, attempt.rows)
         IN  /\ next \in Seq(Range(next)) /\ Rowed(next)
             /\ RowsKept(st, next)
             /\ Apart(next)
<1> DEFINE rows == attempt.rows
           next == Append(frames, rows)
           T == Range(frames) \cup {rows}
           n == Len(frames)
<1>1. frames \in Seq(Range(frames)) /\ Rowed(frames) /\ FrameOK(rows)
  BY TypedFacts DEF Inv
<1>2. n \in Nat /\ DOMAIN frames = 1 .. n /\ \A i \in 1 .. n : frames[i] \in T
  BY <1>1, LenProperties DEF Range
<1>3. frames \in Seq(T) /\ rows \in T
  BY <1>1, <1>2, LenProperties
<1>4. /\ next \in Seq(T) /\ Len(next) = n + 1
      /\ \A i \in 1 .. n : next[i] = frames[i]
      /\ next[n + 1] = rows
      /\ Range(next) = T
  BY <1>3, AppendRange
<1>5. next \in Seq(Range(next))
  BY <1>4
<1>6. DOMAIN next = 1 .. n + 1
  BY <1>4, LenProperties
<1>7. \A i \in 1 .. n + 1 : i \in 1 .. n \/ i = n + 1
  BY <1>2
<1>8. RowsKept(st, frames) /\ Apart(frames) /\ RowsHeld(st, rows)
  BY DEF Inv
<1> HIDE DEF rows, n, next
<1>9. Rowed(next)
  BY <1>1, <1>2, <1>4, <1>6, <1>7 DEF Rowed
<1>10. \A r \in DOMAIN rows : r \in Request /\ r # Nobody
  BY <1>1, SeatAssumption DEF FrameOK
<1>11. ASSUME NEW i \in 1 .. n + 1, NEW r \in DOMAIN next[i]
       PROVE  LET seat == st.pool.seat[next[i][r].seat]
              IN  /\ seat.epoch = next[i][r].epoch
                  /\ seat.owner \in {r, Nobody}
                  /\ seat.owner = Nobody => seat.fence >= i
                  /\ i = n + 1 => seat.owner = r
  <2>1. CASE i \in 1 .. n
    <3>1. i # n + 1
      BY <1>2, <2>1
    <3> QED BY <1>2, <1>4, <1>8, <2>1, <3>1 DEF RowsKept
  <2>2. CASE i = n + 1
    BY <1>4, <1>8, <1>10, <2>2 DEF RowsHeld
  <2> QED BY <1>7, <2>1, <2>2, Zenon
<1>12. RowsKept(st, next)
  BY <1>6, <1>11 DEF RowsKept
<1>13. ASSUME NEW i \in 1 .. n + 1, NEW j \in 1 .. n + 1,
              NEW q \in DOMAIN next[i], NEW r \in DOMAIN next[j],
              next[i][q].seat = next[j][r].seat
       PROVE  q = r /\ next[i][q].epoch = next[j][r].epoch
  <2>1. next[i][q].epoch = next[j][r].epoch
    BY <1>11, <1>13
  <2>2. CASE i \in 1 .. n /\ j \in 1 .. n
    BY <1>2, <1>4, <1>8, <1>13, <2>2 DEF Apart
  <2>3. CASE i = n + 1
    <3>1. q \in DOMAIN rows
      BY <1>4, <2>3
    <3> QED BY <1>10, <1>11, <1>13, <2>1, <2>3, <3>1
  <2>4. CASE j = n + 1
    <3>1. r \in DOMAIN rows
      BY <1>4, <2>4
    <3> QED BY <1>10, <1>11, <1>13, <2>1, <2>4, <3>1
  <2> QED BY <1>7, <2>2, <2>3, <2>4
<1>14. Apart(next)
  BY <1>6, <1>13 DEF Apart
<1> QED BY <1>5, <1>9, <1>12, <1>14 DEF next, rows

LEMMA RestingType ==
  ASSUME NEW phase \in {"idle", "collect"}
  PROVE  LET next == [Resting EXCEPT !.phase = phase]
         IN  /\ next.phase = phase /\ next.next = 1
             /\ DOMAIN next.rows = {} /\ FrameOK(next.rows)
             /\ next \in [phase : Phases, next : Nat, rows : {next.rows}, left : Int,
                          grants : Partial(Request, Int), preempted : BOOLEAN]
<1> DEFINE rest == Resting
           next == [rest EXCEPT !.phase = phase]
           A(none) == [phase : Phases, next : Nat, rows : {none}, left : Int,
                       grants : Partial(Request, Int), preempted : BOOLEAN]
<1>1. <<>> \in Partial(Request, Int) /\ DOMAIN <<>> = {}
  BY EmptyPartial
<1>2. phase \in Phases /\ "idle" \in Phases
  BY DEF Phases
<1>3. FrameOK(<<>>)
  BY <1>1 DEF FrameOK
<1>4. rest \in A(<<>>) /\ rest.next = 1
  BY <1>1, <1>2 DEF Resting
<1> HIDE DEF rest
<1>5. \A none : rest \in A(none) =>
        /\ next \in A(none)
        /\ next.rows = none
        /\ next.phase = phase
        /\ next.next = rest.next
  BY <1>2
<1> HIDE DEF next
<1>6. next \in A(<<>>) /\ next.rows = <<>> /\ next.phase = phase /\ next.next = 1
  BY <1>4, <1>5
<1> QED BY <1>1, <1>3, <1>6 DEF next, rest

LEMMA QueueFrameKeeps ==
  ASSUME Inv, QueueFrame
  PROVE  Inv'
<1>1. PICK phase \in {"idle", "collect"} : attempt' = [Resting EXCEPT !.phase = phase]
  BY DEF QueueFrame
<1>2. /\ frames' = IF attempt.rows = <<>> THEN frames ELSE Append(frames, attempt.rows)
      /\ UNCHANGED <<st, req, running, waiting, ring>>
  BY DEF QueueFrame
<1>3. /\ attempt'.phase = phase /\ attempt'.next = 1
      /\ DOMAIN attempt'.rows = {} /\ FrameOK(attempt'.rows)
      /\ attempt' \in [phase : Phases, next : Nat, rows : {attempt'.rows}, left : Int,
                       grants : Partial(Request, Int), preempted : BOOLEAN]
  BY <1>1, RestingType
<1>4. /\ frames' \in Seq(Range(frames')) /\ Rowed(frames')
      /\ RowsKept(st, frames')
      /\ Apart(frames')
  <2>1. CASE attempt.rows = <<>>
    BY <1>2, <2>1, TypedFacts DEF Inv
  <2>2. CASE attempt.rows # <<>>
    BY <1>2, <2>2, QueuedFrame
  <2> QED BY <2>1, <2>2
<1>5. Typed'
  BY <1>2, <1>3, <1>4, Zenon DEF Inv, Typed, Rowed
<1>6. Placed'
  BY <1>2 DEF Inv, Placed
<1>7. Seated(st, Range(running)) /\ PendingKept(st) /\ NoneDue(st)
  BY DEF Inv
<1>8. RowsHeld(st', attempt'.rows)
  BY <1>3 DEF RowsHeld
<1>9. AttemptKept'
  <2>1. Len(running') \in Nat
    BY <1>2, TypedFacts DEF Inv
  <2> QED BY <1>3, <2>1 DEF AttemptKept
<1> QED BY <1>2, <1>4, <1>5, <1>6, <1>7, <1>8, <1>9 DEF Inv

LEMMA RejectWaitingKeeps ==
  ASSUME Inv, RejectWaiting
  PROVE  Inv'
  BY QueueFrameKeeps DEF RejectWaiting

LEMMA EndScheduleKeeps ==
  ASSUME Inv, EndSchedule
  PROVE  Inv'
  BY QueueFrameKeeps DEF EndSchedule

LEMMA TakenSeat ==
  ASSUME NEW pool \in Pool, NEW r \in Request, r \notin Holders(pool),
         NEW offer \in OfferState
  PROVE  LET i       == offer.seat
             claimed == Claim(pool, r, offer)
             next    == Transferred(claimed, r)
         IN  /\ claimed \in Pool
             /\ next \in Pool
             /\ next.seat[i].owner = r
             /\ next.seat[i].epoch = claimed.seat[i].epoch
             /\ claimed.seat[i].epoch \in Nat
             /\ next.seat[i].blocks = <<>>
             /\ \A j \in Seats \ {i} : next.seat[j] = pool.seat[j]
<1> DEFINE i       == offer.seat
           claimed == Claim(pool, r, offer)
           next    == Transferred(claimed, r)
<1>1. /\ claimed \in Pool /\ claimed.seat[i].owner = r
      /\ \A j \in Seats \ {i} : claimed.seat[j] = pool.seat[j]
  BY ClaimFields
<1>2. i \in Seats /\ r # Nobody
  BY SeatAssumption DEF OfferState
<1> HIDE DEF claimed
<1>3. r \in Holders(claimed)
  BY <1>1, <1>2 DEF Holders
<1>4. \A j \in Seats : pool.seat[j].owner # r
  BY <1>2 DEF Holders
<1>5. SeatOf(claimed, r) = i
  <2>1. SeatOf(claimed, r) \in Seats /\ claimed.seat[SeatOf(claimed, r)].owner = r
    BY <1>3, SeatOfOwner
  <2> QED BY <1>1, <1>4, <2>1
<1>6. /\ next \in Pool
      /\ next.seat[i].owner = r
      /\ next.seat[i].epoch = claimed.seat[i].epoch /\ next.seat[i].blocks = <<>>
      /\ \A j \in Seats \ {i} : next.seat[j] = claimed.seat[j]
  BY <1>1, <1>3, <1>5, TransferredFields
<1>7. claimed.seat[i].epoch \in Nat
  BY <1>1, <1>2, PoolFacts
<1> HIDE DEF next, i
<1>8. \A j \in Seats \ {i} : next.seat[j] = pool.seat[j]
  BY <1>1, <1>6
<1> QED BY <1>1, <1>6, <1>7, <1>8 DEF next, i, claimed

\* What an offer brings, and the tokens of the first row.
LEMMA OfferBrings ==
  ASSUME Typed, NEW r \in Request, OfferKept(r)
  PROVE  /\ HitBlocks(st.offers[r]) \in Seq(Page)
         /\ HitCursor(st.offers[r]) \in Int
         /\ HitCursor(st.offers[r]) > 0 => HitCursor(st.offers[r]) < Len(AllTokens(r))
         /\ Missing(r) \in Int /\ FirstQuery(r) \in Int
<1> DEFINE offer  == st.offers[r]
           i      == offer.seat
           seat   == st.pool.seat[i]
           tokens == AllTokens(r)
<1>1. OfferGood(st.pool, offer, tokens)
  BY DEF OfferKept
<1>2. st.pool \in Pool /\ Len(tokens) \in Nat
  BY TypedFacts, StateFacts, TokensType
<1>3. /\ i \in Seats /\ offer.warm \in BOOLEAN
      /\ offer.warm => Cursor(seat) > 0 /\ Len(seat.tokens) <= Len(tokens)
  BY <1>1 DEF OfferGood, OfferState
<1>4. seat.blocks \in Seq(Page) /\ Len(seat.tokens) \in Nat /\ Cursor(seat) \in Nat
  BY <1>2, <1>3, PoolFacts, CursorType, LenProperties, Zenon
<1>5. Cursor(seat) > 0 => Cursor(seat) = Len(seat.tokens) - 1
  <2>1. Cursor(seat) = IF Len(seat.tokens) - 1 >= 0 THEN Len(seat.tokens) - 1 ELSE 0
    <3> DEFINE n == Len(seat.tokens) - 1
    <3>1. n \in Int /\ 0 \in Int /\ Cursor(seat) = Max({n, 0})
      BY <1>4 DEF Cursor
    <3> HIDE DEF n
    <3>2. Max({n, 0}) = IF n >= 0 THEN n ELSE 0
      BY <3>1, MaxOfTwo
    <3> QED BY <3>1, <3>2, Zenon DEF n
  <2> QED BY <1>4, <2>1
<1> HIDE DEF offer, seat, tokens
<1>6. HitBlocks(offer) \in Seq(Page)
  BY <1>3, <1>4, EmptySeq DEF HitBlocks, seat
<1>7. HitCursor(offer) = IF offer.warm THEN Cursor(seat) ELSE 0
  BY DEF HitCursor, seat
<1>8. HitCursor(offer) \in Int
  BY <1>4, <1>7
<1>9. HitCursor(offer) > 0 => HitCursor(offer) < Len(tokens)
  BY <1>2, <1>3, <1>4, <1>5, <1>7
<1>10. Missing(r) \in Int
  BY <1>2, <1>8 DEF Missing, offer, tokens
<1>11. FirstQuery(r) \in Int
  <2> DEFINE first == IF Missing(r) = 1 THEN 1 + Drafts ELSE Missing(r)
  <2>1. first \in Int
    BY <1>10, EngineAssumption
  <2>2. FirstQuery(r) = Min({first, attempt.left, Granted(r)})
    BY DEF FirstQuery
  <2>3. attempt.left \in Int /\ Granted(r) \in Int
    BY TypedFacts, CountsType
  <2> HIDE DEF first
  <2> QED BY <2>1, <2>2, <2>3, MinOfThree, Zenon
<1> QED BY <1>6, <1>8, <1>9, <1>10, <1>11 DEF offer, tokens

LEMMA NewFrontierType ==
  ASSUME NEW tokens \in Seq(Token), NEW cursor \in Int, NEW remaining \in Int,
         cursor > 0 => cursor < Len(tokens)
  PROVE  NewFrontier(tokens, cursor, remaining) \in FrontierState
<1>1. Len(tokens) \in Nat
  BY LenProperties
<1> DEFINE f == NewFrontier(tokens, cursor, remaining)
<1>2. f \in Followed /\ f.cursor = cursor /\ f.tokens = tokens
  BY <1>1 DEF NewFrontier, Followed
<1> HIDE DEF f
<1>3. f \in FrontierState
  BY <1>2, FollowedIs
<1> QED BY <1>3 DEF f

\* A seat taken by r, one more request that owns one.
LEMMA SeatTaken ==
  ASSUME NEW s, NEW next, NEW i \in Seats, NEW r \in Request,
         next.pool.seat[i].owner = r, next.pool.seat[i].blocks = <<>>,
         \A j \in Seats \ {i} : next.pool.seat[j] = s.pool.seat[j],
         s.pool.seat[i].owner = Nobody,
         NEW H, Seated(s, H), r \notin H
  PROVE  Seated(next, H \cup {r})
<1>1. r # Nobody
  BY SeatAssumption
<1>2. Holders(s.pool) = H
  BY DEF Seated
<1>3. Holders(next.pool) = H \cup {r}
  <2>1. ASSUME NEW x \in H
        PROVE  x \in Holders(next.pool)
    <3>1. PICK j \in Seats : s.pool.seat[j].owner = x /\ x # Nobody
      BY <1>2 DEF Holders
    <3>2. j # i
      BY <3>1
    <3> QED BY <3>1, <3>2 DEF Holders
  <2>2. r \in Holders(next.pool)
    BY <1>1 DEF Holders
  <2>3. ASSUME NEW x \in Holders(next.pool)
        PROVE  x \in H \cup {r}
    <3>1. PICK j \in Seats : next.pool.seat[j].owner = x /\ x # Nobody
      BY DEF Holders
    <3>2. CASE j = i
      BY <3>1, <3>2
    <3>3. CASE j # i
      BY <1>2, <3>1, <3>3 DEF Holders
    <3> QED BY <3>2, <3>3
  <2> QED BY <2>1, <2>2, <2>3
<1>4. \A j \in Seats \ {i} : next.pool.seat[j].owner # r
  BY <1>1, <1>2 DEF Holders
<1>5. \A j, k \in Seats :
        next.pool.seat[j].owner = next.pool.seat[k].owner /\ next.pool.seat[j].owner # Nobody
          => j = k
  BY <1>4 DEF Seated
<1>6. \A j \in Seats : next.pool.seat[j].owner # Nobody => next.pool.seat[j].blocks = <<>>
  BY DEF Seated
<1> QED BY <1>3, <1>5, <1>6 DEF Seated

LEMMA AdmitKeeps ==
  ASSUME Inv, Admit
  PROVE  Inv'
<1>1. /\ attempt.phase = "allocate" /\ AdmissionFits(Candidate)
      /\ Typed /\ Placed /\ AttemptKept
      /\ Queued # <<>> /\ OfferKept(Candidate)
  BY Zenon DEF Inv, Admit, AttemptKept
<1>2. Candidate \in Range(waiting) /\ Candidate \in Request
  BY <1>1, CandidateIs
<1> SUFFICES ASSUME NEW r \in Request, r = Candidate
             PROVE  Inv'
  BY <1>2
<1> DEFINE offer == st.offers[r]
           i == offer.seat
           hit == HitBlocks(offer)
           cursor == HitCursor(offer)
           n == FirstQuery(r)
           pages == NewPages(hit, cursor + n)
           tokens == AllTokens(r)
           remaining == MaxTokens[r] - Len(req[r].out)
           claimed == Claim(st.pool, r, offer)
           epoch == claimed.seat[i].epoch
           drafts == IF Missing(r) = 1 THEN n - 1 ELSE 0
           sampling == n >= Missing(r)
           row == Row(r, [seat |-> i, epoch |-> epoch], n, drafts, cursor, sampling,
                      remaining)
           pool == Transferred(claimed, r)
           ref == Unpinned(Pinned(Pinned(st.ref, hit), pages), claimed.seat[i].blocks)
           held == [st.held EXCEPT ![r] = hit \o pages]
           key == [rid |-> r, seat |-> i, epoch |-> epoch]
           frontier == NewFrontier(tokens, cursor, remaining)
           frontiers == Put(st.frontiers, key, frontier)
           offers == [st.offers EXCEPT ![r] = NoOffer]
           admitted == [req[r] EXCEPT !.status = "running"]
           q == Scheduled(admitted, cursor, row)
           rows == Put(attempt.rows, r, row)
           next == Len(running) + 2
           left == attempt.left - n
<1>3. /\ Fits(hit, cursor + n)
      /\ st' = [st EXCEPT !.pool = pool, !.ref = ref, !.held = held,
                          !.frontiers = frontiers, !.offers = offers]
      /\ req' = [req EXCEPT ![r] = q]
      /\ running' = Append(running, r)
      /\ waiting' = Without(waiting, r)
      /\ attempt' = [attempt EXCEPT !.phase = "schedule", !.next = next,
                                    !.left = left, !.rows = rows]
      /\ UNCHANGED <<frames, ring>>
  <2>1. Fits(hit, cursor + n)
    BY <1>1 DEF AdmissionFits
  <2>2. st' = [st EXCEPT !.pool = pool, !.ref = ref, !.held = held,
                          !.frontiers = frontiers, !.offers = offers]
    BY Zenon DEF Admit
  <2>3. req' = [req EXCEPT ![r] = q]
    BY Zenon DEF Admit
  <2>4. attempt' = [attempt EXCEPT !.phase = "schedule", !.next = next,
                                   !.left = left, !.rows = rows]
    BY Zenon DEF Admit
  <2> QED BY <2>1, <2>2, <2>3, <2>4, Zenon DEF Admit
<1>4. OfferGood(st.pool, offer, tokens) /\ OfferKept(r)
  BY <1>1 DEF OfferKept
<1>5. offer \in OfferState /\ i \in Seats
      /\ st.pool.seat[i].owner = Nobody /\ st.pool.seat[i].fence = 0
  BY <1>4 DEF OfferGood, Current, OfferState
<1>6. /\ st \in State /\ st.pool \in Pool /\ st.ref \in [Page -> Int]
      /\ st.held \in [Request -> Seq(Page)]
      /\ st.frontiers \in Partial(LeaseKey, FrontierState)
      /\ st.offers \in [Request -> OfferState \cup {NoOffer}]
      /\ Rowed(frames) /\ FrameOK(attempt.rows)
      /\ req \in [Request -> RequestState]
      /\ running \in Seq(Request) /\ waiting \in Seq(Request)
      /\ Len(running) \in Nat /\ attempt.left \in Int /\ attempt.next \in Nat
  BY <1>1, TypedFacts, StateFacts
<1>7. /\ hit \in Seq(Page) /\ cursor \in Int /\ n \in Int /\ Missing(r) \in Int
      /\ tokens \in Seq(Token)
      /\ cursor > 0 => cursor < Len(tokens)
  BY <1>1, <1>4, OfferBrings, TokensType
<1>8. remaining \in Int
  <2>1. MaxTokens[r] \in Int /\ Len(req[r].out) \in Int
    BY <1>1, EngineAssumption, TokensType
  <2> QED BY <2>1
<1>9. pages \in Seq(Page)
  <2>1. cursor + n \in Int
    BY <1>7
  <2> QED BY <1>3, <1>7, <2>1, NewPagesType, Zenon
<1>10. drafts \in Int /\ sampling \in BOOLEAN
  BY <1>7
<1>11. req[r].status = "waiting" /\ r \notin Range(running)
  BY <1>1, <1>2 DEF Placed
<1>12. /\ Seated(st, Range(running)) /\ PendingKept(st) /\ NoneDue(st)
       /\ RowsKept(st, frames) /\ RowsHeld(st, attempt.rows) /\ Apart(frames)
  BY DEF Inv
<1>13. r \notin Holders(st.pool)
  BY <1>11, <1>12 DEF Seated
<1>14. /\ pool \in Pool
       /\ pool.seat[i].owner = r
       /\ pool.seat[i].epoch = epoch /\ epoch \in Nat
       /\ pool.seat[i].blocks = <<>>
       /\ \A j \in Seats \ {i} : pool.seat[j] = st.pool.seat[j]
  BY <1>5, <1>6, <1>13, TakenSeat
<1>15. ref \in [Page -> Int]
  <2> DEFINE first == Pinned(st.ref, hit)
             second == Pinned(first, pages)
  <2>1. first \in [Page -> Int]
    BY <1>6, PinnedType, Zenon
  <2> HIDE DEF first
  <2>2. second \in [Page -> Int]
    BY <2>1, PinnedType
  <2> HIDE DEF second
  <2>3. Unpinned(second, claimed.seat[i].blocks) \in [Page -> Int]
    BY <2>2, PinnedType
  <2> QED BY <2>3, Zenon DEF first, second
<1>16. held \in [Request -> Seq(Page)]
  <2> DEFINE both == hit \o pages
  <2>1. both \in Seq(Page)
    BY <1>7, <1>9, ConcatProperties
  <2> HIDE DEF both
  <2>2. [st.held EXCEPT ![r] = both] \in [Request -> Seq(Page)]
    BY <1>6, <2>1
  <2> QED BY <2>2 DEF both
<1>17. frontiers \in Partial(LeaseKey, FrontierState)
  <2>1. frontier \in FrontierState
    BY <1>7, <1>8, NewFrontierType
  <2>2. key \in LeaseKey
    BY <1>5, <1>14 DEF LeaseKey
  <2> HIDE DEF frontier, key
  <2> QED BY <1>6, <2>1, <2>2, PutType
<1>18. offers \in [Request -> OfferState \cup {NoOffer}]
  BY <1>6
<1>19. /\ row.seat = i /\ row.epoch = epoch /\ row.query = n /\ row.drafts = drafts
       /\ row.sampling = sampling
  BY DEF Row
<1> HIDE DEF pool, ref, held, frontiers, offers, row, epoch, drafts, sampling, n, i
<1>20. /\ row.query \in Int /\ row.drafts \in Int /\ row.sampling \in BOOLEAN
       /\ row.seat \in Seats /\ row.epoch \in Nat
  BY <1>5, <1>7, <1>10, <1>14, <1>19
<1>21. st' \in State /\ st'.pool = pool /\ st'.pending = st.pending
  BY <1>3, <1>6, <1>14, <1>15, <1>16, <1>17, <1>18, Zenon DEF State
<1>22. /\ req' \in [Request -> RequestState]
       /\ \A x \in Request : req'[x].status = IF x = r THEN "running" ELSE req[x].status
  <2>1. admitted \in RequestState /\ admitted.status = "running"
    <3>1. "running" \in Statuses
      BY DEF Statuses
    <3>2. req[r] \in RequestState
      BY <1>6
    <3> QED BY <3>1, <3>2, StatusType DEF RequestState
  <2> HIDE DEF admitted
  <2>2. q \in RequestState /\ q.status = "running"
    BY <1>7, <1>20, <2>1, ScheduledType
  <2> HIDE DEF q
  <2> QED BY <1>3, <1>6, <2>2
<1>23. /\ running' \in Seq(Request) /\ Len(running') = Len(running) + 1
       /\ \A j \in 1 .. Len(running) : running'[j] = running[j]
       /\ running'[Len(running) + 1] = r
       /\ Range(running') = Range(running) \cup {r}
       /\ Once(running')
  BY <1>1, <1>3, <1>6, <1>11, AppendRange DEF Placed
<1>24. waiting' \in Seq(Request) /\ Range(waiting') = Range(waiting) \ {r}
  BY <1>3, <1>6, WithoutMembers
<1>25. PendingKept(st') /\ NoneDue(st') /\ RowsKept(st', frames) /\ RowsHeld(st', attempt.rows)
  <2>1. DOMAIN frames \subseteq Nat \ {0}
    <3>1. DOMAIN frames = 1 .. Len(frames) /\ Len(frames) \in Nat
      BY <1>1, TypedFacts, LenProperties
    <3> QED BY <3>1
  <2> QED BY <1>5, <1>6, <1>12, <1>14, <1>21, <2>1, FreeSeatChanges, Zenon
<1>26. Seated(st', Range(running'))
  <2>1. Seated(st', Range(running) \cup {r})
    BY <1>5, <1>11, <1>12, <1>14, <1>21, SeatTaken
  <2> QED BY <1>23, <2>1
<1>27. FrameOK(rows) /\ RowsHeld(st', rows)
  <2>1. FrameOK(rows)
    BY <1>6, <1>20, RowPut
  <2>2. st'.pool.seat[row.seat].epoch = row.epoch /\ st'.pool.seat[row.seat].owner = r
    BY <1>14, <1>19, <1>21
  <2> DEFINE s == st'
  <2>3. RowsHeld(s, attempt.rows) /\ s.pool.seat[row.seat].epoch = row.epoch
        /\ s.pool.seat[row.seat].owner = r
    BY <1>25, <2>2
  <2> HIDE DEF s, rows
  <2>4. RowsHeld(s, rows)
    BY <1>6, <1>20, <2>3, RowPut DEF rows
  <2> QED BY <2>1, <2>4 DEF s
<1>28. DOMAIN rows = DOMAIN attempt.rows \cup {r}
  BY PutKeys
<1>29. next \in Nat /\ left \in Int /\ next = Len(running) + 2
  BY <1>6, <1>7
<1> HIDE DEF rows, next, left
<1>30. /\ attempt'.phase = "schedule"
       /\ attempt'.next = next
       /\ attempt'.rows = rows
       /\ attempt' \in [phase : Phases, next : Nat, rows : {attempt'.rows}, left : Int,
                        grants : Partial(Request, Int), preempted : BOOLEAN]
  <2>1. attempt \in [phase : Phases, next : Nat, rows : {attempt.rows}, left : Int,
                     grants : Partial(Request, Int), preempted : BOOLEAN]
    BY <1>1 DEF Typed
  <2>2. "schedule" \in Phases
    BY DEF Phases
  <2> QED BY <1>3, <1>29, <2>1, <2>2, Zenon
<1>31. Typed'
  BY <1>1, <1>3, <1>21, <1>22, <1>23, <1>24, <1>27, <1>30 DEF Typed
<1>32. Placed'
  BY <1>1, <1>22, <1>23, <1>24 DEF Placed
<1>33. AttemptKept'
  <2>1. attempt'.next \in 1 .. Len(running') + 1
    BY <1>6, <1>23, <1>29, <1>30
  <2>2. \A j \in 1 .. Len(running) + 1 : j \in 1 .. attempt'.next - 1
    BY <1>6, <1>29, <1>30
  <2>3. \A j \in 1 .. attempt.next - 1 : j \in 1 .. Len(running)
    <3>1. attempt.next \in 1 .. Len(running) + 1
      BY <1>1 DEF AttemptKept
    <3> QED BY <1>6, <3>1
  <2>4. ASSUME NEW x \in DOMAIN attempt'.rows
        PROVE  \E j \in 1 .. attempt'.next - 1 : running'[j] = x
    <3>1. CASE x = r
      <4>1. Len(running) + 1 \in 1 .. Len(running) + 1
        BY <1>6
      <4> QED BY <1>23, <2>2, <3>1, <4>1
    <3>2. CASE x # r
      <4>1. PICK j \in 1 .. attempt.next - 1 : running[j] = x
        BY <1>1, <1>28, <1>30, <3>2 DEF AttemptKept
      <4>2. j \in 1 .. Len(running) /\ j \in 1 .. Len(running) + 1
        BY <1>6, <2>3
      <4> QED BY <1>23, <2>2, <4>1, <4>2
    <3> QED BY <3>1, <3>2
  <2> QED BY <1>30, <2>1, <2>4 DEF AttemptKept
<1>34. Apart(frames') /\ RowsKept(st', frames') /\ RowsHeld(st', attempt'.rows)
  BY <1>3, <1>12, <1>25, <1>27, <1>30
<1> QED BY <1>25, <1>26, <1>31, <1>32, <1>33, <1>34 DEF Inv

LEMMA SamplesType ==
  ASSUME NEW row, row.drafts \in Int, NEW sampled \in Samples(row)
  PROVE  sampled \in Seq(Token)
<1>1. CASE ~row.sampling
  BY <1>1, EmptySeq DEF Samples
<1>2. CASE row.sampling
  <2>1. PICK n \in 1 .. 1 + row.drafts : sampled \in [1 .. n -> Token]
    BY <1>2 DEF Samples
  <2>2. n \in Nat
    BY <2>1
  <2> QED BY <2>1, <2>2, SeqDef
<1> QED BY <1>1, <1>2

LEMMA KeptType ==
  ASSUME Typed, NEW r \in Request, NEW sampled \in Seq(Token)
  PROVE  Kept(r, sampled) \in Seq(Token)
<1> DEFINE limit == MaxTokens[r] - Len(req[r].out)
           many == Min({Len(sampled), limit})
           room == SubSeq(sampled, 1, many)
           stops == {i \in DOMAIN room : room[i] = Stop}
<1>1. limit \in Int /\ Len(sampled) \in Int
  <2>1. MaxTokens[r] \in Int /\ Len(req[r].out) \in Int
    BY EngineAssumption, TokensType
  <2> QED BY <2>1, LenProperties
<1> HIDE DEF limit
<1>2. many \in Int /\ many <= Len(sampled)
  <2>1. many = IF Len(sampled) <= limit THEN Len(sampled) ELSE limit
    BY <1>1, MinOfTwo
  <2> HIDE DEF many
  <2> QED BY <1>1, <2>1
<1> HIDE DEF many
<1>3. room \in Seq(Token)
  BY <1>2, PrefixType
<1>4. Kept(r, sampled) = IF stops = {} THEN room ELSE SubSeq(room, 1, Min(stops))
  BY DEF Kept, many, limit
<1> HIDE DEF room
<1>5. CASE stops = {}
  BY <1>3, <1>4, <1>5
<1>6. CASE stops # {}
  <2>1. DOMAIN room = 1 .. Len(room) /\ Len(room) \in Nat
    BY <1>3, LenProperties
  <2>2. stops \in SUBSET Nat /\ \A i \in stops : i \in Nat /\ i <= Len(room)
    BY <2>1
  <2> HIDE DEF stops
  <2>3. Min(stops) \in stops
    BY <1>6, <2>2, LeastOf
  <2>4. Min(stops) \in Nat /\ Min(stops) <= Len(room)
    BY <2>2, <2>3, Zenon
  <2>5. SubSeq(room, 1, Min(stops)) \in Seq(Token)
    BY <1>3, <2>4, PrefixType
  <2> QED BY <1>4, <1>6, <2>5
<1> QED BY <1>5, <1>6

\* A result changes a status only to one that ends the request.
LEMMA AfterType ==
  ASSUME Typed, NEW r \in Request, NEW row, row.drafts \in Int,
         NEW sampled \in Seq(Token)
  PROVE  /\ After(req[r], r, row, sampled) \in RequestState
         /\ After(req[r], r, row, sampled).status \in {req[r].status, "stopped", "capped"}
<1> DEFINE q == req[r]
           kept == Kept(r, sampled)
           out == q.out \o kept
           rejected == 1 + row.drafts - Len(sampled)
           status == CASE Last(out) = Stop -> "stopped"
                       [] Last(out) # Stop /\ Len(out) = MaxTokens[r] -> "capped"
                       [] OTHER -> q.status
           computed == q.computed - rejected
           placeholders == q.placeholders - rejected - Len(kept)
           parked == [q EXCEPT !.out = out, !.status = status]
           next == [q EXCEPT !.out = out, !.status = status, !.computed = computed,
                             !.placeholders = placeholders]
<1>1. q \in RequestState
  BY TypedFacts
<1>2. After(q, r, row, sampled) = IF q.status = "waiting" THEN parked ELSE next
  BY DEF After
<1> HIDE DEF q
<1>3. kept \in Seq(Token)
  BY KeptType
<1>4. rejected \in Int /\ Len(kept) \in Int
  BY <1>3, LenProperties
<1> HIDE DEF kept, rejected
<1>5. out \in Seq(Token)
  BY <1>1, <1>3, ConcatProperties DEF RequestState
<1> HIDE DEF out
<1>6. status \in {q.status, "stopped", "capped"}
  OBVIOUS
<1>7. status \in Statuses
  BY <1>1, <1>6 DEF Statuses, RequestState
<1>8. computed \in Int /\ placeholders \in Int
  BY <1>1, <1>4 DEF RequestState
<1> HIDE DEF status, computed, placeholders
<1>9. parked \in RequestState /\ parked.status = status
  BY <1>1, <1>5, <1>7, Zenon DEF RequestState
<1>10. next \in RequestState /\ next.status = status
  BY <1>1, <1>5, <1>7, <1>8, Zenon DEF RequestState
<1> HIDE DEF parked, next
<1>11. After(q, r, row, sampled) \in RequestState
       /\ After(q, r, row, sampled).status = status
  BY <1>2, <1>9, <1>10
<1> QED BY <1>6, <1>11 DEF q

LEMMA TailFrames ==
  ASSUME NEW T, NEW queue \in Seq(T), queue # <<>>
  PROVE  /\ Tail(queue) \in Seq(Range(Tail(queue)))
         /\ Apart(queue) => Apart(Tail(queue))
<1> DEFINE rest == Tail(queue)
<1>1. /\ rest \in Seq(T) /\ Len(queue) \in Nat /\ Len(queue) # 0
      /\ Len(rest) = Len(queue) - 1
      /\ \A i \in 1 .. Len(rest) : rest[i] = queue[i + 1]
  BY HeadTailProperties, LenProperties, EmptySeq
<1>2. DOMAIN rest = 1 .. Len(rest) /\ DOMAIN queue = 1 .. Len(queue)
  BY <1>1, LenProperties
<1> HIDE DEF rest
<1>3. rest \in Seq(Range(rest))
  BY <1>1, SeqOfRange
<1>4. \A i \in DOMAIN rest : i + 1 \in DOMAIN queue /\ rest[i] = queue[i + 1]
  BY <1>1, <1>2
<1>5. Apart(queue) => Apart(rest)
  BY <1>4 DEF Apart
<1> QED BY <1>3, <1>5 DEF rest

\* The state after the oldest frame has retired and its requests have ended.
LEMMA RetiredFields ==
  ASSUME Inv, frames # <<>>, NEW sampled,
         \A r \in DOMAIN Head(frames) : sampled[r] \in Seq(Token),
         NEW ended \in Seq(Request)
  PROVE  LET next == Publish(Ended(Elapsed(Advanced(st, Head(frames), sampled)), ended,
                                   Tail(frames)))
         IN  /\ next \in State
             /\ Seated(next, Range(running) \ Range(ended))
             /\ PendingKept(next) /\ NoneDue(next)
             /\ RowsKept(next, Tail(frames))
<1> DEFINE frame == Head(frames)
           rest  == Tail(frames)
           s1    == Advanced(st, frame, sampled)
           s2    == Elapsed(s1)
           s3    == Ended(s2, ended, rest)
           next  == Publish(s3)
           H     == Range(running)
<1>1. /\ st \in State /\ frames \in Seq(Range(frames)) /\ Rowed(frames)
      /\ Seated(st, H) /\ PendingKept(st) /\ RowsKept(st, frames)
  BY TypedFacts DEF Inv
<1>2. rest \in Seq(Range(frames)) /\ frame = frames[1] /\ 1 \in DOMAIN frames
  <2>1. Len(frames) \in Nat /\ Len(frames) # 0 /\ DOMAIN frames = 1 .. Len(frames)
    BY <1>1, LenProperties, EmptySeq
  <2> QED BY <1>1, <2>1, HeadTailProperties
<1>3. FrameOK(frame)
  BY <1>1, <1>2 DEF Rowed
<1> HIDE DEF frame, rest, H
<1>4. /\ s1 \in State
      /\ s1.pool = st.pool
      /\ s1.pending = st.pending
  BY <1>1, <1>3, AdvancedFields DEF frame
<1> HIDE DEF s1
<1>5. /\ Seated(s1, H)
      /\ PendingKept(s1)
      /\ RowsKept(s1, frames)
  BY <1>1, <1>4, SamePool
<1>6. /\ s2 \in State /\ Seated(s2, H) /\ PendingKept(s2)
      /\ Rowed(rest) /\ RowsKept(s2, rest)
  BY <1>1, <1>4, <1>5, ElapsedKeeps DEF rest
<1> HIDE DEF s2
<1>7. /\ s3 \in State /\ PendingKept(s3) /\ RowsKept(s3, rest)
      /\ Seated(s3, H \ Range(ended))
  BY <1>2, <1>6, EndedKeeps
<1> HIDE DEF s3
<1>8. /\ next \in State
      /\ Undisturbed(s3, next)
      /\ DOMAIN next.pending = DOMAIN s3.pending \ Due(s3)
      /\ \A k \in DOMAIN next.pending : next.pending[k] = s3.pending[k]
  BY <1>7, PublishFields
<1> HIDE DEF next
<1>9. \A k \in DOMAIN s3.pending : k.seat \in Seats /\ s3.pending[k].fence \in Nat
  BY <1>7, PendingSeats
<1>10. NoneDue(next)
  <2>1. \A k \in DOMAIN next.pending : k \in DOMAIN s3.pending /\ k \notin Due(s3)
    BY <1>8
  <2>2. \A k \in DOMAIN next.pending : s3.pending[k].fence # 0
    BY <2>1 DEF Due
  <2> QED BY <1>8, <1>9, <2>1, <2>2 DEF NoneDue
<1>11. /\ Seated(next, H \ Range(ended))
       /\ PendingKept(next)
       /\ RowsKept(next, rest)
  BY <1>6, <1>7, <1>8, <1>9, UndisturbedKeeps
<1> QED BY <1>8, <1>10, <1>11 DEF next, s3, s2, s1, frame, rest, H

LEMMA UpdateFromOutputKeeps ==
  ASSUME Inv, UpdateFromOutput
  PROVE  Inv'
<1> DEFINE frame == Head(frames)
           same == {r \in Request : req'[r].status = req[r].status}
           both == running \o waiting
           ended == Only(both, Request \ same)
<1>1. frames # <<>> /\ frames' = Tail(frames) /\ attempt' = Resting /\ ring' = ring
  BY DEF UpdateFromOutput
<1>2. PICK sampled : /\ \A r \in DOMAIN frame : sampled[r] \in Samples(frame[r])
                     /\ req' = [r \in Request |->
                          IF r \in DOMAIN frame /\ Takes(r, frame[r])
                          THEN After(req[r], r, frame[r], sampled[r]) ELSE req[r]]
                     /\ st' = Publish(Ended(Elapsed(Advanced(st, frame, sampled)), ended,
                                            Tail(frames)))
                     /\ running' = Only(running, same)
                     /\ waiting' = Only(waiting, same)
  BY DEF UpdateFromOutput
<1>3. /\ Typed /\ Placed /\ Apart(frames)
      /\ frames \in Seq(Range(frames)) /\ Rowed(frames)
      /\ running \in Seq(Request) /\ waiting \in Seq(Request)
      /\ req \in [Request -> RequestState]
  BY TypedFacts DEF Inv
<1>4. FrameOK(frame)
  <2>1. Len(frames) \in Nat /\ Len(frames) # 0 /\ DOMAIN frames = 1 .. Len(frames)
    BY <1>1, <1>3, LenProperties, EmptySeq
  <2>2. frame = frames[1] /\ 1 \in DOMAIN frames
    BY <1>1, <1>3, <2>1, HeadTailProperties
  <2> QED BY <1>3, <2>2 DEF Rowed
<1>5. ASSUME NEW r \in DOMAIN frame
      PROVE  sampled[r] \in Seq(Token) /\ frame[r].drafts \in Int
  BY <1>2, <1>4, SamplesType DEF FrameOK
<1>6. /\ req' \in [Request -> RequestState]
      /\ \A r \in Request : req'[r].status \in {req[r].status, "stopped", "capped"}
  <2>1. ASSUME NEW r \in Request
        PROVE  /\ req'[r] \in RequestState
               /\ req'[r].status \in {req[r].status, "stopped", "capped"}
    <3>1. CASE r \in DOMAIN frame /\ Takes(r, frame[r])
      <4> DEFINE q == After(req[r], r, frame[r], sampled[r])
      <4>1. req'[r] = q
        BY <1>2, <3>1
      <4>2. q \in RequestState /\ q.status \in {req[r].status, "stopped", "capped"}
        BY <1>3, <1>5, <3>1, AfterType
      <4> HIDE DEF q
      <4> QED BY <4>1, <4>2
    <3>2. CASE ~(r \in DOMAIN frame /\ Takes(r, frame[r]))
      <4>1. req'[r] = req[r]
        BY <1>2, <3>2
      <4> QED BY <1>3, <4>1
    <3> QED BY <3>1, <3>2
  <2>2. req' = [r \in Request |-> req'[r]]
    BY <1>2
  <2> QED BY <2>1, <2>2
<1>7. both \in Seq(Request) /\ Range(both) = Range(running) \cup Range(waiting)
  BY <1>3, ConcatProperties, RangeConcatenation
<1> HIDE DEF both
<1>8. ended \in Seq(Request) /\ Range(ended) = Range(both) \cap (Request \ same)
  BY <1>7, OnlyMembers
<1>9. /\ running' \in Seq(Request) /\ Range(running') = Range(running) \cap same
      /\ Once(running')
      /\ waiting' \in Seq(Request) /\ Range(waiting') = Range(waiting) \cap same
  BY <1>2, <1>3, OnlyMembers, Zenon DEF Placed
<1>10. /\ st' \in State
       /\ Seated(st', Range(running) \ Range(ended))
       /\ PendingKept(st') /\ NoneDue(st')
       /\ RowsKept(st', Tail(frames))
  <2> DEFINE last == ended
             next == Publish(Ended(Elapsed(Advanced(st, Head(frames), sampled)), last,
                                   Tail(frames)))
  <2>1. st' = next
    BY <1>2
  <2>2. last \in Seq(Request)
    BY <1>8
  <2> HIDE DEF last
  <2>3. /\ next \in State
        /\ Seated(next, Range(running) \ Range(last))
        /\ PendingKept(next) /\ NoneDue(next)
        /\ RowsKept(next, Tail(frames))
    BY <1>1, <1>5, <2>2, RetiredFields, Zenon
  <2> HIDE DEF next
  <2> QED BY <2>1, <2>3 DEF last
<1>11. Range(running) \ Range(ended) = Range(running')
  <2>1. Range(running) \subseteq Request
    BY <1>3, RangeOfSeq
  <2> QED BY <1>7, <1>8, <1>9, <2>1
<1> HIDE DEF ended
<1>12. Seated(st', Range(running'))
  BY <1>10, <1>11
<1>13. /\ Tail(frames) \in Seq(Range(Tail(frames))) /\ Apart(Tail(frames))
  BY <1>1, <1>3, TailFrames
<1>14. Rowed(Tail(frames))
  <2>1. Len(frames) \in Nat /\ DOMAIN frames = 1 .. Len(frames)
    BY <1>3, LenProperties
  <2> DEFINE rest == Tail(frames)
  <2>2. /\ rest \in Seq(Range(frames)) /\ Len(rest) = Len(frames) - 1
        /\ \A i \in 1 .. Len(rest) : rest[i] = frames[i + 1]
    BY <1>1, <1>3, HeadTailProperties
  <2>3. DOMAIN rest = 1 .. Len(rest)
    BY <2>2, LenProperties
  <2> HIDE DEF rest
  <2>4. \A i \in DOMAIN rest : i + 1 \in DOMAIN frames /\ rest[i] = frames[i + 1]
    BY <2>1, <2>2, <2>3
  <2>5. Rowed(rest)
    BY <1>3, <2>4 DEF Rowed
  <2> QED BY <2>5 DEF rest
<1>15. /\ attempt'.phase = "idle" /\ attempt'.next = 1
       /\ DOMAIN attempt'.rows = {} /\ FrameOK(attempt'.rows)
       /\ attempt' \in [phase : Phases, next : Nat, rows : {attempt'.rows}, left : Int,
                        grants : Partial(Request, Int), preempted : BOOLEAN]
  <2>1. <<>> \in Partial(Request, Int) /\ DOMAIN <<>> = {}
    BY EmptyPartial
  <2>2. "idle" \in Phases /\ FrameOK(<<>>)
    BY <2>1 DEF Phases, FrameOK
  <2> QED BY <1>1, <2>1, <2>2 DEF Resting
<1>16. Typed'
  BY <1>1, <1>3, <1>6, <1>9, <1>10, <1>13, <1>14, <1>15 DEF Typed, Rowed
<1>17. Placed'
  <2>1. \A x \in Request : req'[x].status = "running" => x \in same /\ req[x].status = "running"
    BY <1>6
  <2>2. \A x \in Request : req'[x].status = "waiting" => x \in same /\ req[x].status = "waiting"
    BY <1>6
  <2>3. \A x \in same : req'[x].status = req[x].status
    OBVIOUS
  <2> QED BY <1>3, <1>9, <2>1, <2>2, <2>3 DEF Placed
<1>18. AttemptKept' /\ RowsHeld(st', attempt'.rows)
  <2>1. Len(running') \in Nat
    BY <1>9, LenProperties
  <2> QED BY <1>15, <2>1 DEF AttemptKept, RowsHeld
<1> QED BY <1>1, <1>10, <1>12, <1>13, <1>16, <1>17, <1>18 DEF Inv

LEMMA RestKeeps ==
  ASSUME Inv, UNCHANGED vars
  PROVE  Inv'
<1>1. UNCHANGED <<st, req, running, waiting, frames, ring, attempt>>
  BY DEF vars
<1>2. Typed' /\ Placed'
  BY <1>1 DEF Inv, Typed, Placed
<1>3. Queued' = Queued
  BY <1>1 DEF Queued, Granted
<1>4. AttemptKept'
  BY <1>1, <1>3 DEF Inv, AttemptKept, OfferKept, Candidate, AllTokens
<1> QED BY <1>1, <1>2, <1>4 DEF Inv

-----------------------------------------------------------------------------
\* The invariant holds.

LEMMA NextKeeps ==
  ASSUME Inv, [Next]_vars
  PROVE  Inv'
<1>1. ASSUME NEW r \in Request, Arrive(r)
      PROVE  Inv'
  BY <1>1, ArriveKeeps
<1>2. ASSUME NEW r \in Request, Abort(r)
      PROVE  Inv'
  BY <1>2, AbortKeeps
<1>3. CASE ResetPrefixCache
  BY <1>3, ResetPrefixCacheKeeps
<1>4. CASE BeginSchedule
  BY <1>4, BeginScheduleKeeps
<1>5. CASE ScheduleRunning
  BY <1>5, ScheduleRunningKeeps
<1>6. CASE EvictForRunning
  BY <1>6, EvictForRunningKeeps
<1>7. CASE PreemptLast
  BY <1>7, PreemptLastKeeps
<1>8. CASE ConsiderWaiting
  BY <1>8, ConsiderWaitingKeeps
<1>9. CASE Admit
  BY <1>9, AdmitKeeps
<1>10. CASE EvictForWaiting
  BY <1>10, EvictForWaitingKeeps
<1>11. CASE RejectWaiting
  BY <1>11, RejectWaitingKeeps
<1>12. CASE EndSchedule
  BY <1>12, EndScheduleKeeps
<1>13. CASE UpdateFromOutput
  BY <1>13, UpdateFromOutputKeeps
<1>14. CASE UNCHANGED vars
  BY <1>14, RestKeeps
<1> QED BY <1>1, <1>2, <1>3, <1>4, <1>5, <1>6, <1>7, <1>8, <1>9, <1>10, <1>11, <1>12, <1>13,
           <1>14 DEF Next, Attempt

LEMMA InvHolds == Spec => []Inv
<1>1. Init => Inv
  BY InitHolds
<1>2. Inv /\ [Next]_vars => Inv'
  BY NextKeeps
<1> QED BY <1>1, <1>2, PTL DEF Spec

LEMMA InvIsOneWriter ==
  ASSUME Inv
  PROVE  OneWriter
  BY DEF Inv, OneWriter, Apart, RowsKept, Seated

LEMMA InvIsNothingRaises ==
  ASSUME Inv
  PROVE  NothingRaises
<1>1. ASSUME attempt.phase = "allocate"
      PROVE  ClaimAccepts(st.pool, Candidate, st.offers[Candidate])
  <2>1. Typed /\ Placed /\ Queued # <<>> /\ OfferKept(Candidate)
    BY <1>1 DEF Inv, AttemptKept
  <2>2. Candidate \in Range(waiting) /\ Candidate \in Request
    BY <2>1, CandidateIs
  <2>3. Candidate \notin Range(running)
    BY <2>1, <2>2 DEF Placed
  <2>4. Candidate \notin Holders(st.pool)
    BY <2>3 DEF Inv, Seated
  <2> QED BY <2>1, <2>4 DEF ClaimAccepts, OfferKept, OfferGood
<1> QED BY <1>1 DEF Inv, NothingRaises, PendingKept, Seated

-----------------------------------------------------------------------------
\* Counting the lists that have a page.

Having(lists, p) == {k \in DOMAIN lists : p \in Range(lists[k])}

HowMany(lists, p) == Cardinality(Having(lists, p))

Has(list, p) == IF p \in Range(list) THEN 1 ELSE 0

LEMMA HavingFinite ==
  ASSUME NEW lists, NEW p, IsFiniteSet(DOMAIN lists)
  PROVE  IsFiniteSet(Having(lists, p)) /\ HowMany(lists, p) \in Nat
<1>1. Having(lists, p) \in SUBSET DOMAIN lists
  BY DEF Having
<1> QED BY <1>1, FS_Subset, FS_CardinalityType DEF HowMany

\* The list k is new or another.
Altered(f, g, k) ==
  DOMAIN g = DOMAIN f \cup {k} /\ \A x \in DOMAIN f \ {k} : g[x] = f[x]

HasAt(f, k, p) == IF k \in DOMAIN f THEN Has(f[k], p) ELSE 0

LEMMA OneList ==
  ASSUME NEW f, NEW g, NEW k, NEW p, IsFiniteSet(Having(f, p)), Altered(f, g, k)
  PROVE  /\ IsFiniteSet(Having(g, p)) /\ HowMany(f, p) \in Nat
         /\ HowMany(g, p) = HowMany(f, p) - HasAt(f, k, p) + Has(g[k], p)
<1> DEFINE S == Having(f, p)
           R == Having(g, p)
           rest == S \ {k}
<1>1. rest = R \ {k}
  BY DEF Having, Altered
<1>2. k \in S <=> k \in DOMAIN f /\ p \in Range(f[k])
  BY DEF Having
<1>3. k \in R <=> p \in Range(g[k])
  BY DEF Having, Altered
<1> HIDE DEF S, R
<1>4. /\ IsFiniteSet(rest)
      /\ Cardinality(rest) = IF k \in S THEN Cardinality(S) - 1 ELSE Cardinality(S)
      /\ Cardinality(S) \in Nat
  BY FS_RemoveElement, FS_CardinalityType DEF S
<1>5. R = IF k \in R THEN rest \cup {k} ELSE rest
  BY <1>1
<1>6. k \notin rest
  OBVIOUS
<1> HIDE DEF rest
<1>7. IsFiniteSet(R) /\ Cardinality(R) = Cardinality(rest) + (IF k \in R THEN 1 ELSE 0)
  <2>1. IsFiniteSet(rest \cup {k}) /\ Cardinality(rest \cup {k}) = Cardinality(rest) + 1
    BY <1>4, <1>6, FS_AddElement
  <2>2. Cardinality(rest) \in Nat
    BY <1>4, FS_CardinalityType
  <2> QED BY <1>4, <1>5, <2>1, <2>2
<1>8. Has(g[k], p) = IF k \in R THEN 1 ELSE 0
  BY <1>3 DEF Has
<1>9. HasAt(f, k, p) = IF k \in S THEN 1 ELSE 0
  BY <1>2 DEF HasAt, Has
<1>10. HowMany(f, p) = Cardinality(S) /\ HowMany(g, p) = Cardinality(R)
  BY DEF HowMany, S, R
<1>11. Cardinality(R) = Cardinality(S) - (IF k \in S THEN 1 ELSE 0) + (IF k \in R THEN 1 ELSE 0)
  BY <1>4, <1>7
<1> QED BY <1>4, <1>7, <1>8, <1>9, <1>10, <1>11 DEF R

\* The lists f are split in g and h.
InTwo(f, g, h) ==
  /\ DOMAIN g \cup DOMAIN h = DOMAIN f
  /\ DOMAIN g \cap DOMAIN h = {}
  /\ \A x \in DOMAIN g : g[x] = f[x]
  /\ \A x \in DOMAIN h : h[x] = f[x]

LEMMA SplitLists ==
  ASSUME NEW f, NEW g, NEW h, NEW p, IsFiniteSet(DOMAIN f), InTwo(f, g, h)
  PROVE  /\ HowMany(g, p) \in Nat /\ HowMany(h, p) \in Nat
         /\ HowMany(f, p) = HowMany(g, p) + HowMany(h, p)
<1> DEFINE S == Having(g, p)
           T == Having(h, p)
<1>1. Having(f, p) = S \cup T /\ S \cap T = {}
  BY DEF Having, InTwo
<1>2. IsFiniteSet(DOMAIN g) /\ IsFiniteSet(DOMAIN h)
  <2>1. DOMAIN g \in SUBSET DOMAIN f /\ DOMAIN h \in SUBSET DOMAIN f
    BY DEF InTwo
  <2> QED BY <2>1, FS_Subset
<1>3. IsFiniteSet(S) /\ Cardinality(S) \in Nat /\ IsFiniteSet(T) /\ Cardinality(T) \in Nat
  BY <1>2, HavingFinite DEF HowMany
<1> HIDE DEF S, T
<1>4. Cardinality(S \cup T) = Cardinality(S) + Cardinality(T) - Cardinality(S \cap T)
  BY <1>3, FS_Union
<1>5. Cardinality(S \cap T) = 0
  BY <1>1, FS_EmptySet
<1>6. Cardinality(S \cup T) = Cardinality(S) + Cardinality(T)
  BY <1>3, <1>4, <1>5
<1> QED BY <1>1, <1>3, <1>6 DEF HowMany, S, T

\* The same lists under other names.
LEMMA RenamedLists ==
  ASSUME NEW f, NEW g, NEW at, NEW p, IsFiniteSet(DOMAIN f),
         at \in [DOMAIN g -> DOMAIN f],
         \A x, y \in DOMAIN g : at[x] = at[y] => x = y,
         \A x \in DOMAIN g : p \in Range(g[x]) <=> p \in Range(f[at[x]]),
         \A y \in DOMAIN f : p \in Range(f[y]) => \E x \in DOMAIN g : at[x] = y
  PROVE  IsFiniteSet(Having(g, p)) /\ HowMany(g, p) = HowMany(f, p)
<1> DEFINE S == Having(g, p)
           T == Having(f, p)
           b == [x \in S |-> at[x]]
<1>1. \A x \in S : x \in DOMAIN g /\ at[x] \in T
  BY DEF Having
<1>2. \A y \in T : \E x \in S : at[x] = y
  BY DEF Having
<1>3. \A x, y \in S : at[x] = at[y] => x = y
  BY <1>1
<1>4. IsFiniteSet(T)
  BY HavingFinite
<1> HIDE DEF S, T
<1>5. b \in Surjection(S, T) /\ b \in Injection(S, T)
  <2>1. b \in [S -> T] /\ \A x \in S : b[x] = at[x]
    BY <1>1
  <2> HIDE DEF b
  <2> QED BY <1>2, <1>3, <2>1 DEF Surjection, Injection, IsInjective
<1> HIDE DEF b
<1>6. IsFiniteSet(S) /\ Cardinality(S) = Cardinality(T)
  BY <1>4, <1>5, FS_Injection
<1> QED BY <1>6 DEF HowMany, S, T

-----------------------------------------------------------------------------
\* Lists without repetition.

LEMMA OnceSplit ==
  ASSUME NEW T, NEW s \in Seq(T), NEW n \in Int, n <= Len(s)
  PROVE  LET a == SubSeq(s, 1, n)
             b == SubSeq(s, Len(a) + 1, Len(s))
         IN  /\ a \in Seq(T) /\ b \in Seq(T) /\ Len(a) = IF n >= 0 THEN n ELSE 0
             /\ Range(a) \cup Range(b) = Range(s)
             /\ Once(s) => Once(a) /\ Range(a) \cap Range(b) = {}
<1>1. Len(s) \in Nat /\ DOMAIN s = 1 .. Len(s) /\ \A i \in DOMAIN s : s[i] \in T
  BY LenProperties, ElementOfSeq
<1> DEFINE m == IF n >= 0 THEN n ELSE 0
           a == SubSeq(s, 1, n)
           b == SubSeq(s, m + 1, Len(s))
<1>2. m \in Nat /\ m <= Len(s)
  BY <1>1
<1>3. a \in Seq(T) /\ Len(a) = m /\ DOMAIN a = 1 .. m /\ \A i \in 1 .. m : a[i] = s[i]
  <2>1. \A i \in 1 .. n : s[i] \in T
    <3>1. \A i \in 1 .. n : i \in 1 .. Len(s)
      BY <1>1
    <3> QED BY <1>1, <3>1
  <2>2. /\ a \in Seq(T)
        /\ Len(a) = IF 1 <= n THEN n - 1 + 1 ELSE 0
        /\ \A i \in 1 .. n - 1 + 1 : a[i] = s[1 + i - 1]
    BY <2>1, SubSeqProperties
  <2> HIDE DEF a
  <2>3. Len(a) = m
    BY <1>1, <2>2
  <2>4. DOMAIN a = 1 .. m
    BY <2>2, <2>3, LenProperties
  <2>5. \A i \in 1 .. m : a[i] = s[i]
    <3>1. \A i \in 1 .. m : i \in 1 .. n - 1 + 1 /\ 1 + i - 1 = i
      BY <1>1
    <3> QED BY <2>2, <3>1
  <2> QED BY <2>2, <2>3, <2>4, <2>5
<1>4. /\ b \in Seq(T) /\ DOMAIN b = 1 .. Len(s) - m
      /\ \A i \in 1 .. Len(s) - m : b[i] = s[m + i]
  <2>1. \A i \in m + 1 .. Len(s) : s[i] \in T
    <3>1. \A i \in m + 1 .. Len(s) : i \in 1 .. Len(s)
      BY <1>1, <1>2
    <3> QED BY <1>1, <3>1
  <2> HIDE DEF m
  <2>2. /\ b \in Seq(T)
        /\ Len(b) = IF m + 1 <= Len(s) THEN Len(s) - (m + 1) + 1 ELSE 0
        /\ \A i \in 1 .. Len(s) - (m + 1) + 1 : b[i] = s[m + 1 + i - 1]
    BY <1>1, <1>2, <2>1, SubSeqProperties
  <2> HIDE DEF b
  <2>3. Len(b) = Len(s) - m
    <3> DEFINE l == Len(s)
    <3>1. l \in Nat /\ m \in Nat /\ m <= l
      BY <1>1, <1>2
    <3>2. Len(b) = IF m + 1 <= l THEN l - (m + 1) + 1 ELSE 0
      BY <2>2
    <3> HIDE DEF l
    <3> QED BY <3>1, <3>2 DEF l
  <2>4. DOMAIN b = 1 .. Len(s) - m
    BY <2>2, <2>3, LenProperties
  <2>5. \A i \in 1 .. Len(s) - m : b[i] = s[m + i]
    <3>1. \A i \in 1 .. Len(s) - m : i \in 1 .. Len(s) - (m + 1) + 1 /\ m + 1 + i - 1 = m + i
      BY <1>1, <1>2
    <3> QED BY <2>2, <3>1
  <2> QED BY <2>2, <2>4, <2>5
<1> HIDE DEF a, b, m
<1>5. \A i \in DOMAIN s : \/ i \in 1 .. m
                          \/ i - m \in 1 .. Len(s) - m /\ m + (i - m) = i
  BY <1>1, <1>2
<1>6. Range(s) \subseteq Range(a) \cup Range(b)
  <2>1. ASSUME NEW i \in DOMAIN s
        PROVE  s[i] \in Range(a) \cup Range(b)
    <3>1. CASE i \in 1 .. m
      BY <1>3, <3>1 DEF Range
    <3>2. CASE i - m \in 1 .. Len(s) - m /\ m + (i - m) = i
      <4>1. b[i - m] = s[i] /\ i - m \in DOMAIN b
        BY <1>4, <3>2
      <4> QED BY <4>1 DEF Range
    <3> QED BY <1>5, <3>1, <3>2
  <2> QED BY <2>1 DEF Range
<1>7. /\ \A i \in 1 .. m : i \in DOMAIN s
      /\ \A i \in 1 .. Len(s) - m : m + i \in DOMAIN s
      /\ \A i \in 1 .. m : \A j \in 1 .. Len(s) - m : i # m + j
  BY <1>1, <1>2
<1>8. Range(a) \cup Range(b) \subseteq Range(s)
  BY <1>3, <1>4, <1>7 DEF Range
<1>9. ASSUME Once(s)
      PROVE  Once(a) /\ Range(a) \cap Range(b) = {}
  <2>1. Once(a)
    BY <1>3, <1>7, <1>9 DEF Once
  <2>2. \A i \in 1 .. m : \A j \in 1 .. Len(s) - m : s[i] # s[m + j]
    BY <1>7, <1>9 DEF Once
  <2>3. \A i \in DOMAIN a : \A j \in DOMAIN b : a[i] # b[j]
    BY <1>3, <1>4, <2>2
  <2>4. Range(a) \cap Range(b) = {}
    BY <2>3 DEF Range
  <2> QED BY <2>1, <2>4
<1>10. Len(a) = IF n >= 0 THEN n ELSE 0
  BY <1>3 DEF m
<1>11. b = SubSeq(s, Len(a) + 1, Len(s))
  BY <1>3 DEF b
<1> QED BY <1>3, <1>4, <1>6, <1>8, <1>9, <1>10, <1>11 DEF a

\* Each list of f is split in one of g and one of h.
EachInTwo(f, g, h) ==
  /\ DOMAIN g = DOMAIN f
  /\ DOMAIN h = DOMAIN f
  /\ \A x \in DOMAIN f : /\ Range(g[x]) \cup Range(h[x]) = Range(f[x])
                         /\ Range(g[x]) \cap Range(h[x]) = {}

LEMMA PairedLists ==
  ASSUME NEW f, NEW g, NEW h, NEW p, IsFiniteSet(DOMAIN f), EachInTwo(f, g, h)
  PROVE  /\ HowMany(g, p) \in Nat /\ HowMany(h, p) \in Nat
         /\ HowMany(f, p) = HowMany(g, p) + HowMany(h, p)
<1> DEFINE S == Having(g, p)
           T == Having(h, p)
<1>1. Having(f, p) = S \cup T /\ S \cap T = {}
  BY DEF Having, EachInTwo
<1>2. IsFiniteSet(S) /\ Cardinality(S) \in Nat /\ IsFiniteSet(T) /\ Cardinality(T) \in Nat
  BY HavingFinite DEF HowMany, EachInTwo
<1> HIDE DEF S, T
<1>3. Cardinality(S \cup T) = Cardinality(S) + Cardinality(T) - Cardinality(S \cap T)
  BY <1>2, FS_Union
<1>4. Cardinality(S \cap T) = 0
  BY <1>1, FS_EmptySet
<1>5. Cardinality(S \cup T) = Cardinality(S) + Cardinality(T)
  BY <1>2, <1>3, <1>4
<1> QED BY <1>1, <1>2, <1>5 DEF HowMany, S, T

LEMMA NoLists ==
  ASSUME NEW lists, NEW p, \A k \in DOMAIN lists : lists[k] = <<>>
  PROVE  IsFiniteSet(Having(lists, p)) /\ HowMany(lists, p) = 0
<1>1. \A k \in DOMAIN lists : p \notin Range(lists[k])
  BY DEF Range
<1>2. Having(lists, p) = {}
  BY <1>1 DEF Having
<1> QED BY <1>2, FS_EmptySet DEF HowMany

LEMMA SameLists ==
  ASSUME NEW f, NEW g, NEW p, DOMAIN f = DOMAIN g, \A k \in DOMAIN f : f[k] = g[k]
  PROVE  Having(f, p) = Having(g, p) /\ HowMany(f, p) = HowMany(g, p)
  BY DEF Having, HowMany

-----------------------------------------------------------------------------
\* Every page is counted once by each list that has it.

KeptBy(s)     == [i \in Seats |-> s.pool.seat[i].blocks]
PendingBy(s)  == [k \in DOMAIN s.pending |-> s.pending[k].blocks]
DeferredBy(s) == [j \in DOMAIN s.deferred |-> s.deferred[j].blocks]

Counted(s) ==
  \A p \in Page :
    /\ IsFiniteSet(Having(s.held, p))
    /\ s.ref[p] = HowMany(s.held, p) + HowMany(KeptBy(s), p)
                    + HowMany(PendingBy(s), p) + HowMany(DeferredBy(s), p)

\* No list has a page twice. Only the requests H hold pages, and a seat with a
\* pending checkpoint has one of them and no pages of its own.
Listed(s, H) ==
  /\ \A r \in Request : Once(s.held[r]) /\ (r \notin H => s.held[r] = <<>>)
  /\ \A i \in Seats : Once(s.pool.seat[i].blocks)
  /\ \A k \in DOMAIN s.pending : /\ Once(s.pending[k].blocks)
                                 /\ s.pool.seat[k.seat].blocks = <<>>
  /\ \A k, l \in DOMAIN s.pending : k.seat = l.seat => k = l

\* The counts are numbers.
LEMMA CountsAre ==
  ASSUME NEW s \in State, NEW p \in Page, IsFiniteSet(Having(s.held, p))
  PROVE  /\ s.ref[p] \in Int
         /\ HowMany(s.held, p) \in Nat /\ HowMany(KeptBy(s), p) \in Nat
         /\ HowMany(PendingBy(s), p) \in Nat /\ HowMany(DeferredBy(s), p) \in Nat
<1>1. s.ref[p] \in Int /\ HowMany(s.held, p) \in Nat
  BY StateFacts, FS_CardinalityType DEF HowMany
<1>2. HowMany(KeptBy(s), p) \in Nat
  <2>1. DOMAIN KeptBy(s) = Seats
    BY DEF KeptBy
  <2> QED BY <2>1, SeatAssumption, HavingFinite
<1>3. HowMany(PendingBy(s), p) \in Nat
  <2>1. DOMAIN PendingBy(s) = DOMAIN s.pending
    BY DEF PendingBy
  <2> QED BY <2>1, StateFacts, HavingFinite
<1>4. HowMany(DeferredBy(s), p) \in Nat
  <2>1. DOMAIN DeferredBy(s) = 1 .. Len(s.deferred) /\ Len(s.deferred) \in Nat
    BY StateFacts, LenProperties DEF DeferredBy
  <2> QED BY <2>1, FS_Interval, HavingFinite
<1> QED BY <1>1, <1>2, <1>3, <1>4

\* Steps that touch no list of pages.
LEMMA SamePages ==
  ASSUME NEW s, NEW next, Counted(s), next.ref = s.ref, next.held = s.held,
         \A i \in Seats : next.pool.seat[i].blocks = s.pool.seat[i].blocks,
         DOMAIN next.pending = DOMAIN s.pending,
         \A k \in DOMAIN s.pending : next.pending[k].blocks = s.pending[k].blocks,
         next.deferred = s.deferred
  PROVE  Counted(next) /\ \A H : Listed(s, H) /\ (\A k \in DOMAIN s.pending : k.seat \in Seats)
                                   => Listed(next, H)
<1>1. KeptBy(next) = KeptBy(s)
  BY DEF KeptBy
<1>2. PendingBy(next) = PendingBy(s)
  BY DEF PendingBy
<1>3. DeferredBy(next) = DeferredBy(s)
  BY DEF DeferredBy
<1>4. Counted(next)
  BY <1>1, <1>2, <1>3 DEF Counted
<1>5. \A H : Listed(s, H) /\ (\A k \in DOMAIN s.pending : k.seat \in Seats) => Listed(next, H)
  BY DEF Listed
<1> QED BY <1>4, <1>5

LEMMA PinnedAt ==
  ASSUME NEW ref \in [Page -> Int], NEW blocks, NEW p \in Page
  PROVE  /\ Pinned(ref, blocks)[p] = ref[p] + Has(blocks, p)
         /\ Unpinned(ref, blocks)[p] = ref[p] - Has(blocks, p)
         /\ Has(blocks, p) \in {0, 1}
  BY DEF Pinned, Unpinned, Has

LEMMA UnpinnedEachAt ==
  ASSUME NEW ref \in [Page -> Int], NEW lists, NEW p \in Page
  PROVE  UnpinnedEach(ref, lists)[p] = ref[p] - HowMany(lists, p)
  BY DEF UnpinnedEach, HowMany, Having

LEMMA HasNone ==
  ASSUME NEW p
  PROVE  Has(<<>>, p) = 0
  BY DEF Has, Range

\* A seat's pages are other ones.
LEMMA SeatCount ==
  ASSUME NEW s, NEW next, NEW i \in Seats, NEW p,
         \A j \in Seats \ {i} : next.pool.seat[j].blocks = s.pool.seat[j].blocks
  PROVE  HowMany(KeptBy(next), p) = HowMany(KeptBy(s), p)
           - Has(s.pool.seat[i].blocks, p) + Has(next.pool.seat[i].blocks, p)
<1> DEFINE f == KeptBy(s)
           g == KeptBy(next)
<1>1. /\ DOMAIN f = Seats /\ Altered(f, g, i) /\ HasAt(f, i, p) = Has(f[i], p)
      /\ f[i] = s.pool.seat[i].blocks /\ g[i] = next.pool.seat[i].blocks
  BY DEF KeptBy, Altered, HasAt
<1>2. IsFiniteSet(Having(f, p))
  BY <1>1, SeatAssumption, HavingFinite
<1> HIDE DEF f, g
<1>3. HowMany(g, p) = HowMany(f, p) - HasAt(f, i, p) + Has(g[i], p)
  BY <1>1, <1>2, OneList
<1> QED BY <1>1, <1>3 DEF f, g

\* A request's pages are other ones.
LEMMA HeldCount ==
  ASSUME NEW held, NEW next, NEW r \in DOMAIN held, NEW p,
         IsFiniteSet(Having(held, p)), Altered(held, next, r)
  PROVE  /\ IsFiniteSet(Having(next, p))
         /\ HowMany(next, p) = HowMany(held, p) - Has(held[r], p) + Has(next[r], p)
<1>1. HasAt(held, r, p) = Has(held[r], p)
  BY DEF HasAt
<1> QED BY <1>1, OneList

-----------------------------------------------------------------------------
\* Publication, page by page.

\* A due checkpoint keeps some of its pages and gives back the others.
LEMMA KeptAndOthers ==
  ASSUME NEW s \in State, NEW k \in DOMAIN s.pending, Once(s.pending[k].blocks)
  PROVE  /\ Once(KeptPages(s, k))
         /\ Range(KeptPages(s, k)) \cup Range(OtherPages(s, k)) = Range(s.pending[k].blocks)
         /\ Range(KeptPages(s, k)) \cap Range(OtherPages(s, k)) = {}
<1> DEFINE blocks == s.pending[k].blocks
           count == PagesFor(Len(Observed(s, k)) - 1)
           kept == KeptPages(s, k)
<1>1. blocks \in Seq(Page) /\ Len(blocks) \in Nat
  <2>1. s.pending[k] \in PendingState
    BY StateFacts, PartialIs
  <2>2. blocks \in Seq(Page)
    BY <2>1 DEF PendingState
  <2> QED BY <2>2, LenProperties
<1>2. count \in Int
  <2>1. Len(Observed(s, k)) \in Nat
    BY ObservedType, LenProperties
  <2>2. Len(Observed(s, k)) - 1 \in Int
    BY <2>1
  <2> QED BY <2>2, PagesForType
<1>3. kept = IF Observed(s, k) = <<>> \/ count > Len(blocks) THEN <<>>
             ELSE SubSeq(blocks, 1, count)
  BY DEF KeptPages
<1>4. OtherPages(s, k) = SubSeq(blocks, Len(kept) + 1, Len(blocks))
  BY DEF OtherPages
<1> HIDE DEF blocks, count, kept
<1>5. \E n \in Int : n <= Len(blocks) /\ kept = SubSeq(blocks, 1, n)
  <2>1. CASE Observed(s, k) = <<>> \/ count > Len(blocks)
    <3>1. kept = SubSeq(blocks, 1, 0)
      BY <1>3, <2>1
    <3> QED BY <1>1, <3>1
  <2>2. CASE ~(Observed(s, k) = <<>> \/ count > Len(blocks))
    BY <1>1, <1>2, <1>3, <2>2
  <2> QED BY <2>1, <2>2
<1>6. PICK n \in Int : n <= Len(blocks) /\ kept = SubSeq(blocks, 1, n)
  BY <1>5
<1>7. /\ Range(kept) \cup Range(OtherPages(s, k)) = Range(blocks)
      /\ Once(blocks) => Once(kept) /\ Range(kept) \cap Range(OtherPages(s, k)) = {}
  BY <1>1, <1>4, <1>6, OnceSplit
<1> QED BY <1>7 DEF blocks, kept

LEMMA PublishIs ==
  ASSUME NEW s \in State, NEW H, Listed(s, H)
  PROVE  LET next == Publish(s)
         IN  /\ next.held = s.held /\ next.deferred = s.deferred
             /\ next.ref = UnpinnedEach(s.ref, [k \in Due(s) |-> OtherPages(s, k)])
             /\ \A k \in Due(s) : next.pool.seat[k.seat].blocks = KeptPages(s, k)
             /\ \A i \in Seats : (\A k \in Due(s) : k.seat # i)
                                   => next.pool.seat[i].blocks = s.pool.seat[i].blocks
<1> DEFINE filled(i) == {k \in Due(s) : k.seat = i /\ KeptPages(s, k) # <<>>}
           of(i) == CHOOSE k \in filled(i) : TRUE
           seat == [i \in Seats |->
                      IF filled(i) = {} THEN s.pool.seat[i]
                      ELSE [s.pool.seat[i] EXCEPT !.tokens = Observed(s, of(i)),
                                                  !.salt = s.pending[of(i)].salt,
                                                  !.blocks = KeptPages(s, of(i))]]
           ref == UnpinnedEach(s.ref, [k \in Due(s) |-> OtherPages(s, k)])
           front == Restrict(s.frontiers, DOMAIN s.frontiers \ Due(s))
           pend == Restrict(s.pending, DOMAIN s.pending \ Due(s))
           next == Publish(s)
<1>1. next = [s EXCEPT !.pool.seat = seat, !.ref = ref, !.frontiers = front,
                       !.pending = pend]
  BY DEF Publish
<1> HIDE DEF seat, ref, front, pend, next
<1>2. /\ next.held = s.held /\ next.deferred = s.deferred /\ next.ref = ref
      /\ next.pool.seat = seat
  <2>1. s.pool \in [seat : [Seats -> SeatState], order : Seq(Seats)]
    BY StateFacts DEF Pool
  <2> QED BY <1>1, <2>1 DEF State
<1>3. ASSUME NEW k \in Due(s)
      PROVE  seat[k.seat].blocks = KeptPages(s, k)
  <2>1. k \in DOMAIN s.pending /\ k.seat \in Seats /\ s.pool.seat[k.seat].blocks = <<>>
    BY PendingSeats DEF Due, Listed
  <2>2. \A l \in filled(k.seat) : l = k
    BY <2>1 DEF Listed, Due
  <2>3. CASE KeptPages(s, k) = <<>>
    <3>1. filled(k.seat) = {}
      BY <2>2, <2>3
    <3> QED BY <2>1, <2>3, <3>1, Zenon DEF seat
  <2>4. CASE KeptPages(s, k) # <<>>
    <3>1. filled(k.seat) = {k}
      BY <2>2, <2>4
    <3>2. of(k.seat) = k
      BY <3>1
    <3> DEFINE old == s.pool.seat[k.seat]
    <3>3. old \in SeatState
      BY <2>1, StateFacts, PoolFacts
    <3>4. seat[k.seat] = [old EXCEPT !.tokens = Observed(s, k), !.salt = s.pending[k].salt,
                                     !.blocks = KeptPages(s, k)]
      BY <2>1, <3>1, <3>2, Zenon DEF seat
    <3> HIDE DEF old
    <3> QED BY <3>3, <3>4 DEF SeatState
  <2> QED BY <2>3, <2>4
<1>4. ASSUME NEW i \in Seats, \A k \in Due(s) : k.seat # i
      PROVE  seat[i].blocks = s.pool.seat[i].blocks
  BY <1>4 DEF seat
<1> QED BY <1>2, <1>3, <1>4 DEF ref, next

\* Publication gives every page of a due checkpoint to its seat or back.
LEMMA PublishPages ==
  ASSUME NEW s \in State, PendingKept(s), NEW H, Listed(s, H), Counted(s)
  PROVE  Counted(Publish(s)) /\ Listed(Publish(s), H)
<1> DEFINE next == Publish(s)
           D == Due(s)
           other == [k \in D |-> OtherPages(s, k)]
           kept == [k \in D |-> KeptPages(s, k)]
           due == [k \in D |-> s.pending[k].blocks]
           Filling == {k.seat : k \in D}
           old == KeptBy(s)
           new == KeptBy(next)
           oldFilled == [i \in Filling |-> old[i]]
           newFilled == [i \in Filling |-> new[i]]
           rest == [i \in Seats \ Filling |-> old[i]]
<1>1. /\ DOMAIN next.pending = DOMAIN s.pending \ D
      /\ \A k \in DOMAIN next.pending : next.pending[k] = s.pending[k]
  BY PublishFields
<1>2. /\ next.held = s.held /\ next.deferred = s.deferred
      /\ next.ref = UnpinnedEach(s.ref, other)
      /\ \A k \in D : next.pool.seat[k.seat].blocks = KeptPages(s, k)
      /\ \A i \in Seats : (\A k \in D : k.seat # i)
                            => next.pool.seat[i].blocks = s.pool.seat[i].blocks
  BY PublishIs
<1> HIDE DEF next
<1>3. /\ D \subseteq DOMAIN s.pending /\ IsFiniteSet(DOMAIN s.pending)
      /\ \A k \in DOMAIN s.pending : k.seat \in Seats
  BY StateFacts, PendingSeats DEF Due
<1> HIDE DEF D
<1>4. IsFiniteSet(D) /\ Filling \subseteq Seats
  BY <1>3, FS_Subset
<1>5. /\ \A k \in DOMAIN s.pending : /\ Once(s.pending[k].blocks)
                                     /\ s.pool.seat[k.seat].blocks = <<>>
      /\ \A k, l \in DOMAIN s.pending : k.seat = l.seat => k = l
  BY DEF Listed
<1>6. \A k \in D : /\ Once(KeptPages(s, k))
                   /\ Range(KeptPages(s, k)) \cup Range(OtherPages(s, k))
                        = Range(s.pending[k].blocks)
                   /\ Range(KeptPages(s, k)) \cap Range(OtherPages(s, k)) = {}
  BY <1>3, <1>5, KeptAndOthers
<1>7. Listed(next, H)
  <2>1. \A i \in Seats : Once(next.pool.seat[i].blocks)
    <3> SUFFICES ASSUME NEW i \in Seats PROVE Once(next.pool.seat[i].blocks)
      OBVIOUS
    <3>1. CASE \E k \in D : k.seat = i
      BY <1>2, <1>6, <3>1
    <3>2. CASE \A k \in D : k.seat # i
      BY <1>2, <3>2 DEF Listed
    <3> QED BY <3>1, <3>2
  <2>2. \A k \in DOMAIN next.pending :
          /\ Once(next.pending[k].blocks)
          /\ next.pool.seat[k.seat].blocks = <<>>
    <3> SUFFICES ASSUME NEW k \in DOMAIN next.pending
                 PROVE  /\ Once(next.pending[k].blocks)
                        /\ next.pool.seat[k.seat].blocks = <<>>
      OBVIOUS
    <3>1. k \in DOMAIN s.pending /\ k \notin D /\ next.pending[k] = s.pending[k]
      BY <1>1
    <3>2. \A l \in D : l.seat # k.seat
      BY <1>3, <1>5, <3>1
    <3> QED BY <1>2, <1>3, <1>5, <3>1, <3>2, Zenon
  <2>3. \A k, l \in DOMAIN next.pending : k.seat = l.seat => k = l
    BY <1>1, <1>5
  <2> QED BY <1>2, <2>1, <2>2, <2>3 DEF Listed
<1>8. ASSUME NEW p \in Page
      PROVE  /\ HowMany(old, p) \in Nat
             /\ HowMany(new, p) = HowMany(old, p) + HowMany(kept, p)
             /\ HowMany(kept, p) \in Nat
  <2>0. /\ DOMAIN old = Seats /\ DOMAIN new = Seats
        /\ \A i \in Seats : old[i] = s.pool.seat[i].blocks /\ new[i] = next.pool.seat[i].blocks
    BY DEF KeptBy
  <2> HIDE DEF old, new
  <2>1. IsFiniteSet(Seats) /\ Filling \cup (Seats \ Filling) = Seats
    BY <1>4, SeatAssumption
  <2>2. /\ HowMany(oldFilled, p) \in Nat /\ HowMany(rest, p) \in Nat
        /\ HowMany(old, p) = HowMany(oldFilled, p) + HowMany(rest, p)
    <3>1. /\ DOMAIN oldFilled = Filling /\ DOMAIN rest = Seats \ Filling
          /\ \A i \in Filling : oldFilled[i] = old[i]
          /\ \A i \in Seats \ Filling : rest[i] = old[i]
      OBVIOUS
    <3>2. DOMAIN oldFilled \cap DOMAIN rest = {}
      BY <3>1
    <3> HIDE DEF Filling, oldFilled, rest
    <3>3. InTwo(old, oldFilled, rest) /\ IsFiniteSet(DOMAIN old)
      BY <2>0, <2>1, <3>1, <3>2 DEF InTwo
    <3> QED BY <3>3, SplitLists
  <2>3. /\ HowMany(newFilled, p) \in Nat
        /\ HowMany(new, p) = HowMany(newFilled, p) + HowMany(rest, p)
    <3>1. \A i \in Seats \ Filling : rest[i] = new[i]
      <4>1. \A i \in Seats \ Filling : \A k \in D : k.seat # i
        OBVIOUS
      <4> QED BY <1>2, <2>0, <4>1
    <3>2. /\ DOMAIN newFilled = Filling /\ DOMAIN rest = Seats \ Filling
          /\ \A i \in Filling : newFilled[i] = new[i]
      OBVIOUS
    <3>3. DOMAIN newFilled \cap DOMAIN rest = {}
      BY <3>2
    <3> HIDE DEF Filling, newFilled, rest
    <3>4. InTwo(new, newFilled, rest) /\ IsFiniteSet(DOMAIN new)
      BY <2>0, <2>1, <3>1, <3>2, <3>3 DEF InTwo
    <3> QED BY <3>4, SplitLists
  <2>4. HowMany(oldFilled, p) = 0
    <3>1. \A i \in Filling : oldFilled[i] = <<>>
      BY <1>3, <1>5, <2>0
    <3> HIDE DEF Filling
    <3> QED BY <3>1, NoLists
  <2>5. HowMany(newFilled, p) = HowMany(kept, p)
    <3> DEFINE at == [k \in D |-> k.seat]
    <3>1. at \in [D -> Filling] /\ \A i \in Filling : \E k \in D : at[k] = i
      OBVIOUS
    <3>2. \A k, l \in D : at[k] = at[l] => k = l
      BY <1>3, <1>5
    <3>3. \A k \in D : newFilled[at[k]] = kept[k]
      BY <1>2, <1>3, <2>0
    <3>4. IsFiniteSet(Filling)
      BY <1>4, SeatAssumption, FS_Subset
    <3> HIDE DEF at, Filling
    <3>5. DOMAIN newFilled = Filling /\ DOMAIN kept = D
      OBVIOUS
    <3> HIDE DEF newFilled, kept
    <3>6. HowMany(kept, p) = HowMany(newFilled, p)
      BY <3>1, <3>2, <3>3, <3>4, <3>5, RenamedLists
    <3> QED BY <3>6
  <2> HIDE DEF oldFilled, newFilled, rest, kept
  <2> QED BY <2>2, <2>3, <2>4, <2>5
<1>9. ASSUME NEW p \in Page
      PROVE  /\ HowMany(other, p) \in Nat
             /\ HowMany(PendingBy(next), p) \in Nat
             /\ HowMany(PendingBy(s), p)
                  = HowMany(PendingBy(next), p) + HowMany(kept, p) + HowMany(other, p)
  <2>1. /\ HowMany(kept, p) \in Nat /\ HowMany(other, p) \in Nat
        /\ HowMany(due, p) = HowMany(kept, p) + HowMany(other, p)
    <3>1. /\ DOMAIN due = D /\ DOMAIN kept = D /\ DOMAIN other = D
          /\ \A k \in D : /\ Range(kept[k]) \cup Range(other[k]) = Range(due[k])
                           /\ Range(kept[k]) \cap Range(other[k]) = {}
      BY <1>6
    <3> HIDE DEF kept, other, due
    <3>2. EachInTwo(due, kept, other) /\ IsFiniteSet(DOMAIN due)
      BY <1>4, <3>1 DEF EachInTwo
    <3> QED BY <3>2, PairedLists
  <2>2. /\ HowMany(PendingBy(next), p) \in Nat /\ HowMany(due, p) \in Nat
        /\ HowMany(PendingBy(s), p) = HowMany(PendingBy(next), p) + HowMany(due, p)
    <3> DEFINE f == PendingBy(s)
               g == PendingBy(next)
    <3>1. /\ DOMAIN f = DOMAIN s.pending /\ DOMAIN g = DOMAIN s.pending \ D
          /\ \A k \in DOMAIN g : g[k] = f[k]
          /\ \A k \in D : due[k] = f[k]
      BY <1>1, <1>3 DEF PendingBy
    <3> HIDE DEF f, g
    <3>2. DOMAIN due = D
      OBVIOUS
    <3> HIDE DEF due
    <3>3. DOMAIN g \cup DOMAIN due = DOMAIN f /\ DOMAIN g \cap DOMAIN due = {}
      BY <1>3, <3>1, <3>2
    <3>4. InTwo(f, g, due) /\ IsFiniteSet(DOMAIN f)
      BY <1>3, <3>1, <3>2, <3>3 DEF InTwo
    <3>5. HowMany(g, p) \in Nat /\ HowMany(due, p) \in Nat
          /\ HowMany(f, p) = HowMany(g, p) + HowMany(due, p)
      BY <3>4, SplitLists
    <3> QED BY <3>5 DEF f, g
  <2> HIDE DEF kept, other, due
  <2> QED BY <2>1, <2>2
<1>10. Counted(next)
  <2> SUFFICES ASSUME NEW p \in Page
               PROVE  /\ IsFiniteSet(Having(next.held, p))
                      /\ next.ref[p] = HowMany(next.held, p) + HowMany(KeptBy(next), p)
                           + HowMany(PendingBy(next), p) + HowMany(DeferredBy(next), p)
    BY DEF Counted
  <2>1. /\ IsFiniteSet(Having(s.held, p))
        /\ s.ref[p] = HowMany(s.held, p) + HowMany(KeptBy(s), p)
                        + HowMany(PendingBy(s), p) + HowMany(DeferredBy(s), p)
    BY DEF Counted
  <2>2. /\ s.ref[p] \in Int /\ HowMany(s.held, p) \in Nat
        /\ HowMany(PendingBy(s), p) \in Nat /\ HowMany(DeferredBy(s), p) \in Nat
    BY <2>1, CountsAre
  <2>3. next.ref[p] = s.ref[p] - HowMany(other, p)
    BY <1>2, StateFacts, UnpinnedEachAt, Zenon
  <2>4. DeferredBy(next) = DeferredBy(s)
    BY <1>2 DEF DeferredBy
  <2>5. /\ HowMany(KeptBy(s), p) \in Nat /\ HowMany(kept, p) \in Nat
        /\ HowMany(KeptBy(next), p) = HowMany(KeptBy(s), p) + HowMany(kept, p)
    BY <1>8
  <2>6. /\ HowMany(other, p) \in Nat /\ HowMany(PendingBy(next), p) \in Nat
        /\ HowMany(PendingBy(s), p)
             = HowMany(PendingBy(next), p) + HowMany(kept, p) + HowMany(other, p)
    BY <1>9
  <2> HIDE DEF other, kept
  <2> QED BY <1>2, <2>1, <2>2, <2>3, <2>4, <2>5, <2>6
<1> QED BY <1>7, <1>10 DEF next

-----------------------------------------------------------------------------
\* The pages of a request that leaves.

LEMMA NativeFreeIs ==
  ASSUME NEW s \in State, NEW r \in Request, NEW fence \in Nat
  PROVE  LET next == NativeFree(s, r, fence)
         IN  /\ next.held = [s.held EXCEPT ![r] = <<>>]
             /\ next.pool = s.pool /\ next.pending = s.pending
             /\ fence = 0 => /\ next.ref = Unpinned(s.ref, s.held[r])
                             /\ next.deferred = s.deferred
             /\ fence # 0 => next.ref = s.ref
             /\ fence # 0 /\ s.held[r] = <<>> => next.deferred = s.deferred
             /\ fence # 0 /\ s.held[r] # <<>> =>
                  next.deferred = Append(s.deferred, [blocks |-> s.held[r], fence |-> fence])
  BY DEF NativeFree, State

LEMMA NativeFreePages ==
  ASSUME NEW s \in State, NEW r \in Request, NEW fence \in Nat,
         NEW H, Listed(s, H), Counted(s)
  PROVE  Counted(NativeFree(s, r, fence)) /\ Listed(NativeFree(s, r, fence), H \ {r})
<1> DEFINE next == NativeFree(s, r, fence)
           list == s.held[r]
<1>1. /\ next.held = [s.held EXCEPT ![r] = <<>>]
      /\ next.pool = s.pool /\ next.pending = s.pending
      /\ fence = 0 => next.ref = Unpinned(s.ref, list) /\ next.deferred = s.deferred
      /\ fence # 0 => next.ref = s.ref
      /\ fence # 0 /\ list = <<>> => next.deferred = s.deferred
      /\ fence # 0 /\ list # <<>> =>
           next.deferred = Append(s.deferred, [blocks |-> list, fence |-> fence])
  BY NativeFreeIs
<1> HIDE DEF next
<1>2. s.held \in [Request -> Seq(Page)] /\ s.ref \in [Page -> Int]
      /\ s.deferred \in Seq(DeferredState)
  BY StateFacts
<1>3. Listed(next, H \ {r})
  <2>1. \A x \in Request : next.held[x] = IF x = r THEN <<>> ELSE s.held[x]
    BY <1>1, <1>2
  <2>2. Once(<<>>)
    BY DEF Once
  <2> QED BY <1>1, <2>1, <2>2 DEF Listed
<1>4. ASSUME NEW p \in Page
      PROVE  /\ IsFiniteSet(Having(next.held, p))
             /\ next.ref[p] = HowMany(next.held, p) + HowMany(KeptBy(next), p)
                  + HowMany(PendingBy(next), p) + HowMany(DeferredBy(next), p)
  <2>1. /\ IsFiniteSet(Having(s.held, p))
        /\ s.ref[p] = HowMany(s.held, p) + HowMany(KeptBy(s), p)
                        + HowMany(PendingBy(s), p) + HowMany(DeferredBy(s), p)
    BY DEF Counted
  <2>2. /\ s.ref[p] \in Int /\ HowMany(s.held, p) \in Nat /\ HowMany(KeptBy(s), p) \in Nat
        /\ HowMany(PendingBy(s), p) \in Nat /\ HowMany(DeferredBy(s), p) \in Nat
    BY <2>1, CountsAre
  <2>3. KeptBy(next) = KeptBy(s) /\ PendingBy(next) = PendingBy(s)
    BY <1>1 DEF KeptBy, PendingBy
  <2>4. /\ IsFiniteSet(Having(next.held, p))
        /\ HowMany(next.held, p) = HowMany(s.held, p) - Has(list, p)
    <3>1. /\ IsFiniteSet(Having(next.held, p))
          /\ HowMany(next.held, p) = HowMany(s.held, p) - Has(list, p) + Has(<<>>, p)
      <4>1. /\ Altered(s.held, next.held, r) /\ next.held[r] = <<>>
            /\ r \in DOMAIN s.held
        BY <1>1, <1>2 DEF Altered
      <4> QED BY <2>1, <4>1, HeldCount
    <3> QED BY <2>2, <3>1, HasNone DEF Has
  <2>5. Has(list, p) \in {0, 1} /\ (list = <<>> => Has(list, p) = 0)
    BY HasNone DEF Has
  <2> HIDE DEF list
  <2>6. CASE fence = 0
    <3>1. next.ref[p] = s.ref[p] - Has(list, p)
      <4>1. Unpinned(s.ref, list)[p] = s.ref[p] - Has(list, p)
        BY <1>2, PinnedAt, Zenon
      <4> QED BY <1>1, <2>6, <4>1
    <3>2. DeferredBy(next) = DeferredBy(s)
      BY <1>1, <2>6 DEF DeferredBy
    <3> QED BY <2>1, <2>2, <2>3, <2>4, <2>5, <3>1, <3>2
  <2>7. CASE fence # 0 /\ list = <<>>
    <3>1. DeferredBy(next) = DeferredBy(s)
      BY <1>1, <2>7 DEF DeferredBy
    <3> QED BY <1>1, <2>1, <2>2, <2>3, <2>4, <2>5, <2>7, <3>1
  <2>8. CASE fence # 0 /\ list # <<>>
    <3> DEFINE f == DeferredBy(s)
               g == DeferredBy(next)
               entry == [blocks |-> list, fence |-> fence]
               n == Len(s.deferred)
    <3>1. /\ n \in Nat /\ DOMAIN s.deferred = 1 .. n
          /\ DOMAIN Append(s.deferred, entry) = 1 .. n + 1
          /\ \A j \in 1 .. n : Append(s.deferred, entry)[j] = s.deferred[j]
          /\ Append(s.deferred, entry)[n + 1] = entry
      <4>1. n \in Nat /\ DOMAIN s.deferred = 1 .. n
        BY <1>2, LenProperties
      <4>2. entry \in DeferredState
        BY <1>2 DEF DeferredState, list
      <4> HIDE DEF entry
      <4>3. /\ Append(s.deferred, entry) \in Seq(DeferredState)
            /\ Len(Append(s.deferred, entry)) = n + 1
            /\ \A j \in 1 .. n : Append(s.deferred, entry)[j] = s.deferred[j]
            /\ Append(s.deferred, entry)[n + 1] = entry
        BY <1>2, <4>2, AppendRange
      <4>4. DOMAIN Append(s.deferred, entry) = 1 .. n + 1
        BY <4>3, LenProperties
      <4> QED BY <4>1, <4>3, <4>4
    <3> HIDE DEF n
    <3>2. /\ DOMAIN f = 1 .. n /\ DOMAIN g = 1 .. n + 1
          /\ \A j \in 1 .. n : f[j] = s.deferred[j].blocks
          /\ \A j \in 1 .. n + 1 : g[j] = IF j = n + 1 THEN list ELSE s.deferred[j].blocks
      <4>1. next.deferred = Append(s.deferred, entry)
        BY <1>1, <2>8
      <4>2. entry.blocks = list
        OBVIOUS
      <4> HIDE DEF entry
      <4>3. /\ DOMAIN next.deferred = 1 .. n + 1
            /\ \A j \in 1 .. n + 1 :
                 next.deferred[j] = IF j = n + 1 THEN entry ELSE s.deferred[j]
        <5>1. \A j \in 1 .. n + 1 : j = n + 1 \/ j \in 1 .. n
          BY <3>1
        <5> QED BY <3>1, <4>1, <5>1
      <4>4. \A j \in 1 .. n : j \in 1 .. n + 1
        BY <3>1
      <4> QED BY <3>1, <4>2, <4>3, <4>4 DEF DeferredBy
    <3> HIDE DEF f, g
    <3>3. Altered(f, g, n + 1) /\ HasAt(f, n + 1, p) = 0 /\ g[n + 1] = list
      <4>1. 1 .. n + 1 = 1 .. n \cup {n + 1} /\ n + 1 \notin 1 .. n
        BY <3>1
      <4> QED BY <3>2, <4>1 DEF Altered, HasAt
    <3>4. IsFiniteSet(Having(f, p))
      BY <3>1, <3>2, FS_Interval, HavingFinite
    <3>5. HowMany(g, p) = HowMany(f, p) + Has(list, p)
      BY <2>5, <3>3, <3>4, OneList
    <3>6. HowMany(DeferredBy(next), p) = HowMany(DeferredBy(s), p) + Has(list, p)
      BY <3>5 DEF f, g
    <3> QED BY <1>1, <2>1, <2>2, <2>3, <2>4, <2>5, <2>8, <3>6
  <2> QED BY <2>6, <2>7, <2>8
<1> QED BY <1>3, <1>4 DEF Counted, next

LEMMA LeaveSeatIs ==
  ASSUME NEW s \in State, NEW r \in Request,
         NEW finished \in BOOLEAN, NEW fence \in Nat
  PROVE  LET i    == SeatOf(s.pool, r)
             key  == [rid |-> r, seat |-> i, epoch |-> s.pool.seat[i].epoch]
             entry == [fence |-> fence, salt |-> SaltOf[r], blocks |-> s.held[r]]
             next == LeaveSeat(s, r, finished, fence)
         IN  /\ next.held = s.held /\ next.deferred = s.deferred
             /\ next.pool = Retire(s.pool, r, fence)
             /\ finished => /\ next.pending = Put(s.pending, key, entry)
                            /\ next.ref = Pinned(s.ref, s.held[r])
             /\ ~finished => next.pending = s.pending /\ next.ref = s.ref
<1> DEFINE i    == SeatOf(s.pool, r)
           key  == [rid |-> r, seat |-> i, epoch |-> s.pool.seat[i].epoch]
           entry == [fence |-> fence, salt |-> SaltOf[r], blocks |-> s.held[r]]
           put == Put(s.pending, key, entry)
           pend == IF finished THEN put ELSE s.pending
           ref == IF finished THEN Pinned(s.ref, s.held[r]) ELSE s.ref
           cut == Restrict(s.frontiers, DOMAIN s.frontiers \ {key})
           front == IF finished THEN s.frontiers ELSE cut
           pool == Retire(s.pool, r, fence)
           offers == [s.offers EXCEPT ![r] = NoOffer]
           next == LeaveSeat(s, r, finished, fence)
<1>1. next = [s EXCEPT !.pending = pend, !.ref = ref, !.frontiers = front, !.pool = pool,
                       !.offers = offers]
  BY DEF LeaveSeat
<1> HIDE DEF pend, ref, front, pool, offers, next
<1>2. /\ next.held = s.held /\ next.deferred = s.deferred /\ next.pool = pool
      /\ next.pending = pend /\ next.ref = ref
  BY <1>1 DEF State
<1> QED BY <1>2 DEF pend, ref, pool, next

LEMMA LeaveSeatPages ==
  ASSUME NEW s \in State, NEW r \in Request, r \in Holders(s.pool),
         NEW finished \in BOOLEAN, NEW fence \in Nat,
         NEW H, Seated(s, H), PendingKept(s), NEW G, Listed(s, G), Counted(s)
  PROVE  Counted(LeaveSeat(s, r, finished, fence)) /\ Listed(LeaveSeat(s, r, finished, fence), G)
<1>0. SeatOf(s.pool, r) \in Seats /\ s.pool.seat[SeatOf(s.pool, r)].owner = r /\ r # Nobody
  BY SeatOfOwner
<1> SUFFICES ASSUME NEW i \in Seats, i = SeatOf(s.pool, r)
             PROVE  /\ Counted(LeaveSeat(s, r, finished, fence))
                    /\ Listed(LeaveSeat(s, r, finished, fence), G)
  BY <1>0
<1> DEFINE key  == [rid |-> r, seat |-> i, epoch |-> s.pool.seat[i].epoch]
           entry == [fence |-> fence, salt |-> SaltOf[r], blocks |-> s.held[r]]
           next == LeaveSeat(s, r, finished, fence)
<1>1. /\ next.held = s.held /\ next.deferred = s.deferred
      /\ next.pool = Retire(s.pool, r, fence)
      /\ finished => /\ next.pending = Put(s.pending, key, entry)
                     /\ next.ref = Pinned(s.ref, s.held[r])
      /\ ~finished => next.pending = s.pending /\ next.ref = s.ref
  BY LeaveSeatIs
<1> HIDE DEF next
<1>2. next.pool.seat[i].blocks = <<>> /\ \A j \in Seats \ {i} : next.pool.seat[j] = s.pool.seat[j]
  BY <1>1, StateFacts, RetireFields
<1>3. s.pool.seat[i].blocks = <<>>
  BY <1>0 DEF Seated
<1>4. \A j \in Seats : next.pool.seat[j].blocks = s.pool.seat[j].blocks
  BY <1>2, <1>3
<1>5. \A k \in DOMAIN s.pending : k.seat \in Seats /\ k.seat # i
  BY <1>0, PendingSeats DEF PendingKept
<1>6. key.seat = i /\ entry.blocks = s.held[r]
  OBVIOUS
<1> HIDE DEF key, entry
<1>7. key \notin DOMAIN s.pending
  BY <1>5, <1>6
<1>8. CASE ~finished
  <2>1. /\ next.ref = s.ref /\ next.held = s.held
        /\ next.pending = s.pending /\ next.deferred = s.deferred
    BY <1>1, <1>8
  <2> QED BY <1>4, <1>5, <2>1, SamePages DEF next
<1>9. CASE finished
  <2> DEFINE pend == next.pending
  <2>1. /\ DOMAIN pend = DOMAIN s.pending \cup {key}
        /\ pend[key] = entry
        /\ \A k \in DOMAIN s.pending : pend[k] = s.pending[k]
    <3>1. pend = Put(s.pending, key, entry)
      BY <1>1, <1>9
    <3> HIDE DEF pend
    <3>2. DOMAIN pend = DOMAIN s.pending \cup {key}
      BY <3>1, PutKeys, Zenon
    <3>3. pend[key] = entry
      BY <3>1, PutAt
    <3>4. ASSUME NEW k \in DOMAIN s.pending
          PROVE  pend[k] = s.pending[k]
      <4>1. k # key
        BY <1>7
      <4> QED BY <3>1, <4>1, PutElsewhere
    <3> QED BY <3>2, <3>3, <3>4
  <2>2. Listed(next, G)
    <3>1. /\ \A x \in Request : Once(s.held[x]) /\ (x \notin G => s.held[x] = <<>>)
          /\ \A j \in Seats : Once(s.pool.seat[j].blocks)
          /\ \A k \in DOMAIN s.pending : Once(s.pending[k].blocks)
                                         /\ s.pool.seat[k.seat].blocks = <<>>
          /\ \A k, l \in DOMAIN s.pending : k.seat = l.seat => k = l
      BY DEF Listed
    <3>2. ASSUME NEW k \in DOMAIN pend
          PROVE  Once(pend[k].blocks) /\ next.pool.seat[k.seat].blocks = <<>>
      <4>1. CASE k = key
        BY <1>2, <1>6, <2>1, <3>1, <4>1
      <4>2. CASE k \in DOMAIN s.pending
        BY <1>4, <1>5, <2>1, <3>1, <4>2, Zenon
      <4> QED BY <2>1, <4>1, <4>2
    <3>3. ASSUME NEW k \in DOMAIN pend, NEW l \in DOMAIN pend, k.seat = l.seat
          PROVE  k = l
      BY <1>5, <1>6, <2>1, <3>1, <3>3
    <3> QED BY <1>1, <1>4, <3>1, <3>2, <3>3 DEF Listed
  <2>3. ASSUME NEW p \in Page
        PROVE  /\ IsFiniteSet(Having(next.held, p))
               /\ next.ref[p] = HowMany(next.held, p) + HowMany(KeptBy(next), p)
                    + HowMany(PendingBy(next), p) + HowMany(DeferredBy(next), p)
    <3>1. /\ IsFiniteSet(Having(s.held, p))
          /\ s.ref[p] = HowMany(s.held, p) + HowMany(KeptBy(s), p)
                          + HowMany(PendingBy(s), p) + HowMany(DeferredBy(s), p)
      BY DEF Counted
    <3>2. /\ s.ref[p] \in Int /\ HowMany(s.held, p) \in Nat /\ HowMany(KeptBy(s), p) \in Nat
          /\ HowMany(PendingBy(s), p) \in Nat /\ HowMany(DeferredBy(s), p) \in Nat
      BY <3>1, CountsAre
    <3>3. KeptBy(next) = KeptBy(s) /\ DeferredBy(next) = DeferredBy(s)
      BY <1>1, <1>4 DEF KeptBy, DeferredBy
    <3>4. /\ next.ref[p] = s.ref[p] + Has(s.held[r], p)
          /\ Has(s.held[r], p) \in {0, 1}
      <4>1. s.ref \in [Page -> Int]
        BY StateFacts
      <4>2. /\ Pinned(s.ref, s.held[r])[p] = s.ref[p] + Has(s.held[r], p)
            /\ Has(s.held[r], p) \in {0, 1}
        BY <4>1, PinnedAt
      <4> QED BY <1>1, <1>9, <4>2
    <3>5. HowMany(PendingBy(next), p) = HowMany(PendingBy(s), p) + Has(s.held[r], p)
      <4> DEFINE f == PendingBy(s)
                 g == PendingBy(next)
      <4>1. Altered(f, g, key) /\ HasAt(f, key, p) = 0 /\ g[key] = s.held[r]
        BY <1>6, <1>7, <2>1 DEF PendingBy, Altered, HasAt
      <4>2. IsFiniteSet(Having(f, p))
        <5>1. DOMAIN f = DOMAIN s.pending
          BY DEF PendingBy
        <5> QED BY <5>1, StateFacts, HavingFinite
      <4> HIDE DEF f, g
      <4>3. HowMany(f, p) \in Nat /\ HowMany(g, p) = HowMany(f, p) - 0 + Has(s.held[r], p)
        BY <4>1, <4>2, OneList
      <4>4. HowMany(g, p) = HowMany(f, p) + Has(s.held[r], p)
        BY <3>4, <4>3
      <4> QED BY <4>4 DEF f, g
    <3> QED BY <1>1, <3>1, <3>2, <3>3, <3>4, <3>5
  <2> QED BY <2>2, <2>3 DEF Counted, next
<1> QED BY <1>8, <1>9

LEMMA FreeRequestBlocksPages ==
  ASSUME NEW s \in State, NEW r \in Request,
         NEW finished \in BOOLEAN, NEW fence \in Nat,
         NEW H, Seated(s, H), PendingKept(s), Listed(s, H), Counted(s)
  PROVE  LET next == FreeRequestBlocks(s, r, finished, fence)
         IN  Counted(next) /\ Listed(next, H \ {r})
<1> DEFINE left == IF r \in Holders(s.pool) THEN LeaveSeat(s, r, finished, fence) ELSE s
           freed == NativeFree(left, r, fence)
           next == Publish(freed)
<1>1. FreeRequestBlocks(s, r, finished, fence) = next
  BY DEF FreeRequestBlocks
<1>2. /\ left \in State /\ PendingKept(left)
      /\ Counted(left) /\ Listed(left, H)
  <2>1. CASE r \in Holders(s.pool)
    <3>1. left = LeaveSeat(s, r, finished, fence)
      BY <2>1
    <3> HIDE DEF left
    <3>2. left \in State
      BY <2>1, <3>1, LeaveSeatFields, Zenon
    <3>3. PendingKept(left)
      <4> DEFINE none == [j \in {} |-> {}]
      <4>1. Rowed(none) /\ RowsKept(s, none) /\ Covers(none, r, fence)
        BY DEF Rowed, RowsKept, Covers
      <4> HIDE DEF none
      <4> QED BY <2>1, <3>1, <4>1, LeaveSeatKeeps, Zenon
    <3> QED BY <2>1, <3>1, <3>2, <3>3, LeaveSeatPages
  <2>2. CASE r \notin Holders(s.pool)
    BY <2>2
  <2> QED BY <2>1, <2>2
<1> HIDE DEF left
<1>3. /\ freed \in State /\ freed.pool = left.pool /\ freed.pending = left.pending
      /\ Counted(freed) /\ Listed(freed, H \ {r})
  BY <1>2, NativeFreeFields, NativeFreePages
<1> HIDE DEF freed
<1>4. PendingKept(freed)
  BY <1>2, <1>3 DEF PendingKept
<1>5. Counted(next) /\ Listed(next, H \ {r})
  BY <1>3, <1>4, PublishPages
<1> QED BY <1>1, <1>5

-----------------------------------------------------------------------------
\* The pages when a frame retires.

LEMMA ExpiredPages ==
  ASSUME NEW s \in State, NEW H, Listed(s, H), Counted(s)
  PROVE  Counted(Expired(s)) /\ Listed(Expired(s), H)
<1> DEFINE down == [j \in DOMAIN s.deferred |-> [s.deferred[j] EXCEPT !.fence = @ - 1]]
           due == {j \in DOMAIN down : down[j].fence <= 0}
           still == {d \in Range(down) : d.fence > 0}
           back == [j \in due |-> down[j].blocks]
           kept == [j \in DOMAIN down \ due |-> down[j].blocks]
           left == Only(down, still)
           next == Expired(s)
           l == Len(s.deferred)
<1>1. /\ next.ref = UnpinnedEach(s.ref, back) /\ next.deferred = left
      /\ next.held = s.held /\ next.pool = s.pool /\ next.pending = s.pending
  BY DEF Expired, State
<1>2. /\ s.deferred \in Seq(DeferredState) /\ l \in Nat
      /\ DOMAIN s.deferred = 1 .. l
      /\ \A j \in DOMAIN s.deferred : s.deferred[j] \in DeferredState
  BY StateFacts, LenProperties, ElementOfSeq
<1> HIDE DEF next, l
<1>3. DOMAIN down = 1 .. l
  BY <1>2
<1>4. \A j \in 1 .. l : down[j] \in DeferredState /\ down[j].blocks = s.deferred[j].blocks
  <2> TAKE j \in 1 .. l
  <2> DEFINE d == s.deferred[j]
             f == d.fence - 1
  <2>1. d \in DeferredState
    BY <1>2
  <2>2. down[j] = [d EXCEPT !.fence = f]
    BY <1>2
  <2> HIDE DEF d, down
  <2>3. f \in Int
    BY <2>1 DEF DeferredState
  <2> HIDE DEF f
  <2> QED BY <2>1, <2>2, <2>3 DEF DeferredState, d
<1>5. down \in Seq(DeferredState)
  <2>1. down = [j \in 1 .. l |-> down[j]]
    BY <1>2
  <2> HIDE DEF down
  <2>2. down \in [1 .. l -> DeferredState]
    BY <1>4, <2>1
  <2> QED BY <1>2, <2>2
<1> HIDE DEF down
<1>6. PICK m \in Nat : \E at : Filtered(down, still, left, m, at)
  <2> HIDE DEF still
  <2> QED BY <1>5, OnlyPlaces
<1>7. PICK at : Filtered(down, still, left, m, at)
  BY <1>6, Zenon
<1>8. \A j \in 1 .. l : down[j] \in still <=> j \notin due
  <2> SUFFICES ASSUME NEW j \in 1 .. l PROVE down[j] \in still <=> j \notin due
    OBVIOUS
  <2>1. down[j].fence \in Int /\ down[j] \in Range(down)
    BY <1>3, <1>4 DEF DeferredState, Range
  <2>2. down[j].fence > 0 <=> ~(down[j].fence <= 0)
    BY <2>1
  <2> QED BY <1>3, <2>1, <2>2
<1>9. due \subseteq 1 .. l
  BY <1>3
<1> HIDE DEF left, still, due
<1>10. /\ DOMAIN left = 1 .. m
       /\ at \in [1 .. m -> 1 .. l \ due]
       /\ \A n \in 1 .. m : left[n] = down[at[n]]
       /\ \A j \in 1 .. l \ due : \E n \in 1 .. m : at[n] = j
       /\ \A n, k \in 1 .. m : at[n] = at[k] => n = k
  <2>1. /\ DOMAIN left = 1 .. m
        /\ at \in [1 .. m -> {i \in DOMAIN down : down[i] \in still}]
        /\ \A n \in 1 .. m : left[n] = down[at[n]]
        /\ \A i \in DOMAIN down : down[i] \in still => \E n \in 1 .. m : at[n] = i
        /\ \A n, k \in 1 .. m : n < k => at[n] < at[k]
    BY <1>7 DEF Filtered
  <2>2. {i \in DOMAIN down : down[i] \in still} = 1 .. l \ due
    BY <1>3, <1>8
  <2>3. at \in [1 .. m -> 1 .. l \ due]
    BY <2>1, <2>2
  <2>4. ASSUME NEW n \in 1 .. m, NEW k \in 1 .. m, at[n] = at[k]
        PROVE  n = k
    <3>1. at[n] \in Int /\ at[k] \in Int /\ n \in Int /\ k \in Int
      BY <2>3
    <3>2. ~(n < k) /\ ~(k < n)
      BY <2>1, <2>4, <3>1
    <3> QED BY <3>1, <3>2
  <2> QED BY <1>3, <1>8, <2>1, <2>3, <2>4, Zenon
<1>11. Listed(next, H)
  BY <1>1 DEF Listed
<1>12. ASSUME NEW p \in Page
       PROVE  /\ IsFiniteSet(Having(next.held, p))
              /\ next.ref[p] = HowMany(next.held, p) + HowMany(KeptBy(next), p)
                   + HowMany(PendingBy(next), p) + HowMany(DeferredBy(next), p)
  <2>1. /\ IsFiniteSet(Having(s.held, p))
        /\ s.ref[p] = HowMany(s.held, p) + HowMany(KeptBy(s), p)
                        + HowMany(PendingBy(s), p) + HowMany(DeferredBy(s), p)
    BY DEF Counted
  <2>2. /\ s.ref[p] \in Int /\ HowMany(s.held, p) \in Nat /\ HowMany(KeptBy(s), p) \in Nat
        /\ HowMany(PendingBy(s), p) \in Nat /\ HowMany(DeferredBy(s), p) \in Nat
    BY <2>1, CountsAre
  <2>3. KeptBy(next) = KeptBy(s) /\ PendingBy(next) = PendingBy(s)
    BY <1>1 DEF KeptBy, PendingBy
  <2>4. next.ref[p] = s.ref[p] - HowMany(back, p)
    <3>1. s.ref \in [Page -> Int]
      BY StateFacts
    <3> HIDE DEF back
    <3>2. UnpinnedEach(s.ref, back)[p] = s.ref[p] - HowMany(back, p)
      BY <3>1, UnpinnedEachAt
    <3> QED BY <1>1, <3>2
  <2> DEFINE f == DeferredBy(s)
             g == DeferredBy(next)
  <2>5. /\ DOMAIN f = 1 .. l /\ \A j \in 1 .. l : f[j] = down[j].blocks
        /\ DOMAIN g = 1 .. m /\ \A n \in 1 .. m : g[n] = down[at[n]].blocks
        /\ DOMAIN back = due /\ \A j \in due : back[j] = down[j].blocks
        /\ DOMAIN kept = 1 .. l \ due /\ \A j \in 1 .. l \ due : kept[j] = down[j].blocks
    BY <1>1, <1>2, <1>3, <1>4, <1>10 DEF DeferredBy
  <2>6. IsFiniteSet(1 .. l) /\ IsFiniteSet(1 .. l \ due)
    <3>1. IsFiniteSet(1 .. l)
      BY <1>2, FS_Interval
    <3> QED BY <3>1, FS_Subset, Zenon
  <2> HIDE DEF f, g, back, kept
  <2>7. /\ HowMany(back, p) \in Nat /\ HowMany(kept, p) \in Nat
        /\ HowMany(f, p) = HowMany(back, p) + HowMany(kept, p)
    <3>1. InTwo(f, back, kept) /\ IsFiniteSet(DOMAIN f)
      BY <1>9, <2>5, <2>6, Zenon DEF InTwo
    <3> QED BY <3>1, SplitLists
  <2>8. HowMany(g, p) = HowMany(kept, p)
    <3>1. /\ IsFiniteSet(DOMAIN kept)
          /\ at \in [DOMAIN g -> DOMAIN kept]
          /\ \A x, y \in DOMAIN g : at[x] = at[y] => x = y
          /\ \A x \in DOMAIN g : g[x] = kept[at[x]]
          /\ \A y \in DOMAIN kept : \E x \in DOMAIN g : at[x] = y
      BY <1>10, <2>5, <2>6, Zenon
    <3> QED BY <3>1, RenamedLists
  <2>9. HowMany(DeferredBy(s), p) = HowMany(back, p) + HowMany(DeferredBy(next), p)
        /\ HowMany(back, p) \in Nat /\ HowMany(DeferredBy(next), p) \in Nat
    BY <2>7, <2>8 DEF f, g
  <2> QED BY <1>1, <2>1, <2>2, <2>3, <2>4, <2>9
<1> QED BY <1>11, <1>12 DEF Counted, next

LEMMA ElapsedPagesKept ==
  ASSUME NEW s \in State, NEW H, Listed(s, H), Counted(s)
  PROVE  Counted(Elapsed(s)) /\ Listed(Elapsed(s), H)
<1> DEFINE old == Expired(s)
           seat == [i \in Seats |-> Closer(old.pool.seat[i])]
           pend == [k \in DOMAIN old.pending |-> Closer(old.pending[k])]
           next == Elapsed(s)
<1>1. old \in State /\ Counted(old) /\ Listed(old, H)
  BY ExpiredFields, ExpiredPages
<1>2. next = [old EXCEPT !.pool.seat = seat, !.pending = pend]
  BY DEF Elapsed
<1> HIDE DEF old, next
<1>3. ASSUME NEW x, x \in SeatState \/ x \in PendingState
      PROVE  Closer(x).blocks = x.blocks
  BY <1>3 DEF Closer, SeatState, PendingState
<1>4. \A i \in Seats : seat[i].blocks = old.pool.seat[i].blocks
  <2>1. \A i \in Seats : old.pool.seat[i] \in SeatState
    BY <1>1, StateFacts, PoolFacts
  <2> QED BY <1>3, <2>1
<1>5. DOMAIN pend = DOMAIN old.pending
      /\ \A k \in DOMAIN old.pending : pend[k].blocks = old.pending[k].blocks
  <2>1. \A k \in DOMAIN old.pending : old.pending[k] \in PendingState
    BY <1>1, StateFacts, PartialIs
  <2> QED BY <1>3, <2>1
<1> HIDE DEF seat, pend
<1>6. /\ next.ref = old.ref /\ next.held = old.held /\ next.deferred = old.deferred
      /\ next.pool.seat = seat /\ next.pending = pend
  <2>1. old.pool \in [seat : [Seats -> SeatState], order : Seq(Seats)]
    BY <1>1, StateFacts DEF Pool
  <2> QED BY <1>1, <1>2, <2>1 DEF State
<1>7. \A k \in DOMAIN old.pending : k.seat \in Seats
  BY <1>1, PendingSeats
<1>8. Counted(next) /\ Listed(next, H)
  BY <1>1, <1>4, <1>5, <1>6, <1>7, SamePages
<1> QED BY <1>8 DEF next

LEMMA AdvancedPages ==
  ASSUME NEW s \in State, NEW frame, NEW sampled, NEW H, Listed(s, H), Counted(s)
  PROVE  Counted(Advanced(s, frame, sampled)) /\ Listed(Advanced(s, frame, sampled), H)
<1> DEFINE next == Advanced(s, frame, sampled)
<1>1. /\ next.ref = s.ref /\ next.held = s.held /\ next.deferred = s.deferred
      /\ next.pool = s.pool /\ next.pending = s.pending
  BY DEF Advanced, State
<1> HIDE DEF next
<1>2. \A k \in DOMAIN s.pending : k.seat \in Seats
  BY PendingSeats
<1>3. Counted(next) /\ Listed(next, H)
  BY <1>1, <1>2, SamePages
<1> QED BY <1>3 DEF next

LEMMA EndedPages ==
  ASSUME NEW s \in State, NEW H, Seated(s, H), PendingKept(s), Listed(s, H), Counted(s),
         NEW T, NEW queue \in Seq(T), NEW ended \in Seq(Request)
  PROVE  LET next == Ended(s, ended, queue)
         IN  Counted(next) /\ Listed(next, Holders(next.pool))
<1> DEFINE one(x, i) == EndedOne(x, ended, i, queue)
           A == {x \in State : /\ PendingKept(x) /\ Seated(x, Holders(x.pool))
                               /\ Counted(x) /\ Listed(x, Holders(x.pool))}
           n == Len(ended)
<1>1. n \in Nat /\ \A i \in 1 .. n : ended[i] \in Request
  BY LenProperties, ElementOfSeq
<1>2. s \in A
  BY DEF Seated
<1>3. ASSUME NEW x \in A, NEW i \in 1 .. n
      PROVE  one(x, i) \in A
  <2> DEFINE fence == LastFrame(queue, ended[i])
             next == one(x, i)
             none == [j \in {} |-> {}]
             G == Holders(x.pool)
  <2>1. fence \in Nat /\ next = FreeRequestBlocks(x, ended[i], TRUE, fence)
    BY LastFrameCovers DEF EndedOne
  <2>2. /\ x \in State /\ PendingKept(x) /\ Seated(x, G)
        /\ Counted(x) /\ Listed(x, G) /\ ended[i] \in Request
    BY <1>1
  <2>3. Rowed(none) /\ RowsKept(x, none) /\ Covers(none, ended[i], fence)
    BY DEF Rowed, RowsKept, Covers
  <2> HIDE DEF fence, next, none, G
  <2>4. next \in State /\ PendingKept(next) /\ Seated(next, G \ {ended[i]})
    BY <2>1, <2>2, <2>3, FreeRequestBlocksKeeps, Zenon
  <2>5. Counted(next) /\ Listed(next, G \ {ended[i]})
    BY <2>1, <2>2, FreeRequestBlocksPages, Zenon
  <2>6. Holders(next.pool) = G \ {ended[i]}
    BY <2>4 DEF Seated
  <2>7. next \in A
    BY <2>4, <2>5, <2>6, Zenon
  <2> HIDE DEF A
  <2> QED BY <2>7 DEF next
<1>4. PICK after : EndedBy(after, A, s, ended, queue)
  <2> HIDE DEF A
  <2>1. EndedIn(A, ended, queue)
    BY <1>3 DEF EndedIn
  <2>2. Len(ended) \in Nat /\ s \in A
    BY <1>1, <1>2
  <2> QED BY <2>1, <2>2, EndedRuns
<1>5. Ended(s, ended, queue) \in A
  <2>1. n \in 0 .. n
    BY <1>1
  <2> HIDE DEF A
  <2> QED BY <1>4, <2>1 DEF EndedBy
<1> QED BY <1>5

-----------------------------------------------------------------------------
\* The pages that requests take.

\* A page without a count is in no request's list and in no seat's.
LEMMA FreeUnlisted ==
  ASSUME NEW s \in State, Counted(s), NEW p \in Free(s.ref)
  PROVE  /\ \A r \in Request : p \notin Range(s.held[r])
         /\ \A i \in Seats : p \notin Range(s.pool.seat[i].blocks)
<1>1. /\ p \in Page /\ s.ref[p] = 0
      /\ IsFiniteSet(Having(s.held, p))
      /\ s.ref[p] = HowMany(s.held, p) + HowMany(KeptBy(s), p)
                      + HowMany(PendingBy(s), p) + HowMany(DeferredBy(s), p)
  BY DEF Counted, Free
<1>2. /\ HowMany(s.held, p) \in Nat /\ HowMany(KeptBy(s), p) \in Nat
      /\ HowMany(PendingBy(s), p) \in Nat /\ HowMany(DeferredBy(s), p) \in Nat
  BY <1>1, CountsAre
<1>3. HowMany(s.held, p) = 0 /\ HowMany(KeptBy(s), p) = 0
  <2> DEFINE a == HowMany(s.held, p)
             b == HowMany(KeptBy(s), p)
             c == HowMany(PendingBy(s), p)
             d == HowMany(DeferredBy(s), p)
  <2>1. a \in Nat /\ b \in Nat /\ c \in Nat /\ d \in Nat /\ 0 = a + b + c + d
    BY <1>1, <1>2
  <2> HIDE DEF a, b, c, d
  <2>2. a = 0 /\ b = 0
    BY <2>1
  <2> QED BY <2>2 DEF a, b
<1>4. DOMAIN s.held = Request /\ DOMAIN KeptBy(s) = Seats
  BY StateFacts DEF KeptBy
<1>5. IsFiniteSet(Having(KeptBy(s), p))
  BY <1>4, SeatAssumption, HavingFinite
<1>6. Having(s.held, p) = {} /\ Having(KeptBy(s), p) = {}
  BY <1>1, <1>3, <1>5, FS_EmptySet DEF HowMany
<1>7. \A i \in Seats : KeptBy(s)[i] = s.pool.seat[i].blocks
  BY DEF KeptBy
<1>8. \A i \in Seats : p \notin Range(KeptBy(s)[i])
  BY <1>4, <1>6 DEF Having
<1> QED BY <1>4, <1>6, <1>7, <1>8 DEF Having

LEMMA NewPagesFree ==
  ASSUME NEW held \in Seq(Page), NEW tokens \in Int, Fits(held, tokens)
  PROVE  /\ NewPages(held, tokens) \in Seq(Page) /\ Once(NewPages(held, tokens))
         /\ Range(NewPages(held, tokens)) \subseteq Free(st.ref)
<1> DEFINE a == Ascending(Free(st.ref))
           m == Cardinality(Free(st.ref))
           lack == Lacking(held, tokens + Drafts)
           pages == NewPages(held, tokens)
<1>1. Drafts \in Nat
  BY EngineAssumption
<1>2. PagesFor(tokens + Drafts) - Len(held) \in Int
  BY <1>1, PagesForType, LenProperties
<1>3. lack \in Int /\ lack <= m
  BY <1>2, MaxOfTwo DEF Lacking, Fits
<1>4. Free(st.ref) \in SUBSET Int /\ IsFiniteSet(Free(st.ref)) /\ Free(st.ref) \subseteq Page
  <2>1. \A p \in Page : p \in Int
    BY EngineAssumption
  <2>2. Free(st.ref) \in SUBSET Page /\ IsFiniteSet(Free(st.ref))
    BY FreePages
  <2> HIDE DEF m, a, lack
  <2> QED BY <2>1, <2>2
<1>5. /\ m \in Nat /\ a \in [1 .. m -> Free(st.ref)]
      /\ \A n, k \in 1 .. m : n < k => a[n] < a[k]
  BY <1>4, AscendingList
<1>6. pages = SubSeq(a, 1, lack)
  BY DEF NewPages
<1> HIDE DEF a, m, lack, pages
<1>7. a \in Seq(Page) /\ Len(a) = m /\ Range(a) \subseteq Free(st.ref)
  BY <1>4, <1>5 DEF Range
<1>8. Once(a)
  <2> SUFFICES ASSUME NEW i \in 1 .. m, NEW j \in 1 .. m, a[i] = a[j]
               PROVE  i = j
    BY <1>5 DEF Once
  <2>1. a[i] \in Int /\ a[j] \in Int /\ i \in Int /\ j \in Int
    BY <1>4, <1>5
  <2>2. ~(i < j) /\ ~(j < i)
    BY <1>5, <2>1
  <2> QED BY <2>1, <2>2
<1>9. pages \in Seq(Page) /\ Range(pages) \subseteq Range(a) /\ Once(pages)
  <2>1. lack <= Len(a)
    BY <1>3, <1>7
  <2>2. /\ pages \in Seq(Page)
        /\ Range(pages) \cup Range(SubSeq(a, Len(pages) + 1, Len(a))) = Range(a)
        /\ Once(a) => Once(pages)
    BY <1>3, <1>6, <1>7, <2>1, OnceSplit
  <2> QED BY <1>8, <2>2
<1> QED BY <1>7, <1>9 DEF pages

\* A list has a page once or not at all, so that two lists without a page in
\* common count it as the joined list does.
LEMMA JoinedHas ==
  ASSUME NEW T, NEW a \in Seq(T), NEW b \in Seq(T), Range(a) \cap Range(b) = {}, NEW p
  PROVE  Has(a \o b, p) = Has(a, p) + Has(b, p)
<1>1. Range(a \o b) = Range(a) \cup Range(b)
  BY OnceJoin
<1> QED BY <1>1 DEF Has

LEMMA HasIs ==
  ASSUME NEW list, NEW p
  PROVE  Has(list, p) \in {0, 1}
  BY DEF Has

\* A running request takes free pages.
LEMMA PagesAdded ==
  ASSUME NEW s \in State, NEW H, Listed(s, H), Counted(s),
         NEW r \in Request, r \in H, NEW pages \in Seq(Page), Once(pages),
         Range(pages) \subseteq Free(s.ref),
         NEW next, next.ref = Pinned(s.ref, pages), Altered(s.held, next.held, r),
         next.held[r] = s.held[r] \o pages,
         next.pool = s.pool, next.pending = s.pending, next.deferred = s.deferred
  PROVE  Counted(next) /\ Listed(next, H)
<1>1. /\ DOMAIN s.held = Request /\ s.held[r] \in Seq(Page)
      /\ \A x \in Request \ {r} : next.held[x] = s.held[x]
  BY StateFacts DEF Altered
<1>2. Range(s.held[r]) \cap Range(pages) = {}
  BY FreeUnlisted, Zenon
<1>3. Once(s.held[r] \o pages)
  BY <1>1, <1>2, OnceJoin DEF Listed
<1>4. Listed(next, H)
  BY <1>1, <1>3, Zenon DEF Listed
<1>5. ASSUME NEW p \in Page
      PROVE  /\ IsFiniteSet(Having(next.held, p))
             /\ next.ref[p] = HowMany(next.held, p) + HowMany(KeptBy(next), p)
                  + HowMany(PendingBy(next), p) + HowMany(DeferredBy(next), p)
  <2>1. /\ IsFiniteSet(Having(s.held, p))
        /\ s.ref[p] = HowMany(s.held, p) + HowMany(KeptBy(s), p)
                        + HowMany(PendingBy(s), p) + HowMany(DeferredBy(s), p)
    BY DEF Counted
  <2>2. /\ s.ref[p] \in Int /\ HowMany(s.held, p) \in Nat /\ HowMany(KeptBy(s), p) \in Nat
        /\ HowMany(PendingBy(s), p) \in Nat /\ HowMany(DeferredBy(s), p) \in Nat
    BY <2>1, CountsAre
  <2>3. KeptBy(next) = KeptBy(s) /\ PendingBy(next) = PendingBy(s)
        /\ DeferredBy(next) = DeferredBy(s)
    BY DEF KeptBy, PendingBy, DeferredBy
  <2>4. next.ref[p] = s.ref[p] + Has(pages, p)
    <3>1. s.ref \in [Page -> Int]
      BY StateFacts
    <3>2. Pinned(s.ref, pages)[p] = s.ref[p] + Has(pages, p)
      BY <3>1, PinnedAt
    <3> QED BY <3>2
  <2>5. /\ IsFiniteSet(Having(next.held, p))
        /\ HowMany(next.held, p) = HowMany(s.held, p) - Has(s.held[r], p) + Has(next.held[r], p)
    <3> DEFINE old == s.held
               new == next.held
    <3>1. r \in DOMAIN old /\ Altered(old, new, r) /\ IsFiniteSet(Having(old, p))
      BY <1>1, <2>1
    <3> HIDE DEF old, new
    <3>2. /\ IsFiniteSet(Having(new, p))
          /\ HowMany(new, p) = HowMany(old, p) - Has(old[r], p) + Has(new[r], p)
      BY <3>1, HeldCount
    <3> QED BY <3>2 DEF old, new
  <2>6. /\ Has(next.held[r], p) = Has(s.held[r], p) + Has(pages, p)
        /\ Has(s.held[r], p) \in {0, 1} /\ Has(pages, p) \in {0, 1}
    <3> DEFINE a == s.held[r]
    <3>1. a \in Seq(Page) /\ Range(a) \cap Range(pages) = {}
      BY <1>1, <1>2
    <3> HIDE DEF a
    <3>2. Has(a \o pages, p) = Has(a, p) + Has(pages, p)
      BY <3>1, JoinedHas
    <3>3. next.held[r] = a \o pages
      BY DEF a
    <3>4. Has(a, p) \in {0, 1} /\ Has(pages, p) \in {0, 1}
      BY HasIs
    <3> QED BY <3>2, <3>3, <3>4 DEF a
  <2> QED BY <2>1, <2>2, <2>3, <2>4, <2>5, <2>6
<1> QED BY <1>4, <1>5 DEF Counted

\* An idle seat gives its pages back.
LEMMA SeatEmptied ==
  ASSUME NEW s \in State, NEW H, Listed(s, H), Counted(s), NEW i \in Seats,
         NEW next, next.ref = Unpinned(s.ref, s.pool.seat[i].blocks),
         next.pool.seat[i].blocks = <<>>,
         \A j \in Seats \ {i} : next.pool.seat[j] = s.pool.seat[j],
         next.held = s.held, next.pending = s.pending, next.deferred = s.deferred
  PROVE  Counted(next) /\ Listed(next, H)
<1>1. \A j \in Seats \ {i} : next.pool.seat[j].blocks = s.pool.seat[j].blocks
  OBVIOUS
<1>2. Listed(next, H)
  <2>1. Once(<<>>)
    BY DEF Once
  <2>2. \A k \in DOMAIN s.pending : k.seat \in Seats
    BY PendingSeats
  <2>3. \A j \in Seats : \/ next.pool.seat[j].blocks = <<>>
                         \/ next.pool.seat[j].blocks = s.pool.seat[j].blocks
    BY <1>1
  <2> QED BY <2>1, <2>2, <2>3 DEF Listed
<1>3. ASSUME NEW p \in Page
      PROVE  /\ IsFiniteSet(Having(next.held, p))
             /\ next.ref[p] = HowMany(next.held, p) + HowMany(KeptBy(next), p)
                  + HowMany(PendingBy(next), p) + HowMany(DeferredBy(next), p)
  <2>1. /\ IsFiniteSet(Having(s.held, p))
        /\ s.ref[p] = HowMany(s.held, p) + HowMany(KeptBy(s), p)
                        + HowMany(PendingBy(s), p) + HowMany(DeferredBy(s), p)
    BY DEF Counted
  <2>2. /\ s.ref[p] \in Int /\ HowMany(s.held, p) \in Nat /\ HowMany(KeptBy(s), p) \in Nat
        /\ HowMany(PendingBy(s), p) \in Nat /\ HowMany(DeferredBy(s), p) \in Nat
    BY <2>1, CountsAre
  <2>3. PendingBy(next) = PendingBy(s) /\ DeferredBy(next) = DeferredBy(s)
    BY DEF PendingBy, DeferredBy
  <2> DEFINE list == s.pool.seat[i].blocks
  <2>4. next.ref[p] = s.ref[p] - Has(list, p)
    <3>1. s.ref \in [Page -> Int]
      BY StateFacts
    <3>2. Unpinned(s.ref, list)[p] = s.ref[p] - Has(list, p)
      BY <3>1, PinnedAt
    <3> QED BY <3>2
  <2>5. HowMany(KeptBy(next), p) = HowMany(KeptBy(s), p) - Has(list, p) + 0
    BY <1>1, HasNone, SeatCount
  <2>6. Has(list, p) \in {0, 1}
    BY HasIs
  <2> HIDE DEF list
  <2> QED BY <2>1, <2>2, <2>3, <2>4, <2>5, <2>6
<1> QED BY <1>2, <1>3 DEF Counted

\* The request r takes over the pages `hit` of the seat i, and others.
TakesOver(s, next, r, i, hit, pages) ==
  /\ hit = s.pool.seat[i].blocks
  /\ next.ref = Unpinned(Pinned(Pinned(s.ref, hit), pages), hit)
  /\ Altered(s.held, next.held, r)
  /\ next.held[r] = hit \o pages
  /\ next.pool.seat[i].blocks = <<>>
  /\ \A j \in Seats \ {i} : next.pool.seat[j] = s.pool.seat[j]
  /\ next.pending = s.pending
  /\ next.deferred = s.deferred

\* A request that is admitted takes over the pages of its seat, and free ones.
LEMMA PagesTransferred ==
  ASSUME NEW s \in State, NEW H, Listed(s, H), Counted(s),
         NEW r \in Request, r \notin H, NEW i \in Seats,
         NEW pages \in Seq(Page), Once(pages), Range(pages) \subseteq Free(s.ref),
         NEW hit, NEW next, TakesOver(s, next, r, i, hit, pages)
  PROVE  Counted(next) /\ Listed(next, H \cup {r})
<1>0. /\ hit = s.pool.seat[i].blocks
      /\ next.ref = Unpinned(Pinned(Pinned(s.ref, hit), pages), hit)
      /\ Altered(s.held, next.held, r) /\ next.held[r] = hit \o pages
      /\ next.pool.seat[i].blocks = <<>>
      /\ \A j \in Seats \ {i} : next.pool.seat[j] = s.pool.seat[j]
      /\ next.pending = s.pending /\ next.deferred = s.deferred
  BY DEF TakesOver
<1>1. /\ DOMAIN s.held = Request /\ s.held[r] = <<>> /\ hit \in Seq(Page)
      /\ \A x \in Request \ {r} : next.held[x] = s.held[x]
      /\ Once(hit)
  BY <1>0, StateFacts, PoolFacts DEF Altered, Listed
<1>2. Range(hit) \cap Range(pages) = {}
  BY <1>0, FreeUnlisted, Zenon
<1>3. Once(hit \o pages)
  BY <1>1, <1>2, OnceJoin
<1>4. \A j \in Seats \ {i} : next.pool.seat[j].blocks = s.pool.seat[j].blocks
  BY <1>0
<1>5. Listed(next, H \cup {r})
  <2>1. Once(<<>>)
    BY DEF Once
  <2>2. \A k \in DOMAIN s.pending : k.seat \in Seats
    BY PendingSeats
  <2>3. \A j \in Seats : \/ next.pool.seat[j].blocks = <<>>
                         \/ next.pool.seat[j].blocks = s.pool.seat[j].blocks
    BY <1>0, <1>4
  <2>4. \A x \in Request : \/ x = r /\ Once(next.held[x])
                           \/ next.held[x] = s.held[x] /\ x # r
    BY <1>0, <1>1, <1>3, Zenon
  <2> QED BY <1>0, <2>1, <2>2, <2>3, <2>4 DEF Listed
<1>6. ASSUME NEW p \in Page
      PROVE  /\ IsFiniteSet(Having(next.held, p))
             /\ next.ref[p] = HowMany(next.held, p) + HowMany(KeptBy(next), p)
                  + HowMany(PendingBy(next), p) + HowMany(DeferredBy(next), p)
  <2>1. /\ IsFiniteSet(Having(s.held, p))
        /\ s.ref[p] = HowMany(s.held, p) + HowMany(KeptBy(s), p)
                        + HowMany(PendingBy(s), p) + HowMany(DeferredBy(s), p)
    BY DEF Counted
  <2>2. /\ s.ref[p] \in Int /\ HowMany(s.held, p) \in Nat /\ HowMany(KeptBy(s), p) \in Nat
        /\ HowMany(PendingBy(s), p) \in Nat /\ HowMany(DeferredBy(s), p) \in Nat
    BY <2>1, CountsAre
  <2>3. PendingBy(next) = PendingBy(s) /\ DeferredBy(next) = DeferredBy(s)
    BY <1>0 DEF PendingBy, DeferredBy
  <2>4. Has(hit, p) \in {0, 1} /\ Has(pages, p) \in {0, 1}
    BY HasIs
  <2>5. next.ref[p] = s.ref[p] + Has(hit, p) + Has(pages, p) - Has(hit, p)
    <3> DEFINE first == Pinned(s.ref, hit)
               second == Pinned(first, pages)
    <3>1. first \in [Page -> Int] /\ first[p] = s.ref[p] + Has(hit, p)
      <4>1. s.ref \in [Page -> Int]
        BY StateFacts
      <4> QED BY <4>1, PinnedType, PinnedAt, Zenon
    <3> HIDE DEF first
    <3>2. second \in [Page -> Int] /\ second[p] = first[p] + Has(pages, p)
      BY <3>1, PinnedType, PinnedAt
    <3> HIDE DEF second
    <3>3. Unpinned(second, hit)[p] = second[p] - Has(hit, p)
      BY <3>2, PinnedAt
    <3>4. next.ref = Unpinned(second, hit)
      BY <1>0 DEF second, first
    <3>5. next.ref[p] = second[p] - Has(hit, p)
      BY <3>3, <3>4
    <3>6. second[p] = s.ref[p] + Has(hit, p) + Has(pages, p)
      BY <3>1, <3>2
    <3> DEFINE a == s.ref[p]
               b == Has(hit, p)
               c == Has(pages, p)
               d == second[p]
    <3>7. a \in Int /\ b \in Int /\ c \in Int /\ d = a + b + c
      BY <2>2, <2>4, <3>6
    <3>8. next.ref[p] = d - b
      BY <3>5
    <3> HIDE DEF a, b, c, d
    <3>9. d - b = a + b + c - b
      BY <3>7
    <3> QED BY <3>8, <3>9 DEF a, b, c
  <2>6. HowMany(KeptBy(next), p) = HowMany(KeptBy(s), p) - Has(hit, p) + 0
    <3>1. HowMany(KeptBy(next), p) = HowMany(KeptBy(s), p)
            - Has(s.pool.seat[i].blocks, p) + Has(next.pool.seat[i].blocks, p)
      BY <1>4, SeatCount
    <3> QED BY <1>0, <3>1, HasNone
  <2>7. /\ IsFiniteSet(Having(next.held, p))
        /\ HowMany(next.held, p) = HowMany(s.held, p) - 0 + Has(next.held[r], p)
    <3>1. /\ IsFiniteSet(Having(next.held, p))
          /\ HowMany(next.held, p) = HowMany(s.held, p) - Has(s.held[r], p) + Has(next.held[r], p)
      <4> DEFINE old == s.held
                 new == next.held
      <4>1. r \in DOMAIN old /\ Altered(old, new, r) /\ IsFiniteSet(Having(old, p))
        BY <1>0, <1>1, <2>1
      <4> HIDE DEF old, new
      <4>2. /\ IsFiniteSet(Having(new, p))
            /\ HowMany(new, p) = HowMany(old, p) - Has(old[r], p) + Has(new[r], p)
        BY <4>1, HeldCount
      <4> QED BY <4>2 DEF old, new
    <3> QED BY <1>1, <3>1, HasNone
  <2>8. Has(next.held[r], p) = Has(hit, p) + Has(pages, p)
    BY <1>0, <1>1, <1>2, JoinedHas
  <2> QED BY <2>1, <2>2, <2>3, <2>4, <2>5, <2>6, <2>7, <2>8
<1> QED BY <1>5, <1>6 DEF Counted

-----------------------------------------------------------------------------
\* The invariant of the pages.

\* The seat of a cold offer has no pages when its request is admitted.
ColdKept ==
  attempt.phase = "allocate" /\ ~st.offers[Candidate].warm
    => st.pool.seat[st.offers[Candidate].seat].blocks = <<>>

PagesInv ==
  /\ Counted(st)
  /\ Listed(st, Range(running))
  /\ ColdKept

LEMMA InvFacts ==
  ASSUME Inv, PagesInv
  PROVE  /\ st \in State /\ Seated(st, Range(running)) /\ PendingKept(st)
         /\ Listed(st, Range(running)) /\ Counted(st)
  BY DEF Inv, Typed, PagesInv

LEMMA InitPages ==
  ASSUME Init
  PROVE  PagesInv
<1>1. /\ st = [pool |-> NewPool, frontiers |-> <<>>, pending |-> <<>>,
               offers |-> [r \in Request |-> NoOffer],
               ref |-> [p \in Page |-> 0], held |-> [r \in Request |-> <<>>],
               deferred |-> <<>>]
      /\ attempt = Resting
  BY DEF Init
<1>2. DOMAIN <<>> = {} /\ \A i \in Seats : NewPool.seat[i].blocks = <<>>
  BY EmptyPartial, NewPoolType DEF EmptySeat
<1>3. /\ \A i \in Seats : st.pool.seat[i].blocks = <<>>
      /\ DOMAIN st.pending = {} /\ DOMAIN st.deferred = {}
      /\ DOMAIN st.held = Request /\ \A r \in Request : st.held[r] = <<>>
      /\ \A p \in Page : st.ref[p] = 0
  BY <1>1, <1>2
<1>4. Once(<<>>)
  BY <1>2 DEF Once
<1>5. Listed(st, Range(running))
  BY <1>3, <1>4 DEF Listed
<1>6. ASSUME NEW p \in Page
      PROVE  /\ IsFiniteSet(Having(st.held, p)) /\ HowMany(st.held, p) = 0
             /\ HowMany(KeptBy(st), p) = 0
             /\ HowMany(PendingBy(st), p) = 0
             /\ HowMany(DeferredBy(st), p) = 0
  <2>1. /\ \A r \in DOMAIN st.held : st.held[r] = <<>>
        /\ \A i \in DOMAIN KeptBy(st) : KeptBy(st)[i] = <<>>
        /\ DOMAIN PendingBy(st) = {} /\ DOMAIN DeferredBy(st) = {}
    BY <1>3 DEF KeptBy, PendingBy, DeferredBy
  <2>2. IsFiniteSet(Having(st.held, p)) /\ HowMany(st.held, p) = 0
    BY <2>1, NoLists
  <2>3. HowMany(KeptBy(st), p) = 0
    BY <2>1, NoLists
  <2>4. HowMany(PendingBy(st), p) = 0
    BY <2>1, NoLists
  <2>5. HowMany(DeferredBy(st), p) = 0
    BY <2>1, NoLists
  <2> QED BY <2>2, <2>3, <2>4, <2>5
<1>7. Counted(st)
  BY <1>3, <1>6 DEF Counted
<1>8. ColdKept
  BY <1>1 DEF ColdKept, Resting
<1> QED BY <1>5, <1>7, <1>8 DEF PagesInv

\* Steps that leave the seats and the pages alone and offer no seat.
LEMMA SameStatePages ==
  ASSUME PagesInv, st' = st, running' = running, attempt'.phase # "allocate"
  PROVE  PagesInv'
  BY DEF PagesInv, ColdKept

LEMMA QueueFramePages ==
  ASSUME PagesInv, QueueFrame
  PROVE  PagesInv'
<1>1. PICK phase \in {"idle", "collect"} : attempt' = [Resting EXCEPT !.phase = phase]
  BY DEF QueueFrame
<1>2. attempt'.phase = phase
  BY <1>1 DEF Resting
<1> QED BY <1>2, SameStatePages DEF QueueFrame

LEMMA RestPages ==
  ASSUME PagesInv, UNCHANGED vars
  PROVE  PagesInv'
<1>1. UNCHANGED <<st, req, running, waiting, frames, ring, attempt>>
  BY DEF vars
<1>2. Candidate' = Candidate
  BY <1>1 DEF Candidate, Queued, Granted
<1> QED BY <1>1, <1>2 DEF PagesInv, ColdKept

\* A request that is aborted or preempted.
LEMMA LeavingPages ==
  ASSUME Inv, PagesInv, NEW r \in Request, NEW fence \in Nat,
         st' = FreeRequestBlocks(st, r, FALSE, fence),
         Range(running') = Range(running) \ {r}, attempt'.phase # "allocate"
  PROVE  PagesInv'
<1> DEFINE next == FreeRequestBlocks(st, r, FALSE, fence)
<1>1. /\ st \in State /\ Seated(st, Range(running)) /\ PendingKept(st)
      /\ Listed(st, Range(running)) /\ Counted(st)
  BY InvFacts
<1>2. Counted(next) /\ Listed(next, Range(running) \ {r})
  BY <1>1, FreeRequestBlocksPages, Zenon
<1>3. st' = next
  OBVIOUS
<1> HIDE DEF next
<1> QED BY <1>2, <1>3, Zenon DEF PagesInv, ColdKept

LEMMA AbortPages ==
  ASSUME Inv, PagesInv, NEW r \in Request, Abort(r)
  PROVE  PagesInv'
<1>1. /\ running \in Seq(Request) /\ frames \in Seq(Range(frames))
  BY TypedFacts DEF Inv
<1>2. /\ attempt' = attempt /\ attempt.phase = "idle" /\ running' = Without(running, r)
      /\ st' = FreeRequestBlocks(st, r, FALSE, LastFrame(frames, r))
  BY DEF Abort, Idle
<1>3. Range(running') = Range(running) \ {r}
  BY <1>1, <1>2, WithoutMembers
<1>4. LastFrame(frames, r) \in Nat
  BY <1>1, LastFrameCovers
<1> QED BY <1>2, <1>3, <1>4, LeavingPages, Zenon

LEMMA PreemptLastPages ==
  ASSUME Inv, PagesInv, PreemptLast
  PROVE  PagesInv'
<1> DEFINE r == Last(running)
<1>1. /\ running \in Seq(Request) /\ frames \in Seq(Range(frames)) /\ Once(running)
      /\ Typed /\ AttemptKept /\ attempt.next \in Nat /\ Len(running) \in Nat
  BY TypedFacts DEF Inv, Placed
<1>2. /\ attempt' = [attempt EXCEPT !.preempted = TRUE] /\ Serving
      /\ running' = Front(running)
      /\ st' = FreeRequestBlocks(st, r, FALSE, LastFrame(frames, r))
  BY DEF PreemptLast
<1>3. attempt'.phase = "schedule"
  <2>1. attempt \in [phase : Phases, next : Nat, rows : {attempt.rows}, left : Int,
                     grants : Partial(Request, Int), preempted : BOOLEAN]
    BY <1>1 DEF Typed
  <2> QED BY <1>2, <2>1 DEF Serving
<1>4. running # <<>>
  <2>1. Min(ToServe) \in attempt.next .. Len(running) /\ attempt.next >= 1
    BY <1>1, <1>2, ServedOne DEF AttemptKept
  <2>2. Len(running) # 0
    BY <1>1, <2>1
  <2> QED BY <2>2, EmptySeq
<1>5. r \in Request /\ Range(running') = Range(running) \ {r}
  BY <1>1, <1>2, <1>4, FrontList
<1>6. LastFrame(frames, r) \in Nat
  BY <1>1, LastFrameCovers
<1> HIDE DEF r
<1> QED BY <1>2, <1>3, <1>5, <1>6, LeavingPages, Zenon

\* A hot seat that is evicted.
LEMMA EvictHotPages ==
  ASSUME Inv, PagesInv, NEW exclude, EvictHot(exclude)
  PROVE  Counted(st') /\ Listed(st', Range(running))
<1> DEFINE i == Head(Evictable(st.pool, exclude))
           pool == Evicted(st.pool, i)
           ref == Unpinned(st.ref, st.pool.seat[i].blocks)
<1>1. /\ Evictable(st.pool, exclude) # <<>>
      /\ st' = [st EXCEPT !.pool = pool, !.ref = ref]
  BY DEF EvictHot
<1>2. /\ st \in State /\ st.pool \in Pool
      /\ Listed(st, Range(running)) /\ Counted(st)
  BY InvFacts, StateFacts
<1>3. i \in Seats
  BY <1>1, <1>2, VictimOf
<1> HIDE DEF i
<1>4. /\ pool.seat[i].blocks = <<>>
      /\ \A j \in Seats \ {i} : pool.seat[j] = st.pool.seat[j]
  BY <1>2, <1>3, EvictedFields
<1>5. ref = Unpinned(st.ref, st.pool.seat[i].blocks)
  OBVIOUS
<1> HIDE DEF pool, ref
<1>6. /\ st'.pool = pool /\ st'.ref = ref /\ st'.held = st.held
      /\ st'.pending = st.pending /\ st'.deferred = st.deferred
  BY <1>1, <1>2 DEF State
<1> DEFINE next == st'
<1>7. /\ next.ref = Unpinned(st.ref, st.pool.seat[i].blocks)
      /\ next.pool.seat[i].blocks = <<>>
      /\ \A j \in Seats \ {i} : next.pool.seat[j] = st.pool.seat[j]
      /\ next.held = st.held /\ next.pending = st.pending /\ next.deferred = st.deferred
  BY <1>4, <1>5, <1>6
<1> HIDE DEF next
<1>8. Counted(next) /\ Listed(next, Range(running))
  BY <1>2, <1>3, <1>7, SeatEmptied
<1> QED BY <1>8 DEF next

LEMMA EvictForRunningPages ==
  ASSUME Inv, PagesInv, EvictForRunning
  PROVE  PagesInv'
<1>1. EvictHot({}) /\ attempt' = attempt /\ running' = running /\ attempt.phase = "schedule"
  BY DEF EvictForRunning, Serving
<1>2. Counted(st') /\ Listed(st', Range(running))
  BY <1>1, EvictHotPages
<1> QED BY <1>1, <1>2 DEF PagesInv, ColdKept

LEMMA EvictForWaitingPages ==
  ASSUME Inv, PagesInv, EvictForWaiting
  PROVE  PagesInv'
<1>1. Typed /\ Queued # <<>> /\ OfferKept(Candidate)
  BY DEF Inv, EvictForWaiting, AttemptKept
<1>2. Candidate \in Request
  BY <1>1, CandidateIs
<1> SUFFICES ASSUME NEW r \in Request, r = Candidate
             PROVE  PagesInv'
  BY <1>2
<1> DEFINE offer == st.offers[r]
<1>3. EvictHot({offer.seat}) /\ UNCHANGED <<req, running, waiting, attempt>>
  BY DEF EvictForWaiting
<1>4. Counted(st') /\ Listed(st', Range(running))
  BY <1>3, EvictHotPages
<1>5. offer.seat \in Seats
  BY <1>1 DEF OfferKept, OfferGood, OfferState
<1>6. st'.offers = st.offers /\ st'.pool.seat[offer.seat] = st.pool.seat[offer.seat]
  BY <1>3, <1>5, EvictHotFields
<1>7. Candidate' = r
  BY <1>3 DEF Candidate, Queued, Granted
<1>8. ColdKept'
  BY <1>3, <1>6, <1>7 DEF PagesInv, ColdKept
<1> QED BY <1>3, <1>4, <1>8 DEF PagesInv

\* A running request takes the pages of its next tokens.
LEMMA ScheduleRunningPages ==
  ASSUME Inv, PagesInv, ScheduleRunning
  PROVE  PagesInv'
<1> DEFINE r == Served
           n == Query(r)
           pages == NewPages(st.held[r], req[r].computed + n)
           p == Min(ToServe)
           held == [st.held EXCEPT ![r] = @ \o pages]
           ref == Pinned(st.ref, pages)
<1>1. /\ Serving
      /\ Fits(st.held[r], req[r].computed + n)
      /\ st' = [st EXCEPT !.held = held, !.ref = ref]
      /\ attempt'.phase = attempt.phase
      /\ running' = running
  <2>1. attempt'.phase = attempt.phase
    BY TypedFacts DEF Inv, Typed, ScheduleRunning
  <2> QED BY <2>1 DEF ScheduleRunning
<1>2. /\ Typed /\ Placed /\ AttemptKept
  BY DEF Inv
<1>3. /\ p \in attempt.next .. Len(running) /\ r = running[p] /\ attempt.next \in Nat
      /\ attempt.next >= 1 /\ Len(running) \in Nat /\ DOMAIN running = 1 .. Len(running)
  BY <1>1, <1>2, ServedOne, TypedFacts DEF AttemptKept
<1>4. r \in Range(running) /\ r \in Request
  BY <1>2, <1>3, TypedFacts DEF Range
<1>5. /\ st \in State /\ st.held \in [Request -> Seq(Page)]
      /\ Listed(st, Range(running)) /\ Counted(st)
  BY InvFacts, StateFacts
<1>6. n \in Int /\ req[r].computed \in Int
  BY <1>2, <1>4, CountsType
<1>7. pages \in Seq(Page) /\ Once(pages) /\ Range(pages) \subseteq Free(st.ref)
  <2> DEFINE old == st.held[r]
             tokens == req[r].computed + n
  <2>1. old \in Seq(Page) /\ tokens \in Int /\ Fits(old, tokens)
    BY <1>1, <1>4, <1>5, <1>6
  <2>2. pages = NewPages(old, tokens)
    OBVIOUS
  <2> HIDE DEF old, tokens, pages
  <2> QED BY <2>1, <2>2, NewPagesFree
<1> HIDE DEF r, n, p, pages
<1>8. held[r] = st.held[r] \o pages /\ Altered(st.held, held, r)
  BY <1>4, <1>5 DEF Altered
<1>9. ref = Pinned(st.ref, pages)
  OBVIOUS
<1> HIDE DEF held, ref
<1>10. /\ st'.pool = st.pool /\ st'.ref = ref /\ st'.held = held
       /\ st'.pending = st.pending /\ st'.deferred = st.deferred
  BY <1>1, <1>5 DEF State
<1> DEFINE next == st'
<1>11. /\ next.ref = Pinned(st.ref, pages) /\ Altered(st.held, next.held, r)
       /\ next.held[r] = st.held[r] \o pages
       /\ next.pool = st.pool /\ next.pending = st.pending /\ next.deferred = st.deferred
  BY <1>8, <1>9, <1>10
<1> HIDE DEF next
<1>12. Counted(next) /\ Listed(next, Range(running))
  BY <1>4, <1>5, <1>7, <1>11, PagesAdded, Zenon
<1>13. attempt'.phase = "schedule" /\ running' = running
  BY <1>1 DEF Serving
<1> QED BY <1>12, <1>13 DEF PagesInv, ColdKept, next

\* All checkpoints are forgotten.
LEMMA ResetPrefixCachePages ==
  ASSUME Inv, PagesInv, ResetPrefixCache
  PROVE  PagesInv'
<1> DEFINE pool == Invalidated(st.pool)
           hot == [i \in Hot(st.pool) |-> st.pool.seat[i].blocks]
           rest == [i \in Seats \ Hot(st.pool) |-> st.pool.seat[i].blocks]
           ref == UnpinnedEach(st.ref, hot)
           front == [k \in DOMAIN st.frontiers |->
                       IF k \in DOMAIN st.pending THEN Lost(st.frontiers[k])
                       ELSE st.frontiers[k]]
           H == Range(running)
<1>1. /\ attempt.phase = "idle"
      /\ st' = [st EXCEPT !.pool = pool, !.ref = ref, !.frontiers = front]
      /\ running' = running /\ attempt' = attempt
  BY DEF ResetPrefixCache, Idle
<1>2. /\ st \in State /\ Seated(st, H) /\ Listed(st, H) /\ Counted(st)
      /\ st.pool \in Pool /\ st.ref \in [Page -> Int]
  BY InvFacts, StateFacts
<1>3. \A i \in Seats \ Hot(st.pool) : st.pool.seat[i].blocks = <<>>
  BY <1>2 DEF Hot, Seated
<1>4. \A i \in Seats : pool.seat[i].blocks = <<>>
  <2>1. /\ \A i \in Seats : /\ pool.seat[i].owner = st.pool.seat[i].owner
                            /\ pool.seat[i].owner = Nobody => pool.seat[i].blocks = <<>>
                            /\ pool.seat[i].owner # Nobody => pool.seat[i] = st.pool.seat[i]
    BY <1>2, InvalidatedFields
  <2> HIDE DEF pool
  <2> QED BY <1>2, <2>1 DEF Seated
<1>5. ref = UnpinnedEach(st.ref, hot)
  OBVIOUS
<1>6. DOMAIN KeptBy(st) = Seats /\ InTwo(KeptBy(st), hot, rest)
  <2>1. Hot(st.pool) \subseteq Seats
    BY DEF Hot
  <2> QED BY <2>1 DEF KeptBy, InTwo
<1>7. \A i \in DOMAIN rest : rest[i] = <<>>
  BY <1>3
<1> HIDE DEF pool, hot, rest, ref, front
<1> DEFINE next == st'
<1>8. /\ next.pool = pool /\ next.ref = ref /\ next.held = st.held
      /\ next.pending = st.pending /\ next.deferred = st.deferred
  BY <1>1, <1>2 DEF State
<1> HIDE DEF next
<1>9. Listed(next, H)
  <2>1. Once(<<>>)
    BY EmptyPartial DEF Once
  <2>2. \A k \in DOMAIN st.pending : k.seat \in Seats
    BY <1>2, PendingSeats
  <2> QED BY <1>2, <1>4, <1>8, <2>1, <2>2 DEF Listed
<1>10. ASSUME NEW p \in Page
       PROVE  /\ IsFiniteSet(Having(next.held, p))
              /\ next.ref[p] = HowMany(next.held, p) + HowMany(KeptBy(next), p)
                   + HowMany(PendingBy(next), p) + HowMany(DeferredBy(next), p)
  <2>1. /\ IsFiniteSet(Having(st.held, p))
        /\ st.ref[p] = HowMany(st.held, p) + HowMany(KeptBy(st), p)
                         + HowMany(PendingBy(st), p) + HowMany(DeferredBy(st), p)
    BY <1>2 DEF Counted
  <2>2. /\ st.ref[p] \in Int /\ HowMany(st.held, p) \in Nat /\ HowMany(KeptBy(st), p) \in Nat
        /\ HowMany(PendingBy(st), p) \in Nat /\ HowMany(DeferredBy(st), p) \in Nat
    BY <1>2, <2>1, CountsAre
  <2>3. PendingBy(next) = PendingBy(st) /\ DeferredBy(next) = DeferredBy(st)
    BY <1>8 DEF PendingBy, DeferredBy
  <2>4. /\ HowMany(hot, p) \in Nat /\ HowMany(rest, p) \in Nat
        /\ HowMany(KeptBy(st), p) = HowMany(hot, p) + HowMany(rest, p)
    BY <1>6, SeatAssumption, SplitLists
  <2>5. HowMany(rest, p) = 0
    BY <1>7, NoLists
  <2>6. HowMany(KeptBy(next), p) = 0
    <3> DEFINE all == KeptBy(next)
    <3>1. \A i \in DOMAIN all : all[i] = <<>>
      BY <1>4, <1>8 DEF KeptBy
    <3> HIDE DEF all
    <3>2. HowMany(all, p) = 0
      BY <3>1, NoLists
    <3> QED BY <3>2 DEF all
  <2>7. next.ref[p] = st.ref[p] - HowMany(hot, p)
    <3>1. UnpinnedEach(st.ref, hot)[p] = st.ref[p] - HowMany(hot, p)
      BY <1>2, UnpinnedEachAt
    <3> QED BY <1>5, <1>8, <3>1
  <2> DEFINE a == HowMany(st.held, p)
             b == HowMany(KeptBy(st), p)
             c == HowMany(PendingBy(st), p)
             d == HowMany(DeferredBy(st), p)
             h == HowMany(hot, p)
             x == st.ref[p]
  <2>8. /\ a \in Int /\ b \in Int /\ c \in Int /\ d \in Int /\ h \in Int
        /\ x = a + b + c + d /\ b = h
    BY <2>1, <2>2, <2>4, <2>5
  <2>9. next.ref[p] = x - h
    BY <2>7
  <2> HIDE DEF a, b, c, d, h, x
  <2>10. x - h = a + 0 + c + d
    BY <2>8
  <2> QED BY <1>8, <2>1, <2>3, <2>6, <2>9, <2>10 DEF a, c, d
<1>11. Counted(next)
  BY <1>10 DEF Counted
<1> QED BY <1>1, <1>9, <1>11 DEF PagesInv, ColdKept, next

\* A seat is offered; a cold one loses its checkpoint.
LEMMA ConsiderWaitingPages ==
  ASSUME Inv, PagesInv, ConsiderWaiting
  PROVE  PagesInv'
<1>3. Typed /\ Queued # <<>> /\ Candidate \in Request
  BY CandidateIs DEF Inv, ConsiderWaiting, Admitting
<1> SUFFICES ASSUME NEW r \in Request, r = Candidate
             PROVE  PagesInv'
  BY <1>3
<1> DEFINE offer == OfferFor(r)
           i == offer.seat
           pool == IF offer.warm THEN st.pool ELSE Discard(st.pool, offer)
           ref == IF offer.warm THEN st.ref ELSE Unpinned(st.ref, st.pool.seat[i].blocks)
           new == [offer EXCEPT !.epoch = pool.seat[i].epoch]
           offers == [st.offers EXCEPT ![r] = new]
           H == Range(running)
<1>1. /\ offer # NoOffer
      /\ st' = [st EXCEPT !.pool = pool, !.ref = ref, !.offers = offers]
      /\ attempt' = [attempt EXCEPT !.phase = "allocate"]
      /\ UNCHANGED <<req, running, waiting>>
  BY DEF ConsiderWaiting, Admitting
<1>2. /\ st \in State /\ st.pool \in Pool /\ Listed(st, H) /\ Counted(st)
      /\ st.offers \in [Request -> OfferState \cup {NoOffer}]
  BY InvFacts, StateFacts
<1>4. offer \in OfferState
  <2>1. AllTokens(r) \in Seq(Token)
    BY <1>3, TokensType
  <2>2. OfferGood(st.pool, offer, AllTokens(r))
    BY <1>1, <1>2, <2>1, OfferedGood DEF OfferFor
  <2> QED BY <2>2 DEF OfferGood
<1>5. Candidate' = r
  <2>1. attempt'.grants = attempt.grants
    BY <1>1, <1>3 DEF Typed
  <2> QED BY <1>1, <2>1, Zenon DEF Candidate, Queued, Granted
<1> HIDE DEF offer
<1>6. i \in Seats /\ offer.warm \in BOOLEAN
  BY <1>4 DEF OfferState
<1>7. /\ offer.warm => pool = st.pool /\ ref = st.ref
      /\ ~offer.warm => /\ pool.seat[i].blocks = <<>>
                        /\ \A j \in Seats \ {i} : pool.seat[j] = st.pool.seat[j]
                        /\ ref = Unpinned(st.ref, st.pool.seat[i].blocks)
  BY <1>2, <1>4, DiscardFields
<1> HIDE DEF pool, ref
<1>8. new.seat = i /\ new.warm = offer.warm
  BY <1>4 DEF OfferState
<1> HIDE DEF new
<1>9. offers[r] = new
  BY <1>2
<1> HIDE DEF offers
<1> DEFINE next == st'
<1>10. /\ next.pool = pool /\ next.ref = ref /\ next.held = st.held
       /\ next.offers = offers
       /\ next.pending = st.pending /\ next.deferred = st.deferred
  BY <1>1, <1>2 DEF State
<1> HIDE DEF next
<1>11. Counted(next) /\ Listed(next, H)
  <2>1. CASE offer.warm
    <3>1. /\ next.ref = st.ref
          /\ \A j \in Seats : next.pool.seat[j].blocks = st.pool.seat[j].blocks
      BY <1>7, <1>10, <2>1
    <3>2. \A k \in DOMAIN st.pending : k.seat \in Seats
      BY <1>2, PendingSeats
    <3> QED BY <1>2, <1>10, <3>1, <3>2, SamePages
  <2>2. CASE ~offer.warm
    <3>1. /\ next.ref = Unpinned(st.ref, st.pool.seat[i].blocks)
          /\ next.pool.seat[i].blocks = <<>>
          /\ \A j \in Seats \ {i} : next.pool.seat[j] = st.pool.seat[j]
      BY <1>7, <1>10, <2>2
    <3> QED BY <1>2, <1>6, <1>10, <3>1, SeatEmptied
  <2> QED BY <2>1, <2>2
<1>12. ColdKept'
  <2>1. next.offers[r].seat = i /\ next.offers[r].warm = offer.warm
    BY <1>8, <1>9, <1>10
  <2>2. ~offer.warm => next.pool.seat[i].blocks = <<>>
    BY <1>7, <1>10
  <2> QED BY <1>5, <2>1, <2>2 DEF ColdKept, next
<1> QED BY <1>1, <1>11, <1>12 DEF PagesInv, next

\* A warm claim keeps the seat's pages.
LEMMA ClaimBlocks ==
  ASSUME NEW pool \in Pool, NEW r \in Request, NEW offer \in OfferState
  PROVE  Claim(pool, r, offer).seat[offer.seat].blocks
           = IF offer.warm THEN pool.seat[offer.seat].blocks ELSE <<>>
<1> DEFINE i == offer.seat
           kept == pool.seat[i]
           gone == Renewed(Forgotten(kept))
           warm == [kept EXCEPT !.owner = r]
           cold == [gone EXCEPT !.owner = r]
           seat == IF offer.warm THEN warm ELSE cold
           next == Touching(pool, i, seat)
<1>1. i \in Seats
  BY DEF OfferState
<1>2. kept \in SeatState
  BY <1>1, PoolFacts
<1>3. gone \in SeatState /\ gone.blocks = <<>>
  <2>1. Forgotten(kept) \in SeatState /\ Forgotten(kept).blocks = <<>>
    BY <1>2, ForgottenType
  <2> QED BY <2>1, RenewedType
<1>4. Claim(pool, r, offer) = next
  BY DEF Claim, Touching
<1> HIDE DEF gone, kept
<1>5. warm \in SeatState /\ warm.blocks = kept.blocks
  BY <1>2 DEF SeatState
<1>6. cold \in SeatState /\ cold.blocks = <<>>
  BY <1>3 DEF SeatState
<1> HIDE DEF warm, cold
<1>7. seat \in SeatState /\ seat.blocks = IF offer.warm THEN kept.blocks ELSE <<>>
  BY <1>5, <1>6
<1> HIDE DEF seat
<1>8. next.seat[i] = seat
  BY <1>1, <1>2, <1>7, PoolTouched
<1> HIDE DEF next
<1> QED BY <1>4, <1>7, <1>8 DEF kept

\* An admitted request takes over the pages of its seat and some free ones.
LEMMA AdmitPages ==
  ASSUME Inv, PagesInv, Admit
  PROVE  PagesInv'
<1>1. /\ attempt.phase = "allocate" /\ AdmissionFits(Candidate)
      /\ Typed /\ Placed
      /\ Queued # <<>> /\ OfferKept(Candidate)
      /\ Listed(st, Range(running)) /\ Counted(st) /\ ColdKept
      /\ Seated(st, Range(running))
  BY Zenon DEF Inv, Admit, AttemptKept, PagesInv
<1>2. Candidate \in Range(waiting) /\ Candidate \in Request
  BY <1>1, CandidateIs
<1> SUFFICES ASSUME NEW r \in Request, r = Candidate
             PROVE  PagesInv'
  BY <1>2
<1> DEFINE offer == st.offers[r]
           i == offer.seat
           hit == HitBlocks(offer)
           cursor == HitCursor(offer)
           n == FirstQuery(r)
           pages == NewPages(hit, cursor + n)
           claimed == Claim(st.pool, r, offer)
           remaining == MaxTokens[r] - Len(req[r].out)
           pool == Transferred(claimed, r)
           ref == Unpinned(Pinned(Pinned(st.ref, hit), pages), claimed.seat[i].blocks)
           held == [st.held EXCEPT ![r] = hit \o pages]
           key == [rid |-> r, seat |-> i, epoch |-> claimed.seat[i].epoch]
           frontiers == Put(st.frontiers, key, NewFrontier(AllTokens(r), cursor, remaining))
           offers == [st.offers EXCEPT ![r] = NoOffer]
           H == Range(running)
<1>3. /\ Fits(hit, cursor + n)
      /\ st' = [st EXCEPT !.pool = pool, !.ref = ref, !.held = held,
                          !.frontiers = frontiers, !.offers = offers]
      /\ running' = Append(running, r)
      /\ attempt'.phase = "schedule"
  <2>1. Fits(hit, cursor + n)
    BY <1>1 DEF AdmissionFits
  <2>2. st' = [st EXCEPT !.pool = pool, !.ref = ref, !.held = held,
                         !.frontiers = frontiers, !.offers = offers]
    BY Zenon DEF Admit
  <2>3. attempt'.phase = "schedule"
    BY <1>1, Zenon DEF Admit, Typed
  <2> QED BY <2>1, <2>2, <2>3, Zenon DEF Admit
<1>4. OfferGood(st.pool, offer, AllTokens(r)) /\ OfferKept(r)
  BY <1>1 DEF OfferKept
<1>5. offer \in OfferState /\ i \in Seats
  BY <1>4 DEF OfferGood, OfferState
<1>6. /\ st \in State /\ st.pool \in Pool
      /\ st.held \in [Request -> Seq(Page)]
      /\ running \in Seq(Request)
  BY <1>1, TypedFacts, StateFacts
<1>7. hit \in Seq(Page) /\ cursor + n \in Int
  <2>1. hit \in Seq(Page) /\ cursor \in Int /\ n \in Int
    BY <1>1, <1>4, OfferBrings
  <2> QED BY <2>1
<1>8. r \notin H
  BY <1>1, <1>2 DEF Placed
<1>9. /\ pool.seat[i].blocks = <<>>
      /\ \A j \in Seats \ {i} : pool.seat[j] = st.pool.seat[j]
  <2>1. r \notin Holders(st.pool)
    BY <1>1, <1>8 DEF Seated
  <2> QED BY <1>5, <1>6, <2>1, TakenSeat
<1>10. hit = st.pool.seat[i].blocks
  BY <1>1 DEF HitBlocks, ColdKept
<1>11. claimed.seat[i].blocks = hit
  BY <1>5, <1>6, ClaimBlocks, Zenon DEF HitBlocks
<1>12. pages \in Seq(Page) /\ Once(pages) /\ Range(pages) \subseteq Free(st.ref)
  <2> DEFINE tokens == cursor + n
  <2>1. pages = NewPages(hit, tokens) /\ Fits(hit, tokens) /\ tokens \in Int
    BY <1>3, <1>7
  <2> HIDE DEF tokens, pages, hit
  <2> QED BY <1>7, <2>1, NewPagesFree
<1>13. ref = Unpinned(Pinned(Pinned(st.ref, hit), pages), hit)
  BY <1>11
<1> HIDE DEF hit, pages, claimed
<1>14. held[r] = hit \o pages /\ Altered(st.held, held, r)
  BY <1>6 DEF Altered
<1> HIDE DEF pool, ref, held, frontiers, offers, i
<1> DEFINE next == st'
<1>15. /\ next.pool = pool /\ next.ref = ref /\ next.held = held
       /\ next.pending = st.pending /\ next.deferred = st.deferred
  BY <1>3, <1>6 DEF State
<1> HIDE DEF next
<1>16. /\ next.ref = Unpinned(Pinned(Pinned(st.ref, hit), pages), hit)
       /\ Altered(st.held, next.held, r) /\ next.held[r] = hit \o pages
       /\ next.pool.seat[i].blocks = <<>>
       /\ \A j \in Seats \ {i} : next.pool.seat[j] = st.pool.seat[j]
  BY <1>9, <1>13, <1>14, <1>15
<1>17. Counted(next) /\ Listed(next, H \cup {r})
  <2>1. /\ st \in State /\ Listed(st, H) /\ Counted(st) /\ i \in Seats /\ r \notin H
    BY <1>1, <1>5, <1>6, <1>8
  <2>2. TakesOver(st, next, r, i, hit, pages)
    BY <1>10, <1>15, <1>16 DEF TakesOver
  <2> HIDE DEF H
  <2> QED BY <1>12, <2>1, <2>2, PagesTransferred
<1>18. Range(running') = H \cup {r}
  BY <1>3, <1>6, AppendRange
<1> QED BY <1>3, <1>17, <1>18 DEF PagesInv, ColdKept, next

\* The oldest frame retires and requests end.
LEMMA RetiredPages ==
  ASSUME Inv, PagesInv, frames # <<>>, NEW sampled,
         \A r \in DOMAIN Head(frames) : sampled[r] \in Seq(Token),
         NEW ended \in Seq(Request)
  PROVE  LET next == Publish(Ended(Elapsed(Advanced(st, Head(frames), sampled)), ended,
                                   Tail(frames)))
         IN  Counted(next) /\ Listed(next, Range(running) \ Range(ended))
<1> DEFINE frame == Head(frames)
           rest  == Tail(frames)
           s1    == Advanced(st, frame, sampled)
           s2    == Elapsed(s1)
           s3    == Ended(s2, ended, rest)
           next  == Publish(s3)
           H     == Range(running)
<1>1. /\ st \in State /\ frames \in Seq(Range(frames)) /\ Rowed(frames)
      /\ Seated(st, H) /\ PendingKept(st) /\ RowsKept(st, frames)
      /\ Listed(st, H) /\ Counted(st)
  BY TypedFacts DEF Inv, PagesInv
<1>2. rest \in Seq(Range(frames)) /\ frame = frames[1] /\ 1 \in DOMAIN frames
  <2>1. Len(frames) \in Nat /\ Len(frames) # 0 /\ DOMAIN frames = 1 .. Len(frames)
    BY <1>1, LenProperties, EmptySeq
  <2> QED BY <1>1, <2>1, HeadTailProperties
<1>3. FrameOK(frame)
  BY <1>1, <1>2 DEF Rowed
<1> HIDE DEF frame, rest, H
<1>4. /\ s1 \in State
      /\ s1.pool = st.pool
      /\ s1.pending = st.pending
  BY <1>1, <1>3, AdvancedFields DEF frame
<1>5. Counted(s1) /\ Listed(s1, H)
  BY <1>1, AdvancedPages
<1> HIDE DEF s1
<1>6. /\ Seated(s1, H)
      /\ PendingKept(s1)
      /\ RowsKept(s1, frames)
  BY <1>1, <1>4, SamePool
<1>7. /\ s2 \in State /\ Seated(s2, H) /\ PendingKept(s2)
      /\ Rowed(rest) /\ RowsKept(s2, rest)
  BY <1>1, <1>4, <1>6, ElapsedKeeps DEF rest
<1>8. Counted(s2) /\ Listed(s2, H)
  BY <1>4, <1>5, ElapsedPagesKept
<1> HIDE DEF s2
<1>9. /\ s3 \in State /\ PendingKept(s3)
      /\ Seated(s3, H \ Range(ended))
  BY <1>2, <1>7, EndedKeeps
<1>10. Counted(s3) /\ Listed(s3, Holders(s3.pool))
  BY <1>2, <1>7, <1>8, EndedPages
<1> HIDE DEF s3
<1>11. Listed(s3, H \ Range(ended))
  BY <1>9, <1>10 DEF Seated
<1>12. Counted(next) /\ Listed(next, H \ Range(ended))
  BY <1>9, <1>10, <1>11, PublishPages
<1> QED BY <1>12 DEF next, s3, s2, s1, frame, rest, H

LEMMA UpdateFromOutputPages ==
  ASSUME Inv, PagesInv, UpdateFromOutput
  PROVE  PagesInv'
<1> DEFINE frame == Head(frames)
           same == {r \in Request : req'[r].status = req[r].status}
           both == running \o waiting
           ended == Only(both, Request \ same)
<1>1. frames # <<>> /\ attempt'.phase # "allocate"
  BY DEF UpdateFromOutput, Resting
<1>2. PICK sampled : /\ \A r \in DOMAIN frame : sampled[r] \in Samples(frame[r])
                     /\ st' = Publish(Ended(Elapsed(Advanced(st, frame, sampled)), ended,
                                            Tail(frames)))
                     /\ running' = Only(running, same)
  BY DEF UpdateFromOutput
<1>3. /\ frames \in Seq(Range(frames)) /\ Rowed(frames)
      /\ running \in Seq(Request) /\ waiting \in Seq(Request)
  BY TypedFacts DEF Inv
<1>4. FrameOK(frame)
  <2>1. Len(frames) \in Nat /\ Len(frames) # 0 /\ DOMAIN frames = 1 .. Len(frames)
    BY <1>1, <1>3, LenProperties, EmptySeq
  <2>2. frame = frames[1] /\ 1 \in DOMAIN frames
    BY <1>1, <1>3, <2>1, HeadTailProperties
  <2> QED BY <1>3, <2>2 DEF Rowed
<1>5. \A r \in DOMAIN frame : sampled[r] \in Seq(Token)
  BY <1>2, <1>4, SamplesType DEF FrameOK
<1>6. both \in Seq(Request) /\ Range(both) = Range(running) \cup Range(waiting)
  BY <1>3, ConcatProperties, RangeConcatenation
<1> HIDE DEF both
<1>7. ended \in Seq(Request) /\ Range(ended) = Range(both) \cap (Request \ same)
  BY <1>6, OnlyMembers
<1>8. Range(running') = Range(running) \cap same
  BY <1>2, <1>3, OnlyMembers
<1>9. Range(running) \ Range(ended) = Range(running')
  <2>1. Range(running) \subseteq Request
    BY <1>3, RangeOfSeq
  <2> QED BY <1>6, <1>7, <1>8, <2>1
<1>10. Counted(st') /\ Listed(st', Range(running) \ Range(ended))
  <2> DEFINE last == ended
             next == Publish(Ended(Elapsed(Advanced(st, Head(frames), sampled)), last,
                                   Tail(frames)))
  <2>1. st' = next
    BY <1>2
  <2>2. last \in Seq(Request)
    BY <1>7
  <2> HIDE DEF last
  <2>3. Counted(next) /\ Listed(next, Range(running) \ Range(last))
    BY <1>1, <1>5, <2>2, RetiredPages, Zenon
  <2> HIDE DEF next
  <2> QED BY <2>1, <2>3 DEF last
<1> QED BY <1>1, <1>9, <1>10, Zenon DEF PagesInv, ColdKept

LEMMA NextPages ==
  ASSUME Inv, PagesInv, [Next]_vars
  PROVE  PagesInv'
<1>1. ASSUME NEW r \in Request, Arrive(r)
      PROVE  PagesInv'
  BY <1>1, SameStatePages DEF Arrive, Idle
<1>2. ASSUME NEW r \in Request, Abort(r)
      PROVE  PagesInv'
  BY <1>2, AbortPages
<1>3. CASE ResetPrefixCache
  BY <1>3, ResetPrefixCachePages
<1>4. CASE BeginSchedule
  <2>1. attempt'.phase = "schedule"
    BY <1>4 DEF BeginSchedule
  <2> QED BY <1>4, <2>1, SameStatePages DEF BeginSchedule
<1>5. CASE ScheduleRunning
  BY <1>5, ScheduleRunningPages
<1>6. CASE EvictForRunning
  BY <1>6, EvictForRunningPages
<1>7. CASE PreemptLast
  BY <1>7, PreemptLastPages
<1>8. CASE ConsiderWaiting
  BY <1>8, ConsiderWaitingPages
<1>9. CASE Admit
  BY <1>9, AdmitPages
<1>10. CASE EvictForWaiting
  BY <1>10, EvictForWaitingPages
<1>11. CASE RejectWaiting
  BY <1>11, QueueFramePages DEF RejectWaiting
<1>12. CASE EndSchedule
  BY <1>12, QueueFramePages DEF EndSchedule
<1>13. CASE UpdateFromOutput
  BY <1>13, UpdateFromOutputPages
<1>14. CASE UNCHANGED vars
  BY <1>14, RestPages
<1> QED BY <1>1, <1>2, <1>3, <1>4, <1>5, <1>6, <1>7, <1>8, <1>9, <1>10, <1>11, <1>12, <1>13,
           <1>14 DEF Next, Attempt

LEMMA InvIsPagesExact ==
  ASSUME Inv, PagesInv
  PROVE  PagesExact
<1> SUFFICES ASSUME NEW p \in Page
             PROVE  st.ref[p] =
                      Cardinality({r \in Request : p \in Range(st.held[r])})
                      + Cardinality({s \in Seats : p \in Range(st.pool.seat[s].blocks)})
                      + Cardinality({k \in DOMAIN st.pending : p \in Range(st.pending[k].blocks)})
                      + Cardinality({i \in DOMAIN st.deferred : p \in Range(st.deferred[i].blocks)})
  BY DEF PagesExact
<1>1. st.ref[p] = HowMany(st.held, p) + HowMany(KeptBy(st), p)
                    + HowMany(PendingBy(st), p) + HowMany(DeferredBy(st), p)
  BY DEF PagesInv, Counted
<1>2. DOMAIN st.held = Request
  BY InvFacts, StateFacts
<1>3. /\ Having(st.held, p) = {r \in Request : p \in Range(st.held[r])}
      /\ Having(KeptBy(st), p) = {s \in Seats : p \in Range(st.pool.seat[s].blocks)}
      /\ Having(PendingBy(st), p) = {k \in DOMAIN st.pending : p \in Range(st.pending[k].blocks)}
      /\ Having(DeferredBy(st), p) = {i \in DOMAIN st.deferred : p \in Range(st.deferred[i].blocks)}
  BY <1>2 DEF Having, KeptBy, PendingBy, DeferredBy
<1> QED BY <1>1, <1>3 DEF HowMany

-----------------------------------------------------------------------------
\* The places of the ring.

LEMMA OnlyShorter ==
  ASSUME NEW T, NEW s \in Seq(T), NEW S
  PROVE  LET list == Only(s, S)
         IN  /\ list \in Seq(T) /\ Len(list) \in Nat /\ Len(s) \in Nat
             /\ Len(list) <= Len(s)
             /\ \A n \in 1 .. Len(list) : \E i \in n .. Len(s) : s[i] = list[n]
<1> DEFINE list == Only(s, S)
           places == {i \in DOMAIN s : s[i] \in S}
<1>1. list \in Seq(T) /\ \E m \in Nat : \E at : Filtered(s, S, list, m, at)
  BY OnlyPlaces
<1> HIDE DEF list
<1>2. Len(s) \in Nat /\ DOMAIN s = 1 .. Len(s) /\ Len(list) \in Nat
      /\ DOMAIN list = 1 .. Len(list)
  BY <1>1, LenProperties
<1>3. PICK m \in Nat : \E at : Filtered(s, S, list, m, at)
  BY <1>1
<1>4. PICK at : Filtered(s, S, list, m, at)
  BY <1>3
<1>5. /\ DOMAIN list = 1 .. m
      /\ at \in [1 .. m -> places]
      /\ \A n \in 1 .. m : list[n] = s[at[n]]
      /\ \A n, k \in 1 .. m : n < k => at[n] < at[k]
  BY <1>4 DEF Filtered
<1>6. m = Len(list)
  <2> DEFINE n == Len(list)
  <2>1. 1 .. m = 1 .. n /\ n \in Nat
    BY <1>2, <1>5, Zenon
  <2> HIDE DEF n
  <2>2. m = n
    BY <2>1
  <2> QED BY <2>2 DEF n
<1>7. \A n \in 1 .. m : at[n] \in 1 .. Len(s)
  <2>1. \A i \in places : i \in 1 .. Len(s)
    BY <1>2
  <2> HIDE DEF places
  <2> QED BY <1>5, <2>1
<1> HIDE DEF places
<1> DEFINE G == {n \in 0 .. m : n = 0 \/ at[n] >= n}
<1>8. 0 \in G
  OBVIOUS
<1>9. ASSUME NEW n \in 1 .. m, n - 1 \in G
      PROVE  n \in G
  <2>1. at[n] \in 1 .. Len(s) /\ n \in 0 .. m
    BY <1>7
  <2>2. CASE n = 1
    BY <2>1, <2>2
  <2>3. CASE n # 1
    <3>1. n - 1 \in 1 .. m /\ n - 1 < n
      BY <2>3
    <3>2. at[n - 1] < at[n] /\ at[n - 1] \in Int /\ at[n - 1] >= n - 1
      BY <1>5, <1>7, <1>9, <3>1
    <3> QED BY <2>1, <3>2
  <2> QED BY <2>2, <2>3
<1>10. \A n \in 1 .. m : at[n] >= n
  <2> HIDE DEF G
  <2>1. \A n \in 0 .. m : n \in G
    BY <1>8, <1>9, UpTo, Zenon
  <2>2. \A n \in 1 .. m : n \in 0 .. m /\ n # 0
    OBVIOUS
  <2> QED BY <2>1, <2>2 DEF G
<1>11. \A n \in 1 .. m : at[n] \in n .. Len(s) /\ s[at[n]] = list[n]
  BY <1>2, <1>5, <1>7, <1>10
<1>12. m <= Len(s)
  <2>1. CASE m = 0
    BY <1>2, <2>1
  <2>2. CASE m # 0
    <3>1. m \in 1 .. m
      BY <2>2
    <3> QED BY <1>2, <1>11, <3>1
  <2> QED BY <2>1, <2>2
<1> QED BY <1>1, <1>2, <1>6, <1>11, <1>12 DEF list

LEMMA OnceLength ==
  ASSUME NEW s \in Seq(Request), Once(s)
  PROVE  Len(s) \in Nat /\ Cardinality(Request) \in Nat /\ Len(s) <= Cardinality(Request)
<1>1. Len(s) \in Nat /\ DOMAIN s = 1 .. Len(s) /\ s \in [1 .. Len(s) -> Request]
  BY LenProperties
<1>2. IsFiniteSet(Request)
  BY EngineAssumption
<1>3. s \in Injection(1 .. Len(s), Request)
  BY <1>1 DEF Once, Injection, IsInjective
<1>4. Cardinality(1 .. Len(s)) <= Cardinality(Request)
  BY <1>2, <1>3, FS_Injection
<1>5. Cardinality(1 .. Len(s)) = Len(s)
  BY <1>1, FS_Interval
<1>6. Cardinality(Request) \in Nat
  BY <1>2, FS_CardinalityType
<1> QED BY <1>1, <1>4, <1>5, <1>6

LEMMA RotatedPlaces ==
  ASSUME NEW T, NEW s \in Seq(T), s # <<>>
  PROVE  /\ Rotated(s) \in Seq(T) /\ Len(Rotated(s)) = Len(s) /\ Len(s) \in Nat \ {0}
         /\ \A i \in 1 .. Len(s) - 1 : Rotated(s)[i] = s[i + 1]
         /\ Rotated(s)[Len(s)] = s[1]
         /\ DOMAIN Rotated(s) = 1 .. Len(s)
<1>1. Len(s) \in Nat \ {0} /\ s[1] \in T /\ Head(s) = s[1]
  BY LenProperties, EmptySeq, ElementOfSeq
<1>2. /\ Tail(s) \in Seq(T) /\ Len(Tail(s)) = Len(s) - 1
      /\ \A i \in 1 .. Len(s) - 1 : Tail(s)[i] = s[i + 1]
  BY <1>1, HeadTailProperties
<1>3. Rotated(s) = Append(Tail(s), s[1])
  BY <1>1 DEF Rotated
<1>4. /\ Rotated(s) \in Seq(T) /\ Len(Rotated(s)) = Len(s)
      /\ \A i \in 1 .. Len(s) - 1 : Rotated(s)[i] = Tail(s)[i]
      /\ Rotated(s)[Len(s)] = s[1]
  BY <1>1, <1>2, <1>3, AppendRange
<1> QED BY <1>1, <1>2, <1>4, LenProperties

LEMMA MembersPlaces ==
  ASSUME NEW places \in Seq(Request), Once(places), NEW keys \in Seq(Request), Once(keys)
  PROVE  LET members == Members(places, keys)
         IN  /\ members \in Seq(Request) /\ Once(members)
             /\ Range(members) = Range(keys)
             /\ \A n \in 1 .. Len(members) : members[n] \in Range(places) =>
                  \E i \in n .. Len(places) : places[i] = members[n]
<1> DEFINE old == Only(places, Range(keys))
           new == Only(keys, Range(keys) \ Range(places))
           members == Members(places, keys)
<1>1. members = old \o new
  BY DEF Members
<1>2. /\ old \in Seq(Request) /\ Range(old) = Range(places) \cap Range(keys) /\ Once(old)
      /\ new \in Seq(Request) /\ Once(new)
      /\ Range(new) = Range(keys) \cap (Range(keys) \ Range(places))
  BY OnlyMembers
<1>3. /\ Len(old) \in Nat
      /\ \A n \in 1 .. Len(old) : \E i \in n .. Len(places) : places[i] = old[n]
  BY OnlyShorter
<1> HIDE DEF old, new, members
<1>4. /\ members \in Seq(Request) /\ Once(members)
      /\ Range(members) = Range(keys)
  <2>1. Range(old) \cap Range(new) = {} /\ Range(old) \cup Range(new) = Range(keys)
    BY <1>2
  <2> QED BY <1>1, <1>2, <2>1, OnceJoin, Zenon
<1>5. /\ Len(members) = Len(old) + Len(new) /\ Len(new) \in Nat
      /\ \A n \in 1 .. Len(members) :
           members[n] = IF n <= Len(old) THEN old[n] ELSE new[n - Len(old)]
  BY <1>1, <1>2, <1>3, ConcatProperties, LenProperties
<1>6. ASSUME NEW n \in 1 .. Len(members), members[n] \in Range(places)
      PROVE  \E i \in n .. Len(places) : places[i] = members[n]
  <2>1. CASE n <= Len(old)
    <3>1. n \in 1 .. Len(old) /\ members[n] = old[n]
      BY <1>3, <1>5, <2>1
    <3> QED BY <1>3, <3>1
  <2>2. CASE ~(n <= Len(old))
    <3>1. n - Len(old) \in 1 .. Len(new) /\ members[n] = new[n - Len(old)]
      BY <1>3, <1>5, <2>2
    <3>2. new[n - Len(old)] \in Range(new)
      BY <1>2, <3>1, LenProperties DEF Range
    <3> QED BY <1>2, <1>6, <3>1, <3>2
  <2> QED BY <2>1, <2>2
<1> QED BY <1>4, <1>6 DEF members

LEMMA ReservedSlots ==
  ASSUME NEW budget \in Int, NEW slots \in Int,
         NEW decodes \in Seq([key : Request, demand : Int])
  PROVE  /\ Reserved(budget, decodes, slots).slots = slots
         /\ Reserved(budget, decodes, slots) \in Planned
<1>1. PICK f : ReservedBy(f, Planned, budget, decodes, slots)
  BY ReservedRuns, Zenon
<1> DEFINE n == Len(decodes)
           start == [grants |-> <<>>, budget |-> budget, slots |-> slots]
           last == Reserved(budget, decodes, slots)
<1>2. n \in Nat
  BY LenProperties
<1>3. /\ f \in [0 .. n -> Planned] /\ f[0] = start
      /\ \A i \in 1 .. n : f[i] = ReserveDecode(f[i - 1], decodes[i])
      /\ f[n] = last
  BY <1>1 DEF ReservedBy
<1>4. start.slots = slots
  OBVIOUS
<1> HIDE DEF n, start, last
<1>5. ASSUME NEW acc \in Planned, NEW d
      PROVE  ReserveDecode(acc, d).slots = acc.slots
  <2> DEFINE grant == Min({d.demand, acc.budget})
             g == Put(acc.grants, d.key, grant)
             b == acc.budget - grant
  <2>1. ReserveDecode(acc, d) = [acc EXCEPT !.grants = g, !.budget = b]
    BY DEF ReserveDecode
  <2> HIDE DEF g, b
  <2> QED BY <2>1 DEF Planned
<1> DEFINE G == {i \in 0 .. n : f[i].slots = slots}
<1>6. 0 \in G
  BY <1>2, <1>3, <1>4
<1>7. ASSUME NEW i \in 1 .. n, i - 1 \in G
      PROVE  i \in G
  <2>1. i - 1 \in 0 .. n /\ i \in 0 .. n /\ f[i - 1].slots = slots
    BY <1>7
  <2>2. f[i - 1] \in Planned
    BY <1>3, <2>1
  <2>3. f[i].slots = f[i - 1].slots
    BY <1>3, <1>5, <2>2
  <2> QED BY <2>1, <2>3
<1>8. f[n].slots = slots /\ f[n] \in Planned
  <2>1. n \in 0 .. n
    BY <1>2
  <2> HIDE DEF G
  <2>2. n \in G
    BY <1>2, <1>6, <1>7, <2>1, UpTo, Zenon
  <2> QED BY <1>3, <2>1, <2>2 DEF G
<1> QED BY <1>3, <1>8 DEF last

\* A place that is served has its grant, and no grant is taken back.
LEMMA ServePlaceGrants ==
  ASSUME NEW acc, NEW key, NEW row
  PROVE  /\ acc \in Planned =>
              DOMAIN acc.grants \subseteq DOMAIN ServePlace(acc, key, row).grants
         /\ /\ acc \in Planned
            /\ row.eligible /\ (row.new => acc.slots # 0)
            /\ row.demand \in Int /\ row.least \in Int
            /\ row.demand >= row.least /\ acc.budget >= row.least
            => key \in DOMAIN ServePlace(acc, key, row).grants
<1> DEFINE grant == Min({row.demand, acc.budget})
           g == Put(acc.grants, key, grant)
           b == acc.budget - grant
           c == acc.slots - (IF row.new THEN 1 ELSE 0)
           next == [acc EXCEPT !.grants = g, !.budget = b, !.slots = c]
           closed == ~row.eligible \/ (row.new /\ acc.slots = 0) \/ grant < row.least
<1>1. ServePlace(acc, key, row) = IF closed THEN acc ELSE next
  BY DEF ServePlace
<1>2. DOMAIN g = DOMAIN acc.grants \cup {key}
  BY PutKeys, Zenon
<1> HIDE DEF g
<1>3. acc \in Planned => next.grants = g
  BY DEF Planned
<1>4. ASSUME acc \in Planned, row.eligible, row.new => acc.slots # 0,
             row.demand \in Int, row.least \in Int,
             row.demand >= row.least, acc.budget >= row.least
      PROVE  ~closed
  <2>1. acc.budget \in Int
    BY <1>4 DEF Planned
  <2> DEFINE d == row.demand
             a == acc.budget
             l == row.least
  <2> HIDE DEF d, a, l
  <2>2. grant = IF d <= a THEN d ELSE a
    BY <1>4, <2>1, MinOfTwo DEF d, a
  <2> HIDE DEF grant
  <2>3. d \in Int /\ a \in Int /\ l \in Int /\ d >= l /\ a >= l
    BY <1>4, <2>1 DEF d, a, l
  <2>4. ~(grant < l)
    BY <2>2, <2>3
  <2> QED BY <1>4, <2>4 DEF l
<1> HIDE DEF next, closed
<1>5. acc \in Planned => DOMAIN acc.grants \subseteq DOMAIN ServePlace(acc, key, row).grants
  BY <1>1, <1>2, <1>3
<1> QED BY <1>1, <1>2, <1>3, <1>4, <1>5

\* The first place of the ring has its grant when the decodes leave enough.
LEMMA HeadGranted ==
  ASSUME NEW places \in Seq(Request), places # <<>>, NEW budget \in Int,
         NEW decodes \in Seq([key : Request, demand : Int]), NEW slots \in Int,
         NEW rows, \A k \in Range(places) : rows[k].demand \in Int,
         NEW row, row = rows[places[1]],
         row.eligible, row.new => slots # 0,
         row.least \in Int, row.demand >= row.least,
         Reserved(budget, decodes, slots).budget >= row.least
  PROVE  places[1] \in DOMAIN Grants(places, budget, decodes, rows, slots)
<1> DEFINE m == Len(places)
           first == Reserved(budget, decodes, slots)
           key == places[1]
           granted == Grants(places, budget, decodes, rows, slots)
<1>1. PICK g : ServedBy(g, Planned, places, budget, decodes, rows, slots)
  BY GrantsRun, Zenon
<1>2. /\ g \in [0 .. m -> Planned] /\ g[0] = first
      /\ \A i \in 1 .. m : g[i] = ServePlace(g[i - 1], places[i], rows[places[i]])
      /\ g[m].grants = granted
  BY <1>1 DEF ServedBy
<1>3. m \in Nat \ {0} /\ key \in Range(places)
  <2>1. m \in Nat /\ DOMAIN places = 1 .. m /\ m # 0
    BY LenProperties, EmptySeq
  <2> HIDE DEF m
  <2>2. 1 \in 1 .. m
    BY <2>1
  <2> QED BY <2>1, <2>2 DEF Range
<1>4. first \in Planned /\ first.slots = slots /\ first.budget >= row.least
  BY ReservedSlots, Zenon
<1>5. row.demand \in Int
  BY <1>3
<1> HIDE DEF m, first, granted
<1>6. g[1] = ServePlace(first, key, row)
  <2>1. 1 \in 1 .. m /\ 1 - 1 = 0
    BY <1>3
  <2>2. g[1] = ServePlace(g[1 - 1], places[1], rows[places[1]])
    BY <1>2, <2>1
  <2> QED BY <1>2, <2>1, <2>2
<1>7. key \in DOMAIN g[1].grants
  BY <1>4, <1>5, <1>6, ServePlaceGrants
<1> DEFINE G == {i \in 0 .. m : i = 0 \/ key \in DOMAIN g[i].grants}
<1>8. 0 \in G
  BY <1>3
<1>9. ASSUME NEW i \in 1 .. m, i - 1 \in G
      PROVE  i \in G
  <2>1. CASE i = 1
    BY <1>3, <1>7, <2>1
  <2>2. CASE i # 1
    <3>1. i - 1 \in 0 .. m /\ key \in DOMAIN g[i - 1].grants /\ i \in 0 .. m
      BY <1>9, <2>2
    <3>2. g[i - 1] \in Planned
      BY <1>2, <3>1, Zenon
    <3>3. DOMAIN g[i - 1].grants \subseteq DOMAIN g[i].grants
      BY <1>2, <3>2, ServePlaceGrants
    <3> QED BY <3>1, <3>3
  <2> QED BY <2>1, <2>2
<1>10. m \in G /\ m # 0
  <2> HIDE DEF G
  <2>1. m \in 0 .. m /\ m \in Nat /\ m # 0
    BY <1>3
  <2> QED BY <1>8, <1>9, <2>1, UpTo, Zenon
<1> QED BY <1>2, <1>10 DEF granted

-----------------------------------------------------------------------------
\* The placeholders of the queued rows.

\* What r's row in a frame, scheduled under its latest lease, may take back.
Weight(q, r, rows) ==
  IF r \in DOMAIN rows /\ rows[r].sampling /\ q.lease = <<rows[r].seat, rows[r].epoch>>
  THEN 1 + rows[r].drafts ELSE 0

\* The placeholders cover the rows in the queue and the row of the attempt:
\* p[i] is enough for the frames from the i-th on.
Covering(p, q, r, queue, rows) ==
  /\ p \in [Nat -> Nat]
  /\ \A i \in DOMAIN queue : p[i] >= p[i + 1] + Weight(q, r, queue[i])
  /\ q.placeholders >= p[1] + Weight(q, r, rows)

Owes(q, r, queue, rows) == \E p : Covering(p, q, r, queue, rows)

\* No row has less than its own token.
Filled(rows) == \A r \in DOMAIN rows : rows[r].drafts >= 0

FilledAll(queue) == \A i \in DOMAIN queue : Filled(queue[i])

LEMMA WeightType ==
  ASSUME NEW q, NEW r, NEW rows, FrameOK(rows), Filled(rows)
  PROVE  Weight(q, r, rows) \in Nat
<1>1. CASE r \in DOMAIN rows
  <2>1. rows[r].drafts \in Int /\ rows[r].drafts >= 0
    BY <1>1 DEF FrameOK, Filled
  <2> DEFINE d == rows[r].drafts
  <2> HIDE DEF d
  <2>2. 1 + d \in Nat
    BY <2>1 DEF d
  <2> QED BY <2>2 DEF Weight, d
<1>2. CASE r \notin DOMAIN rows
  BY <1>2 DEF Weight
<1> QED BY <1>1, <1>2

LEMMA OwesNothing ==
  ASSUME NEW q, q.placeholders \in Nat, NEW r, NEW queue, NEW rows,
         DOMAIN queue \subseteq Nat,
         \A i \in DOMAIN queue : Weight(q, r, queue[i]) = 0, Weight(q, r, rows) = 0
  PROVE  Owes(q, r, queue, rows)
<1> DEFINE p == [i \in Nat |-> 0]
<1>1. p \in [Nat -> Nat] /\ \A i \in Nat : p[i] = 0 /\ p[i + 1] = 0
  OBVIOUS
<1> HIDE DEF p
<1>2. \A i \in DOMAIN queue : p[i] >= p[i + 1] + Weight(q, r, queue[i])
  BY <1>1
<1>3. q.placeholders >= p[1] + Weight(q, r, rows)
  BY <1>1
<1>4. Covering(p, q, r, queue, rows)
  BY <1>1, <1>2, <1>3 DEF Covering
<1> QED BY <1>4 DEF Owes

\* The request's row joins the attempt.
LEMMA OwesScheduled ==
  ASSUME NEW q, NEW next, next.lease = q.lease, q.placeholders \in Int,
         NEW r, NEW queue, NEW rows, NEW row, r \notin DOMAIN rows,
         row.drafts \in Int, row.sampling \in BOOLEAN,
         next.lease = <<row.seat, row.epoch>>,
         next.placeholders = q.placeholders + (IF row.sampling THEN 1 + row.drafts ELSE 0),
         Owes(q, r, queue, rows)
  PROVE  Owes(next, r, queue, Put(rows, r, row))
<1>1. PICK p : Covering(p, q, r, queue, rows)
  BY DEF Owes
<1>2. \A frame : Weight(next, r, frame) = Weight(q, r, frame)
  BY DEF Weight
<1>3. Weight(q, r, rows) = 0
  BY DEF Weight
<1>4. Weight(next, r, Put(rows, r, row)) = IF row.sampling THEN 1 + row.drafts ELSE 0
  <2> DEFINE put == Put(rows, r, row)
  <2>1. DOMAIN put = DOMAIN rows \cup {r}
    BY PutKeys, Zenon
  <2>2. put[r] = row
    BY PutAt
  <2> HIDE DEF put
  <2>3. Weight(next, r, put) = IF row.sampling THEN 1 + row.drafts ELSE 0
    BY <2>1, <2>2 DEF Weight
  <2> QED BY <2>3 DEF put
<1>5. p \in [Nat -> Nat] /\ q.placeholders >= p[1]
      /\ \A i \in DOMAIN queue : p[i] >= p[i + 1] + Weight(q, r, queue[i])
  <2>1. p \in [Nat -> Nat] /\ q.placeholders >= p[1] + Weight(q, r, rows)
        /\ \A i \in DOMAIN queue : p[i] >= p[i + 1] + Weight(q, r, queue[i])
    BY <1>1 DEF Covering
  <2>2. p[1] \in Nat
    BY <2>1
  <2> QED BY <1>3, <2>1, <2>2
<1> DEFINE w == IF row.sampling THEN 1 + row.drafts ELSE 0
<1>6. w \in Int
  OBVIOUS
<1> HIDE DEF w
<1>7. next.placeholders = q.placeholders + w /\ Weight(next, r, Put(rows, r, row)) = w
  BY <1>4 DEF w
<1>8. next.placeholders >= p[1] + Weight(next, r, Put(rows, r, row))
  BY <1>5, <1>6, <1>7
<1>9. Covering(p, next, r, queue, Put(rows, r, row))
  BY <1>2, <1>5, <1>8 DEF Covering
<1> QED BY <1>9 DEF Owes

\* Another request's row joins the attempt.
LEMMA OwesOther ==
  ASSUME NEW q, NEW r, NEW queue, NEW rows, NEW x, x # r, NEW row
  PROVE  Owes(q, r, queue, rows) => Owes(q, r, queue, Put(rows, x, row))
<1>1. Weight(q, r, Put(rows, x, row)) = Weight(q, r, rows)
  <2>1. DOMAIN Put(rows, x, row) = DOMAIN rows \cup {x}
    BY PutKeys, Zenon
  <2>2. CASE r \in DOMAIN rows
    <3>1. Put(rows, x, row)[r] = rows[r]
      BY <2>2, PutElsewhere
    <3> QED BY <2>1, <2>2, <3>1 DEF Weight
  <2>3. CASE r \notin DOMAIN rows
    BY <2>1, <2>3 DEF Weight
  <2> QED BY <2>2, <2>3
<1> QED BY <1>1 DEF Owes, Covering

\* The attempt's rows become the last frame of the queue.
LEMMA OwesQueued ==
  ASSUME NEW q, q.placeholders \in Int, NEW r, NEW T, NEW queue \in Seq(T),
         Rowed(queue), FilledAll(queue),
         NEW rows \in T, FrameOK(rows), Filled(rows),
         NEW none, DOMAIN none = {}, Owes(q, r, queue, rows)
  PROVE  Owes(q, r, Append(queue, rows), none)
<1> DEFINE n == Len(queue)
           w == Weight(q, r, rows)
           next == Append(queue, rows)
           weight(i) == Weight(q, r, next[i])
<1>1. PICK p : Covering(p, q, r, queue, rows)
  BY DEF Owes
<1>2. /\ p \in [Nat -> Nat] /\ q.placeholders >= p[1] + w
      /\ \A i \in DOMAIN queue : p[i] >= p[i + 1] + Weight(q, r, queue[i])
  BY <1>1, Zenon DEF Covering
<1>3. w \in Nat
  BY WeightType
<1>4. /\ n \in Nat /\ DOMAIN queue = 1 .. n /\ DOMAIN next = 1 .. n + 1
      /\ \A i \in 1 .. n : next[i] = queue[i]
      /\ next[n + 1] = rows
  BY AppendRange, LenProperties
<1>5. weight(n + 1) = w
  BY <1>4
<1>6. Weight(q, r, none) = 0
  BY DEF Weight
<1>7. ASSUME NEW i \in 1 .. n
      PROVE  weight(i) \in Nat /\ p[i] >= p[i + 1] + weight(i)
  <2>1. i \in DOMAIN queue /\ next[i] = queue[i]
    BY <1>4
  <2>2. FrameOK(queue[i]) /\ Filled(queue[i])
    BY <2>1 DEF Rowed, FilledAll
  <2>3. Weight(q, r, queue[i]) \in Nat
    BY <2>2, WeightType
  <2> QED BY <1>2, <2>1, <2>3
<1> DEFINE t == [i \in Nat |-> IF i <= n + 1 THEN p[i] + w ELSE 0]
<1> HIDE DEF w, n, next, weight
<1>8. \A i \in Nat : p[i] \in Nat
  BY <1>2, Zenon
<1>9. \A i \in Nat : (IF i <= n + 1 THEN p[i] + w ELSE 0) \in Nat
  BY <1>3, <1>4, <1>8
<1>10. t \in [Nat -> Nat] /\ \A i \in Nat : t[i] = IF i <= n + 1 THEN p[i] + w ELSE 0
  BY <1>9
<1> HIDE DEF t
<1>11. ASSUME NEW i \in 1 .. n + 1
       PROVE  t[i] >= t[i + 1] + weight(i)
  <2>1. i \in Nat /\ i + 1 \in Nat /\ i <= n + 1
    BY <1>4
  <2>2. CASE i # n + 1
    <3>1. i \in 1 .. n /\ i + 1 <= n + 1
      BY <1>4, <2>1, <2>2
    <3>2. t[i] = p[i] + w /\ t[i + 1] = p[i + 1] + w
      BY <1>10, <2>1, <3>1, Zenon
    <3>3. weight(i) \in Nat /\ p[i] >= p[i + 1] + weight(i) /\ p[i] \in Nat /\ p[i + 1] \in Nat
      BY <1>7, <1>8, <2>1, <3>1
    <3> QED BY <1>3, <3>2, <3>3
  <2>3. CASE i = n + 1
    <3>1. ~(i + 1 <= n + 1)
      BY <1>4, <2>3
    <3>2. t[i] = p[i] + w /\ t[i + 1] = 0 /\ p[i] \in Nat
      BY <1>8, <1>10, <2>1, <3>1, Zenon
    <3> QED BY <1>3, <1>5, <2>3, <3>2
  <2> QED BY <2>2, <2>3
<1>12. q.placeholders >= t[1] + Weight(q, r, none)
  <2>1. 1 \in Nat /\ 1 <= n + 1
    BY <1>4
  <2>2. t[1] = p[1] + w /\ p[1] \in Nat
    BY <1>8, <1>10, <2>1, Zenon
  <2> QED BY <1>2, <1>3, <1>6, <2>2
<1>13. \A i \in DOMAIN next : t[i] >= t[i + 1] + Weight(q, r, next[i])
  BY <1>4, <1>11 DEF weight
<1>14. Covering(t, q, r, next, none)
  BY <1>10, <1>12, <1>13, Zenon DEF Covering
<1> QED BY <1>14 DEF Owes, next

\* The oldest frame retires and takes back no more than its row's weight.
LEMMA OwesRetired ==
  ASSUME NEW q, q.placeholders \in Int, NEW next, next.lease = q.lease,
         next.placeholders \in Int, NEW r, NEW T, NEW queue \in Seq(T), queue # <<>>,
         Rowed(queue), FilledAll(queue),
         next.placeholders >= q.placeholders - Weight(q, r, Head(queue)),
         NEW rows, DOMAIN rows = {}, NEW none, DOMAIN none = {},
         Owes(q, r, queue, rows)
  PROVE  Owes(next, r, Tail(queue), none)
<1> DEFINE n == Len(queue)
           w == Weight(q, r, Head(queue))
<1>1. PICK p : Covering(p, q, r, queue, rows)
  BY DEF Owes
<1>2. \A frame : Weight(next, r, frame) = Weight(q, r, frame)
  BY DEF Weight
<1>3. Weight(q, r, rows) = 0 /\ Weight(next, r, none) = 0
  BY DEF Weight
<1>4. n \in Nat \ {0} /\ DOMAIN queue = 1 .. n /\ Head(queue) = queue[1]
  BY LenProperties, EmptySeq, HeadTailProperties
<1>5. /\ DOMAIN Tail(queue) = 1 .. n - 1
      /\ \A i \in 1 .. n - 1 : Tail(queue)[i] = queue[i + 1]
  BY HeadTailProperties, LenProperties
<1>6. p \in [Nat -> Nat] /\ q.placeholders >= p[1] + Weight(q, r, rows)
      /\ \A i \in DOMAIN queue : p[i] >= p[i + 1] + Weight(q, r, queue[i])
  BY <1>1, Zenon DEF Covering
<1>7. w \in Nat
  <2>1. 1 \in DOMAIN queue
    BY <1>4
  <2>2. FrameOK(queue[1]) /\ Filled(queue[1])
    BY <2>1 DEF Rowed, FilledAll
  <2> QED BY <1>4, <2>2, WeightType
<1>8. p[1] >= p[2] + w
  <2>1. 1 \in DOMAIN queue /\ 1 + 1 = 2
    BY <1>4
  <2>2. p[1] >= p[1 + 1] + Weight(q, r, queue[1])
    BY <1>6, <2>1, Zenon
  <2> QED BY <1>4, <2>1, <2>2
<1> DEFINE t == [i \in Nat |-> p[i + 1]]
<1> HIDE DEF w, n
<1>9. \A i \in Nat : p[i] \in Nat /\ i + 1 \in Nat
  BY <1>6
<1>10. t \in [Nat -> Nat] /\ \A i \in Nat : t[i] = p[i + 1]
  BY <1>9
<1> HIDE DEF t
<1>11. next.placeholders >= t[1] + Weight(next, r, none)
  <2>1. t[1] = p[2] /\ p[1] \in Nat /\ p[2] \in Nat
    BY <1>9, <1>10
  <2>2. q.placeholders >= p[1]
    BY <1>3, <1>6, <2>1
  <2>3. next.placeholders >= q.placeholders - w
    BY DEF w
  <2>4. next.placeholders >= p[2]
    BY <1>7, <1>8, <2>1, <2>2, <2>3
  <2> QED BY <1>3, <2>1, <2>4
<1>12. ASSUME NEW i \in DOMAIN Tail(queue)
       PROVE  t[i] >= t[i + 1] + Weight(next, r, Tail(queue)[i])
  <2>1. i \in 1 .. n - 1 /\ i + 1 \in 1 .. n /\ i \in Nat /\ i + 1 \in Nat
    BY <1>4, <1>5
  <2>2. p[i + 1] >= p[(i + 1) + 1] + Weight(q, r, queue[i + 1])
    BY <1>4, <1>6, <2>1, Zenon
  <2>3. t[i] = p[i + 1] /\ t[i + 1] = p[(i + 1) + 1]
    BY <1>10, <2>1, Zenon
  <2> QED BY <1>2, <1>5, <2>1, <2>2, <2>3
<1>13. Covering(t, next, r, Tail(queue), none)
  BY <1>10, <1>11, <1>12, Zenon DEF Covering
<1> QED BY <1>13 DEF Owes

LEMMA OwesNonnegative ==
  ASSUME NEW q, q.placeholders \in Int, NEW r, NEW queue, NEW rows,
         FrameOK(rows), Filled(rows), Owes(q, r, queue, rows)
  PROVE  q.placeholders >= 0
<1>1. PICK p : Covering(p, q, r, queue, rows)
  BY DEF Owes
<1>2. p \in [Nat -> Nat] /\ q.placeholders >= p[1] + Weight(q, r, rows)
  BY <1>1 DEF Covering
<1>3. Weight(q, r, rows) \in Nat /\ p[1] \in Nat
  BY <1>2, WeightType
<1> QED BY <1>2, <1>3

-----------------------------------------------------------------------------
\* The seats of the requests that stay.

\* A step leaves the seats of the requests H theirs, in the same epoch.
OwnersStay(s, next, H) ==
  \A i \in Seats : s.pool.seat[i].owner \in H =>
    /\ next.pool.seat[i].owner = s.pool.seat[i].owner
    /\ next.pool.seat[i].epoch = s.pool.seat[i].epoch

\* The request's latest lease is of the seat it owns.
LeaseHeld(s, q, r) ==
  \E i \in Seats : s.pool.seat[i].owner = r /\ q.lease = <<i, s.pool.seat[i].epoch>>

LEMMA LeaseStays ==
  ASSUME NEW s, NEW next, NEW H, OwnersStay(s, next, H), NEW r \in H,
         NEW q, NEW after, after.lease = q.lease, LeaseHeld(s, q, r)
  PROVE  LeaseHeld(next, after, r)
BY DEF OwnersStay, LeaseHeld

\* Only a seat that no request owns changes.
LEMMA FreeSeatStay ==
  ASSUME NEW s, NEW next, NEW i \in Seats, s.pool.seat[i].owner = Nobody,
         \A j \in Seats \ {i} : next.pool.seat[j] = s.pool.seat[j],
         NEW H \in SUBSET Request
  PROVE  OwnersStay(s, next, H)
<1>1. Nobody \notin H
  BY SeatAssumption
<1> QED BY <1>1 DEF OwnersStay

LEMMA OthersOwnersStay ==
  ASSUME NEW s, NEW next, NEW r, OthersStay(s, next, r),
         NEW H \in SUBSET Request, r \notin H
  PROVE  OwnersStay(s, next, H)
<1>1. Nobody \notin H
  BY SeatAssumption
<1> QED BY <1>1 DEF OwnersStay, OthersStay

LEMMA EndedStay ==
  ASSUME NEW s \in State, NEW G, Seated(s, G), PendingKept(s),
         NEW T, NEW queue \in Seq(T), Rowed(queue), RowsKept(s, queue),
         NEW ended \in Seq(Request), NEW H \in SUBSET Request, H \cap Range(ended) = {}
  PROVE  OwnersStay(s, Ended(s, ended, queue), H)
<1> DEFINE n == Len(ended)
           one(x, i) == EndedOne(x, ended, i, queue)
           A == {x \in State : /\ PendingKept(x) /\ RowsKept(x, queue)
                               /\ Seated(x, Holders(x.pool)) /\ OwnersStay(s, x, H)}
<1>1. n \in Nat /\ \A i \in 1 .. n : ended[i] \in Request /\ ended[i] \notin H
  <2>1. n \in Nat /\ DOMAIN ended = 1 .. n /\ \A i \in 1 .. n : ended[i] \in Request
    BY LenProperties, ElementOfSeq
  <2> HIDE DEF n
  <2>2. \A i \in 1 .. n : ended[i] \in Range(ended)
    BY <2>1 DEF Range
  <2> QED BY <2>1, <2>2
<1>2. s \in A
  <2>1. OwnersStay(s, s, H)
    BY DEF OwnersStay
  <2>2. Seated(s, Holders(s.pool))
    BY DEF Seated
  <2> QED BY <2>1, <2>2
<1>3. ASSUME NEW x \in A, NEW i \in 1 .. n
      PROVE  one(x, i) \in A
  <2> DEFINE fence == LastFrame(queue, ended[i])
             next == one(x, i)
  <2>1. fence \in Nat /\ Covers(queue, ended[i], fence)
    BY LastFrameCovers
  <2>2. /\ x \in State /\ PendingKept(x) /\ RowsKept(x, queue)
        /\ Seated(x, Holders(x.pool)) /\ ended[i] \in Request /\ OwnersStay(s, x, H)
    BY <1>1
  <2>3. next = FreeRequestBlocks(x, ended[i], TRUE, fence)
    BY DEF EndedOne
  <2> HIDE DEF fence, next
  <2>4. /\ next \in State /\ Seated(next, Holders(x.pool) \ {ended[i]})
        /\ PendingKept(next) /\ RowsKept(next, queue)
        /\ OthersStay(x, next, ended[i])
    BY <2>1, <2>2, <2>3, FreeRequestBlocksKeeps, Zenon
  <2>5. Seated(next, Holders(next.pool))
    BY <2>4 DEF Seated
  <2>6. OwnersStay(x, next, H)
    BY <1>1, <2>4, OthersOwnersStay
  <2>7. OwnersStay(s, next, H)
    BY <2>2, <2>6 DEF OwnersStay
  <2>8. next \in A
    BY <2>4, <2>5, <2>7
  <2> HIDE DEF A
  <2> QED BY <2>8 DEF next
<1>4. PICK after : EndedBy(after, A, s, ended, queue)
  <2> HIDE DEF A
  <2>1. EndedIn(A, ended, queue)
    BY <1>3 DEF EndedIn
  <2>2. Len(ended) \in Nat /\ s \in A
    BY <1>1, <1>2
  <2> QED BY <2>1, <2>2, EndedRuns
<1>5. after \in [0 .. n -> A] /\ after[n] = Ended(s, ended, queue)
  <2> HIDE DEF A
  <2> QED BY <1>4 DEF EndedBy
<1>6. n \in 0 .. n
  BY <1>1
<1>7. Ended(s, ended, queue) \in A
  <2> HIDE DEF A, n
  <2> QED BY <1>5, <1>6
<1> QED BY <1>7

\* The requests that do not end with the oldest frame keep their seats.
LEMMA RetiredStay ==
  ASSUME Inv, frames # <<>>, NEW sampled,
         \A r \in DOMAIN Head(frames) : sampled[r] \in Seq(Token),
         NEW ended \in Seq(Request), NEW H \in SUBSET Request, H \cap Range(ended) = {}
  PROVE  OwnersStay(st, Publish(Ended(Elapsed(Advanced(st, Head(frames), sampled)), ended,
                                      Tail(frames))), H)
<1> DEFINE frame == Head(frames)
           rest  == Tail(frames)
           s1    == Advanced(st, frame, sampled)
           s2    == Elapsed(s1)
           s3    == Ended(s2, ended, rest)
           next  == Publish(s3)
           G     == Range(running)
<1>1. /\ st \in State /\ frames \in Seq(Range(frames)) /\ Rowed(frames)
      /\ Seated(st, G) /\ PendingKept(st) /\ RowsKept(st, frames)
  BY TypedFacts DEF Inv
<1>2. rest \in Seq(Range(frames)) /\ frame = frames[1] /\ 1 \in DOMAIN frames
  <2>1. Len(frames) \in Nat /\ Len(frames) # 0 /\ DOMAIN frames = 1 .. Len(frames)
    BY <1>1, LenProperties, EmptySeq
  <2> QED BY <1>1, <2>1, HeadTailProperties
<1>3. FrameOK(frame)
  BY <1>1, <1>2 DEF Rowed
<1> HIDE DEF frame, rest, G
<1>4. s1 \in State /\ s1.pool = st.pool /\ s1.pending = st.pending
  BY <1>1, <1>3, AdvancedFields DEF frame
<1> HIDE DEF s1
<1>5. Seated(s1, G) /\ PendingKept(s1) /\ RowsKept(s1, frames)
  BY <1>1, <1>4, SamePool
<1>6. /\ s2 \in State /\ Seated(s2, G) /\ PendingKept(s2)
      /\ Rowed(rest) /\ RowsKept(s2, rest)
  BY <1>1, <1>4, <1>5, ElapsedKeeps DEF rest
<1>7. OwnersStay(s1, s2, H)
  BY <1>4, ElapsedFields DEF OwnersStay
<1> HIDE DEF s2
<1>8. s3 \in State /\ PendingKept(s3) /\ OwnersStay(s2, s3, H)
  BY <1>2, <1>6, EndedKeeps, EndedStay, Zenon
<1> HIDE DEF s3
<1>9. Undisturbed(s3, next)
  BY <1>8, PublishFields
<1> HIDE DEF next
<1>10. OwnersStay(st, next, H)
  BY <1>4, <1>7, <1>8, <1>9 DEF OwnersStay, Undisturbed
<1> QED BY <1>10 DEF next, s3, s2, s1, frame, rest

-----------------------------------------------------------------------------
\* The invariant of the counters.

Accounted(s, q, r, queue, rows) == LeaseHeld(s, q, r) /\ Owes(q, r, queue, rows)

\* Only running requests have placeholders, which cover their queued rows; an
\* attempt that allocates has a token left.
CountsInv ==
  /\ Once(waiting)
  /\ \A r \in Request : req[r].status \in {"absent", "waiting"} => req[r].placeholders = 0
  /\ attempt.phase = "allocate" => attempt.left > 0
  /\ FilledAll(frames) /\ Filled(attempt.rows)
  /\ \A r \in Range(running) : Accounted(st, req[r], r, frames, attempt.rows)

\* The rows of two attempts that have none.
LEMMA OwesEmpty ==
  ASSUME NEW q, NEW r, NEW queue, NEW rows, DOMAIN rows = {}, NEW none, DOMAIN none = {},
         Owes(q, r, queue, rows)
  PROVE  Owes(q, r, queue, none)
<1>1. Weight(q, r, rows) = 0 /\ Weight(q, r, none) = 0
  BY DEF Weight
<1> QED BY <1>1, Zenon DEF Owes, Covering

\* Steps that leave the rows and the counters of the running requests alone.
LEMMA AccountsStay ==
  ASSUME CountsInv, NEW H, H \subseteq Range(running), OwnersStay(st, st', H),
         frames' = frames, attempt'.rows = attempt.rows, \A r \in H : req'[r] = req[r]
  PROVE  /\ FilledAll(frames') /\ Filled(attempt'.rows)
         /\ \A r \in H : Accounted(st', req'[r], r, frames', attempt'.rows)
<1>1. FilledAll(frames') /\ Filled(attempt'.rows)
  BY DEF CountsInv
<1>2. ASSUME NEW r \in H
      PROVE  Accounted(st', req'[r], r, frames', attempt'.rows)
  <2>1. LeaseHeld(st, req[r], r) /\ Owes(req[r], r, frames, attempt.rows) /\ req'[r] = req[r]
    BY DEF CountsInv, Accounted
  <2> DEFINE s == st'
             q == req'[r]
  <2>2. OwnersStay(st, s, H) /\ q.lease = req[r].lease
    BY <2>1
  <2> HIDE DEF s, q
  <2>3. LeaseHeld(s, q, r)
    BY <2>1, <2>2, LeaseStays
  <2> QED BY <2>1, <2>3 DEF s, q, Accounted
<1> QED BY <1>1, <1>2

LEMMA InitCounts ==
  ASSUME Init
  PROVE  CountsInv
<1>1. /\ running = <<>> /\ waiting = <<>> /\ frames = <<>> /\ attempt = Resting
      /\ req = [r \in Request |-> NewRequest]
  BY DEF Init
<1>2. DOMAIN <<>> = {} /\ Range(<<>>) = {}
  BY EmptyPartial DEF Range
<1>3. \A r \in Request : req[r].placeholders = 0
  BY <1>1 DEF NewRequest
<1>4. attempt.phase # "allocate" /\ attempt.rows = <<>>
  BY <1>1 DEF Resting
<1> QED BY <1>1, <1>2, <1>3, <1>4 DEF CountsInv, Once, FilledAll, Filled

LEMMA RestCounts ==
  ASSUME CountsInv, UNCHANGED vars
  PROVE  CountsInv'
<1>1. UNCHANGED <<st, req, running, waiting, frames, attempt>>
  BY DEF vars
<1> QED BY <1>1 DEF CountsInv

LEMMA ArriveCounts ==
  ASSUME Inv, CountsInv, NEW r \in Request, Arrive(r)
  PROVE  CountsInv'
<1>1. /\ req[r].status = "absent"
      /\ req' = [req EXCEPT ![r].status = "waiting"]
      /\ waiting' = Append(waiting, r)
      /\ UNCHANGED <<st, running, frames, attempt>>
  BY DEF Arrive
<1>2. /\ waiting \in Seq(Request) /\ running \in Seq(Request) /\ Placed
      /\ req \in [Request -> RequestState]
  BY TypedFacts DEF Inv
<1>3. r \notin Range(waiting) /\ r \notin Range(running)
  BY <1>1, <1>2 DEF Placed
<1>4. Once(waiting')
  BY <1>1, <1>2, <1>3, AppendRange DEF CountsInv
<1>5. \A x \in Request : /\ x # r => req'[x] = req[x]
                         /\ req'[x].placeholders = req[x].placeholders
  BY <1>1, <1>2 DEF RequestState
<1>6. \A x \in Request : req'[x].status \in {"absent", "waiting"} => req'[x].placeholders = 0
  <2>1. req[r].placeholders = 0
    BY <1>1 DEF CountsInv
  <2> QED BY <1>5, <2>1 DEF CountsInv
<1>7. \A x \in Range(running) : req'[x] = req[x]
  <2>1. Range(running) \subseteq Request
    BY <1>2, RangeOfSeq
  <2> QED BY <1>3, <1>5, <2>1
<1>8. \A x \in Range(running) : Accounted(st, req'[x], x, frames, attempt.rows)
  BY <1>7 DEF CountsInv
<1> QED BY <1>1, <1>4, <1>6, <1>8 DEF CountsInv

LEMMA AbortCounts ==
  ASSUME Inv, CountsInv, NEW r \in Request, Abort(r)
  PROVE  CountsInv'
<1>1. /\ attempt.phase = "idle"
      /\ req' = [req EXCEPT ![r].status = "aborted"]
      /\ running' = Without(running, r)
      /\ waiting' = Without(waiting, r)
      /\ st' = FreeRequestBlocks(st, r, FALSE, LastFrame(frames, r))
      /\ UNCHANGED <<frames, attempt>>
  BY DEF Abort, Idle
<1>2. /\ waiting \in Seq(Request) /\ running \in Seq(Request)
      /\ req \in [Request -> RequestState]
      /\ st \in State /\ Rowed(frames) /\ frames \in Seq(Range(frames))
      /\ Seated(st, Range(running)) /\ PendingKept(st) /\ RowsKept(st, frames)
  BY TypedFacts DEF Inv
<1>3. /\ Once(waiting') /\ Range(running') = Range(running) \ {r}
      /\ running' \in Seq(Request)
  BY <1>1, <1>2, WithoutMembers DEF CountsInv
<1>4. OthersStay(st, st', r)
  <2> DEFINE fence == LastFrame(frames, r)
             next == FreeRequestBlocks(st, r, FALSE, fence)
  <2>1. fence \in Nat /\ Covers(frames, r, fence) /\ st' = next
    BY <1>1, <1>2, LastFrameCovers
  <2> HIDE DEF fence
  <2>2. OthersStay(st, next, r)
    BY <1>2, <2>1, FreeRequestBlocksKeeps, Zenon
  <2> HIDE DEF next
  <2> QED BY <2>1, <2>2
<1>5. Range(running') \subseteq Request
  BY <1>3, RangeOfSeq
<1>6. \A x \in Request : x # r => req'[x] = req[x]
  BY <1>1, <1>2
<1>7. req'[r].status = "aborted"
  BY <1>1, <1>2 DEF RequestState
<1>8. \A x \in Request : req'[x].status \in {"absent", "waiting"} => req'[x].placeholders = 0
  BY <1>6, <1>7 DEF CountsInv
<1>9. /\ FilledAll(frames') /\ Filled(attempt'.rows)
      /\ \A x \in Range(running') : Accounted(st', req'[x], x, frames', attempt'.rows)
  <2> DEFINE H == Range(running')
  <2>1. /\ H \subseteq Range(running) /\ H \in SUBSET Request /\ r \notin H
        /\ \A x \in H : req'[x] = req[x]
    BY <1>3, <1>5, <1>6
  <2> HIDE DEF H
  <2> DEFINE s == st'
  <2>2. OthersStay(st, s, r)
    BY <1>4
  <2> HIDE DEF s
  <2>3. OwnersStay(st, s, H)
    BY <2>1, <2>2, OthersOwnersStay
  <2>4. OwnersStay(st, st', H)
    BY <2>3 DEF s
  <2> HIDE DEF H
  <2>5. /\ FilledAll(frames') /\ Filled(attempt'.rows)
        /\ \A x \in H : Accounted(st', req'[x], x, frames', attempt'.rows)
    BY <1>1, <2>1, <2>4, AccountsStay, Zenon
  <2> QED BY <2>5 DEF H
<1> QED BY <1>1, <1>3, <1>8, <1>9, Zenon DEF CountsInv

LEMMA ResetPrefixCacheCounts ==
  ASSUME Inv, CountsInv, ResetPrefixCache
  PROVE  CountsInv'
<1> DEFINE pool == Invalidated(st.pool)
           ref == UnpinnedEach(st.ref, [i \in Hot(st.pool) |-> st.pool.seat[i].blocks])
           frontiers == [k \in DOMAIN st.frontiers |->
                           IF k \in DOMAIN st.pending THEN Lost(st.frontiers[k])
                           ELSE st.frontiers[k]]
<1>1. /\ st' = [st EXCEPT !.pool = pool, !.ref = ref, !.frontiers = frontiers]
      /\ UNCHANGED <<req, running, waiting, frames, attempt>>
  BY DEF ResetPrefixCache
<1>2. st \in State /\ st.pool \in Pool /\ running \in Seq(Request)
  BY TypedFacts, StateFacts DEF Inv
<1>3. \A i \in Seats : pool.seat[i].owner = st.pool.seat[i].owner
                       /\ pool.seat[i].epoch = st.pool.seat[i].epoch
  BY <1>2, InvalidatedFields
<1> HIDE DEF pool, ref, frontiers
<1>4. st'.pool = pool
  BY <1>1, <1>2 DEF State
<1>5. OwnersStay(st, st', Range(running))
  BY <1>3, <1>4 DEF OwnersStay
<1>6. /\ FilledAll(frames') /\ Filled(attempt'.rows)
      /\ \A x \in Range(running) : Accounted(st', req'[x], x, frames', attempt'.rows)
  BY <1>1, <1>5, AccountsStay
<1> QED BY <1>1, <1>6 DEF CountsInv

LEMMA BeginScheduleCounts ==
  ASSUME Inv, CountsInv, BeginSchedule
  PROVE  CountsInv'
<1>1. /\ attempt.phase = "idle"
      /\ attempt'.phase = "schedule" /\ attempt'.rows = <<>>
      /\ UNCHANGED <<st, req, running, waiting, frames>>
  BY DEF BeginSchedule, Idle
<1>2. DOMAIN attempt.rows = {} /\ DOMAIN attempt'.rows = {}
  BY <1>1, EmptyPartial DEF Inv, AttemptKept
<1>3. ASSUME NEW x \in Range(running)
      PROVE  Accounted(st, req[x], x, frames, attempt'.rows)
  <2>1. LeaseHeld(st, req[x], x) /\ Owes(req[x], x, frames, attempt.rows)
    BY DEF CountsInv, Accounted
  <2> DEFINE none == attempt'.rows
  <2>2. DOMAIN none = {}
    BY <1>2
  <2> HIDE DEF none
  <2>3. Owes(req[x], x, frames, none)
    BY <1>2, <2>1, <2>2, OwesEmpty, Zenon
  <2> QED BY <2>1, <2>3 DEF Accounted, none
<1>4. Filled(attempt'.rows)
  BY <1>2 DEF Filled
<1> QED BY <1>1, <1>3, <1>4 DEF CountsInv

\* An idle seat is evicted.
LEMMA EvictHotStay ==
  ASSUME Inv, NEW exclude, EvictHot(exclude)
  PROVE  OwnersStay(st, st', Range(running))
<1> DEFINE i == Head(Evictable(st.pool, exclude))
           pool == Evicted(st.pool, i)
           ref == Unpinned(st.ref, st.pool.seat[i].blocks)
<1>1. /\ Evictable(st.pool, exclude) # <<>>
      /\ st' = [st EXCEPT !.pool = pool, !.ref = ref]
  BY DEF EvictHot
<1>2. st \in State /\ st.pool \in Pool /\ running \in Seq(Request)
  BY TypedFacts, StateFacts DEF Inv
<1>3. i \in Seats /\ st.pool.seat[i].owner = Nobody
  BY <1>1, <1>2, VictimOf
<1> HIDE DEF i
<1>4. \A j \in Seats \ {i} : pool.seat[j] = st.pool.seat[j]
  BY <1>2, <1>3, EvictedFields
<1> HIDE DEF pool, ref
<1>5. st'.pool = pool
  BY <1>1, <1>2 DEF State
<1>6. Range(running) \in SUBSET Request
  BY <1>2, RangeOfSeq
<1> QED BY <1>3, <1>4, <1>5, <1>6, FreeSeatStay, Zenon

LEMMA EvictHotCounts ==
  ASSUME Inv, CountsInv, NEW exclude, EvictHot(exclude),
         UNCHANGED <<req, running, waiting, frames, attempt>>
  PROVE  CountsInv'
<1>1. OwnersStay(st, st', Range(running))
  BY EvictHotStay
<1>2. /\ FilledAll(frames') /\ Filled(attempt'.rows)
      /\ \A x \in Range(running) : Accounted(st', req'[x], x, frames', attempt'.rows)
  BY <1>1, AccountsStay
<1> QED BY <1>2 DEF CountsInv

LEMMA PreemptLastCounts ==
  ASSUME Inv, CountsInv, PreemptLast
  PROVE  CountsInv'
<1> DEFINE victim == Last(running)
           fence == LastFrame(frames, victim)
           q == [req[victim] EXCEPT !.status = "waiting", !.computed = 0,
                                    !.placeholders = 0, !.drafting = FALSE]
           p == Min(ToServe)
<1>1. /\ Serving
      /\ st' = FreeRequestBlocks(st, victim, FALSE, fence)
      /\ req' = [req EXCEPT ![victim] = q]
      /\ running' = Front(running)
      /\ waiting' = Only(waiting, skipped) \o <<victim>> \o Only(waiting, Request \ skipped)
      /\ attempt' = [attempt EXCEPT !.preempted = TRUE]
      /\ frames' = frames
  BY DEF PreemptLast
<1>2. /\ Typed /\ Placed /\ AttemptKept /\ Once(running)
      /\ Seated(st, Range(running)) /\ PendingKept(st) /\ RowsKept(st, frames)
  BY DEF Inv, Placed
<1>3. /\ st \in State /\ Rowed(frames) /\ frames \in Seq(Range(frames))
      /\ running \in Seq(Request) /\ waiting \in Seq(Request)
      /\ req \in [Request -> RequestState]
      /\ attempt.next \in Nat /\ Len(running) \in Nat
  BY <1>2, TypedFacts
<1>4. running # <<>>
  <2>1. p \in attempt.next .. Len(running) /\ attempt.next >= 1
    BY <1>1, <1>2, <1>3, ServedOne DEF AttemptKept
  <2> HIDE DEF p
  <2>2. Len(running) # 0
    BY <1>3, <2>1
  <2> QED BY <2>2, EmptySeq
<1>5. /\ Range(running') = Range(running) \ {victim} /\ victim \in Request
      /\ DOMAIN running = 1 .. Len(running) /\ Len(running) \in Nat \ {0}
      /\ victim = running[Len(running)]
  BY <1>1, <1>2, <1>3, <1>4, FrontList, Zenon
<1>6. victim \notin Range(waiting)
  <2>1. Len(running) \in DOMAIN running
    BY <1>5
  <2>2. victim \in Range(running)
    BY <1>5, <2>1 DEF Range
  <2> QED BY <1>2, <1>5, <2>2 DEF Placed
<1> HIDE DEF victim
<1>7. fence \in Nat /\ Covers(frames, victim, fence)
  BY <1>3, LastFrameCovers
<1> HIDE DEF fence
<1>8. OthersStay(st, st', victim)
  <2> DEFINE next == FreeRequestBlocks(st, victim, FALSE, fence)
  <2>1. OthersStay(st, next, victim)
    BY <1>2, <1>3, <1>5, <1>7, FreeRequestBlocksKeeps, Zenon
  <2> HIDE DEF next
  <2>2. st' = next
    BY <1>1 DEF next
  <2> QED BY <2>1, <2>2
<1>9. Once(waiting')
  <2> DEFINE next == OnePut(waiting, victim, skipped)
  <2>1. waiting' = next
    BY <1>1 DEF OnePut
  <2>2. Once(waiting)
    BY DEF CountsInv
  <2>3. Once(next)
    BY <1>3, <1>5, <1>6, <2>2, OncePut
  <2> HIDE DEF next
  <2> QED BY <2>1, <2>3
<1>10. q.placeholders = 0
  BY <1>3, <1>5 DEF RequestState
<1>11. req'[victim] = q /\ \A x \in Request : x # victim => req'[x] = req[x]
  BY <1>1, <1>3, <1>5, Zenon
<1> HIDE DEF q
<1>12. \A x \in Request : req'[x].status \in {"absent", "waiting"} => req'[x].placeholders = 0
  BY <1>10, <1>11 DEF CountsInv
<1>13. attempt'.phase = "schedule" /\ attempt'.rows = attempt.rows
  BY <1>1, <1>2 DEF Serving, Typed
<1>14. Range(running) \subseteq Request
  BY <1>3, RangeOfSeq
<1>15. /\ FilledAll(frames') /\ Filled(attempt'.rows)
       /\ \A x \in Range(running') : Accounted(st', req'[x], x, frames', attempt'.rows)
  <2> DEFINE H == Range(running')
  <2>1. /\ H \subseteq Range(running) /\ H \in SUBSET Request /\ victim \notin H
        /\ \A x \in H : req'[x] = req[x]
    BY <1>5, <1>11, <1>14
  <2> HIDE DEF H
  <2> DEFINE s == st'
  <2>2. OthersStay(st, s, victim)
    BY <1>8
  <2> HIDE DEF s
  <2>3. OwnersStay(st, s, H)
    BY <2>1, <2>2, OthersOwnersStay
  <2>4. OwnersStay(st, st', H)
    BY <2>3 DEF s
  <2>5. /\ FilledAll(frames') /\ Filled(attempt'.rows)
        /\ \A x \in H : Accounted(st', req'[x], x, frames', attempt'.rows)
    BY <1>1, <1>13, <2>1, <2>4, AccountsStay, Zenon
  <2> QED BY <2>5 DEF H
<1> QED BY <1>9, <1>12, <1>13, <1>15 DEF CountsInv

LEMMA ConsiderWaitingCounts ==
  ASSUME Inv, CountsInv, ConsiderWaiting
  PROVE  CountsInv'
<1>1. Typed /\ Candidate \in Request
  BY CandidateIs DEF Inv, ConsiderWaiting, Admitting
<1> SUFFICES ASSUME NEW r \in Request, r = Candidate
             PROVE  CountsInv'
  BY <1>1
<1> DEFINE offer == OfferFor(r)
           i == offer.seat
           pool == IF offer.warm THEN st.pool ELSE Discard(st.pool, offer)
           ref == IF offer.warm THEN st.ref ELSE Unpinned(st.ref, st.pool.seat[i].blocks)
           offers == [st.offers EXCEPT ![r] = [offer EXCEPT !.epoch = pool.seat[i].epoch]]
<1>2. /\ attempt.left > 0 /\ offer # NoOffer
      /\ st' = [st EXCEPT !.pool = pool, !.ref = ref, !.offers = offers]
      /\ attempt' = [attempt EXCEPT !.phase = "allocate"]
      /\ UNCHANGED <<req, running, waiting, frames>>
  BY DEF ConsiderWaiting, Admitting, Open
<1>3. /\ st \in State /\ st.pool \in Pool /\ running \in Seq(Request)
      /\ AllTokens(r) \in Seq(Token)
  BY <1>1, TypedFacts, StateFacts, TokensType
<1>4. OfferGood(st.pool, offer, AllTokens(r))
  BY <1>2, <1>3, OfferedGood DEF OfferFor
<1> HIDE DEF offer
<1>5. offer \in OfferState /\ i \in Seats /\ st.pool.seat[i].owner = Nobody
  BY <1>4 DEF OfferGood, Current, OfferState
<1>6. \A j \in Seats \ {i} : pool.seat[j] = st.pool.seat[j]
  BY <1>3, <1>5, DiscardFields
<1> HIDE DEF pool, ref, offers
<1>7. st'.pool = pool
  BY <1>2, <1>3 DEF State
<1>8. Range(running) \in SUBSET Request
  BY <1>3, RangeOfSeq
<1>9. OwnersStay(st, st', Range(running))
  BY <1>5, <1>6, <1>7, <1>8, FreeSeatStay, Zenon
<1>10. attempt'.rows = attempt.rows /\ attempt'.left = attempt.left
  BY <1>1, <1>2 DEF Typed
<1>11. /\ FilledAll(frames') /\ Filled(attempt'.rows)
       /\ \A x \in Range(running) : Accounted(st', req'[x], x, frames', attempt'.rows)
  BY <1>2, <1>9, <1>10, AccountsStay
<1> QED BY <1>2, <1>10, <1>11 DEF CountsInv

\* The attempt's rows become a frame.
LEMMA QueueFrameCounts ==
  ASSUME Inv, CountsInv, QueueFrame
  PROVE  CountsInv'
<1>1. PICK phase \in {"idle", "collect"} : attempt' = [Resting EXCEPT !.phase = phase]
  BY DEF QueueFrame
<1>2. /\ frames' = IF attempt.rows = <<>> THEN frames ELSE Append(frames, attempt.rows)
      /\ UNCHANGED <<st, req, running, waiting>>
  BY DEF QueueFrame
<1>3. attempt'.phase = phase /\ DOMAIN attempt'.rows = {}
  BY <1>1, RestingType
<1> DEFINE none == attempt'.rows
           T == Range(frames) \cup {attempt.rows}
<1>4. /\ frames \in Seq(T) /\ Rowed(frames) /\ FrameOK(attempt.rows)
      /\ running \in Seq(Request) /\ req \in [Request -> RequestState]
  <2>1. /\ frames \in Seq(Range(frames)) /\ Rowed(frames) /\ FrameOK(attempt.rows)
        /\ running \in Seq(Request) /\ req \in [Request -> RequestState]
    BY TypedFacts DEF Inv
  <2>2. frames \in Seq(T)
    <3>1. Len(frames) \in Nat /\ DOMAIN frames = 1 .. Len(frames)
          /\ frames \in [1 .. Len(frames) -> Range(frames)]
      BY <2>1, LenProperties
    <3>2. frames \in [1 .. Len(frames) -> T]
      BY <3>1
    <3> HIDE DEF T
    <3> QED BY <3>1, <3>2, SeqDef
  <2> QED BY <2>1, <2>2
<1>5. attempt.rows \in T /\ DOMAIN none = {} /\ Filled(attempt.rows) /\ FilledAll(frames)
  BY <1>3 DEF CountsInv
<1> HIDE DEF T
<1>6. Filled(attempt'.rows)
  BY <1>3 DEF Filled
<1> HIDE DEF none
<1>7. CASE attempt.rows = <<>>
  <2>1. frames' = frames /\ DOMAIN attempt.rows = {}
    BY <1>2, <1>7, EmptyPartial
  <2>2. ASSUME NEW x \in Range(running)
        PROVE  Accounted(st, req[x], x, frames, none)
    <3>1. LeaseHeld(st, req[x], x) /\ Owes(req[x], x, frames, attempt.rows)
      BY DEF CountsInv, Accounted
    <3>2. Owes(req[x], x, frames, none)
      BY <1>5, <2>1, <3>1, OwesEmpty, Zenon
    <3> QED BY <3>1, <3>2 DEF Accounted
  <2> QED BY <1>2, <1>3, <1>6, <2>1, <2>2 DEF CountsInv, none
<1>8. CASE attempt.rows # <<>>
  <2> DEFINE queue == Append(frames, attempt.rows)
  <2>1. frames' = queue
    BY <1>2, <1>8
  <2>2. FilledAll(queue)
    <3>1. /\ Len(queue) = Len(frames) + 1 /\ Len(frames) \in Nat
          /\ \A i \in 1 .. Len(frames) : queue[i] = frames[i] /\ i \in DOMAIN frames
          /\ queue[Len(frames) + 1] = attempt.rows /\ queue \in Seq(T)
      BY <1>4, <1>5, AppendRange, LenProperties
    <3>2. DOMAIN queue = 1 .. Len(frames) + 1
      BY <3>1, LenProperties
    <3> HIDE DEF queue
    <3> SUFFICES ASSUME NEW i \in 1 .. Len(frames) + 1
                 PROVE  Filled(queue[i])
      BY <3>2 DEF FilledAll
    <3>3. i \in 1 .. Len(frames) \/ i = Len(frames) + 1
      BY <3>1
    <3> QED BY <1>5, <3>1, <3>3 DEF FilledAll
  <2>3. ASSUME NEW x \in Range(running)
        PROVE  Accounted(st, req[x], x, queue, none)
    <3>1. LeaseHeld(st, req[x], x) /\ Owes(req[x], x, frames, attempt.rows)
      BY DEF CountsInv, Accounted
    <3>2. req[x].placeholders \in Int
      <4>1. x \in Request
        BY <1>4, RangeOfSeq
      <4> QED BY <1>4, <4>1 DEF RequestState
    <3>3. Owes(req[x], x, queue, none)
      BY <1>4, <1>5, <3>1, <3>2, OwesQueued
    <3> QED BY <3>1, <3>3 DEF Accounted
  <2> HIDE DEF queue
  <2> QED BY <1>2, <1>3, <1>6, <2>1, <2>2, <2>3, Zenon DEF CountsInv, none
<1> QED BY <1>7, <1>8

\* A running request is scheduled.
LEMMA ScheduleRunningCounts ==
  ASSUME Inv, CountsInv, ScheduleRunning
  PROVE  CountsInv'
<1> DEFINE r == Served
           n == Query(r)
           seat == SeatOf(st.pool, r)
           due == Len(AllTokens(r)) + req[r].placeholders - req[r].computed
           drafts == IF req[r].drafting THEN Max({0, n - due}) ELSE 0
           row == Row(r, [seat |-> seat, epoch |-> st.pool.seat[seat].epoch], n,
                      drafts, req[r].computed, n >= due, NoLimit)
           pages == NewPages(st.held[r], req[r].computed + n)
           p == Min(ToServe)
           held == [st.held EXCEPT ![r] = @ \o pages]
           ref == Pinned(st.ref, pages)
           rows == Put(attempt.rows, r, row)
           q == Scheduled(req[r], req[r].computed, row)
<1>1. /\ Serving
      /\ st' = [st EXCEPT !.held = held, !.ref = ref]
      /\ req' = [req EXCEPT ![r] = q]
      /\ attempt' = [attempt EXCEPT !.next = p + 1, !.left = attempt.left - n,
                                    !.rows = rows]
      /\ UNCHANGED <<running, waiting, frames>>
  BY DEF ScheduleRunning
<1>2. /\ Typed /\ Placed /\ AttemptKept /\ Once(running)
      /\ Seated(st, Range(running))
  BY DEF Inv, Placed
<1>3. /\ p \in attempt.next .. Len(running) /\ r = running[p] /\ attempt.next \in Nat
      /\ attempt.next >= 1 /\ Len(running) \in Nat /\ DOMAIN running = 1 .. Len(running)
  BY <1>1, <1>2, ServedOne, TypedFacts DEF AttemptKept
<1>4. r \in Range(running) /\ r \in Request
  BY <1>2, <1>3, TypedFacts DEF Range
<1>5. seat \in Seats /\ st.pool.seat[seat].owner = r
  <2>1. r \in Holders(st.pool)
    BY <1>2, <1>4 DEF Seated
  <2> QED BY <2>1, SeatOfOwner
<1>6. st \in State /\ req \in [Request -> RequestState] /\ FrameOK(attempt.rows)
      /\ running \in Seq(Request)
  BY <1>2, TypedFacts
<1>7. n \in Int /\ req[r].computed \in Int /\ due \in Int /\ req[r].placeholders \in Int
  BY <1>2, <1>4, CountsType, TokensType
<1>8. r \notin DOMAIN attempt.rows
  <2> SUFFICES ASSUME r \in DOMAIN attempt.rows
               PROVE  FALSE
    OBVIOUS
  <2> HIDE DEF r, p
  <2>1. PICK i \in 1 .. attempt.next - 1 : running[i] = r
    BY <1>2 DEF AttemptKept
  <2>2. i \in DOMAIN running /\ p \in DOMAIN running /\ i # p
    BY <1>3
  <2> QED BY <1>2, <1>3, <2>1, <2>2 DEF Once
<1> HIDE DEF r, n, p, pages, seat
<1>9. drafts \in Int /\ drafts >= 0
  <2>1. n - due \in Int
    BY <1>7
  <2> HIDE DEF due
  <2>2. Max({0, n - due}) = IF 0 >= n - due THEN 0 ELSE n - due
    BY <2>1, MaxOfTwo
  <2> QED BY <2>1, <2>2
<1>10. (n >= due) \in BOOLEAN
  BY <1>7
<1> HIDE DEF due, drafts
<1>11. /\ row.seat = seat /\ row.epoch = st.pool.seat[seat].epoch
       /\ row.drafts = drafts /\ row.sampling = (n >= due) /\ row.query = n
  BY DEF Row
<1> HIDE DEF row
<1>12. LeaseHeld(st, req[r], r) /\ Owes(req[r], r, frames, attempt.rows)
  BY <1>4 DEF CountsInv, Accounted
<1>13. req[r].lease = <<row.seat, row.epoch>>
  <2>1. PICK i \in Seats : st.pool.seat[i].owner = r
                           /\ req[r].lease = <<i, st.pool.seat[i].epoch>>
    BY <1>12 DEF LeaseHeld
  <2>2. r # Nobody
    BY <1>4, SeatAssumption
  <2>3. i = seat
    BY <1>2, <1>5, <2>1, <2>2 DEF Seated
  <2> QED BY <1>11, <2>1, <2>3
<1>14. /\ q.lease = <<row.seat, row.epoch>>
       /\ q.placeholders = req[r].placeholders + (IF row.sampling THEN 1 + row.drafts ELSE 0)
       /\ q.status = req[r].status
  BY <1>4, <1>6 DEF Scheduled, RequestState
<1> HIDE DEF q
<1>15. Owes(q, r, frames, rows)
  BY <1>7, <1>8, <1>9, <1>10, <1>11, <1>12, <1>13, <1>14, OwesScheduled, Zenon
<1>16. \A x : x # r /\ Owes(req[x], x, frames, attempt.rows) => Owes(req[x], x, frames, rows)
  BY OwesOther
<1>17. Filled(rows)
  <2>1. DOMAIN rows = DOMAIN attempt.rows \cup {r}
    BY PutKeys, Zenon
  <2>2. rows[r] = row
    BY PutAt
  <2>3. \A x \in DOMAIN attempt.rows : x # r => rows[x] = attempt.rows[x]
    BY PutElsewhere
  <2>4. \A x \in DOMAIN attempt.rows : attempt.rows[x].drafts >= 0
    BY DEF CountsInv, Filled
  <2> HIDE DEF rows
  <2> QED BY <1>9, <1>11, <2>1, <2>2, <2>3, <2>4 DEF Filled
<1> HIDE DEF rows, held, ref
<1>18. st'.pool = st.pool
  BY <1>1, <1>6 DEF State
<1>19. attempt'.phase = "schedule" /\ attempt'.rows = rows
  <2> DEFINE a == p + 1
             b == attempt.left - n
  <2> HIDE DEF a, b
  <2>1. attempt' = [attempt EXCEPT !.next = a, !.left = b, !.rows = rows]
    BY <1>1 DEF a, b
  <2>2. attempt.phase = "schedule"
    BY <1>1 DEF Serving
  <2> QED BY <1>2, <2>1, <2>2 DEF Typed
<1>20. req'[r] = q /\ \A x \in Request : x # r => req'[x] = req[x]
  BY <1>1, <1>4, <1>6
<1>21. ASSUME NEW x \in Range(running)
       PROVE  Accounted(st', req'[x], x, frames, rows)
  <2>1. LeaseHeld(st, req[x], x) /\ Owes(req[x], x, frames, attempt.rows) /\ x \in Request
    BY <1>6, RangeOfSeq DEF CountsInv, Accounted
  <2>2. req'[x].lease = req[x].lease
    BY <1>13, <1>14, <1>20, <2>1
  <2>3. LeaseHeld(st', req'[x], x)
    BY <1>18, <2>1, <2>2 DEF LeaseHeld
  <2>4. Owes(req'[x], x, frames, rows)
    BY <1>15, <1>16, <1>20, <2>1
  <2> QED BY <2>3, <2>4 DEF Accounted
<1>22. \A x \in Request : req'[x].status \in {"absent", "waiting"} => req'[x].placeholders = 0
  <2>1. req[r].status = "running"
    BY <1>2, <1>4 DEF Placed
  <2> QED BY <1>14, <1>20, <2>1 DEF CountsInv
<1> QED BY <1>1, <1>17, <1>19, <1>21, <1>22 DEF CountsInv

LEMMA CursorIs ==
  ASSUME NEW pool \in Pool, NEW i \in Seats
  PROVE  /\ Len(pool.seat[i].tokens) \in Nat
         /\ Cursor(pool.seat[i]) = IF Len(pool.seat[i].tokens) >= 1
                                  THEN Len(pool.seat[i].tokens) - 1 ELSE 0
<1> DEFINE n == Len(pool.seat[i].tokens)
           m == n - 1
<1>1. n \in Nat
  BY PoolFacts, LenProperties
<1>2. Cursor(pool.seat[i]) = Max({m, 0})
  BY DEF Cursor
<1>3. m \in Int /\ 0 \in Int
  BY <1>1
<1> HIDE DEF m
<1>4. Max({m, 0}) = IF m >= 0 THEN m ELSE 0
  BY <1>3, MaxOfTwo
<1> HIDE DEF n
<1>5. Cursor(pool.seat[i]) = IF n >= 1 THEN n - 1 ELSE 0
  BY <1>1, <1>2, <1>4 DEF m
<1> QED BY <1>1, <1>5 DEF n

\* No request is without tokens.
LEMMA SomeTokens ==
  ASSUME Typed, NEW r \in Request
  PROVE  /\ Len(AllTokens(r)) \in Nat /\ Len(Prompt[r]) \in Nat
         /\ Len(Prompt[r]) >= 1 /\ Len(AllTokens(r)) >= Len(Prompt[r])
<1>1. Prompt[r] \in Seq(Token) /\ Prompt[r] # <<>> /\ req[r].out \in Seq(Token)
  BY EngineAssumption, TokensType
<1>2. /\ Len(Prompt[r]) \in Nat /\ Len(Prompt[r]) # 0
      /\ Len(req[r].out) \in Nat
  BY <1>1, LenProperties, EmptySeq
<1> DEFINE a == Len(Prompt[r])
           b == Len(req[r].out)
           n == Len(AllTokens(r))
<1>3. n = a + b
  BY <1>1, ConcatProperties DEF AllTokens
<1>4. a \in Nat /\ a # 0 /\ b \in Nat
  BY <1>2
<1> HIDE DEF a, b, n
<1>5. n \in Nat /\ a \in Nat /\ a >= 1 /\ n >= a
  BY <1>3, <1>4
<1> QED BY <1>5 DEF a, n

\* An offer leaves the request a token to compute.
LEMMA OfferLeaves ==
  ASSUME NEW pool \in Pool, NEW tokens \in Seq(Token), Len(tokens) >= 1,
         NEW offer, OfferGood(pool, offer, tokens)
  PROVE  LET hit == IF offer.warm THEN Cursor(pool.seat[offer.seat]) ELSE 0
         IN  hit \in Nat /\ Len(tokens) \in Nat /\ Len(tokens) - hit >= 1
<1> DEFINE i == offer.seat
           n == Len(pool.seat[i].tokens)
           c == Cursor(pool.seat[i])
           m == Len(tokens)
<1>1. offer.seat \in Seats
  BY DEF OfferGood, OfferState
<1>2. n \in Nat /\ c = IF n >= 1 THEN n - 1 ELSE 0
  <2> HIDE DEF i
  <2>1. i \in Seats
    BY <1>1 DEF i
  <2> QED BY <2>1, CursorIs
<1>3. m \in Nat /\ m >= 1
  BY LenProperties
<1>4. CASE offer.warm
  <2>1. c > 0 /\ n <= m
    BY <1>4 DEF OfferGood
  <2> HIDE DEF n, c, m
  <2>2. c \in Nat /\ m - c >= 1
    BY <1>2, <1>3, <2>1
  <2> QED BY <1>3, <1>4, <2>2 DEF c, m
<1>5. CASE ~offer.warm
  <2> HIDE DEF m
  <2>1. m - 0 >= 1
    BY <1>3
  <2> QED BY <1>3, <1>5, <2>1 DEF m
<1> QED BY <1>4, <1>5

\* The least of three numbers is one of them.
LEMMA LeastOfThree ==
  ASSUME NEW a \in Int, NEW b \in Int, NEW c \in Int, a >= 1, b >= 1, c >= 1
  PROVE  Min({a, b, c}) >= 1
<1>1. {a, b, c} \in SUBSET Nat /\ {a, b, c} # {}
  OBVIOUS
<1>2. Min({a, b, c}) \in {a, b, c}
  BY <1>1, LeastOf
<1> QED BY <1>2

\* The first row of an admitted request has a token.
LEMMA FirstQueryPositive ==
  ASSUME Inv, CountsInv, attempt.phase = "allocate"
  PROVE  FirstQuery(Candidate) \in Int /\ FirstQuery(Candidate) >= 1
<1>1. Typed /\ Queued # <<>> /\ OfferKept(Candidate)
  BY DEF Inv, AttemptKept
<1>2. Candidate \in Request /\ Granted(Candidate) \in Int
  BY <1>1, CandidateIs
<1>3. Granted(Candidate) > 0
  <2> DEFINE queue == Queued
             W == {x \in Request : Granted(x) > 0}
  <2>1. queue \in Seq(Request) /\ Range(queue) = Range(waiting) \cap W
    BY <1>1, TypedFacts, OnlyMembers DEF Queued
  <2>2. Candidate = Head(queue) /\ queue # <<>>
    BY <1>1 DEF Candidate
  <2> HIDE DEF queue
  <2>3. Range(queue) # {}
    BY <2>1, <2>2, ListedSome
  <2>4. Head(queue) \in Range(queue)
    BY <2>1, <2>3, FirstOf
  <2> QED BY <2>1, <2>2, <2>4
<1> SUFFICES ASSUME NEW r \in Request, r = Candidate
             PROVE  FirstQuery(r) \in Int /\ FirstQuery(r) >= 1
  BY <1>2
<1> DEFINE offer == st.offers[r]
           tokens == AllTokens(r)
           hit == IF offer.warm THEN Cursor(st.pool.seat[offer.seat]) ELSE 0
           first == IF Missing(r) = 1 THEN 1 + Drafts ELSE Missing(r)
<1>4. st.pool \in Pool /\ tokens \in Seq(Token) /\ Len(tokens) \in Nat /\ Len(tokens) >= 1
  <2>1. Len(tokens) >= Len(Prompt[r]) /\ Len(Prompt[r]) \in Nat /\ Len(Prompt[r]) >= 1
        /\ Len(tokens) \in Nat
    BY <1>1, SomeTokens
  <2>2. st.pool \in Pool /\ tokens \in Seq(Token)
    BY <1>1, TypedFacts, StateFacts, TokensType
  <2> HIDE DEF tokens
  <2> QED BY <2>1, <2>2
<1>5. OfferGood(st.pool, offer, tokens)
  BY <1>1 DEF OfferKept
<1> HIDE DEF offer, tokens
<1>6. hit \in Nat /\ Len(tokens) - hit >= 1
  BY <1>4, <1>5, OfferLeaves
<1>7. Missing(r) = Len(tokens) - hit
  BY DEF Missing, HitCursor, tokens, offer
<1> HIDE DEF hit
<1>8. first \in Int /\ first >= 1
  <2>1. Drafts \in Nat
    BY EngineAssumption
  <2> QED BY <1>4, <1>6, <1>7, <2>1
<1>9. attempt.left \in Int /\ attempt.left >= 1 /\ Granted(r) \in Int /\ Granted(r) >= 1
  <2>1. attempt.left \in Int /\ attempt.left > 0
    BY <1>1, TypedFacts DEF CountsInv
  <2> QED BY <1>2, <1>3, <2>1
<1>10. FirstQuery(r) = Min({first, attempt.left, Granted(r)})
  BY DEF FirstQuery
<1> DEFINE left == attempt.left
           granted == Granted(r)
           query == FirstQuery(r)
<1>11. left \in Int /\ left >= 1 /\ granted \in Int /\ granted >= 1
       /\ query = Min({first, left, granted})
  BY <1>9, <1>10
<1> HIDE DEF first, left, granted, query
<1>12. query \in Int /\ query >= 1
  BY <1>8, <1>11, LeastOfThree, MinOfThree, Zenon
<1> QED BY <1>12 DEF query

LEMMA AdmitCounts ==
  ASSUME Inv, CountsInv, Admit
  PROVE  CountsInv'
<1>1. /\ attempt.phase = "allocate"
      /\ Typed /\ Placed /\ AttemptKept
      /\ Queued # <<>> /\ OfferKept(Candidate)
  BY Zenon DEF Inv, Admit, AttemptKept
<1>2. Candidate \in Range(waiting) /\ Candidate \in Request
      /\ FirstQuery(Candidate) \in Int /\ FirstQuery(Candidate) >= 1
  BY <1>1, CandidateIs, FirstQueryPositive
<1> SUFFICES ASSUME NEW r \in Request, r = Candidate
             PROVE  CountsInv'
  BY <1>2
<1> DEFINE offer == st.offers[r]
           i == offer.seat
           hit == HitBlocks(offer)
           cursor == HitCursor(offer)
           n == FirstQuery(r)
           pages == NewPages(hit, cursor + n)
           remaining == MaxTokens[r] - Len(req[r].out)
           claimed == Claim(st.pool, r, offer)
           epoch == claimed.seat[i].epoch
           drafts == IF Missing(r) = 1 THEN n - 1 ELSE 0
           sampling == n >= Missing(r)
           row == Row(r, [seat |-> i, epoch |-> epoch], n, drafts, cursor, sampling,
                      remaining)
           pool == Transferred(claimed, r)
           ref == Unpinned(Pinned(Pinned(st.ref, hit), pages), claimed.seat[i].blocks)
           held == [st.held EXCEPT ![r] = hit \o pages]
           key == [rid |-> r, seat |-> i, epoch |-> epoch]
           frontiers == Put(st.frontiers, key, NewFrontier(AllTokens(r), cursor, remaining))
           offers == [st.offers EXCEPT ![r] = NoOffer]
           admitted == [req[r] EXCEPT !.status = "running"]
           q == Scheduled(admitted, cursor, row)
           rows == Put(attempt.rows, r, row)
           next == Len(running) + 2
           left == attempt.left - n
<1>3. /\ st' = [st EXCEPT !.pool = pool, !.ref = ref, !.held = held,
                          !.frontiers = frontiers, !.offers = offers]
      /\ req' = [req EXCEPT ![r] = q]
      /\ running' = Append(running, r)
      /\ waiting' = Without(waiting, r)
      /\ attempt' = [attempt EXCEPT !.phase = "schedule", !.next = next,
                                    !.left = left, !.rows = rows]
      /\ frames' = frames
  <2>1. st' = [st EXCEPT !.pool = pool, !.ref = ref, !.held = held,
                          !.frontiers = frontiers, !.offers = offers]
    BY Zenon DEF Admit
  <2>2. req' = [req EXCEPT ![r] = q]
    BY Zenon DEF Admit
  <2>3. attempt' = [attempt EXCEPT !.phase = "schedule", !.next = next,
                                   !.left = left, !.rows = rows]
    BY Zenon DEF Admit
  <2> QED BY <2>1, <2>2, <2>3, Zenon DEF Admit
<1>4. OfferKept(r) /\ OfferGood(st.pool, offer, AllTokens(r))
  BY <1>1 DEF OfferKept
<1>5. offer \in OfferState /\ i \in Seats
      /\ st.pool.seat[i].owner = Nobody /\ st.pool.seat[i].fence = 0
  BY <1>4 DEF OfferGood, Current, OfferState
<1>6. /\ st \in State /\ st.pool \in Pool
      /\ Rowed(frames) /\ FrameOK(attempt.rows)
      /\ req \in [Request -> RequestState]
      /\ running \in Seq(Request) /\ waiting \in Seq(Request)
      /\ Len(running) \in Nat
  BY <1>1, TypedFacts, StateFacts
<1>7. n \in Int /\ n >= 1 /\ Missing(r) \in Int
  BY <1>1, <1>2, <1>4, OfferBrings
<1>8. req[r].status = "waiting" /\ r \notin Range(running)
  BY <1>1, <1>2 DEF Placed
<1>9. r \notin Holders(st.pool)
  BY <1>8 DEF Inv, Seated
<1>10. /\ pool.seat[i].owner = r
       /\ pool.seat[i].epoch = epoch
       /\ \A j \in Seats \ {i} : pool.seat[j] = st.pool.seat[j]
  BY <1>5, <1>6, <1>9, TakenSeat
<1>11. row.seat = i /\ row.epoch = epoch /\ row.drafts = drafts /\ row.sampling = sampling
       /\ row.query = n
  BY DEF Row
<1> HIDE DEF pool, ref, held, frontiers, offers, row, epoch, n, i
<1>12. drafts \in Int /\ drafts >= 0 /\ sampling \in BOOLEAN
  BY <1>7
<1> HIDE DEF drafts, sampling
<1>13. req[r].placeholders = 0
  BY <1>8 DEF CountsInv
\* The counters of the request before its row is scheduled, with its new lease.
<1> DEFINE fresh == [admitted EXCEPT !.lease = <<row.seat, row.epoch>>]
<1>14. fresh.lease = <<row.seat, row.epoch>> /\ fresh.placeholders = 0
  BY <1>6, <1>13 DEF RequestState
<1>15. /\ q.lease = <<row.seat, row.epoch>>
       /\ q.placeholders = 0 + (IF row.sampling THEN 1 + row.drafts ELSE 0)
       /\ q.status = "running"
  BY <1>6, <1>13 DEF Scheduled, RequestState
<1> HIDE DEF q, fresh
<1>16. r \notin DOMAIN attempt.rows
  <2>1. \A x \in DOMAIN attempt.rows : \E j \in 1 .. attempt.next - 1 : running[j] = x
    BY <1>1 DEF AttemptKept
  <2>2. \A j \in 1 .. attempt.next - 1 : j \in DOMAIN running
    <3>1. attempt.next \in 1 .. Len(running) + 1 /\ DOMAIN running = 1 .. Len(running)
      BY <1>1, <1>6, LenProperties DEF AttemptKept
    <3> QED BY <1>6, <3>1
  <2> QED BY <1>8, <2>1, <2>2 DEF Range
<1>17. DOMAIN frames \subseteq Nat /\ \A j \in DOMAIN frames : j >= 1
  <2>1. DOMAIN frames = 1 .. Len(frames) /\ Len(frames) \in Nat
    BY <1>1, TypedFacts, LenProperties
  <2> QED BY <2>1
<1>18. ASSUME NEW j \in DOMAIN frames
       PROVE  Weight(fresh, r, frames[j]) = 0
  <2>1. ASSUME r \in DOMAIN frames[j], frames[j][r].seat = i
        PROVE  FALSE
    <3>1. st.pool.seat[i].fence >= j
      BY <1>5, <2>1 DEF Inv, RowsKept
    <3> QED BY <1>5, <1>17, <3>1
  <2>2. <<i, row.epoch>> = <<frames[j][r].seat, frames[j][r].epoch>> => i = frames[j][r].seat
    OBVIOUS
  <2> QED BY <1>11, <1>14, <2>1, <2>2 DEF Weight
<1>19. Weight(fresh, r, attempt.rows) = 0
  BY <1>16 DEF Weight
<1>20. Owes(fresh, r, frames, attempt.rows)
  BY <1>14, <1>17, <1>18, <1>19, OwesNothing
<1>21. Owes(q, r, frames, rows)
  <2>1. row.drafts \in Int /\ row.sampling \in BOOLEAN
    BY <1>11, <1>12
  <2>2. fresh.placeholders \in Int /\ q.lease = fresh.lease
        /\ q.placeholders = fresh.placeholders + (IF row.sampling THEN 1 + row.drafts ELSE 0)
    BY <1>14, <1>15
  <2> QED BY <1>15, <1>16, <1>20, <2>1, <2>2, OwesScheduled
<1>22. \A x : x # r /\ Owes(req[x], x, frames, attempt.rows) => Owes(req[x], x, frames, rows)
  BY OwesOther
<1>23. Filled(rows)
  <2>1. DOMAIN rows = DOMAIN attempt.rows \cup {r}
    BY PutKeys, Zenon
  <2>2. rows[r] = row
    BY PutAt
  <2>3. \A x \in DOMAIN attempt.rows : x # r => rows[x] = attempt.rows[x]
    BY PutElsewhere
  <2>4. \A x \in DOMAIN attempt.rows : attempt.rows[x].drafts >= 0
    BY DEF CountsInv, Filled
  <2> HIDE DEF rows
  <2> QED BY <1>11, <1>12, <2>1, <2>2, <2>3, <2>4 DEF Filled
<1> HIDE DEF rows, next, left
<1>24. st'.pool = pool
  BY <1>3, <1>6 DEF State
<1>25. attempt'.phase = "schedule" /\ attempt'.rows = rows
  BY <1>1, <1>3 DEF Typed
<1>26. req'[r] = q /\ \A x \in Request : x # r => req'[x] = req[x]
  BY <1>3, <1>6
<1>27. Range(running') = Range(running) \cup {r} /\ Range(running) \subseteq Request
  BY <1>3, <1>6, AppendRange, RangeOfSeq
<1>28. ASSUME NEW x \in Range(running')
       PROVE  Accounted(st', req'[x], x, frames, rows)
  <2>1. CASE x = r
    <3>1. LeaseHeld(st', req'[x], x)
      BY <1>5, <1>10, <1>11, <1>15, <1>24, <1>26, <2>1 DEF LeaseHeld
    <3> QED BY <1>21, <1>26, <2>1, <3>1 DEF Accounted
  <2>2. CASE x # r
    <3>1. x \in Range(running) /\ x \in Request /\ req'[x] = req[x] /\ x # Nobody
      BY <1>26, <1>27, <2>2, SeatAssumption
    <3>2. LeaseHeld(st, req[x], x) /\ Owes(req[x], x, frames, attempt.rows)
      BY <3>1 DEF CountsInv, Accounted
    <3>3. LeaseHeld(st', req'[x], x)
      BY <1>5, <1>10, <1>24, <3>1, <3>2 DEF LeaseHeld
    <3>4. Owes(req'[x], x, frames, rows)
      BY <1>22, <2>2, <3>1, <3>2
    <3> QED BY <3>3, <3>4 DEF Accounted
  <2> QED BY <2>1, <2>2
<1>29. \A x \in Request : req'[x].status \in {"absent", "waiting"} => req'[x].placeholders = 0
  BY <1>15, <1>26 DEF CountsInv
<1>30. Once(waiting')
  BY <1>3, <1>6, WithoutMembers DEF CountsInv
<1> QED BY <1>3, <1>23, <1>25, <1>28, <1>29, <1>30 DEF CountsInv

\* A request keeps no more of its output than was sampled.
LEMMA KeptShort ==
  ASSUME Typed, NEW r \in Request, NEW sampled \in Seq(Token)
  PROVE  /\ Len(Kept(r, sampled)) \in Nat /\ Len(sampled) \in Nat
         /\ Len(Kept(r, sampled)) <= Len(sampled)
<1> DEFINE limit == MaxTokens[r] - Len(req[r].out)
           n == Len(sampled)
           many == Min({n, limit})
           room == SubSeq(sampled, 1, many)
           stops == {i \in DOMAIN room : room[i] = Stop}
<1>1. n \in Nat
  BY LenProperties
<1>2. limit \in Int
  <2>1. MaxTokens[r] \in Int /\ Len(req[r].out) \in Int
    BY EngineAssumption, TokensType
  <2> QED BY <2>1
<1> HIDE DEF limit
<1>3. many \in Int /\ many <= n
  <2> HIDE DEF n
  <2>1. many = IF n <= limit THEN n ELSE limit
    BY <1>1, <1>2, MinOfTwo
  <2> HIDE DEF many
  <2> QED BY <1>1, <1>2, <2>1
<1> HIDE DEF many
<1>4. room \in Seq(Token)
  BY <1>3, PrefixType
<1>5. Kept(r, sampled) = IF stops = {} THEN room ELSE SubSeq(room, 1, Min(stops))
  BY DEF Kept, many, limit
<1>6. Len(room) \in Nat /\ Len(room) <= n
  <2>1. CASE many >= 1
    <3>1. Len(room) = many
      BY <1>1, <1>3, <2>1, SubSeqProperties
    <3> QED BY <1>3, <2>1, <3>1
  <2>2. CASE ~(many >= 1)
    <3>1. room = <<>>
      BY <1>3, <2>2, SubSeqProperties
    <3>2. Len(room) = 0
      BY <1>4, <3>1, EmptySeq, Zenon
    <3> HIDE DEF n, room
    <3> QED BY <1>1, <3>2
  <2> QED BY <2>1, <2>2, Zenon
<1>7. DOMAIN room = 1 .. Len(room)
  BY <1>4, LenProperties
<1> HIDE DEF room
<1>8. CASE stops = {}
  BY <1>1, <1>5, <1>6, <1>8
<1>9. CASE stops # {}
  <2>1. stops \in SUBSET Nat /\ \A i \in stops : i \in Nat /\ i >= 1 /\ i <= Len(room)
    BY <1>6, <1>7
  <2> DEFINE k == Min(stops)
  <2>2. k \in stops
    <3> HIDE DEF stops
    <3> QED BY <1>9, <2>1, LeastOf
  <2> HIDE DEF stops, k
  <2>3. k \in Nat /\ k >= 1 /\ k <= Len(room)
    BY <2>1, <2>2
  <2>4. Len(SubSeq(room, 1, k)) = k
    BY <1>4, <2>3, SubSeqProperties
  <2>5. Kept(r, sampled) = SubSeq(room, 1, k)
    BY <1>5, <1>9, Zenon DEF k
  <2> QED BY <1>1, <1>6, <2>3, <2>4, <2>5
<1> QED BY <1>8, <1>9

\* A result takes back the drafts that were rejected and the tokens that are kept.
LEMMA AfterCounts ==
  ASSUME Typed, NEW r \in Request, NEW row, row.drafts \in Int,
         NEW sampled \in Seq(Token)
  PROVE  LET q == req[r]
             next == After(q, r, row, sampled)
         IN  /\ next.lease = q.lease
             /\ q.status = "waiting" => next.placeholders = q.placeholders
             /\ q.status # "waiting" =>
                  next.placeholders >= q.placeholders - (1 + row.drafts)
<1> DEFINE q == req[r]
           kept == Kept(r, sampled)
           out == q.out \o kept
           rejected == 1 + row.drafts - Len(sampled)
           status == CASE Last(out) = Stop -> "stopped"
                       [] Last(out) # Stop /\ Len(out) = MaxTokens[r] -> "capped"
                       [] OTHER -> q.status
           computed == q.computed - rejected
           placeholders == q.placeholders - rejected - Len(kept)
           parked == [q EXCEPT !.out = out, !.status = status]
           next == [q EXCEPT !.out = out, !.status = status, !.computed = computed,
                             !.placeholders = placeholders]
<1>1. q \in RequestState
  BY TypedFacts
<1>2. After(q, r, row, sampled) = IF q.status = "waiting" THEN parked ELSE next
  BY DEF After
<1>3. placeholders >= q.placeholders - (1 + row.drafts)
  <2>1. Len(kept) \in Nat /\ Len(sampled) \in Nat /\ Len(kept) <= Len(sampled)
    BY KeptShort
  <2> DEFINE a == Len(kept)
             b == Len(sampled)
             d == row.drafts
             p == q.placeholders
  <2>2. a \in Nat /\ b \in Nat /\ a <= b /\ d \in Int /\ p \in Int
    BY <1>1, <2>1 DEF RequestState
  <2>3. placeholders = p - (1 + d - b) - a
    OBVIOUS
  <2> HIDE DEF a, b, d, p, placeholders
  <2>4. placeholders >= p - (1 + d)
    BY <2>2, <2>3
  <2> QED BY <2>4 DEF p, d
<1> HIDE DEF q, out, status, computed, placeholders
<1>4. parked.lease = q.lease /\ parked.placeholders = q.placeholders
  BY <1>1 DEF RequestState
<1>5. next.lease = q.lease /\ next.placeholders = placeholders
  BY <1>1 DEF RequestState
<1> HIDE DEF parked, next
<1>6. /\ After(q, r, row, sampled).lease = q.lease
      /\ q.status = "waiting" => After(q, r, row, sampled).placeholders = q.placeholders
      /\ q.status # "waiting" =>
           After(q, r, row, sampled).placeholders >= q.placeholders - (1 + row.drafts)
  BY <1>2, <1>3, <1>4, <1>5
<1> QED BY <1>6 DEF q

\* The oldest frame retires.
LEMMA UpdateFromOutputCounts ==
  ASSUME Inv, CountsInv, UpdateFromOutput
  PROVE  CountsInv'
<1> DEFINE frame == Head(frames)
           same == {r \in Request : req'[r].status = req[r].status}
           both == running \o waiting
           ended == Only(both, Request \ same)
<1>1. frames # <<>> /\ frames' = Tail(frames) /\ attempt' = Resting
      /\ attempt.phase \in {"idle", "collect"}
  BY DEF UpdateFromOutput
<1>2. PICK sampled : /\ \A r \in DOMAIN frame : sampled[r] \in Samples(frame[r])
                     /\ req' = [r \in Request |->
                          IF r \in DOMAIN frame /\ Takes(r, frame[r])
                          THEN After(req[r], r, frame[r], sampled[r]) ELSE req[r]]
                     /\ st' = Publish(Ended(Elapsed(Advanced(st, frame, sampled)), ended,
                                            Tail(frames)))
                     /\ running' = Only(running, same)
                     /\ waiting' = Only(waiting, same)
  BY DEF UpdateFromOutput
<1>3. /\ Typed /\ Placed
      /\ frames \in Seq(Range(frames)) /\ Rowed(frames)
      /\ running \in Seq(Request) /\ waiting \in Seq(Request)
      /\ req \in [Request -> RequestState]
  BY TypedFacts DEF Inv
<1>4. FrameOK(frame) /\ Filled(frame)
  <2>1. Len(frames) \in Nat /\ Len(frames) # 0 /\ DOMAIN frames = 1 .. Len(frames)
    BY <1>1, <1>3, LenProperties, EmptySeq
  <2>2. frame = frames[1] /\ 1 \in DOMAIN frames
    BY <1>1, <1>3, <2>1, HeadTailProperties
  <2> QED BY <1>3, <2>2 DEF Rowed, CountsInv, FilledAll
<1>5. ASSUME NEW r \in DOMAIN frame
      PROVE  sampled[r] \in Seq(Token) /\ frame[r].drafts \in Int
  BY <1>2, <1>4, SamplesType DEF FrameOK
<1>6. both \in Seq(Request) /\ Range(both) = Range(running) \cup Range(waiting)
  BY <1>3, ConcatProperties, RangeConcatenation
<1> HIDE DEF both
<1>7. ended \in Seq(Request) /\ Range(ended) = Range(both) \cap (Request \ same)
  BY <1>6, OnlyMembers
<1>8. /\ running' \in Seq(Request) /\ Range(running') = Range(running) \cap same
      /\ Once(waiting') /\ Range(running') \in SUBSET Request
  <2>1. /\ running' \in Seq(Request) /\ Range(running') = Range(running) \cap same
        /\ Once(waiting')
    BY <1>2, <1>3, OnlyMembers, Zenon DEF CountsInv
  <2> QED BY <2>1, RangeOfSeq
<1>9. OwnersStay(st, st', Range(running'))
  <2> DEFINE last == ended
             H == Range(running')
             next == Publish(Ended(Elapsed(Advanced(st, Head(frames), sampled)), last,
                                   Tail(frames)))
  <2>1. st' = next
    BY <1>2
  <2>2. last \in Seq(Request) /\ H \in SUBSET Request /\ H \cap Range(last) = {}
    BY <1>7, <1>8
  <2> HIDE DEF last, H
  <2>3. OwnersStay(st, next, H)
    BY <1>1, <1>5, <2>2, RetiredStay
  <2> HIDE DEF next
  <2> QED BY <2>1, <2>3 DEF H
<1> HIDE DEF ended
<1>10. FilledAll(Tail(frames))
  <2>1. Len(frames) \in Nat /\ DOMAIN frames = 1 .. Len(frames)
    BY <1>3, LenProperties
  <2> DEFINE rest == Tail(frames)
  <2>2. /\ rest \in Seq(Range(frames)) /\ Len(rest) = Len(frames) - 1
        /\ \A i \in 1 .. Len(rest) : rest[i] = frames[i + 1]
    BY <1>1, <1>3, HeadTailProperties
  <2>3. DOMAIN rest = 1 .. Len(rest)
    BY <2>2, LenProperties
  <2> HIDE DEF rest
  <2>4. \A i \in DOMAIN rest : i + 1 \in DOMAIN frames /\ rest[i] = frames[i + 1]
    BY <2>1, <2>2, <2>3
  <2>5. FilledAll(rest)
    BY <2>4 DEF FilledAll, CountsInv
  <2> QED BY <2>5 DEF rest
<1>11. attempt'.phase = "idle" /\ DOMAIN attempt'.rows = {} /\ DOMAIN attempt.rows = {}
  <2>1. DOMAIN <<>> = {}
    BY EmptyPartial
  <2> QED BY <1>1, <2>1 DEF Resting, Inv, AttemptKept
<1>12. ASSUME NEW r \in Request
       PROVE  /\ req'[r].lease = req[r].lease /\ req'[r].placeholders \in Int
              /\ req'[r].status \in {req[r].status, "stopped", "capped"}
              /\ req[r].status \in {"absent", "waiting"} =>
                   req'[r].placeholders = req[r].placeholders
              /\ req[r].status = "running" =>
                   req'[r].placeholders >= req[r].placeholders - Weight(req[r], r, frame)
  <2>1. Weight(req[r], r, frame) \in Nat /\ req[r].placeholders \in Int
    BY <1>3, <1>4, WeightType DEF RequestState
  <2>2. CASE r \in DOMAIN frame /\ Takes(r, frame[r])
    <3> DEFINE q == req[r]
               row == frame[r]
               next == After(q, r, row, sampled[r])
    <3>1. req'[r] = next
      BY <1>2, <2>2
    <3>2. next \in RequestState /\ next.status \in {q.status, "stopped", "capped"}
      BY <1>3, <1>5, <2>2, AfterType
    <3>3. /\ next.lease = q.lease
          /\ q.status = "waiting" => next.placeholders = q.placeholders
          /\ q.status # "waiting" => next.placeholders >= q.placeholders - (1 + row.drafts)
      BY <1>3, <1>5, <2>2, AfterCounts
    <3>4. Weight(q, r, frame) = 1 + row.drafts /\ q.status \in {"waiting", "running"}
      BY <2>2 DEF Weight, Takes
    <3> HIDE DEF next
    <3>5. next.placeholders \in Int
      BY <3>2 DEF RequestState
    <3> HIDE DEF q, row
    <3> QED BY <3>1, <3>2, <3>3, <3>4, <3>5 DEF q, row
  <2>3. CASE ~(r \in DOMAIN frame /\ Takes(r, frame[r]))
    <3>1. req'[r] = req[r]
      BY <1>2, <2>3
    <3> QED BY <2>1, <3>1
  <2> QED BY <2>2, <2>3
<1>13. ASSUME NEW r \in Range(running')
       PROVE  Accounted(st', req'[r], r, frames', attempt'.rows)
  <2>1. r \in Request /\ r \in Range(running) /\ req[r].status = "running"
    BY <1>3, <1>8 DEF Placed
  <2>2. LeaseHeld(st, req[r], r) /\ Owes(req[r], r, frames, attempt.rows)
    BY <2>1 DEF CountsInv, Accounted
  <2> DEFINE s == st'
             H == Range(running')
             q == req[r]
             next == req'[r]
             rows == attempt.rows
             none == attempt'.rows
  <2>3. /\ OwnersStay(st, s, H) /\ r \in H /\ LeaseHeld(st, q, r)
        /\ next.lease = q.lease /\ next.placeholders \in Int /\ q.placeholders \in Int
        /\ next.placeholders >= q.placeholders - Weight(q, r, Head(frames))
        /\ DOMAIN rows = {} /\ DOMAIN none = {} /\ Owes(q, r, frames, rows)
        /\ FilledAll(frames)
    BY <1>3, <1>9, <1>11, <1>12, <2>1, <2>2 DEF RequestState, CountsInv
  <2> HIDE DEF s, H, q, next, rows, none
  <2>4. LeaseHeld(s, next, r)
    BY <2>3, LeaseStays
  <2>5. Owes(next, r, Tail(frames), none)
    BY <1>1, <1>3, <2>3, OwesRetired
  <2> QED BY <1>1, <2>4, <2>5 DEF Accounted, s, next, none
<1>14. \A r \in Request : req'[r].status \in {"absent", "waiting"} => req'[r].placeholders = 0
  <2> SUFFICES ASSUME NEW r \in Request, req'[r].status \in {"absent", "waiting"}
               PROVE  req'[r].placeholders = 0
    OBVIOUS
  <2>1. req[r].status \in {"absent", "waiting"}
    BY <1>12
  <2> QED BY <1>12, <2>1 DEF CountsInv
<1>15. Filled(attempt'.rows)
  BY <1>11 DEF Filled
<1> QED BY <1>1, <1>8, <1>10, <1>11, <1>13, <1>14, <1>15 DEF CountsInv

LEMMA NextCounts ==
  ASSUME Inv, CountsInv, [Next]_vars
  PROVE  CountsInv'
<1>1. ASSUME NEW r \in Request, Arrive(r)
      PROVE  CountsInv'
  BY <1>1, ArriveCounts
<1>2. ASSUME NEW r \in Request, Abort(r)
      PROVE  CountsInv'
  BY <1>2, AbortCounts
<1>3. CASE ResetPrefixCache
  BY <1>3, ResetPrefixCacheCounts
<1>4. CASE BeginSchedule
  BY <1>4, BeginScheduleCounts
<1>5. CASE ScheduleRunning
  BY <1>5, ScheduleRunningCounts
<1>6. CASE EvictForRunning
  BY <1>6, EvictHotCounts DEF EvictForRunning
<1>7. CASE PreemptLast
  BY <1>7, PreemptLastCounts
<1>8. CASE ConsiderWaiting
  BY <1>8, ConsiderWaitingCounts
<1>9. CASE Admit
  BY <1>9, AdmitCounts
<1>10. CASE EvictForWaiting
  BY <1>10, EvictHotCounts DEF EvictForWaiting
<1>11. CASE RejectWaiting
  BY <1>11, QueueFrameCounts DEF RejectWaiting
<1>12. CASE EndSchedule
  BY <1>12, QueueFrameCounts DEF EndSchedule
<1>13. CASE UpdateFromOutput
  BY <1>13, UpdateFromOutputCounts
<1>14. CASE UNCHANGED vars
  BY <1>14, RestCounts
<1> QED BY <1>1, <1>2, <1>3, <1>4, <1>5, <1>6, <1>7, <1>8, <1>9, <1>10, <1>11, <1>12, <1>13,
           <1>14 DEF Next, Attempt

-----------------------------------------------------------------------------
\* The turns of the ring.

\* A request at the i-th place was passed over at most N - i times in a row, N
\* being the number of requests; one that is not in the ring, never.
Turned(p, places) ==
  /\ p \in [Request -> Nat]
  /\ Once(places)
  /\ \A i \in 1 .. Len(places) : p[places[i]] + i <= Cardinality(Request)
  /\ \A r \in Request \ Range(places) : p[r] = 0

\* No member is further back than it was, and then the ring turns by a place.
LEMMA RingTurns ==
  ASSUME NEW places \in Seq(Request), NEW p, Turned(p, places),
         NEW members \in Seq(Request), Once(members),
         \A n \in 1 .. Len(members) : members[n] \in Range(places) =>
           \E i \in n .. Len(places) : places[i] = members[n],
         NEW q \in [Request -> Nat], \A r \in Request : q[r] <= p[r] + 1,
         \A r \in Request \ Range(members) : q[r] = 0,
         members # <<>> => q[members[1]] = 0
  PROVE  Turned(q, Rotated(members))
<1> DEFINE N == Cardinality(Request)
           m == Len(members)
           next == Rotated(members)
<1>1. N \in Nat /\ m \in Nat /\ m <= N /\ Len(places) \in Nat
  BY OnceLength, LenProperties
<1>2. p \in [Request -> Nat] /\ \A i \in 1 .. Len(places) : p[places[i]] + i <= N
      /\ \A r \in Request \ Range(places) : p[r] = 0
  BY DEF Turned
<1>3. \A i \in 1 .. m : members[i] \in Request
  BY ElementOfSeq
<1> DEFINE back(n) == \E i \in n .. Len(places) : places[i] = members[n]
<1>6. \A n \in 1 .. m : members[n] \in Range(places) => back(n)
  OBVIOUS
<1>4. CASE members = <<>>
  <2>1. next = <<>> /\ Len(next) = 0 /\ DOMAIN next = {}
    BY <1>4, EmptySeq, EmptyPartial DEF Rotated
  <2>2. Range(next) = Range(members)
    BY <1>4 DEF Rotated
  <2>3. \A i \in 1 .. Len(next) : FALSE
    BY <2>1
  <2>4. \A i \in 1 .. Len(next) : q[next[i]] + i <= Cardinality(Request)
    <3> HIDE DEF next
    <3> QED BY <2>3
  <2> HIDE DEF next
  <2>5. Once(next) /\ \A r \in Request \ Range(next) : q[r] = 0
    BY <2>1, <2>2 DEF Once
  <2>6. Turned(q, next)
    BY <2>4, <2>5 DEF Turned
  <2> QED BY <2>6 DEF next
<1>5. CASE members # <<>>
  <2>1. /\ next \in Seq(Request) /\ Len(next) = m /\ m \in Nat \ {0}
        /\ \A i \in 1 .. m - 1 : next[i] = members[i + 1]
        /\ next[m] = members[1]
        /\ DOMAIN next = 1 .. m
    BY <1>5, RotatedPlaces
  <2>2. DOMAIN members = 1 .. m
    BY LenProperties
  <2> HIDE DEF next, m, N
  <2>3. Once(next)
    <3>1. ASSUME NEW i \in 1 .. m, NEW j \in 1 .. m, next[i] = next[j]
          PROVE  i = j
      <4> DEFINE a == IF i = m THEN 1 ELSE i + 1
                 b == IF j = m THEN 1 ELSE j + 1
      <4>1. a \in 1 .. m /\ b \in 1 .. m /\ next[i] = members[a] /\ next[j] = members[b]
        BY <2>1
      <4>2. a = b
        <5> HIDE DEF a, b
        <5> QED BY <2>2, <3>1, <4>1, Zenon DEF Once
      <4> QED BY <2>1, <4>2
    <3> QED BY <2>1, <3>1 DEF Once
  <2>4. ASSUME NEW i \in 1 .. m
        PROVE  q[next[i]] + i <= N
    <3>1. CASE i = m
      BY <1>1, <1>5, <2>1, <3>1
    <3>2. CASE i # m
      <4> DEFINE r == next[i]
                 was == p[r]
                 now == q[r]
      <4>1. i \in 1 .. m - 1 /\ i + 1 \in 1 .. m /\ r = members[i + 1] /\ r \in Request
        BY <1>3, <2>1, <3>2
      <4> HIDE DEF r
      <4>2. was \in Nat /\ now \in Nat /\ now <= was + 1
        BY <1>2, <4>1
      <4>3. CASE r \in Range(places)
        <5>0. back(i + 1)
          <6> HIDE DEF back
          <6> QED BY <1>6, <4>1, <4>3
        <5>1. PICK j \in i + 1 .. Len(places) : places[j] = r
          BY <4>1, <5>0
        <5>2. j \in 1 .. Len(places) /\ j \in Int /\ j >= i + 1
          BY <1>1, <4>1, <5>1
        <5>3. was + j <= N
          BY <1>2, <5>1, <5>2, Zenon
        <5> HIDE DEF was, now
        <5>4. now + i <= N
          BY <1>1, <4>1, <4>2, <5>2, <5>3
        <5> QED BY <5>4 DEF now, r
      <4>4. CASE r \notin Range(places)
        <5>1. was = 0
          <6>1. r \in Request \ Range(places)
            BY <4>1, <4>4
          <6>2. \A x \in Request \ Range(places) : p[x] = 0
            BY DEF Turned
          <6> HIDE DEF r
          <6> QED BY <6>1, <6>2 DEF was
        <5> HIDE DEF was, now
        <5>2. i \in Int /\ i + 1 <= m
          BY <4>1, <2>1
        <5>3. now + i <= N
          BY <1>1, <4>2, <5>1, <5>2
        <5> QED BY <5>3 DEF now, r
      <4> QED BY <4>3, <4>4
    <3> QED BY <3>1, <3>2
  <2>5. ASSUME NEW r \in Request \ Range(next)
        PROVE  q[r] = 0
    <3>1. ASSUME NEW a \in 1 .. m
          PROVE  \E i \in 1 .. m : next[i] = members[a]
      <4> DEFINE i == IF a = 1 THEN m ELSE a - 1
      <4>1. i \in 1 .. m /\ next[i] = members[a]
        BY <2>1
      <4> QED BY <4>1
    <3>2. \A i \in 1 .. m : next[i] \in Range(next)
      BY <2>1, Zenon DEF Range
    <3>3. \A a \in 1 .. m : members[a] \in Range(next)
      BY <3>1, <3>2, Zenon
    <3>4. r \notin Range(members)
      <4>1. Range(members) = {members[a] : a \in 1 .. m}
        BY <2>2 DEF Range
      <4> QED BY <2>5, <3>3, <4>1
    <3> QED BY <2>5, <3>4
  <2>6. \A i \in 1 .. Len(next) : q[next[i]] + i <= N
    BY <2>1, <2>4
  <2>7. Turned(q, next)
    BY <2>3, <2>5, <2>6 DEF Turned, N
  <2> QED BY <2>7 DEF next
<1> QED BY <1>4, <1>5

-----------------------------------------------------------------------------
\* What the rows of an attempt ask for.

\* The grant a row needs is no more than what it asks for, and at most a verify row.
Servable(row) ==
  /\ row.demand \in Int /\ row.least \in Int
  /\ row.demand >= row.least /\ row.least <= 1 + Drafts

LEMMA AdmissionRowServable ==
  ASSUME Typed, NEW r \in Request, AdmissionRow(r).eligible
  PROVE  Servable(AdmissionRow(r)) /\ AdmissionRow(r).new
<1> DEFINE offer == Previewed(r)
           hit == IF offer # NoOffer /\ offer.warm THEN Cursor(st.pool.seat[offer.seat]) ELSE 0
           first == IF offer.warm THEN Cursor(st.pool.seat[offer.seat]) ELSE 0
           tokens == AllTokens(r)
           demand == Len(tokens) - hit
           row == AdmissionRow(r)
<1>1. /\ row.demand = IF demand = 1 THEN 1 + Drafts ELSE demand
      /\ row.least = IF demand = 1 THEN 1 + Drafts ELSE 1
      /\ offer # NoOffer /\ row.new
  BY Zenon DEF AdmissionRow
<1>2. offer = OfferFor(r)
  BY <1>1 DEF Previewed
<1>3. st.pool \in Pool /\ tokens \in Seq(Token) /\ Len(tokens) \in Nat /\ Len(tokens) >= 1
  <2>1. Len(tokens) >= Len(Prompt[r]) /\ Len(Prompt[r]) \in Nat /\ Len(Prompt[r]) >= 1
        /\ Len(tokens) \in Nat
    BY SomeTokens
  <2>2. st.pool \in Pool /\ tokens \in Seq(Token)
    BY TypedFacts, StateFacts, TokensType
  <2> HIDE DEF tokens
  <2> QED BY <2>1, <2>2
<1>4. OfferGood(st.pool, offer, tokens)
  BY <1>1, <1>2, <1>3, OfferedGood DEF OfferFor
<1> HIDE DEF offer, tokens
<1>5. first \in Nat /\ Len(tokens) - first >= 1
  BY <1>3, <1>4, OfferLeaves
<1>6. hit = first
  BY <1>1
<1> HIDE DEF hit, first
<1>7. demand \in Int /\ demand >= 1
  BY <1>3, <1>5, <1>6
<1>8. Drafts \in Nat
  BY EngineAssumption
<1> HIDE DEF demand, row
<1>9. Servable(row) /\ row.new
  BY <1>1, <1>7, <1>8 DEF Servable
<1> QED BY <1>9 DEF row

\* A request within its prompt has tokens left: its placeholders are not negative.
LEMMA PrefillRowServable ==
  ASSUME Inv, CountsInv, NEW r \in Range(running), Prefilling(r)
  PROVE  Servable(PrefillRow(r)) /\ ~PrefillRow(r).new
<1>1. Typed /\ r \in Request
  BY TypedFacts, RangeOfSeq DEF Inv
<1> DEFINE n == Len(AllTokens(r))
           owed == req[r].placeholders
           done == req[r].computed
           drafts == IF req[r].drafting THEN Drafts ELSE 0
           rest == n + owed - done + drafts
           row == PrefillRow(r)
<1>2. n \in Nat /\ Len(Prompt[r]) \in Nat /\ n >= Len(Prompt[r])
  BY <1>1, SomeTokens
<1>3. owed \in Int /\ done \in Int
  BY <1>1, CountsType
<1>4. owed >= 0
  <2>1. FrameOK(attempt.rows) /\ Filled(attempt.rows)
        /\ Owes(req[r], r, frames, attempt.rows)
    BY <1>1 DEF Typed, CountsInv, Accounted
  <2> QED BY <1>3, <2>1, OwesNonnegative
<1>5. done < Len(Prompt[r])
  BY DEF Prefilling
<1>6. Drafts \in Nat /\ drafts \in Nat
  BY EngineAssumption
<1>7. row.demand = Max({0, rest}) /\ row.least = 1 /\ ~row.new
  BY DEF PrefillRow, Demand
<1> HIDE DEF n, owed, done, drafts, row
<1>8. rest \in Int /\ rest >= 1
  BY <1>2, <1>3, <1>4, <1>5, <1>6
<1> HIDE DEF rest
<1>9. row.demand = rest
  BY <1>7, <1>8, MaxOfTwo
<1>10. Servable(row) /\ ~row.new
  BY <1>6, <1>7, <1>8, <1>9 DEF Servable
<1> QED BY <1>10 DEF row

\* What the decodes reserve leaves room for one more row: a scheduling attempt in
\* which they do not may pass every prefill over.
DecodesLeaveRoom == Idle => Reserved(Budget, Decodes, Slots).budget >= 1 + Drafts

RingInv == Turned(passed, ring)

LEMMA BeginScheduleTurns ==
  ASSUME Inv, CountsInv, RingInv, DecodesLeaveRoom, BeginSchedule
  PROVE  RingInv'
<1> DEFINE first == Only(running, {r \in Request : Prefilling(r)})
           keys == first \o waiting
           members == Members(ring, keys)
           rows == [r \in Range(keys) |->
                      IF r \in Range(waiting) THEN AdmissionRow(r) ELSE PrefillRow(r)]
           grants == Grants(members, Budget, Decodes, rows, Slots)
           over(r) == /\ r \in Range(keys) \ DOMAIN grants
                      /\ rows[r].eligible /\ (rows[r].new => Slots > 0)
           turned == [r \in Request |-> IF over(r) THEN passed[r] + 1 ELSE 0]
<1>1. Idle /\ ring' = Rotated(members) /\ passed' = turned
  BY DEF BeginSchedule
<1>2. Typed /\ CountsInv /\ Placed /\ Turned(passed, ring)
  BY DEF Inv, RingInv
<1>3. /\ running \in Seq(Request) /\ waiting \in Seq(Request) /\ ring \in Seq(Request)
      /\ Once(running) /\ Once(waiting) /\ Once(ring) /\ passed \in [Request -> Nat]
  BY <1>2, TypedFacts DEF Placed, CountsInv, Turned
<1>4. Decodes \in Seq([key : Request, demand : Int]) /\ Slots \in Int /\ Budget \in Int
      /\ Slots >= 0
  BY <1>2, DecodesType, EngineAssumption
<1>5. /\ first \in Seq(Request) /\ Once(first)
      /\ Range(first) = Range(running) \cap {r \in Request : Prefilling(r)}
  BY <1>3, OnlyMembers
<1> HIDE DEF first
<1>6. /\ keys \in Seq(Request) /\ Once(keys)
      /\ Range(keys) = Range(first) \cup Range(waiting)
  <2>1. Range(first) \cap Range(waiting) = {}
    <3>1. \A r \in Request : ~(r \in Range(running) /\ r \in Range(waiting))
      BY <1>2 DEF Placed
    <3>2. Range(waiting) \subseteq Request
      BY <1>3, RangeOfSeq
    <3> QED BY <1>5, <3>1, <3>2
  <2> QED BY <1>3, <1>5, <2>1, OnceJoin
<1> HIDE DEF keys
<1>7. Range(keys) \subseteq Request
  BY <1>6, RangeOfSeq
<1>8. /\ members \in Seq(Request) /\ Once(members) /\ Range(members) = Range(keys)
      /\ \A n \in 1 .. Len(members) : members[n] \in Range(ring) =>
           \E i \in n .. Len(ring) : ring[i] = members[n]
  BY <1>3, <1>6, MembersPlaces
<1> HIDE DEF members
<1>9. \A r \in Range(members) : rows[r].demand \in Int
  <2> SUFFICES ASSUME NEW r \in Range(keys)
               PROVE  rows[r].demand \in Int
    BY <1>8
  <2>1. r \in Request
    BY <1>7
  <2>2. AdmissionRow(r).demand \in Int
    BY <1>2, <2>1, AdmissionRowType
  <2>3. PrefillRow(r).demand \in Int
    BY <1>2, <2>1, CountsType DEF PrefillRow
  <2> QED BY <2>2, <2>3
<1>10. ASSUME NEW r \in Range(keys), rows[r].eligible
       PROVE  Servable(rows[r])
  <2>1. CASE r \in Range(waiting)
    <3>1. rows[r] = AdmissionRow(r)
      BY <2>1
    <3> QED BY <1>2, <1>7, <1>10, <3>1, AdmissionRowServable
  <2>2. CASE r \notin Range(waiting)
    <3>1. rows[r] = PrefillRow(r)
      BY <2>2
    <3>2. r \in Range(running) /\ Prefilling(r)
      BY <1>5, <1>6, <2>2
    <3> QED BY <3>1, <3>2, PrefillRowServable
  <2> QED BY <2>1, <2>2
<1>11. members # <<>> => turned[members[1]] = 0
  <2> SUFFICES ASSUME members # <<>>
               PROVE  turned[members[1]] = 0
    OBVIOUS
  <2> DEFINE head == members[1]
             row == rows[head]
             left == Reserved(Budget, Decodes, Slots).budget
  <2>1. head \in Range(keys) /\ head \in Request
    BY <1>7, <1>8, ListedSome, FirstOf
  <2>2. CASE over(head)
    <3>1. row.eligible /\ (row.new => Slots # 0)
      BY <1>4, <2>2
    <3>2. Servable(row)
      BY <1>10, <2>1, <3>1
    <3>3. left \in Int /\ left >= 1 + Drafts
      <4>1. Reserved(Budget, Decodes, Slots) \in Planned
        BY <1>4, ReservedSlots, Zenon
      <4> QED BY <1>1, <4>1 DEF DecodesLeaveRoom, Planned
    <3>4. row.least \in Int /\ row.demand >= row.least /\ left >= row.least
      <4>1. Drafts \in Nat
        BY EngineAssumption
      <4> HIDE DEF row, left
      <4> QED BY <3>2, <3>3, <4>1 DEF Servable
    <3>5. head \in DOMAIN grants
      <4> HIDE DEF rows
      <4> QED BY <1>4, <1>8, <1>9, <3>1, <3>4, HeadGranted, Zenon
    <3> QED BY <2>2, <3>5
  <2>3. CASE ~over(head)
    <3> HIDE DEF over
    <3> QED BY <2>1, <2>3
  <2> QED BY <2>2, <2>3
<1>12. \A r \in Request \ Range(members) : turned[r] = 0
  BY <1>8
<1> HIDE DEF over
<1>13. turned \in [Request -> Nat] /\ \A r \in Request : turned[r] <= passed[r] + 1
  BY <1>3
<1> HIDE DEF turned
<1>14. Turned(turned, Rotated(members))
  BY <1>2, <1>3, <1>8, <1>11, <1>12, <1>13, RingTurns, Zenon
<1> QED BY <1>1, <1>14 DEF RingInv

LEMMA InitTurned ==
  ASSUME Init
  PROVE  RingInv
<1>1. ring = <<>> /\ passed = [r \in Request |-> 0]
  BY DEF Init
<1>2. DOMAIN ring = {} /\ Len(ring) = 0
  BY <1>1, EmptySeq, EmptyPartial
<1> QED BY <1>1, <1>2 DEF RingInv, Turned, Once

LEMMA NextTurned ==
  ASSUME Inv, CountsInv, RingInv, DecodesLeaveRoom, [Next]_vars
  PROVE  RingInv'
<1> DEFINE kept == UNCHANGED <<ring, passed>>
<1>1. CASE BeginSchedule
  BY <1>1, BeginScheduleTurns
<1>2. (\E r \in Request : Arrive(r) \/ Abort(r)) => kept
  BY Zenon DEF Arrive, Abort
<1>3. ResetPrefixCache \/ EvictForRunning \/ EvictForWaiting => kept
  BY DEF ResetPrefixCache, EvictForRunning, EvictForWaiting
<1>4. ScheduleRunning \/ PreemptLast => kept
  BY Zenon DEF ScheduleRunning, PreemptLast
<1>5. ConsiderWaiting \/ Admit => kept
  BY DEF ConsiderWaiting, Admit
<1>6. RejectWaiting \/ EndSchedule => kept
  BY DEF RejectWaiting, EndSchedule, QueueFrame
<1>7. UpdateFromOutput => kept
  BY DEF UpdateFromOutput
<1>8. UNCHANGED vars => kept
  BY DEF vars
<1>9. kept => RingInv'
  BY DEF RingInv, Turned, Once
<1> HIDE DEF kept
<1> QED BY <1>1, <1>2, <1>3, <1>4, <1>5, <1>6, <1>7, <1>8, <1>9 DEF Next, Attempt

\* In the ring, or never passed over: fewer times in a row than there are requests.
LEMMA TurnedIsOneTurn ==
  ASSUME Typed, RingInv
  PROVE  OneTurn
<1> DEFINE N == Cardinality(Request)
<1>1. passed \in [Request -> Nat] /\ ring \in Seq(Request)
      /\ (\A i \in 1 .. Len(ring) : passed[ring[i]] + i <= N)
      /\ \A r \in Request \ Range(ring) : passed[r] = 0
  BY TypedFacts DEF RingInv, Turned
<1>2. N \in Nat /\ (Request # {} => N # 0)
  BY EngineAssumption, FS_EmptySet, FS_CardinalityType
<1> HIDE DEF N
<1>3. ASSUME NEW r \in Request
      PROVE  passed[r] < N
  <2> DEFINE was == passed[r]
  <2>1. was \in Nat
    BY <1>1
  <2>2. CASE r \in Range(ring)
    <3>1. PICK i \in 1 .. Len(ring) : ring[i] = r
      BY <1>1, <2>2, LenProperties DEF Range
    <3>2. was + i <= N /\ i \in Int /\ i >= 1
      BY <1>1, <3>1
    <3> HIDE DEF was
    <3>3. was < N
      BY <1>2, <2>1, <3>2
    <3> QED BY <3>3 DEF was
  <2>3. CASE r \notin Range(ring)
    BY <1>1, <1>2, <2>3
  <2> QED BY <2>2, <2>3
<1> QED BY <1>3 DEF OneTurn, N

-----------------------------------------------------------------------------
\* The theorems.

\* Requests, seats, frontiers, pages, queues and frames keep their types, whatever
\* the model samples and however often requests are aborted or preempted.
THEOREM TypeCorrect == Spec => []Typed
<1>1. Inv => Typed
  BY DEF Inv
<1> QED BY <1>1, InvHolds, PTL

\* A seat belongs to one lease as long as a queued frame may write it, and exactly
\* the running requests own seats: finishing, aborting, preempting and claiming
\* again while frames are queued never gives a seat two writers.
THEOREM SeatsHaveOneWriter == Spec => []OneWriter
  BY InvHolds, InvIsOneWriter, PTL

\* What the adapter asserts never fails: a pending checkpoint finds its seat idle
\* and in its epoch, an owned seat keeps no checkpoint, and an offer still stands
\* when its request is admitted, whatever was evicted in between.
THEOREM AssertionsHold == Spec => []NothingRaises
  BY InvHolds, InvIsNothingRaises, PTL

\* Every page is counted once by each that holds it, a request, a seat's checkpoint,
\* a pending checkpoint or a deferred free: no page is lost or freed twice when
\* requests end, are preempted or take over a checkpoint, frames retire, and
\* checkpoints are published, evicted or forgotten.
THEOREM PagesAreExact == Spec => []PagesExact
<1>1. Init => Inv /\ PagesInv
  BY InitHolds, InitPages
<1>2. Inv /\ PagesInv /\ [Next]_vars => (Inv /\ PagesInv)'
  BY NextKeeps, NextPages
<1>3. Inv /\ PagesInv => PagesExact
  BY InvIsPagesExact
<1> QED BY <1>1, <1>2, <1>3, PTL DEF Spec

\* A prefill that could be served waits at most one turn of the ring for its grant,
\* as long as the decodes, which are served first, leave room for one verify row:
\* the ring turns by a place in every attempt, served or not, and its head has its
\* grant.
THEOREM PrefillsWaitOneTurn == Spec /\ []DecodesLeaveRoom => []OneTurn
<1>1. Init => CountsInv /\ RingInv
  BY InitCounts, InitTurned
<1>2. Inv /\ CountsInv /\ RingInv /\ DecodesLeaveRoom /\ [Next]_vars
        => CountsInv' /\ RingInv'
  BY NextCounts, NextTurned
<1>3. Inv /\ RingInv => OneTurn
  BY TurnedIsOneTurn DEF Inv
<1> QED BY <1>1, <1>2, <1>3, InvHolds, PTL DEF Spec
=============================================================================
