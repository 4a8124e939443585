------------------------ MODULE LiveSchedulerProofs ------------------------
(***************************************************************************)
(* Proofs about ResidentTable, its callers and LiveScheduler, for every    *)
(* capacity, every set of questions, every model and any number of         *)
(* requests.                                                               *)
(*                                                                         *)
(* The first part has lemmas about the table, method by method: what the   *)
(* table a method leaves behind looks like (...Fields), that the pages     *)
(* stay partitioned (...Partition), that the tokens stay covered           *)
(* (...Covered), and that leases resolve as before (...Keeps); and what    *)
(* the page counts of can_reserve and reserve promise.                     *)
(*                                                                         *)
(* The second part is what ResidentLeasing keeps.  The invariant           *)
(* LeasingInv adds to the table's half (TableOK) what the callers know:    *)
(* LeasesKnown, no lease is numbered above the sequence, is the            *)
(* strengthening LeaseIntegrity needs, because a fresh request number must *)
(* not be one that an old lease already carries.                           *)
(*                                                                         *)
(* The third part is what the state of LiveScheduler keeps: requests keep  *)
(* their order, leases match the running protocols, anchors match          *)
(* histories, and histories survive preemption.  Until close the state is  *)
(* Sound, and after it Ended.  The properties need each other: what a      *)
(* commit appends to a seat is what the client was streamed only while the *)
(* seat is this request's (Held), and a decode emits what the prompt lets  *)
(* follow only while the protocol stands where the tokens of its seat end  *)
(* (Protocols, Going), within the pages it was granted and the quota its   *)
(* question leaves (Streams).                                              *)
(*                                                                         *)
(* The last is what it promises its clients: it implements                 *)
(* CompletionService, the table accepts every call it makes, and no step   *)
(* of a request waits for longer than there are execution seats.  Each     *)
(* rests on the third part and on an invariant of its own.  Answers: what  *)
(* a request has streamed follows its prompt, and what it is about to      *)
(* commit follows that.  Aged: of the steps that have waited for n waves,  *)
(* n fewer are left than there are execution seats.                        *)
(***************************************************************************)
EXTENDS LiveScheduler, ResidentLeasing, FiniteSetTheorems, FunctionTheorems,
        WellFoundedInduction, SequenceTheorems, TLAPS

-----------------------------------------------------------------------------
\* The table.

LEMMA SeatsType ==
  ASSUME NEW t \in Table, NEW i \in Seats
  PROVE  /\ t.seats[i] \in Resident
         /\ t.seats[i].tokens \in Seq(Token)
         /\ t.seats[i].pages \in Seq(Page)
         /\ t.seats[i].incarnation \in Nat
         /\ t.seats[i].request \in Nat
         /\ t.seats[i].touched \in Nat
         /\ t.seats[i].cache_salt \in Salt
  BY DEF Table, Resident

LEMMA PagesForType ==
  ASSUME NEW n \in Nat
  PROVE  PagesFor(n) \in Nat /\ (PagesFor(n) - 1) * PageTokens < n
         /\ n <= PagesFor(n) * PageTokens
  BY CapacityAssumption DEF PagesFor

LEMMA EvictedResidentType ==
  ASSUME NEW r \in Resident
  PROVE  EvictedResident(r) \in Resident
  BY CapacityAssumption DEF EvictedResident, Resident

LEMMA EvictType ==
  ASSUME NEW t \in Table, NEW S \in SUBSET Seats
  PROVE  Evict(t, S) \in Table
  <1>1. \A i \in Seats : EvictedResident(t.seats[i]) \in Resident
    BY SeatsType, EvictedResidentType
  <1>2. PagesOf(t, S) \in SUBSET Page
    BY SeatsType DEF PagesOf, Range
  <1> QED
    BY <1>1, <1>2 DEF Evict, Table

LEMMA EvictFields ==
  ASSUME NEW t \in Table, NEW S \in SUBSET Seats
  PROVE  /\ Evict(t, S) \in Table
         /\ Evict(t, S).free = t.free \cup PagesOf(t, S)
         /\ Evict(t, S).generation = t.generation
         /\ Evict(t, S).sequence = t.sequence
         /\ \A j \in S : Evict(t, S).seats[j] = EvictedResident(t.seats[j])
         /\ \A j \in Seats \ S : Evict(t, S).seats[j] = t.seats[j]
  BY EvictType DEF Evict, Table

LEMMA FailedEvictFields ==
  ASSUME NEW t \in Table, NEW i \in Seats
  PROVE  LET r == EvictedResident(t.seats[i])
             u == FailedEvict(t, i)
         IN  /\ u \in Table
             /\ u.free = t.free
             /\ u.generation = t.generation
             /\ u.sequence = t.sequence
             /\ u.seats[i] = [r EXCEPT !.pages = t.seats[i].pages]
             /\ \A j \in Seats \ {i} : u.seats[j] = t.seats[j]
  <1> DEFINE r == EvictedResident(t.seats[i])
             u == FailedEvict(t, i)
             q == [r EXCEPT !.pages = t.seats[i].pages]
  <1>0. r \in Resident /\ t.seats[i].pages \in Seq(Page)
    BY SeatsType, EvictedResidentType
  <1>1. q \in Resident
    <2> HIDE DEF r
    <2> QED BY <1>0 DEF Resident
  <1>2. u = [t EXCEPT !.seats[i] = q]
    BY DEF FailedEvict
  <1> HIDE DEF q, u
  <1>3. u \in Table /\ u.seats[i] = q /\ u.free = t.free
        /\ u.generation = t.generation /\ u.sequence = t.sequence
        /\ \A j \in Seats \ {i} : u.seats[j] = t.seats[j]
    BY <1>1, <1>2 DEF Table
  <1> QED
    BY <1>3 DEF q, u

LEMMA AcquireFields ==
  ASSUME NEW t \in Table, NEW i \in Seats, NEW prompt, NEW salt \in Salt
  PROVE  LET u == Cleared(t, i, prompt, salt)
             v == Acquire(t, i, prompt, salt)
         IN  /\ v \in Table
             /\ v.free = u.free
             /\ v.generation = t.generation
             /\ v.sequence = t.sequence + 1
             /\ v.seats[i].tokens = u.seats[i].tokens
             /\ v.seats[i].pages = u.seats[i].pages
             /\ v.seats[i].incarnation = u.seats[i].incarnation
             /\ v.seats[i].request = t.sequence + 1
             /\ v.seats[i].cache_salt = salt
             /\ \A j \in Seats \ {i} : v.seats[j] = t.seats[j]
  <1> DEFINE u == Cleared(t, i, prompt, salt)
             v == Acquire(t, i, prompt, salt)
             q == [u.seats[i] EXCEPT !.cache_salt = salt,
                                     !.request = t.sequence + 1,
                                     !.touched = t.sequence + 1]
  <1>1. u \in Table /\ u.sequence = t.sequence /\ u.generation = t.generation
        /\ \A j \in Seats \ {i} : u.seats[j] = t.seats[j]
    BY EvictFields DEF Cleared
  <1>2. v = [u EXCEPT !.sequence = t.sequence + 1, !.seats[i] = q]
    BY DEF Acquire
  <1> HIDE DEF u
  <1>3. t.sequence + 1 \in Nat
    BY DEF Table
  <1>4. /\ q \in Resident
        /\ q.tokens = u.seats[i].tokens
        /\ q.pages = u.seats[i].pages
        /\ q.incarnation = u.seats[i].incarnation
        /\ q.request = t.sequence + 1
        /\ q.cache_salt = salt
    BY <1>1, <1>3, ZenonT(60) DEF Resident, Table
  <1> HIDE DEF q, v
  <1>5. /\ v \in Table
        /\ v.free = u.free
        /\ v.generation = u.generation
        /\ v.sequence = u.sequence + 1
        /\ v.seats[i] = q
        /\ \A j \in Seats \ {i} : v.seats[j] = u.seats[j]
    <2>1. v.seats = [u.seats EXCEPT ![i] = q] /\ v.free = u.free
          /\ v.generation = u.generation /\ v.sequence = u.sequence + 1
      BY <1>1, <1>2 DEF Table
    <2>2. v = [seats |-> v.seats, free |-> v.free,
               generation |-> v.generation, sequence |-> v.sequence]
      BY <1>1, <1>2 DEF Table
    <2>3. v.seats \in [Seats -> Resident]
      BY <2>1, <1>1, <1>4 DEF Table
    <2> QED BY <1>1, <1>4, <2>1, <2>2, <2>3 DEF Table
  <1> QED
    BY <1>1, <1>4, <1>5 DEF u, v

\* v is u with grant behind the pages of seat i; in u only others lost pages.
Granted(t, u, v, i, grant) ==
  /\ u \in Table /\ v \in Table
  /\ grant \in Seq(u.free) /\ IsInjective(grant)
  /\ v.free = u.free \ Range(grant)
  /\ v.generation = t.generation
  /\ v.sequence = t.sequence
  /\ u.seats[i] = t.seats[i]
  /\ v.seats[i].tokens = t.seats[i].tokens
  /\ v.seats[i].pages = t.seats[i].pages \o grant
  /\ v.seats[i].incarnation = t.seats[i].incarnation
  /\ v.seats[i].request = t.seats[i].request
  /\ v.seats[i].cache_salt = t.seats[i].cache_salt
  /\ \A j \in Seats \ {i} : v.seats[j] = u.seats[j]

LEMMA ReserveFields ==
  ASSUME NEW t \in Table, NEW l \in Lease, NEW n \in Nat,
         NEW grant \in Grants(AfterShed(t, l, n), Needed(t, l, n)),
         l.seat \notin Idle(t)
  PROVE  Granted(t, AfterShed(t, l, n), Reserve(t, l, n, grant), l.seat, grant)
  <1> DEFINE i == l.seat
             S == Shed(t, Needed(t, l, n))
             u == AfterShed(t, l, n)
             v == Reserve(t, l, n, grant)
             q == [u.seats[i] EXCEPT !.pages = @ \o grant]
  <1>0. i \in Seats
    BY DEF Lease
  <1>1. S \in SUBSET Seats /\ i \notin S
    BY DEF Shed, Victims, Idle
  <1>2. /\ u \in Table /\ u.generation = t.generation
        /\ u.sequence = t.sequence /\ u.seats[i] = t.seats[i]
    <2>1. u = Evict(t, S)
      BY DEF AfterShed
    <2> QED BY <1>0, <1>1, <2>1, EvictFields
  <1>3. Needed(t, l, n) \in Nat
    <2>1. PagesFor(n) \in Nat
      BY PagesForType
    <2>2. t.seats[l.seat].pages \in Seq(Page)
      BY <1>0, SeatsType
    <2>3. Len(t.seats[l.seat].pages) \in Nat
      BY <2>2
    <2> QED BY <2>1, <2>3 DEF Needed
  <1>4. grant \in Seq(u.free) /\ IsInjective(grant)
    <2> DEFINE k == Needed(t, l, n)
    <2>1. grant \in [1 .. k -> u.free] /\ IsInjective(grant)
      BY DEF Grants
    <2> HIDE DEF k, u
    <2>2. k \in Nat
      BY <1>3 DEF k
    <2> QED BY <2>1, <2>2
  <1>5. v = [u EXCEPT !.seats[i] = q, !.free = u.free \ Range(grant)]
    BY DEF Reserve
  <1> HIDE DEF u, v, S
  <1>6. u.free \subseteq Page /\ grant \in Seq(Page)
    BY <1>2, <1>4 DEF Table
  <1>7. u.seats[i].pages \o grant \in Seq(Page)
    BY <1>0, <1>2, <1>6, SeatsType
  <1>8. /\ q \in Resident
        /\ q.tokens = t.seats[i].tokens
        /\ q.pages = t.seats[i].pages \o grant
        /\ q.incarnation = t.seats[i].incarnation
        /\ q.request = t.seats[i].request
        /\ q.cache_salt = t.seats[i].cache_salt
    BY <1>0, <1>2, <1>7, SeatsType DEF Resident
  <1> HIDE DEF q
  <1>9. /\ v \in Table
        /\ v.free = u.free \ Range(grant)
        /\ v.generation = u.generation
        /\ v.sequence = u.sequence
        /\ v.seats[i] = q
        /\ \A j \in Seats \ {i} : v.seats[j] = u.seats[j]
    BY <1>0, <1>2, <1>5, <1>8 DEF Table
  <1> QED
    BY <1>2, <1>4, <1>8, <1>9 DEF u, v, Granted

LEMMA CommitFields ==
  ASSUME NEW t \in Table, NEW l \in Lease, NEW tokens \in Seq(Token)
  PROVE  LET v == Commit(t, l, tokens)
             i == l.seat
         IN  /\ v \in Table
             /\ v.free = t.free
             /\ v.generation = t.generation
             /\ v.sequence = t.sequence
             /\ v.seats[i].tokens = t.seats[i].tokens \o tokens
             /\ v.seats[i].pages = t.seats[i].pages
             /\ v.seats[i].incarnation = t.seats[i].incarnation
             /\ v.seats[i].request = t.seats[i].request
             /\ v.seats[i].cache_salt = t.seats[i].cache_salt
             /\ \A j \in Seats \ {i} : v.seats[j] = t.seats[j]
  <1> DEFINE i == l.seat
             v == Commit(t, l, tokens)
             q == [t.seats[i] EXCEPT !.tokens = @ \o tokens]
  <1>1. i \in Seats
    BY DEF Lease
  <1>4. v = [t EXCEPT !.seats[i] = q]
    BY DEF Commit
  <1> HIDE DEF i
  <1>2. t.seats[i].tokens \o tokens \in Seq(Token)
    BY <1>1, SeatsType
  <1>3. /\ q \in Resident
        /\ q.tokens = t.seats[i].tokens \o tokens
        /\ q.pages = t.seats[i].pages
        /\ q.incarnation = t.seats[i].incarnation
        /\ q.request = t.seats[i].request
        /\ q.cache_salt = t.seats[i].cache_salt
    BY <1>1, <1>2, SeatsType DEF Resident
  <1> HIDE DEF q, v
  <1>5. /\ v \in Table /\ v.free = t.free /\ v.generation = t.generation
        /\ v.sequence = t.sequence /\ v.seats[i] = q
        /\ \A j \in Seats \ {i} : v.seats[j] = t.seats[j]
    BY <1>1, <1>3, <1>4 DEF Table
  <1> QED
    BY <1>3, <1>5 DEF v, i

-----------------------------------------------------------------------------
\* Arithmetic of page counts.

LEMMA PagesForLeast ==
  ASSUME NEW n \in Nat, NEW m \in Nat, n <= m * PageTokens
  PROVE  PagesFor(n) <= m
  <1>1. /\ PagesFor(n) \in Nat
        /\ (PagesFor(n) - 1) * PageTokens < n
    BY PagesForType
  <1>2. PageTokens \in Nat /\ PageTokens >= 1
    BY CapacityAssumption
  <1>3. SUFFICES ASSUME m + 1 <= PagesFor(n) PROVE FALSE
    BY <1>1
  <1> DEFINE d == PagesFor(n) - 1 - m
  <1>4. d \in Nat /\ PagesFor(n) - 1 = m + d
    BY <1>1, <1>3
  <1> HIDE DEF d
  <1>5. (m + d) * PageTokens = m * PageTokens + d * PageTokens
    BY <1>2, <1>4
  <1>6. d * PageTokens >= 0
    BY <1>2, <1>4
  <1>7. m * PageTokens \in Nat /\ d * PageTokens \in Nat
    BY <1>2, <1>4
  <1> QED
    BY <1>1, <1>4, <1>5, <1>6, <1>7

LEMMA MorePages ==
  ASSUME NEW x \in Nat, NEW m \in Nat, NEW k \in Nat, x <= m * PageTokens
  PROVE  x <= (m + k) * PageTokens
  <1>1. PageTokens \in Nat
    BY CapacityAssumption
  <1>2. (m + k) * PageTokens = m * PageTokens + k * PageTokens
    BY <1>1
  <1>3. k * PageTokens \in Nat /\ m * PageTokens \in Nat
    BY <1>1
  <1> QED BY <1>2, <1>3

LEMMA FinishFields ==
  ASSUME NEW t \in Table, NEW l \in Lease, TokensCovered(t)
  PROVE  LET v == Finish(t, l)
             i == l.seat
             r == t.seats[i]
             keep == PagesFor(Len(r.tokens))
         IN  /\ v \in Table
             /\ keep \in Nat /\ keep <= Len(r.pages)
             /\ v.free = t.free \cup {r.pages[k] : k \in keep + 1 .. Len(r.pages)}
             /\ v.generation = t.generation
             /\ v.sequence = t.sequence
             /\ v.seats[i].tokens = r.tokens
             /\ v.seats[i].pages = SubSeq(r.pages, 1, keep)
             /\ v.seats[i].incarnation = r.incarnation
             /\ v.seats[i].request = NoRequest
             /\ v.seats[i].cache_salt = r.cache_salt
             /\ \A j \in Seats \ {i} : v.seats[j] = t.seats[j]
  <1> DEFINE v == Finish(t, l)
             i == l.seat
             r == t.seats[i]
             keep == PagesFor(Len(r.tokens))
             q == [r EXCEPT !.pages = SubSeq(r.pages, 1, keep),
                            !.request = NoRequest]
             F == t.free \cup {r.pages[k] : k \in keep + 1 .. Len(r.pages)}
  <1>1. i \in Seats /\ r \in Resident
    BY SeatsType DEF Lease
  <1>2. v = [t EXCEPT !.seats[i] = q, !.free = F]
    BY DEF Finish
  <1>3. r.pages \in Seq(Page) /\ r.tokens \in Seq(Token)
    BY <1>1, SeatsType
  <1>4. keep \in Nat /\ keep <= Len(r.pages)
    <2>1. Len(r.tokens) \in Nat /\ Len(r.pages) \in Nat
      BY <1>3
    <2>2. Len(r.tokens) <= Len(r.pages) * PageTokens
      BY <1>1 DEF TokensCovered, SeatCovered
    <2> HIDE DEF r
    <2> QED BY <2>1, <2>2, PagesForLeast, PagesForType
  <1> HIDE DEF keep, v, r, i
  <1>5. F \in SUBSET Page
    BY <1>3, <1>4 DEF Table
  <1>6. SubSeq(r.pages, 1, keep) \in Seq(Page)
    BY <1>3, <1>4
  <1>7. /\ q \in Resident
        /\ q.tokens = r.tokens
        /\ q.pages = SubSeq(r.pages, 1, keep)
        /\ q.incarnation = r.incarnation
        /\ q.request = NoRequest
        /\ q.cache_salt = r.cache_salt
    BY <1>1, <1>6 DEF Resident, NoRequest
  <1> HIDE DEF q, F
  <1>8. /\ v \in Table /\ v.free = F /\ v.generation = t.generation
        /\ v.sequence = t.sequence /\ v.seats[i] = q
        /\ \A j \in Seats \ {i} : v.seats[j] = t.seats[j]
    BY <1>1, <1>2, <1>5, <1>7 DEF Table
  <1> QED
    BY <1>4, <1>7, <1>8 DEF v, i, r, keep, F

-----------------------------------------------------------------------------
\* Every method keeps the pages partitioned.

LEMMA EvictPartition ==
  ASSUME NEW t \in Table, NEW S \in SUBSET Seats, PagesPartitioned(t)
  PROVE  PagesPartitioned(Evict(t, S))
  <1> DEFINE u == Evict(t, S)
  <1>1. /\ u.free = t.free \cup PagesOf(t, S)
        /\ \A j \in S : u.seats[j].pages = <<>>
        /\ \A j \in Seats \ S : u.seats[j] = t.seats[j]
    <2>1. \A j \in S : u.seats[j] = EvictedResident(t.seats[j])
      BY EvictFields
    <2>2. \A r : EvictedResident(r).pages = <<>>
      BY DEF EvictedResident
    <2> QED BY EvictFields, <2>1, <2>2
  <1> HIDE DEF u
  <1>2. Range(<<>>) = {} /\ IsInjective(<<>>)
    BY DEF Range, IsInjective
  <1>3. \A i \in Seats : Range(t.seats[i].pages) \subseteq PagesOf(t, Seats)
    BY DEF PagesOf
  <1>4. PagesOf(t, Seats) \subseteq Page
    BY DEF PagesPartitioned
  <1>5. \A i \in Seats : IsInjective(u.seats[i].pages)
    BY <1>1, <1>2 DEF PagesPartitioned
  <1>6. \A i \in Seats : Range(u.seats[i].pages) \cap u.free = {}
    <2> TAKE i \in Seats
    <2>1. CASE i \in S
      BY <1>1, <1>2, <2>1
    <2>2. CASE i \notin S
      <3>1. u.seats[i].pages = t.seats[i].pages
        BY <1>1, <2>2
      <3>2. Range(t.seats[i].pages) \cap t.free = {}
        BY DEF PagesPartitioned
      <3>3. \A j \in S : Range(t.seats[i].pages) \cap Range(t.seats[j].pages) = {}
        BY <2>2 DEF PagesPartitioned
      <3>4. Range(t.seats[i].pages) \cap PagesOf(t, S) = {}
        BY <3>3 DEF PagesOf
      <3> QED BY <1>1, <3>1, <3>2, <3>4
    <2> QED BY <2>1, <2>2
  <1>7. \A i, j \in Seats :
          i # j => Range(u.seats[i].pages) \cap Range(u.seats[j].pages) = {}
    BY <1>1, <1>2 DEF PagesPartitioned
  <1>8. Page = u.free \cup PagesOf(u, Seats)
    <2>1. PagesOf(t, S) \subseteq PagesOf(t, Seats)
      BY DEF PagesOf
    <2>2. ASSUME NEW p \in Page PROVE p \in u.free \cup PagesOf(u, Seats)
      <3>1. p \in t.free \cup PagesOf(t, Seats)
        BY DEF PagesPartitioned
      <3>2. CASE p \in t.free
        BY <1>1, <3>2
      <3>3. CASE p \in PagesOf(t, Seats)
        <4>1. PICK i \in Seats : p \in Range(t.seats[i].pages)
          BY <3>3 DEF PagesOf
        <4>2. CASE i \in S
          BY <1>1, <4>1, <4>2 DEF PagesOf
        <4>3. CASE i \notin S
          BY <1>1, <4>1, <4>3 DEF PagesOf
        <4> QED BY <4>2, <4>3
      <3> QED BY <3>1, <3>2, <3>3
    <2>3. PagesOf(u, Seats) \subseteq Page
      <3>1. \A i \in Seats : Range(u.seats[i].pages) \subseteq Page
        BY <1>1, <1>2, <1>3, <1>4
      <3> QED BY <3>1 DEF PagesOf
    <2>4. u.free \subseteq Page
      BY <1>1, <1>4, <2>1 DEF Table
    <2> QED BY <2>2, <2>3, <2>4
  <1> QED
    BY <1>5, <1>6, <1>7, <1>8 DEF PagesPartitioned, u

\* Tables that agree on their pages agree on the partition.
LEMMA SamePagesPartition ==
  ASSUME NEW t, NEW u, PagesPartitioned(t), u.free = t.free,
         \A i \in Seats : u.seats[i].pages = t.seats[i].pages
  PROVE  PagesPartitioned(u)
  <1>1. PagesOf(u, Seats) = PagesOf(t, Seats)
    BY DEF PagesOf
  <1> QED
    BY <1>1 DEF PagesPartitioned

LEMMA AcquirePartition ==
  ASSUME NEW t \in Table, NEW i \in Seats, NEW prompt, NEW salt \in Salt,
         PagesPartitioned(t)
  PROVE  PagesPartitioned(Acquire(t, i, prompt, salt))
  <1> DEFINE u == Cleared(t, i, prompt, salt)
             v == Acquire(t, i, prompt, salt)
  <1>1. PagesPartitioned(u) /\ \A j \in Seats \ {i} : u.seats[j] = t.seats[j]
    BY EvictPartition, EvictFields DEF Cleared
  <1>2. v.free = u.free /\ v.seats[i].pages = u.seats[i].pages
        /\ \A j \in Seats \ {i} : v.seats[j] = t.seats[j]
    BY AcquireFields
  <1> HIDE DEF u, v
  <1>3. \A j \in Seats : v.seats[j].pages = u.seats[j].pages
    BY <1>1, <1>2
  <1>4. PagesPartitioned(v)
    BY <1>1, <1>2, <1>3, SamePagesPartition
  <1> QED BY <1>4 DEF v

\* Concatenating disjoint injective sequences.
LEMMA ConcatInjective ==
  ASSUME NEW S, NEW p \in Seq(S), NEW q \in Seq(S),
         IsInjective(p), IsInjective(q), Range(p) \cap Range(q) = {}
  PROVE  IsInjective(p \o q) /\ Range(p \o q) = Range(p) \cup Range(q)
  <1>1. /\ p \o q \in Seq(S)
        /\ Len(p \o q) = Len(p) + Len(q)
        /\ \A k \in 1 .. Len(p) : (p \o q)[k] = p[k]
        /\ \A k \in Len(p) + 1 .. Len(p) + Len(q) : (p \o q)[k] = q[k - Len(p)]
    OBVIOUS
  <1>2. Range(p) = {p[k] : k \in 1 .. Len(p)} /\ Range(q) = {q[k] : k \in 1 .. Len(q)}
        /\ Range(p \o q) = {(p \o q)[k] : k \in 1 .. Len(p) + Len(q)}
    BY <1>1 DEF Range
  <1>3. Range(p \o q) = Range(p) \cup Range(q)
    <2>1. ASSUME NEW x \in Range(q) PROVE x \in Range(p \o q)
      <3>1. PICK k \in 1 .. Len(q) : x = q[k]
        BY <1>2, <2>1
      <3>2. k + Len(p) \in Len(p) + 1 .. Len(p) + Len(q)
        BY <3>1
      <3>3. (p \o q)[k + Len(p)] = x
        BY <1>1, <3>1, <3>2
      <3> QED BY <1>2, <3>2, <3>3
    <2>2. ASSUME NEW x \in Range(p) PROVE x \in Range(p \o q)
      BY <1>1, <1>2, <2>2
    <2>3. ASSUME NEW x \in Range(p \o q) PROVE x \in Range(p) \cup Range(q)
      <3>1. PICK k \in 1 .. Len(p) + Len(q) : x = (p \o q)[k]
        BY <1>2, <2>3
      <3>2. CASE k \in 1 .. Len(p)
        BY <1>1, <1>2, <3>1, <3>2
      <3>3. CASE k \in Len(p) + 1 .. Len(p) + Len(q)
        <4>1. x = q[k - Len(p)] /\ k - Len(p) \in 1 .. Len(q)
          BY <1>1, <3>1, <3>3
        <4> QED BY <1>2, <4>1
      <3> QED BY <3>1, <3>2, <3>3
    <2> QED BY <2>1, <2>2, <2>3
  <1>4. ASSUME NEW a \in 1 .. Len(p) + Len(q), NEW b \in 1 .. Len(p) + Len(q),
               (p \o q)[a] = (p \o q)[b]
        PROVE  a = b
    <2>1. CASE a <= Len(p) /\ b <= Len(p)
      BY <1>1, <1>4, <2>1 DEF IsInjective
    <2>2. CASE a > Len(p) /\ b > Len(p)
      <3>1. q[a - Len(p)] = q[b - Len(p)]
        BY <1>1, <1>4, <2>2
      <3>2. a - Len(p) \in 1 .. Len(q) /\ b - Len(p) \in 1 .. Len(q)
        BY <2>2
      <3>3. a - Len(p) = b - Len(p)
        BY <3>1, <3>2 DEF IsInjective
      <3> QED BY <3>3
    <2>3. CASE a <= Len(p) /\ b > Len(p)
      <3>1. p[a] = q[b - Len(p)] /\ a \in 1 .. Len(p) /\ b - Len(p) \in 1 .. Len(q)
        BY <1>1, <1>4, <2>3
      <3> QED BY <1>2, <3>1
    <2>4. CASE a > Len(p) /\ b <= Len(p)
      <3>1. p[b] = q[a - Len(p)] /\ b \in 1 .. Len(p) /\ a - Len(p) \in 1 .. Len(q)
        BY <1>1, <1>4, <2>4
      <3> QED BY <1>2, <3>1
    <2> QED BY <2>1, <2>2, <2>3, <2>4
  <1>5. IsInjective(p \o q)
    BY <1>1, <1>4 DEF IsInjective
  <1> QED BY <1>3, <1>5

LEMMA ReservePartition ==
  ASSUME NEW t \in Table, NEW l \in Lease, NEW n \in Nat,
         NEW grant \in Grants(AfterShed(t, l, n), Needed(t, l, n)),
         l.seat \notin Idle(t), PagesPartitioned(t)
  PROVE  PagesPartitioned(Reserve(t, l, n, grant))
  <1> DEFINE i == l.seat
             u == AfterShed(t, l, n)
             v == Reserve(t, l, n, grant)
  <1>1. PagesPartitioned(u)
    <2>1. Shed(t, Needed(t, l, n)) \in SUBSET Seats
      BY DEF Shed, Victims, Idle
    <2> QED BY <2>1, EvictPartition DEF AfterShed
  <1>2. /\ i \in Seats
        /\ u \in Table /\ v \in Table
        /\ grant \in Seq(u.free) /\ IsInjective(grant)
        /\ v.free = u.free \ Range(grant)
        /\ u.seats[i] = t.seats[i]
        /\ v.seats[i].pages = t.seats[i].pages \o grant
        /\ \A j \in Seats \ {i} : v.seats[j] = u.seats[j]
    <2>1. i \in Seats
      BY DEF Lease
    <2>2. Granted(t, u, v, i, grant)
      BY ReserveFields
    <2> HIDE DEF u, v, i
    <2> QED BY <2>1, <2>2 DEF Granted
  <1> HIDE DEF u, v, i
  <1>3. Range(grant) \subseteq u.free
    BY <1>2 DEF Range
  <1>4. /\ u.seats[i].pages \in Seq(Page) /\ grant \in Seq(Page)
        /\ IsInjective(u.seats[i].pages)
        /\ Range(u.seats[i].pages) \cap Range(grant) = {}
    <2>1. u.seats[i].pages \in Seq(Page) /\ u.free \subseteq Page
      BY <1>2, SeatsType DEF Table
    <2>2. grant \in Seq(Page)
      BY <1>2, <2>1
    <2> QED BY <1>1, <1>2, <1>3, <2>1, <2>2 DEF PagesPartitioned
  <1>5. /\ IsInjective(v.seats[i].pages)
        /\ Range(v.seats[i].pages) = Range(u.seats[i].pages) \cup Range(grant)
    BY <1>2, <1>4, ConcatInjective
  <1>6. \A j \in Seats : IsInjective(v.seats[j].pages)
    BY <1>1, <1>2, <1>5 DEF PagesPartitioned
  <1>7. \A j \in Seats : Range(v.seats[j].pages) \cap v.free = {}
    BY <1>1, <1>2, <1>5 DEF PagesPartitioned
  <1>8. \A j, k \in Seats :
          j # k => Range(v.seats[j].pages) \cap Range(v.seats[k].pages) = {}
    <2>1. \A j, k \in Seats :
            j # k => Range(u.seats[j].pages) \cap Range(u.seats[k].pages) = {}
      BY <1>1 DEF PagesPartitioned
    <2>2. \A j \in Seats : Range(u.seats[j].pages) \cap Range(grant) = {}
      BY <1>1, <1>3 DEF PagesPartitioned
    <2>3. \A j \in Seats \ {i} : Range(v.seats[j].pages) = Range(u.seats[j].pages)
      BY <1>2
    <2> QED BY <1>2, <1>5, <2>1, <2>2, <2>3
  <1>9. PagesOf(v, Seats) = PagesOf(u, Seats) \cup Range(grant)
    BY <1>2, <1>5 DEF PagesOf
  <1>10. Page = v.free \cup PagesOf(v, Seats)
    BY <1>1, <1>2, <1>3, <1>9 DEF PagesPartitioned
  <1> QED BY <1>6, <1>7, <1>8, <1>10 DEF PagesPartitioned, v

LEMMA FinishPartition ==
  ASSUME NEW t \in Table, NEW l \in Lease, TokensCovered(t), PagesPartitioned(t)
  PROVE  PagesPartitioned(Finish(t, l))
  <1> DEFINE i == l.seat
             p == t.seats[i].pages
             keep == PagesFor(Len(t.seats[i].tokens))
             v == Finish(t, l)
             tail == {p[k] : k \in keep + 1 .. Len(p)}
  <1>1. /\ i \in Seats
        /\ keep \in Nat /\ keep <= Len(p)
        /\ v.free = t.free \cup tail
        /\ v.seats[i].pages = SubSeq(p, 1, keep)
        /\ \A j \in Seats \ {i} : v.seats[j] = t.seats[j]
    BY FinishFields DEF Lease
  <1>2. p \in Seq(Page) /\ IsInjective(p)
    BY <1>1, SeatsType DEF PagesPartitioned
  <1>. HIDE DEF keep, v
  <1>3. /\ Len(SubSeq(p, 1, keep)) = keep
        /\ \A k \in 1 .. keep : SubSeq(p, 1, keep)[k] = p[k]
        /\ DOMAIN SubSeq(p, 1, keep) = 1 .. keep
    BY <1>1, <1>2
  <1>4. Range(SubSeq(p, 1, keep)) = {p[k] : k \in 1 .. keep}
    BY <1>3 DEF Range
  <1>5. /\ Range(p) = Range(SubSeq(p, 1, keep)) \cup tail
        /\ Range(SubSeq(p, 1, keep)) \cap tail = {}
    <2>1. Range(p) = {p[k] : k \in 1 .. Len(p)}
      BY <1>2 DEF Range
    <2>2. \A a, b \in 1 .. Len(p) : p[a] = p[b] => a = b
      BY <1>2 DEF IsInjective
    <2>3. Len(p) \in Nat
      BY <1>2
    <2> HIDE DEF p
    <2>4. \A k \in 1 .. Len(p) : k \in 1 .. keep \/ k \in keep + 1 .. Len(p)
      BY <1>1, <2>3
    <2>5. 1 .. keep \subseteq 1 .. Len(p) /\ keep + 1 .. Len(p) \subseteq 1 .. Len(p)
          /\ 1 .. keep \cap keep + 1 .. Len(p) = {}
      BY <1>1, <2>3
    <2>6. Range(p) = Range(SubSeq(p, 1, keep)) \cup tail
      BY <1>4, <2>1, <2>4, <2>5
    <2>7. Range(SubSeq(p, 1, keep)) \cap tail = {}
      BY <1>4, <2>2, <2>5
    <2> QED BY <2>6, <2>7
  <1>6. IsInjective(SubSeq(p, 1, keep))
    BY <1>1, <1>2, <1>3 DEF IsInjective
  <1> HIDE DEF i, p, tail
  <1>7. p = t.seats[i].pages
    BY DEF p
  <1>8. \A j \in Seats : IsInjective(v.seats[j].pages)
    BY <1>1, <1>6 DEF PagesPartitioned
  <1>9. \A j \in Seats : Range(v.seats[j].pages) \cap v.free = {}
    BY <1>1, <1>5, <1>7 DEF PagesPartitioned
  <1>10. \A j, k \in Seats :
           j # k => Range(v.seats[j].pages) \cap Range(v.seats[k].pages) = {}
    <2>1. \A j, k \in Seats :
            j # k => Range(t.seats[j].pages) \cap Range(t.seats[k].pages) = {}
      BY DEF PagesPartitioned
    <2>2. \A j \in Seats : Range(v.seats[j].pages) \subseteq Range(t.seats[j].pages)
      BY <1>1, <1>5, <1>7
    <2> QED BY <2>1, <2>2
  <1>11. Page = v.free \cup PagesOf(v, Seats)
    <2>1. PagesOf(v, Seats) \cup tail = PagesOf(t, Seats)
      <3>1. Range(v.seats[i].pages) \cup tail = Range(t.seats[i].pages)
        BY <1>1, <1>5, <1>7
      <3>2. \A j \in Seats \ {i} : Range(v.seats[j].pages) = Range(t.seats[j].pages)
        BY <1>1
      <3> QED BY <1>1, <3>1, <3>2, ZenonT(60) DEF PagesOf
    <2> QED BY <1>1, <2>1 DEF PagesPartitioned
  <1> QED BY <1>8, <1>9, <1>10, <1>11 DEF PagesPartitioned, v

-----------------------------------------------------------------------------
\* Every method keeps the committed tokens covered.

LEMMA NoTokensCovered ==
  ASSUME NEW r \in Resident, r.tokens = <<>>
  PROVE  SeatCovered(r)
  <1>1. Len(r.tokens) = 0 /\ Len(r.pages) \in Nat
    BY DEF Resident
  <1>2. PageTokens \in Nat
    BY CapacityAssumption
  <1>3. 0 <= Len(r.pages) * PageTokens
    BY <1>1, <1>2
  <1> QED BY <1>1, <1>3 DEF SeatCovered

LEMMA EvictCovered ==
  ASSUME NEW t \in Table, NEW S \in SUBSET Seats, TokensCovered(t)
  PROVE  TokensCovered(Evict(t, S))
  <1>1. \A j \in S : SeatCovered(EvictedResident(t.seats[j]))
    <2> TAKE j \in S
    <2>1. EvictedResident(t.seats[j]) \in Resident
      BY SeatsType, EvictedResidentType
    <2>2. EvictedResident(t.seats[j]).tokens = <<>>
      BY DEF EvictedResident
    <2> QED BY <2>1, <2>2, NoTokensCovered
  <1> QED BY <1>1, EvictFields DEF TokensCovered

LEMMA FailedEvictCovered ==
  ASSUME NEW t \in Table, NEW i \in Seats, TokensCovered(t)
  PROVE  TokensCovered(FailedEvict(t, i))
  <1> DEFINE u == FailedEvict(t, i)
             r == EvictedResident(t.seats[i])
  <1>1. r \in Resident /\ r.tokens = <<>>
    BY SeatsType, EvictedResidentType DEF EvictedResident
  <1>2. /\ u \in Table /\ u.seats[i] = [r EXCEPT !.pages = t.seats[i].pages]
        /\ \A j \in Seats \ {i} : u.seats[j] = t.seats[j]
    BY FailedEvictFields
  <1> HIDE DEF u, r
  <1>3. u.seats[i].tokens = <<>>
    BY <1>1, <1>2 DEF Resident
  <1>4. SeatCovered(u.seats[i])
    BY <1>2, <1>3, SeatsType, NoTokensCovered
  <1>5. TokensCovered(u)
    BY <1>2, <1>4 DEF TokensCovered
  <1> QED BY <1>5 DEF u

LEMMA AcquireCovered ==
  ASSUME NEW t \in Table, NEW i \in Seats, NEW prompt, NEW salt \in Salt,
         TokensCovered(t)
  PROVE  TokensCovered(Acquire(t, i, prompt, salt))
  <1> DEFINE u == Cleared(t, i, prompt, salt)
             v == Acquire(t, i, prompt, salt)
  <1>1. TokensCovered(u)
    BY EvictCovered DEF Cleared
  <1>2. /\ v.seats[i].tokens = u.seats[i].tokens
        /\ v.seats[i].pages = u.seats[i].pages
        /\ v.seats[i].request = t.sequence + 1
        /\ \A j \in Seats \ {i} : v.seats[j] = t.seats[j]
    BY AcquireFields
  <1>3. t.sequence + 1 # NoRequest
    BY DEF Table, NoRequest
  <1> HIDE DEF u, v
  <1>4. SeatCovered(v.seats[i])
    BY <1>1, <1>2, <1>3 DEF TokensCovered, SeatCovered
  <1>5. TokensCovered(v)
    BY <1>2, <1>4 DEF TokensCovered
  <1> QED BY <1>5 DEF v

LEMMA ReserveCovered ==
  ASSUME NEW t \in Table, NEW l \in Lease, NEW n \in Nat,
         NEW grant \in Grants(AfterShed(t, l, n), Needed(t, l, n)),
         l.seat \notin Idle(t), TokensCovered(t)
  PROVE  TokensCovered(Reserve(t, l, n, grant))
  <1> DEFINE i == l.seat
             u == AfterShed(t, l, n)
             v == Reserve(t, l, n, grant)
  <1>1. TokensCovered(u)
    <2>1. Shed(t, Needed(t, l, n)) \in SUBSET Seats
      BY DEF Shed, Victims, Idle
    <2> QED BY <2>1, EvictCovered DEF AfterShed
  <1>2. i \in Seats /\ t.seats[i].request # NoRequest
    BY DEF Lease, Idle
  <1>3. /\ v \in Table
        /\ grant \in Seq(u.free) /\ u \in Table
        /\ v.seats[i].tokens = t.seats[i].tokens
        /\ v.seats[i].pages = t.seats[i].pages \o grant
        /\ v.seats[i].request = t.seats[i].request
        /\ \A j \in Seats \ {i} : v.seats[j] = u.seats[j]
    <2>1. Granted(t, u, v, i, grant)
      BY ReserveFields
    <2> HIDE DEF u, v, i
    <2> QED BY <2>1 DEF Granted
  <1> HIDE DEF u, v, i
  <1>4. /\ Len(t.seats[i].tokens) \in Nat /\ Len(t.seats[i].pages) \in Nat
        /\ Len(grant) \in Nat
        /\ Len(v.seats[i].pages) = Len(t.seats[i].pages) + Len(grant)
    <2>1. t.seats[i].tokens \in Seq(Token) /\ t.seats[i].pages \in Seq(Page)
      BY <1>2, SeatsType
    <2> QED BY <1>3, <2>1
  <1>5. Len(v.seats[i].tokens) <= Len(v.seats[i].pages) * PageTokens
    <2>1. Len(t.seats[i].tokens) <= Len(t.seats[i].pages) * PageTokens
      BY <1>2 DEF TokensCovered, SeatCovered
    <2> QED BY <1>3, <1>4, <2>1, MorePages
  <1>6. TokensCovered(v)
    BY <1>1, <1>2, <1>3, <1>5 DEF TokensCovered, SeatCovered
  <1> QED BY <1>6 DEF v

LEMMA CommitCovered ==
  ASSUME NEW t \in Table, NEW l \in Lease, NEW tokens \in Seq(Token),
         l.seat \notin Idle(t), CommitAccepts(t, l, tokens), TokensCovered(t)
  PROVE  TokensCovered(Commit(t, l, tokens))
  <1> DEFINE i == l.seat
             v == Commit(t, l, tokens)
  <1>1. i \in Seats /\ t.seats[i].request # NoRequest
    BY DEF Lease, Idle
  <1>2. /\ v.seats[i].tokens = t.seats[i].tokens \o tokens
        /\ v.seats[i].pages = t.seats[i].pages
        /\ v.seats[i].request = t.seats[i].request
        /\ \A j \in Seats \ {i} : v.seats[j] = t.seats[j]
    BY CommitFields
  <1>3. Len(t.seats[i].tokens \o tokens) = Len(t.seats[i].tokens) + Len(tokens)
    BY <1>1, SeatsType
  <1>4. Len(v.seats[i].tokens) <= Len(v.seats[i].pages) * PageTokens
    BY <1>2, <1>3 DEF CommitAccepts
  <1> HIDE DEF v, i
  <1>5. TokensCovered(v)
    BY <1>1, <1>2, <1>4 DEF TokensCovered, SeatCovered
  <1> QED BY <1>5 DEF v

LEMMA FinishCovered ==
  ASSUME NEW t \in Table, NEW l \in Lease, TokensCovered(t)
  PROVE  TokensCovered(Finish(t, l))
  <1> DEFINE i == l.seat
             r == t.seats[i]
             keep == PagesFor(Len(r.tokens))
             v == Finish(t, l)
  <1>1. i \in Seats
    BY DEF Lease
  <1>2. /\ keep \in Nat /\ keep <= Len(r.pages)
        /\ v.seats[i].tokens = r.tokens
        /\ v.seats[i].pages = SubSeq(r.pages, 1, keep)
        /\ \A j \in Seats \ {i} : v.seats[j] = t.seats[j]
    BY FinishFields
  <1>3. r.pages \in Seq(Page) /\ r.tokens \in Seq(Token)
    BY <1>1, SeatsType
  <1>4. Len(r.tokens) <= keep * PageTokens
    <2>1. Len(r.tokens) \in Nat
      BY <1>3
    <2> HIDE DEF r
    <2> QED BY <2>1, PagesForType
  <1> HIDE DEF r, v
  <1>5. Len(v.seats[i].pages) = keep
    <2> HIDE DEF keep
    <2> QED BY <1>2, <1>3
  <1>6. SeatCovered(v.seats[i])
    BY <1>2, <1>4, <1>5 DEF SeatCovered
  <1>7. TokensCovered(v)
    BY <1>2, <1>6 DEF TokensCovered
  <1> QED BY <1>7 DEF v

-----------------------------------------------------------------------------
\* The table half of the invariant, which no caller can break.

TableOK(t) ==
  /\ t \in Table
  /\ PagesPartitioned(t)
  /\ TokensCovered(t)

LEMMA NewTableOK ==
  ASSUME NEW g \in Nat
  PROVE  TableOK(NewTable(g))
  <1> DEFINE t == NewTable(g)
  <1>1. EmptyResident \in Resident
    BY CapacityAssumption DEF EmptyResident, Resident, NoRequest
  <1>2. /\ t \in Table /\ t.free = Page
        /\ \A i \in Seats : t.seats[i] = EmptyResident
    BY <1>1 DEF NewTable, Table
  <1>3. EmptyResident.tokens = <<>> /\ EmptyResident.pages = <<>>
    BY DEF EmptyResident
  <1> HIDE DEF t
  <1>4. TokensCovered(t)
    BY <1>1, <1>2, <1>3, NoTokensCovered DEF TokensCovered
  <1>5. Range(<<>>) = {} /\ IsInjective(<<>>)
    BY DEF Range, IsInjective
  <1>6. PagesOf(t, Seats) = {}
    BY <1>2, <1>3, <1>5 DEF PagesOf
  <1>7. PagesPartitioned(t)
    BY <1>2, <1>3, <1>5, <1>6 DEF PagesPartitioned
  <1> QED BY <1>2, <1>4, <1>7 DEF TableOK, t

LEMMA EvictOK ==
  ASSUME NEW t, TableOK(t), NEW S \in SUBSET Seats
  PROVE  TableOK(Evict(t, S))
  BY EvictFields, EvictPartition, EvictCovered DEF TableOK

LEMMA FailedEvictOK ==
  ASSUME NEW t, TableOK(t), NEW i \in Seats
  PROVE  TableOK(FailedEvict(t, i))
  <1> DEFINE u == FailedEvict(t, i)
  <1>1. /\ u \in Table /\ u.free = t.free
        /\ u.seats[i] = [EvictedResident(t.seats[i]) EXCEPT !.pages = t.seats[i].pages]
        /\ \A j \in Seats \ {i} : u.seats[j] = t.seats[j]
    BY FailedEvictFields DEF TableOK
  <1>2. u.seats[i].pages = t.seats[i].pages
    BY <1>1 DEF EvictedResident
  <1>3. TokensCovered(u)
    BY FailedEvictCovered DEF TableOK
  <1> HIDE DEF u
  <1>4. \A j \in Seats : u.seats[j].pages = t.seats[j].pages
    BY <1>1, <1>2
  <1>5. PagesPartitioned(u)
    BY <1>1, <1>4, SamePagesPartition DEF TableOK
  <1> QED BY <1>1, <1>3, <1>5 DEF TableOK, u

LEMMA CommitOK ==
  ASSUME NEW t, TableOK(t), NEW l \in Lease, NEW tokens \in Seq(Token),
         l.seat \notin Idle(t), CommitAccepts(t, l, tokens)
  PROVE  TableOK(Commit(t, l, tokens))
  <1> DEFINE u == Commit(t, l, tokens)
             i == l.seat
  <1>1. /\ u \in Table /\ u.free = t.free
        /\ u.seats[i].pages = t.seats[i].pages
        /\ \A j \in Seats \ {i} : u.seats[j] = t.seats[j]
    BY CommitFields DEF TableOK
  <1>2. TokensCovered(u)
    BY CommitCovered DEF TableOK
  <1> HIDE DEF u, i
  <1>3. \A j \in Seats : u.seats[j].pages = t.seats[j].pages
    BY <1>1
  <1>4. PagesPartitioned(u)
    BY <1>1, <1>3, SamePagesPartition DEF TableOK
  <1> QED BY <1>1, <1>2, <1>4 DEF TableOK, u

\* A lease that resolves sits on a live seat.
LEMMA ResolvesLive ==
  ASSUME NEW t \in Table, NEW l \in Lease, Resolves(t, l)
  PROVE  l.seat \in Seats /\ l.seat \notin Idle(t)
  BY DEF Resolves, Lease, Idle, NoRequest

-----------------------------------------------------------------------------
\* What a method does to a lease: if it still resolves it resolved before, and
\* a seat the method was not called on is as it was.

SeatKept(t, v, l) ==
  Resolves(v, l) => Resolves(t, l) /\ v.seats[l.seat] = t.seats[l.seat]

LEMMA EvictKeeps ==
  ASSUME NEW t \in Table, NEW S \in SUBSET Idle(t), NEW l \in Lease
  PROVE  SeatKept(t, Evict(t, S), l)
  <1> DEFINE u == Evict(t, S)
  <1>1. l.seat \in Seats /\ l.request # NoRequest
    BY DEF Lease
  <1>2. S \in SUBSET Seats /\ \A j \in S : t.seats[j].request = NoRequest
    BY DEF Idle
  <1>3. /\ u.generation = t.generation
        /\ \A j \in S : u.seats[j] = EvictedResident(t.seats[j])
        /\ \A j \in Seats \ S : u.seats[j] = t.seats[j]
    BY <1>2, EvictFields
  <1>4. \A j \in S : u.seats[j].request = NoRequest
    <2>1. \A r : EvictedResident(r).request = r.request
      BY DEF EvictedResident
    <2> QED BY <1>2, <1>3, <2>1
  <1> HIDE DEF u
  <1>5. SeatKept(t, u, l)
    BY <1>1, <1>3, <1>4 DEF SeatKept, Resolves
  <1> QED BY <1>5 DEF u

LEMMA FailedEvictKeeps ==
  ASSUME NEW t \in Table, NEW i \in Idle(t), NEW l \in Lease
  PROVE  SeatKept(t, FailedEvict(t, i), l)
  <1> DEFINE u == FailedEvict(t, i)
  <1>1. l.seat \in Seats /\ l.request # NoRequest
    BY DEF Lease
  <1>2. i \in Seats /\ t.seats[i].request = NoRequest
    BY DEF Idle
  <1>3. /\ u.generation = t.generation
        /\ u.seats[i] = [EvictedResident(t.seats[i]) EXCEPT !.pages = t.seats[i].pages]
        /\ \A j \in Seats \ {i} : u.seats[j] = t.seats[j]
    BY <1>2, FailedEvictFields
  <1>4. u.seats[i].request = NoRequest
    BY <1>2, <1>3 DEF EvictedResident
  <1> HIDE DEF u
  <1>5. SeatKept(t, u, l)
    BY <1>1, <1>3, <1>4 DEF SeatKept, Resolves
  <1> QED BY <1>5 DEF u

LEMMA AcquireKeeps ==
  ASSUME NEW t \in Table, NEW i \in Idle(t), NEW prompt, NEW salt \in Salt,
         NEW l \in Lease, l.generation = t.generation => l.request <= t.sequence
  PROVE  SeatKept(t, Acquire(t, i, prompt, salt), l)
  <1> DEFINE v == Acquire(t, i, prompt, salt)
  <1>1. l.seat \in Seats /\ i \in Seats
    BY DEF Lease, Idle
  <1>2. /\ v.generation = t.generation
        /\ v.seats[i].request = t.sequence + 1
        /\ \A j \in Seats \ {i} : v.seats[j] = t.seats[j]
    BY <1>1, AcquireFields
  <1>3. t.sequence \in Nat /\ l.request \in Nat
    BY DEF Table, Lease
  <1> HIDE DEF v
  <1>4. SeatKept(t, v, l)
    BY <1>1, <1>2, <1>3 DEF SeatKept, Resolves
  <1> QED BY <1>4 DEF v

LEMMA ReserveKeeps ==
  ASSUME NEW t \in Table, NEW h \in Lease, NEW n \in Nat,
         NEW grant \in Grants(AfterShed(t, h, n), Needed(t, h, n)),
         h.seat \notin Idle(t), NEW l \in Lease
  PROVE  /\ l.seat # h.seat => SeatKept(t, Reserve(t, h, n, grant), l)
         /\ Resolves(Reserve(t, h, n, grant), l) => Resolves(t, l)
  <1> DEFINE u == AfterShed(t, h, n)
             v == Reserve(t, h, n, grant)
             i == h.seat
  <1>1. l.seat \in Seats /\ i \in Seats
    BY DEF Lease
  <1>2. SeatKept(t, u, l) /\ u.generation = t.generation
    <2>1. Shed(t, Needed(t, h, n)) \in SUBSET Idle(t)
      BY DEF Shed, Victims
    <2>2. Shed(t, Needed(t, h, n)) \in SUBSET Seats
      BY <2>1 DEF Idle
    <2> QED BY <2>1, <2>2, EvictKeeps, EvictFields DEF AfterShed
  <1>3. /\ v.generation = t.generation
        /\ v.seats[i].incarnation = t.seats[i].incarnation
        /\ v.seats[i].request = t.seats[i].request
        /\ \A j \in Seats \ {i} : v.seats[j] = u.seats[j]
    <2>1. Granted(t, u, v, i, grant)
      BY ReserveFields
    <2> HIDE DEF u, v, i
    <2> QED BY <2>1 DEF Granted
  <1> HIDE DEF u, v, i
  <1>4. /\ l.seat # i => SeatKept(t, v, l)
        /\ Resolves(v, l) => Resolves(t, l)
    BY <1>1, <1>2, <1>3 DEF SeatKept, Resolves
  <1> QED BY <1>4 DEF v, i

LEMMA CommitKeeps ==
  ASSUME NEW t \in Table, NEW h \in Lease, NEW tokens \in Seq(Token),
         NEW l \in Lease
  PROVE  /\ l.seat # h.seat => SeatKept(t, Commit(t, h, tokens), l)
         /\ Resolves(Commit(t, h, tokens), l) => Resolves(t, l)
  <1> DEFINE v == Commit(t, h, tokens)
             i == h.seat
  <1>1. l.seat \in Seats /\ i \in Seats
    BY DEF Lease
  <1>2. /\ v.generation = t.generation
        /\ v.seats[i].incarnation = t.seats[i].incarnation
        /\ v.seats[i].request = t.seats[i].request
        /\ \A j \in Seats \ {i} : v.seats[j] = t.seats[j]
    BY <1>1, CommitFields
  <1> HIDE DEF v, i
  <1>3. /\ l.seat # i => SeatKept(t, v, l)
        /\ Resolves(v, l) => Resolves(t, l)
    BY <1>1, <1>2 DEF SeatKept, Resolves
  <1> QED BY <1>3 DEF v, i

LEMMA FinishKeeps ==
  ASSUME NEW t \in Table, NEW h \in Lease, TokensCovered(t), NEW l \in Lease
  PROVE  SeatKept(t, Finish(t, h), l)
  <1> DEFINE v == Finish(t, h)
             i == h.seat
  <1>1. l.seat \in Seats /\ i \in Seats /\ l.request # NoRequest
    BY DEF Lease
  <1>2. /\ v.generation = t.generation
        /\ v.seats[i].request = NoRequest
        /\ \A j \in Seats \ {i} : v.seats[j] = t.seats[j]
    BY <1>1, FinishFields
  <1> HIDE DEF v, i
  <1>3. SeatKept(t, v, l)
    BY <1>1, <1>2 DEF SeatKept, Resolves
  <1> QED BY <1>3 DEF v

-----------------------------------------------------------------------------
\* Hits.

LEMMA PrefixReflexive ==
  ASSUME NEW S, NEW p \in Seq(S)
  PROVE  IsPrefix(p, p)
  <1>1. Len(p) \in Nat
    OBVIOUS
  <1> QED BY <1>1 DEF IsPrefix

\* A hit's tokens are the first tokens of the prompt, a cold seat has none.
LEMMA AcquiredPrefix ==
  ASSUME NEW t \in Table, NEW i \in Seats, NEW salt \in Salt,
         NEW prompt \in Seq(Token)
  PROVE  LET tokens == Acquire(t, i, prompt, salt).seats[i].tokens
         IN  tokens = SubSeq(prompt, 1, Len(tokens)) /\ Len(tokens) <= Len(prompt)
  <1> DEFINE u == Cleared(t, i, prompt, salt)
             tokens == Acquire(t, i, prompt, salt).seats[i].tokens
  <1>1. tokens = u.seats[i].tokens
    BY AcquireFields
  <1>2. CASE i \in Matches(t, prompt, salt)
    <2>1. IsPrefix(t.seats[i].tokens, prompt) /\ u = t
      BY <1>2 DEF Matches, Cleared
    <2>2. t.seats[i].tokens \in Seq(Token)
      BY SeatsType
    <2>3. SubSeq(t.seats[i].tokens, 1, Len(t.seats[i].tokens)) = t.seats[i].tokens
      BY <2>2
    <2> QED BY <1>1, <2>1, <2>3 DEF IsPrefix
  <1>3. CASE i \notin Matches(t, prompt, salt)
    <2>1. u.seats[i] = EvictedResident(t.seats[i])
      BY <1>3, EvictFields DEF Cleared
    <2>2. tokens = <<>>
      BY <1>1, <2>1 DEF EvictedResident
    <2>3. SubSeq(prompt, 1, 0) = <<>> /\ Len(<<>>) = 0
      OBVIOUS
    <2>4. Len(prompt) \in Nat
      OBVIOUS
    <2> QED BY <2>2, <2>3, <2>4
  <1> QED BY <1>2, <1>3

-----------------------------------------------------------------------------
\* Counting pages.

LEMMA LeastExists ==
  ASSUME NEW T \in SUBSET Nat, T # {}
  PROVE  \E x \in T : \A y \in T : x <= y
  <1> DEFINE R == OpToRel(<, Nat)
  <1>1. IsWellFoundedOn(R, Nat)
    BY NatLessThanWellFounded
  <1>2. \A x, y \in Nat : x < y => <<x, y>> \in R
    BY DEF OpToRel
  <1> HIDE DEF R
  <1>3. PICK x \in T : \A y \in T : ~ (<<y, x>> \in R)
    BY <1>1, WFMin
  <1>4. \A y \in T : x \in Nat /\ y \in Nat /\ ~ (y < x)
    BY <1>2, <1>3
  <1> QED BY <1>4

\* Pages that are not shared are counted by the set they form.
LEMMA PageCountExact ==
  ASSUME NEW t \in Table, PagesPartitioned(t), NEW S \in SUBSET Seats
  PROVE  /\ PagesOf(t, S) \in SUBSET Page /\ IsFiniteSet(PagesOf(t, S))
         /\ PagesOf(t, S) \cap t.free = {}
         /\ PageCount(t, S) = Cardinality(PagesOf(t, S))
  <1> DEFINE places == UNION {{i} \X DOMAIN t.seats[i].pages : i \in S}
             P      == PagesOf(t, S)
             f      == [x \in places |-> t.seats[x[1]].pages[x[2]]]
  <1>1. \A i \in S : i \in Seats /\ t.seats[i].pages \in Seq(Page)
                     /\ IsInjective(t.seats[i].pages)
    BY SeatsType DEF PagesPartitioned
  <1>2. P = {p \in Page : \E i \in S : p \in Range(t.seats[i].pages)}
    BY <1>1 DEF PagesOf, Range
  <1>3. P \in SUBSET Page /\ IsFiniteSet(P)
    BY <1>2, CapacityAssumption, FS_Subset
  <1>4. P \cap t.free = {}
    BY <1>2 DEF PagesPartitioned
  <1>5. ASSUME NEW x \in places
        PROVE  /\ x[1] \in S /\ x[2] \in DOMAIN t.seats[x[1]].pages
               /\ x = <<x[1], x[2]>>
    OBVIOUS
  <1>6. \A i \in S : \A n \in DOMAIN t.seats[i].pages : <<i, n>> \in places
    OBVIOUS
  <1> HIDE DEF places, P
  <1>7. f \in [places -> P]
    BY <1>1, <1>2, <1>5 DEF Range
  <1>8. \A x, y \in places : f[x] = f[y] => x = y
    <2>1. SUFFICES ASSUME NEW x \in places, NEW y \in places, f[x] = f[y]
                   PROVE  x = y
      OBVIOUS
    <2>2. x[1] = y[1]
      <3>1. f[x] \in Range(t.seats[x[1]].pages) /\ f[y] \in Range(t.seats[y[1]].pages)
        BY <1>5 DEF Range
      <3> QED BY <1>1, <1>5, <2>1, <3>1 DEF PagesPartitioned
    <2>3. x[2] = y[2]
      BY <1>1, <1>5, <2>1, <2>2 DEF IsInjective
    <2> QED BY <1>5, <2>2, <2>3
  <1>9. \A p \in P : \E x \in places : f[x] = p
    <2>1. SUFFICES ASSUME NEW p \in P PROVE \E x \in places : f[x] = p
      OBVIOUS
    <2>2. PICK i \in S : p \in Range(t.seats[i].pages)
      BY <1>2
    <2>4. PICK n \in DOMAIN t.seats[i].pages : p = t.seats[i].pages[n]
      BY <2>2 DEF Range
    <2>3. <<i, n>> \in places /\ f[<<i, n>>] = p
      BY <1>6, <2>2, <2>4
    <2> QED BY <2>3
  <1> HIDE DEF f
  <1>10. f \in Injection(places, P) /\ f \in Surjection(places, P)
    BY <1>7, <1>8, <1>9, Fun_IsInj, Fun_IsSurj
  <1>11. Cardinality(places) = Cardinality(P)
    BY <1>3, <1>10, FS_Injection
  <1> QED BY <1>3, <1>4, <1>11 DEF PageCount, places, P

LEMMA PageCountGrows ==
  ASSUME NEW t \in Table, PagesPartitioned(t),
         NEW S \in SUBSET Seats, NEW T \in SUBSET S
  PROVE  /\ PageCount(t, S) \in Nat /\ PageCount(t, T) \in Nat
         /\ PageCount(t, T) <= PageCount(t, S)
  <1>1. T \in SUBSET Seats /\ PagesOf(t, T) \in SUBSET PagesOf(t, S)
    BY DEF PagesOf
  <1>2. /\ IsFiniteSet(PagesOf(t, S)) /\ IsFiniteSet(PagesOf(t, T))
        /\ PageCount(t, S) = Cardinality(PagesOf(t, S))
        /\ PageCount(t, T) = Cardinality(PagesOf(t, T))
    BY <1>1, PageCountExact
  <1> QED BY <1>1, <1>2, FS_Subset, FS_CardinalityType

\* Idle seats without pages add nothing to the count.
LEMMA VictimsCount ==
  ASSUME NEW t \in Table, PagesPartitioned(t)
  PROVE  PageCount(t, Victims(t)) = PageCount(t, Idle(t))
  <1>1. Victims(t) \in SUBSET Seats /\ Idle(t) \in SUBSET Seats
    BY DEF Victims, Idle
  <1>2. PagesOf(t, Victims(t)) = PagesOf(t, Idle(t))
    <2>1. \A i \in Idle(t) \ Victims(t) : Range(t.seats[i].pages) = {}
      <3>1. \A i \in Idle(t) \ Victims(t) : t.seats[i].pages = <<>>
        BY DEF Victims
      <3>2. DOMAIN <<>> = {}
        OBVIOUS
      <3> QED BY <3>1, <3>2 DEF Range
    <2> QED BY <2>1 DEF PagesOf, Victims
  <1> QED BY <1>1, <1>2, PageCountExact

\* Evicting coldest first until the pool covers the need covers it whenever all
\* the victims together would.
LEMMA ShedCovers ==
  ASSUME NEW t \in Table, PagesPartitioned(t), NEW m \in Nat,
         m <= Cardinality(t.free) + PageCount(t, Victims(t))
  PROVE  m <= Cardinality(t.free) + PageCount(t, Shed(t, m))
  <1> DEFINE V == Victims(t)
             S == Shed(t, m)
  <1>1. V \in SUBSET Seats /\ S \in SUBSET V
    BY DEF Victims, Idle, Shed
  <1>2. CASE S = V
    BY <1>2
  <1>3. CASE S # V
    <2> DEFINE T == {t.seats[v].touched : v \in V \ S}
    <2>1. T \in SUBSET Nat /\ T # {}
      BY <1>1, <1>3, SeatsType
    <2>2. PICK x \in T : \A y \in T : x <= y
      BY <2>1, LeastExists
    <2>3. PICK w \in V \ S : x = t.seats[w].touched
      BY <2>2
    <2>4. \A v \in V \ S : t.seats[w].touched <= t.seats[v].touched
      BY <2>2, <2>3
    <2> HIDE DEF V, S, T
    <2>5. OlderVictims(t, w) \in SUBSET S
      <3>1. SUFFICES ASSUME NEW u \in V, t.seats[u].touched < t.seats[w].touched, u \notin S
                     PROVE  FALSE
        BY DEF OlderVictims, V
      <3>2. t.seats[u].touched \in Nat /\ t.seats[w].touched \in Nat
        BY <1>1, <2>3, SeatsType
      <3> QED BY <2>4, <3>1, <3>2
    <2>6. /\ PageCount(t, S) \in Nat /\ PageCount(t, OlderVictims(t, w)) \in Nat
          /\ PageCount(t, OlderVictims(t, w)) <= PageCount(t, S)
      <3>1. S \in SUBSET Seats
        BY <1>1
      <3> QED BY <2>5, <3>1, PageCountGrows
    <2>7. Cardinality(t.free) \in Nat
      BY CapacityAssumption, FS_Subset, FS_CardinalityType DEF Table
    <2>8. ~(Cardinality(t.free) + PageCount(t, OlderVictims(t, w)) < m)
      BY <2>3 DEF Shed, V, S
    <2> QED BY <2>6, <2>7, <2>8 DEF S
  <1> QED BY <1>2, <1>3

\* A pool that is large enough has a way to hand out k pages.
LEMMA GrantExists ==
  ASSUME NEW t \in Table, NEW k \in Nat, k <= Cardinality(t.free)
  PROVE  Grants(t, k) # {}
  <1>1. IsFiniteSet(t.free)
    BY CapacityAssumption, FS_Subset DEF Table
  <1>2. Cardinality(t.free) \in Nat /\ ExistsBijection(1 .. Cardinality(t.free), t.free)
    BY <1>1, FS_CardinalityType
  <1>3. PICK b \in Bijection(1 .. Cardinality(t.free), t.free) : TRUE
    BY <1>2 DEF ExistsBijection
  <1>4. /\ b \in [1 .. Cardinality(t.free) -> t.free]
        /\ \A i, j \in 1 .. Cardinality(t.free) : b[i] = b[j] => i = j
    BY <1>3 DEF Bijection, Injection, IsInjective
  <1> DEFINE g == [i \in 1 .. k |-> b[i]]
  <1>5. 1 .. k \in SUBSET (1 .. Cardinality(t.free))
    BY <1>2
  <1>6. g \in [1 .. k -> t.free] /\ IsInjective(g)
    BY <1>4, <1>5 DEF IsInjective
  <1> QED BY <1>6 DEF Grants

\* can_reserve tells whether reserve will raise, and reserve finds its pages.
LEMMA ReserveAsPromised ==
  ASSUME NEW t \in Table, PagesPartitioned(t), NEW l \in Lease, NEW n \in Nat,
         Len(t.seats[l.seat].tokens) <= n
  PROVE  /\ CanReserve(t, l, n) <=> ReserveAccepts(t, l, n)
         /\ ReserveAccepts(t, l, n) => Grants(AfterShed(t, l, n), Needed(t, l, n)) # {}
  <1> DEFINE p == PagesFor(n)
             h == Len(t.seats[l.seat].pages)
             m == Needed(t, l, n)
             f == Cardinality(t.free)
             c == PageCount(t, Victims(t))
             S == Shed(t, m)
             u == Evict(t, S)
  <1>1. Victims(t) \in SUBSET Seats /\ S \in SUBSET Seats
    BY DEF Victims, Idle, Shed
  <1>2. p \in Nat /\ h \in Nat
    <2>1. l.seat \in Seats
      BY DEF Lease
    <2>2. t.seats[l.seat].pages \in Seq(Page)
      BY <2>1, SeatsType
    <2>3. h \in Nat
      BY <2>2
    <2> QED BY <2>3, PagesForType
  <1>3. IsFiniteSet(t.free) /\ f \in Nat
    BY CapacityAssumption, FS_Subset, FS_CardinalityType DEF Table
  <1>4. c \in Nat /\ c = PageCount(t, Idle(t))
    BY <1>1, PageCountGrows, VictimsCount
  <1>5. m = IF p > h THEN p - h ELSE 0
    BY DEF Needed
  <1>6. CanReserve(t, l, n) <=> p <= h + f + c
    BY <1>4 DEF CanReserve
  <1>7. ReserveAccepts(t, l, n) <=> m <= f + c
    BY DEF ReserveAccepts
  <1> HIDE DEF p, h, m, f, c
  <1>8. CanReserve(t, l, n) <=> ReserveAccepts(t, l, n)
    BY <1>2, <1>3, <1>4, <1>5, <1>6, <1>7
  <1>9. ASSUME ReserveAccepts(t, l, n) PROVE Grants(u, m) # {}
    <2>1. m \in Nat /\ m <= f + PageCount(t, S)
      <3>1. m \in Nat
        BY <1>2, <1>5
      <3> QED BY <1>7, <1>9, <3>1, ShedCovers DEF f, c
    <2>2. /\ IsFiniteSet(PagesOf(t, S)) /\ PagesOf(t, S) \cap t.free = {}
          /\ PageCount(t, S) = Cardinality(PagesOf(t, S))
      BY <1>1, PageCountExact
    <2>3. u \in Table /\ u.free = t.free \cup PagesOf(t, S)
      BY <1>1, EvictFields
    <2> HIDE DEF S, u
    <2>4. Cardinality(u.free) = f + PageCount(t, S)
      <3>1. Cardinality(t.free \cup PagesOf(t, S))
              = Cardinality(t.free) + Cardinality(PagesOf(t, S))
                - Cardinality(t.free \cap PagesOf(t, S))
        BY <1>3, <2>2, FS_Union
      <3>2. Cardinality(t.free \cap PagesOf(t, S)) = 0
        <4>1. t.free \cap PagesOf(t, S) = {}
          BY <2>2
        <4> QED BY <4>1, FS_EmptySet
      <3>3. PageCount(t, S) \in Nat /\ PageCount(t, S) = Cardinality(PagesOf(t, S))
        BY <2>2, FS_CardinalityType
      <3>4. Cardinality(u.free) = f + PageCount(t, S) - 0
        BY <2>3, <3>1, <3>2, <3>3 DEF f
      <3> QED BY <1>3, <3>3, <3>4
    <2> QED BY <2>1, <2>3, <2>4, GrantExists
  <1> QED BY <1>8, <1>9 DEF AfterShed, u, S, m

-----------------------------------------------------------------------------
\* The callers of the table.

LEMMA CallerType ==
  ASSUME LeasingTypeOK, NEW c \in DOMAIN callers
  PROVE  /\ callers[c] \in Caller
         /\ callers[c].lease \in Lease
         /\ callers[c].tokens \in Seq(Token)
         /\ callers[c].pages \in Seq(Page)
  <1>1. callers[c] \in Caller
    BY DEF LeasingTypeOK
  <1> QED BY <1>1 DEF Caller

LEMMA TableStep ==
  ASSUME LeasingTypeOK, TableOK(residency), [LeasingNext]_leasing
  PROVE  TableOK(residency')
  <1>1. residency \in Table
    BY DEF LeasingTypeOK
  <1>2. ASSUME NEW prompt, NEW salt \in Salt, AcquireLease(prompt, salt)
        PROVE  TableOK(residency')
    <2>1. PICK i \in Seats : residency' = Acquire(residency, i, prompt, salt)
      BY <1>2 DEF AcquireLease, Chosen, Idle
    <2> QED
      BY <1>1, <2>1, AcquireFields, AcquirePartition, AcquireCovered DEF TableOK
  <1>3. ASSUME NEW prompt, NEW salt \in Salt, AcquireFailsToClear(prompt, salt)
        PROVE  TableOK(residency')
    <2>1. PICK i \in Seats : residency' = FailedEvict(residency, i)
      BY <1>3 DEF AcquireFailsToClear, Chosen, Idle
    <2> QED BY <2>1, FailedEvictOK
  <1>4. ASSUME NEW c \in DOMAIN callers, NEW n \in Lengths, ReserveLease(c, n)
        PROVE  TableOK(residency')
    <2> DEFINE l == callers[c].lease
    <2>1. l \in Lease /\ n \in Nat
      BY CallerType, CallersAssumption
    <2>2. l.seat \notin Idle(residency)
      BY <1>1, <1>4, <2>1, ResolvesLive DEF ReserveLease, Holds
    <2>3. PICK grant \in Grants(AfterShed(residency, l, n), Needed(residency, l, n)) :
            residency' = Reserve(residency, l, n, grant)
      BY <1>4 DEF ReserveLease
    <2> HIDE DEF l
    <2>4. residency' \in Table
      <3>1. Granted(residency, AfterShed(residency, l, n),
                    Reserve(residency, l, n, grant), l.seat, grant)
        BY <1>1, <2>1, <2>2, ReserveFields DEF TableOK
      <3> QED BY <2>3, <3>1 DEF Granted
    <2> QED
      BY <1>1, <2>1, <2>2, <2>3, <2>4, ReservePartition, ReserveCovered
      DEF TableOK
  <1>5. ASSUME NEW c \in DOMAIN callers, NEW n \in Lengths,
               ReserveFailsToClear(c, n)
        PROVE  TableOK(residency')
    <2> DEFINE S(v) == Shed(residency, Needed(residency, callers[c].lease, n))
                         \cap OlderVictims(residency, v)
    <2>1. PICK v \in Shed(residency, Needed(residency, callers[c].lease, n)) :
            residency' = FailedEvict(Evict(residency, S(v)), v)
      BY <1>5 DEF ReserveFailsToClear
    <2>2. v \in Seats /\ S(v) \in SUBSET Seats
      BY DEF Shed, Victims, Idle
    <2> HIDE DEF S
    <2> QED BY <2>1, <2>2, EvictOK, FailedEvictOK
  <1>6. ASSUME NEW c \in DOMAIN callers, NEW tokens \in Runs,
               CommitTokens(c, tokens)
        PROVE  TableOK(residency')
    <2>1. callers[c].lease \in Lease /\ tokens \in Seq(Token)
      BY CallerType, CallersAssumption
    <2> QED
      BY <1>1, <1>6, <2>1, CommitOK, ResolvesLive DEF CommitTokens, Holds
  <1>7. ASSUME NEW c \in DOMAIN callers, FinishLease(c)
        PROVE  TableOK(residency')
    <2>1. callers[c].lease \in Lease
      BY CallerType
    <2> QED
      BY <1>1, <1>7, <2>1, FinishFields, FinishPartition, FinishCovered
      DEF FinishLease, TableOK
  <1>8. ASSUME NEW i \in Seats, EvictIdle(i) \/ EvictFailsToClear(i)
        PROVE  TableOK(residency')
    BY <1>8, EvictOK, FailedEvictOK DEF EvictIdle, EvictFailsToClear
  <1>9. ASSUME Rebind PROVE TableOK(residency')
    <2>1. residency.generation + 1 \in Nat
      BY <1>1 DEF Table
    <2> QED BY <1>9, <2>1, NewTableOK DEF Rebind
  <1>10. ASSUME UNCHANGED leasing PROVE TableOK(residency')
    BY <1>10 DEF leasing
  <1>11. \A r \in Requests : r.cache_salt \in Salt
    BY CallersAssumption
  <1> QED
    BY <1>2, <1>3, <1>4, <1>5, <1>6, <1>7, <1>8, <1>9, <1>10, <1>11 DEF LeasingNext

-----------------------------------------------------------------------------
\* The inductive invariant.

\* No caller's lease comes from the future.
LeasesKnown ==
  \A c \in DOMAIN callers :
    LET l == callers[c].lease
    IN  /\ l.generation <= residency.generation
        /\ l.generation = residency.generation => l.request <= residency.sequence

LeasingInv == LeasingTypeOK /\ TableOK(residency) /\ LeasesKnown /\ LeaseIntegrity

\* The callers stay and every lease that still resolves finds its seat as it
\* was: the callers' half of the invariant carries over.
LEMMA QuietStep ==
  ASSUME LeasingInv, TableOK(residency'), UNCHANGED callers,
         \A c \in DOMAIN callers : SeatKept(residency, residency', callers[c].lease),
         \/ /\ residency'.generation = residency.generation
            /\ residency'.sequence >= residency.sequence
         \/ residency'.generation > residency.generation
  PROVE  LeasingInv'
  <1>1. LeasingTypeOK'
    BY DEF LeasingInv, LeasingTypeOK, TableOK
  <1>2. LeasesKnown'
    <2>1. /\ residency.sequence \in Nat /\ residency'.sequence \in Nat
          /\ residency.generation \in Nat /\ residency'.generation \in Nat
      BY DEF LeasingInv, TableOK, Table
    <2>2. \A c \in DOMAIN callers : /\ callers[c].lease.generation \in Nat
                                    /\ callers[c].lease.request \in Nat
      BY CallerType DEF LeasingInv, Lease
    <2> QED BY <2>1, <2>2 DEF LeasingInv, LeasesKnown
  <1>3. LeaseIntegrity'
    BY DEF LeasingInv, LeaseIntegrity, SeatKept, Holds
  <1> QED BY <1>1, <1>2, <1>3 DEF LeasingInv

LEMMA InitLeasingInv ==
  ASSUME LeasingInit
  PROVE  LeasingInv
  <1>1. TableOK(residency)
    BY NewTableOK DEF LeasingInit
  <1>2. callers = <<>>
    BY DEF LeasingInit
  <1>3. LeasingTypeOK
    BY <1>1, <1>2 DEF LeasingTypeOK, TableOK
  <1>4. DOMAIN callers = {}
    BY <1>2
  <1> QED BY <1>1, <1>3, <1>4 DEF LeasingInv, LeasesKnown, LeaseIntegrity

LEMMA AcquireStep ==
  ASSUME LeasingInv, TableOK(residency'), NEW r \in Requests,
         AcquireLease(r.prompt, r.cache_salt)
  PROVE  LeasingInv'
  <1>1. r.prompt \in Seq(Token) /\ r.cache_salt \in Salt
    BY CallersAssumption
  <1> DEFINE prompt == r.prompt
             salt == r.cache_salt
  <1>2. residency \in Table /\ callers \in Seq(Caller)
    BY DEF LeasingInv, LeasingTypeOK
  <1>3. PICK i \in Idle(residency) :
          /\ residency' = Acquire(residency, i, prompt, salt)
          /\ callers' = Append(callers,
                          [lease  |-> LeaseOn(residency', i),
                           tokens |-> SubSeq(prompt, 1, Len(residency'.seats[i].tokens)),
                           pages  |-> residency'.seats[i].pages])
    BY DEF AcquireLease, Chosen
  <1> DEFINE s == residency'.seats[i]
             l == LeaseOn(residency', i)
             k == [lease |-> l, tokens |-> SubSeq(prompt, 1, Len(s.tokens)),
                   pages |-> s.pages]
             m == Len(callers) + 1
  <1>4. i \in Seats
    BY DEF Idle
  <1>5. /\ residency' \in Table
        /\ residency'.generation = residency.generation
        /\ residency'.sequence = residency.sequence + 1
        /\ s.request = residency.sequence + 1
        /\ \A j \in Seats \ {i} : residency'.seats[j] = residency.seats[j]
    BY <1>1, <1>2, <1>3, <1>4, AcquireFields
  <1>6. s.tokens = SubSeq(prompt, 1, Len(s.tokens))
    BY <1>1, <1>2, <1>3, <1>4, AcquiredPrefix
  <1>7. /\ residency'.generation \in Nat /\ s.incarnation \in Nat
        /\ s.tokens \in Seq(Token) /\ s.pages \in Seq(Page)
        /\ residency.sequence \in Nat
    BY <1>2, <1>4, <1>5, SeatsType DEF Table
  <1>8. /\ l \in Lease /\ l.seat = i /\ l.generation = residency.generation
        /\ l.request = residency.sequence + 1
    BY <1>4, <1>5, <1>7 DEF LeaseOn, Lease, NoRequest
  <1>9. k.lease = l /\ k.tokens = s.tokens /\ k.pages = s.pages
    BY <1>6
  <1>10. k \in Caller
    BY <1>6, <1>7, <1>8 DEF Caller
  <1> HIDE DEF s, l, k, m, prompt, salt
  <1>11. callers' = Append(callers, k)
    BY <1>3 DEF k, l, s
  <1>12. /\ callers' \in Seq(Caller)
         /\ DOMAIN callers' = 1 .. m /\ DOMAIN callers = 1 .. m - 1
         /\ m \in Nat /\ m >= 1
         /\ callers'[m] = k
         /\ \A c \in 1 .. m - 1 : callers'[c] = callers[c]
    BY <1>2, <1>10, <1>11 DEF m
  <1>13. \A c \in 1 .. m - 1 : callers[c].lease \in Lease
    BY <1>12, CallerType DEF LeasingInv
  <1>14. \A c \in 1 .. m - 1 :
            LET h == callers[c].lease
            IN  /\ h.generation <= residency.generation
                /\ h.generation = residency.generation => h.request <= residency.sequence
    BY <1>12 DEF LeasingInv, LeasesKnown
  <1>15. \A c \in 1 .. m - 1 : SeatKept(residency, residency', callers[c].lease)
    BY <1>1, <1>2, <1>3, <1>13, <1>14, AcquireKeeps DEF prompt, salt
  <1>16. \A c \in 1 .. m - 1 :
           Resolves(residency', callers[c].lease) => callers[c].lease.seat # i
    <2> SUFFICES ASSUME NEW c \in 1 .. m - 1, Resolves(residency', callers[c].lease),
                        callers[c].lease.seat = i
                 PROVE  FALSE
      OBVIOUS
    <2>1. callers[c].lease.request = residency.sequence + 1
          /\ callers[c].lease.generation = residency.generation
      BY <1>5 DEF Resolves, s
    <2> QED BY <1>7, <1>14, <2>1
  <1>17. LeasingTypeOK'
    BY <1>5, <1>12 DEF LeasingTypeOK
  <1>18. LeasesKnown'
    <2> SUFFICES ASSUME NEW c \in 1 .. m
                 PROVE  LET h == callers'[c].lease
                        IN  /\ h.generation <= residency'.generation
                            /\ h.generation = residency'.generation =>
                                 h.request <= residency'.sequence
      BY <1>12 DEF LeasesKnown
    <2>1. CASE c = m
      BY <1>5, <1>7, <1>8, <1>9, <1>12, <2>1
    <2>2. CASE c \in 1 .. m - 1
      <3>1. callers[c].lease.request \in Nat
        BY <1>13, <2>2 DEF Lease
      <3> QED BY <1>5, <1>7, <1>12, <1>14, <2>2, <3>1
    <2> QED BY <1>12, <2>1, <2>2
  <1>19. LeaseIntegrity'
    <2>1. ASSUME NEW c \in 1 .. m, Resolves(residency', callers'[c].lease)
          PROVE  LET q == residency'.seats[callers'[c].lease.seat]
                 IN  q.tokens = callers'[c].tokens /\ IsPrefix(callers'[c].pages, q.pages)
      <3>1. CASE c = m
        BY <1>7, <1>8, <1>9, <1>12, <3>1, PrefixReflexive DEF s
      <3>2. CASE c \in 1 .. m - 1
        BY <1>12, <1>15, <2>1, <3>2 DEF SeatKept, LeasingInv, LeaseIntegrity, Holds
      <3> QED BY <1>12, <3>1, <3>2
    <2>2. ASSUME NEW c \in 1 .. m, NEW d \in 1 .. m,
                 Resolves(residency', callers'[c].lease),
                 Resolves(residency', callers'[d].lease),
                 callers'[c].lease.seat = callers'[d].lease.seat
          PROVE  c = d
      <3>1. CASE c = m /\ d \in 1 .. m - 1
        BY <1>8, <1>9, <1>12, <1>16, <2>2, <3>1
      <3>2. CASE d = m /\ c \in 1 .. m - 1
        BY <1>8, <1>9, <1>12, <1>16, <2>2, <3>2
      <3>3. CASE c \in 1 .. m - 1 /\ d \in 1 .. m - 1
        BY <1>12, <1>15, <2>2, <3>3 DEF SeatKept, LeasingInv, LeaseIntegrity, Holds
      <3> QED BY <1>12, <3>1, <3>2, <3>3
    <2> QED BY <1>12, <2>1, <2>2 DEF LeaseIntegrity, Holds
  <1> QED BY <1>17, <1>18, <1>19 DEF LeasingInv

\* One caller k changes its own record and its own seat.
LEMMA OwnSeatStep ==
  ASSUME LeasingInv, TableOK(residency'), NEW k \in DOMAIN callers, Holds(k),
         NEW rec \in Caller, rec.lease = callers[k].lease,
         callers' = [callers EXCEPT ![k] = rec],
         residency'.generation = residency.generation,
         residency'.sequence = residency.sequence,
         \A c \in DOMAIN callers :
           /\ Resolves(residency', callers[c].lease)
                => Resolves(residency, callers[c].lease)
           /\ callers[c].lease.seat # callers[k].lease.seat =>
                SeatKept(residency, residency', callers[c].lease),
         rec.tokens = residency'.seats[rec.lease.seat].tokens,
         IsPrefix(rec.pages, residency'.seats[rec.lease.seat].pages)
  PROVE  LeasingInv'
  <1>1. callers \in Seq(Caller)
    BY DEF LeasingInv, LeasingTypeOK
  <1>2. /\ callers' \in Seq(Caller) /\ DOMAIN callers' = DOMAIN callers
        /\ callers'[k] = rec
        /\ \A c \in DOMAIN callers \ {k} : callers'[c] = callers[c]
        /\ \A c \in DOMAIN callers : callers'[c].lease = callers[c].lease
    BY <1>1
  <1>3. LeasingTypeOK'
    BY <1>2 DEF LeasingTypeOK, TableOK
  <1>4. LeasesKnown'
    BY <1>2 DEF LeasingInv, LeasesKnown
  <1>5. \A c, d \in DOMAIN callers :
          /\ Holds(c)' /\ Holds(d)'
          /\ callers[c].lease.seat = callers[d].lease.seat
          => c = d
    BY <1>2 DEF Holds, LeasingInv, LeaseIntegrity
  <1>6. ASSUME NEW c \in DOMAIN callers, Holds(c)'
        PROVE  LET q == residency'.seats[callers'[c].lease.seat]
               IN  q.tokens = callers'[c].tokens /\ IsPrefix(callers'[c].pages, q.pages)
    <2>1. CASE c = k
      BY <1>2, <2>1
    <2>2. CASE c # k
      <3>1. Holds(c) /\ callers[c].lease.seat # callers[k].lease.seat
        BY <1>2, <1>6, <2>2 DEF Holds, LeasingInv, LeaseIntegrity
      <3>2. residency'.seats[callers[c].lease.seat] = residency.seats[callers[c].lease.seat]
        BY <1>2, <1>6, <3>1 DEF Holds, SeatKept
      <3> QED BY <1>2, <2>2, <3>1, <3>2 DEF LeasingInv, LeaseIntegrity
    <2> QED BY <2>1, <2>2
  <1>7. LeaseIntegrity'
    BY <1>2, <1>5, <1>6 DEF LeaseIntegrity
  <1> QED BY <1>3, <1>4, <1>7 DEF LeasingInv

LEMMA ReserveStep ==
  ASSUME LeasingInv, TableOK(residency'), NEW c \in DOMAIN callers, NEW n \in Lengths,
         ReserveLease(c, n)
  PROVE  LeasingInv'
  <1> DEFINE l == callers[c].lease
  <1>1. /\ residency \in Table /\ callers \in Seq(Caller)
        /\ l \in Lease /\ n \in Nat /\ callers[c] \in Caller
    BY CallerType, CallersAssumption DEF LeasingInv, LeasingTypeOK
  <1>2. Holds(c) /\ l.seat \in Seats /\ l.seat \notin Idle(residency)
    BY <1>1, ResolvesLive DEF ReserveLease, Holds
  <1>3. PICK grant \in Grants(AfterShed(residency, l, n), Needed(residency, l, n)) :
          residency' = Reserve(residency, l, n, grant)
    BY DEF ReserveLease
  <1> DEFINE s == residency'.seats[l.seat]
             rec == [callers[c] EXCEPT !.pages = s.pages]
  <1>4. /\ residency' \in Table
        /\ residency'.generation = residency.generation
        /\ residency'.sequence = residency.sequence
        /\ s.tokens = residency.seats[l.seat].tokens
    <2> HIDE DEF l
    <2>1. Granted(residency, AfterShed(residency, l, n),
                  Reserve(residency, l, n, grant), l.seat, grant)
      BY <1>1, <1>2, ReserveFields
    <2> QED BY <1>3, <2>1 DEF Granted
  <1>5. s.pages \in Seq(Page)
    BY <1>2, <1>4, SeatsType
  <1>6. callers' = [callers EXCEPT ![c] = rec]
    BY DEF ReserveLease
  <1>7. \A d \in DOMAIN callers : callers[d].lease \in Lease
    BY CallerType DEF LeasingInv
  <1>8. \A d \in DOMAIN callers :
          /\ Resolves(residency', callers[d].lease)
               => Resolves(residency, callers[d].lease)
          /\ callers[d].lease.seat # l.seat =>
               SeatKept(residency, residency', callers[d].lease)
    BY <1>1, <1>2, <1>3, <1>7, ReserveKeeps
  <1> HIDE DEF s
  <1>9. /\ rec \in Caller /\ rec.lease = l /\ rec.pages = s.pages
        /\ rec.tokens = callers[c].tokens
    BY <1>1, <1>5 DEF Caller
  <1>10. rec.tokens = s.tokens
    BY <1>2, <1>4, <1>9 DEF LeasingInv, LeaseIntegrity
  <1>11. IsPrefix(rec.pages, s.pages)
    BY <1>5, <1>9, PrefixReflexive
  <1> HIDE DEF rec
  <1> QED
    BY <1>2, <1>4, <1>6, <1>8, <1>9, <1>10, <1>11, OwnSeatStep DEF s

LEMMA CommitStep ==
  ASSUME LeasingInv, TableOK(residency'), NEW c \in DOMAIN callers, NEW tokens \in Runs,
         CommitTokens(c, tokens)
  PROVE  LeasingInv'
  <1> DEFINE l == callers[c].lease
             s == residency'.seats[l.seat]
             rec == [callers[c] EXCEPT !.tokens = @ \o tokens]
  <1>1. /\ residency \in Table /\ callers \in Seq(Caller)
        /\ l \in Lease /\ tokens \in Seq(Token)
        /\ callers[c] \in Caller /\ callers[c].tokens \in Seq(Token)
    BY CallerType, CallersAssumption DEF LeasingInv, LeasingTypeOK
  <1>2. Holds(c) /\ l.seat \in Seats
    BY <1>1, ResolvesLive DEF CommitTokens, Holds
  <1>3. residency' = Commit(residency, l, tokens)
    BY DEF CommitTokens
  <1>4. /\ residency'.generation = residency.generation
        /\ residency'.sequence = residency.sequence
        /\ s.tokens = residency.seats[l.seat].tokens \o tokens
        /\ s.pages = residency.seats[l.seat].pages
    BY <1>1, <1>3, CommitFields
  <1>5. callers' = [callers EXCEPT ![c] = rec]
    BY DEF CommitTokens
  <1>6. \A d \in DOMAIN callers : callers[d].lease \in Lease
    BY CallerType DEF LeasingInv
  <1>7. \A d \in DOMAIN callers :
          /\ Resolves(residency', callers[d].lease)
               => Resolves(residency, callers[d].lease)
          /\ callers[d].lease.seat # l.seat =>
               SeatKept(residency, residency', callers[d].lease)
    BY <1>1, <1>3, <1>6, CommitKeeps
  <1> HIDE DEF s
  <1>8. callers[c].tokens \o tokens \in Seq(Token)
    BY <1>1
  <1>9. /\ rec \in Caller /\ rec.lease = l /\ rec.pages = callers[c].pages
        /\ rec.tokens = callers[c].tokens \o tokens
    BY <1>1, <1>8 DEF Caller
  <1>10. rec.tokens = s.tokens /\ IsPrefix(rec.pages, s.pages)
    BY <1>2, <1>4, <1>9 DEF LeasingInv, LeaseIntegrity
  <1> HIDE DEF rec
  <1> QED
    BY <1>2, <1>4, <1>5, <1>7, <1>9, <1>10, OwnSeatStep DEF s

LEMMA NextLeasingInv ==
  ASSUME LeasingInv, [LeasingNext]_leasing
  PROVE  LeasingInv'
  <1>1. LeasingTypeOK /\ TableOK(residency) /\ residency \in Table
    BY DEF LeasingInv, LeasingTypeOK
  <1>2. TableOK(residency')
    BY <1>1, TableStep
  <1>3. \A c \in DOMAIN callers : callers[c].lease \in Lease
    BY <1>1, CallerType
  <1>4. residency.sequence \in Nat /\ residency.generation \in Nat
    BY <1>1 DEF Table
  <1>5. ASSUME NEW i \in Idle(residency), NEW S \in SUBSET Idle(residency),
               UNCHANGED callers,
               residency' = FailedEvict(residency, i) \/ residency' = Evict(residency, S)
                 \/ (i \notin S /\ residency' = FailedEvict(Evict(residency, S), i))
        PROVE  LeasingInv'
    <2>1. i \in Seats /\ S \in SUBSET Seats
      BY DEF Idle
    <2> DEFINE u == Evict(residency, S)
    <2>2. /\ u \in Table /\ u.generation = residency.generation
          /\ u.sequence = residency.sequence
          /\ \A j \in Seats \ S : u.seats[j] = residency.seats[j]
      BY <1>1, <2>1, EvictFields
    <2>3. \A c \in DOMAIN callers : SeatKept(residency, u, callers[c].lease)
      BY <1>1, <1>3, EvictKeeps
    <2> HIDE DEF u
    <2>4. CASE residency' = FailedEvict(residency, i)
      <3>1. /\ residency'.generation = residency.generation
            /\ residency'.sequence = residency.sequence
        BY <1>1, <2>1, <2>4, FailedEvictFields
      <3>2. \A c \in DOMAIN callers : SeatKept(residency, residency', callers[c].lease)
        BY <1>1, <1>3, <2>4, FailedEvictKeeps
      <3> QED BY <1>2, <1>4, <1>5, <3>1, <3>2, QuietStep
    <2>5. CASE residency' = Evict(residency, S)
      BY <1>2, <1>4, <1>5, <2>2, <2>3, <2>5, QuietStep DEF u
    <2>6. CASE i \notin S /\ residency' = FailedEvict(u, i)
      <3>1. i \in Idle(u)
        BY <2>1, <2>2, <2>6 DEF Idle
      <3>2. \A c \in DOMAIN callers : SeatKept(u, residency', callers[c].lease)
        BY <1>3, <2>2, <2>6, <3>1, FailedEvictKeeps
      <3>3. \A c \in DOMAIN callers : SeatKept(residency, residency', callers[c].lease)
        BY <2>3, <3>2 DEF SeatKept
      <3>4. /\ residency'.generation = residency.generation
            /\ residency'.sequence = residency.sequence
        BY <2>1, <2>2, <2>6, FailedEvictFields
      <3> QED BY <1>2, <1>4, <1>5, <3>3, <3>4, QuietStep
    <2> QED BY <1>5, <2>4, <2>5, <2>6 DEF u
  <1>6. ASSUME NEW r \in Requests, AcquireFailsToClear(r.prompt, r.cache_salt)
        PROVE  LeasingInv'
    <2>1. PICK i \in Idle(residency) : residency' = FailedEvict(residency, i)
      BY <1>6 DEF AcquireFailsToClear, Chosen
    <2> QED BY <1>5, <1>6, <2>1 DEF AcquireFailsToClear
  <1>7. ASSUME NEW c \in DOMAIN callers, NEW n \in Lengths,
               ReserveFailsToClear(c, n)
        PROVE  LeasingInv'
    <2> DEFINE S(v) == Shed(residency, Needed(residency, callers[c].lease, n))
                         \cap OlderVictims(residency, v)
    <2>1. PICK v \in Shed(residency, Needed(residency, callers[c].lease, n)) :
            residency' = FailedEvict(Evict(residency, S(v)), v)
      BY <1>7 DEF ReserveFailsToClear
    <2>2. v \in Idle(residency) /\ S(v) \in SUBSET Idle(residency)
      BY DEF Shed, Victims
    <2>3. v \notin S(v)
      <3>1. v \in Seats /\ residency.seats[v].touched \in Nat
        BY <1>1, <2>2, SeatsType DEF Idle
      <3> QED BY <3>1 DEF OlderVictims
    <2> HIDE DEF S
    <2> QED BY <1>5, <1>7, <2>1, <2>2, <2>3 DEF ReserveFailsToClear
  <1>8. ASSUME NEW c \in DOMAIN callers, FinishLease(c)
        PROVE  LeasingInv'
    <2>1. callers[c].lease \in Lease /\ TokensCovered(residency)
          /\ residency' = Finish(residency, callers[c].lease) /\ UNCHANGED callers
      BY <1>1, <1>3, <1>8 DEF FinishLease, TableOK
    <2>2. /\ residency'.generation = residency.generation
          /\ residency'.sequence = residency.sequence
      BY <1>1, <2>1, FinishFields
    <2>3. \A d \in DOMAIN callers : SeatKept(residency, residency', callers[d].lease)
      BY <1>1, <1>3, <2>1, FinishKeeps
    <2> QED BY <1>2, <1>4, <2>1, <2>2, <2>3, QuietStep
  <1>9. ASSUME NEW i \in Seats, EvictIdle(i) \/ EvictFailsToClear(i)
        PROVE  LeasingInv'
    BY <1>5, <1>9 DEF EvictIdle, EvictFailsToClear
  <1>10. ASSUME Rebind PROVE LeasingInv'
    <2>1. residency' = NewTable(residency.generation + 1) /\ UNCHANGED callers
      BY <1>10 DEF Rebind
    <2>2. residency'.generation = residency.generation + 1
      BY <2>1 DEF NewTable
    <2>3. ASSUME NEW c \in DOMAIN callers
          PROVE  SeatKept(residency, residency', callers[c].lease)
      <3>1. callers[c].lease.generation \in Nat
            /\ callers[c].lease.generation <= residency.generation
        BY <1>3, <2>3 DEF LeasingInv, LeasesKnown, Lease
      <3> QED BY <1>4, <2>2, <3>1 DEF SeatKept, Resolves
    <2> QED BY <1>2, <1>4, <2>1, <2>2, <2>3, QuietStep
  <1>11. ASSUME UNCHANGED leasing PROVE LeasingInv'
    <2>1. \A c \in DOMAIN callers : SeatKept(residency, residency', callers[c].lease)
      BY <1>11 DEF leasing, SeatKept
    <2> QED BY <1>2, <1>4, <1>11, <2>1, QuietStep DEF leasing
  <1> QED
    BY <1>2, <1>6, <1>7, <1>8, <1>9, <1>10, <1>11,
       AcquireStep, ReserveStep, CommitStep DEF LeasingNext

-----------------------------------------------------------------------------
\* The theorems.

\* The inductive invariant holds in every behaviour.
LEMMA Inductive == LeasingSpec => []LeasingInv
  <1>1. LeasingInit => LeasingInv
    BY InitLeasingInv
  <1>2. LeasingInv /\ [LeasingNext]_leasing => LeasingInv'
    BY NextLeasingInv
  <1> QED BY <1>1, <1>2, PTL DEF LeasingSpec

\* Type correctness of the table and its callers, for every capacity.
THEOREM TypeCorrect == LeasingSpec => []LeasingTypeOK
  <1>1. LeasingInv => LeasingTypeOK
    BY DEF LeasingInv
  <1> QED BY <1>1, Inductive, PTL

\* Pages are never lost, shared or owned twice (residents.py: free_pages and
\* Resident.pages), whatever methods run and whatever clears fail.
THEOREM PagesOwned == LeasingSpec => []PageOwnership
  <1>1. LeasingInv => PageOwnership
    BY DEF LeasingInv, TableOK, PageOwnership
  <1> QED BY <1>1, Inductive, PTL

\* Committed tokens always fit the pages of their seat, and a finished resident
\* holds exactly the pages its tokens need (residents.py: commit, finish).
THEOREM TokensAlwaysCovered == LeasingSpec => []TokenCoverage
  <1>1. LeasingInv => TokenCoverage
    BY DEF LeasingInv, TableOK, TokenCoverage
  <1> QED BY <1>1, Inductive, PTL

\* A lease that resolves protects what its caller holds (residents.py:
\* _resident): wrong hits, stale leases and other callers never touch it.
THEOREM LeasesProtect == LeasingSpec => []LeaseIntegrity
  <1>1. LeasingInv => LeaseIntegrity
    BY DEF LeasingInv
  <1> QED BY <1>1, Inductive, PTL

-----------------------------------------------------------------------------
\* What no step may do to a seat.

SeatStep(r, s) == IdentityStep(r, s) /\ LiveStep(r, s)

LEMMA SameSeat ==
  ASSUME NEW r \in Resident
  PROVE  SeatStep(r, r)
  <1>1. r.tokens \in Seq(Token)
    BY DEF Resident
  <1> QED BY <1>1, PrefixReflexive DEF SeatStep, IdentityStep, LiveStep

LEMMA EvictedSeat ==
  ASSUME NEW r \in Resident, r.request = NoRequest,
         NEW s, s.incarnation = r.incarnation + 1
  PROVE  SeatStep(r, s)
  <1>1. r.incarnation \in Nat
    BY DEF Resident
  <1> QED BY <1>1 DEF SeatStep, IdentityStep, LiveStep

\* A seat that keeps its tokens and the pages they need.
LEMMA KeptSeat ==
  ASSUME NEW r \in Resident, NEW s,
         s.tokens = r.tokens, s.incarnation = r.incarnation,
         r.request # NoRequest => s.request \in {r.request, NoRequest},
         r.tokens # <<>> => s.cache_salt = r.cache_salt,
         \A k \in 1 .. PagesFor(Len(r.tokens)) : s.pages[k] = r.pages[k]
  PROVE  SeatStep(r, s)
  <1>1. r.tokens \in Seq(Token)
    BY DEF Resident
  <1> QED BY <1>1, PrefixReflexive DEF SeatStep, IdentityStep, LiveStep

\* The pages committed tokens need are pages the seat has.
LEMMA NeededPages ==
  ASSUME NEW r \in Resident, SeatCovered(r)
  PROVE  PagesFor(Len(r.tokens)) \in Nat /\ PagesFor(Len(r.tokens)) <= Len(r.pages)
  <1>1. Len(r.tokens) \in Nat /\ Len(r.pages) \in Nat
    BY DEF Resident
  <1>2. Len(r.tokens) <= Len(r.pages) * PageTokens
    BY DEF SeatCovered
  <1> QED BY <1>1, <1>2, PagesForType, PagesForLeast

LEMMA EvictSeats ==
  ASSUME NEW t \in Table, NEW S \in SUBSET Idle(t)
  PROVE  \A j \in Seats : SeatStep(t.seats[j], Evict(t, S).seats[j])
  <1> TAKE j \in Seats
  <1>1. S \in SUBSET Seats /\ t.seats[j] \in Resident
    BY SeatsType DEF Idle
  <1>2. CASE j \in S
    <2>1. Evict(t, S).seats[j] = EvictedResident(t.seats[j])
      BY <1>1, <1>2, EvictFields
    <2>2. Evict(t, S).seats[j].incarnation = t.seats[j].incarnation + 1
      BY <2>1 DEF EvictedResident
    <2>3. t.seats[j].request = NoRequest
      BY <1>2 DEF Idle
    <2> QED BY <1>1, <2>2, <2>3, EvictedSeat
  <1>3. CASE j \notin S
    <2>1. Evict(t, S).seats[j] = t.seats[j]
      BY <1>1, <1>3, EvictFields
    <2> QED BY <1>1, <2>1, SameSeat
  <1> QED BY <1>2, <1>3

LEMMA FailedEvictSeats ==
  ASSUME NEW t \in Table, NEW S \in SUBSET Idle(t), NEW i \in Idle(t) \ S
  PROVE  \A j \in Seats : SeatStep(t.seats[j], FailedEvict(Evict(t, S), i).seats[j])
  <1> TAKE j \in Seats
  <1> DEFINE u == Evict(t, S)
             v == FailedEvict(u, i)
  <1>1. S \in SUBSET Seats /\ t.seats[j] \in Resident /\ i \in Seats
    BY SeatsType DEF Idle
  <1>2. u \in Table /\ u.seats[i] = t.seats[i]
    BY <1>1, EvictFields
  <1>3. SeatStep(t.seats[j], u.seats[j])
    BY EvictSeats
  <1> HIDE DEF u
  <1>4. /\ v.seats[i] = [EvictedResident(u.seats[i]) EXCEPT !.pages = u.seats[i].pages]
        /\ \A k \in Seats \ {i} : v.seats[k] = u.seats[k]
    BY <1>1, <1>2, FailedEvictFields
  <1>5. v.seats[i].incarnation = t.seats[i].incarnation + 1
    BY <1>2, <1>4 DEF EvictedResident
  <1>6. t.seats[i].request = NoRequest
    BY DEF Idle
  <1> HIDE DEF v
  <1>7. SeatStep(t.seats[j], v.seats[j])
    <2>1. CASE j = i
      BY <1>1, <1>5, <1>6, <2>1, EvictedSeat
    <2>2. CASE j # i
      BY <1>3, <1>4, <2>2
    <2> QED BY <2>1, <2>2
  <1> QED BY <1>7 DEF v, u

LEMMA AcquireSeats ==
  ASSUME NEW t \in Table, NEW i \in Idle(t), NEW prompt, NEW salt \in Salt
  PROVE  \A j \in Seats : SeatStep(t.seats[j], Acquire(t, i, prompt, salt).seats[j])
  <1> TAKE j \in Seats
  <1> DEFINE u == Cleared(t, i, prompt, salt)
             v == Acquire(t, i, prompt, salt)
  <1>1. i \in Seats /\ t.seats[i].request = NoRequest /\ t.seats[j] \in Resident
    BY SeatsType DEF Idle
  <1>2. /\ v.seats[i].tokens = u.seats[i].tokens
        /\ v.seats[i].pages = u.seats[i].pages
        /\ v.seats[i].incarnation = u.seats[i].incarnation
        /\ v.seats[i].cache_salt = salt
        /\ \A k \in Seats \ {i} : v.seats[k] = t.seats[k]
    BY <1>1, AcquireFields
  <1> HIDE DEF v
  <1>3. CASE j # i
    BY <1>1, <1>2, <1>3, SameSeat DEF v
  <1>4. CASE j = i /\ i \in Matches(t, prompt, salt)
    <2>1. u = t /\ t.seats[i].cache_salt = salt
      BY <1>4 DEF Matches, Cleared
    <2>2. SeatStep(t.seats[j], v.seats[j])
      BY <1>1, <1>2, <1>4, <2>1, KeptSeat
    <2> QED BY <2>2 DEF v
  <1>5. CASE j = i /\ i \notin Matches(t, prompt, salt)
    <2>1. u.seats[i] = EvictedResident(t.seats[i])
      BY <1>1, <1>5, EvictFields DEF Cleared
    <2>2. v.seats[i].incarnation = t.seats[i].incarnation + 1
      BY <1>2, <2>1 DEF EvictedResident
    <2>3. SeatStep(t.seats[j], v.seats[j])
      BY <1>1, <1>5, <2>2, EvictedSeat
    <2> QED BY <2>3 DEF v
  <1> QED BY <1>3, <1>4, <1>5

LEMMA ReserveSeats ==
  ASSUME NEW t \in Table, NEW l \in Lease, NEW n \in Nat,
         NEW grant \in Grants(AfterShed(t, l, n), Needed(t, l, n)),
         l.seat \notin Idle(t), TokensCovered(t)
  PROVE  \A j \in Seats : SeatStep(t.seats[j], Reserve(t, l, n, grant).seats[j])
  <1> TAKE j \in Seats
  <1> DEFINE i == l.seat
             u == AfterShed(t, l, n)
             v == Reserve(t, l, n, grant)
             r == t.seats[i]
  <1>1. i \in Seats /\ r \in Resident
    BY SeatsType DEF Lease
  <1>2. SeatStep(t.seats[j], u.seats[j])
    <2>1. Shed(t, Needed(t, l, n)) \in SUBSET Idle(t)
      BY DEF Shed, Victims
    <2> QED BY <2>1, EvictSeats DEF AfterShed
  <1>3. /\ grant \in Seq(u.free)
        /\ v.seats[i].tokens = r.tokens
        /\ v.seats[i].pages = r.pages \o grant
        /\ v.seats[i].incarnation = r.incarnation
        /\ v.seats[i].request = r.request
        /\ v.seats[i].cache_salt = r.cache_salt
        /\ \A k \in Seats \ {i} : v.seats[k] = u.seats[k]
    <2>1. Granted(t, u, v, i, grant)
      BY ReserveFields
    <2> HIDE DEF u, v, i
    <2> QED BY <2>1 DEF Granted
  <1>4. PagesFor(Len(r.tokens)) \in Nat /\ PagesFor(Len(r.tokens)) <= Len(r.pages)
    BY <1>1, NeededPages DEF TokensCovered
  <1> HIDE DEF v, u
  <1>5. CASE j = i
    <2>1. r.pages \in Seq(Page)
      BY <1>1 DEF Resident
    <2> HIDE DEF r
    <2>2. \A k \in 1 .. PagesFor(Len(r.tokens)) : (r.pages \o grant)[k] = r.pages[k]
      BY <1>3, <1>4, <2>1
    <2>3. SeatStep(r, v.seats[i])
      BY <1>1, <1>3, <2>2, KeptSeat
    <2> QED BY <1>5, <2>3 DEF v, r
  <1>6. CASE j # i
    BY <1>2, <1>3, <1>6 DEF v
  <1> QED BY <1>5, <1>6

LEMMA CommitSeats ==
  ASSUME NEW t \in Table, NEW l \in Lease, NEW tokens \in Seq(Token)
  PROVE  \A j \in Seats : SeatStep(t.seats[j], Commit(t, l, tokens).seats[j])
  <1> TAKE j \in Seats
  <1> DEFINE i == l.seat
             v == Commit(t, l, tokens)
             r == t.seats[i]
  <1>1. i \in Seats /\ r \in Resident /\ r.tokens \in Seq(Token)
        /\ t.seats[j] \in Resident
    BY SeatsType DEF Lease
  <1>2. /\ v.seats[i].tokens = r.tokens \o tokens
        /\ v.seats[i].pages = r.pages
        /\ v.seats[i].incarnation = r.incarnation
        /\ v.seats[i].request = r.request
        /\ v.seats[i].cache_salt = r.cache_salt
        /\ \A k \in Seats \ {i} : v.seats[k] = t.seats[k]
    BY <1>1, CommitFields
  <1> HIDE DEF v
  <1>3. CASE j = i
    <2> HIDE DEF r
    <2>1. IsPrefix(r.tokens, r.tokens \o tokens)
      <3>1. /\ Len(r.tokens \o tokens) = Len(r.tokens) + Len(tokens)
            /\ Len(tokens) \in Nat /\ Len(r.tokens) \in Nat
        BY <1>1
      <3>2. SubSeq(r.tokens \o tokens, 1, Len(r.tokens)) = r.tokens
        BY <1>1
      <3>3. SubSeq(r.tokens, 1, Len(r.tokens)) = r.tokens
        BY <1>1
      <3> QED BY <3>1, <3>2, <3>3 DEF IsPrefix
    <2>2. SeatStep(r, v.seats[i])
      BY <1>2, <2>1 DEF SeatStep, IdentityStep, LiveStep
    <2> QED BY <1>3, <2>2 DEF v, r
  <1>4. CASE j # i
    BY <1>1, <1>2, <1>4, SameSeat DEF v
  <1> QED BY <1>3, <1>4

LEMMA FinishSeats ==
  ASSUME NEW t \in Table, NEW l \in Lease, TokensCovered(t)
  PROVE  \A j \in Seats : SeatStep(t.seats[j], Finish(t, l).seats[j])
  <1> TAKE j \in Seats
  <1> DEFINE i == l.seat
             v == Finish(t, l)
             r == t.seats[i]
             keep == PagesFor(Len(r.tokens))
  <1>1. i \in Seats /\ r \in Resident /\ r.pages \in Seq(Page)
        /\ t.seats[j] \in Resident
    BY SeatsType DEF Lease
  <1>2. /\ keep \in Nat /\ keep <= Len(r.pages)
        /\ v.seats[i].tokens = r.tokens
        /\ v.seats[i].pages = SubSeq(r.pages, 1, keep)
        /\ v.seats[i].incarnation = r.incarnation
        /\ v.seats[i].request = NoRequest
        /\ v.seats[i].cache_salt = r.cache_salt
        /\ \A k \in Seats \ {i} : v.seats[k] = t.seats[k]
    BY <1>1, FinishFields
  <1> HIDE DEF v
  <1>3. CASE j = i
    <2> HIDE DEF r
    <2>1. \A k \in 1 .. keep : SubSeq(r.pages, 1, keep)[k] = r.pages[k]
      <3> HIDE DEF keep
      <3> QED BY <1>1, <1>2
    <2>2. SeatStep(r, v.seats[i])
      BY <1>1, <1>2, <2>1, KeptSeat
    <2> QED BY <1>3, <2>2 DEF v, r
  <1>4. CASE j # i
    BY <1>1, <1>2, <1>4, SameSeat DEF v
  <1> QED BY <1>3, <1>4

LEMMA SeatSteps ==
  ASSUME LeasingInv, [LeasingNext]_leasing, residency'.generation = residency.generation
  PROVE  \A j \in Seats : SeatStep(residency.seats[j], residency'.seats[j])
  <1>1. residency \in Table /\ TokensCovered(residency) /\ LeasingTypeOK
    BY DEF LeasingInv, TableOK
  <1>2. \A c \in DOMAIN callers : callers[c].lease \in Lease
    BY <1>1, CallerType
  <1>3. \A i \in Idle(residency) : \A j \in Seats :
          SeatStep(residency.seats[j], FailedEvict(residency, i).seats[j])
    <2> TAKE i \in Idle(residency)
    <2>1. Evict(residency, {}) \in Table /\ i \in Seats
          /\ \A k \in Seats : Evict(residency, {}).seats[k] = residency.seats[k]
      BY <1>1, EvictFields DEF Idle
    <2>2. \A j \in Seats : FailedEvict(residency, i).seats[j]
                             = FailedEvict(Evict(residency, {}), i).seats[j]
      <3>1. FailedEvict(residency, i).seats[i]
              = FailedEvict(Evict(residency, {}), i).seats[i]
        <4> DEFINE u == Evict(residency, {})
                   q == [EvictedResident(residency.seats[i])
                           EXCEPT !.pages = residency.seats[i].pages]
        <4>1. FailedEvict(residency, i).seats[i] = q
          BY <1>1, <2>1, FailedEvictFields
        <4>2. FailedEvict(u, i).seats[i]
                = [EvictedResident(u.seats[i]) EXCEPT !.pages = u.seats[i].pages]
          BY <2>1, FailedEvictFields
        <4> QED BY <2>1, <4>1, <4>2
      <3>2. \A j \in Seats \ {i} : FailedEvict(residency, i).seats[j]
              = FailedEvict(Evict(residency, {}), i).seats[j]
        <4> DEFINE u == Evict(residency, {})
        <4>1. \A j \in Seats \ {i} : FailedEvict(residency, i).seats[j] = residency.seats[j]
          BY <1>1, <2>1, FailedEvictFields
        <4>2. u \in Table /\ i \in Seats
          BY <2>1
        <4> HIDE DEF u
        <4>3. \A j \in Seats \ {i} : FailedEvict(u, i).seats[j] = u.seats[j]
          BY <4>2, FailedEvictFields
        <4> QED BY <2>1, <4>1, <4>3 DEF u
      <3> QED BY <3>1, <3>2
    <2>3. \A j \in Seats :
            SeatStep(residency.seats[j], FailedEvict(Evict(residency, {}), i).seats[j])
      BY <1>1, FailedEvictSeats
    <2> QED BY <2>2, <2>3
  <1>4. ASSUME NEW r \in Requests, AcquireLease(r.prompt, r.cache_salt)
        PROVE  \A j \in Seats : SeatStep(residency.seats[j], residency'.seats[j])
    <2>1. r.cache_salt \in Salt
      BY CallersAssumption
    <2>2. PICK i \in Idle(residency) : residency' = Acquire(residency, i, r.prompt, r.cache_salt)
      BY <1>4 DEF AcquireLease, Chosen
    <2> QED BY <1>1, <2>1, <2>2, AcquireSeats
  <1>5. ASSUME NEW r \in Requests, AcquireFailsToClear(r.prompt, r.cache_salt)
        PROVE  \A j \in Seats : SeatStep(residency.seats[j], residency'.seats[j])
    <2>1. PICK i \in Idle(residency) : residency' = FailedEvict(residency, i)
      BY <1>5 DEF AcquireFailsToClear, Chosen
    <2> QED BY <1>3, <2>1
  <1>6. ASSUME NEW c \in DOMAIN callers, NEW n \in Lengths, ReserveLease(c, n)
        PROVE  \A j \in Seats : SeatStep(residency.seats[j], residency'.seats[j])
    <2> DEFINE l == callers[c].lease
    <2>1. l \in Lease /\ n \in Nat
      BY <1>2, CallersAssumption
    <2>2. l.seat \notin Idle(residency)
      BY <1>1, <1>6, <2>1, ResolvesLive DEF ReserveLease, Holds
    <2>3. PICK grant \in Grants(AfterShed(residency, l, n), Needed(residency, l, n)) :
            residency' = Reserve(residency, l, n, grant)
      BY <1>6 DEF ReserveLease
    <2> HIDE DEF l
    <2> QED BY <1>1, <2>1, <2>2, <2>3, ReserveSeats
  <1>7. ASSUME NEW c \in DOMAIN callers, NEW n \in Lengths,
               ReserveFailsToClear(c, n)
        PROVE  \A j \in Seats : SeatStep(residency.seats[j], residency'.seats[j])
    <2> DEFINE S(v) == Shed(residency, Needed(residency, callers[c].lease, n))
                         \cap OlderVictims(residency, v)
    <2>1. PICK v \in Shed(residency, Needed(residency, callers[c].lease, n)) :
            residency' = FailedEvict(Evict(residency, S(v)), v)
      BY <1>7 DEF ReserveFailsToClear
    <2>2. v \in Idle(residency) /\ S(v) \in SUBSET Idle(residency)
      BY DEF Shed, Victims
    <2>3. v \notin S(v)
      <3>1. v \in Seats /\ residency.seats[v].touched \in Nat
        BY <1>1, <2>2, SeatsType DEF Idle
      <3> QED BY <3>1 DEF OlderVictims
    <2> HIDE DEF S
    <2> QED BY <1>1, <2>1, <2>2, <2>3, FailedEvictSeats
  <1>8. ASSUME NEW c \in DOMAIN callers, NEW tokens \in Runs,
               CommitTokens(c, tokens)
        PROVE  \A j \in Seats : SeatStep(residency.seats[j], residency'.seats[j])
    <2>1. tokens \in Seq(Token)
      BY CallersAssumption
    <2> QED BY <1>1, <1>2, <1>8, <2>1, CommitSeats DEF CommitTokens
  <1>9. ASSUME NEW c \in DOMAIN callers, FinishLease(c)
        PROVE  \A j \in Seats : SeatStep(residency.seats[j], residency'.seats[j])
    BY <1>1, <1>2, <1>9, FinishSeats DEF FinishLease
  <1>10. ASSUME NEW i \in Seats, EvictIdle(i) \/ EvictFailsToClear(i)
         PROVE  \A j \in Seats : SeatStep(residency.seats[j], residency'.seats[j])
    BY <1>1, <1>3, <1>10, EvictSeats DEF EvictIdle, EvictFailsToClear
  <1>11. ~Rebind
    <2>1. residency.generation \in Nat
      BY <1>1 DEF Table
    <2> QED BY <2>1 DEF Rebind, NewTable
  <1>12. ASSUME UNCHANGED leasing
         PROVE  \A j \in Seats : SeatStep(residency.seats[j], residency'.seats[j])
    BY <1>1, <1>12, SeatsType, SameSeat DEF leasing
  <1> QED
    BY <1>4, <1>5, <1>6, <1>7, <1>8, <1>9, <1>10, <1>11, <1>12 DEF LeasingNext

\* While a seat keeps its incarnation its tokens only grow, stay in the pages
\* they were written to and keep their salt (residents.py: acquire, reserve,
\* commit, finish), so that a hot hit finds the state it matched.
THEOREM IdentityIsStable == LeasingSpec => IdentityStable
  <1>1. ASSUME LeasingInv, [LeasingNext]_leasing
        PROVE  [residency'.generation = residency.generation =>
                  \A i \in Seats : IdentityStep(residency.seats[i], residency'.seats[i])]_leasing
    BY <1>1, SeatSteps DEF SeatStep
  <1> QED BY <1>1, Inductive, PTL DEF LeasingSpec, IdentityStable

\* No step of another caller takes a running request's seat (residents.py:
\* evict refuses live requests, acquire and reserve only evict idle seats).
THEOREM LiveSeatIsKept == LeasingSpec => LiveSeatKept
  <1>1. ASSUME LeasingInv, [LeasingNext]_leasing
        PROVE  [residency'.generation = residency.generation =>
                  \A i \in Seats : LiveStep(residency.seats[i], residency'.seats[i])]_leasing
    BY <1>1, SeatSteps DEF SeatStep
  <1> QED BY <1>1, Inductive, PTL DEF LeasingSpec, LiveSeatKept

-----------------------------------------------------------------------------
\* The inductive invariant.

Statuses == {"absent", "waiting", "active", "lost", "done", "cancelled"}

PrefillPoints == {"prefill_pages", "prefill_draft", "prefill_target", "prefill_shift"}
DecodePoints ==
  {"decode_pages", "decode_draft", "decode_propose", "decode_verify", "decode_repair"}

Points == {"none", "start", "closed"} \cup PrefillPoints \cup DecodePoints

Request ==
  [status : Statuses, output : Seq(Token), progress : Seq(Token),
   lease : Lease \cup {NoLease}, cached : Nat, emitted : Seq(Token),
   point : Points, width : Nat, chunk : Seq(Token), age : Nat]

\* A question that submit lets in.
Admissible(q) ==
  /\ q.prompt \in Seq(Token) /\ q.prompt # <<>>
  /\ q.count \in Nat
  /\ q.cache_salt \in Salt
  /\ Len(q.prompt) + q.count <= ContextTokens

TypeOK ==
  /\ TableOK(table)
  /\ anchor = [i \in Seats |-> anchor[i]]
  /\ asked \in Seq(Question) /\ \A k \in DOMAIN asked : Admissible(asked[k])
  /\ waiting \in Seq(Key)
  /\ active \in SUBSET Key
  /\ req \in [Key -> Request]

\* Keys are handed out in order, and what is nowhere yet is fresh.
Submitted ==
  /\ \A k \in active : k <= Len(asked) /\ req[k].status = "active"
  /\ \A i \in DOMAIN waiting : waiting[i] <= Len(asked)
                               /\ req[waiting[i]].status = "waiting"
  /\ \A k \in Key : k > Len(asked) => req[k] = Fresh

\* What r has streamed of the answer to q, across preemptions.
Streamed(r, q) ==
  /\ r.progress = r.output \o r.emitted
  /\ Len(r.output) + Len(r.emitted) <= q.count
  /\ r.status = "waiting" => r.emitted = <<>>

Streams ==
  \A k \in Key : req[k].status \in {"waiting", "active"} => Streamed(req[k], asked[k])

\* The protocol r of question q on seat s: what it has committed, and that its
\* next commit fits the prompt or the quota, and the pages it was granted.
Going(s, r, q) ==
  LET goal == q.prompt \o r.output
  IN  /\ IsPrefix(s.tokens, goal \o r.emitted)
      /\ r.point \in {"start"} \cup PrefillPoints \cup DecodePoints
      /\ r.point = "start" => r.emitted = <<>>
      /\ r.point \in PrefillPoints =>
           /\ r.emitted = <<>>
           /\ 1 <= r.width /\ Len(s.tokens) + r.width <= Len(goal)
      /\ r.point \in DecodePoints =>
           /\ s.tokens = goal \o r.emitted
           /\ r.width \in 1 .. 3
           /\ Len(r.output) + Len(r.emitted) + r.width <= q.count
      /\ r.point \notin {"start"} \cup PagePoints =>
           Len(s.tokens) + r.width <= Len(s.pages) * PageTokens
      /\ r.point = "decode_repair" => Len(r.chunk) <= r.width

\* A protocol is closed and still active only where a preemption failed.
Protocols ==
  /\ phase # "failed" => Running = active
  /\ \A k \in active : req[k].lease \in Lease
  /\ \A k \in Running : Going(table.seats[SeatOf(k)], req[k], asked[k])
  /\ \A k \in active \ Running :
       req[k].emitted = <<>> /\ Committed(table, k) = <<>>

\* The seats that are held are those of the running protocols.
Held ==
  /\ \A k \in Running : Resolves(table, req[k].lease)
  /\ \A j, k \in Running : SeatOf(j) = SeatOf(k) => j = k
  /\ Live(table) = {SeatOf(k) : k \in Running}

Sound ==
  /\ TypeOK
  /\ FirstComeFirstServed /\ Submitted
  /\ Streams /\ Protocols /\ Held /\ AnchorSound

\* After close nothing is left.
Ended == active = {} /\ waiting = <<>> /\ Pending = {} /\ AnchorSound

IInv == IF phase = "closed" THEN Ended ELSE Sound

-----------------------------------------------------------------------------
\* Largest keys.

LEMMA LargestExists ==
  ASSUME NEW T \in SUBSET Nat, T # {}, NEW n \in Nat, \A y \in T : y <= n
  PROVE  \E x \in T : \A y \in T : x >= y
<1> DEFINE U == {n - y : y \in T}
<1>0. \A y \in T : n - y \in Nat
  <2>1. \A y \in T : y \in Nat /\ y <= n
    OBVIOUS
  <2> QED BY <2>1
<1>1. U \in SUBSET Nat /\ U # {}
  BY <1>0
<1>2. PICK u \in U : \A w \in U : u <= w
  BY <1>1, LeastExists
<1>3. PICK x \in T : u = n - x
  BY <1>2
<1>4. \A y \in T : n - x <= n - y
  BY <1>2, <1>3
<1>5. \A y \in T : x >= y
  BY <1>4
<1> QED BY <1>5

LEMMA OldestIn ==
  ASSUME NEW K \in SUBSET Key, K # {}
  PROVE  Oldest(K) \in K
<1>1. K \in SUBSET Nat
  BY DEF Key
<1> QED BY <1>1, LeastExists DEF Oldest

LEMMA NewestIn ==
  ASSUME NEW K \in SUBSET Key, K # {}
  PROVE  Newest(K) \in K /\ \A j \in K : Newest(K) >= j
<1>1. K \in SUBSET Nat /\ MaxRequests \in Nat /\ \A y \in K : y <= MaxRequests
  BY SchedulerAssumption DEF Key
<1>2. \E x \in K : \A y \in K : x >= y
  BY <1>1, LargestExists
<1> QED BY <1>2 DEF Newest

LEMMA PrefillFits ==
  ASSUME NEW p \in Nat, NEW c, NEW g \in Nat, p < g
  PROVE  /\ PrefillWidth(p, c, g) \in Nat
         /\ 1 <= PrefillWidth(p, c, g) /\ p + PrefillWidth(p, c, g) <= g
<1> DEFINE fit == {w \in PrefillWidths : p > c /\ w <= g - p}
<1>1. PrefillWidths \in SUBSET Nat /\ \A w \in PrefillWidths : w >= 2
  BY SchedulerAssumption
<1>2. CASE fit = {}
  BY <1>2 DEF PrefillWidth
<1>3. CASE fit # {}
  <2>0. g - p \in Nat
    OBVIOUS
  <2>1. fit \in SUBSET Nat /\ \A y \in fit : y <= g - p
    BY <1>1
  <2>2. \E x \in fit : \A y \in fit : x >= y
    BY <1>3, <2>0, <2>1, LargestExists
  <2>3. Max(fit) \in fit
    BY <2>2 DEF Max
  <2>4. PrefillWidth(p, c, g) = Max(fit)
    BY <1>3 DEF PrefillWidth
  <2>5. Max(fit) \in Nat /\ Max(fit) >= 2 /\ Max(fit) <= g - p
    BY <1>1, <2>3
  <2> HIDE DEF fit
  <2> QED BY <2>4, <2>5
<1> QED BY <1>2, <1>3

-----------------------------------------------------------------------------
\* Histories as prefixes.

LEMMA WholePrefix ==
  ASSUME NEW S, NEW p \in Seq(S), NEW q \in Seq(S), IsPrefix(p, q), Len(p) >= Len(q)
  PROVE  p = q
<1>1. Len(p) \in Nat /\ Len(q) \in Nat
  BY LenProperties
<1>2. Len(p) = Len(q) /\ SubSeq(p, 1, Len(p)) = SubSeq(q, 1, Len(q))
  BY <1>1 DEF IsPrefix
<1> QED BY <1>2, SubSeqFull

\* The next w tokens of q behind its prefix p.
LEMMA NextChunk ==
  ASSUME NEW S, NEW p \in Seq(S), NEW q \in Seq(S), IsPrefix(p, q),
         NEW w \in Nat, Len(p) + w <= Len(q)
  PROVE  LET c == SubSeq(q, Len(p) + 1, Len(p) + w)
         IN  /\ c \in Seq(S) /\ Len(c) = w
             /\ IsPrefix(p \o c, q) /\ Len(p \o c) = Len(p) + w
<1> DEFINE c == SubSeq(q, Len(p) + 1, Len(p) + w)
<1>1. Len(p) \in Nat /\ Len(q) \in Nat
  BY LenProperties
<1>2. SubSeq(p, 1, Len(p)) = p
  BY SubSeqFull
<1>3. p = SubSeq(q, 1, Len(p))
  BY <1>2 DEF IsPrefix
<1>4. SubSeq(q, 1, Len(p)) \o c = SubSeq(q, 1, Len(p) + w)
  <2>1. /\ 1 \in 1 .. Len(q) + 1
        /\ Len(p) \in 1 - 1 .. Len(q)
        /\ Len(p) + w \in Len(p) .. Len(q)
    BY <1>1
  <2> QED BY <2>1, ConcatAdjacentSubSeq
<1>5. c \in Seq(S) /\ Len(c) = w
  <2>1. \A i \in Len(p) + 1 .. Len(p) + w : q[i] \in S
    BY <1>1, ElementOfSeq
  <2>2. Len(p) + 1 \in Int /\ Len(p) + w \in Int
    BY <1>1
  <2>3. /\ c \in Seq(S)
        /\ Len(c) = IF Len(p) + 1 <= Len(p) + w THEN Len(p) + w - (Len(p) + 1) + 1 ELSE 0
    BY <2>1, <2>2, SubSeqProperties
  <2> QED BY <1>1, <2>3
<1> HIDE DEF c
<1>6. p \o c \in Seq(S) /\ Len(p \o c) = Len(p) + w
  BY <1>5, ConcatProperties
<1>7. p \o c = SubSeq(q, 1, Len(p) + w)
  BY <1>3, <1>4
<1>8. SubSeq(p \o c, 1, Len(p \o c)) = p \o c
  BY <1>6, SubSeqFull
<1> QED BY <1>5, <1>6, <1>7, <1>8 DEF IsPrefix, c

LEMMA Associative ==
  \A p, q, r \in Seq(Token) : (p \o q) \o r = p \o (q \o r)
<1>1. SUFFICES ASSUME NEW p \in Seq(Token), NEW q \in Seq(Token), NEW r \in Seq(Token)
               PROVE  (p \o q) \o r = p \o (q \o r)
  OBVIOUS
<1> QED BY <1>1, ConcatProperties, ConcatAssociative

\* What a history holds beyond p.
LEMMA Beyond ==
  ASSUME NEW S, NEW p \in Seq(S), NEW q \in Seq(S)
  PROVE  SubSeq(p \o q, Len(p) + 1, Len(p \o q)) = q
<1>1. Len(p) \in Nat /\ Len(q) \in Nat /\ Len(p \o q) = Len(p) + Len(q)
  BY LenProperties, ConcatProperties
<1>2. CASE Len(q) = 0
  <2>1. q = <<>>
    BY <1>2, EmptySeq
  <2>2. SubSeq(p \o q, Len(p) + 1, Len(p \o q)) = <<>>
    BY <1>1, <1>2, SubSeqEmpty
  <2> QED BY <2>1, <2>2
<1>3. CASE Len(q) # 0
  <2>1. /\ Len(p) + 1 \in Len(p) + 1 .. Len(p) + Len(q)
        /\ Len(p) + Len(q) \in Len(p) + 1 .. Len(p) + Len(q)
    BY <1>1, <1>3
  <2>2. SubSeq(p \o q, Len(p) + 1, Len(p) + Len(q))
          = SubSeq(q, Len(p) + 1 - Len(p), Len(p) + Len(q) - Len(p))
    BY <2>1, SubSeqOfConcat2
  <2>3. Len(p) + 1 - Len(p) = 1 /\ Len(p) + Len(q) - Len(p) = Len(q)
    BY <1>1
  <2> QED BY <1>1, <2>2, <2>3, SubSeqFull
<1> QED BY <1>2, <1>3

LEMMA EmptyPrefix ==
  ASSUME NEW S, NEW q \in Seq(S)
  PROVE  IsPrefix(<<>>, q)
<1>1. Len(q) \in Nat /\ Len(<<>>) = 0
  BY LenProperties, EmptySeq
<1>2. SubSeq(<<>>, 1, 0) = <<>> /\ SubSeq(q, 1, 0) = <<>>
  BY SubSeqEmpty
<1> QED BY <1>1, <1>2 DEF IsPrefix

-----------------------------------------------------------------------------
\* The protocol's steps.

LEMMA QuotaLeft ==
  ASSUME NEW x \in Nat, NEW y \in Nat, NEW z \in Nat, NEW w \in Nat, w <= z - x - y
  PROVE  x + y + w <= z
OBVIOUS

LEMMA QuotaSum ==
  ASSUME NEW x \in Nat, NEW y \in Nat, NEW z \in Nat, NEW w \in Nat, x + y + z <= w
  PROVE  x + (y + z) <= w
OBVIOUS

LEMMA Within ==
  ASSUME NEW x \in Nat, NEW y \in Nat, NEW z \in Nat, NEW w \in Nat,
         z <= y, x + y <= w
  PROVE  x + z <= w
OBVIOUS

LEMMA QuotaWithin ==
  ASSUME NEW x \in Nat, NEW y \in Nat, NEW z \in Nat, NEW v \in Nat, NEW w \in Nat,
         v <= z, x + y + z <= w
  PROVE  x + y + v <= w
OBVIOUS

\* At the top of its loops a protocol goes on or returns.
LEMMA ResumedGoes ==
  ASSUME NEW t, NEW k, NEW r \in Request, Admissible(asked[k]),
         t.seats[r.lease.seat] \in Resident,
         req[k].output = r.output,
         IsPrefix(t.seats[r.lease.seat].tokens, Goal(k) \o r.emitted),
         r.emitted # <<>> => t.seats[r.lease.seat].tokens = Goal(k) \o r.emitted,
         Len(r.output) + Len(r.emitted) <= asked[k].count
  PROVE  LET n == Resumed(t, k, r)
         IN  /\ n \in Request
             /\ n.status = r.status /\ n.output = r.output /\ n.lease = r.lease
             /\ n.emitted = r.emitted /\ n.progress = r.progress
             /\ n.point \in {"none", "prefill_pages", "decode_pages"}
             /\ n.point # "none" => Going(t.seats[r.lease.seat], n, asked[k])
<1> DEFINE s    == t.seats[r.lease.seat]
           goal == asked[k].prompt \o r.output
           n    == Resumed(t, k, r)
           left == asked[k].count - Len(r.output) - Len(r.emitted)
<1>1. s.tokens \in Seq(Token) /\ Len(s.tokens) \in Nat
  BY LenProperties DEF Resident
<1>2. /\ r.output \in Seq(Token) /\ r.emitted \in Seq(Token)
      /\ Len(r.output) \in Nat /\ Len(r.emitted) \in Nat
      /\ asked[k].prompt \in Seq(Token) /\ asked[k].count \in Nat
  BY LenProperties DEF Request, Admissible
<1>3. /\ goal \in Seq(Token) /\ Len(goal) \in Nat
      /\ goal \o r.emitted \in Seq(Token)
      /\ Len(goal \o r.emitted) = Len(goal) + Len(r.emitted)
  <2>1. goal \in Seq(Token)
    BY <1>2, ConcatProperties
  <2> HIDE DEF goal
  <2> QED BY <1>2, <2>1, ConcatProperties, LenProperties
<1>4. Goal(k) = goal /\ Quota(k) - Len(r.emitted) = left
  BY DEF Goal, Quota
<1>5. r.cached \in Nat
  BY DEF Request
<1>8. /\ s \in Resident /\ IsPrefix(s.tokens, goal \o r.emitted)
      /\ r.emitted # <<>> => s.tokens = goal \o r.emitted
      /\ left \in Int
      /\ left = asked[k].count - Len(r.output) - Len(r.emitted)
  <2>1. left \in Int
    BY <1>2
  <2> QED BY <1>4, <2>1, Zenon
<1>9. /\ n = IF Len(s.tokens) < Len(goal)
             THEN [r EXCEPT !.point = "prefill_pages", !.chunk = <<>>, !.age = 0,
                            !.width = PrefillWidth(Len(s.tokens), r.cached, Len(goal))]
             ELSE IF left > 0 /\ ~(r.emitted # <<>> /\ Last(r.emitted) \in asked[k].stops)
             THEN [r EXCEPT !.point = "decode_pages", !.chunk = <<>>, !.age = 0,
                            !.width = IF left >= 3 THEN 3 ELSE 1]
             ELSE [r EXCEPT !.point = "none"]
      /\ \A m : Going(s, m, asked[k]) <=> Going(t.seats[r.lease.seat], m, asked[k])
  BY <1>4, Zenon DEF Resumed
<1>10. goal = asked[k].prompt \o r.output
  OBVIOUS
<1> HIDE DEF s, goal, left, n
<1>6. CASE Len(s.tokens) < Len(goal)
  <2> DEFINE w == PrefillWidth(Len(s.tokens), r.cached, Len(goal))
  <2>1. w \in Nat /\ 1 <= w /\ Len(s.tokens) + w <= Len(goal)
    BY <1>1, <1>3, <1>6, PrefillFits
  <2>2. n = [r EXCEPT !.point = "prefill_pages", !.chunk = <<>>, !.age = 0, !.width = w]
    BY <1>6, <1>9
  <2>3. r.emitted = <<>>
    <3>1. SUFFICES ASSUME r.emitted # <<>> PROVE FALSE
      OBVIOUS
    <3>2. s.tokens = goal \o r.emitted
      BY <1>8, <3>1
    <3>3. Len(s.tokens) >= Len(goal)
      BY <1>2, <1>3, <3>2
    <3> QED BY <1>1, <1>3, <1>6, <3>3
  <2> HIDE DEF w
  <2>4. /\ n.status = r.status /\ n.output = r.output /\ n.lease = r.lease
        /\ n.emitted = r.emitted /\ n.progress = r.progress
        /\ n.point = "prefill_pages" /\ n.width = w
    BY <2>2 DEF Request
  <2>5. n \in Request
    BY <2>1, <2>2, EmptySeq DEF Request, Points, PrefillPoints
  <2>6. Going(s, n, asked[k])
    BY <1>8, <1>10, <2>1, <2>3, <2>4 DEF Going, PrefillPoints, DecodePoints, PagePoints
  <2> QED BY <1>9, <2>4, <2>5, <2>6 DEF n
<1>7. CASE ~(Len(s.tokens) < Len(goal))
  <2>1. s.tokens = goal \o r.emitted
    <3>1. CASE r.emitted = <<>>
      <4>1. goal \o r.emitted = goal
        BY <1>3, <3>1, ConcatEmptySeq
      <4>2. Len(s.tokens) >= Len(goal)
        BY <1>1, <1>3, <1>7
      <4> QED BY <1>1, <1>3, <1>8, <4>1, <4>2, WholePrefix
    <3> QED BY <1>8, <3>1
  <2>2. CASE n = [r EXCEPT !.point = "none"]
    BY <2>2 DEF Request, Points, n
  <2>3. CASE /\ left > 0
             /\ n = [r EXCEPT !.point = "decode_pages", !.chunk = <<>>, !.age = 0,
                              !.width = IF left >= 3 THEN 3 ELSE 1]
    <3> DEFINE w == IF left >= 3 THEN 3 ELSE 1
    <3>1. /\ w \in 1 .. 3 /\ w \in Nat
          /\ Len(r.output) + Len(r.emitted) + w <= asked[k].count
      <4>1. left \in Int /\ left > 0
        BY <1>8, <2>3
      <4>2. w \in 1 .. 3 /\ w \in Nat /\ w <= left
        BY <4>1
      <4> HIDE DEF w
      <4>3. left = asked[k].count - Len(r.output) - Len(r.emitted)
        BY <1>8
      <4>4. Len(r.output) + Len(r.emitted) + w <= asked[k].count
        <5>1. Len(r.output) \in Nat /\ Len(r.emitted) \in Nat /\ asked[k].count \in Nat
          BY <1>2
        <5> QED BY <4>2, <4>3, <5>1, QuotaLeft
      <4> QED BY <4>2, <4>4
    <3>2. n = [r EXCEPT !.point = "decode_pages", !.chunk = <<>>, !.age = 0, !.width = w]
      BY <2>3
    <3> HIDE DEF w
    <3>4. /\ n.status = r.status /\ n.output = r.output /\ n.lease = r.lease
          /\ n.emitted = r.emitted /\ n.progress = r.progress
          /\ n.point = "decode_pages" /\ n.width = w
      BY <3>2 DEF Request
    <3>5. n \in Request
      BY <3>1, <3>2, EmptySeq DEF Request, Points, DecodePoints
    <3>6. Going(s, n, asked[k])
      BY <1>8, <1>10, <2>1, <3>1, <3>4 DEF Going, PrefillPoints, DecodePoints, PagePoints
    <3> QED BY <1>9, <3>4, <3>5, <3>6 DEF n
  <2>4. \/ n = [r EXCEPT !.point = "none"]
        \/ /\ left > 0
           /\ n = [r EXCEPT !.point = "decode_pages", !.chunk = <<>>, !.age = 0,
                            !.width = IF left >= 3 THEN 3 ELSE 1]
    BY <1>7, <1>9
  <2> QED BY <2>2, <2>3, <2>4
<1> QED BY <1>6, <1>7

\* A step that commits nothing leads to the next step of the same loop.
LEMMA FollowGoes ==
  ASSUME NEW s, NEW r \in Request, NEW q, Going(s, r, q),
         r.point \in {"prefill_draft", "prefill_target", "decode_draft", "decode_propose"}
  PROVE  LET n == [r EXCEPT !.point = FollowingPoint(r), !.age = 0]
         IN  /\ n \in Request
             /\ n.status = r.status /\ n.output = r.output /\ n.lease = r.lease
             /\ n.emitted = r.emitted /\ n.progress = r.progress
             /\ n.point \notin {"none", "start", "closed"}
             /\ Going(s, n, q)
<1> DEFINE p == FollowingPoint(r)
           n == [r EXCEPT !.point = p, !.age = 0]
<1>1. /\ r.point \in {"prefill_draft", "prefill_target"} =>
           p \in {"prefill_target", "prefill_shift"}
      /\ r.point \in {"decode_draft", "decode_propose"} =>
           p \in {"decode_propose", "decode_verify"}
  BY DEF FollowingPoint
<1> HIDE DEF p
<1>2. /\ n.status = r.status /\ n.output = r.output /\ n.lease = r.lease
      /\ n.emitted = r.emitted /\ n.progress = r.progress
      /\ n.width = r.width /\ n.point = p
  BY DEF Request
<1>3. n \in Request
  BY <1>1 DEF Request, Points, PrefillPoints, DecodePoints
<1> HIDE DEF n
<1>4. Going(s, n, q)
  BY <1>1, <1>2 DEF Going, PrefillPoints, DecodePoints, PagePoints
<1> QED BY <1>1, <1>2, <1>3, <1>4 DEF n, p

LEMMA GreedyToken ==
  ASSUME NEW s \in Seq(Token), Len(s) >= 1, Len(s) <= ContextTokens
  PROVE  Greedy(s) \in Token
<1>1. Len(s) \in Nat /\ s \in [1 .. Len(s) -> Token]
  BY LenProperties
<1>2. Len(s) \in 1 .. ContextTokens
  BY <1>1, SchedulerAssumption
<1> QED BY <1>1, <1>2, SchedulerAssumption

LEMMA UpToStopPart ==
  ASSUME NEW S, NEW x \in Seq(S), NEW stops
  PROVE  UpToStop(x, stops) \in Seq(S) /\ Len(UpToStop(x, stops)) <= Len(x)
<1> DEFINE ends == {i \in DOMAIN x : x[i] \in stops}
<1>1. Len(x) \in Nat /\ DOMAIN x = 1 .. Len(x)
  BY LenProperties
<1>2. CASE ends = {}
  BY <1>1, <1>2 DEF UpToStop
<1>3. CASE ends # {}
  <2>1. ends \in SUBSET Nat
    BY <1>1
  <2>2. \E i \in ends : \A j \in ends : i <= j
    BY <1>3, <2>1, LeastExists
  <2>3. Min(ends) \in ends
    BY <2>2 DEF Min
  <2>4. Min(ends) \in 1 .. Len(x)
    BY <1>1, <2>3
  <2>5. UpToStop(x, stops) = SubSeq(x, 1, Min(ends))
    BY <1>3 DEF UpToStop
  <2> HIDE DEF ends
  <2>6. \A i \in 1 .. Min(ends) : x[i] \in S
    BY <1>1, <2>4, ElementOfSeq
  <2>7. /\ SubSeq(x, 1, Min(ends)) \in Seq(S)
        /\ Len(SubSeq(x, 1, Min(ends)))
             = IF 1 <= Min(ends) THEN Min(ends) - 1 + 1 ELSE 0
    BY <1>1, <2>4, <2>6, SubSeqProperties
  <2> QED BY <1>1, <2>4, <2>5, <2>7
<1> QED BY <1>2, <1>3

\* What the target accepts are tokens, as long as they fit the context.
LEMMA AcceptedTokens ==
  ASSUME NEW k, NEW n \in 1 .. 3, Committed(table, k) \in Seq(Token),
         Len(Committed(table, k)) >= 1, anchor[SeatOf(k)] \in Token,
         Len(Committed(table, k)) + n <= ContextTokens
  PROVE  Accepted(k, n) \in Seq(Token) /\ Len(Accepted(k, n)) <= n
<1> DEFINE c      == Committed(table, k)
           a      == anchor[SeatOf(k)]
           first  == Append(c, a)
           second == Append(first, Greedy(first))
<1>1. Predicted(k) = <<a, Greedy(first), Greedy(second)>>
  BY DEF Predicted
<1>2. c \in Seq(Token) /\ Len(c) \in Nat /\ a \in Token
  BY LenProperties
<1>9. Len(c) >= 1 /\ Len(c) + n <= ContextTokens /\ ContextTokens \in Nat
  BY SchedulerAssumption
<1>3. first \in Seq(Token) /\ Len(first) = Len(c) + 1
  <2> HIDE DEF c, a
  <2> QED BY <1>2, AppendProperties
<1>4. ASSUME n >= 2 PROVE Greedy(first) \in Token
  <2> HIDE DEF first, c, a
  <2>1. Len(first) >= 1 /\ Len(first) <= ContextTokens
    BY <1>2, <1>3, <1>4, <1>9
  <2> QED BY <1>3, <2>1, GreedyToken
<1>5. n = 3 => second \in Seq(Token) /\ Len(second) = Len(c) + 2
  <2> HIDE DEF first
  <2> QED BY <1>2, <1>3, <1>4, AppendProperties
<1>6. ASSUME n = 3 PROVE Greedy(second) \in Token
  <2> HIDE DEF second, first, c, a
  <2>1. second \in Seq(Token) /\ Len(second) >= 1 /\ Len(second) <= ContextTokens
    BY <1>2, <1>5, <1>6, <1>9
  <2> QED BY <2>1, GreedyToken
<1> HIDE DEF second, first, a, c
<1>7. \A i \in 1 .. n : Predicted(k)[i] \in Token
  BY <1>1, <1>2, <1>4, <1>6
<1>8. SubSeq(Predicted(k), 1, n) \in Seq(Token) /\ Len(SubSeq(Predicted(k), 1, n)) = n
  <2>1. /\ SubSeq(Predicted(k), 1, n) \in Seq(Token)
        /\ Len(SubSeq(Predicted(k), 1, n)) = IF 1 <= n THEN n - 1 + 1 ELSE 0
    BY <1>7, SubSeqProperties
  <2> QED BY <2>1
<1> QED BY <1>8, UpToStopPart DEF Accepted

-----------------------------------------------------------------------------
\* The queue.

InOrder(s) == \A i, j \in DOMAIN s : i < j => s[i] < s[j]

LEMMA RemovedInOrder ==
  ASSUME NEW w \in Seq(Key), InOrder(w), NEW i \in DOMAIN w
  PROVE  LET v == RemoveAt(w, i)
         IN  /\ v \in Seq(Key) /\ InOrder(v)
             /\ \A j \in DOMAIN v : \E h \in DOMAIN w : h # i /\ v[j] = w[h]
<1> DEFINE v == RemoveAt(w, i)
           p == SubSeq(w, 1, i - 1)
           q == SubSeq(w, i + 1, Len(w))
<1>1. Len(w) \in Nat /\ DOMAIN w = 1 .. Len(w) /\ i \in 1 .. Len(w)
  BY LenProperties
<1>2. \A j \in 1 .. Len(w) : w[j] \in Key
  BY ElementOfSeq
<1>3. /\ p \in Seq(Key) /\ Len(p) = i - 1
      /\ \A j \in 1 .. i - 1 : p[j] = w[j]
  <2>1. \A j \in 1 .. i - 1 : w[j] \in Key
    BY <1>1, <1>2
  <2>2. /\ SubSeq(w, 1, i - 1) \in Seq(Key)
        /\ Len(SubSeq(w, 1, i - 1)) = IF 1 <= i - 1 THEN i - 1 - 1 + 1 ELSE 0
        /\ \A j \in 1 .. i - 1 - 1 + 1 : SubSeq(w, 1, i - 1)[j] = w[1 + j - 1]
    BY <1>1, <2>1, SubSeqProperties
  <2> QED BY <1>1, <2>2
<1>4. /\ q \in Seq(Key) /\ Len(q) = Len(w) - i
      /\ \A j \in 1 .. Len(w) - i : q[j] = w[i + j]
  <2>1. \A j \in i + 1 .. Len(w) : w[j] \in Key
    BY <1>1, <1>2
  <2>2. /\ SubSeq(w, i + 1, Len(w)) \in Seq(Key)
        /\ Len(SubSeq(w, i + 1, Len(w)))
             = IF i + 1 <= Len(w) THEN Len(w) - (i + 1) + 1 ELSE 0
        /\ \A j \in 1 .. Len(w) - (i + 1) + 1 :
             SubSeq(w, i + 1, Len(w))[j] = w[i + 1 + j - 1]
    BY <1>1, <2>1, SubSeqProperties
  <2> QED BY <1>1, <2>2
<1>5. v = p \o q
  BY DEF RemoveAt
<1> HIDE DEF p, q, v
<1>6. /\ v \in Seq(Key) /\ Len(v) = Len(w) - 1
      /\ \A j \in 1 .. Len(w) - 1 : v[j] = IF j <= i - 1 THEN p[j] ELSE q[j - (i - 1)]
  <2>1. /\ v \in Seq(Key) /\ Len(v) = Len(p) + Len(q)
        /\ \A j \in 1 .. Len(p) + Len(q) : v[j] = IF j <= Len(p) THEN p[j] ELSE q[j - Len(p)]
    BY <1>3, <1>4, <1>5, ConcatProperties
  <2>2. Len(p) = i - 1 /\ Len(p) + Len(q) = Len(w) - 1
    BY <1>1, <1>3, <1>4
  <2> QED BY <2>1, <2>2
<1>7. DOMAIN v = 1 .. Len(w) - 1
  BY <1>6, LenProperties
<1>8. \A j \in 1 .. Len(w) - 1 : v[j] = w[IF j < i THEN j ELSE j + 1]
  <2>1. SUFFICES ASSUME NEW j \in 1 .. Len(w) - 1
                 PROVE  v[j] = w[IF j < i THEN j ELSE j + 1]
    OBVIOUS
  <2>2. CASE j < i
    <3>1. j \in 1 .. i - 1 /\ j <= i - 1
      BY <1>1, <2>2
    <3> QED BY <1>3, <1>6, <2>2, <3>1
  <2>3. CASE ~(j < i)
    <3>1. j - (i - 1) \in 1 .. Len(w) - i /\ ~(j <= i - 1) /\ i + (j - (i - 1)) = j + 1
      BY <1>1, <2>3
    <3> QED BY <1>4, <1>6, <2>3, <3>1
  <2> QED BY <2>2, <2>3
<1>9. InOrder(v)
  <2>1. SUFFICES ASSUME NEW g \in 1 .. Len(w) - 1, NEW h \in 1 .. Len(w) - 1, g < h
                 PROVE  v[g] < v[h]
    BY <1>7 DEF InOrder
  <2> DEFINE x == IF g < i THEN g ELSE g + 1
             y == IF h < i THEN h ELSE h + 1
  <2>2. x \in 1 .. Len(w) /\ y \in 1 .. Len(w) /\ x < y
    BY <1>1, <2>1
  <2>3. v[g] = w[x] /\ v[h] = w[y]
    BY <1>8
  <2> HIDE DEF x, y
  <2> QED BY <1>1, <2>2, <2>3 DEF InOrder
<1>10. ASSUME NEW j \in DOMAIN v
       PROVE  \E h \in DOMAIN w : h # i /\ v[j] = w[h]
  <2> DEFINE h == IF j < i THEN j ELSE j + 1
  <2>1. h \in 1 .. Len(w) /\ h # i /\ v[j] = w[h]
    BY <1>1, <1>7, <1>8
  <2> QED BY <1>1, <2>1
<1> QED BY <1>6, <1>9, <1>10 DEF v

LEMMA SortedQueue ==
  ASSUME NEW w \in Seq(Key), InOrder(w), NEW v \in Key, \A i \in DOMAIN w : v < w[i]
  PROVE  LET s == Sorted(Append(w, v))
         IN  /\ s \in Seq(Key) /\ InOrder(s)
             /\ \A i \in DOMAIN s : s[i] = v \/ \E j \in DOMAIN w : s[i] = w[j]
<1> DEFINE a == Append(w, v)
           f == <<v>> \o w
           s == Sorted(a)
           m == Len(w) + 1
<1>1. Len(w) \in Nat /\ DOMAIN w = 1 .. Len(w)
  BY LenProperties
<1>2. /\ a \in Seq(Key) /\ Len(a) = m /\ \A i \in 1 .. Len(w) : a[i] = w[i]
      /\ a[m] = v
  BY AppendProperties
<1>3. DOMAIN a = 1 .. m
  BY <1>2, LenProperties
<1>4. /\ <<v>> \in Seq(Key) /\ Len(<<v>>) = 1 /\ <<v>>[1] = v
  OBVIOUS
<1>5. /\ f \in Seq(Key) /\ Len(f) = m
      /\ \A i \in 1 .. m : f[i] = IF i <= 1 THEN v ELSE w[i - 1]
  BY <1>1, <1>4, ConcatProperties
<1>6. Range(a) = {a[i] : i \in 1 .. m}
  BY <1>3 DEF Range
<1> HIDE DEF a, f
<1>7. \A x \in Range(a) : x \in Key /\ (x = v \/ \E j \in DOMAIN w : x = w[j])
  <2>1. SUFFICES ASSUME NEW i \in 1 .. m
                 PROVE  a[i] \in Key /\ (a[i] = v \/ \E j \in DOMAIN w : a[i] = w[j])
    BY <1>6
  <2>2. i = m \/ i \in 1 .. Len(w)
    BY <1>1
  <2> QED BY <1>1, <1>2, <2>2, ElementOfSeq
<1>8. f \in [1 .. m -> Range(a)]
  <2>1. f \in [1 .. m -> Key]
    BY <1>5, LenProperties
  <2>2. ASSUME NEW i \in 1 .. m PROVE f[i] \in Range(a)
    <3>1. m \in 1 .. m
      BY <1>1
    <3>2. CASE i <= 1
      BY <1>2, <1>5, <1>6, <3>1, <3>2
    <3>3. CASE i > 1
      <4>1. i - 1 \in 1 .. Len(w) /\ i - 1 \in 1 .. m
        BY <1>1, <3>3
      <4> QED BY <1>2, <1>5, <1>6, <3>3, <4>1
    <3> QED BY <3>2, <3>3
  <2> QED BY <2>1, <2>2
<1>9. InOrder(f)
  <2>1. DOMAIN f = 1 .. m
    BY <1>8
  <2>2. SUFFICES ASSUME NEW g \in 1 .. m, NEW h \in 1 .. m, g < h
                 PROVE  f[g] < f[h]
    BY <2>1 DEF InOrder
  <2>3. h - 1 \in 1 .. Len(w) /\ f[h] = w[h - 1]
    BY <1>1, <1>5, <2>2
  <2>4. CASE g <= 1
    BY <1>1, <1>5, <2>3, <2>4
  <2>5. CASE g > 1
    <3>1. g - 1 \in 1 .. Len(w) /\ g - 1 < h - 1 /\ f[g] = w[g - 1]
      BY <1>1, <1>5, <2>2, <2>5
    <3> QED BY <1>1, <2>3, <3>1 DEF InOrder
  <2> QED BY <2>4, <2>5
<1>10. s \in [1 .. m -> Range(a)] /\ InOrder(s)
  <2>1. s = CHOOSE t \in [1 .. m -> Range(a)] : \A i, j \in DOMAIN t : i < j => t[i] < t[j]
    BY <1>3 DEF Sorted
  <2>2. \E t \in [1 .. m -> Range(a)] : \A i, j \in DOMAIN t : i < j => t[i] < t[j]
    BY <1>8, <1>9 DEF InOrder
  <2> HIDE DEF s
  <2> QED BY <2>1, <2>2 DEF InOrder
<1> HIDE DEF s
<1>11. DOMAIN s = 1 .. m /\ \A i \in 1 .. m : s[i] \in Range(a)
  BY <1>10
<1>12. s \in Seq(Key)
  <2>1. s \in [1 .. m -> Key] /\ m \in Nat
    BY <1>1, <1>7, <1>10, <1>11
  <2> HIDE DEF m
  <2> QED BY <2>1, SeqDef
<1> QED BY <1>7, <1>10, <1>11, <1>12 DEF s, a

-----------------------------------------------------------------------------
\* The seats of the protocols.

LEMMA ClosedFields ==
  ASSUME NEW t, TableOK(t), NEW S \in SUBSET Seats
  PROVE  LET u == ClosedTable(t, S)
         IN  /\ TableOK(u)
             /\ u.generation = t.generation
             /\ \A j \in S : u.seats[j].tokens = <<>> /\ u.seats[j].request = NoRequest
             /\ \A j \in Seats \ S : u.seats[j] = t.seats[j]
<1> DEFINE f == [i \in Seats |-> IF i \in S
                   THEN [t.seats[i] EXCEPT !.request = NoRequest] ELSE t.seats[i]]
           w == [t EXCEPT !.seats = f]
           u == Evict(w, S)
<1>1. t \in Table /\ PagesPartitioned(t) /\ TokensCovered(t)
  BY DEF TableOK
<1>2. ASSUME NEW i \in Seats
      PROVE  /\ f[i] \in Resident /\ f[i].pages = t.seats[i].pages
             /\ i \in S => f[i].request = NoRequest
             /\ i \notin S => f[i] = t.seats[i]
  <2>1. t.seats[i] \in Resident
    BY <1>1, SeatsType
  <2> QED BY <2>1 DEF Resident, NoRequest
<1>3. f \in [Seats -> Resident]
  BY <1>2
<1> HIDE DEF f
<1>4. /\ w \in Table /\ w.seats = f /\ w.free = t.free
      /\ w.generation = t.generation
  BY <1>1, <1>3 DEF Table
<1> HIDE DEF w
<1>5. PagesPartitioned(w)
  BY <1>1, <1>2, <1>4, SamePagesPartition
<1>6. PagesPartitioned(u)
  BY <1>4, <1>5, EvictPartition
<1>7. /\ u \in Table /\ u.generation = t.generation
      /\ \A j \in S : u.seats[j] = EvictedResident(f[j])
      /\ \A j \in Seats \ S : u.seats[j] = f[j]
  BY <1>4, EvictFields
<1> HIDE DEF u
<1>8. \A j \in S : u.seats[j].tokens = <<>> /\ u.seats[j].request = NoRequest
  <2>1. SUFFICES ASSUME NEW j \in S
                 PROVE  u.seats[j].tokens = <<>> /\ u.seats[j].request = NoRequest
    OBVIOUS
  <2>2. j \in Seats /\ f[j].request = NoRequest /\ u.seats[j] = EvictedResident(f[j])
    BY <1>2, <1>7
  <2> QED BY <2>2 DEF EvictedResident
<1>9. \A j \in Seats \ S : u.seats[j] = t.seats[j]
  BY <1>2, <1>7
<1>10. TokensCovered(u)
  <2>1. SUFFICES ASSUME NEW i \in Seats PROVE SeatCovered(u.seats[i])
    BY DEF TokensCovered
  <2>2. u.seats[i] \in Resident
    BY <1>7, SeatsType
  <2>3. CASE i \in S
    BY <1>8, <2>2, <2>3, NoTokensCovered
  <2>4. CASE i \notin S
    BY <1>1, <1>9, <2>4 DEF TokensCovered
  <2> QED BY <2>3, <2>4
<1>11. ClosedTable(t, S) = u
  BY DEF ClosedTable, u, w, f
<1> QED BY <1>6, <1>7, <1>8, <1>9, <1>10, <1>11 DEF TableOK

LEMMA RunningFacts ==
  ASSUME Sound, NEW k \in Running
  PROVE  /\ k \in active /\ k \in Key /\ k <= Len(asked)
         /\ req[k] \in Request /\ req[k].status = "active"
         /\ req[k].lease \in Lease /\ SeatOf(k) \in Seats
         /\ Resolves(table, req[k].lease) /\ SeatOf(k) \notin Idle(table)
         /\ table.seats[SeatOf(k)] \in Resident
         /\ Admissible(asked[k]) /\ Streamed(req[k], asked[k])
         /\ Going(table.seats[SeatOf(k)], req[k], asked[k])
<1>1. k \in active /\ k \in Key /\ req[k] \in Request
  BY DEF Sound, TypeOK, Running
<1>2. k <= Len(asked) /\ req[k].status = "active"
  BY <1>1 DEF Sound, Submitted
<1>3. req[k].lease \in Lease /\ Going(table.seats[SeatOf(k)], req[k], asked[k])
  BY <1>1 DEF Sound, Protocols
<1>4. Resolves(table, req[k].lease)
  BY DEF Sound, Held
<1>5. table \in Table
  BY DEF Sound, TypeOK, TableOK
<1>6. SeatOf(k) \in Seats /\ SeatOf(k) \notin Idle(table)
  BY <1>3, <1>4, <1>5, ResolvesLive DEF SeatOf
<1>7. table.seats[SeatOf(k)] \in Resident
  BY <1>5, <1>6, SeatsType
<1>8. k \in DOMAIN asked
  <2>1. asked \in Seq(Question) /\ k \in 1 .. MaxRequests
    BY <1>1 DEF Sound, TypeOK, Key
  <2> QED BY <1>2, <2>1, LenProperties
<1>9. Admissible(asked[k])
  BY <1>8 DEF Sound, TypeOK
<1>10. Streamed(req[k], asked[k])
  BY <1>1, <1>2 DEF Sound, Streams
<1> QED BY <1>1, <1>2, <1>3, <1>4, <1>6, <1>7, <1>9, <1>10

\* A step that moves one request v: what it leaves of the protocols.
LEMMA OneMoves ==
  ASSUME Sound, NEW v \in Key,
         table' \in Table, table'.generation = table.generation,
         active' \in SUBSET Key, active' \ {v} = active \ {v},
         \A j \in active \ {v} : req'[j] = req[j] /\ asked'[j] = asked[j],
         \A j \in Running \ {v} : table'.seats[SeatOf(j)] = table.seats[SeatOf(j)],
         \A j \in active \ Running :
           j # v => table'.seats[SeatOf(j)].tokens = table.seats[SeatOf(j)].tokens,
         phase' # "failed" => phase # "failed",
         phase' # "failed" /\ v \in active' => req'[v].point # "closed",
         v \in active' => req'[v].lease \in Lease,
         v \in active' /\ req'[v].point # "closed" =>
           /\ Resolves(table', req'[v].lease)
           /\ Going(table'.seats[req'[v].lease.seat], req'[v], asked'[v])
           /\ IF v \in Running THEN req'[v].lease.seat = SeatOf(v)
                               ELSE req'[v].lease.seat \in Idle(table),
         v \in active' /\ req'[v].point = "closed" =>
           req'[v].emitted = <<>> /\ table'.seats[req'[v].lease.seat].tokens = <<>>,
         \A i \in Seats :
           /\ v \in Running => i # SeatOf(v)
           /\ v \in active' /\ req'[v].point # "closed" => i # req'[v].lease.seat
           => (i \in Idle(table') <=> i \in Idle(table)),
         v \in Running /\ ~(v \in active' /\ req'[v].point # "closed") =>
           SeatOf(v) \in Idle(table')
  PROVE  Protocols' /\ Held'
<1> DEFINE runs == v \in active' /\ req'[v].point # "closed"
<1>1. /\ \A j \in Running' : j # v => j \in Running
      /\ \A j \in Running \ {v} : j \in Running'
      /\ v \in Running' <=> runs
  BY DEF Running
<1>2. \A j \in Running \ {v} :
        /\ req'[j] = req[j] /\ asked'[j] = asked[j] /\ SeatOf(j)' = SeatOf(j)
        /\ table'.seats[SeatOf(j)] = table.seats[SeatOf(j)]
        /\ req[j].lease \in Lease /\ SeatOf(j) \in Seats
        /\ Resolves(table, req[j].lease) /\ SeatOf(j) \notin Idle(table)
        /\ Going(table.seats[SeatOf(j)], req[j], asked[j])
  BY RunningFacts DEF Running, SeatOf
<1>3. \A j \in Running' : req'[j].lease \in Lease /\ Resolves(table', req'[j].lease)
  <2>1. SUFFICES ASSUME NEW j \in Running'
                 PROVE  req'[j].lease \in Lease /\ Resolves(table', req'[j].lease)
    OBVIOUS
  <2>2. CASE j = v
    BY <1>1, <2>2
  <2>3. CASE j # v
    BY <1>1, <1>2, <2>3 DEF Resolves, SeatOf
  <2> QED BY <2>2, <2>3
<1>4. \A j \in Running' : Going(table'.seats[req'[j].lease.seat], req'[j], asked'[j])
  <2>1. SUFFICES ASSUME NEW j \in Running'
                 PROVE  Going(table'.seats[req'[j].lease.seat], req'[j], asked'[j])
    OBVIOUS
  <2>2. CASE j = v
    BY <1>1, <2>2
  <2>3. CASE j # v
    BY <1>1, <1>2, <2>3 DEF SeatOf
  <2> QED BY <2>2, <2>3
<1>5. Protocols'
  <2>1. phase' # "failed" => Running' = active'
    <3>1. SUFFICES ASSUME phase' # "failed", NEW j \in active' PROVE j \in Running'
      BY DEF Running
    <3>2. CASE j = v
      BY <1>1, <3>1, <3>2
    <3>3. CASE j # v
      BY <1>1, <3>1, <3>3 DEF Sound, Protocols
    <3> QED BY <3>2, <3>3
  <2>2. ASSUME NEW j \in active' PROVE req'[j].lease \in Lease
    <3>1. CASE j # v
      BY <3>1 DEF Sound, Protocols
    <3> QED BY <3>1
  <2>3. ASSUME NEW j \in active' \ Running'
        PROVE  req'[j].emitted = <<>> /\ table'.seats[req'[j].lease.seat].tokens = <<>>
    <3>1. CASE j = v
      BY <1>1, <3>1
    <3>2. CASE j # v
      <4>1. j \in active \ Running /\ req'[j] = req[j]
        BY <1>1, <3>2
      <4>2. req[j].emitted = <<>> /\ table.seats[SeatOf(j)].tokens = <<>>
        BY <4>1 DEF Sound, Protocols, Committed
      <4> QED BY <3>2, <4>1, <4>2 DEF SeatOf
    <3> QED BY <3>1, <3>2
  <2> QED BY <1>4, <2>1, <2>2, <2>3 DEF Protocols, Committed, SeatOf
<1>6. Held'
  <2>1. \A j \in Running \ {v} : runs => SeatOf(j) # req'[v].lease.seat
    <3>1. SUFFICES ASSUME NEW j \in Running \ {v}, runs
                   PROVE  SeatOf(j) # req'[v].lease.seat
      OBVIOUS
    <3>2. CASE v \in Running
      BY <3>1, <3>2 DEF Sound, Held
    <3>3. CASE v \notin Running
      BY <1>2, <3>1, <3>3
    <3> QED BY <3>2, <3>3
  <2>2. \A j, k \in Running' : req'[j].lease.seat = req'[k].lease.seat => j = k
    <3>1. SUFFICES ASSUME NEW j \in Running', NEW k \in Running', j # k
                   PROVE  req'[j].lease.seat # req'[k].lease.seat
      OBVIOUS
    <3>2. CASE j = v
      BY <1>1, <1>2, <2>1, <3>1, <3>2 DEF SeatOf
    <3>3. CASE k = v
      BY <1>1, <1>2, <2>1, <3>1, <3>3 DEF SeatOf
    <3>4. CASE j # v /\ k # v
      <4>1. j \in Running /\ k \in Running /\ SeatOf(j) # SeatOf(k)
        BY <1>1, <3>1, <3>4 DEF Sound, Held
      <4> QED BY <1>2, <3>4, <4>1 DEF SeatOf
    <3> QED BY <3>2, <3>3, <3>4
  <2>3. ASSUME NEW j \in Running'
        PROVE  req'[j].lease.seat \in Live(table')
    BY <1>3, ResolvesLive DEF Live
  <2>4. ASSUME NEW i \in Live(table')
        PROVE  \E j \in Running' : i = req'[j].lease.seat
    <3>1. i \in Seats /\ i \notin Idle(table')
      BY DEF Live
    <3>2. CASE runs /\ i = req'[v].lease.seat
      BY <1>1, <3>2
    <3>3. CASE ~(runs /\ i = req'[v].lease.seat)
      <4>1. ~(v \in Running /\ i = SeatOf(v))
        BY <3>1, <3>3
      <4>2. i \notin Idle(table)
        BY <3>1, <3>3, <4>1
      <4>3. PICK j \in Running : i = SeatOf(j)
        BY <3>1, <4>2 DEF Sound, Held, Live
      <4>4. j # v
        BY <4>1, <4>3
      <4> QED BY <1>1, <1>2, <4>3, <4>4 DEF SeatOf
    <3> QED BY <3>2, <3>3
  <2> QED BY <1>3, <2>2, <2>3, <2>4 DEF Held, SeatOf
<1> QED BY <1>5, <1>6

LEMMA FreshRequest == Fresh \in Request
BY EmptySeq DEF Fresh, Request, Statuses, Points

LEMMA FinishOK ==
  ASSUME NEW t, TableOK(t), NEW l \in Lease
  PROVE  /\ TableOK(Finish(t, l))
         /\ Finish(t, l).generation = t.generation
         /\ Finish(t, l).seats[l.seat].tokens = t.seats[l.seat].tokens
         /\ Finish(t, l).seats[l.seat].request = NoRequest
         /\ \A j \in Seats \ {l.seat} : Finish(t, l).seats[j] = t.seats[j]
<1>1. t \in Table /\ PagesPartitioned(t) /\ TokensCovered(t)
  BY DEF TableOK
<1> QED BY <1>1, FinishFields, FinishPartition, FinishCovered DEF TableOK

-----------------------------------------------------------------------------
\* The actions: consumption.

\* The protocol of k goes on with r on table t, or returns.
LEMMA ProceedSound ==
  ASSUME Sound, phase # "failed",
         NEW k \in Running, NEW t, NEW r \in Request, Proceed(t, k, r),
         TableOK(t), t.generation = table.generation,
         \A j \in Seats \ {SeatOf(k)} : t.seats[j] = table.seats[j],
         t.seats[SeatOf(k)].request = table.seats[SeatOf(k)].request,
         t.seats[SeatOf(k)].incarnation = table.seats[SeatOf(k)].incarnation,
         r.status = "active", r.lease = req[k].lease, r.point # "closed",
         Streamed(r, asked[k]),
         r.point # "none" => Going(t.seats[SeatOf(k)], r, asked[k]),
         anchor' = [i \in Seats |-> anchor'[i]],
         \A i \in Seats : t.seats[i].tokens # <<>> => anchor'[i] = Greedy(t.seats[i].tokens)
  PROVE  Sound'
<1> DEFINE l == r.lease
<1>1. /\ k \in active /\ k \in Key /\ k <= Len(asked)
      /\ req[k].status = "active" /\ SeatOf(k) \in Seats /\ SeatOf(k) = l.seat
      /\ l \in Lease /\ l.seat \notin Idle(table)
      /\ Resolves(table, l)
  BY RunningFacts DEF SeatOf
<1>2. /\ TypeOK /\ FirstComeFirstServed /\ Submitted /\ Streams
  BY DEF Sound
<1>3. /\ TableOK(Finish(t, l))
      /\ Finish(t, l).generation = t.generation
      /\ Finish(t, l).seats[l.seat].tokens = t.seats[l.seat].tokens
      /\ Finish(t, l).seats[l.seat].request = NoRequest
      /\ \A j \in Seats \ {l.seat} : Finish(t, l).seats[j] = t.seats[j]
  BY <1>1, FinishOK
<1>4. /\ Completed(r) \in Request
      /\ Completed(r).status = "done"
  <2>1. r.output \o r.emitted \in Seq(Token) /\ r.progress \in Seq(Token)
    BY ConcatProperties DEF Request
  <2> QED BY <2>1, FreshRequest DEF Completed, Fresh, Request, Statuses
<1>5. /\ asked' = asked /\ waiting' = waiting /\ phase' = phase
  BY DEF Proceed
<1>6. /\ r.point = "none" => /\ table' = Finish(t, l) /\ active' = active \ {k}
                             /\ req' = [req EXCEPT ![k] = Completed(r)]
      /\ r.point # "none" => /\ table' = t /\ active' = active
                             /\ req' = [req EXCEPT ![k] = r]
  BY DEF Proceed
<1>7. /\ req' \in [Key -> Request]
      /\ \A j \in Key \ {k} : req'[j] = req[j]
      /\ r.point = "none" => req'[k].status = "done"
      /\ r.point # "none" => req'[k] = r
  <2>1. req \in [Key -> Request]
    BY <1>2 DEF TypeOK
  <2>2. CASE r.point = "none"
    BY <1>1, <1>4, <1>6, <2>1, <2>2
  <2>3. CASE r.point # "none"
    BY <1>1, <1>6, <2>1, <2>3
  <2> QED BY <2>2, <2>3
<1>8. /\ TableOK(table') /\ table'.generation = table.generation
      /\ \A i \in Seats : table'.seats[i].tokens = t.seats[i].tokens
      /\ \A j \in Seats \ {SeatOf(k)} : table'.seats[j] = table.seats[j]
      /\ r.point = "none" => table'.seats[SeatOf(k)].request = NoRequest
      /\ r.point # "none" => table'.seats[SeatOf(k)] = t.seats[SeatOf(k)]
  <2>1. CASE r.point = "none"
    BY <1>1, <1>3, <1>6, <2>1, ZenonT(60)
  <2>2. CASE r.point # "none"
    BY <1>6, <2>2
  <2> QED BY <2>1, <2>2
<1>9. TypeOK'
  <2>1. active' \in SUBSET Key
    BY <1>2, <1>6 DEF TypeOK
  <2> QED BY <1>2, <1>5, <1>7, <1>8, <2>1 DEF TypeOK
<1>10. FirstComeFirstServed'
  <2>1. active' \in SUBSET active
    BY <1>6
  <2> QED BY <1>2, <1>5, <2>1 DEF FirstComeFirstServed
<1>11. Submitted'
  <2>1. \A j \in active' : j <= Len(asked) /\ req'[j].status = "active"
    <3>1. SUFFICES ASSUME NEW j \in active' PROVE j <= Len(asked) /\ req'[j].status = "active"
      OBVIOUS
    <3>2. j \in active /\ j \in Key
      BY <1>2, <1>6 DEF TypeOK
    <3>3. CASE j = k
      BY <1>1, <1>6, <1>7, <3>1, <3>3
    <3>4. CASE j # k
      BY <1>2, <1>7, <3>2, <3>4 DEF Submitted
    <3> QED BY <3>3, <3>4
  <2>2. \A i \in DOMAIN waiting :
          waiting[i] <= Len(asked) /\ req'[waiting[i]].status = "waiting"
    <3>1. SUFFICES ASSUME NEW i \in DOMAIN waiting
                   PROVE  waiting[i] <= Len(asked) /\ req'[waiting[i]].status = "waiting"
      OBVIOUS
    <3>2. waiting[i] \in Key
      BY <1>2, LenProperties, ElementOfSeq DEF TypeOK
    <3>3. waiting[i] <= Len(asked) /\ req[waiting[i]].status = "waiting"
      BY <1>2 DEF Submitted
    <3>4. waiting[i] # k
      BY <1>1, <3>3
    <3> QED BY <1>7, <3>2, <3>3, <3>4
  <2>3. \A j \in Key : j > Len(asked) => req'[j] = Fresh
    <3>1. SUFFICES ASSUME NEW j \in Key, j > Len(asked) PROVE req'[j] = Fresh
      OBVIOUS
    <3>2. j # k
      <4>1. Len(asked) \in Nat /\ j \in Nat
        BY <1>2, LenProperties DEF TypeOK, Key
      <4> QED BY <1>1, <3>1, <4>1
    <3> QED BY <1>2, <1>7, <3>1, <3>2 DEF Submitted
  <2> QED BY <1>5, <2>1, <2>2, <2>3 DEF Submitted
<1>12. Streams'
  <2>1. SUFFICES ASSUME NEW j \in Key, req'[j].status \in {"waiting", "active"}
                 PROVE  Streamed(req'[j], asked[j])
    BY <1>5 DEF Streams
  <2>2. CASE j = k
    BY <1>7, <2>1, <2>2
  <2>3. CASE j # k
    BY <1>2, <1>7, <2>1, <2>3 DEF Streams
  <2> QED BY <2>2, <2>3
<1>13. Protocols' /\ Held'
  <2>1. /\ active' \in SUBSET Key /\ active' \ {k} = active \ {k}
        /\ k \in active' <=> r.point # "none"
    BY <1>1, <1>2, <1>6 DEF TypeOK
  <2>2. \A j \in active \ {k} : req'[j] = req[j] /\ asked'[j] = asked[j]
    BY <1>2, <1>5, <1>7 DEF TypeOK
  <2>3. \A j \in Running \ {k} : table'.seats[SeatOf(j)] = table.seats[SeatOf(j)]
    <3>1. \A j \in Running \ {k} : SeatOf(j) \in Seats /\ SeatOf(j) # SeatOf(k)
      BY RunningFacts DEF Sound, Held
    <3> QED BY <1>8, <3>1
  <2>4. \A j \in active \ Running :
          table'.seats[SeatOf(j)].tokens = table.seats[SeatOf(j)].tokens
    BY DEF Sound, Protocols
  <2>5. r.point # "none" =>
          /\ req'[k] = r /\ Resolves(table', r.lease)
          /\ Going(table'.seats[r.lease.seat], r, asked'[k])
    BY <1>1, <1>5, <1>7, <1>8 DEF Resolves
  <2>6. \A i \in Seats : i # SeatOf(k) => (i \in Idle(table') <=> i \in Idle(table))
    BY <1>8 DEF Idle
  <2>7. r.point = "none" => SeatOf(k) \in Idle(table')
    BY <1>1, <1>8 DEF Idle
  <2>8. table' \in Table /\ table'.generation = table.generation
    BY <1>8 DEF TableOK
  <2> QED BY <1>1, <1>5, <2>1, <2>2, <2>3, <2>4, <2>5, <2>6, <2>7, <2>8, OneMoves, Zenon
<1>14. AnchorSound'
  BY <1>8 DEF AnchorSound
<1> QED BY <1>9, <1>10, <1>11, <1>12, <1>13, <1>14 DEF Sound

\* The keys consume takes.
LEMMA ConsumedRuns ==
  ASSUME Sound, NEW k, Consumes(k)
  PROVE  k \in Running /\ phase # "failed"
<1>1. phase = "consume" /\ Consumable # {} /\ k = Oldest(Consumable)
  BY DEF Consumes
<1>2. Consumable \in SUBSET active /\ active \in SUBSET Key /\ Running = active
  BY <1>1 DEF Consumable, Sound, TypeOK, Protocols
<1> QED BY <1>1, <1>2, OldestIn

LEMMA StartSound ==
  ASSUME Sound, NEW k, Start(k)
  PROVE  Sound'
<1> DEFINE r == Resumed(table, k, req[k])
<1>1. k \in Running /\ phase # "failed" /\ req[k].point = "start"
  BY ConsumedRuns DEF Start
<1>2. /\ req[k] \in Request /\ req[k].status = "active"
      /\ table.seats[SeatOf(k)] \in Resident /\ Admissible(asked[k])
      /\ Streamed(req[k], asked[k]) /\ Going(table.seats[SeatOf(k)], req[k], asked[k])
  BY <1>1, RunningFacts
<1>3. req[k].emitted = <<>>
  BY <1>1, <1>2 DEF Going
<1>4. /\ IsPrefix(table.seats[req[k].lease.seat].tokens, Goal(k) \o req[k].emitted)
      /\ table.seats[req[k].lease.seat] \in Resident
  BY <1>2, Zenon DEF Going, Goal, SeatOf
<1>5. Len(req[k].output) + Len(req[k].emitted) <= asked[k].count
  BY <1>2 DEF Streamed
<1>6. /\ r \in Request
      /\ r.status = req[k].status /\ r.output = req[k].output /\ r.lease = req[k].lease
      /\ r.emitted = req[k].emitted /\ r.progress = req[k].progress
      /\ r.point \in {"none", "prefill_pages", "decode_pages"}
      /\ r.point # "none" => Going(table.seats[req[k].lease.seat], r, asked[k])
  BY <1>2, <1>3, <1>4, <1>5, ResumedGoes, Zenon
<1> HIDE DEF r
<1>7. Streamed(r, asked[k])
  BY <1>2, <1>6 DEF Streamed
<1>8. Proceed(table, k, r) /\ anchor' = anchor
  BY DEF Start, r
<1>9. /\ anchor' = [i \in Seats |-> anchor'[i]] /\ TableOK(table)
      /\ \A i \in Seats : table.seats[i].tokens # <<>> =>
                            anchor'[i] = Greedy(table.seats[i].tokens)
  BY <1>8 DEF Sound, TypeOK, AnchorSound
<1> QED BY <1>1, <1>2, <1>6, <1>7, <1>8, <1>9, ProceedSound DEF SeatOf

LEMMA FollowSound ==
  ASSUME Sound, NEW k, Follow(k)
  PROVE  Sound'
<1> DEFINE r == [req[k] EXCEPT !.point = FollowingPoint(req[k]), !.age = 0]
<1>1. /\ k \in Running /\ phase # "failed"
      /\ req[k].point \in {"prefill_draft", "prefill_target", "decode_draft", "decode_propose"}
  BY ConsumedRuns DEF Follow
<1>2. /\ req[k] \in Request /\ req[k].status = "active"
      /\ Streamed(req[k], asked[k]) /\ Going(table.seats[SeatOf(k)], req[k], asked[k])
  BY <1>1, RunningFacts
<1>3. /\ r \in Request
      /\ r.status = req[k].status /\ r.output = req[k].output /\ r.lease = req[k].lease
      /\ r.emitted = req[k].emitted /\ r.progress = req[k].progress
      /\ r.point \notin {"none", "start", "closed"}
      /\ Going(table.seats[SeatOf(k)], r, asked[k])
  BY <1>1, <1>2, FollowGoes
<1>4. Proceed(table, k, r) /\ anchor' = anchor
  BY DEF Follow
<1> HIDE DEF r
<1>5. Streamed(r, asked[k])
  BY <1>2, <1>3 DEF Streamed
<1>6. /\ anchor' = [i \in Seats |-> anchor'[i]] /\ TableOK(table)
      /\ \A i \in Seats : table.seats[i].tokens # <<>> =>
                            anchor'[i] = Greedy(table.seats[i].tokens)
  BY <1>4 DEF Sound, TypeOK, AnchorSound
<1> QED BY <1>1, <1>2, <1>3, <1>4, <1>5, <1>6, ProceedSound

\* A chunk that continues the history of k within its pages.
LEMMA CommitSound ==
  ASSUME Sound, phase # "failed", NEW k \in Running,
         NEW chunk \in Seq(Token), NEW emitted \in Seq(Token),
         CommitChunk(k, chunk, emitted),
         Len(Committed(table, k)) + Len(chunk)
           <= Len(table.seats[SeatOf(k)].pages) * PageTokens,
         Len(req[k].output) + Len(req[k].emitted) + Len(emitted) <= asked[k].count,
         \/ /\ emitted = <<>> /\ req[k].emitted = <<>>
            /\ IsPrefix(Committed(table, k) \o chunk, Goal(k))
         \/ emitted = chunk /\ Committed(table, k) = Goal(k) \o req[k].emitted
  PROVE  Sound'
<1> DEFINE t == Commit(table, req[k].lease, chunk)
           e == req[k].emitted \o emitted
           m == [req[k] EXCEPT !.emitted = @ \o emitted, !.progress = @ \o emitted]
           r == Resumed(t, k, m)
           s == t.seats[SeatOf(k)]
<1>1. /\ k \in active /\ k \in Key /\ req[k] \in Request /\ req[k].status = "active"
      /\ req[k].lease \in Lease /\ SeatOf(k) \in Seats /\ SeatOf(k) = req[k].lease.seat
      /\ req[k].lease.seat \notin Idle(table)
      /\ table.seats[SeatOf(k)] \in Resident /\ Admissible(asked[k])
      /\ Streamed(req[k], asked[k])
  BY RunningFacts DEF SeatOf
<1>2. TableOK(table) /\ table \in Table
  BY DEF Sound, TypeOK, TableOK
<1>3. CommitAccepts(table, req[k].lease, chunk)
  BY <1>1, Zenon DEF CommitAccepts, Committed
<1>4. TableOK(t)
  BY <1>1, <1>2, <1>3, CommitOK
<1>5. /\ t.generation = table.generation
      /\ s.tokens = Committed(table, k) \o chunk
      /\ s.incarnation = table.seats[SeatOf(k)].incarnation
      /\ s.request = table.seats[SeatOf(k)].request
      /\ \A j \in Seats \ {SeatOf(k)} : t.seats[j] = table.seats[j]
  <2> DEFINE l == req[k].lease
  <2>1. /\ t.generation = table.generation
        /\ t.seats[l.seat].tokens = table.seats[l.seat].tokens \o chunk
        /\ t.seats[l.seat].incarnation = table.seats[l.seat].incarnation
        /\ t.seats[l.seat].request = table.seats[l.seat].request
        /\ \A j \in Seats \ {l.seat} : t.seats[j] = table.seats[j]
    BY <1>1, <1>2, CommitFields, Zenon
  <2> HIDE DEF t
  <2> QED BY <1>1, <2>1, Zenon DEF Committed
<1>6. s \in Resident
  <2>1. t \in Table
    BY <1>4 DEF TableOK
  <2> QED BY <1>1, <2>1, SeatsType
<1> HIDE DEF t
<1>7. /\ req[k].emitted \in Seq(Token) /\ req[k].progress \in Seq(Token)
      /\ req[k].output \in Seq(Token) /\ asked[k].prompt \in Seq(Token)
      /\ Committed(table, k) \in Seq(Token)
  BY <1>1, Zenon DEF Request, Admissible, Resident, Committed
<1>8. /\ e \in Seq(Token) /\ Len(e) = Len(req[k].emitted) + Len(emitted)
      /\ req[k].progress \o emitted \in Seq(Token)
  BY <1>7, ConcatProperties
<1>9. Goal(k) \in Seq(Token)
  BY <1>7, ConcatProperties DEF Goal
<1>10. /\ m \in Request
       /\ m.status = "active" /\ m.output = req[k].output /\ m.lease = req[k].lease
       /\ m.emitted = e /\ m.progress = req[k].progress \o emitted
  BY <1>1, <1>8 DEF Request
<1> HIDE DEF m
<1>11. /\ IsPrefix(s.tokens, Goal(k) \o e)
       /\ e # <<>> => s.tokens = Goal(k) \o e
  <2>1. CASE /\ emitted = <<>> /\ req[k].emitted = <<>>
             /\ IsPrefix(Committed(table, k) \o chunk, Goal(k))
    <3>1. e = <<>>
      BY <2>1, <1>7, ConcatEmptySeq
    <3>2. Goal(k) \o e = Goal(k)
      BY <1>9, <3>1, ConcatEmptySeq
    <3> QED BY <1>5, <2>1, <3>1, <3>2
  <2>2. CASE emitted = chunk /\ Committed(table, k) = Goal(k) \o req[k].emitted
    <3>1. (Goal(k) \o req[k].emitted) \o emitted = Goal(k) \o e
      <4>1. Goal(k) \in Seq(Token) /\ req[k].emitted \in Seq(Token)
        BY <1>7, <1>9
      <4> QED BY <4>1, Associative
    <3>2. s.tokens = Goal(k) \o e
      BY <1>5, <2>2, <3>1
    <3>3. Goal(k) \o e \in Seq(Token)
      BY <1>8, <1>9, ConcatProperties
    <3> HIDE DEF e, s
    <3> QED BY <3>2, <3>3, PrefixReflexive
  <2> QED BY <2>1, <2>2
<1>12. Streamed(m, asked[k])
  <2>1. req[k].progress = req[k].output \o req[k].emitted
    BY <1>1 DEF Streamed
  <2>2. m.progress = m.output \o m.emitted
    <3>1. req[k].output \in Seq(Token) /\ req[k].emitted \in Seq(Token)
      BY <1>7
    <3>2. (req[k].output \o req[k].emitted) \o emitted = req[k].output \o e
      BY <3>1, Associative
    <3> HIDE DEF e
    <3> QED BY <1>10, <2>1, <3>2
  <2>3. Len(m.output) + Len(m.emitted) <= asked[k].count
    <3>1. Len(req[k].output) \in Nat /\ Len(req[k].emitted) \in Nat /\ Len(emitted) \in Nat
      BY <1>7, LenProperties
    <3>2. Len(m.output) + Len(m.emitted)
            = Len(req[k].output) + (Len(req[k].emitted) + Len(emitted))
      <4> HIDE DEF e
      <4> QED BY <1>8, <1>10
    <3>3. asked[k].count \in Nat
      BY <1>1 DEF Admissible
    <3>4. Len(req[k].output) + (Len(req[k].emitted) + Len(emitted)) <= asked[k].count
      BY <3>1, <3>3, QuotaSum
    <3> HIDE DEF e
    <3> QED BY <3>2, <3>4
  <2> QED BY <1>10, <2>2, <2>3 DEF Streamed
<1> HIDE DEF e
<1>13. /\ r \in Request
       /\ r.status = m.status /\ r.output = m.output /\ r.lease = m.lease
       /\ r.emitted = m.emitted /\ r.progress = m.progress
       /\ r.point \in {"none", "prefill_pages", "decode_pages"}
       /\ r.point # "none" => Going(s, r, asked[k])
  <2>1. m.lease.seat = SeatOf(k)
    BY <1>1, <1>10
  <2>2. Len(m.output) + Len(m.emitted) <= asked[k].count
    BY <1>12 DEF Streamed
  <2>3. /\ t.seats[m.lease.seat] \in Resident
        /\ IsPrefix(t.seats[m.lease.seat].tokens, Goal(k) \o m.emitted)
        /\ m.emitted # <<>> => t.seats[m.lease.seat].tokens = Goal(k) \o m.emitted
    BY <1>6, <1>10, <1>11, <2>1
  <2>4. /\ r \in Request
        /\ r.status = m.status /\ r.output = m.output /\ r.lease = m.lease
        /\ r.emitted = m.emitted /\ r.progress = m.progress
        /\ r.point \in {"none", "prefill_pages", "decode_pages"}
        /\ r.point # "none" => Going(t.seats[m.lease.seat], r, asked[k])
    <3>1. req[k].output = m.output
      BY <1>10
    <3> HIDE DEF s
    <3> QED BY <1>1, <1>10, <2>2, <2>3, <3>1, ResumedGoes, Zenon
  <2> QED BY <2>1, <2>4
<1>14. Streamed(r, asked[k])
  BY <1>10, <1>12, <1>13 DEF Streamed
<1>15. /\ Proceed(t, k, r)
       /\ anchor' = [anchor EXCEPT ![SeatOf(k)] = Greedy(s.tokens)]
  BY DEF CommitChunk, Committed, t, m
<1> HIDE DEF r
<1>16. /\ anchor' = [i \in Seats |-> anchor'[i]]
       /\ \A i \in Seats : t.seats[i].tokens # <<>> => anchor'[i] = Greedy(t.seats[i].tokens)
  <2>1. /\ anchor = [i \in Seats |-> anchor[i]]
        /\ \A i \in Seats : table.seats[i].tokens # <<>> =>
                              anchor[i] = Greedy(table.seats[i].tokens)
    BY DEF Sound, TypeOK, AnchorSound
  <2>2. \A i \in Seats : anchor'[i] = IF i = SeatOf(k) THEN Greedy(s.tokens) ELSE anchor[i]
    BY <1>15, <2>1
  <2>3. DOMAIN anchor' = Seats /\ anchor' = [i \in DOMAIN anchor' |-> anchor'[i]]
    BY <1>15, <2>1
  <2> QED BY <1>5, <2>1, <2>2, <2>3
<1> QED BY <1>1, <1>4, <1>5, <1>10, <1>13, <1>14, <1>15, <1>16, ProceedSound, Zenon

LEMMA CommitPrefillSound ==
  ASSUME Sound, NEW k, CommitPrefill(k)
  PROVE  Sound'
<1> DEFINE c == Committed(table, k)
           w == req[k].width
           chunk == SubSeq(Goal(k), Len(c) + 1, Len(c) + w)
<1>1. /\ k \in Running /\ phase # "failed"
      /\ req[k].point \in {"prefill_target", "prefill_shift"}
      /\ CommitChunk(k, chunk, <<>>)
  BY ConsumedRuns DEF CommitPrefill
<1>2. /\ req[k] \in Request /\ table.seats[SeatOf(k)] \in Resident
      /\ Admissible(asked[k]) /\ Streamed(req[k], asked[k])
      /\ Going(table.seats[SeatOf(k)], req[k], asked[k])
  BY <1>1, RunningFacts
<1>3. /\ c \in Seq(Token) /\ Goal(k) \in Seq(Token) /\ w \in Nat
      /\ req[k].output \in Seq(Token) /\ asked[k].count \in Nat
  <2>1. asked[k].prompt \in Seq(Token) /\ req[k].output \in Seq(Token)
    BY <1>2 DEF Admissible, Request
  <2> QED BY <1>2, <2>1, ConcatProperties
      DEF Committed, Goal, Resident, Request, Admissible
<1>4. /\ req[k].emitted = <<>>
      /\ IsPrefix(c, Goal(k) \o req[k].emitted)
      /\ Len(c) + w <= Len(Goal(k))
      /\ Len(c) + w <= Len(table.seats[SeatOf(k)].pages) * PageTokens
  BY <1>1, <1>2 DEF Going, Committed, Goal, PrefillPoints, PagePoints
<1> HIDE DEF c, w
<1>5. IsPrefix(c, Goal(k))
  BY <1>3, <1>4, ConcatEmptySeq
<1>6. chunk \in Seq(Token) /\ Len(chunk) = w /\ IsPrefix(c \o chunk, Goal(k))
  BY <1>3, <1>4, <1>5, NextChunk, ZenonT(60)
<1> HIDE DEF chunk
<1>7. Len(req[k].output) + Len(req[k].emitted) + Len(<<>>) <= asked[k].count
  <2>1. Len(req[k].output) \in Nat /\ Len(<<>>) = 0 /\ Len(req[k].emitted) = 0
    BY <1>3, <1>4, LenProperties, EmptySeq
  <2>2. Len(req[k].output) + Len(req[k].emitted) <= asked[k].count
    BY <1>2 DEF Streamed
  <2> QED BY <1>3, <2>1, <2>2
<1>8. <<>> \in Seq(Token)
  BY EmptySeq
<1> QED BY <1>1, <1>4, <1>6, <1>7, <1>8, CommitSound DEF c

\* Where a protocol that decodes stands: it has room for another step.
LEMMA DecodeRoom ==
  ASSUME Sound, NEW k \in Running, req[k].point \in DecodePoints
  PROVE  /\ Committed(table, k) \in Seq(Token) /\ Len(Committed(table, k)) >= 1
         /\ Committed(table, k) = Goal(k) \o req[k].emitted
         /\ anchor[SeatOf(k)] = Greedy(Committed(table, k))
         /\ anchor[SeatOf(k)] \in Token
         /\ req[k].width \in 1 .. 3
         /\ Len(Committed(table, k)) + req[k].width <= ContextTokens
         /\ Len(req[k].output) + Len(req[k].emitted) + req[k].width <= asked[k].count
<1> DEFINE c == Committed(table, k)
           p == asked[k].prompt
           o == req[k].output
           e == req[k].emitted
           w == req[k].width
<1>1. /\ req[k] \in Request /\ table.seats[SeatOf(k)] \in Resident
      /\ SeatOf(k) \in Seats
      /\ Admissible(asked[k]) /\ Going(table.seats[SeatOf(k)], req[k], asked[k])
  BY RunningFacts
<1>2. /\ c \in Seq(Token) /\ p \in Seq(Token) /\ o \in Seq(Token) /\ e \in Seq(Token)
      /\ p # <<>> /\ asked[k].count \in Nat
      /\ Len(p) + asked[k].count <= ContextTokens
  BY <1>1 DEF Committed, Resident, Request, Admissible
<1>3. /\ c = (p \o o) \o e /\ w \in 1 .. 3
      /\ Len(o) + Len(e) + w <= asked[k].count
  BY <1>1 DEF Going, Committed
<1>4. c = Goal(k) \o e
  BY <1>3 DEF Goal
<1> HIDE DEF p, o, e, w
<1>5. /\ Len(p) \in Nat \ {0} /\ Len(o) \in Nat /\ Len(e) \in Nat
      /\ p \o o \in Seq(Token)
  BY <1>2, EmptySeq, LenProperties, ConcatProperties
<1>6. Len(c) = Len(p) + Len(o) + Len(e)
  BY <1>2, <1>3, <1>5, ConcatProperties
<1>7. anchor[SeatOf(k)] = Greedy(c)
  <2>1. table.seats[SeatOf(k)].tokens # <<>>
    <3>1. Len(c) # 0
      BY <1>5, <1>6
    <3>2. c = table.seats[SeatOf(k)].tokens
      BY DEF Committed
    <3> QED BY <3>1, <3>2, EmptySeq
  <2> QED BY <1>1, <2>1 DEF Sound, AnchorSound, Committed
<1> HIDE DEF c
<1>8. Len(c) >= 1 /\ Len(c) + w <= ContextTokens /\ Len(c) <= ContextTokens
  <2>1. ContextTokens \in Nat /\ asked[k].count \in Nat /\ w \in Nat
    BY <1>2, <1>3, SchedulerAssumption
  <2> QED BY <1>2, <1>3, <1>5, <1>6, <2>1
<1>9. Greedy(c) \in Token
  BY <1>2, <1>8, GreedyToken
<1> QED BY <1>2, <1>3, <1>4, <1>7, <1>8, <1>9 DEF c, o, e, w

LEMMA VerifySound ==
  ASSUME Sound, NEW k, Verify(k)
  PROVE  Sound'
<1>1. /\ k \in Running /\ phase # "failed" /\ req[k].point = "decode_verify"
      /\ req[k].point \in DecodePoints
  BY ConsumedRuns DEF Verify, DecodePoints
<1>2. PICK n \in 1 .. req[k].width :
        IF Len(Accepted(k, n)) > 1
        THEN /\ Proceed(table, k, [req[k] EXCEPT !.point = "decode_repair",
                                                 !.chunk = Accepted(k, n),
                                                 !.age = 0])
             /\ UNCHANGED anchor
        ELSE CommitChunk(k, Accepted(k, n), Accepted(k, n))
  BY DEF Verify
<1> DEFINE a == Accepted(k, n)
           w == req[k].width
<1>3. /\ Committed(table, k) \in Seq(Token) /\ Len(Committed(table, k)) >= 1
      /\ Committed(table, k) = Goal(k) \o req[k].emitted
      /\ anchor[SeatOf(k)] \in Token
      /\ w \in 1 .. 3 /\ Len(Committed(table, k)) + w <= ContextTokens
      /\ Len(req[k].output) + Len(req[k].emitted) + w <= asked[k].count
  BY <1>1, DecodeRoom
<1>4. /\ req[k] \in Request /\ req[k].status = "active"
      /\ Streamed(req[k], asked[k]) /\ Admissible(asked[k])
      /\ Going(table.seats[SeatOf(k)], req[k], asked[k])
      /\ table.seats[SeatOf(k)] \in Resident
  BY <1>1, RunningFacts
<1>5. /\ Len(Committed(table, k)) \in Nat /\ asked[k].count \in Nat
      /\ Len(req[k].output) \in Nat /\ Len(req[k].emitted) \in Nat
      /\ ContextTokens \in Nat
  BY <1>3, <1>4, LenProperties, SchedulerAssumption DEF Admissible, Request
<1>6. n \in 1 .. 3 /\ n <= w /\ Len(Committed(table, k)) + n <= ContextTokens
  <2> DEFINE x == Len(Committed(table, k))
  <2>1. x \in Nat /\ w \in 1 .. 3 /\ n \in 1 .. w /\ x + w <= ContextTokens
        /\ ContextTokens \in Nat
    BY <1>3, <1>5
  <2> HIDE DEF x, w
  <2>2. n \in 1 .. 3 /\ n <= w /\ x + n <= ContextTokens
    BY <2>1
  <2> QED BY <2>2 DEF x
<1>7. a \in Seq(Token) /\ Len(a) <= n
  BY <1>3, <1>6, AcceptedTokens
<1>8. Len(a) \in Nat /\ Len(a) <= w
  BY <1>3, <1>6, <1>7, LenProperties
<1> HIDE DEF a
<1>9. CASE Len(a) > 1
  <2> DEFINE r == [req[k] EXCEPT !.point = "decode_repair", !.chunk = a, !.age = 0]
  <2>1. Proceed(table, k, r) /\ anchor' = anchor
    BY <1>2, <1>9 DEF a
  <2>2. /\ r \in Request
        /\ r.status = req[k].status /\ r.output = req[k].output /\ r.lease = req[k].lease
        /\ r.emitted = req[k].emitted /\ r.progress = req[k].progress
        /\ r.point = "decode_repair" /\ r.width = w /\ r.chunk = a
    BY <1>4, <1>7 DEF Request, Points, DecodePoints
  <2> HIDE DEF r
  <2>3. Going(table.seats[SeatOf(k)], r, asked[k])
    BY <1>1, <1>4, <1>8, <2>2 DEF Going, PrefillPoints, DecodePoints, PagePoints
  <2>4. Streamed(r, asked[k])
    BY <1>4, <2>2 DEF Streamed
  <2>5. /\ anchor' = [i \in Seats |-> anchor'[i]] /\ TableOK(table)
        /\ \A i \in Seats : table.seats[i].tokens # <<>> =>
                              anchor'[i] = Greedy(table.seats[i].tokens)
    BY <2>1 DEF Sound, TypeOK, AnchorSound
  <2> QED BY <1>1, <1>4, <2>1, <2>2, <2>3, <2>4, <2>5, ProceedSound
<1>10. CASE ~(Len(a) > 1)
  <2>1. CommitChunk(k, a, a)
    BY <1>2, <1>10 DEF a
  <2>2. Len(Committed(table, k)) + Len(a)
          <= Len(table.seats[SeatOf(k)].pages) * PageTokens
    <3>1. Len(Committed(table, k)) + w <= Len(table.seats[SeatOf(k)].pages) * PageTokens
      BY <1>1, <1>4 DEF Going, Committed, PagePoints
    <3>2. Len(table.seats[SeatOf(k)].pages) * PageTokens \in Nat
      <4>1. Len(table.seats[SeatOf(k)].pages) \in Nat
        BY <1>4, LenProperties DEF Resident
      <4> QED BY <4>1, CapacityAssumption
    <3>3. w \in Nat
      BY <1>3
    <3> HIDE DEF w
    <3> QED BY <1>5, <1>8, <3>1, <3>2, <3>3, Within
  <2>3. Len(req[k].output) + Len(req[k].emitted) + Len(a) <= asked[k].count
    <3>1. w \in Nat
      BY <1>3
    <3> HIDE DEF w
    <3> QED BY <1>3, <1>5, <1>8, <3>1, QuotaWithin
  <2> QED BY <1>1, <1>3, <1>7, <2>1, <2>2, <2>3, CommitSound
<1> QED BY <1>9, <1>10

LEMMA CommitRepairedSound ==
  ASSUME Sound, NEW k, CommitRepaired(k)
  PROVE  Sound'
<1> DEFINE a == req[k].chunk
           w == req[k].width
<1>1. /\ k \in Running /\ phase # "failed" /\ req[k].point = "decode_repair"
      /\ req[k].point \in DecodePoints /\ CommitChunk(k, a, a)
  BY ConsumedRuns DEF CommitRepaired, DecodePoints
<1>2. /\ Committed(table, k) \in Seq(Token)
      /\ Committed(table, k) = Goal(k) \o req[k].emitted
      /\ w \in 1 .. 3
      /\ Len(req[k].output) + Len(req[k].emitted) + w <= asked[k].count
  BY <1>1, DecodeRoom
<1>3. /\ req[k] \in Request /\ Admissible(asked[k])
      /\ Going(table.seats[SeatOf(k)], req[k], asked[k])
      /\ table.seats[SeatOf(k)] \in Resident
  BY <1>1, RunningFacts
<1>4. /\ a \in Seq(Token) /\ Len(a) \in Nat /\ Len(a) <= w
      /\ Len(Committed(table, k)) + w <= Len(table.seats[SeatOf(k)].pages) * PageTokens
  <2>1. a \in Seq(Token) /\ Len(a) \in Nat
    BY <1>3, LenProperties DEF Request
  <2> QED BY <1>1, <1>3, <2>1 DEF Going, Committed, PagePoints
<1>5. /\ Len(Committed(table, k)) \in Nat /\ asked[k].count \in Nat
      /\ Len(req[k].output) \in Nat /\ Len(req[k].emitted) \in Nat
      /\ Len(table.seats[SeatOf(k)].pages) * PageTokens \in Nat
  <2>1. Len(table.seats[SeatOf(k)].pages) \in Nat
    BY <1>3, LenProperties DEF Resident
  <2>2. Len(table.seats[SeatOf(k)].pages) * PageTokens \in Nat
    BY <2>1, CapacityAssumption
  <2> QED BY <1>2, <1>3, <2>2, LenProperties DEF Admissible, Request
<1> HIDE DEF a, w
<1>6. /\ Len(Committed(table, k)) + Len(a) <= Len(table.seats[SeatOf(k)].pages) * PageTokens
      /\ Len(req[k].output) + Len(req[k].emitted) + Len(a) <= asked[k].count
  <2>1. w \in Nat
    BY <1>2
  <2> QED BY <1>2, <1>4, <1>5, <2>1, Within, QuotaWithin
<1> QED BY <1>1, <1>2, <1>4, <1>6, CommitSound

-----------------------------------------------------------------------------
\* The actions: requests that take or leave a seat.

LEMMA KeyQueue ==
  ASSUME NEW w \in Seq(Key), NEW i \in DOMAIN w
  PROVE  w[i] \in Key
BY LenProperties, ElementOfSeq

\* A step between requests and seats that moves the request v only.
LEMMA MoveSound ==
  ASSUME Sound, phase # "failed", NEW v \in Key, v <= Len(asked), asked' = asked,
         TableOK(table'), table'.generation = table.generation,
         req' \in [Key -> Request], \A j \in Key \ {v} : req'[j] = req[j],
         active' \in SUBSET Key, active' \ {v} = active \ {v},
         waiting' \in Seq(Key),
         \A i \in DOMAIN waiting' :
           \/ waiting'[i] = v /\ req'[v].status = "waiting"
           \/ waiting'[i] # v /\ \E h \in DOMAIN waiting : waiting'[i] = waiting[h],
         v \in active' => req'[v].status = "active",
         req'[v].status \in {"waiting", "active"} => Streamed(req'[v], asked[v]),
         FirstComeFirstServed', AnchorSound', anchor' = [i \in Seats |-> anchor'[i]],
         \A j \in Running \ {v} : table'.seats[SeatOf(j)] = table.seats[SeatOf(j)],
         phase' # "failed" /\ v \in active' => req'[v].point # "closed",
         v \in active' => req'[v].lease \in Lease,
         v \in active' /\ req'[v].point # "closed" =>
           /\ Resolves(table', req'[v].lease)
           /\ Going(table'.seats[req'[v].lease.seat], req'[v], asked[v])
           /\ IF v \in Running THEN req'[v].lease.seat = SeatOf(v)
                               ELSE req'[v].lease.seat \in Idle(table),
         v \in active' /\ req'[v].point = "closed" =>
           req'[v].emitted = <<>> /\ table'.seats[req'[v].lease.seat].tokens = <<>>,
         \A i \in Seats :
           /\ v \in Running => i # SeatOf(v)
           /\ v \in active' /\ req'[v].point # "closed" => i # req'[v].lease.seat
           => (i \in Idle(table') <=> i \in Idle(table)),
         v \in Running /\ ~(v \in active' /\ req'[v].point # "closed") =>
           SeatOf(v) \in Idle(table')
  PROVE  Sound'
<1>1. /\ TypeOK /\ Submitted /\ Streams
      /\ active \in SUBSET Key /\ waiting \in Seq(Key)
  BY DEF Sound, TypeOK
<1>2. TypeOK'
  BY <1>1 DEF TypeOK
<1>3. Submitted'
  <2>1. ASSUME NEW j \in active' PROVE j <= Len(asked) /\ req'[j].status = "active"
    <3>1. CASE j = v
      BY <3>1
    <3>2. CASE j # v
      <4>1. j \in active /\ j \in Key
        BY <1>1, <3>2
      <4> QED BY <1>1, <3>2, <4>1 DEF Submitted
    <3> QED BY <3>1, <3>2
  <2>2. ASSUME NEW i \in DOMAIN waiting'
        PROVE  waiting'[i] <= Len(asked) /\ req'[waiting'[i]].status = "waiting"
    <3>1. CASE waiting'[i] = v /\ req'[v].status = "waiting"
      BY <3>1
    <3>2. CASE waiting'[i] # v /\ \E h \in DOMAIN waiting : waiting'[i] = waiting[h]
      <4>1. PICK h \in DOMAIN waiting : waiting'[i] = waiting[h]
        BY <3>2
      <4>2. waiting[h] \in Key
        BY <1>1, KeyQueue
      <4> QED BY <1>1, <3>2, <4>1, <4>2 DEF Submitted
    <3> QED BY <3>1, <3>2
  <2>3. ASSUME NEW j \in Key, j > Len(asked) PROVE req'[j] = Fresh
    <3>1. j # v
      <4>1. Len(asked) \in Nat /\ j \in Nat
        BY <1>1, LenProperties DEF TypeOK, Key
      <4> QED BY <2>3, <4>1
    <3> QED BY <1>1, <2>3, <3>1 DEF Submitted
  <2> QED BY <2>1, <2>2, <2>3 DEF Submitted
<1>4. Streams'
  <2>1. SUFFICES ASSUME NEW j \in Key, req'[j].status \in {"waiting", "active"}
                 PROVE  Streamed(req'[j], asked[j])
    BY DEF Streams
  <2>2. CASE j = v
    BY <2>1, <2>2
  <2>3. CASE j # v
    BY <1>1, <2>1, <2>3 DEF Streams
  <2> QED BY <2>2, <2>3
<1>5. Protocols' /\ Held'
  <2>1. \A j \in active \ {v} : req'[j] = req[j] /\ asked'[j] = asked[j]
    BY <1>1
  <2>2. active \ Running = {}
    BY DEF Sound, Protocols
  <2>3. table' \in Table
    BY DEF TableOK
  <2> QED BY <2>1, <2>2, <2>3, OneMoves
<1> QED BY <1>2, <1>3, <1>4, <1>5 DEF Sound

\* The protocol of v ends with its seat cleared; v is active no more, or is
\* closed where a preemption failed.
LEMMA LeaveSound ==
  ASSUME Sound, phase # "failed", NEW v \in Running, NEW r \in Request,
         asked' = asked, req' = [req EXCEPT ![v] = r],
         TableOK(table'), table'.generation = table.generation,
         \A j \in Seats \ {SeatOf(v)} : table'.seats[j] = table.seats[j],
         table'.seats[SeatOf(v)].tokens = <<>>,
         table'.seats[SeatOf(v)].request = NoRequest,
         anchor' = anchor \/ anchor' = Unanchored(anchor, {SeatOf(v)}),
         \/ active' = active \ {v}
         \/ /\ active' = active /\ phase' = "failed"
            /\ r.status = "active" /\ r.lease = req[v].lease
            /\ r.point = "closed" /\ r.emitted = <<>>,
         waiting' \in Seq(Key),
         \A i \in DOMAIN waiting' :
           \/ waiting'[i] = v /\ r.status = "waiting"
           \/ waiting'[i] # v /\ \E h \in DOMAIN waiting : waiting'[i] = waiting[h],
         r.status \in {"waiting", "active"} => Streamed(r, asked[v]),
         FirstComeFirstServed'
  PROVE  Sound'
<1>1. /\ v \in active /\ v \in Key /\ v <= Len(asked)
      /\ req[v].lease \in Lease /\ SeatOf(v) \in Seats
  BY RunningFacts
<1>2. /\ req \in [Key -> Request] /\ active \in SUBSET Key
      /\ anchor = [i \in Seats |-> anchor[i]]
  BY DEF Sound, TypeOK
<1>3. /\ req' \in [Key -> Request] /\ \A j \in Key \ {v} : req'[j] = req[j]
      /\ req'[v] = r
  BY <1>1, <1>2
<1>4. active' \in SUBSET Key /\ active' \ {v} = active \ {v}
  BY <1>2
<1>5. /\ anchor' = [i \in Seats |-> anchor'[i]]
      /\ \A i \in Seats \ {SeatOf(v)} : anchor'[i] = anchor[i]
  <2>1. CASE anchor' = anchor
    BY <1>2, <2>1
  <2>2. CASE anchor' = Unanchored(anchor, {SeatOf(v)})
    BY <2>2 DEF Unanchored
  <2> QED BY <2>1, <2>2
<1>6. AnchorSound'
  BY <1>5 DEF AnchorSound, Sound
<1>7. \A j \in Running \ {v} : table'.seats[SeatOf(j)] = table.seats[SeatOf(j)]
  <2>1. \A j \in Running \ {v} : SeatOf(j) \in Seats /\ SeatOf(j) # SeatOf(v)
    BY RunningFacts DEF Sound, Held
  <2> QED BY <2>1
<1>8. /\ v \in active' => /\ r.status = "active" /\ r.lease = req[v].lease
                          /\ r.point = "closed" /\ r.emitted = <<>> /\ phase' = "failed"
  BY <1>1
<1>9. /\ \A i \in Seats : i # SeatOf(v) => (i \in Idle(table') <=> i \in Idle(table))
      /\ SeatOf(v) \in Idle(table')
  BY <1>1 DEF Idle
<1>10. v \in active' => table'.seats[r.lease.seat].tokens = <<>>
  BY <1>8 DEF SeatOf
<1> QED BY <1>1, <1>3, <1>4, <1>5, <1>6, <1>7, <1>8, <1>9, <1>10, MoveSound

\* What a preemption saves is all that was streamed.
LEMMA SavedWhole ==
  ASSUME Sound, NEW k \in Running
  PROVE  /\ SavedOutput(k) \in Seq(Token)
         /\ SavedOutput(k) = req[k].progress
         /\ Len(SavedOutput(k)) <= asked[k].count
<1> DEFINE c == Committed(table, k)
           o == req[k].output
           e == req[k].emitted
           g == Goal(k)
<1>1. /\ req[k] \in Request /\ table.seats[SeatOf(k)] \in Resident
      /\ Admissible(asked[k]) /\ Streamed(req[k], asked[k])
      /\ Going(table.seats[SeatOf(k)], req[k], asked[k])
  BY RunningFacts
<1>2. /\ c \in Seq(Token) /\ o \in Seq(Token) /\ e \in Seq(Token) /\ g \in Seq(Token)
      /\ asked[k].count \in Nat
  <2>1. asked[k].prompt \in Seq(Token) /\ o \in Seq(Token)
    BY <1>1 DEF Admissible, Request
  <2> QED BY <1>1, <2>1, ConcatProperties
      DEF Committed, Goal, Resident, Request, Admissible
<1>3. IsPrefix(c, g \o e) /\ (e = <<>> \/ c = g \o e)
  BY <1>1 DEF Going, Committed, Goal, PrefillPoints, DecodePoints
<1>4. SavedOutput(k) = o \o SubSeq(c, Len(g) + 1, Len(c))
  BY DEF SavedOutput
<1>5. req[k].progress = o \o e /\ Len(o) + Len(e) <= asked[k].count
  BY <1>1 DEF Streamed
<1> HIDE DEF c, o, e, g
<1>6. SubSeq(c, Len(g) + 1, Len(c)) = e
  <2>1. CASE c = g \o e
    BY <1>2, <2>1, Beyond
  <2>2. CASE e = <<>>
    <3>1. g \o e = g
      BY <1>2, <2>2, ConcatEmptySeq
    <3>2. Len(c) <= Len(g) /\ Len(c) \in Nat /\ Len(g) \in Nat
      BY <1>2, <1>3, <3>1, LenProperties DEF IsPrefix
    <3>3. SubSeq(c, Len(g) + 1, Len(c)) = <<>>
      BY <3>2, SubSeqEmpty
    <3> QED BY <2>2, <3>3
  <2> QED BY <1>3, <2>1, <2>2
<1>7. o \o e \in Seq(Token) /\ Len(o \o e) = Len(o) + Len(e)
  BY <1>2, ConcatProperties
<1> QED BY <1>4, <1>5, <1>6, <1>7

LEMMA SeatLostFields ==
  ASSUME Sound, NEW v \in Running, SeatLost(v)
  PROVE  /\ TableOK(table') /\ table'.generation = table.generation
         /\ \A j \in Seats \ {SeatOf(v)} : table'.seats[j] = table.seats[j]
         /\ table'.seats[SeatOf(v)].tokens = <<>>
         /\ table'.seats[SeatOf(v)].request = NoRequest
         /\ anchor' = anchor /\ asked' = asked /\ waiting' = waiting
         /\ phase' = "failed"
<1> DEFINE l == req[v].lease
           i == SeatOf(v)
           f == Finish(table, l)
<1>1. l \in Lease /\ i \in Seats /\ l.seat = i /\ TableOK(table)
  BY RunningFacts DEF SeatOf, Sound, TypeOK
<1>2. /\ TableOK(f) /\ f.generation = table.generation
      /\ f.seats[l.seat].request = NoRequest
      /\ \A j \in Seats \ {l.seat} : f.seats[j] = table.seats[j]
  BY <1>1, FinishOK
<1>3. table' = FailedEvict(f, i)
  BY DEF SeatLost
<1> HIDE DEF f
<1>4. TableOK(table')
  BY <1>1, <1>2, <1>3, FailedEvictOK
<1>5. /\ table'.generation = f.generation
      /\ table'.seats[i] = [EvictedResident(f.seats[i]) EXCEPT !.pages = f.seats[i].pages]
      /\ \A j \in Seats \ {i} : table'.seats[j] = f.seats[j]
  BY <1>1, <1>2, <1>3, FailedEvictFields DEF TableOK
<1>6. table'.seats[i].tokens = <<>> /\ table'.seats[i].request = f.seats[i].request
  BY <1>5 DEF EvictedResident
<1> QED BY <1>1, <1>2, <1>4, <1>5, <1>6 DEF SeatLost

LEMMA QueueInOrder ==
  ASSUME Sound
  PROVE  /\ waiting \in Seq(Key) /\ InOrder(waiting)
         /\ \A k \in active, i \in DOMAIN waiting : k < waiting[i]
         /\ \A i \in DOMAIN waiting :
              waiting[i] \notin active /\ req[waiting[i]].status = "waiting"
BY DEF Sound, TypeOK, FirstComeFirstServed, Submitted, InOrder

LEMMA PendingSubmitted ==
  ASSUME Sound, NEW k \in Pending
  PROVE  k \in Key /\ k <= Len(asked) /\ req[k] \in Request
<1>1. /\ k \in Key /\ req[k].status # "absent" /\ req[k] \in Request
      /\ Len(asked) \in Nat /\ k \in Nat
  BY LenProperties DEF Pending, Sound, TypeOK, Key
<1>2. k > Len(asked) => req[k].status = "absent"
  BY <1>1 DEF Sound, Submitted, Fresh
<1> QED BY <1>1, <1>2

LEMMA CancelledRequest ==
  ASSUME NEW r \in Request
  PROVE  Cancelled(r) \in Request /\ Cancelled(r).status = "cancelled"
BY FreshRequest DEF Cancelled, Fresh, Request, Statuses

\* A request that only leaves active and the queue keeps the order.
LEMMA SameQueue ==
  ASSUME Sound, waiting' = waiting, active' \in SUBSET active
  PROVE  /\ FirstComeFirstServed'
         /\ waiting' \in Seq(Key)
         /\ \A v \in active : \A i \in DOMAIN waiting' :
              waiting'[i] # v /\ \E h \in DOMAIN waiting : waiting'[i] = waiting[h]
<1>1. FirstComeFirstServed'
  BY DEF Sound, FirstComeFirstServed
<1> QED BY <1>1, QueueInOrder

LEMMA CancelSound ==
  ASSUME Sound, NEW k \in Key, Cancel(k)
  PROVE  Sound'
<1> DEFINE r == Cancelled(req[k])
<1>1. /\ k \in Pending /\ phase # "failed" /\ req' = [req EXCEPT ![k] = r]
      /\ asked' = asked /\ phase' = phase
  BY DEF Cancel
<1>2. k <= Len(asked) /\ req[k] \in Request
  BY <1>1, PendingSubmitted
<1>3. r \in Request /\ r.status = "cancelled"
  BY <1>2, CancelledRequest
<1> HIDE DEF r
<1>4. CASE k \in active
  <2>1. k \in Running
    BY <1>1, <1>4 DEF Sound, Protocols
  <2>2. /\ table' = ClosedTable(table, {SeatOf(k)})
        /\ anchor' = Unanchored(anchor, {SeatOf(k)})
        /\ active' = active \ {k} /\ waiting' = waiting
    BY <1>4 DEF Cancel
  <2>3. {SeatOf(k)} \in SUBSET Seats /\ TableOK(table)
    BY <2>1, RunningFacts DEF Sound, TypeOK
  <2>4. /\ TableOK(table') /\ table'.generation = table.generation
        /\ \A j \in Seats \ {SeatOf(k)} : table'.seats[j] = table.seats[j]
        /\ table'.seats[SeatOf(k)].tokens = <<>>
        /\ table'.seats[SeatOf(k)].request = NoRequest
    BY <2>2, <2>3, ClosedFields
  <2>5. /\ FirstComeFirstServed' /\ waiting' \in Seq(Key)
        /\ \A i \in DOMAIN waiting' :
             waiting'[i] # k /\ \E h \in DOMAIN waiting : waiting'[i] = waiting[h]
    BY <1>4, <2>2, SameQueue
  <2> QED BY <1>1, <1>3, <2>1, <2>2, <2>4, <2>5, LeaveSound
<1>5. CASE k \notin active
  <2>1. PICK i \in DOMAIN waiting : waiting[i] = k /\ waiting' = RemoveAt(waiting, i)
    BY <1>5 DEF Cancel
  <2>2. table' = table /\ anchor' = anchor /\ active' = active
    BY <1>5 DEF Cancel
  <2>3. waiting \in Seq(Key) /\ InOrder(waiting)
    BY QueueInOrder
  <2>4. /\ waiting' \in Seq(Key) /\ InOrder(waiting')
        /\ \A j \in DOMAIN waiting' : \E h \in DOMAIN waiting : h # i /\ waiting'[j] = waiting[h]
    BY <2>1, <2>3, RemovedInOrder
  <2>5. \A j \in DOMAIN waiting' :
          waiting'[j] # k /\ \E h \in DOMAIN waiting : waiting'[j] = waiting[h]
    <3>1. \A h \in DOMAIN waiting : waiting[h] \in Nat /\ (h < i \/ h > i \/ h = i)
      <4>1. DOMAIN waiting \in SUBSET Nat
        BY <2>3, LenProperties
      <4>2. \A h \in DOMAIN waiting : waiting[h] \in Key
        BY <2>3, KeyQueue
      <4> QED BY <4>1, <4>2 DEF Key
    <3>2. \A h \in DOMAIN waiting : h # i => waiting[h] # k
      BY <2>1, <2>3, <3>1 DEF InOrder
    <3> QED BY <2>4, <3>2
  <2>6. FirstComeFirstServed'
    <3>1. \A j \in active, h \in DOMAIN waiting' : j < waiting'[h]
      BY <2>5, QueueInOrder
    <3> QED BY <2>2, <2>4, <3>1 DEF FirstComeFirstServed, InOrder
  <2>7. /\ req' \in [Key -> Request] /\ \A j \in Key \ {k} : req'[j] = req[j]
        /\ req'[k] = r /\ active \in SUBSET Key /\ TableOK(table)
        /\ anchor = [j \in Seats |-> anchor[j]] /\ AnchorSound
    BY <1>1, <1>3 DEF Sound, TypeOK
  <2>8. AnchorSound'
    BY <2>2, <2>7 DEF AnchorSound
  <2>9. k \notin Running
    BY <1>5 DEF Running
  <2>10. Idle(table') = Idle(table)
    BY <2>2
  <2> QED BY <1>1, <1>2, <1>3, <1>5, <2>2, <2>4, <2>5, <2>6, <2>7, <2>8, <2>9, <2>10,
             MoveSound
<1> QED BY <1>4, <1>5

LEMMA CancelFailsSound ==
  ASSUME Sound, NEW k \in Key, CancelFails(k)
  PROVE  Sound'
<1> DEFINE r == [Fresh EXCEPT !.status = "lost", !.output = req[k].output,
                              !.progress = req[k].progress]
<1>1. /\ k \in active /\ phase = "idle" /\ SeatLost(k)
      /\ req' = [req EXCEPT ![k] = r] /\ active' = active \ {k}
  BY DEF CancelFails
<1>2. k \in Running
  BY <1>1 DEF Sound, Protocols
<1>3. r \in Request /\ r.status = "lost"
  <2>1. req[k].output \in Seq(Token) /\ req[k].progress \in Seq(Token)
    BY <1>2, RunningFacts DEF Request
  <2> QED BY <2>1, FreshRequest DEF Fresh, Request, Statuses
<1> HIDE DEF r
<1>4. /\ TableOK(table') /\ table'.generation = table.generation
      /\ \A j \in Seats \ {SeatOf(k)} : table'.seats[j] = table.seats[j]
      /\ table'.seats[SeatOf(k)].tokens = <<>>
      /\ table'.seats[SeatOf(k)].request = NoRequest
      /\ anchor' = anchor /\ asked' = asked /\ waiting' = waiting
  BY <1>1, <1>2, SeatLostFields
<1>5. /\ FirstComeFirstServed' /\ waiting' \in Seq(Key)
      /\ \A i \in DOMAIN waiting' :
           waiting'[i] # k /\ \E h \in DOMAIN waiting : waiting'[i] = waiting[h]
  BY <1>1, <1>4, SameQueue
<1> QED BY <1>1, <1>2, <1>3, <1>4, <1>5, LeaveSound

LEMMA NewestRuns ==
  ASSUME Sound, NEW k, Reserves(k)
  PROVE  /\ k \in Running /\ phase # "failed"
         /\ Newest(active) \in Running /\ \A j \in active : Newest(active) >= j
<1>1. phase = "reserve" /\ Reserving # {} /\ k = Oldest(Reserving)
  BY DEF Reserves
<1>2. Reserving \in SUBSET active /\ active \in SUBSET Key /\ Running = active
  BY <1>1 DEF Reserving, Sound, TypeOK, Protocols
<1> QED BY <1>1, <1>2, OldestIn, NewestIn

LEMMA PreemptSound ==
  ASSUME Sound, NEW k, Preempt(k)
  PROVE  Sound'
<1> DEFINE v == Newest(active)
           r == [Fresh EXCEPT !.status = "waiting", !.output = SavedOutput(v),
                              !.progress = req[v].progress]
<1>1. /\ Reserves(k) /\ req' = [req EXCEPT ![v] = r]
      /\ table' = ClosedTable(table, {SeatOf(v)})
      /\ anchor' = Unanchored(anchor, {SeatOf(v)})
      /\ active' = active \ {v} /\ waiting' = Sorted(Append(waiting, v))
      /\ asked' = asked
  BY DEF Preempt, Requeued
<1>2. phase # "failed" /\ v \in Running /\ \A j \in active : v >= j
  BY <1>1, NewestRuns
<1> HIDE DEF v
<1>3. /\ v \in active /\ v \in Key /\ SeatOf(v) \in Seats
      /\ Streamed(req[v], asked[v]) /\ req[v] \in Request /\ Admissible(asked[v])
  BY <1>2, RunningFacts
<1>4. /\ SavedOutput(v) \in Seq(Token) /\ SavedOutput(v) = req[v].progress
      /\ Len(SavedOutput(v)) <= asked[v].count
  BY <1>2, SavedWhole
<1>5. /\ r \in Request /\ r.status = "waiting" /\ r.output = SavedOutput(v)
      /\ r.emitted = <<>> /\ r.progress = SavedOutput(v)
  BY <1>4, FreshRequest DEF Fresh, Request, Statuses
<1> HIDE DEF r
<1>6. Streamed(r, asked[v])
  <2>1. SavedOutput(v) \o <<>> = SavedOutput(v)
    BY <1>4, ConcatEmptySeq
  <2>2. Len(SavedOutput(v)) + Len(<<>>) <= asked[v].count
    <3>1. Len(SavedOutput(v)) \in Nat /\ Len(<<>>) = 0
      BY <1>4, LenProperties, EmptySeq
    <3> QED BY <1>4, <3>1
  <2> QED BY <1>5, <2>1, <2>2 DEF Streamed
<1>7. {SeatOf(v)} \in SUBSET Seats /\ TableOK(table)
  BY <1>3 DEF Sound, TypeOK
<1>8. /\ TableOK(table') /\ table'.generation = table.generation
      /\ \A j \in Seats \ {SeatOf(v)} : table'.seats[j] = table.seats[j]
      /\ table'.seats[SeatOf(v)].tokens = <<>>
      /\ table'.seats[SeatOf(v)].request = NoRequest
  BY <1>1, <1>7, ClosedFields
<1>9. /\ waiting \in Seq(Key) /\ InOrder(waiting)
      /\ \A j \in active, i \in DOMAIN waiting : j < waiting[i]
      /\ \A i \in DOMAIN waiting : waiting[i] \notin active
  BY QueueInOrder
<1>10. /\ waiting' \in Seq(Key) /\ InOrder(waiting')
       /\ \A i \in DOMAIN waiting' :
            waiting'[i] = v \/ \E h \in DOMAIN waiting : waiting'[i] = waiting[h]
  <2>1. \A i \in DOMAIN waiting : v < waiting[i]
    BY <1>3, <1>9
  <2> QED BY <1>1, <1>3, <1>9, <2>1, SortedQueue
<1>11. \A i \in DOMAIN waiting' :
         \/ waiting'[i] = v /\ r.status = "waiting"
         \/ waiting'[i] # v /\ \E h \in DOMAIN waiting : waiting'[i] = waiting[h]
  BY <1>5, <1>10
<1>12. FirstComeFirstServed'
  <2>1. ASSUME NEW j \in active', NEW i \in DOMAIN waiting' PROVE j < waiting'[i]
    <3>1. j \in active /\ j # v /\ j <= v /\ j \in Nat /\ v \in Nat
      <4>1. j \in active /\ j # v
        BY <1>1
      <4>2. j \in Key /\ v \in Key
        BY <1>3, <4>1 DEF Sound, TypeOK
      <4> QED BY <1>2, <4>1, <4>2 DEF Key
    <3>2. CASE waiting'[i] = v
      BY <3>1, <3>2
    <3>3. CASE waiting'[i] # v
      BY <1>9, <1>10, <3>1, <3>3
    <3> QED BY <3>2, <3>3
  <2> QED BY <1>10, <2>1 DEF FirstComeFirstServed, InOrder
<1> QED BY <1>1, <1>2, <1>5, <1>6, <1>8, <1>10, <1>11, <1>12, LeaveSound

LEMMA PreemptFailsSound ==
  ASSUME Sound, NEW k, PreemptFails(k)
  PROVE  Sound'
<1> DEFINE v == Newest(active)
           r == [req[v] EXCEPT !.output = SavedOutput(v), !.emitted = <<>>,
                               !.point = "closed"]
<1>1. /\ Reserves(k) /\ req' = [req EXCEPT ![v] = r] /\ SeatLost(v)
      /\ active' = active
  BY DEF PreemptFails
<1>2. phase # "failed" /\ v \in Running
  BY <1>1, NewestRuns
<1> HIDE DEF v
<1>3. /\ v \in active /\ req[v] \in Request /\ req[v].status = "active"
      /\ Admissible(asked[v])
  BY <1>2, RunningFacts
<1>4. /\ SavedOutput(v) \in Seq(Token) /\ SavedOutput(v) = req[v].progress
      /\ Len(SavedOutput(v)) <= asked[v].count
  BY <1>2, SavedWhole
<1>5. /\ r \in Request /\ r.status = "active" /\ r.output = SavedOutput(v)
      /\ r.emitted = <<>> /\ r.progress = SavedOutput(v)
      /\ r.lease = req[v].lease /\ r.point = "closed"
  BY <1>3, <1>4, EmptySeq DEF Request, Points
<1> HIDE DEF r
<1>6. Streamed(r, asked[v])
  <2>1. SavedOutput(v) \o <<>> = SavedOutput(v)
    BY <1>4, ConcatEmptySeq
  <2>2. Len(SavedOutput(v)) + Len(<<>>) <= asked[v].count
    <3>1. Len(SavedOutput(v)) \in Nat /\ Len(<<>>) = 0
      BY <1>4, LenProperties, EmptySeq
    <3> QED BY <1>4, <3>1
  <2> QED BY <1>5, <2>1, <2>2 DEF Streamed
<1>7. /\ TableOK(table') /\ table'.generation = table.generation
      /\ \A j \in Seats \ {SeatOf(v)} : table'.seats[j] = table.seats[j]
      /\ table'.seats[SeatOf(v)].tokens = <<>>
      /\ table'.seats[SeatOf(v)].request = NoRequest
      /\ anchor' = anchor /\ asked' = asked /\ waiting' = waiting
      /\ phase' = "failed"
  BY <1>1, <1>2, SeatLostFields
<1>8. /\ FirstComeFirstServed' /\ waiting' \in Seq(Key)
      /\ \A i \in DOMAIN waiting' :
           waiting'[i] # v /\ \E h \in DOMAIN waiting : waiting'[i] = waiting[h]
  BY <1>1, <1>3, <1>7, SameQueue
<1> QED BY <1>1, <1>2, <1>5, <1>6, <1>7, <1>8, LeaveSound

-----------------------------------------------------------------------------
\* The actions: admission and reservation.

\* The request at the head of the queue.
LEMMA HeadOfQueue ==
  ASSUME Sound, waiting # <<>>
  PROVE  LET k == Head(waiting)
         IN  /\ k \in Key /\ k <= Len(asked) /\ k \notin active
             /\ req[k] \in Request /\ req[k].status = "waiting"
             /\ Streamed(req[k], asked[k]) /\ Admissible(asked[k])
             /\ Goal(k) \in Seq(Token)
             /\ Tail(waiting) \in Seq(Key) /\ InOrder(Tail(waiting))
             /\ \A i \in DOMAIN Tail(waiting) :
                  k < Tail(waiting)[i] /\ \E h \in DOMAIN waiting : Tail(waiting)[i] = waiting[h]
<1> DEFINE k == Head(waiting)
           w == Tail(waiting)
<1>1. /\ waiting \in Seq(Key) /\ InOrder(waiting)
      /\ \A i \in DOMAIN waiting : waiting[i] \notin active /\ req[waiting[i]].status = "waiting"
  BY QueueInOrder
<1>2. /\ Len(waiting) \in Nat \ {0} /\ DOMAIN waiting = 1 .. Len(waiting)
      /\ 1 \in DOMAIN waiting /\ k = waiting[1]
  <2>1. Len(waiting) \in Nat \ {0} /\ DOMAIN waiting = 1 .. Len(waiting)
    BY <1>1, EmptySeq, LenProperties
  <2> QED BY <1>1, <2>1
<1>3. /\ w \in Seq(Key) /\ Len(w) = Len(waiting) - 1
      /\ \A i \in 1 .. Len(w) : w[i] = waiting[i + 1]
  BY <1>1, HeadTailProperties
<1>4. DOMAIN w = 1 .. Len(waiting) - 1
  BY <1>3, LenProperties
<1> HIDE DEF w, k
<1>5. \A i \in DOMAIN w : i + 1 \in DOMAIN waiting /\ w[i] = waiting[i + 1] /\ 1 < i + 1
  BY <1>2, <1>3, <1>4
<1>6. InOrder(w)
  <2>1. SUFFICES ASSUME NEW i \in DOMAIN w, NEW j \in DOMAIN w, i < j PROVE w[i] < w[j]
    BY DEF InOrder
  <2>2. i + 1 < j + 1
    BY <1>2, <1>4, <2>1
  <2> QED BY <1>1, <1>5, <2>2 DEF InOrder
<1>7. \A i \in DOMAIN w : k < w[i] /\ \E h \in DOMAIN waiting : w[i] = waiting[h]
  BY <1>1, <1>2, <1>5 DEF InOrder
<1>8. k \in Key /\ k \notin active /\ req[k].status = "waiting" /\ k <= Len(asked)
  BY <1>1, <1>2, KeyQueue DEF Sound, Submitted
<1>9. req[k] \in Request /\ Streamed(req[k], asked[k])
  BY <1>8 DEF Sound, TypeOK, Streams
<1>10. Admissible(asked[k])
  <2>1. asked \in Seq(Question) /\ k \in 1 .. MaxRequests
    BY <1>8 DEF Sound, TypeOK, Key
  <2>2. k \in DOMAIN asked
    BY <1>8, <2>1, LenProperties
  <2> QED BY <2>2 DEF Sound, TypeOK
<1>11. Goal(k) \in Seq(Token)
  <2>1. asked[k].prompt \in Seq(Token) /\ req[k].output \in Seq(Token)
    BY <1>9, <1>10 DEF Admissible, Request
  <2> QED BY <2>1, ConcatProperties DEF Goal
<1> QED BY <1>3, <1>6, <1>7, <1>8, <1>9, <1>10, <1>11 DEF k, w

LEMMA AdmitSound ==
  ASSUME Sound, Admit
  PROVE  Sound'
<1> DEFINE k == Head(waiting)
           g == Goal(k)
           salt == asked[k].cache_salt
<1>1. /\ phase = "admit" /\ waiting # <<>> /\ phase' = phase /\ asked' = asked
      /\ waiting' = Tail(waiting) /\ active' = active \cup {k}
  BY DEF Admit, Admits
<1>2. PICK i \in Chosen(table, g, salt) :
        /\ table' = Acquire(table, i, g, salt)
        /\ anchor' = IF i \in Matches(table, g, salt) THEN anchor ELSE Unanchored(anchor, {i})
        /\ req' = [req EXCEPT ![k] = [@ EXCEPT !.status = "active",
                                              !.lease = LeaseOn(table', i),
                                              !.cached = Len(table'.seats[i].tokens),
                                              !.point = "start"]]
  BY Zenon DEF Admit
<1> DEFINE r == [req[k] EXCEPT !.status = "active", !.lease = LeaseOn(table', i),
                               !.cached = Len(table'.seats[i].tokens), !.point = "start"]
           tokens == table'.seats[i].tokens
<1>3. /\ k \in Key /\ k <= Len(asked) /\ k \notin active
      /\ req[k] \in Request /\ req[k].status = "waiting"
      /\ Streamed(req[k], asked[k]) /\ Admissible(asked[k]) /\ g \in Seq(Token)
      /\ waiting' \in Seq(Key) /\ InOrder(waiting')
      /\ \A j \in DOMAIN waiting' :
           k < waiting'[j] /\ \E h \in DOMAIN waiting : waiting'[j] = waiting[h]
  BY <1>1, HeadOfQueue
<1>4. req' = [req EXCEPT ![k] = r]
  BY <1>2
<1> HIDE DEF k
<1>5. i \in Idle(table) /\ i \in Seats /\ salt \in Salt /\ TableOK(table) /\ table \in Table
  BY <1>2, <1>3 DEF Chosen, Idle, Admissible, Sound, TypeOK, TableOK
<1>6. TableOK(table')
  BY <1>2, <1>5, AcquireFields, AcquirePartition, AcquireCovered DEF TableOK
<1>7. /\ table'.generation = table.generation
      /\ table'.seats[i].request = table.sequence + 1
      /\ \A j \in Seats \ {i} : table'.seats[j] = table.seats[j]
      /\ tokens = Cleared(table, i, g, salt).seats[i].tokens
  BY <1>2, <1>5, AcquireFields
<1>8. tokens = SubSeq(g, 1, Len(tokens)) /\ Len(tokens) <= Len(g)
  BY <1>2, <1>3, <1>5, AcquiredPrefix
<1>9. table' \in Table /\ table'.seats[i] \in Resident /\ tokens \in Seq(Token)
  BY <1>5, <1>6, SeatsType DEF TableOK
<1>10. LeaseOn(table', i) \in Lease /\ LeaseOn(table', i).seat = i
       /\ Resolves(table', LeaseOn(table', i))
  BY <1>5, <1>7, <1>9 DEF LeaseOn, Lease, Resolves, Table, Resident, NoRequest
<1>11. Len(tokens) \in Nat
  BY <1>9, LenProperties
<1>12. /\ r \in Request /\ r.status = "active" /\ r.lease = LeaseOn(table', i)
       /\ r.point = "start" /\ r.output = req[k].output /\ r.emitted = req[k].emitted
       /\ r.progress = req[k].progress
  BY <1>3, <1>10, <1>11 DEF Request, Statuses, Points
<1> HIDE DEF r
<1>13. req[k].emitted = <<>>
  BY <1>3 DEF Streamed
<1>14. Streamed(r, asked[k])
  BY <1>3, <1>12 DEF Streamed
<1>15. Going(table'.seats[i], r, asked[k])
  <2>1. g \o <<>> = g
    BY <1>3, ConcatEmptySeq
  <2>2. SubSeq(tokens, 1, Len(tokens)) = tokens
    BY <1>9, SubSeqFull
  <2>3. IsPrefix(tokens, g)
    BY <1>8, <2>2 DEF IsPrefix
  <2>4. IsPrefix(tokens, (asked[k].prompt \o r.output) \o r.emitted)
    BY <1>12, <1>13, <2>1, <2>3 DEF Goal
  <2> QED BY <1>12, <1>13, <2>4 DEF Going, PrefillPoints, DecodePoints, PagePoints
<1>16. /\ req' \in [Key -> Request] /\ \A j \in Key \ {k} : req'[j] = req[j]
       /\ req'[k] = r
  BY <1>3, <1>4, <1>12 DEF Sound, TypeOK
<1>17. /\ active' \in SUBSET Key /\ active' \ {k} = active \ {k}
  BY <1>1, <1>3 DEF Sound, TypeOK, k
<1>18. FirstComeFirstServed'
  <2>1. ASSUME NEW j \in active', NEW h \in DOMAIN waiting' PROVE j < waiting'[h]
    <3>1. CASE j = k
      BY <1>3, <3>1
    <3>2. CASE j # k
      BY <1>3, <1>17, <3>2, QueueInOrder
    <3> QED BY <3>1, <3>2
  <2> QED BY <1>3, <2>1 DEF FirstComeFirstServed, InOrder
<1>19. AnchorSound' /\ anchor' = [j \in Seats |-> anchor'[j]]
  <2>1. anchor = [j \in Seats |-> anchor[j]] /\ AnchorSound
    BY DEF Sound, TypeOK
  <2>2. CASE i \in Matches(table, g, salt)
    <3>1. anchor' = anchor /\ tokens = table.seats[i].tokens
      BY <1>2, <1>7, <2>2 DEF Cleared
    <3> QED BY <1>7, <2>1, <3>1 DEF AnchorSound
  <2>3. CASE i \notin Matches(table, g, salt)
    <3>1. anchor' = Unanchored(anchor, {i})
      BY <1>2, <2>3
    <3>2. tokens = <<>>
      <4>1. {i} \in SUBSET Seats /\ Cleared(table, i, g, salt) = Evict(table, {i})
        BY <1>5, <2>3 DEF Cleared
      <4>2. Evict(table, {i}).seats[i] = EvictedResident(table.seats[i])
        BY <1>5, <4>1, EvictFields
      <4> QED BY <1>7, <4>1, <4>2 DEF EvictedResident
    <3> QED BY <1>7, <2>1, <3>1, <3>2 DEF AnchorSound, Unanchored
  <2> QED BY <2>2, <2>3
<1>20. \A j \in Running \ {k} : table'.seats[SeatOf(j)] = table.seats[SeatOf(j)]
  BY <1>5, <1>7, RunningFacts
<1>21. k \notin Running /\ k \in active'
  BY <1>1, <1>3 DEF Running, k
<1>22. \A j \in Seats : j # i => (j \in Idle(table') <=> j \in Idle(table))
  BY <1>7 DEF Idle
<1>23. \A j \in DOMAIN waiting' :
         waiting'[j] # k /\ \E h \in DOMAIN waiting : waiting'[j] = waiting[h]
  <2>1. \A j \in DOMAIN waiting' : waiting'[j] \in Nat /\ k \in Nat
    BY <1>3, KeyQueue DEF Key
  <2> QED BY <1>3, <2>1
<1>24. /\ req'[k].lease \in Lease /\ req'[k].lease.seat = i
       /\ Resolves(table', req'[k].lease)
       /\ Going(table'.seats[req'[k].lease.seat], req'[k], asked[k])
       /\ req'[k].lease.seat \in Idle(table)
       /\ req'[k].point # "closed" /\ req'[k].status = "active"
       /\ Streamed(req'[k], asked[k])
  BY <1>5, <1>10, <1>12, <1>14, <1>15, <1>16
<1> HIDE DEF g, salt, tokens
<1> QED BY <1>1, <1>3, <1>6, <1>7, <1>16, <1>17, <1>18, <1>19, <1>20, <1>21, <1>22,
           <1>23, <1>24, MoveSound

LEMMA AdmitFailsSound ==
  ASSUME Sound, AdmitFails
  PROVE  Sound'
<1> DEFINE k == Head(waiting)
           r == [req[k] EXCEPT !.status = "lost"]
<1>1. /\ phase = "admit" /\ waiting # <<>> /\ phase' = "failed" /\ asked' = asked
      /\ waiting' = Tail(waiting) /\ active' = active /\ anchor' = anchor
      /\ req' = [req EXCEPT ![k] = r]
  BY DEF AdmitFails, Admits
<1>2. PICK i \in Chosen(table, Goal(k), asked[k].cache_salt) : table' = FailedEvict(table, i)
  BY DEF AdmitFails
<1>3. /\ k \in Key /\ k <= Len(asked) /\ k \notin active /\ req[k] \in Request
      /\ waiting' \in Seq(Key) /\ InOrder(waiting')
      /\ \A j \in DOMAIN waiting' :
           k < waiting'[j] /\ \E h \in DOMAIN waiting : waiting'[j] = waiting[h]
  BY <1>1, HeadOfQueue
<1>4. i \in Idle(table) /\ i \in Seats /\ TableOK(table) /\ table \in Table
  BY <1>2 DEF Chosen, Idle, Sound, TypeOK, TableOK
<1> HIDE DEF k
<1>5. r \in Request /\ r.status = "lost"
  BY <1>3 DEF Request, Statuses
<1> HIDE DEF r
<1>6. TableOK(table')
  BY <1>2, <1>4, FailedEvictOK
<1>7. /\ table'.generation = table.generation
      /\ table'.seats[i] = [EvictedResident(table.seats[i]) EXCEPT !.pages = table.seats[i].pages]
      /\ \A j \in Seats \ {i} : table'.seats[j] = table.seats[j]
  BY <1>2, <1>4, FailedEvictFields
<1>8. table'.seats[i].tokens = <<>> /\ table'.seats[i].request = table.seats[i].request
  BY <1>7 DEF EvictedResident
<1>9. /\ req' \in [Key -> Request] /\ \A j \in Key \ {k} : req'[j] = req[j]
      /\ req'[k] = r /\ active \in SUBSET Key
      /\ anchor = [j \in Seats |-> anchor[j]] /\ AnchorSound
  BY <1>1, <1>3, <1>5 DEF Sound, TypeOK
<1>10. FirstComeFirstServed'
  BY <1>1, <1>3, QueueInOrder DEF FirstComeFirstServed, InOrder
<1>11. AnchorSound'
  BY <1>1, <1>7, <1>8, <1>9 DEF AnchorSound
<1>12. \A j \in Running \ {k} : table'.seats[SeatOf(j)] = table.seats[SeatOf(j)]
  BY <1>4, <1>7, RunningFacts
<1>13. k \notin Running
  BY <1>3 DEF Running
<1>14. \A j \in Seats : j \in Idle(table') <=> j \in Idle(table)
  BY <1>7, <1>8 DEF Idle
<1>15. \A j \in DOMAIN waiting' :
         waiting'[j] # k /\ \E h \in DOMAIN waiting : waiting'[j] = waiting[h]
  <2>1. \A j \in DOMAIN waiting' : waiting'[j] \in Nat /\ k \in Nat
    BY <1>3, KeyQueue DEF Key
  <2> QED BY <1>3, <2>1
<1> QED BY <1>1, <1>3, <1>5, <1>6, <1>7, <1>9, <1>10, <1>11, <1>12, <1>13, <1>14, <1>15,
           MoveSound

\* The seats that reserve evicts on its way.
LEMMA ShedFields ==
  ASSUME NEW t \in Table, NEW S \in SUBSET Idle(t)
  PROVE  /\ Evict(t, S) \in Table
         /\ \A j \in S : Evict(t, S).seats[j].tokens = <<>>
                         /\ Evict(t, S).seats[j].request = t.seats[j].request
         /\ \A j \in Seats \ S : Evict(t, S).seats[j] = t.seats[j]
<1>1. S \in SUBSET Seats
  BY DEF Idle
<1>2. /\ Evict(t, S) \in Table
      /\ \A j \in S : Evict(t, S).seats[j] = EvictedResident(t.seats[j])
      /\ \A j \in Seats \ S : Evict(t, S).seats[j] = t.seats[j]
  BY <1>1, EvictFields
<1>3. \A r : EvictedResident(r).tokens = <<>> /\ EvictedResident(r).request = r.request
  BY DEF EvictedResident
<1> QED BY <1>2, <1>3

LEMMA GrantCovers ==
  ASSUME NEW n \in Nat, NEW m \in Nat, NEW k \in Nat,
         k = IF PagesFor(n) > m THEN PagesFor(n) - m ELSE 0
  PROVE  n <= (m + k) * PageTokens
<1>1. PagesFor(n) \in Nat /\ n <= PagesFor(n) * PageTokens
  BY PagesForType
<1>2. CASE PagesFor(n) > m
  <2>1. m + k = PagesFor(n)
    BY <1>1, <1>2
  <2> QED BY <1>1, <2>1
<1>3. CASE ~(PagesFor(n) > m)
  <2>1. m - PagesFor(n) \in Nat /\ m + k = PagesFor(n) + (m - PagesFor(n))
    BY <1>1, <1>3
  <2>2. n <= (PagesFor(n) + (m - PagesFor(n))) * PageTokens
    <3> DEFINE d == m - PagesFor(n)
    <3>1. d \in Nat
      BY <2>1
    <3> HIDE DEF d
    <3>2. n <= (PagesFor(n) + d) * PageTokens
      BY <1>1, <3>1, MorePages
    <3> QED BY <3>2 DEF d
  <2> QED BY <2>1, <2>2
<1> QED BY <1>2, <1>3

LEMMA ReservePagesSound ==
  ASSUME Sound, NEW k, ReservePages(k)
  PROVE  Sound'
<1> DEFINE l == req[k].lease
           n == Reach(k)
           i == SeatOf(k)
           S == Shed(table, Needed(table, l, n))
           u == AfterShed(table, l, n)
           p == GrantedPoint(k)
           r == [req[k] EXCEPT !.point = p, !.age = 0]
<1>1. /\ Reserves(k) /\ anchor' = Unanchored(anchor, S)
      /\ req' = [req EXCEPT ![k] = r]
      /\ asked' = asked /\ waiting' = waiting /\ active' = active /\ phase' = phase
  BY DEF ReservePages
<1>2. PICK g \in Grants(u, Needed(table, l, n)) : table' = Reserve(table, l, n, g)
  BY DEF ReservePages
<1>3. k \in Running /\ phase # "failed" /\ req[k].point \in PagePoints
  <2>1. Reserving # {} /\ k = Oldest(Reserving) /\ Reserving \in SUBSET Key
    BY <1>1 DEF Reserves, Reserving, Sound, TypeOK
  <2>2. k \in Reserving
    BY <2>1, OldestIn
  <2> QED BY <1>1, <2>2, NewestRuns DEF Reserving
<1>4. /\ k \in active /\ k \in Key /\ k <= Len(asked)
      /\ req[k] \in Request /\ req[k].status = "active"
      /\ l \in Lease /\ l.seat = i /\ i \in Seats /\ Resolves(table, l)
      /\ i \notin Idle(table) /\ table.seats[i] \in Resident
      /\ Streamed(req[k], asked[k]) /\ Going(table.seats[i], req[k], asked[k])
      /\ TableOK(table) /\ table \in Table
  BY <1>3, RunningFacts DEF SeatOf, Sound, TypeOK, TableOK
<1>5. /\ n \in Nat /\ n = Len(table.seats[i].tokens) + req[k].width
      /\ Len(table.seats[i].pages) \in Nat
  <2>1. Len(table.seats[i].tokens) \in Nat /\ Len(table.seats[i].pages) \in Nat
    BY <1>4, LenProperties DEF Resident
  <2>2. req[k].width \in Nat
    BY <1>4 DEF Request
  <2>3. n = Len(table.seats[i].tokens) + req[k].width
    BY DEF Reach, Committed
  <2> HIDE DEF n, i
  <2> QED BY <2>1, <2>2, <2>3
<1> HIDE DEF l, n, i
<1>6. TableOK(table')
  <2>1. l.seat \notin Idle(table)
    BY <1>4
  <2>2. table' \in Table
    <3>1. Granted(table, u, Reserve(table, l, n, g), l.seat, g)
      BY <1>2, <1>4, <1>5, <2>1, ReserveFields
    <3> QED BY <1>2, <3>1 DEF Granted
  <2> QED BY <1>2, <1>4, <1>5, <2>1, <2>2, ReservePartition, ReserveCovered DEF TableOK
<1>7. /\ table'.generation = table.generation
      /\ table'.seats[i].tokens = table.seats[i].tokens
      /\ table'.seats[i].pages = table.seats[i].pages \o g
      /\ table'.seats[i].incarnation = table.seats[i].incarnation
      /\ table'.seats[i].request = table.seats[i].request
      /\ \A j \in Seats \ {i} : table'.seats[j] = u.seats[j]
      /\ u \in Table /\ g \in Seq(u.free)
  <2>1. table \in Table /\ l \in Lease /\ l.seat \notin Idle(table) /\ n \in Nat
    BY <1>4, <1>5
  <2>2. Granted(table, u, Reserve(table, l, n, g), l.seat, g)
    BY <1>2, <2>1, ReserveFields
  <2> HIDE DEF u
  <2>3. Granted(table, u, table', i, g)
    BY <1>2, <1>4, <2>2
  <2> QED BY <2>3 DEF Granted
<1>8. S \in SUBSET Idle(table) /\ i \notin S
  BY <1>4 DEF Shed, Victims
<1>9. u = Evict(table, S)
  BY DEF AfterShed
<1> HIDE DEF u, S
<1>10. /\ \A j \in S : u.seats[j].tokens = <<>> /\ u.seats[j].request = table.seats[j].request
       /\ \A j \in Seats \ S : u.seats[j] = table.seats[j]
  BY <1>4, <1>8, <1>9, ShedFields
<1>11. /\ p \in {"prefill_draft", "prefill_target", "decode_draft"}
       /\ req[k].point = "decode_pages" => p = "decode_draft"
       /\ req[k].point = "prefill_pages" => p \in {"prefill_draft", "prefill_target"}
  BY <1>3 DEF GrantedPoint, PagePoints
<1> HIDE DEF p
<1>12. /\ r \in Request /\ r.status = "active" /\ r.lease = l /\ r.output = req[k].output
       /\ r.emitted = req[k].emitted /\ r.progress = req[k].progress
       /\ r.point = p /\ r.width = req[k].width
  BY <1>4, <1>11 DEF Request, Points, PrefillPoints, DecodePoints, l
<1> HIDE DEF r
<1>13. n <= Len(table'.seats[i].pages) * PageTokens
  <2>1. Needed(table, l, n) \in Nat
    <3>1. PagesFor(n) \in Nat /\ Len(table.seats[l.seat].pages) \in Nat
      BY <1>4, <1>5, PagesForType
    <3> QED BY <3>1 DEF Needed
  <2>2. g \in [1 .. Needed(table, l, n) -> u.free]
    BY <1>2 DEF Grants
  <2>3. Len(g) = Needed(table, l, n)
    BY <2>1, <2>2
  <2>4. Len(table'.seats[i].pages) = Len(table.seats[i].pages) + Len(g)
    <3>1. table'.seats[i].pages \in Seq(Page) /\ table.seats[i].pages \in Seq(Page)
      BY <1>4, <1>6, SeatsType DEF TableOK
    <3>2. g \in Seq(Page)
      <4>1. u.free \in SUBSET Page
        BY <1>7 DEF Table
      <4> QED BY <1>7, <4>1, SeqMonotonic
    <3> QED BY <1>7, <3>1, <3>2, ConcatProperties
  <2> QED BY <1>4, <1>5, <2>1, <2>3, <2>4, GrantCovers DEF Needed
<1>14. Going(table'.seats[i], r, asked[k])
  BY <1>3, <1>4, <1>5, <1>7, <1>11, <1>12, <1>13, Zenon
  DEF Going, PrefillPoints, DecodePoints, PagePoints
<1>15. Streamed(r, asked[k])
  BY <1>4, <1>12 DEF Streamed
<1>16. /\ req' \in [Key -> Request] /\ \A j \in Key \ {k} : req'[j] = req[j]
       /\ req'[k] = r /\ active \in SUBSET Key
       /\ anchor = [j \in Seats |-> anchor[j]] /\ AnchorSound
  BY <1>1, <1>4, <1>12 DEF Sound, TypeOK
<1>17. /\ FirstComeFirstServed' /\ waiting' \in Seq(Key)
       /\ \A j \in DOMAIN waiting' :
            waiting'[j] # k /\ \E h \in DOMAIN waiting : waiting'[j] = waiting[h]
  BY <1>1, <1>4, SameQueue
<1>18. AnchorSound' /\ anchor' = [j \in Seats |-> anchor'[j]]
  BY <1>1, <1>7, <1>8, <1>10, <1>16 DEF AnchorSound, Unanchored
<1>19. \A j \in Running \ {k} : table'.seats[SeatOf(j)] = table.seats[SeatOf(j)]
  <2>1. \A j \in Running \ {k} :
          SeatOf(j) \in Seats /\ SeatOf(j) # i /\ SeatOf(j) \notin Idle(table)
    BY <1>3, RunningFacts DEF Sound, Held, i
  <2> QED BY <1>7, <1>8, <1>10, <2>1
<1>20. \A j \in Seats : j # i => (j \in Idle(table') <=> j \in Idle(table))
  BY <1>7, <1>8, <1>10 DEF Idle
<1>21. /\ req'[k].lease \in Lease /\ req'[k].lease.seat = i /\ SeatOf(k) = i
       /\ Resolves(table', req'[k].lease)
       /\ Going(table'.seats[req'[k].lease.seat], req'[k], asked[k])
       /\ req'[k].point # "closed" /\ req'[k].status = "active"
       /\ Streamed(req'[k], asked[k])
  BY <1>4, <1>7, <1>11, <1>12, <1>14, <1>15, <1>16, ZenonT(60) DEF Resolves, i
<1> QED BY <1>1, <1>3, <1>4, <1>6, <1>7, <1>16, <1>17, <1>18, <1>19, <1>20, <1>21,
       MoveSound, Zenon

LEMMA ReserveFailsSound ==
  ASSUME Sound, NEW k, ReserveFails(k)
  PROVE  Sound'
<1> DEFINE S == Shed(table, Needed(table, req[k].lease, Reach(k)))
<1>1. PICK v \in S : table' = FailedEvict(Evict(table, S \cap OlderVictims(table, v)), v)
  BY DEF ReserveFails
<1> DEFINE O == S \cap OlderVictims(table, v)
           u == Evict(table, O)
<1>2. /\ Reserves(k) /\ phase' = "failed" /\ anchor' = anchor /\ asked' = asked
      /\ waiting' = waiting /\ active' = active /\ req' = req
  BY DEF ReserveFails
<1>3. k \in Running /\ phase # "failed"
  BY <1>2, NewestRuns
<1>4. /\ k \in active /\ k \in Key /\ k <= Len(asked)
      /\ req[k].status = "active" /\ req[k].lease \in Lease
      /\ req[k].lease.seat = SeatOf(k) /\ SeatOf(k) \in Seats
      /\ Resolves(table, req[k].lease) /\ SeatOf(k) \notin Idle(table)
      /\ Streamed(req[k], asked[k]) /\ Going(table.seats[SeatOf(k)], req[k], asked[k])
      /\ TableOK(table) /\ table \in Table
  BY <1>3, RunningFacts DEF SeatOf, Sound, TypeOK, TableOK
<1>5. v \in Idle(table) /\ v \in Seats /\ O \in SUBSET Idle(table) /\ O \in SUBSET Seats
  BY DEF Shed, Victims, Idle
<1>6. /\ \A j \in O : u.seats[j].tokens = <<>> /\ u.seats[j].request = table.seats[j].request
      /\ \A j \in Seats \ O : u.seats[j] = table.seats[j]
  BY <1>4, <1>5, ShedFields
<1>7. TableOK(u) /\ u.generation = table.generation /\ table' = FailedEvict(u, v)
  BY <1>1, <1>4, <1>5, EvictOK, EvictFields
<1> HIDE DEF u, O, S
<1>8. /\ TableOK(table') /\ table'.generation = table.generation
      /\ table'.seats[v] = [EvictedResident(u.seats[v]) EXCEPT !.pages = u.seats[v].pages]
      /\ \A j \in Seats \ {v} : table'.seats[j] = u.seats[j]
  BY <1>5, <1>7, FailedEvictOK, FailedEvictFields DEF TableOK
<1>9. table'.seats[v].tokens = <<>> /\ table'.seats[v].request = u.seats[v].request
  BY <1>8 DEF EvictedResident
<1>10. /\ req \in [Key -> Request] /\ active \in SUBSET Key
       /\ anchor = [j \in Seats |-> anchor[j]] /\ AnchorSound
  BY DEF Sound, TypeOK
<1>11. /\ FirstComeFirstServed' /\ waiting' \in Seq(Key)
       /\ \A j \in DOMAIN waiting' :
            waiting'[j] # k /\ \E h \in DOMAIN waiting : waiting'[j] = waiting[h]
  BY <1>2, <1>4, SameQueue
<1>12. AnchorSound'
  <2>1. SUFFICES ASSUME NEW j \in Seats, table'.seats[j].tokens # <<>>
                 PROVE  anchor[j] = Greedy(table'.seats[j].tokens)
    BY <1>2 DEF AnchorSound
  <2>2. j # v /\ j \notin O
    BY <1>6, <1>8, <1>9, <2>1
  <2>3. table'.seats[j] = table.seats[j]
    BY <1>6, <1>8, <2>2
  <2> QED BY <1>10, <2>1, <2>3 DEF AnchorSound
<1>13. \A j \in Seats : j \notin Idle(table) => table'.seats[j] = table.seats[j]
  BY <1>5, <1>6, <1>8
<1>14. \A j \in Running : table'.seats[SeatOf(j)] = table.seats[SeatOf(j)]
  BY <1>13, RunningFacts
<1>15. \A j \in Seats : j \in Idle(table') <=> j \in Idle(table)
  <2>1. \A j \in Seats : table'.seats[j].request = table.seats[j].request
    BY <1>6, <1>8, <1>9
  <2> QED BY <2>1 DEF Idle
<1>16. /\ Resolves(table', req[k].lease)
       /\ Going(table'.seats[req[k].lease.seat], req[k], asked[k])
       /\ req[k].point # "closed"
  BY <1>3, <1>4, <1>8, <1>14 DEF Resolves, Running
<1> QED BY <1>2, <1>3, <1>4, <1>8, <1>10, <1>11, <1>12, <1>14, <1>15, <1>16,
       MoveSound, ZenonT(60)

-----------------------------------------------------------------------------
\* The actions that move no request, the wave and submission.

LEMMA QuietSound ==
  ASSUME Sound, UNCHANGED <<table, anchor, asked, waiting, active, req>>,
         phase' # "failed" => phase # "failed"
  PROVE  Sound'
<1>1. TypeOK'
  BY DEF Sound, TypeOK
<1>2. FirstComeFirstServed' /\ Submitted' /\ Streams' /\ AnchorSound'
  BY DEF Sound, FirstComeFirstServed, Submitted, Streams, AnchorSound
<1>3. Running' = Running
  BY DEF Running
<1>4. Protocols' /\ Held'
  BY <1>3 DEF Sound, Protocols, Held, SeatOf, Committed
<1> QED BY <1>1, <1>2, <1>4 DEF Sound

\* Where a protocol stands does not depend on the time it waits.
LEMMA GoingSame ==
  ASSUME NEW s, NEW r, NEW n, NEW q, Going(s, r, q),
         n.output = r.output, n.emitted = r.emitted, n.point = r.point,
         n.width = r.width, n.chunk = r.chunk
  PROVE  Going(s, n, q)
BY DEF Going

LEMMA WaveSound ==
  ASSUME Sound, Wave
  PROVE  Sound'
<1>1. /\ req' = [k \in Key |-> IF k \in active THEN [req[k] EXCEPT !.age = @ + 1]
                                               ELSE req[k]]
      /\ table' = table /\ anchor' = anchor /\ asked' = asked /\ waiting' = waiting
      /\ active' = active /\ phase = "batch" /\ phase' = "idle"
  BY DEF Wave
<1>2. /\ req \in [Key -> Request] /\ active \in SUBSET Key /\ waiting \in Seq(Key)
      /\ TypeOK
  BY DEF Sound, TypeOK
<1>3. ASSUME NEW k \in Key
      PROVE  /\ req'[k] \in Request /\ req'[k].status = req[k].status
             /\ req'[k].output = req[k].output /\ req'[k].progress = req[k].progress
             /\ req'[k].lease = req[k].lease /\ req'[k].emitted = req[k].emitted
             /\ req'[k].point = req[k].point /\ req'[k].width = req[k].width
             /\ req'[k].chunk = req[k].chunk
             /\ k \notin active => req'[k] = req[k]
  <2>1. req[k] \in Request
    BY <1>2
  <2>2. CASE k \in active
    <3>1. req'[k] = [req[k] EXCEPT !.age = @ + 1]
      BY <1>1, <2>2
    <3> DEFINE a == req[k].age + 1
    <3>2. a \in Nat /\ req'[k] = [req[k] EXCEPT !.age = a]
      BY <2>1, <3>1 DEF Request
    <3> HIDE DEF a
    <3> QED BY <2>1, <2>2, <3>2 DEF Request
  <2>3. CASE k \notin active
    BY <1>1, <2>1, <2>3
  <2> QED BY <2>2, <2>3
<1>4. req' \in [Key -> Request]
  BY <1>1, <1>3
<1>5. TypeOK'
  BY <1>1, <1>2, <1>4 DEF TypeOK
<1>6. FirstComeFirstServed' /\ AnchorSound'
  BY <1>1 DEF Sound, FirstComeFirstServed, AnchorSound
<1>7. Submitted'
  <2>1. \A k \in active : k <= Len(asked) /\ req'[k].status = "active"
    BY <1>2, <1>3 DEF Sound, Submitted
  <2>2. \A i \in DOMAIN waiting :
          waiting[i] <= Len(asked) /\ req'[waiting[i]].status = "waiting"
    BY <1>2, <1>3, KeyQueue DEF Sound, Submitted
  <2>3. \A k \in Key : k > Len(asked) => req'[k] = Fresh
    <3>1. SUFFICES ASSUME NEW k \in Key, k > Len(asked) PROVE req'[k] = Fresh
      OBVIOUS
    <3>2. req[k] = Fresh
      BY <3>1 DEF Sound, Submitted
    <3>3. k \notin active
      BY <3>2 DEF Sound, Submitted, Fresh
    <3> QED BY <1>3, <3>2, <3>3
  <2> QED BY <1>1, <2>1, <2>2, <2>3 DEF Submitted
<1>8. Streams'
  BY <1>1, <1>3, ZenonT(60) DEF Sound, Streams, Streamed
<1>9. Running' = Running /\ \A k \in Running : SeatOf(k)' = SeatOf(k)
  BY <1>1, <1>2, <1>3 DEF Running, SeatOf
<1>10. Held'
  <2>1. \A k \in Running : Resolves(table, req'[k].lease)
    BY <1>2, <1>3 DEF Sound, Held, Running
  <2>2. {SeatOf(k) : k \in Running}' = {SeatOf(k) : k \in Running}
    BY <1>9
  <2> QED BY <1>1, <1>9, <2>1, <2>2 DEF Sound, Held
<1>11. Protocols'
  <2>1. phase' # "failed" => Running' = active'
    BY <1>1, <1>9 DEF Sound, Protocols
  <2>2. \A k \in active : req'[k].lease \in Lease
    BY <1>2, <1>3 DEF Sound, Protocols
  <2>3. ASSUME NEW k \in Running
        PROVE  Going(table.seats[SeatOf(k)], req'[k], asked[k])
    <3>1. k \in Key /\ Going(table.seats[SeatOf(k)], req[k], asked[k])
      BY RunningFacts
    <3> QED BY <1>3, <3>1, GoingSame
  <2>4. active \ Running = {}
    BY <1>1 DEF Sound, Protocols
  <2> QED BY <1>1, <1>9, <2>1, <2>2, <2>3, <2>4 DEF Protocols
<1> QED BY <1>5, <1>6, <1>7, <1>8, <1>10, <1>11 DEF Sound

LEMMA SubmitSound ==
  ASSUME Sound, NEW q \in Question, Submit(q)
  PROVE  Sound'
<1> DEFINE k == Len(asked) + 1
<1>1. /\ phase = "idle" /\ Len(asked) < MaxRequests
      /\ q.prompt # <<>> /\ q.count > 0 /\ Len(q.prompt) + q.count <= ContextTokens
      /\ waiting' = Append(waiting, k) /\ req' = [req EXCEPT ![k].status = "waiting"]
      /\ asked' = Append(asked, q)
      /\ table' = table /\ anchor' = anchor /\ active' = active /\ phase' = phase
  BY DEF Submit
<1>2. /\ TypeOK /\ Submitted /\ Streams /\ FirstComeFirstServed
      /\ asked \in Seq(Question) /\ waiting \in Seq(Key) /\ active \in SUBSET Key
      /\ req \in [Key -> Request]
  BY DEF Sound, TypeOK
<1>3. Len(asked) \in Nat /\ MaxRequests \in Nat
  BY <1>2, LenProperties, SchedulerAssumption
<1>4. k \in Key /\ k \in Nat /\ k > Len(asked)
  BY <1>1, <1>3 DEF Key
<1>5. req[k] = Fresh
  BY <1>2, <1>4 DEF Submitted
<1>6. k \notin active
  BY <1>2, <1>5 DEF Submitted, Fresh
<1>7. Admissible(q)
  <2>1. /\ q.prompt \in Seq(Token) /\ q.count \in Int /\ q.cache_salt \in Salt
    BY SchedulerAssumption
  <2> QED BY <1>1, <2>1 DEF Admissible
<1>8. /\ asked' \in Seq(Question) /\ Len(asked') = k
      /\ \A j \in 1 .. Len(asked) : asked'[j] = asked[j]
      /\ asked'[k] = q
  BY <1>1, <1>2, AppendProperties
<1>9. \A j \in DOMAIN asked' : Admissible(asked'[j])
  <2>1. DOMAIN asked' = 1 .. k /\ DOMAIN asked = 1 .. Len(asked)
    BY <1>2, <1>8, LenProperties
  <2>2. \A j \in 1 .. k : j = k \/ j \in 1 .. Len(asked)
    BY <1>3
  <2> QED BY <1>2, <1>7, <1>8, <2>1, <2>2 DEF TypeOK
<1> HIDE DEF k
<1>10. /\ waiting' \in Seq(Key) /\ Len(waiting') = Len(waiting) + 1
       /\ \A i \in 1 .. Len(waiting) : waiting'[i] = waiting[i]
       /\ waiting'[Len(waiting) + 1] = k
  BY <1>1, <1>2, <1>4, AppendProperties
<1>11. /\ DOMAIN waiting' = 1 .. Len(waiting) + 1 /\ DOMAIN waiting = 1 .. Len(waiting)
       /\ Len(waiting) \in Nat
  BY <1>2, <1>10, LenProperties
<1>12. /\ req' \in [Key -> Request] /\ \A j \in Key \ {k} : req'[j] = req[j]
       /\ req'[k] = [Fresh EXCEPT !.status = "waiting"]
  <2>1. [Fresh EXCEPT !.status = "waiting"] \in Request
    BY FreshRequest DEF Request, Statuses
  <2>2. req' = [req EXCEPT ![k] = [Fresh EXCEPT !.status = "waiting"]]
    BY <1>1, <1>5
  <2> QED BY <1>2, <1>4, <2>1, <2>2
<1>13. \A j \in Key : j <= Len(asked) => asked'[j] = asked[j] /\ j # k /\ j < k
  BY <1>3, <1>4, <1>8 DEF Key
<1>14. TypeOK'
  BY <1>1, <1>2, <1>8, <1>9, <1>10, <1>12 DEF TypeOK
<1>15. \A i \in DOMAIN waiting : waiting[i] \in Key /\ waiting[i] <= Len(asked)
                                 /\ req[waiting[i]].status = "waiting"
  BY <1>2, KeyQueue DEF Submitted
<1>16. \A j \in active : j \in Key /\ j <= Len(asked) /\ req[j].status = "active"
  BY <1>2 DEF Submitted
<1>17. \A i \in DOMAIN waiting' :
         \/ i \in DOMAIN waiting /\ waiting'[i] = waiting[i]
         \/ i = Len(waiting) + 1 /\ waiting'[i] = k
  BY <1>10, <1>11
<1>18. FirstComeFirstServed'
  <2>1. ASSUME NEW j \in active, NEW i \in DOMAIN waiting' PROVE j < waiting'[i]
    BY <1>2, <1>13, <1>16, <1>17 DEF FirstComeFirstServed
  <2>2. ASSUME NEW h \in DOMAIN waiting', NEW i \in DOMAIN waiting', h < i
        PROVE  waiting'[h] < waiting'[i]
    <3>1. h \in DOMAIN waiting /\ waiting'[h] = waiting[h]
      BY <1>10, <1>11, <2>2
    <3>2. CASE i \in DOMAIN waiting /\ waiting'[i] = waiting[i]
      BY <1>2, <2>2, <3>1, <3>2 DEF FirstComeFirstServed
    <3>3. CASE waiting'[i] = k
      BY <1>13, <1>15, <3>1, <3>3
    <3> QED BY <1>17, <3>2, <3>3
  <2> QED BY <1>1, <2>1, <2>2 DEF FirstComeFirstServed
<1>19. Submitted'
  <2>1. \A j \in active : j <= k /\ req'[j].status = "active"
    BY <1>3, <1>4, <1>6, <1>12, <1>16 DEF Key
  <2>2. \A i \in DOMAIN waiting' : waiting'[i] <= k /\ req'[waiting'[i]].status = "waiting"
    <3>1. SUFFICES ASSUME NEW i \in DOMAIN waiting'
                   PROVE  waiting'[i] <= k /\ req'[waiting'[i]].status = "waiting"
      OBVIOUS
    <3>2. CASE i \in DOMAIN waiting /\ waiting'[i] = waiting[i]
      <4>1. waiting[i] \in Key /\ waiting[i] < k /\ waiting[i] # k
            /\ req[waiting[i]].status = "waiting"
        BY <1>13, <1>15, <3>2
      <4> QED BY <1>4, <1>12, <3>2, <4>1 DEF Key
    <3>3. CASE waiting'[i] = k
      BY <1>4, <1>12, <3>3 DEF Fresh
    <3> QED BY <1>17, <3>2, <3>3
  <2>3. \A j \in Key : j > k => req'[j] = Fresh
    BY <1>2, <1>3, <1>4, <1>12 DEF Submitted, Key
  <2> QED BY <1>1, <1>8, <2>1, <2>2, <2>3 DEF Submitted
<1>20. Streams'
  <2>1. SUFFICES ASSUME NEW j \in Key, req'[j].status \in {"waiting", "active"}
                 PROVE  Streamed(req'[j], asked'[j])
    BY DEF Streams
  <2>2. CASE j = k
    <3>1. /\ req'[j].output = <<>> /\ req'[j].emitted = <<>> /\ req'[j].progress = <<>>
          /\ asked'[j] = q
      BY <1>8, <1>12, <2>2 DEF Fresh
    <3>2. <<>> \o <<>> = <<>> /\ Len(<<>>) + Len(<<>>) = 0 /\ q.count \in Nat
      BY <1>7, EmptySeq, ConcatEmptySeq DEF Admissible
    <3> QED BY <3>1, <3>2 DEF Streamed
  <2>3. CASE j # k
    <3>1. req'[j] = req[j]
      BY <1>12, <2>3
    <3>2. j <= Len(asked)
      <4>1. j > Len(asked) => req[j].status = "absent"
        BY <1>2 DEF Submitted, Fresh
      <4>2. j \in Nat
        BY DEF Key
      <4> QED BY <1>3, <2>1, <3>1, <4>1, <4>2
    <3> QED BY <1>2, <1>13, <2>1, <3>1, <3>2 DEF Streams
  <2> QED BY <2>2, <2>3
<1>21. Protocols' /\ Held'
  <2>1. k \notin Running /\ table \in Table
    BY <1>2, <1>6 DEF Running, TypeOK, TableOK
  <2>2. \A j \in active \ {k} : req'[j] = req[j] /\ asked'[j] = asked[j]
    BY <1>12, <1>13, <1>16
  <2> QED BY <1>1, <1>2, <1>4, <1>6, <2>1, <2>2, OneMoves
<1>22. AnchorSound'
  BY <1>1 DEF Sound, AnchorSound
<1> QED BY <1>14, <1>18, <1>19, <1>20, <1>21, <1>22 DEF Sound

\* Close leaves nothing, whatever state a failure left.
LEMMA CloseEnds ==
  ASSUME Sound, Close
  PROVE  Ended'
<1> DEFINE begun == {k \in active : req[k].point \notin {"start", "closed"}}
           seats == {SeatOf(k) : k \in begun}
<1>1. /\ table' = ClosedTable(table, seats) /\ anchor' = Unanchored(anchor, seats)
      /\ req' = [k \in Key |-> IF k \in Pending THEN Cancelled(req[k]) ELSE req[k]]
      /\ waiting' = <<>> /\ active' = {}
  BY DEF Close
<1>2. seats \in SUBSET Seats
  BY DEF Sound, Protocols, SeatOf, Lease
<1> HIDE DEF seats
<1>3. TableOK(table)
  BY DEF Sound, TypeOK
<1>4. /\ \A j \in seats : table'.seats[j].tokens = <<>>
      /\ \A j \in Seats \ seats : table'.seats[j] = table.seats[j]
  BY <1>1, <1>2, <1>3, ClosedFields
<1>5. AnchorSound'
  BY <1>1, <1>4 DEF Sound, AnchorSound, Unanchored
<1>6. Pending' = {}
  <2>1. SUFFICES ASSUME NEW k \in Key
                 PROVE  req'[k].status \notin {"waiting", "active", "lost"}
    BY DEF Pending
  <2>2. CASE k \in Pending
    <3>1. req'[k] = Cancelled(req[k])
      BY <1>1, <2>2
    <3> QED BY <3>1 DEF Cancelled, Fresh
  <2>3. CASE k \notin Pending
    BY <1>1, <2>3 DEF Pending
  <2> QED BY <2>2, <2>3
<1> QED BY <1>1, <1>5, <1>6 DEF Ended

-----------------------------------------------------------------------------
\* The theorems.

LEMMA InitSound == Init => IInv
<1> SUFFICES ASSUME Init PROVE IInv
  OBVIOUS
<1>1. TableOK(table)
  BY NewTableOK DEF Init
<1>2. \A i \in Seats : table.seats[i] = EmptyResident
  BY DEF Init, NewTable
<1>3. /\ asked = <<>> /\ waiting = <<>> /\ active = {} /\ phase = "idle"
      /\ req = [k \in Key |-> Fresh] /\ anchor = [i \in Seats |-> NoAnchor]
  BY DEF Init
<1>4. /\ asked \in Seq(Question) /\ waiting \in Seq(Key)
      /\ DOMAIN asked = {} /\ DOMAIN waiting = {}
  BY <1>3, EmptySeq
<1>5. TypeOK
  BY <1>1, <1>3, <1>4, FreshRequest DEF TypeOK
<1>6. FirstComeFirstServed /\ Submitted
  BY <1>3, <1>4 DEF FirstComeFirstServed, Submitted
<1>7. Streams
  BY <1>3 DEF Streams, Fresh
<1>8. Running = {}
  BY <1>3 DEF Running
<1>9. Live(table) = {}
  BY <1>2 DEF Live, Idle, EmptyResident
<1>10. Protocols /\ Held
  BY <1>3, <1>8, <1>9 DEF Protocols, Held
<1>11. AnchorSound
  BY <1>2 DEF AnchorSound, EmptyResident
<1> QED BY <1>3, <1>5, <1>6, <1>7, <1>10, <1>11 DEF IInv, Sound

LEMMA ConsumeSound ==
  ASSUME Sound, NEW k, Consume(k)
  PROVE  Sound' /\ phase' = phase
<1>1. Sound'
  BY StartSound, FollowSound, CommitPrefillSound, VerifySound, CommitRepairedSound
  DEF Consume
<1>2. phase' = phase
  BY DEF Consume, Start, Follow, CommitPrefill, Verify, CommitRepaired, CommitChunk,
         Proceed
<1> QED BY <1>1, <1>2

\* Nothing happens after close.
LEMMA ClosedRests ==
  ASSUME phase = "closed", [Next]_vars
  PROVE  UNCHANGED vars
<1>1. ASSUME NEW k, Consume(k) PROVE FALSE
  BY <1>1 DEF Consume, Start, Follow, CommitPrefill, Verify, CommitRepaired, Consumes
<1>2. ~TickStep
  BY <1>1 DEF TickStep, BeginTick, Admit, AdmissionDone, ConsumptionDone,
              ReservePages, Preempt, Reserves, ReservationDone, Wave
<1> QED BY <1>2 DEF Next, Submit, Cancel, Close, AdmitFails, WaveFails,
                    CancelFails, ReserveFails, PreemptFails, Reserves

LEMMA NextSound ==
  ASSUME IInv, [Next]_vars
  PROVE  IInv'
<1>1. CASE phase = "closed"
  <2>1. UNCHANGED vars
    BY <1>1, ClosedRests
  <2>2. Ended
    BY <1>1 DEF IInv
  <2>3. Ended'
    BY <2>1, <2>2 DEF vars, Ended, Pending, AnchorSound
  <2> QED BY <1>1, <2>1, <2>3 DEF vars, IInv
<1>2. CASE phase # "closed"
  <2>1. Sound
    BY <1>2 DEF IInv
  <2>2. SUFFICES \/ Sound' /\ phase' # "closed"
                 \/ Ended' /\ phase' = "closed"
    BY DEF IInv
  <2>3. CASE \E q \in Question : Submit(q)
    BY <1>2, <2>1, <2>3, SubmitSound DEF Submit
  <2>4. CASE \E k \in Key : Cancel(k)
    BY <1>2, <2>1, <2>4, CancelSound DEF Cancel
  <2>5. CASE Close
    BY <2>1, <2>5, CloseEnds DEF Close
  <2>6. CASE BeginTick
    <3>1. /\ UNCHANGED <<table, anchor, asked, waiting, active, req>>
          /\ phase # "failed" /\ phase' # "closed"
      BY <2>6 DEF BeginTick
    <3> QED BY <2>1, <3>1, QuietSound
  <2>7. CASE Admit
    BY <1>2, <2>1, <2>7, AdmitSound DEF Admit
  <2>8. CASE AdmissionDone
    <3>1. /\ UNCHANGED <<table, anchor, asked, waiting, active, req>>
          /\ phase # "failed" /\ phase' # "closed"
      BY <2>8 DEF AdmissionDone
    <3> QED BY <2>1, <3>1, QuietSound
  <2>9. CASE \E k \in Key : Consume(k)
    BY <1>2, <2>1, <2>9, ConsumeSound
  <2>10. CASE ConsumptionDone
    <3>1. /\ UNCHANGED <<table, anchor, asked, waiting, active, req>>
          /\ phase # "failed" /\ phase' # "closed"
      BY <2>10 DEF ConsumptionDone
    <3> QED BY <2>1, <3>1, QuietSound
  <2>11. CASE \E k \in Key : ReservePages(k)
    BY <1>2, <2>1, <2>11, ReservePagesSound DEF ReservePages
  <2>12. CASE \E k \in Key : Preempt(k)
    BY <1>2, <2>1, <2>12, PreemptSound DEF Preempt
  <2>13. CASE ReservationDone
    <3>1. /\ UNCHANGED <<table, anchor, asked, waiting, active, req>>
          /\ phase # "failed" /\ phase' # "closed"
      BY <2>13 DEF ReservationDone
    <3> QED BY <2>1, <3>1, QuietSound
  <2>14. CASE Wave
    BY <2>1, <2>14, WaveSound DEF Wave
  <2>15. CASE AdmitFails
    BY <2>1, <2>15, AdmitFailsSound DEF AdmitFails
  <2>16. CASE WaveFails
    <3>1. /\ UNCHANGED <<table, anchor, asked, waiting, active, req>>
          /\ phase # "failed" /\ phase' # "closed"
      BY <2>16 DEF WaveFails
    <3> QED BY <2>1, <3>1, QuietSound
  <2>17. CASE \E k \in Key : CancelFails(k)
    BY <2>1, <2>17, CancelFailsSound DEF CancelFails, SeatLost
  <2>18. CASE \E k \in Key : ReserveFails(k)
    BY <2>1, <2>18, ReserveFailsSound DEF ReserveFails
  <2>19. CASE \E k \in Key : PreemptFails(k)
    BY <2>1, <2>19, PreemptFailsSound DEF PreemptFails, SeatLost
  <2>20. CASE UNCHANGED vars
    BY <1>2, <2>1, <2>20, QuietSound DEF vars
  <2> QED BY <2>3, <2>4, <2>5, <2>6, <2>7, <2>8, <2>9, <2>10, <2>11, <2>12, <2>13,
             <2>14, <2>15, <2>16, <2>17, <2>18, <2>19, <2>20 DEF Next, TickStep
<1> QED BY <1>1, <1>2

\* No sequence of submissions, ticks, cancellations, preemptions and failures
\* leaves the inductive invariant.
THEOREM InvariantHolds == Spec => []IInv
<1>1. Init => IInv
  BY InitSound
<1>2. IInv /\ [Next]_vars => IInv'
  BY NextSound
<1> QED BY <1>1, <1>2, PTL DEF Spec

\* Requests run in the order they were submitted, whatever was preempted,
\* cancelled or failed meanwhile (scheduler.py: the one queue is kept sorted).
THEOREM ServedInOrder == Spec => []FirstComeFirstServed
<1>1. IInv => FirstComeFirstServed
  <2> HAVE IInv
  <2>1. CASE phase = "closed"
    <3>1. active = {} /\ waiting = <<>>
      BY <2>1 DEF IInv, Ended
    <3>2. DOMAIN waiting = {}
      BY <3>1
    <3> QED BY <3>1, <3>2 DEF FirstComeFirstServed
  <2>2. CASE phase # "closed"
    BY <2>2 DEF IInv, Sound
  <2> QED BY <2>1, <2>2
<1> QED BY <1>1, InvariantHolds, PTL

\* The leases that are live are those of the running protocols, one seat each:
\* no order of admission, completion, cancellation and preemption leaks one.
THEOREM LeasesFollowRequests == Spec => []LeasesMatch
<1>1. IInv => LeasesMatch
  <2> HAVE IInv
  <2>1. CASE phase = "closed"
    <3>1. Running = {}
      BY <2>1 DEF IInv, Ended, Running
    <3> QED BY <2>1, <3>1 DEF LeasesMatch
  <2>2. CASE phase # "closed"
    BY <2>2 DEF IInv, Sound, Held, LeasesMatch
  <2> QED BY <2>1, <2>2
<1> QED BY <1>1, InvariantHolds, PTL

\* A seat that keeps tokens, running or hot, keeps the anchor of exactly these
\* tokens, for every model and every number of seats.
THEOREM AnchorsFollowTokens == Spec => []AnchorSound
<1>1. IInv => AnchorSound
  BY DEF IInv, Ended, Sound
<1> QED BY <1>1, InvariantHolds, PTL

\* What was streamed survives preemption: it is the output saved and the tokens
\* this protocol emitted, and the seat holds a prefix of prompt and stream.
THEOREM StreamsSurvivePreemption == Spec => []HistoryExact
<1>1. IInv => HistoryExact
  <2> HAVE IInv
  <2>1. CASE phase = "closed"
    BY <2>1 DEF IInv, Ended, HistoryExact
  <2>2. CASE phase # "closed"
    <3>1. Sound
      BY <2>2 DEF IInv
    <3>2. ASSUME NEW k \in Pending, req[k].status # "lost"
          PROVE  req[k].progress = req[k].output \o req[k].emitted
      BY <3>1, <3>2 DEF Pending, Sound, Streams, Streamed
    <3>3. ASSUME NEW k \in active
          PROVE  /\ IsPrefix(Committed(table, k), Goal(k) \o req[k].emitted)
                 /\ req[k].emitted # <<>> =>
                      Committed(table, k) = Goal(k) \o req[k].emitted
      <4>1. CASE k \in Running
        <5>1. Going(table.seats[SeatOf(k)], req[k], asked[k])
          BY <3>1, <4>1, RunningFacts
        <5> QED BY <5>1 DEF Going, Committed, Goal, PrefillPoints, DecodePoints
      <4>2. CASE k \notin Running
        <5>1. req[k].emitted = <<>> /\ Committed(table, k) = <<>>
          BY <3>1, <4>2 DEF Sound, Protocols
        <5>2. Goal(k) \in Seq(Token)
          <6>1. k \in Key /\ req[k] \in Request /\ k <= Len(asked) /\ asked \in Seq(Question)
            BY <3>1, <3>3 DEF Sound, TypeOK, Submitted
          <6>2. k \in DOMAIN asked
            BY <6>1, LenProperties DEF Key
          <6>3. asked[k].prompt \in Seq(Token) /\ req[k].output \in Seq(Token)
            BY <3>1, <6>1, <6>2 DEF Sound, TypeOK, Admissible, Request
          <6> QED BY <6>3, ConcatProperties DEF Goal
        <5>3. Goal(k) \o <<>> \in Seq(Token)
          BY <5>2, ConcatEmptySeq
        <5> QED BY <5>1, <5>3, EmptyPrefix
      <4> QED BY <4>1, <4>2
    <3> QED BY <3>2, <3>3 DEF HistoryExact
  <2> QED BY <2>1, <2>2
<1> QED BY <1>1, InvariantHolds, PTL

-----------------------------------------------------------------------------
\* Greedy continuations.

LEMMA PartOfConcat ==
  ASSUME NEW S, NEW t \in Seq(S), NEW u \in Seq(S), NEW n \in 0 .. Len(t)
  PROVE  SubSeq(t \o u, 1, n) = SubSeq(t, 1, n)
<1>1. Len(t) \in Nat
  BY LenProperties
<1>2. CASE n = 0
  BY <1>2, SubSeqEmpty
<1>3. CASE n # 0
  <2>1. 1 \in 1 .. Len(t) /\ n \in 1 .. Len(t)
    BY <1>1, <1>3
  <2> QED BY <2>1, SubSeqOfConcat1
<1> QED BY <1>2, <1>3

LEMMA PartAcross ==
  ASSUME NEW S, NEW t \in Seq(S), NEW u \in Seq(S), NEW n \in 0 .. Len(u)
  PROVE  SubSeq(t \o u, 1, Len(t) + n) = t \o SubSeq(u, 1, n)
<1> DEFINE v == t \o u
<1>1. Len(t) \in Nat /\ Len(u) \in Nat /\ v \in Seq(S) /\ Len(v) = Len(t) + Len(u)
  BY LenProperties, ConcatProperties
<1>2. SubSeq(v, 1, Len(t)) = t
  <2>1. Len(t) \in 0 .. Len(t)
    BY <1>1
  <2> QED BY <2>1, PartOfConcat, SubSeqFull
<1>3. SubSeq(v, Len(t) + 1, Len(t) + n) = SubSeq(u, 1, n)
  <2>1. CASE n = 0
    BY <1>1, <2>1, SubSeqEmpty
  <2>2. CASE n # 0
    <3>1. /\ Len(t) + 1 \in Len(t) + 1 .. Len(t) + Len(u)
          /\ Len(t) + n \in Len(t) + 1 .. Len(t) + Len(u)
      BY <1>1, <2>2
    <3>2. SubSeq(v, Len(t) + 1, Len(t) + n)
            = SubSeq(u, Len(t) + 1 - Len(t), Len(t) + n - Len(t))
      BY <3>1, SubSeqOfConcat2
    <3>3. Len(t) + 1 - Len(t) = 1 /\ Len(t) + n - Len(t) = n
      BY <1>1
    <3> HIDE DEF v
    <3> QED BY <3>2, <3>3
  <2> QED BY <2>1, <2>2
<1> HIDE DEF v
<1>4. SubSeq(v, 1, Len(t)) \o SubSeq(v, Len(t) + 1, Len(t) + n) = SubSeq(v, 1, Len(t) + n)
  <2>1. /\ 1 \in 1 .. Len(v) + 1
        /\ Len(t) \in 1 - 1 .. Len(v)
        /\ Len(t) + n \in Len(t) .. Len(v)
    BY <1>1
  <2> QED BY <1>1, <2>1, ConcatAdjacentSubSeq
<1> QED BY <1>2, <1>3, <1>4 DEF v

LEMMA PartType ==
  ASSUME NEW S, NEW t \in Seq(S), NEW n \in 0 .. Len(t)
  PROVE  /\ SubSeq(t, 1, n) \in Seq(S) /\ Len(SubSeq(t, 1, n)) = n
         /\ \A i \in 1 .. n : SubSeq(t, 1, n)[i] = t[i]
<1>1. Len(t) \in Nat /\ \A i \in 1 .. Len(t) : t[i] \in S
  BY LenProperties, ElementOfSeq
<1>2. \A i \in 1 .. n : t[i] \in S
  BY <1>1
<1>3. /\ SubSeq(t, 1, n) \in Seq(S)
      /\ Len(SubSeq(t, 1, n)) = IF 1 <= n THEN n - 1 + 1 ELSE 0
      /\ \A i \in 1 .. n - 1 + 1 : SubSeq(t, 1, n)[i] = t[1 + i - 1]
  BY <1>1, <1>2, SubSeqProperties
<1>4. n - 1 + 1 = n /\ (1 <= n \/ n = 0) /\ \A i \in 1 .. n : 1 + i - 1 = i
  BY <1>1
<1> QED BY <1>3, <1>4

LEMMA FollowsJoin ==
  ASSUME NEW s \in Seq(Token), NEW t \in Seq(Token), NEW u \in Seq(Token),
         Follows(s, t), Follows(s \o t, u)
  PROVE  Follows(s, t \o u)
<1> DEFINE v == t \o u
<1>1. /\ Len(t) \in Nat /\ Len(u) \in Nat /\ v \in Seq(Token)
      /\ Len(v) = Len(t) + Len(u)
      /\ \A i \in 1 .. Len(t) + Len(u) : v[i] = IF i <= Len(t) THEN t[i] ELSE u[i - Len(t)]
  BY LenProperties, ConcatProperties
<1>2. /\ DOMAIN v = 1 .. Len(t) + Len(u)
      /\ DOMAIN t = 1 .. Len(t) /\ DOMAIN u = 1 .. Len(u)
  BY <1>1, LenProperties
<1>3. SUFFICES ASSUME NEW i \in 1 .. Len(t) + Len(u)
               PROVE  v[i] = Greedy(s \o SubSeq(v, 1, i - 1))
  BY <1>2 DEF Follows
<1>4. CASE i <= Len(t)
  <2>1. i \in 1 .. Len(t) /\ i - 1 \in 0 .. Len(t)
    BY <1>1, <1>4
  <2>2. SubSeq(v, 1, i - 1) = SubSeq(t, 1, i - 1)
    BY <2>1, PartOfConcat
  <2> QED BY <1>1, <1>2, <1>4, <2>1, <2>2 DEF Follows
<1>5. CASE ~(i <= Len(t))
  <2> DEFINE j == i - Len(t)
  <2>1. j \in 1 .. Len(u) /\ j - 1 \in 0 .. Len(u) /\ i - 1 = Len(t) + (j - 1)
    BY <1>1, <1>5
  <2>2. v[i] = u[j]
    BY <1>1, <1>5
  <2> HIDE DEF j
  <2>3. u[j] = Greedy((s \o t) \o SubSeq(u, 1, j - 1))
    BY <1>2, <2>1 DEF Follows
  <2>4. SubSeq(u, 1, j - 1) \in Seq(Token)
    BY <2>1, PartType
  <2>5. (s \o t) \o SubSeq(u, 1, j - 1) = s \o (t \o SubSeq(u, 1, j - 1))
    BY <2>4, Associative
  <2>6. SubSeq(v, 1, i - 1) = t \o SubSeq(u, 1, j - 1)
    <3>1. SubSeq(v, 1, Len(t) + (j - 1)) = t \o SubSeq(u, 1, j - 1)
      BY <2>1, PartAcross
    <3> HIDE DEF v
    <3> QED BY <2>1, <3>1
  <2> QED BY <2>2, <2>3, <2>5, <2>6
<1> QED BY <1>4, <1>5

LEMMA FollowsNothing == \A s : Follows(s, <<>>)
BY EmptySeq DEF Follows

LEMMA FollowsPart ==
  ASSUME NEW s \in Seq(Token), NEW t \in Seq(Token), Follows(s, t), NEW n \in 0 .. Len(t)
  PROVE  Follows(s, SubSeq(t, 1, n))
<1> DEFINE p == SubSeq(t, 1, n)
<1>1. p \in Seq(Token) /\ Len(p) = n /\ \A i \in 1 .. n : p[i] = t[i]
  BY PartType
<1>2. DOMAIN p = 1 .. n /\ DOMAIN t = 1 .. Len(t) /\ Len(t) \in Nat
  BY <1>1, LenProperties
<1> HIDE DEF p
<1>3. SUFFICES ASSUME NEW i \in 1 .. n
               PROVE  p[i] = Greedy(s \o SubSeq(p, 1, i - 1))
  BY <1>2 DEF Follows, p
<1>4. i \in 1 .. Len(t) /\ i - 1 \in 0 .. n /\ i - 1 \in 0 .. Len(t)
  BY <1>2
<1>5. /\ SubSeq(p, 1, i - 1) \in Seq(Token) /\ Len(SubSeq(p, 1, i - 1)) = i - 1
      /\ \A j \in 1 .. i - 1 : SubSeq(p, 1, i - 1)[j] = p[j]
  BY <1>1, <1>4, PartType
<1>6. /\ SubSeq(t, 1, i - 1) \in Seq(Token) /\ Len(SubSeq(t, 1, i - 1)) = i - 1
      /\ \A j \in 1 .. i - 1 : SubSeq(t, 1, i - 1)[j] = t[j]
  BY <1>4, PartType
<1>7. \A j \in 1 .. i - 1 : p[j] = t[j]
  BY <1>1, <1>4
<1>8. SubSeq(p, 1, i - 1) = SubSeq(t, 1, i - 1)
  <2> DEFINE x == SubSeq(p, 1, i - 1)
             y == SubSeq(t, 1, i - 1)
  <2>1. x \in Seq(Token) /\ y \in Seq(Token) /\ Len(x) = Len(y)
        /\ \A j \in 1 .. Len(x) : x[j] = y[j]
    BY <1>5, <1>6, <1>7
  <2> HIDE DEF x, y
  <2>2. x = y
    BY <2>1, SeqEqual
  <2> QED BY <2>2 DEF x, y
<1>9. t[i] = Greedy(s \o SubSeq(t, 1, i - 1))
  BY <1>2, <1>4 DEF Follows
<1> QED BY <1>1, <1>8, <1>9

LEMMA FollowsOne ==
  ASSUME NEW s \in Seq(Token), Greedy(s) \in Token
  PROVE  Follows(s, <<Greedy(s)>>)
<1> DEFINE t == <<Greedy(s)>>
<1>1. DOMAIN t = {1} /\ t[1] = Greedy(s) /\ SubSeq(t, 1, 0) = <<>>
  BY SubSeqEmpty
<1>2. s \o <<>> = s
  BY ConcatEmptySeq
<1> HIDE DEF t
<1>3. ASSUME NEW i \in DOMAIN t PROVE t[i] = Greedy(s \o SubSeq(t, 1, i - 1))
  <2>1. i = 1 /\ i - 1 = 0
    BY <1>1
  <2>2. SubSeq(t, 1, i - 1) = <<>>
    BY <1>1, <2>1
  <2> QED BY <1>1, <1>2, <2>1, <2>2
<1> QED BY <1>3 DEF Follows, t

LEMMA FollowsNext ==
  ASSUME NEW s \in Seq(Token), NEW t \in Seq(Token), Follows(s, t), Greedy(s \o t) \in Token
  PROVE  Append(t, Greedy(s \o t)) \in Seq(Token) /\ Follows(s, Append(t, Greedy(s \o t)))
<1> DEFINE e == Greedy(s \o t)
<1>1. s \o t \in Seq(Token) /\ <<e>> \in Seq(Token)
  BY ConcatProperties
<1>2. Follows(s \o t, <<e>>)
  BY <1>1, FollowsOne
<1>3. Append(t, e) = t \o <<e>> /\ Append(t, e) \in Seq(Token)
  BY AppendIsConcat, AppendProperties
<1> QED BY <1>1, <1>2, <1>3, FollowsJoin

\* Within the context every number of tokens follows greedily, in one way.
LEMMA ContinuationExists ==
  ASSUME NEW s \in Seq(Token), Len(s) >= 1, NEW n \in Nat, Len(s) + n <= ContextTokens
  PROVE  \E t \in [1 .. n -> Token] : Follows(s, t)
<1> DEFINE G(m) == \E t \in [1 .. m -> Token] : Follows(s, t)
           T == {m \in Nat : m <= n /\ ~G(m)}
<1>1. SUFFICES ASSUME T # {} PROVE FALSE
  OBVIOUS
<1>2. T \in SUBSET Nat
  OBVIOUS
<1>3. PICK x \in T : \A y \in T : x <= y
  BY <1>1, <1>2, LeastExists
<1>4. x \in Nat /\ x <= n /\ ~G(x)
  BY <1>3
<1>5. x # 0
  <2>1. <<>> \in [1 .. 0 -> Token] /\ Follows(s, <<>>)
    BY FollowsNothing
  <2> QED BY <1>4, <2>1
<1>6. x - 1 \in Nat /\ x - 1 <= n /\ ~(x <= x - 1)
  BY <1>4, <1>5
<1>7. G(x - 1)
  BY <1>3, <1>6
<1>8. PICK t \in [1 .. x - 1 -> Token] : Follows(s, t)
  BY <1>7
<1>9. t \in Seq(Token) /\ Len(t) = x - 1
  BY <1>6, SeqDef
<1>10. /\ s \o t \in Seq(Token) /\ Len(s \o t) = Len(s) + (x - 1)
       /\ Len(s \o t) >= 1 /\ Len(s \o t) <= ContextTokens
  <2>1. Len(s) \in Nat /\ ContextTokens \in Nat
    BY LenProperties, SchedulerAssumption
  <2> QED BY <1>4, <1>6, <1>9, <2>1, ConcatProperties
<1>11. Greedy(s \o t) \in Token
  BY <1>10, GreedyToken
<1> DEFINE u == Append(t, Greedy(s \o t))
<1>12. u \in Seq(Token) /\ Follows(s, u) /\ Len(u) = x
  BY <1>4, <1>8, <1>9, <1>11, FollowsNext, AppendProperties
<1>13. u \in [1 .. x -> Token]
  BY <1>12, LenProperties
<1> QED BY <1>4, <1>12, <1>13

LEMMA FollowsUnique ==
  ASSUME NEW s, NEW t \in Seq(Token), NEW u \in Seq(Token),
         Follows(s, t), Follows(s, u), Len(t) <= Len(u)
  PROVE  \A i \in 1 .. Len(t) : t[i] = u[i]
<1> DEFINE T == {i \in 1 .. Len(t) : t[i] # u[i]}
<1>1. SUFFICES ASSUME T # {} PROVE FALSE
  OBVIOUS
<1>2. /\ Len(t) \in Nat /\ Len(u) \in Nat
      /\ DOMAIN t = 1 .. Len(t) /\ DOMAIN u = 1 .. Len(u)
  BY LenProperties
<1>3. T \in SUBSET Nat
  BY <1>2
<1>4. PICK i \in T : \A j \in T : i <= j
  BY <1>1, <1>3, LeastExists
<1>5. i \in 1 .. Len(t) /\ i \in 1 .. Len(u) /\ t[i] # u[i]
  BY <1>2
<1>6. \A j \in 1 .. i - 1 : t[j] = u[j]
  <2>1. SUFFICES ASSUME NEW j \in 1 .. i - 1, t[j] # u[j] PROVE FALSE
    OBVIOUS
  <2>2. j \in 1 .. Len(t) /\ ~(i <= j)
    BY <1>2, <1>5
  <2> QED BY <1>4, <2>1, <2>2
<1> HIDE DEF T
<1> DEFINE x == SubSeq(t, 1, i - 1)
           y == SubSeq(u, 1, i - 1)
<1>7. i - 1 \in 0 .. Len(t) /\ i - 1 \in 0 .. Len(u)
  BY <1>2, <1>5
<1>8. /\ x \in Seq(Token) /\ Len(x) = i - 1 /\ \A j \in 1 .. i - 1 : x[j] = t[j]
      /\ y \in Seq(Token) /\ Len(y) = i - 1 /\ \A j \in 1 .. i - 1 : y[j] = u[j]
  BY <1>7, PartType
<1>9. t[i] = Greedy(s \o x) /\ u[i] = Greedy(s \o y)
  BY <1>2, <1>5 DEF Follows
<1> HIDE DEF x, y
<1>10. x = y
  BY <1>6, <1>8, SeqEqual
<1> QED BY <1>5, <1>9, <1>10

LEMMA Squeezed == \A x, y \in Nat : x <= y /\ y <= x => x = y
OBVIOUS

\* What a stream that follows the prompt and has not run past a stop is of the
\* answer.
LEMMA AnswerPrefix ==
  ASSUME NEW q, Admissible(q), NEW p \in Seq(Token), Follows(q.prompt, p),
         Len(p) <= q.count, \A i \in 1 .. Len(p) - 1 : p[i] \notin q.stops
  PROVE  /\ Answer(q) \in Seq(Token)
         /\ Len(p) <= Len(Answer(q)) /\ p = SubSeq(Answer(q), 1, Len(p))
         /\ Len(p) = q.count \/ (p # <<>> /\ Last(p) \in q.stops) => p = Answer(q)
<1> DEFINE c == Continuation(q.prompt, q.count)
           ends == {i \in DOMAIN c : c[i] \in q.stops}
           a == Answer(q)
<1>1. /\ q.prompt \in Seq(Token) /\ Len(q.prompt) >= 1 /\ q.count \in Nat
      /\ Len(q.prompt) + q.count <= ContextTokens
  BY EmptySeq, LenProperties DEF Admissible
<1>2. \E t \in [1 .. q.count -> Token] : Follows(q.prompt, t)
  BY <1>1, ContinuationExists
<1>3. c \in [1 .. q.count -> Token] /\ Follows(q.prompt, c)
  BY <1>2 DEF Continuation
<1>4. a = IF ends = {} THEN c ELSE SubSeq(c, 1, Min(ends))
  BY DEF Answer, UpToStop
<1> HIDE DEF c, a
<1>5. c \in Seq(Token) /\ Len(c) = q.count /\ DOMAIN c = 1 .. q.count
  <2> DEFINE n == q.count
  <2>1. n \in Nat /\ c \in [1 .. n -> Token]
    BY <1>1, <1>3
  <2> HIDE DEF n
  <2>2. c \in Seq(Token)
    BY <2>1, SeqDef
  <2>3. Len(c) = n /\ DOMAIN c = 1 .. n
    BY <2>1, <2>2, LenProperties
  <2> QED BY <2>2, <2>3 DEF n
<1>6. Len(p) \in Nat /\ DOMAIN p = 1 .. Len(p)
  BY LenProperties
<1>7. \A i \in 1 .. Len(p) : p[i] = c[i]
  BY <1>3, <1>5, FollowsUnique
<1> DEFINE m == IF ends = {} THEN q.count ELSE Min(ends)
<1>8. m \in Nat /\ m <= q.count /\ (m = q.count \/ m \in ends)
  <2>1. CASE ends = {}
    BY <1>1, <2>1
  <2>2. CASE ends # {}
    <3>1. ends \in SUBSET Nat
      BY <1>1, <1>5
    <3>2. \E i \in ends : \A j \in ends : i <= j
      BY <2>2, <3>1, LeastExists
    <3>3. Min(ends) \in ends
      BY <3>2 DEF Min
    <3> QED BY <1>1, <1>5, <2>2, <3>3
  <2> QED BY <2>1, <2>2
<1>9. \A i \in ends : i \in 1 .. q.count /\ m <= i /\ c[i] \in q.stops
  <2>1. SUFFICES ASSUME NEW i \in ends PROVE i \in 1 .. q.count /\ m <= i /\ c[i] \in q.stops
    OBVIOUS
  <2>2. ends \in SUBSET Nat
    BY <1>1, <1>5
  <2>3. \E x \in ends : \A y \in ends : x <= y
    BY <2>2, LeastExists
  <2>4. \A y \in ends : Min(ends) <= y
    BY <2>3 DEF Min
  <2> QED BY <1>5, <2>4
<1>10. a = SubSeq(c, 1, m)
  <2>1. SubSeq(c, 1, q.count) = c
    BY <1>5, SubSeqFull
  <2> QED BY <1>4, <2>1
<1>11. \A i \in 1 .. q.count : c[i] \in q.stops => i \in ends
  BY <1>5
<1> HIDE DEF ends, m
<1>12. m \in 0 .. Len(c)
  BY <1>1, <1>5, <1>8
<1>13. a \in Seq(Token) /\ Len(a) = m /\ \A i \in 1 .. m : a[i] = c[i]
  BY <1>5, <1>10, <1>12, PartType
<1>14. Len(p) <= m
  <2>1. SUFFICES ASSUME m < Len(p) PROVE FALSE
    BY <1>6, <1>8
  <2>2. m \in ends
    BY <1>6, <1>8, <2>1
  <2>3. m \in 1 .. Len(p) - 1 /\ m \in 1 .. Len(p) /\ c[m] \in q.stops
    BY <1>6, <1>9, <2>1, <2>2
  <2> QED BY <1>7, <2>3
<1>15. p = SubSeq(a, 1, Len(p))
  <2> DEFINE x == SubSeq(a, 1, Len(p))
  <2>1. Len(p) \in 0 .. Len(a)
    BY <1>6, <1>8, <1>13, <1>14
  <2>2. x \in Seq(Token) /\ Len(x) = Len(p) /\ \A i \in 1 .. Len(p) : x[i] = a[i]
    BY <1>13, <2>1, PartType
  <2> HIDE DEF x
  <2>3. \A i \in 1 .. Len(p) : p[i] = x[i]
    BY <1>6, <1>7, <1>8, <1>13, <1>14, <2>2
  <2>4. p = x
    BY <2>2, <2>3, SeqEqual
  <2> QED BY <2>4 DEF x
<1>16. ASSUME Len(p) = q.count \/ (p # <<>> /\ Last(p) \in q.stops) PROVE p = a
  <2>1. Len(p) = m
    <3>1. CASE Len(p) = q.count
      BY <1>8, <1>14, <3>1
    <3>2. CASE p # <<>> /\ Last(p) \in q.stops
      <4>1. Len(p) \in 1 .. Len(p) /\ Len(p) \in 1 .. q.count
        BY <1>1, <1>6, <3>2, EmptySeq
      <4>2. c[Len(p)] \in q.stops
        BY <1>7, <3>2, <4>1 DEF Last
      <4>3. m <= Len(p)
        BY <1>9, <1>11, <4>1, <4>2
      <4>4. m \in Nat
        BY <1>8
      <4> QED BY <1>6, <1>14, <4>3, <4>4, Squeezed
    <3> QED BY <1>16, <3>1, <3>2
  <2> QED BY <1>13, <1>15, <2>1, SubSeqFull
<1> QED BY <1>13, <1>14, <1>15, <1>16 DEF a

-----------------------------------------------------------------------------
\* What a request has streamed.

\* Request r of question q, short of its answer: what it has streamed follows
\* the prompt, and what it is about to commit follows that.
Answering(r, q) ==
  /\ Len(r.progress) < q.count
  /\ Follows(q.prompt, r.progress)
  /\ \A i \in DOMAIN r.progress : r.progress[i] \notin q.stops
  /\ r.point = "decode_repair" =>
       /\ r.chunk # <<>>
       /\ Follows(q.prompt \o r.progress, r.chunk)
       /\ \A i \in 1 .. Len(r.chunk) - 1 : r.chunk[i] \notin q.stops

Answers ==
  \A k \in Key : req[k].status \in {"waiting", "active"} => Answering(req[k], asked[k])

LEMMA UpToStopFollows ==
  ASSUME NEW s \in Seq(Token), NEW x \in Seq(Token), x # <<>>, Follows(s, x), NEW stops
  PROVE  LET u == UpToStop(x, stops)
         IN  /\ u \in Seq(Token) /\ u # <<>> /\ Follows(s, u)
             /\ \A i \in 1 .. Len(u) - 1 : u[i] \notin stops
<1> DEFINE ends == {i \in DOMAIN x : x[i] \in stops}
           u == UpToStop(x, stops)
           m == Min(ends)
<1>1. Len(x) \in Nat \ {0} /\ DOMAIN x = 1 .. Len(x)
  BY LenProperties, EmptySeq
<1>2. u = IF ends = {} THEN x ELSE SubSeq(x, 1, m)
  BY DEF UpToStop
<1>3. CASE ends = {}
  <2>1. \A i \in 1 .. Len(x) - 1 : i \in DOMAIN x
    BY <1>1
  <2> QED BY <1>2, <1>3, <2>1
<1>4. CASE ends # {}
  <2>1. ends \in SUBSET Nat
    BY <1>1
  <2>2. \E i \in ends : \A j \in ends : i <= j
    BY <1>4, <2>1, LeastExists
  <2>3. m \in ends /\ \A j \in ends : m <= j
    BY <2>2 DEF Min
  <2>4. m \in 1 .. Len(x) /\ m \in 0 .. Len(x) /\ m # 0
    BY <1>1, <2>3
  <2>5. \A i \in 1 .. m - 1 : i \in 1 .. m /\ x[i] \notin stops
    <3>1. SUFFICES ASSUME NEW i \in 1 .. m - 1, x[i] \in stops PROVE FALSE
      BY <2>4
    <3>2. i \in DOMAIN x /\ ~(m <= i)
      BY <1>1, <2>4
    <3> QED BY <2>3, <3>1, <3>2
  <2> HIDE DEF ends, m
  <2>6. u \in Seq(Token) /\ Len(u) = m /\ \A i \in 1 .. m : u[i] = x[i]
    BY <1>2, <1>4, <2>4, PartType
  <2>7. Follows(s, u)
    <3>1. Follows(s, SubSeq(x, 1, m))
      BY <2>4, FollowsPart
    <3>2. u = SubSeq(x, 1, m)
      BY <1>2, <1>4
    <3> QED BY <3>1, <3>2
  <2>8. u # <<>>
    BY <2>4, <2>6, EmptySeq
  <2> HIDE DEF u
  <2> QED BY <2>5, <2>6, <2>7, <2>8 DEF u
<1> QED BY <1>3, <1>4

LEMMA OneMore ==
  ASSUME NEW c \in Seq(Token), NEW x \in Seq(Token), NEW i \in 1 .. Len(x)
  PROVE  c \o SubSeq(x, 1, i) = Append(c \o SubSeq(x, 1, i - 1), x[i])
<1> DEFINE y == SubSeq(x, 1, i - 1)
           z == SubSeq(x, 1, i)
           e == x[i]
<1>1. Len(x) \in Nat /\ e \in Token /\ i \in 0 .. Len(x) /\ i - 1 \in 0 .. Len(x)
  BY LenProperties, ElementOfSeq
<1>2. /\ y \in Seq(Token) /\ Len(y) = i - 1 /\ \A j \in 1 .. i - 1 : y[j] = x[j]
      /\ z \in Seq(Token) /\ Len(z) = i /\ \A j \in 1 .. i : z[j] = x[j]
  BY <1>1, PartType
<1>3. \A j \in 1 .. i : j = i \/ j \in 1 .. i - 1
  OBVIOUS
<1>4. z[i] = e /\ i - 1 + 1 = i
  BY <1>2
<1> HIDE DEF y, z, e
<1>5. /\ Append(y, e) \in Seq(Token) /\ Len(Append(y, e)) = i - 1 + 1
      /\ \A j \in 1 .. i - 1 : Append(y, e)[j] = y[j]
      /\ Append(y, e)[i - 1 + 1] = e
  BY <1>1, <1>2, AppendProperties
<1>6. \A j \in 1 .. i : z[j] = Append(y, e)[j]
  BY <1>2, <1>3, <1>4, <1>5
<1>7. z = Append(y, e)
  BY <1>2, <1>4, <1>5, <1>6, SeqEqual
<1>8. <<e>> \in Seq(Token) /\ Append(y, e) = y \o <<e>>
  BY <1>1, <1>2, AppendIsConcat
<1>9. c \o (y \o <<e>>) = (c \o y) \o <<e>>
  BY <1>2, <1>8, Associative
<1>10. c \o y \in Seq(Token)
  BY <1>2, ConcatProperties
<1>11. Append(c \o y, e) = (c \o y) \o <<e>>
  BY <1>1, <1>10, AppendIsConcat
<1> QED BY <1>7, <1>8, <1>9, <1>11 DEF y, z, e

LEMMA ThreeFollow ==
  ASSUME NEW c \in Seq(Token), NEW n \in 1 .. 3, NEW p,
         p[1] = Greedy(c), p[2] = Greedy(Append(c, p[1])),
         p[3] = Greedy(Append(Append(c, p[1]), p[2])),
         \A i \in 1 .. n : p[i] \in Token
  PROVE  /\ SubSeq(p, 1, n) \in Seq(Token) /\ Len(SubSeq(p, 1, n)) = n
         /\ Follows(c, SubSeq(p, 1, n))
<1> DEFINE x == SubSeq(p, 1, n)
<1>1. /\ x \in Seq(Token) /\ Len(x) = n /\ \A i \in 1 .. n : x[i] = p[i]
  <2>1. /\ x \in Seq(Token) /\ Len(x) = IF 1 <= n THEN n - 1 + 1 ELSE 0
        /\ \A i \in 1 .. n - 1 + 1 : x[i] = p[1 + i - 1]
    BY SubSeqProperties
  <2>2. 1 <= n /\ n - 1 + 1 = n /\ \A i \in 1 .. n : 1 + i - 1 = i
    OBVIOUS
  <2> HIDE DEF x
  <2> QED BY <2>1, <2>2
<1> HIDE DEF x
<1>2. DOMAIN x = 1 .. n
  BY <1>1, LenProperties
<1>3. c \o SubSeq(x, 1, 0) = c
  BY SubSeqEmpty, ConcatEmptySeq
<1>4. ASSUME NEW i \in 1 .. n
      PROVE  c \o SubSeq(x, 1, i) = Append(c \o SubSeq(x, 1, i - 1), p[i])
  BY <1>1, OneMore
<1>5. x[1] = Greedy(c \o SubSeq(x, 1, 0))
  <2>1. 1 \in 1 .. n
    OBVIOUS
  <2> QED BY <1>1, <1>3, <2>1
<1>6. c \o SubSeq(x, 1, 1) = Append(c, p[1])
  <2>1. 1 \in 1 .. n /\ 1 - 1 = 0
    OBVIOUS
  <2> QED BY <1>3, <1>4, <2>1
<1>7. n >= 2 => c \o SubSeq(x, 1, 2) = Append(Append(c, p[1]), p[2])
  <2>1. n >= 2 => 2 \in 1 .. n
    OBVIOUS
  <2>2. 2 - 1 = 1
    OBVIOUS
  <2> QED BY <1>4, <1>6, <2>1, <2>2
<1>8. ASSUME NEW i \in 1 .. n PROVE x[i] = Greedy(c \o SubSeq(x, 1, i - 1))
  <2>1. CASE i = 1
    <3>1. i - 1 = 0
      BY <2>1
    <3> QED BY <1>5, <2>1, <3>1
  <2>2. CASE i = 2
    <3>1. i - 1 = 1
      BY <2>2
    <3> QED BY <1>1, <1>6, <2>2, <3>1
  <2>3. CASE i = 3
    <3>1. i - 1 = 2 /\ n >= 2
      BY <2>3
    <3> QED BY <1>1, <1>7, <2>3, <3>1
  <2>4. i = 1 \/ i = 2 \/ i = 3
    OBVIOUS
  <2> QED BY <2>1, <2>2, <2>3, <2>4
<1>9. Follows(c, x)
  BY <1>2, <1>8 DEF Follows
<1> QED BY <1>1, <1>9 DEF x

\* The seat of a protocol that decodes holds the prompt and what was streamed.
LEMMA CommittedStreamed ==
  ASSUME Sound, NEW k \in Running, Committed(table, k) = Goal(k) \o req[k].emitted
  PROVE  Committed(table, k) = asked[k].prompt \o req[k].progress
<1>1. /\ asked[k].prompt \in Seq(Token) /\ req[k].output \in Seq(Token)
      /\ req[k].emitted \in Seq(Token)
      /\ req[k].progress = req[k].output \o req[k].emitted
  BY RunningFacts DEF Admissible, Request, Streamed
<1>2. (asked[k].prompt \o req[k].output) \o req[k].emitted
        = asked[k].prompt \o (req[k].output \o req[k].emitted)
  BY <1>1, Associative
<1> QED BY <1>1, <1>2 DEF Goal

\* What the target accepts follows what was streamed.
LEMMA AcceptedFollows ==
  ASSUME Sound, NEW k \in Running, req[k].point \in DecodePoints,
         NEW n \in 1 .. req[k].width
  PROVE  LET a == Accepted(k, n)
         IN  /\ a \in Seq(Token) /\ a # <<>> /\ Len(a) <= n
             /\ Follows(asked[k].prompt \o req[k].progress, a)
             /\ \A i \in 1 .. Len(a) - 1 : a[i] \notin asked[k].stops
<1> DEFINE c      == Committed(table, k)
           a      == anchor[SeatOf(k)]
           first  == Append(c, a)
           second == Append(first, Greedy(first))
           p      == Predicted(k)
           x      == SubSeq(p, 1, n)
<1>1. /\ c \in Seq(Token) /\ Len(c) >= 1
      /\ c = Goal(k) \o req[k].emitted
      /\ a = Greedy(c) /\ a \in Token
      /\ req[k].width \in 1 .. 3 /\ Len(c) + req[k].width <= ContextTokens
  BY DecodeRoom
<1>2. Len(c) \in Nat /\ ContextTokens \in Nat
  BY <1>1, LenProperties, SchedulerAssumption
<1>3. n \in 1 .. 3 /\ Len(c) + n <= ContextTokens
  <2> DEFINE w == req[k].width
             m == Len(c)
  <2>1. m \in Nat /\ w \in 1 .. 3 /\ n \in 1 .. w /\ m + w <= ContextTokens
        /\ ContextTokens \in Nat
    BY <1>1, <1>2
  <2> HIDE DEF w, m
  <2>2. n \in 1 .. 3 /\ m + n <= ContextTokens
    BY <2>1
  <2> QED BY <2>2 DEF m
<1>4. p[1] = a /\ p[2] = Greedy(first) /\ p[3] = Greedy(second)
  BY DEF Predicted
<1>5. second = Append(first, p[2])
  BY <1>4
<1> HIDE DEF p
<1>6. first \in Seq(Token) /\ Len(first) = Len(c) + 1
  <2> HIDE DEF c, a
  <2> QED BY <1>1, AppendProperties
<1>7. ASSUME n >= 2 PROVE p[2] \in Token
  <2> HIDE DEF first, c, a
  <2>1. Len(first) >= 1 /\ Len(first) <= ContextTokens
    BY <1>2, <1>3, <1>6, <1>7
  <2> QED BY <1>4, <1>6, <2>1, GreedyToken
<1>8. n = 3 => second \in Seq(Token) /\ Len(second) = Len(c) + 2
  <2> HIDE DEF first
  <2> QED BY <1>2, <1>4, <1>6, <1>7, AppendProperties
<1>9. ASSUME n = 3 PROVE p[3] \in Token
  <2> HIDE DEF second, first, c, a
  <2>1. second \in Seq(Token) /\ Len(second) >= 1 /\ Len(second) <= ContextTokens
    BY <1>2, <1>3, <1>8, <1>9
  <2> QED BY <1>4, <2>1, GreedyToken
<1>10. /\ p[1] = Greedy(c) /\ p[2] = Greedy(Append(c, p[1]))
       /\ p[3] = Greedy(Append(Append(c, p[1]), p[2]))
  BY <1>1, <1>4, <1>5
<1> HIDE DEF second, first, c, a, x
<1>11. \A i \in 1 .. n : p[i] \in Token
  BY <1>1, <1>3, <1>4, <1>7, <1>9
<1>12. x \in Seq(Token) /\ Len(x) = n /\ Follows(c, x)
  BY <1>1, <1>3, <1>10, <1>11, ThreeFollow DEF x
<1>13. x # <<>>
  BY <1>3, <1>12, EmptySeq
<1> DEFINE u == UpToStop(x, asked[k].stops)
<1>14. /\ u \in Seq(Token) /\ u # <<>> /\ Follows(c, u)
       /\ \A i \in 1 .. Len(u) - 1 : u[i] \notin asked[k].stops
  BY <1>1, <1>12, <1>13, UpToStopFollows
<1>15. Len(u) <= n
  BY <1>12, UpToStopPart
<1>16. Accepted(k, n) = u
  BY DEF Accepted, x, p
<1>17. c = asked[k].prompt \o req[k].progress
  BY <1>1, CommittedStreamed DEF c
<1> QED BY <1>14, <1>15, <1>16, <1>17

-----------------------------------------------------------------------------
\* A stream grows.

LEMMA StreamGrows ==
  ASSUME NEW q, Admissible(q), NEW p \in Seq(Token), Follows(q.prompt, p),
         \A i \in DOMAIN p : p[i] \notin q.stops,
         NEW c \in Seq(Token), c # <<>>, Follows(q.prompt \o p, c),
         \A i \in 1 .. Len(c) - 1 : c[i] \notin q.stops
  PROVE  LET z == p \o c
         IN  /\ z \in Seq(Token) /\ z # <<>> /\ Len(z) = Len(p) + Len(c)
             /\ Follows(q.prompt, z) /\ Last(z) = Last(c)
             /\ \A i \in 1 .. Len(z) - 1 : z[i] \notin q.stops
<1> DEFINE z == p \o c
<1>1. /\ Len(p) \in Nat /\ Len(c) \in Nat \ {0}
      /\ DOMAIN p = 1 .. Len(p) /\ q.prompt \in Seq(Token)
  BY LenProperties, EmptySeq DEF Admissible
<1>2. Follows(q.prompt, z)
  BY <1>1, FollowsJoin
<1>3. /\ z \in Seq(Token) /\ Len(z) = Len(p) + Len(c)
      /\ \A i \in 1 .. Len(p) + Len(c) :
           z[i] = IF i <= Len(p) THEN p[i] ELSE c[i - Len(p)]
  BY ConcatProperties
<1> HIDE DEF z
<1>4. z # <<>>
  BY <1>1, <1>3, EmptySeq
<1>5. Last(z) = Last(c)
  <2>1. Len(z) \in 1 .. Len(p) + Len(c) /\ ~(Len(z) <= Len(p)) /\ Len(z) - Len(p) = Len(c)
    BY <1>1, <1>3
  <2>2. z[Len(z)] = c[Len(c)]
    BY <1>3, <2>1
  <2> QED BY <2>2 DEF Last
<1>6. ASSUME NEW i \in 1 .. Len(z) - 1 PROVE z[i] \notin q.stops
  <2>1. i \in 1 .. Len(p) + Len(c)
    BY <1>1, <1>3
  <2>2. CASE i <= Len(p)
    <3>1. i \in DOMAIN p /\ z[i] = p[i]
      BY <1>1, <1>3, <2>1, <2>2
    <3> QED BY <3>1
  <2>3. CASE ~(i <= Len(p))
    <3>1. i - Len(p) \in 1 .. Len(c) - 1 /\ z[i] = c[i - Len(p)]
      BY <1>1, <1>3, <2>1, <2>3
    <3> QED BY <3>1
  <2> QED BY <2>2, <2>3
<1> QED BY <1>2, <1>3, <1>4, <1>5, <1>6 DEF z

\* Where a protocol goes on, and where it returns.
LEMMA ResumedEnds ==
  ASSUME NEW t, NEW k, NEW r \in Request,
         Len(Goal(k)) \in Nat, Len(t.seats[r.lease.seat].tokens) \in Nat
  PROVE  LET n == Resumed(t, k, r)
             stopped == r.emitted # <<>> /\ Last(r.emitted) \in asked[k].stops
         IN  /\ Quota(k) - Len(r.emitted) > 0 /\ ~stopped => n.point # "none"
             /\ n.point = "none" => ~(Quota(k) - Len(r.emitted) > 0) \/ stopped
BY DEF Resumed, Request

\* A step that gives request k the state r.
LEMMA OneAnswers ==
  ASSUME Sound, Answers, NEW k \in Key, NEW r, req' = [req EXCEPT ![k] = r],
         asked' = asked,
         r.status \in {"waiting", "active"} => Answering(r, asked[k])
  PROVE  /\ Answers'
         /\ ServiceStatus' = [ServiceStatus EXCEPT ![k] =
              IF r.status \in {"waiting", "active", "lost"} THEN "pending" ELSE r.status]
         /\ [j \in Key |-> req'[j].progress]
              = [[j \in Key |-> req[j].progress] EXCEPT ![k] = r.progress]
<1>1. req = [j \in Key |-> req[j]]
  BY DEF Sound, TypeOK
<1>2. req' = [j \in Key |-> IF j = k THEN r ELSE req[j]]
  BY <1>1
<1>3. Answers'
  BY <1>2 DEF Answers
<1>4. ServiceStatus' = [ServiceStatus EXCEPT ![k] =
         IF r.status \in {"waiting", "active", "lost"} THEN "pending" ELSE r.status]
  BY <1>2 DEF ServiceStatus
<1> QED BY <1>2, <1>3, <1>4

\* A step that the service takes or does not see.
Serves == Answers' /\ [Service!Next]_(Service!vars)

\* A step that shows the client of k nothing.
LEMMA OneServes ==
  ASSUME Sound, Answers, NEW k \in Pending, NEW r, req' = [req EXCEPT ![k] = r],
         asked' = asked,
         r.status \in {"waiting", "active", "lost"}, r.progress = req[k].progress,
         r.status \in {"waiting", "active"} => Answering(r, asked[k])
  PROVE  Serves
<1>1. k \in Key /\ req[k].status \in {"waiting", "active", "lost"}
  BY DEF Pending
<1>2. /\ Answers'
      /\ ServiceStatus' = [ServiceStatus EXCEPT ![k] = "pending"]
      /\ [j \in Key |-> req'[j].progress]
           = [[j \in Key |-> req[j].progress] EXCEPT ![k] = r.progress]
  BY <1>1, OneAnswers
<1>3. ServiceStatus' = ServiceStatus
  BY <1>1, <1>2 DEF ServiceStatus
<1>4. [j \in Key |-> req'[j].progress] = [j \in Key |-> req[j].progress]
  BY <1>1, <1>2
<1> QED BY <1>2, <1>3, <1>4 DEF Serves, Service!vars

LEMMA Longer == \A x \in Nat, y \in Nat \ {0} : x < x + y
OBVIOUS

\* A step that commits what it emits: the client of k sees more of the answer,
\* or all of it.
LEMMA EmittedServes ==
  ASSUME Sound, Answers, NEW k \in Running, NEW c \in Seq(Token), c # <<>>,
         CommitChunk(k, c, c),
         Committed(table, k) = Goal(k) \o req[k].emitted,
         Len(req[k].output) + Len(req[k].emitted) + Len(c) <= asked[k].count,
         Follows(asked[k].prompt \o req[k].progress, c),
         \A i \in 1 .. Len(c) - 1 : c[i] \notin asked[k].stops
  PROVE  Serves
<1> DEFINE q == asked[k]
           p == req[k].progress
           z == p \o c
           e == req[k].emitted \o c
           t == Commit(table, req[k].lease, c)
           m == [req[k] EXCEPT !.emitted = @ \o c, !.progress = @ \o c]
           r == Resumed(t, k, m)
<1>1. /\ k \in Key /\ req[k] \in Request /\ req[k].status = "active"
      /\ req[k].lease \in Lease /\ SeatOf(k) = req[k].lease.seat
      /\ req[k].lease.seat \notin Idle(table)
      /\ table.seats[SeatOf(k)] \in Resident /\ Admissible(q)
      /\ Streamed(req[k], q)
  BY RunningFacts DEF SeatOf
<1>2. Answering(req[k], q)
  BY <1>1 DEF Answers
<1>3. /\ p \in Seq(Token) /\ req[k].output \in Seq(Token) /\ req[k].emitted \in Seq(Token)
      /\ q.prompt \in Seq(Token) /\ q.count \in Nat
      /\ p = req[k].output \o req[k].emitted
  BY <1>1 DEF Request, Admissible, Streamed
<1>4. /\ Len(req[k].output) \in Nat /\ Len(req[k].emitted) \in Nat
      /\ Len(c) \in Nat \ {0} /\ Len(p) = Len(req[k].output) + Len(req[k].emitted)
  BY <1>3, ConcatProperties, LenProperties, EmptySeq
<1>5. /\ z \in Seq(Token) /\ z # <<>> /\ Len(z) = Len(p) + Len(c)
      /\ Follows(q.prompt, z) /\ Last(z) = Last(c)
      /\ \A i \in 1 .. Len(z) - 1 : z[i] \notin q.stops
  <2> HIDE DEF q, p
  <2> QED BY <1>1, <1>2, <1>3, StreamGrows DEF Answering, q, p
<1>6. /\ e \in Seq(Token) /\ e # <<>> /\ Len(e) = Len(req[k].emitted) + Len(c)
      /\ Last(e) = Last(c)
  <2> DEFINE x == req[k].emitted
  <2>1. x \in Seq(Token) /\ Len(x) \in Nat
    BY <1>3, <1>4
  <2> HIDE DEF x
  <2>2. /\ x \o c \in Seq(Token) /\ Len(x \o c) = Len(x) + Len(c)
        /\ \A i \in 1 .. Len(x) + Len(c) :
             (x \o c)[i] = IF i <= Len(x) THEN x[i] ELSE c[i - Len(x)]
    BY <2>1, ConcatProperties
  <2>3. Len(x) + Len(c) \in 1 .. Len(x) + Len(c) /\ ~(Len(x) + Len(c) <= Len(x))
        /\ Len(x) + Len(c) - Len(x) = Len(c)
    BY <1>4, <2>1
  <2>4. Last(x \o c) = Last(c)
    BY <2>2, <2>3 DEF Last
  <2>5. x \o c # <<>>
    BY <1>4, <2>1, <2>2, EmptySeq
  <2> QED BY <2>2, <2>4, <2>5 DEF x
<1>7. Len(z) <= q.count
  <2> DEFINE x == Len(req[k].output)
             y == Len(req[k].emitted)
             w == Len(c)
             v == q.count
  <2>1. x \in Nat /\ y \in Nat /\ w \in Nat /\ v \in Nat /\ x + y + w <= v
        /\ Len(z) = x + y + w
    <3> HIDE DEF z
    <3> QED BY <1>3, <1>4, <1>5
  <2> HIDE DEF x, y, w, v, z
  <2>2. Len(z) <= v
    BY <2>1
  <2> QED BY <2>2 DEF v
<1>8. /\ m \in Request /\ m.status = "active" /\ m.output = req[k].output
      /\ m.lease = req[k].lease /\ m.emitted = e /\ m.progress = z
  <2> HIDE DEF z, e
  <2>1. m = [req[k] EXCEPT !.emitted = e, !.progress = z]
    BY DEF z, e
  <2> HIDE DEF m
  <2> QED BY <1>1, <1>5, <1>6, <2>1 DEF Request
<1>9. Proceed(t, k, r)
  BY DEF CommitChunk
<1>10. /\ r.status = "active" /\ r.progress = z
       /\ r.point \in {"none", "decode_pages"}
       /\ r.point = "none" <=> Len(z) >= q.count \/ Last(z) \in q.stops
  <2> DEFINE o    == req[k].output
             g    == Goal(k)
             left == Quota(k) - Len(m.emitted)
             stop == m.emitted # <<>> /\ Last(m.emitted) \in q.stops
             n    == Len(t.seats[m.lease.seat].tokens)
  <2>1. g \in Seq(Token) /\ Len(g) \in Nat
    <3>1. g \in Seq(Token)
      BY <1>3, ConcatProperties DEF Goal
    <3> QED BY <3>1, LenProperties
  <2>2. n = Len(g) + Len(req[k].emitted) + Len(c) /\ n \in Nat /\ ~(n < Len(g))
    <3>1. t.seats[m.lease.seat].tokens = Committed(table, k) \o c
      <4>1. table \in Table
        BY DEF Sound, TypeOK, TableOK
      <4>2. t.seats[req[k].lease.seat].tokens = table.seats[req[k].lease.seat].tokens \o c
        BY <1>1, <4>1, CommitFields
      <4> HIDE DEF t, m
      <4> QED BY <1>1, <1>8, <4>2 DEF Committed
    <3>2. Committed(table, k) \in Seq(Token)
      BY <1>1 DEF Committed, Resident
    <3>3. Len(Committed(table, k)) = Len(g) + Len(req[k].emitted)
      <4> HIDE DEF g
      <4> QED BY <1>3, <2>1, ConcatProperties DEF g
    <3>4. n = Len(Committed(table, k)) + Len(c)
      <4> HIDE DEF t, m
      <4> QED BY <3>1, <3>2, ConcatProperties
    <3> DEFINE x == Len(g)
               y == Len(req[k].emitted)
               w == Len(c)
               v == Len(Committed(table, k))
    <3>5. x \in Nat /\ y \in Nat /\ w \in Nat /\ v = x + y /\ n = v + w
      BY <1>4, <2>1, <3>3, <3>4
    <3> HIDE DEF x, y, w, v, n
    <3>6. n = x + y + w /\ n \in Nat /\ ~(n < x)
      BY <3>5
    <3> QED BY <3>6 DEF x, y, w
  <2>3. left = q.count - Len(o) - Len(m.emitted) /\ Len(m.emitted) = Len(req[k].emitted) + Len(c)
    <3>1. Len(m.emitted) = Len(req[k].emitted) + Len(c)
      <4> HIDE DEF m, e
      <4> QED BY <1>6, <1>8
    <3> HIDE DEF m
    <3> QED BY <3>1 DEF Quota
  <2>4. left > 0 <=> Len(z) < q.count
    <3> DEFINE x == Len(o)
               y == Len(req[k].emitted)
               w == Len(c)
               v == q.count
    <3>1. x \in Nat /\ y \in Nat /\ w \in Nat /\ v \in Nat
          /\ Len(z) = x + y + w /\ left = v - x - (y + w)
      <4>1. left = v - x - (y + w)
        <5> HIDE DEF left, m
        <5> QED BY <2>3
      <4> HIDE DEF z, left
      <4> QED BY <1>3, <1>4, <1>5, <4>1
    <3> HIDE DEF x, y, w, v, z, left
    <3>2. left > 0 <=> Len(z) < v
      BY <3>1
    <3> QED BY <3>2 DEF v
  <2>5. stop <=> Last(z) \in q.stops
    <3> HIDE DEF m, e, z
    <3> QED BY <1>5, <1>6, <1>8
  <2>6. r = IF left > 0 /\ ~stop
            THEN [m EXCEPT !.point = "decode_pages", !.chunk = <<>>, !.age = 0,
                           !.width = IF left >= 3 THEN 3 ELSE 1]
            ELSE [m EXCEPT !.point = "none"]
    <3> HIDE DEF m, t
    <3> QED BY <2>2 DEF Resumed
  <2>7. Len(z) \in Nat /\ q.count \in Nat
    <3> HIDE DEF z
    <3> QED BY <1>3, <1>5, LenProperties
  <2> HIDE DEF m, t, r, z, left, stop
  <2>8. r.status = "active" /\ r.progress = z
        /\ r.point = IF left > 0 /\ ~stop THEN "decode_pages" ELSE "none"
    BY <1>8, <2>6 DEF Request
  <2> QED BY <2>4, <2>5, <2>7, <2>8
<1>11. /\ Answer(q) \in Seq(Token)
       /\ Len(z) <= Len(Answer(q)) /\ z = SubSeq(Answer(q), 1, Len(z))
       /\ Len(z) = q.count \/ Last(z) \in q.stops => z = Answer(q)
  <2> HIDE DEF z
  <2> QED BY <1>1, <1>5, <1>7, AnswerPrefix
<1>12. Len(z) \in Nat /\ Len(p) \in Nat /\ Len(p) < Len(z) /\ DOMAIN z = 1 .. Len(z)
       /\ Len(Answer(q)) \in Nat
  <2>1. Len(p) \in Nat
    BY <1>3, LenProperties
  <2> HIDE DEF z, p, q
  <2>2. Len(z) \in Nat /\ DOMAIN z = 1 .. Len(z) /\ Len(Answer(q)) \in Nat
    BY <1>5, <1>11, LenProperties
  <2>3. Len(p) < Len(z)
    BY <1>4, <1>5, <2>1, Longer
  <2> QED BY <2>1, <2>2, <2>3
<1>13. asked' = asked
  BY <1>9 DEF Proceed
<1> HIDE DEF m, t, r, z, e
<1>14. CASE r.point = "none"
  <2>1. req' = [req EXCEPT ![k] = Completed(r)]
    BY <1>9, <1>14 DEF Proceed
  <2>2. Completed(r).status = "done" /\ Completed(r).progress = z
    BY <1>10 DEF Completed, Fresh
  <2>3. z = Answer(q)
    BY <1>3, <1>7, <1>10, <1>11, <1>12, <1>14
  <2>4. /\ Answers'
        /\ ServiceStatus' = [ServiceStatus EXCEPT ![k] = "done"]
        /\ [j \in Key |-> req'[j].progress]
             = [[j \in Key |-> req[j].progress] EXCEPT ![k] = z]
    <3> DEFINE d == Completed(r)
    <3>1. /\ req' = [req EXCEPT ![k] = d] /\ d.status = "done" /\ d.progress = z
          /\ d.status \notin {"waiting", "active", "lost"}
      BY <2>1, <2>2
    <3> HIDE DEF d
    <3>2. /\ Answers'
          /\ ServiceStatus' = [ServiceStatus EXCEPT ![k] =
               IF d.status \in {"waiting", "active", "lost"} THEN "pending" ELSE d.status]
          /\ [j \in Key |-> req'[j].progress]
               = [[j \in Key |-> req[j].progress] EXCEPT ![k] = d.progress]
      BY <1>1, <1>13, <3>1, OneAnswers
    <3> QED BY <3>1, <3>2
  <2>5. ServiceStatus[k] = "pending"
    BY <1>1 DEF ServiceStatus
  <2>6. Service!Complete(k)
    BY <1>13, <2>3, <2>4, <2>5 DEF Service!Complete
  <2> QED BY <1>1, <2>4, <2>6 DEF Serves, Service!Next
<1>15. CASE r.point # "none"
  <2>1. req' = [req EXCEPT ![k] = r]
    BY <1>9, <1>15 DEF Proceed
  <2>2. Len(z) < q.count /\ Last(z) \notin q.stops
    BY <1>3, <1>10, <1>12, <1>15
  <2>3. ASSUME NEW i \in DOMAIN z PROVE z[i] \notin q.stops
    <3>1. i \in 1 .. Len(z) - 1 \/ i = Len(z)
      BY <1>12
    <3> QED BY <1>5, <2>2, <3>1 DEF Last
  <2>4. Answering(r, q)
    BY <1>5, <1>10, <1>15, <2>2, <2>3 DEF Answering
  <2>5. /\ Answers'
        /\ ServiceStatus' = [ServiceStatus EXCEPT ![k] = "pending"]
        /\ [j \in Key |-> req'[j].progress]
             = [[j \in Key |-> req[j].progress] EXCEPT ![k] = z]
    BY <1>1, <1>10, <1>13, <2>1, <2>4, OneAnswers
  <2>6. ServiceStatus[k] = "pending" /\ ServiceStatus' = ServiceStatus
    BY <1>1, <2>5 DEF ServiceStatus
  <2>7. Len(z) \in Len(p) + 1 .. Len(Answer(q))
    BY <1>11, <1>12
  <2>8. Service!Extend(k)
    BY <1>1, <1>11, <1>13, <2>5, <2>6, <2>7 DEF Service!Extend
  <2> QED BY <1>1, <2>5, <2>8 DEF Serves, Service!Next
<1> QED BY <1>14, <1>15

-----------------------------------------------------------------------------
\* The steps of the service.

LEMMA PendingRuns ==
  ASSUME Sound, NEW k \in Running
  PROVE  k \in Pending
BY RunningFacts DEF Pending

\* The protocol of k goes on and emits nothing.
LEMMA ProceedServes ==
  ASSUME Sound, Answers, NEW k \in Running, NEW t, NEW r, Proceed(t, k, r),
         r.point # "none", r.status = "active", r.progress = req[k].progress,
         r.point = "decode_repair" =>
           /\ r.chunk # <<>> /\ Follows(asked[k].prompt \o r.progress, r.chunk)
           /\ \A i \in 1 .. Len(r.chunk) - 1 : r.chunk[i] \notin asked[k].stops
  PROVE  Serves
<1>1. k \in Key /\ req[k].status = "active" /\ k \in Pending
  BY RunningFacts, PendingRuns
<1>2. req' = [req EXCEPT ![k] = r] /\ asked' = asked
  BY DEF Proceed
<1>3. Answering(r, asked[k])
  BY <1>1 DEF Answers, Answering
<1> QED BY <1>1, <1>2, <1>3, OneServes

\* A protocol that has emitted nothing goes on.
LEMMA ResumedLives ==
  ASSUME Sound, Answers, NEW k \in Running, NEW t, NEW r \in Request,
         r.output = req[k].output, r.progress = req[k].progress,
         req[k].emitted = <<>>, r.emitted = <<>>, r.status = "active",
         Len(t.seats[r.lease.seat].tokens) \in Nat
  PROVE  LET n == Resumed(t, k, r)
         IN  /\ n.point \in {"prefill_pages", "decode_pages"}
             /\ n.status = "active" /\ n.progress = req[k].progress
<1> DEFINE n == Resumed(t, k, r)
<1>1. /\ k \in Key /\ req[k] \in Request /\ req[k].status = "active"
      /\ Admissible(asked[k]) /\ Streamed(req[k], asked[k])
  BY RunningFacts
<1>2. /\ req[k].output \in Seq(Token) /\ asked[k].prompt \in Seq(Token)
      /\ asked[k].count \in Nat
  BY <1>1 DEF Request, Admissible
<1>3. Goal(k) \in Seq(Token)
  BY <1>2, ConcatProperties DEF Goal
<1>4. Len(req[k].output) < asked[k].count
  <2>1. req[k].progress = req[k].output
    BY <1>1, <1>2, ConcatEmptySeq DEF Streamed
  <2>2. Answering(req[k], asked[k])
    BY <1>1 DEF Answers
  <2> QED BY <2>1, <2>2 DEF Answering
<1>5. Quota(k) - Len(r.emitted) > 0
  <2>1. Len(req[k].output) \in Nat /\ Len(r.emitted) = 0
    BY <1>2, LenProperties, EmptySeq
  <2> QED BY <1>2, <1>4, <2>1 DEF Quota
<1>6. n.point # "none"
  <2>1. Len(Goal(k)) \in Nat
    BY <1>3, LenProperties
  <2> QED BY <1>5, <2>1, ResumedEnds
<1>7. /\ n.point \in {"prefill_pages", "decode_pages", "none"}
      /\ n.status = "active" /\ n.progress = req[k].progress
  BY DEF Resumed, Request
<1> QED BY <1>6, <1>7

LEMMA StartServes ==
  ASSUME Sound, Answers, NEW k, Start(k)
  PROVE  Serves
<1> DEFINE n == Resumed(table, k, req[k])
<1>1. k \in Running /\ req[k].point = "start" /\ Proceed(table, k, n)
  BY ConsumedRuns DEF Start
<1>2. /\ req[k] \in Request /\ req[k].status = "active"
      /\ table.seats[SeatOf(k)] \in Resident
      /\ Going(table.seats[SeatOf(k)], req[k], asked[k])
  BY <1>1, RunningFacts
<1>3. req[k].emitted = <<>>
  BY <1>1, <1>2 DEF Going
<1>4. Len(table.seats[req[k].lease.seat].tokens) \in Nat
  BY <1>2, LenProperties DEF SeatOf, Resident
<1>5. /\ n.point \in {"prefill_pages", "decode_pages"}
      /\ n.status = "active" /\ n.progress = req[k].progress
  BY <1>1, <1>2, <1>3, <1>4, ResumedLives
<1> HIDE DEF n
<1> QED BY <1>1, <1>5, ProceedServes

LEMMA FollowServes ==
  ASSUME Sound, Answers, NEW k, Follow(k)
  PROVE  Serves
<1> DEFINE n == [req[k] EXCEPT !.point = FollowingPoint(req[k]), !.age = 0]
<1>1. /\ k \in Running
      /\ req[k].point \in {"prefill_draft", "prefill_target", "decode_draft", "decode_propose"}
      /\ Proceed(table, k, n)
  BY ConsumedRuns DEF Follow
<1>2. req[k] \in Request /\ req[k].status = "active"
  BY <1>1, RunningFacts
<1>3. FollowingPoint(req[k])
        \in {"prefill_target", "prefill_shift", "decode_propose", "decode_verify"}
  BY <1>1 DEF FollowingPoint
<1>4. n.point = FollowingPoint(req[k]) /\ n.status = "active" /\ n.progress = req[k].progress
  BY <1>2 DEF Request
<1> HIDE DEF n
<1> QED BY <1>1, <1>3, <1>4, ProceedServes

LEMMA CommitPrefillServes ==
  ASSUME Sound, Answers, NEW k, CommitPrefill(k)
  PROVE  Serves
<1> DEFINE c == Committed(table, k)
           chunk == SubSeq(Goal(k), Len(c) + 1, Len(c) + req[k].width)
           t == Commit(table, req[k].lease, chunk)
           m == [req[k] EXCEPT !.emitted = @ \o <<>>, !.progress = @ \o <<>>]
           n == Resumed(t, k, m)
<1>1. /\ k \in Running /\ req[k].point \in PrefillPoints
      /\ CommitChunk(k, chunk, <<>>)
  BY ConsumedRuns DEF CommitPrefill, PrefillPoints
<1>2. /\ req[k] \in Request /\ req[k].status = "active" /\ req[k].lease \in Lease
      /\ req[k].lease.seat \notin Idle(table)
      /\ table.seats[SeatOf(k)] \in Resident /\ Admissible(asked[k])
      /\ Going(table.seats[SeatOf(k)], req[k], asked[k])
  BY <1>1, RunningFacts DEF SeatOf
<1>3. /\ req[k].emitted = <<>> /\ req[k].progress \in Seq(Token)
      /\ req[k].emitted \in Seq(Token)
  BY <1>1, <1>2, EmptySeq DEF Going, Request
<1>4. m = req[k]
  <2>1. req[k].emitted \o <<>> = req[k].emitted /\ req[k].progress \o <<>> = req[k].progress
    BY <1>3, ConcatEmptySeq
  <2>2. m = [req[k] EXCEPT !.emitted = req[k].emitted, !.progress = req[k].progress]
    BY <2>1
  <2> QED BY <1>2, <2>2 DEF Request
<1>5. Proceed(t, k, n)
  BY <1>1 DEF CommitChunk
<1>6. chunk \in Seq(Token) /\ c \in Seq(Token)
  <2>1. c \in Seq(Token)
    BY <1>2 DEF Committed, Resident
  <2>2. Goal(k) \in Seq(Token)
    <3>1. asked[k].prompt \in Seq(Token) /\ req[k].output \in Seq(Token)
      BY <1>2 DEF Admissible, Request
    <3> QED BY <3>1, ConcatProperties DEF Goal
  <2>3. IsPrefix(c, Goal(k)) /\ Len(c) + req[k].width <= Len(Goal(k)) /\ req[k].width \in Nat
    <3>1. /\ IsPrefix(c, Goal(k) \o <<>>)
          /\ Len(c) + req[k].width <= Len(Goal(k))
      BY <1>1, <1>2, <1>3 DEF Going, Committed, Goal
    <3>2. Goal(k) \o <<>> = Goal(k)
      BY <2>2, ConcatEmptySeq
    <3>3. req[k].width \in Nat
      BY <1>2 DEF Request
    <3> QED BY <3>1, <3>2, <3>3
  <2> HIDE DEF c
  <2> QED BY <2>1, <2>2, <2>3, NextChunk, ZenonT(60)
<1>7. Len(t.seats[req[k].lease.seat].tokens) \in Nat
  <2>1. table \in Table
    BY DEF Sound, TypeOK, TableOK
  <2> HIDE DEF chunk
  <2>2. t.seats[req[k].lease.seat].tokens = c \o chunk
    BY <1>2, <1>6, <2>1, CommitFields DEF Committed, SeatOf
  <2> HIDE DEF t, c
  <2> QED BY <1>6, <2>2, ConcatProperties, LenProperties
<1> HIDE DEF t, m
<1>8. /\ n.point \in {"prefill_pages", "decode_pages"}
      /\ n.status = "active" /\ n.progress = req[k].progress
  BY <1>1, <1>2, <1>3, <1>4, <1>7, ResumedLives
<1> HIDE DEF n
<1> QED BY <1>1, <1>5, <1>8, ProceedServes

LEMMA VerifyServes ==
  ASSUME Sound, Answers, NEW k, Verify(k)
  PROVE  Serves
<1>1. /\ k \in Running /\ req[k].point \in DecodePoints
  BY ConsumedRuns DEF Verify, DecodePoints
<1>2. PICK n \in 1 .. req[k].width :
        IF Len(Accepted(k, n)) > 1
        THEN /\ Proceed(table, k, [req[k] EXCEPT !.point = "decode_repair",
                                                 !.chunk = Accepted(k, n),
                                                 !.age = 0])
             /\ UNCHANGED anchor
        ELSE CommitChunk(k, Accepted(k, n), Accepted(k, n))
  BY DEF Verify
<1> DEFINE a == Accepted(k, n)
           w == req[k].width
<1>3. /\ a \in Seq(Token) /\ a # <<>> /\ Len(a) <= n
      /\ Follows(asked[k].prompt \o req[k].progress, a)
      /\ \A i \in 1 .. Len(a) - 1 : a[i] \notin asked[k].stops
  BY <1>1, AcceptedFollows
<1>4. /\ Committed(table, k) = Goal(k) \o req[k].emitted
      /\ w \in 1 .. 3
      /\ Len(req[k].output) + Len(req[k].emitted) + w <= asked[k].count
  BY <1>1, DecodeRoom
<1>5. req[k] \in Request /\ req[k].status = "active" /\ Admissible(asked[k])
  BY <1>1, RunningFacts
<1> HIDE DEF a
<1>6. CASE Len(a) > 1
  <2> DEFINE r == [req[k] EXCEPT !.point = "decode_repair", !.chunk = a, !.age = 0]
  <2>1. Proceed(table, k, r)
    BY <1>2, <1>6 DEF a
  <2>2. /\ r.point = "decode_repair" /\ r.chunk = a /\ r.status = "active"
        /\ r.progress = req[k].progress
    BY <1>5 DEF Request
  <2> HIDE DEF r
  <2> QED BY <1>1, <1>3, <2>1, <2>2, ProceedServes
<1>7. CASE ~(Len(a) > 1)
  <2>1. CommitChunk(k, a, a)
    BY <1>2, <1>7 DEF a
  <2>2. Len(req[k].output) + Len(req[k].emitted) + Len(a) <= asked[k].count
    <3>1. /\ Len(req[k].output) \in Nat /\ Len(req[k].emitted) \in Nat
          /\ Len(a) \in Nat /\ asked[k].count \in Nat
      BY <1>3, <1>5, LenProperties DEF Request, Admissible
    <3>2. w \in Nat /\ Len(a) <= w
      <4> DEFINE x == Len(a)
      <4>1. x \in Nat /\ w \in 1 .. 3 /\ n \in 1 .. w /\ x <= n
        BY <1>3, <1>4, <3>1
      <4> HIDE DEF x, w
      <4>2. w \in Nat /\ x <= w
        BY <4>1
      <4> QED BY <4>2 DEF x
    <3> HIDE DEF w
    <3> QED BY <1>4, <3>1, <3>2, QuotaWithin
  <2> QED BY <1>1, <1>3, <1>4, <2>1, <2>2, EmittedServes
<1> QED BY <1>6, <1>7

LEMMA CommitRepairedServes ==
  ASSUME Sound, Answers, NEW k, CommitRepaired(k)
  PROVE  Serves
<1> DEFINE a == req[k].chunk
           w == req[k].width
<1>1. /\ k \in Running /\ req[k].point = "decode_repair" /\ req[k].point \in DecodePoints
      /\ CommitChunk(k, a, a)
  BY ConsumedRuns DEF CommitRepaired, DecodePoints
<1>2. /\ Committed(table, k) = Goal(k) \o req[k].emitted
      /\ w \in 1 .. 3
      /\ Len(req[k].output) + Len(req[k].emitted) + w <= asked[k].count
  BY <1>1, DecodeRoom
<1>3. /\ k \in Key /\ req[k] \in Request /\ req[k].status = "active"
      /\ Admissible(asked[k]) /\ Going(table.seats[SeatOf(k)], req[k], asked[k])
  BY <1>1, RunningFacts
<1>4. /\ a # <<>> /\ Follows(asked[k].prompt \o req[k].progress, a)
      /\ \A i \in 1 .. Len(a) - 1 : a[i] \notin asked[k].stops
  BY <1>1, <1>3 DEF Answers, Answering
<1>5. /\ Len(req[k].output) \in Nat /\ Len(req[k].emitted) \in Nat
      /\ a \in Seq(Token) /\ Len(a) \in Nat /\ asked[k].count \in Nat /\ Len(a) <= w
  BY <1>1, <1>3, LenProperties DEF Request, Admissible, Going
<1>6. Len(req[k].output) + Len(req[k].emitted) + Len(a) <= asked[k].count
  <2>1. w \in Nat
    BY <1>2
  <2> HIDE DEF w, a
  <2> QED BY <1>2, <1>5, <2>1, QuotaWithin
<1> HIDE DEF a
<1> QED BY <1>1, <1>2, <1>4, <1>5, <1>6, EmittedServes

LEMMA AdmitServes ==
  ASSUME Sound, Answers, Admit
  PROVE  Serves
<1> DEFINE k == Head(waiting)
<1>1. PICK i \in Chosen(table, Goal(k), asked[k].cache_salt) :
        req' = [req EXCEPT ![k] = [@ EXCEPT !.status = "active",
                                            !.lease = LeaseOn(table', i),
                                            !.cached = Len(table'.seats[i].tokens),
                                            !.point = "start"]]
  BY DEF Admit
<1>2. waiting # <<>> /\ asked' = asked
  BY DEF Admit, Admits
<1>3. k \in Key /\ req[k] \in Request /\ req[k].status = "waiting"
  BY <1>2, HeadOfQueue
<1> HIDE DEF k
<1> DEFINE r == [req[k] EXCEPT !.status = "active", !.lease = LeaseOn(table', i),
                               !.cached = Len(table'.seats[i].tokens), !.point = "start"]
<1>4. req' = [req EXCEPT ![k] = r]
  BY <1>1
<1>5. r.status = "active" /\ r.progress = req[k].progress /\ r.point = "start"
  BY <1>3 DEF Request
<1> HIDE DEF r
<1>6. Answering(r, asked[k])
  BY <1>3, <1>5 DEF Answers, Answering
<1>7. k \in Pending
  BY <1>3 DEF Pending
<1> QED BY <1>2, <1>4, <1>5, <1>6, <1>7, OneServes

LEMMA AdmitFailsServes ==
  ASSUME Sound, Answers, AdmitFails
  PROVE  Serves
<1> DEFINE k == Head(waiting)
           r == [req[k] EXCEPT !.status = "lost"]
<1>1. waiting # <<>> /\ asked' = asked /\ req' = [req EXCEPT ![k] = r]
  BY DEF AdmitFails, Admits
<1>2. k \in Key /\ req[k] \in Request /\ req[k].status = "waiting"
  BY <1>1, HeadOfQueue
<1> HIDE DEF k
<1>3. r.status = "lost" /\ r.progress = req[k].progress
  BY <1>2 DEF Request
<1> HIDE DEF r
<1>4. k \in Pending
  BY <1>2 DEF Pending
<1> QED BY <1>1, <1>3, <1>4, OneServes

LEMMA ReservePagesServes ==
  ASSUME Sound, Answers, NEW k, ReservePages(k)
  PROVE  Serves
<1> DEFINE r == [req[k] EXCEPT !.point = GrantedPoint(k), !.age = 0]
<1>1. k \in Running
  <2>1. Reserving # {} /\ k = Oldest(Reserving) /\ Reserving \in SUBSET Key
    BY DEF ReservePages, Reserves, Reserving, Sound, TypeOK
  <2> QED BY NewestRuns DEF ReservePages
<1>2. req' = [req EXCEPT ![k] = r] /\ asked' = asked
  BY DEF ReservePages
<1>3. req[k] \in Request /\ req[k].status = "active" /\ k \in Key /\ k \in Pending
  BY <1>1, RunningFacts, PendingRuns
<1>4. GrantedPoint(k) \in {"decode_draft", "prefill_draft", "prefill_target"}
  BY DEF GrantedPoint
<1>5. r.status = "active" /\ r.progress = req[k].progress /\ r.point = GrantedPoint(k)
  BY <1>3 DEF Request
<1> HIDE DEF r
<1>6. Answering(r, asked[k])
  BY <1>3, <1>4, <1>5 DEF Answers, Answering
<1> QED BY <1>2, <1>3, <1>5, <1>6, OneServes

\* The protocol of v ends, and its client is told nothing yet.
LEMMA LeaveServes ==
  ASSUME Sound, Answers, NEW v \in Running, NEW r, req' = [req EXCEPT ![v] = r],
         asked' = asked, r.status \in {"waiting", "active", "lost"},
         r.progress = req[v].progress, r.point \in {"none", "closed"}
  PROVE  Serves
<1>1. v \in Key /\ req[v].status = "active" /\ v \in Pending
  BY RunningFacts, PendingRuns
<1>2. Answering(r, asked[v])
  BY <1>1 DEF Answers, Answering
<1> QED BY <1>1, <1>2, OneServes

LEMMA PreemptServes ==
  ASSUME Sound, Answers, NEW k, Preempt(k)
  PROVE  Serves
<1> DEFINE v == Newest(active)
           r == [Fresh EXCEPT !.status = "waiting", !.output = SavedOutput(v),
                              !.progress = req[v].progress]
<1>1. Reserves(k) /\ req' = [req EXCEPT ![v] = r] /\ asked' = asked
  BY DEF Preempt
<1>2. v \in Running
  BY <1>1, NewestRuns
<1>3. r.status = "waiting" /\ r.progress = req[v].progress /\ r.point = "none"
  BY DEF Fresh
<1> HIDE DEF v, r
<1> QED BY <1>1, <1>2, <1>3, LeaveServes

LEMMA PreemptFailsServes ==
  ASSUME Sound, Answers, NEW k, PreemptFails(k)
  PROVE  Serves
<1> DEFINE v == Newest(active)
           r == [req[v] EXCEPT !.output = SavedOutput(v), !.emitted = <<>>,
                               !.point = "closed"]
<1>1. Reserves(k) /\ req' = [req EXCEPT ![v] = r] /\ asked' = asked
  BY DEF PreemptFails, SeatLost
<1>2. v \in Running
  BY <1>1, NewestRuns
<1> HIDE DEF v
<1>3. req[v] \in Request /\ req[v].status = "active"
  BY <1>2, RunningFacts
<1>4. r.status = "active" /\ r.progress = req[v].progress /\ r.point = "closed"
  BY <1>3 DEF Request
<1> HIDE DEF r
<1> QED BY <1>1, <1>2, <1>4, LeaveServes

LEMMA CancelFailsServes ==
  ASSUME Sound, Answers, NEW k \in Key, CancelFails(k)
  PROVE  Serves
<1> DEFINE r == [Fresh EXCEPT !.status = "lost", !.output = req[k].output,
                              !.progress = req[k].progress]
<1>1. k \in active /\ phase = "idle" /\ req' = [req EXCEPT ![k] = r] /\ asked' = asked
  BY DEF CancelFails, SeatLost
<1>2. k \in Running
  BY <1>1 DEF Sound, Protocols
<1>3. r.status = "lost" /\ r.progress = req[k].progress /\ r.point = "none"
  BY DEF Fresh
<1> HIDE DEF r
<1> QED BY <1>1, <1>2, <1>3, LeaveServes

\* A step that leaves what the client sees, and what is about to be committed.
LEMMA QuietServes ==
  ASSUME Sound, Answers, asked' = asked,
         \A k \in Key : /\ req'[k].status = req[k].status
                        /\ req'[k].progress = req[k].progress
                        /\ req'[k].point = req[k].point /\ req'[k].chunk = req[k].chunk
  PROVE  Serves
<1>1. Answers'
  BY DEF Answers, Answering
<1>2. ServiceStatus' = ServiceStatus
  BY DEF ServiceStatus
<1>3. [j \in Key |-> req'[j].progress] = [j \in Key |-> req[j].progress]
  OBVIOUS
<1> QED BY <1>1, <1>2, <1>3 DEF Serves, Service!vars

LEMMA WaveServes ==
  ASSUME Sound, Answers, Wave
  PROVE  Serves
<1>1. /\ req' = [k \in Key |-> IF k \in active THEN [req[k] EXCEPT !.age = @ + 1]
                                              ELSE req[k]]
      /\ asked' = asked
  BY DEF Wave
<1>2. \A k \in Key : req[k] \in Request
  BY DEF Sound, TypeOK
<1>3. ASSUME NEW k \in Key
      PROVE  /\ req'[k].status = req[k].status
             /\ req'[k].progress = req[k].progress
             /\ req'[k].point = req[k].point /\ req'[k].chunk = req[k].chunk
  BY <1>1, <1>2 DEF Request
<1> QED BY <1>1, <1>3, QuietServes

\* The requests of K are cancelled.
LEMMA CancelledServe ==
  ASSUME Sound, Answers, NEW K \in SUBSET Pending, asked' = asked,
         req' = [k \in Key |-> IF k \in K THEN Cancelled(req[k]) ELSE req[k]]
  PROVE  Serves
<1>1. \A k \in Key : Cancelled(req[k]).status = "cancelled"
                     /\ Cancelled(req[k]).progress = req[k].progress
  BY DEF Cancelled, Fresh
<1>2. Answers'
  BY <1>1 DEF Answers
<1>3. [j \in Key |-> req'[j].progress] = [j \in Key |-> req[j].progress]
  BY <1>1
<1>4. K \in SUBSET Key /\ \A k \in K : ServiceStatus[k] = "pending"
  BY DEF Pending, ServiceStatus
<1>5. ServiceStatus' = [k \in Key |-> IF k \in K THEN "cancelled" ELSE ServiceStatus[k]]
  BY <1>1 DEF ServiceStatus
<1>6. Service!Cancel(K)
  BY <1>3, <1>4, <1>5 DEF Service!Cancel
<1> QED BY <1>2, <1>4, <1>6 DEF Serves, Service!Next

LEMMA CancelServes ==
  ASSUME Sound, Answers, NEW k \in Key, Cancel(k)
  PROVE  Serves
<1>1. k \in Pending /\ req' = [req EXCEPT ![k] = Cancelled(req[k])] /\ asked' = asked
  BY DEF Cancel
<1>2. req = [j \in Key |-> req[j]]
  BY DEF Sound, TypeOK
<1>3. req' = [j \in Key |-> IF j \in {k} THEN Cancelled(req[j]) ELSE req[j]]
  BY <1>1, <1>2
<1> QED BY <1>1, <1>3, CancelledServe

LEMMA CloseServes ==
  ASSUME Sound, Answers, Close
  PROVE  Serves
BY CancelledServe DEF Close

LEMMA SubmitServes ==
  ASSUME Sound, Answers, NEW q \in Question, Submit(q)
  PROVE  Serves
<1> DEFINE k == Len(asked) + 1
<1>1. /\ Len(asked) < MaxRequests /\ q.count > 0 /\ q.prompt # <<>>
      /\ req' = [req EXCEPT ![k].status = "waiting"] /\ asked' = Append(asked, q)
  BY DEF Submit
<1>2. /\ asked \in Seq(Question) /\ req \in [Key -> Request] /\ Submitted
  BY DEF Sound, TypeOK
<1>3. Len(asked) \in Nat /\ MaxRequests \in Nat
  BY <1>2, LenProperties, SchedulerAssumption
<1>4. k \in Key /\ k > Len(asked)
  BY <1>1, <1>3 DEF Key
<1>5. req[k] = Fresh
  BY <1>2, <1>4 DEF Submitted
<1>6. /\ asked'[k] = q /\ \A j \in 1 .. Len(asked) : asked'[j] = asked[j]
  BY <1>1, <1>2, AppendProperties
<1>7. \A j \in Key \ {k} : req[j] = Fresh \/ j \in 1 .. Len(asked)
  <2>1. \A j \in Key \ {k} : j > Len(asked) => req[j] = Fresh
    BY <1>2 DEF Submitted
  <2> QED BY <1>3, <2>1 DEF Key
<1>8. k = Len(asked) + 1
  OBVIOUS
<1> HIDE DEF k
<1>9. /\ \A j \in Key \ {k} : req'[j] = req[j]
      /\ req'[k] = [Fresh EXCEPT !.status = "waiting"]
      /\ req' = [j \in Key |-> req'[j]]
  BY <1>1, <1>2, <1>4, <1>5
<1>10. /\ req'[k].status = "waiting" /\ req'[k].progress = <<>> /\ req'[k].point = "none"
  BY <1>9 DEF Fresh
<1>11. Answering(req'[k], asked'[k])
  <2>1. q.count \in Int /\ Len(<<>>) = 0 /\ DOMAIN <<>> = {}
    BY SchedulerAssumption, EmptySeq
  <2> QED BY <1>1, <1>6, <1>10, <2>1, FollowsNothing DEF Answering
<1>12. Answers'
  <2>1. SUFFICES ASSUME NEW j \in Key, req'[j].status \in {"waiting", "active"}
                 PROVE  Answering(req'[j], asked'[j])
    BY DEF Answers
  <2>2. CASE j = k
    BY <1>11, <2>2
  <2>3. CASE j # k
    <3>1. req'[j] = req[j] /\ req[j] # Fresh
      BY <1>9, <2>1, <2>3 DEF Fresh
    <3>2. asked'[j] = asked[j]
      BY <1>6, <1>7, <2>3, <3>1
    <3> QED BY <2>1, <3>1, <3>2 DEF Answers
  <2> QED BY <2>2, <2>3
<1>13. [j \in Key |-> req'[j].progress] = [j \in Key |-> req[j].progress]
  <2>1. req[k].progress = <<>>
    BY <1>5 DEF Fresh
  <2>2. \A j \in Key : req'[j].progress = req[j].progress
    BY <1>9, <1>10, <2>1
  <2> QED BY <2>2
<1>14. ServiceStatus' = [ServiceStatus EXCEPT ![k] = "pending"]
  BY <1>4, <1>9, <1>10 DEF ServiceStatus
<1>15. Service!Submit(k, q)
  BY <1>1, <1>8, <1>13, <1>14 DEF Service!Submit
<1> QED BY <1>4, <1>12, <1>15 DEF Serves, Service!Next

-----------------------------------------------------------------------------
\* The service.

LEMMA SameServes ==
  ASSUME Sound, Answers, asked' = asked, req' = req
  PROVE  Serves
BY QuietServes

LEMMA NextServes ==
  ASSUME IInv, Answers, [Next]_vars
  PROVE  Serves
<1>1. CASE phase = "closed"
  <2>1. UNCHANGED vars
    BY <1>1, ClosedRests
  <2>2. Answers' /\ UNCHANGED Service!vars
    BY <2>1 DEF vars, Answers, Service!vars, ServiceStatus
  <2> QED BY <2>2 DEF Serves
<1>2. CASE phase # "closed"
  <2>1. Sound
    BY <1>2 DEF IInv
  <2>2. CASE \E q \in Question : Submit(q)
    BY <2>1, <2>2, SubmitServes
  <2>3. CASE \E k \in Key : Cancel(k)
    BY <2>1, <2>3, CancelServes
  <2>4. CASE Close
    BY <2>1, <2>4, CloseServes
  <2>5. CASE Admit
    BY <2>1, <2>5, AdmitServes
  <2>6. CASE \E k \in Key : Consume(k)
    BY <2>1, <2>6, StartServes, FollowServes, CommitPrefillServes, VerifyServes,
       CommitRepairedServes DEF Consume
  <2>7. CASE \E k \in Key : ReservePages(k)
    BY <2>1, <2>7, ReservePagesServes
  <2>8. CASE \E k \in Key : Preempt(k)
    BY <2>1, <2>8, PreemptServes
  <2>9. CASE Wave
    BY <2>1, <2>9, WaveServes
  <2>10. CASE AdmitFails
    BY <2>1, <2>10, AdmitFailsServes
  <2>11. CASE \E k \in Key : CancelFails(k)
    BY <2>1, <2>11, CancelFailsServes
  <2>12. CASE \E k \in Key : PreemptFails(k)
    BY <2>1, <2>12, PreemptFailsServes
  <2>13. CASE \/ BeginTick \/ AdmissionDone \/ ConsumptionDone \/ ReservationDone
              \/ WaveFails \/ (\E k \in Key : ReserveFails(k)) \/ UNCHANGED vars
    <3>1. asked' = asked /\ req' = req
      BY <2>13 DEF BeginTick, AdmissionDone, ConsumptionDone, ReservationDone, WaveFails,
                   ReserveFails, vars
    <3> QED BY <2>1, <3>1, SameServes
  <2> QED BY <2>2, <2>3, <2>4, <2>5, <2>6, <2>7, <2>8, <2>9, <2>10, <2>11, <2>12, <2>13
          DEF Next, TickStep
<1> QED BY <1>1, <1>2

LEMMA InitAnswers == Init => Answers /\ Service!Init
<1> SUFFICES ASSUME Init PROVE Answers /\ Service!Init
  OBVIOUS
<1>1. req = [k \in Key |-> Fresh] /\ asked = <<>>
  BY DEF Init
<1> QED BY <1>1 DEF Answers, Fresh, Service!Init, ServiceStatus

\* What a request short of its answer has streamed is the greedy continuation of
\* its prompt, and so is what it is about to commit: no eviction, preemption,
\* reuse of a seat or rejected draft bends a stream.
THEOREM AnswersHold == Spec => []Answers
<1>1. Init => Answers
  BY InitAnswers
<1>2. IInv /\ Answers /\ [Next]_vars => Answers'
  BY NextServes DEF Serves
<1> QED BY <1>1, <1>2, InvariantHolds, PTL DEF Spec

\* The scheduler is the plain service, for every model, every question, every
\* capacity and any number of requests: whatever it caches, batches, speculates,
\* preempts or loses, a client streams a growing prefix of the greedy answer,
\* and a request that ends has streamed the whole answer or was cancelled.
THEOREM SchedulerServes == Spec => IsService
<1>1. Init => Answers /\ Service!Init
  BY InitAnswers
<1>2. IInv /\ Answers /\ [Next]_vars => Answers' /\ [Service!Next]_(Service!vars)
  BY NextServes DEF Serves
<1> QED BY <1>1, <1>2, InvariantHolds, PTL DEF Spec, IsService, Service!Spec

-----------------------------------------------------------------------------
\* The calls the table accepts.

LEMMA FiniteKeys ==
  ASSUME NEW K \in SUBSET Key
  PROVE  IsFiniteSet(K) /\ Cardinality(K) \in Nat
<1>1. IsFiniteSet(Key)
  BY FS_Interval, SchedulerAssumption DEF Key
<1>2. IsFiniteSet(K)
  BY <1>1, FS_Subset
<1> QED BY <1>2, FS_CardinalityType

\* No more seats are held than requests are active.
LEMMA SeatsHeld ==
  ASSUME Sound
  PROVE  /\ Cardinality(Live(table)) \in Nat /\ Cardinality(active) \in Nat
         /\ Cardinality(Live(table)) <= Cardinality(active)
<1> DEFINE f == [k \in Running |-> SeatOf(k)]
<1>1. active \in SUBSET Key /\ Running \in SUBSET active
  BY DEF Sound, TypeOK, Running
<1>2. /\ IsFiniteSet(active) /\ Cardinality(active) \in Nat
      /\ IsFiniteSet(Running) /\ Cardinality(Running) \in Nat
      /\ Cardinality(Running) <= Cardinality(active)
  <2>1. IsFiniteSet(active) /\ Cardinality(active) \in Nat
    BY <1>1, FiniteKeys
  <2>2. IsFiniteSet(Running) /\ Cardinality(Running) <= Cardinality(active)
    BY <1>1, <2>1, FS_Subset
  <2> QED BY <2>1, <2>2, FS_CardinalityType
<1>3. Live(table) = {SeatOf(k) : k \in Running}
  BY DEF Sound, Held
<1>4. f \in [Running -> Live(table)] /\ \A s \in Live(table) : \E k \in Running : f[k] = s
  BY <1>3
<1>5. f \in Surjection(Running, Live(table))
  BY <1>4, Fun_IsSurj
<1>6. IsFiniteSet(Live(table)) /\ Cardinality(Live(table)) <= Cardinality(Running)
  BY <1>2, <1>5, FS_Surjection
<1>7. Cardinality(Live(table)) \in Nat
  BY <1>6, FS_CardinalityType
<1> QED BY <1>2, <1>6, <1>7

\* acquire has a seat to run on, a prompt and tokens left to answer with.
LEMMA AcquireAccepted ==
  ASSUME Sound, Answers, Admits
  PROVE  AcquireAccepts(table, Goal(Head(waiting))) /\ Quota(Head(waiting)) > 0
<1> DEFINE k == Head(waiting)
           q == asked[k]
           r == req[k]
<1>1. waiting # <<>> /\ Cardinality(active) < ExecutionSeats
  BY DEF Admits
<1>2. /\ k \in Key /\ r \in Request /\ r.status = "waiting"
      /\ Streamed(r, q) /\ Admissible(q) /\ Goal(k) \in Seq(Token)
  BY <1>1, HeadOfQueue
<1> HIDE DEF k
<1>3. q.prompt \in Seq(Token) /\ q.prompt # <<>> /\ r.output \in Seq(Token) /\ q.count \in Nat
  BY <1>2 DEF Admissible, Request
<1>4. Goal(k) # <<>>
  <2>1. Len(q.prompt) \in Nat \ {0} /\ Len(r.output) \in Nat
    BY <1>3, EmptySeq, LenProperties
  <2>2. Len(Goal(k)) = Len(q.prompt) + Len(r.output)
    BY <1>3, ConcatProperties DEF Goal
  <2> DEFINE a == Len(q.prompt)
             b == Len(r.output)
  <2> HIDE DEF a, b
  <2>3. Len(Goal(k)) # 0
    <3>1. Len(Goal(k)) = a + b /\ a \in Nat \ {0} /\ b \in Nat
      BY <2>1, <2>2 DEF a, b
    <3> QED BY <3>1
  <2> QED BY <1>2, <2>3, EmptySeq
<1>5. Cardinality(Live(table)) < ExecutionSeats
  <2> DEFINE a == Cardinality(active)
             l == Cardinality(Live(table))
  <2>1. a \in Nat /\ l \in Nat /\ l <= a /\ a < ExecutionSeats /\ ExecutionSeats \in Nat
    BY <1>1, SeatsHeld, CapacityAssumption
  <2> HIDE DEF a, l
  <2>2. l < ExecutionSeats
    BY <2>1
  <2> QED BY <2>2 DEF l
<1>6. Quota(k) > 0
  <2>1. Len(r.progress) < q.count
    BY <1>2 DEF Answers, Answering
  <2>2. r.progress = r.output
    <3>1. r.progress = r.output \o <<>>
      BY <1>2 DEF Streamed
    <3> QED BY <1>3, <3>1, ConcatEmptySeq
  <2>3. Len(r.output) \in Nat
    BY <1>3, LenProperties
  <2> HIDE DEF r, q
  <2>4. q.count - Len(r.output) > 0
    BY <1>3, <2>1, <2>2, <2>3
  <2> QED BY <2>4 DEF Quota, r, q
<1>7. AcquireAccepts(table, Goal(k))
  BY <1>4, <1>5 DEF AcquireAccepts
<1> QED BY <1>6, <1>7 DEF k

\* A page request that can_reserve admits is granted.
LEMMA PagesGranted ==
  ASSUME Sound, NEW k \in Reserving
  PROVE  LET accepted == ReserveAccepts(table, req[k].lease, Reach(k))
             shed == AfterShed(table, req[k].lease, Reach(k))
         IN  /\ CanReserve(table, req[k].lease, Reach(k)) <=> accepted
             /\ accepted => Grants(shed, Needed(table, req[k].lease, Reach(k))) # {}
<1>1. k \in Running
  BY DEF Reserving, Running, PagePoints
<1>2. /\ req[k].lease \in Lease /\ req[k] \in Request
      /\ table.seats[SeatOf(k)] \in Resident
  BY <1>1, RunningFacts
<1>3. table \in Table /\ PagesPartitioned(table)
  BY DEF Sound, TypeOK, TableOK
<1> DEFINE n == Len(Committed(table, k))
           w == req[k].width
<1>4. n \in Nat /\ w \in Nat
  BY <1>2, LenProperties DEF Request, Resident, Committed
<1>5. Reach(k) = n + w
  BY DEF Reach
<1> HIDE DEF n, w
<1>6. Reach(k) \in Nat /\ n <= Reach(k)
  BY <1>4, <1>5
<1>7. Len(table.seats[req[k].lease.seat].tokens) <= Reach(k)
  BY <1>6 DEF n, Committed, SeatOf
<1> QED BY <1>2, <1>3, <1>6, <1>7, ReserveAsPromised

\* A step that will commit has the pages for it.
LEMMA CommitFits ==
  ASSUME Sound, NEW k \in active,
         req[k].point \in TargetPoints \cup {"prefill_shift", "decode_repair"}
  PROVE  Len(Committed(table, k)) + req[k].width
           <= Len(table.seats[SeatOf(k)].pages) * PageTokens
<1>1. k \in Running /\ req[k].point \notin {"start"} \cup PagePoints
  BY DEF Running, TargetPoints, PagePoints
<1>2. Going(table.seats[SeatOf(k)], req[k], asked[k])
  BY <1>1, RunningFacts
<1> QED BY <1>1, <1>2 DEF Going, Committed

\* The table refuses no call the scheduler makes, whatever was admitted, cached,
\* preempted or cancelled before (scheduler.py calls acquire, reserve and commit
\* without a way to go on if one raises).
THEOREM TableAccepts == Spec => []CallsAccepted
<1>1. IInv /\ Answers => CallsAccepted
  <2> HAVE IInv /\ Answers
  <2>1. CASE phase = "closed"
    <3>1. active = {} /\ phase # "admit"
      BY <2>1 DEF IInv, Ended
    <3> QED BY <3>1 DEF CallsAccepted, Reserving
  <2>2. CASE phase # "closed"
    <3>1. Sound
      BY <2>2 DEF IInv
    <3> QED BY <3>1, AcquireAccepted, PagesGranted, CommitFits DEF CallsAccepted
  <2> QED BY <2>1, <2>2
<1> QED BY <1>1, InvariantHolds, AnswersHold, PTL

-----------------------------------------------------------------------------
\* How long a step waits.

\* The active requests whose step has been ready for n waves or more.
Unserved(n) == {k \in active \ replied : req[k].age >= n}

\* A wave serves one of the requests that have waited longest: so of those that
\* have waited for n waves, n fewer are left than there are execution seats.
Aged ==
  /\ replied \subseteq active
  /\ phase \in {"reserve", "batch"} => replied = {}
  /\ Cardinality(active) <= ExecutionSeats
  /\ \A n \in 1 .. ExecutionSeats : Cardinality(Unserved(n)) <= ExecutionSeats - n
  /\ \A k \in Key : req[k].status = "waiting" => req[k].age = 0

\* A subset is no larger.
LEMMA FewerKeys ==
  ASSUME NEW K \in SUBSET Key, NEW L \in SUBSET K, NEW n \in Nat, Cardinality(K) <= n
  PROVE  Cardinality(L) <= n
<1>1. IsFiniteSet(K) /\ Cardinality(K) \in Nat /\ Cardinality(L) \in Nat
  BY FiniteKeys
<1>2. Cardinality(L) <= Cardinality(K)
  BY <1>1, FS_Subset
<1> QED BY <1>1, <1>2

\* A step that makes no request wait longer.
LEMMA NoneAges ==
  ASSUME Sound, Aged,
         Cardinality(active') <= ExecutionSeats,
         replied' \subseteq active',
         phase' \in {"reserve", "batch"} => replied' = {},
         \A j \in active' \ replied' :
           req'[j].age = 0 \/ (j \in active \ replied /\ req'[j].age = req[j].age),
         \A j \in Key : req'[j].status = "waiting" => req'[j].age = 0
  PROVE  Aged'
<1>1. ASSUME NEW n \in 1 .. ExecutionSeats
      PROVE  Cardinality(Unserved(n)') <= ExecutionSeats - n
  <2>1. ExecutionSeats \in Nat /\ n \in Nat /\ ExecutionSeats - n \in Nat /\ ~(0 >= n)
    BY CapacityAssumption
  <2>2. Unserved(n)' \in SUBSET Unserved(n)
    BY <2>1 DEF Unserved
  <2>3. Unserved(n) \in SUBSET Key
    BY DEF Unserved, Sound, TypeOK
  <2>4. Cardinality(Unserved(n)) <= ExecutionSeats - n
    BY DEF Aged
  <2> QED BY <2>1, <2>2, <2>3, <2>4, FewerKeys
<1> QED BY <1>1 DEF Aged

\* A step that gives request k the state r, and admits nobody.
LEMMA OneAges ==
  ASSUME Sound, Aged, NEW k \in Key, NEW r, req' = [req EXCEPT ![k] = r],
         active' \subseteq active, replied' = replied \cap active' \/ replied' = replied \ {k},
         replied' \subseteq active',
         phase' \in {"reserve", "batch"} => phase \in {"reserve", "batch"},
         r.age = 0 \/ (k \in active \ replied /\ r.age = req[k].age),
         r.status = "waiting" => r.age = 0
  PROVE  Aged'
<1>1. /\ req \in [Key -> Request] /\ active \in SUBSET Key /\ ExecutionSeats \in Nat
      /\ replied \subseteq active /\ Cardinality(active) <= ExecutionSeats
  BY CapacityAssumption DEF Sound, TypeOK, Aged
<1>2. \A j \in Key : req'[j] = IF j = k THEN r ELSE req[j]
  BY <1>1
<1>3. Cardinality(active') <= ExecutionSeats
  BY <1>1, FewerKeys
<1>4. phase' \in {"reserve", "batch"} => replied' = {}
  BY DEF Aged
<1>5. \A j \in active' \ replied' :
        req'[j].age = 0 \/ (j \in active \ replied /\ req'[j].age = req[j].age)
  <2>1. SUFFICES ASSUME NEW j \in active' \ replied', j # k
                 PROVE  j \in active \ replied /\ req'[j] = req[j]
    BY <1>1, <1>2
  <2> QED BY <1>1, <1>2, <2>1
<1>6. \A j \in Key : req'[j].status = "waiting" => req'[j].age = 0
  BY <1>2 DEF Aged
<1> QED BY <1>3, <1>4, <1>5, <1>6, NoneAges

\* The protocol of k goes on or returns: its next step has not waited.
LEMMA ProceedAges ==
  ASSUME Sound, Aged, NEW k, Consumes(k), NEW t, NEW r, Proceed(t, k, r),
         r.point # "none" => r.age = 0 /\ r.status = "active"
  PROVE  Aged'
<1>1. k \in active /\ k \in Key
  BY ConsumedRuns, RunningFacts
<1>2. replied' = replied \ {k} /\ phase' = phase /\ phase = "consume"
  BY DEF Proceed, Consumes
<1>3. replied \subseteq active
  BY DEF Aged
<1>4. CASE r.point = "none"
  <2>1. req' = [req EXCEPT ![k] = Completed(r)] /\ active' = active \ {k}
    BY <1>4 DEF Proceed
  <2>2. Completed(r).age = 0
    BY DEF Completed, Fresh
  <2> QED BY <1>1, <1>2, <1>3, <2>1, <2>2, OneAges
<1>5. CASE r.point # "none"
  <2>1. req' = [req EXCEPT ![k] = r] /\ active' = active
    BY <1>5 DEF Proceed
  <2> QED BY <1>1, <1>2, <1>3, <1>5, <2>1, OneAges
<1> QED BY <1>4, <1>5

LEMMA CommitAges ==
  ASSUME Sound, Aged, NEW k, Consumes(k), NEW c, NEW e, CommitChunk(k, c, e)
  PROVE  Aged'
<1> DEFINE t == Commit(table, req[k].lease, c)
           x == req[k].emitted \o e
           y == req[k].progress \o e
           m == [req[k] EXCEPT !.emitted = x, !.progress = y]
           n == Resumed(t, k, m)
<1>1. req[k] \in Request /\ req[k].status = "active"
  BY ConsumedRuns, RunningFacts
<1>2. Proceed(t, k, n)
  <2>1. [req[k] EXCEPT !.emitted = @ \o e, !.progress = @ \o e] = m
    BY <1>1 DEF Request
  <2> QED BY <2>1 DEF CommitChunk
<1> HIDE DEF x, y, t
<1>3. n.point # "none" => n.age = 0 /\ n.status = "active"
  BY <1>1 DEF Resumed, Request
<1> HIDE DEF n
<1> QED BY <1>2, <1>3, ProceedAges

LEMMA StartAges ==
  ASSUME Sound, Aged, NEW k, Start(k)
  PROVE  Aged'
<1> DEFINE n == Resumed(table, k, req[k])
<1>1. Consumes(k) /\ Proceed(table, k, n)
  BY DEF Start
<1>2. req[k] \in Request /\ req[k].status = "active"
  BY <1>1, ConsumedRuns, RunningFacts
<1>3. n.point # "none" => n.age = 0 /\ n.status = "active"
  BY <1>2 DEF Resumed, Request
<1> HIDE DEF n
<1> QED BY <1>1, <1>3, ProceedAges

LEMMA FollowAges ==
  ASSUME Sound, Aged, NEW k, Follow(k)
  PROVE  Aged'
<1> DEFINE p == FollowingPoint(req[k])
           n == [req[k] EXCEPT !.point = p, !.age = 0]
<1>1. Consumes(k) /\ Proceed(table, k, n)
  BY DEF Follow
<1>2. req[k] \in Request /\ req[k].status = "active"
  BY <1>1, ConsumedRuns, RunningFacts
<1> HIDE DEF p
<1>3. n.age = 0 /\ n.status = "active"
  BY <1>2 DEF Request
<1> HIDE DEF n
<1> QED BY <1>1, <1>3, ProceedAges

LEMMA VerifyAges ==
  ASSUME Sound, Aged, NEW k, Verify(k)
  PROVE  Aged'
<1>1. Consumes(k)
  BY DEF Verify
<1>2. PICK a : \/ Proceed(table, k, [req[k] EXCEPT !.point = "decode_repair",
                                                   !.chunk = a, !.age = 0])
               \/ CommitChunk(k, a, a)
  BY DEF Verify
<1>3. CASE CommitChunk(k, a, a)
  BY <1>1, <1>3, CommitAges
<1>4. CASE Proceed(table, k, [req[k] EXCEPT !.point = "decode_repair",
                                            !.chunk = a, !.age = 0])
  <2> DEFINE n == [req[k] EXCEPT !.point = "decode_repair", !.chunk = a, !.age = 0]
  <2>1. req[k] \in Request /\ req[k].status = "active"
    BY <1>1, ConsumedRuns, RunningFacts
  <2>2. n.age = 0 /\ n.status = "active"
    BY <2>1 DEF Request
  <2>3. Proceed(table, k, n)
    BY <1>4
  <2> HIDE DEF n
  <2> QED BY <1>1, <2>2, <2>3, ProceedAges
<1> QED BY <1>2, <1>3, <1>4

LEMMA ConsumeAges ==
  ASSUME Sound, Aged, NEW k, Consume(k)
  PROVE  Aged'
<1>1. CASE CommitPrefill(k)
  BY <1>1, CommitAges DEF CommitPrefill
<1>2. CASE CommitRepaired(k)
  BY <1>2, CommitAges DEF CommitRepaired
<1> QED BY <1>1, <1>2, StartAges, FollowAges, VerifyAges DEF Consume

LEMMA ReservePagesAges ==
  ASSUME Sound, Aged, NEW k, ReservePages(k)
  PROVE  Aged'
<1> DEFINE p == GrantedPoint(k)
           r == [req[k] EXCEPT !.point = p, !.age = 0]
<1>1. /\ req' = [req EXCEPT ![k] = [req[k] EXCEPT !.point = p, !.age = 0]]
      /\ active' = active /\ replied' = replied
      /\ phase' = phase /\ phase = "reserve" /\ Reserves(k)
  BY DEF ReservePages, Reserves
<1>2. k \in Key /\ req[k] \in Request /\ req[k].status = "active"
  BY <1>1, NewestRuns, RunningFacts
<1> HIDE DEF p
<1>3. r.age = 0
  BY <1>2 DEF Request
<1>4. req' = [req EXCEPT ![k] = r]
  BY <1>1
<1> HIDE DEF r
<1>5. replied' = replied \cap active' /\ replied' \subseteq active'
  BY <1>1 DEF Aged
<1> QED BY <1>1, <1>2, <1>3, <1>4, <1>5, OneAges

LEMMA PreemptAges ==
  ASSUME Sound, Aged, NEW k, Preempt(k)
  PROVE  Aged'
<1> DEFINE v == Newest(active)
           r == [Fresh EXCEPT !.status = "waiting", !.output = SavedOutput(v),
                              !.progress = req[v].progress]
<1>1. /\ req' = [req EXCEPT ![v] = r] /\ Reserves(k)
      /\ active' = active \ {v} /\ replied' = replied \ {v} /\ phase' = phase
  BY DEF Preempt
<1>2. v \in Key
  BY <1>1, NewestRuns, RunningFacts
<1>3. r.age = 0
  BY DEF Fresh
<1>4. replied' \subseteq active'
  BY <1>1 DEF Aged
<1> HIDE DEF r, v
<1> QED BY <1>1, <1>2, <1>3, <1>4, OneAges

LEMMA PreemptFailsAges ==
  ASSUME Sound, Aged, NEW k, PreemptFails(k)
  PROVE  Aged'
<1> DEFINE v == Newest(active)
           o == SavedOutput(v)
           r == [req[v] EXCEPT !.output = o, !.emitted = <<>>, !.point = "closed"]
<1>1. /\ req' = [req EXCEPT ![v] = [req[v] EXCEPT !.output = o, !.emitted = <<>>,
                                                  !.point = "closed"]]
      /\ Reserves(k)
      /\ active' = active /\ replied' = replied /\ phase' = "failed"
      /\ phase = "reserve"
  BY DEF PreemptFails, SeatLost, Reserves
<1>2. v \in active /\ v \in Key /\ req[v] \in Request /\ req[v].status = "active"
  BY <1>1, NewestRuns, RunningFacts
<1>3. replied = {} /\ replied \subseteq active
  BY <1>1 DEF Aged
<1> HIDE DEF v, o
<1>4. r.age = req[v].age /\ r.status = "active"
  BY <1>2 DEF Request
<1>5. req' = [req EXCEPT ![v] = r]
  BY <1>1
<1> HIDE DEF r
<1>6. v \in active \ replied /\ replied' = replied \cap active' /\ replied' \subseteq active'
  BY <1>1, <1>2, <1>3
<1> QED BY <1>1, <1>2, <1>4, <1>5, <1>6, OneAges

LEMMA CancelFailsAges ==
  ASSUME Sound, Aged, NEW k \in Key, CancelFails(k)
  PROVE  Aged'
<1> DEFINE r == [Fresh EXCEPT !.status = "lost", !.output = req[k].output,
                              !.progress = req[k].progress]
<1>1. /\ req' = [req EXCEPT ![k] = r]
      /\ active' = active \ {k} /\ replied' = replied \ {k} /\ phase' = "failed"
  BY DEF CancelFails, SeatLost
<1>2. r.age = 0
  BY DEF Fresh
<1>3. replied' \subseteq active'
  BY <1>1 DEF Aged
<1> HIDE DEF r
<1> QED BY <1>1, <1>2, <1>3, OneAges

LEMMA CancelAges ==
  ASSUME Sound, Aged, NEW k \in Key, Cancel(k)
  PROVE  Aged'
<1> DEFINE r == Cancelled(req[k])
<1>1. /\ req' = [req EXCEPT ![k] = r] /\ phase' = phase
      /\ \/ active' = active \ {k} /\ replied' = replied \ {k}
         \/ active' = active /\ replied' = replied
  BY DEF Cancel
<1>2. r.age = 0
  BY DEF Fresh, Cancelled
<1>3. replied' \subseteq active' /\ active' \subseteq active
      /\ (replied' = replied \cap active' \/ replied' = replied \ {k})
  BY <1>1 DEF Aged
<1> HIDE DEF r
<1> QED BY <1>1, <1>2, <1>3, OneAges

LEMMA AdmitFailsAges ==
  ASSUME Sound, Aged, AdmitFails
  PROVE  Aged'
<1> DEFINE k == Head(waiting)
           r == [req[k] EXCEPT !.status = "lost"]
<1>1. /\ req' = [req EXCEPT ![k] = [req[k] EXCEPT !.status = "lost"]]
      /\ active' = active /\ replied' = replied /\ phase' = "failed" /\ waiting # <<>>
  BY DEF AdmitFails, Admits
<1>2. k \in Key /\ req[k] \in Request /\ req[k].status = "waiting"
  BY <1>1, HeadOfQueue
<1> HIDE DEF k
<1>3. r.age = 0
  BY <1>2 DEF Request, Aged
<1>4. replied' \subseteq active' /\ replied' = replied \cap active'
  BY <1>1 DEF Aged
<1>5. req' = [req EXCEPT ![k] = r]
  BY <1>1
<1> HIDE DEF r
<1> QED BY <1>1, <1>2, <1>3, <1>4, <1>5, OneAges

LEMMA SubmitAges ==
  ASSUME Sound, Aged, NEW q, Submit(q)
  PROVE  Aged'
<1> DEFINE k == Len(asked) + 1
           r == [req[k] EXCEPT !.status = "waiting"]
<1>1. /\ req' = [req EXCEPT ![k] = [req[k] EXCEPT !.status = "waiting"]]
      /\ active' = active /\ replied' = replied /\ phase' = phase
      /\ Len(asked) < MaxRequests
  BY DEF Submit
<1>2. k \in Key /\ k > Len(asked)
  <2>1. Len(asked) \in Nat /\ MaxRequests \in Nat
    BY LenProperties, SchedulerAssumption DEF Sound, TypeOK
  <2> QED BY <1>1, <2>1 DEF Key
<1>3. req[k] = Fresh
  BY <1>2 DEF Sound, Submitted
<1> HIDE DEF k
<1>4. r.age = 0
  BY <1>3 DEF Fresh
<1>5. req' = [req EXCEPT ![k] = r]
  BY <1>1
<1> HIDE DEF r
<1>6. replied' \subseteq active' /\ replied' = replied \cap active'
  BY <1>1 DEF Aged
<1> QED BY <1>1, <1>2, <1>4, <1>5, <1>6, OneAges

LEMMA AdmitAges ==
  ASSUME Sound, Aged, Admit
  PROVE  Aged'
<1> DEFINE k == Head(waiting)
<1>1. PICK l, c : req' = [req EXCEPT ![k] = [req[k] EXCEPT !.status = "active", !.lease = l,
                                                 !.cached = c, !.point = "start"]]
  BY DEF Admit
<1>2. /\ active' = active \cup {k} /\ replied' = replied /\ phase' = phase
      /\ phase = "admit" /\ waiting # <<>> /\ Cardinality(active) < ExecutionSeats
  BY DEF Admit, Admits
<1>3. k \in Key /\ k \notin active /\ req[k] \in Request /\ req[k].status = "waiting"
  BY <1>2, HeadOfQueue
<1> HIDE DEF k
<1>4. req[k].age = 0
  BY <1>3 DEF Aged
<1> DEFINE r == [req[k] EXCEPT !.status = "active", !.lease = l,
                               !.cached = c, !.point = "start"]
<1>5. r.age = 0 /\ r.status = "active"
  BY <1>3, <1>4 DEF Request
<1>6. req' = [req EXCEPT ![k] = r]
  BY <1>1
<1> HIDE DEF r
<1>7. req \in [Key -> Request] /\ active \in SUBSET Key
  BY DEF Sound, TypeOK
<1>8. \A j \in Key : req'[j] = IF j = k THEN r ELSE req[j]
  BY <1>6, <1>7
<1>9. Cardinality(active') <= ExecutionSeats
  <2>1. IsFiniteSet(active) /\ Cardinality(active) \in Nat /\ ExecutionSeats \in Nat
    BY <1>7, FiniteKeys, CapacityAssumption
  <2>2. Cardinality(active') = Cardinality(active) + 1
    BY <1>2, <1>3, <2>1, FS_AddElement
  <2> QED BY <1>2, <2>1, <2>2
<1>10. replied' \subseteq active'
  BY <1>2 DEF Aged
<1>11. \A j \in active' \ replied' :
         req'[j].age = 0 \/ (j \in active \ replied /\ req'[j].age = req[j].age)
  BY <1>2, <1>3, <1>5, <1>7, <1>8
<1>12. \A j \in Key : req'[j].status = "waiting" => req'[j].age = 0
  BY <1>5, <1>8 DEF Aged
<1> QED BY <1>2, <1>9, <1>10, <1>11, <1>12, NoneAges

LEMMA CloseAges ==
  ASSUME Sound, Aged, Close
  PROVE  Aged'
<1>1. /\ active' = {} /\ replied' = {} /\ phase' = "closed"
      /\ req' = [k \in Key |-> IF k \in Pending THEN Cancelled(req[k]) ELSE req[k]]
  BY DEF Close
<1>2. \A j \in Key : req'[j].status # "waiting"
  BY <1>1 DEF Pending, Cancelled, Fresh
<1>3. Cardinality(active') <= ExecutionSeats
  BY <1>1, FS_EmptySet, CapacityAssumption
<1> QED BY <1>1, <1>2, <1>3, NoneAges

LEMMA QuietAges ==
  ASSUME Sound, Aged, UNCHANGED <<active, req, replied>>,
         phase' \in {"reserve", "batch"} => replied = {}
  PROVE  Aged'
BY NoneAges DEF Aged

-----------------------------------------------------------------------------
\* The wave.

\* While every step waits its turn.
LEMMA AgeBound ==
  ASSUME Sound, Aged, NEW k \in active \ replied
  PROVE  req[k].age \in Nat /\ req[k].age < ExecutionSeats
<1>1. active \in SUBSET Key /\ req \in [Key -> Request] /\ ExecutionSeats \in Nat \ {0}
  BY CapacityAssumption DEF Sound, TypeOK
<1>2. req[k].age \in Nat
  BY <1>1 DEF Request
<1>3. ASSUME req[k].age >= ExecutionSeats PROVE FALSE
  <2>1. k \in Unserved(ExecutionSeats) /\ Unserved(ExecutionSeats) \in SUBSET Key
    BY <1>1, <1>3 DEF Unserved
  <2>2. ExecutionSeats \in 1 .. ExecutionSeats /\ ExecutionSeats - ExecutionSeats = 0
    BY <1>1
  <2>3. Cardinality(Unserved(ExecutionSeats)) <= 0
    BY <2>2 DEF Aged
  <2>4. /\ IsFiniteSet(Unserved(ExecutionSeats))
        /\ Cardinality(Unserved(ExecutionSeats)) \in Nat
    BY <2>1, FiniteKeys
  <2>5. Cardinality(Unserved(ExecutionSeats)) = 0
    BY <2>3, <2>4
  <2> QED BY <2>1, <2>4, <2>5, FS_EmptySet
<1> QED BY <1>1, <1>2, <1>3

\* Some request of a family has waited as long as the family counts.
LEMMA OldestAgeOf ==
  ASSUME NEW K \in SUBSET Key, K # {}, NEW n \in Nat,
         \A k \in K : req[k].age \in Nat /\ req[k].age < n
  PROVE  /\ OldestAge(K) \in Nat /\ OldestAge(K) < n
         /\ \A k \in K : req[k].age <= OldestAge(K)
         /\ \E k \in K : req[k].age = OldestAge(K)
<1> DEFINE T == {req[k].age : k \in K}
<1>1. T \in SUBSET Nat /\ T # {} /\ \A y \in T : y <= n
  BY DEF Key
<1>2. \E x \in T : \A y \in T : x >= y
  BY <1>1, LargestExists
<1>3. OldestAge(K) \in T /\ \A y \in T : OldestAge(K) >= y
  BY <1>2 DEF OldestAge, Max
<1>4. PICK k \in K : OldestAge(K) = req[k].age
  BY <1>3
<1>5. \A j \in K : req[j].age \in T
  OBVIOUS
<1> QED BY <1>3, <1>4, <1>5

\* The least of a set by a measure in Nat, and the largest by a bounded one.
LEMMA LargestBy ==
  ASSUME NEW S, S # {}, NEW m, \A x \in S : m[x] \in Nat, NEW n \in Nat,
         \A x \in S : m[x] <= n
  PROVE  \E x \in S : \A y \in S : m[x] >= m[y]
<1> DEFINE T == {m[x] : x \in S}
<1>1. T \in SUBSET Nat /\ T # {} /\ \A y \in T : y <= n
  OBVIOUS
<1>2. PICK z \in T : \A y \in T : z >= y
  BY <1>1, LargestExists
<1>3. PICK x \in S : z = m[x]
  BY <1>2
<1>4. \A y \in S : m[y] \in T
  OBVIOUS
<1> QED BY <1>2, <1>3, <1>4

LEMMA SmallestBy ==
  ASSUME NEW S, S # {}, NEW m, \A x \in S : m[x] \in Nat
  PROVE  \E x \in S : \A y \in S : m[x] <= m[y]
<1> DEFINE T == {m[x] : x \in S}
<1>1. T \in SUBSET Nat /\ T # {}
  OBVIOUS
<1>2. PICK z \in T : \A y \in T : z <= y
  BY <1>1, LeastExists
<1>3. PICK x \in S : z = m[x]
  BY <1>2
<1>4. \A y \in S : m[y] \in T
  OBVIOUS
<1> QED BY <1>2, <1>3, <1>4

\* Precedes orders the families: one of them goes before all others, and none
\* has a request that has waited longer.
LEMMA FirstFamily ==
  ASSUME Sound, Aged, phase = "batch", active # {},
         NEW families, families = {Family(k) : k \in active}
  PROVE  \E f \in families : /\ \A g \in families \ {f} : Precedes(f, g)
                             /\ \A g \in families : OldestAge(Rows(g)) <= OldestAge(Rows(f))
<1>1. active \in SUBSET Key /\ replied = {} /\ IsFiniteSet(active) /\ ExecutionSeats \in Nat
      /\ Cardinality(active) \in Nat
  BY FiniteKeys, CapacityAssumption DEF Sound, TypeOK, Aged
<1>2. ASSUME NEW f \in families
      PROVE  /\ Rows(f) \in SUBSET Key /\ Rows(f) # {} /\ Rows(f) \in SUBSET active
             /\ OldestAge(Rows(f)) \in Nat /\ OldestAge(Rows(f)) <= ExecutionSeats
             /\ Cardinality(Rows(f)) \in Nat /\ Cardinality(Rows(f)) <= Cardinality(active)
             /\ Oldest(Rows(f)) \in Rows(f) /\ Oldest(Rows(f)) \in Nat
  <2>1. Rows(f) \in SUBSET active /\ Rows(f) # {} /\ Rows(f) \in SUBSET Key
    BY <1>1 DEF Rows
  <2>2. \A k \in Rows(f) : req[k].age \in Nat /\ req[k].age < ExecutionSeats
    BY <1>1, <2>1, AgeBound
  <2>3. OldestAge(Rows(f)) \in Nat /\ OldestAge(Rows(f)) < ExecutionSeats
    BY <1>1, <2>1, <2>2, OldestAgeOf
  <2>4. Cardinality(Rows(f)) \in Nat /\ Cardinality(Rows(f)) <= Cardinality(active)
    BY <1>1, <2>1, FiniteKeys, FS_Subset
  <2>5. Oldest(Rows(f)) \in Rows(f)
    BY <2>1, OldestIn
  <2>6. Oldest(Rows(f)) \in Nat
    BY <2>1, <2>5 DEF Key
  <2> QED BY <1>1, <2>1, <2>3, <2>4, <2>5, <2>6
<1>3. ASSUME NEW f \in families, NEW g \in families, f # g
      PROVE  Oldest(Rows(f)) # Oldest(Rows(g))
  <2>1. Oldest(Rows(f)) \in Rows(f) /\ Oldest(Rows(g)) \in Rows(g)
    BY <1>2
  <2> QED BY <1>3, <2>1 DEF Rows
<1>4. families # {}
  OBVIOUS
<1> DEFINE ready == [f \in families |-> OldestAge(Rows(f))]
           size  == [f \in families |-> Cardinality(Rows(f))]
           first == [f \in families |-> Oldest(Rows(f))]
<1>5. \A f \in families : /\ ready[f] \in Nat /\ ready[f] <= ExecutionSeats
                          /\ size[f] \in Nat /\ size[f] <= Cardinality(active)
                          /\ first[f] \in Nat
  BY <1>2
<1>6. \A f, g \in families : Precedes(f, g) <=>
         \/ ready[f] > ready[g]
         \/ ready[f] = ready[g] /\ size[f] > size[g]
         \/ ready[f] = ready[g] /\ size[f] = size[g] /\ first[f] < first[g]
  BY DEF Precedes
<1>7. \A f, g \in families : f # g => first[f] # first[g]
  BY <1>3
<1>8. \A f \in families : OldestAge(Rows(f)) = ready[f]
  OBVIOUS
<1> HIDE DEF ready, size, first
<1>9. PICK a \in families : \A g \in families : ready[a] >= ready[g]
  BY <1>1, <1>4, <1>5, LargestBy
<1> DEFINE A == {f \in families : ready[f] = ready[a]}
<1>10. PICK b \in A : \A g \in A : size[b] >= size[g]
  <2>1. A # {} /\ \A f \in A : size[f] \in Nat /\ size[f] <= Cardinality(active)
    BY <1>5
  <2> QED BY <1>1, <2>1, LargestBy
<1> DEFINE B == {f \in A : size[f] = size[b]}
<1>11. PICK c \in B : \A g \in B : first[c] <= first[g]
  <2>1. B # {} /\ \A f \in B : first[f] \in Nat
    BY <1>5
  <2> QED BY <2>1, SmallestBy
<1>12. c \in families /\ ready[c] = ready[a] /\ size[c] = size[b]
  OBVIOUS
<1>13. ASSUME NEW g \in families \ {c} PROVE Precedes(c, g)
  <2>1. CASE ready[g] # ready[a]
    <3>1. ready[c] > ready[g]
      BY <1>5, <1>9, <1>12, <2>1
    <3> QED BY <1>6, <1>12, <3>1
  <2>2. CASE ready[g] = ready[a] /\ size[g] # size[b]
    <3>1. size[c] > size[g]
      BY <1>5, <1>10, <1>12, <2>2
    <3> QED BY <1>6, <1>12, <2>2, <3>1
  <2>3. CASE ready[g] = ready[a] /\ size[g] = size[b]
    <3>1. first[c] <= first[g]
      BY <1>11, <2>3
    <3>2. first[c] # first[g]
      BY <1>7, <1>12
    <3>3. first[c] < first[g]
      BY <1>5, <1>12, <3>1, <3>2
    <3> QED BY <1>6, <1>12, <2>3, <3>3
  <2> QED BY <2>1, <2>2, <2>3
<1>14. \A g \in families : ready[g] <= ready[c]
  BY <1>5, <1>9, <1>12
<1> QED BY <1>8, <1>12, <1>13, <1>14

\* The wave has a request that has waited as long as any.
LEMMA LongestServed ==
  ASSUME Sound, Aged, Wave, active # {}
  PROVE  \E k \in active \cap replied' : \A j \in active : req[j].age <= req[k].age
<1> DEFINE families == {Family(k) : k \in active}
           first == {f \in families : \A g \in families \ {f} : Precedes(f, g)}
<1>1. phase = "batch" /\ replied' = replied \cup UNION {WaveRows(f) : f \in first}
  BY DEF Wave
<1>2. PICK f \in families : /\ \A g \in families \ {f} : Precedes(f, g)
                            /\ \A g \in families : OldestAge(Rows(g)) <= OldestAge(Rows(f))
  BY <1>1, FirstFamily
<1>3. WaveRows(f) \in SUBSET replied'
  BY <1>1, <1>2
<1>4. active \in SUBSET Key /\ replied = {} /\ ExecutionSeats \in Nat
  BY <1>1, CapacityAssumption DEF Sound, TypeOK, Aged
<1>5. ASSUME NEW g \in families
      PROVE  /\ Rows(g) # {} /\ Rows(g) \in SUBSET Key
             /\ OldestAge(Rows(g)) \in Nat
             /\ \A k \in Rows(g) : req[k].age \in Nat /\ req[k].age <= OldestAge(Rows(g))
             /\ \E k \in Rows(g) : req[k].age = OldestAge(Rows(g))
  <2>1. Rows(g) # {} /\ Rows(g) \in SUBSET Key
    BY <1>4 DEF Rows
  <2>2. \A k \in Rows(g) : req[k].age \in Nat /\ req[k].age < ExecutionSeats
    BY <1>4, AgeBound DEF Rows
  <2> QED BY <1>4, <2>1, <2>2, OldestAgeOf
<1>6. PICK k \in WaveRows(f) : k \in Rows(f) /\ req[k].age = OldestAge(Rows(f))
  <2> DEFINE K == {j \in Rows(f) : req[j].age = OldestAge(Rows(f))}
  <2>1. K # {} /\ K \in SUBSET Key
    BY <1>5
  <2>2. Oldest(K) \in K
    BY <2>1, OldestIn
  <2>3. WaveRows(f) = IF f[2] > 3 THEN {Oldest(K)} ELSE Rows(f)
    BY DEF WaveRows
  <2> QED BY <2>1, <2>2, <2>3
<1>7. ASSUME NEW j \in active PROVE req[j].age <= req[k].age
  <2>1. Family(j) \in families /\ j \in Rows(Family(j))
    BY DEF Rows
  <2> DEFINE g == Family(j)
  <2> HIDE DEF families, g
  <2>2. g \in families /\ j \in Rows(g)
    BY <2>1 DEF g
  <2>3. /\ req[j].age \in Nat /\ req[j].age <= OldestAge(Rows(g)) /\ OldestAge(Rows(g)) \in Nat
        /\ OldestAge(Rows(g)) <= OldestAge(Rows(f)) /\ OldestAge(Rows(f)) \in Nat
    BY <1>2, <1>5, <2>2
  <2> DEFINE x == OldestAge(Rows(g))
             y == OldestAge(Rows(f))
             z == req[j].age
  <2>4. req[k].age = y /\ z \in Nat /\ x \in Nat /\ y \in Nat /\ z <= x /\ x <= y
    BY <1>6, <2>3
  <2> HIDE DEF x, y, z
  <2>5. z <= y
    BY <2>4
  <2> QED BY <2>4, <2>5 DEF z
<1>8. k \in active \cap replied'
  BY <1>3, <1>6 DEF Rows
<1> QED BY <1>7, <1>8

LEMMA WaveAges ==
  ASSUME Sound, Aged, Wave
  PROVE  Aged'
<1>1. /\ phase = "batch" /\ phase' = "idle" /\ active' = active
      /\ req' = [k \in Key |-> IF k \in active THEN [req[k] EXCEPT !.age = @ + 1]
                                               ELSE req[k]]
  BY DEF Wave
<1>2. /\ active \in SUBSET Key /\ req \in [Key -> Request] /\ replied = {}
      /\ Cardinality(active) <= ExecutionSeats /\ ExecutionSeats \in Nat
  BY <1>1, CapacityAssumption DEF Sound, TypeOK, Aged
<1>3. \A j \in active : req[j].age \in Nat /\ req'[j].age = req[j].age + 1
  <2>1. SUFFICES ASSUME NEW j \in active
                 PROVE  req[j].age \in Nat /\ req'[j].age = req[j].age + 1
    OBVIOUS
  <2>2. req[j] \in Request /\ req'[j] = [req[j] EXCEPT !.age = @ + 1]
    BY <1>1, <1>2
  <2> QED BY <2>2 DEF Request
<1>4. replied' \subseteq active'
  <2>1. ASSUME NEW f \in {Family(k) : k \in active} PROVE WaveRows(f) \subseteq active
    <3> DEFINE K == {j \in Rows(f) : req[j].age = OldestAge(Rows(f))}
    <3>1. Rows(f) # {} /\ Rows(f) \in SUBSET Key /\ Rows(f) \in SUBSET active
      BY <1>2 DEF Rows
    <3>2. \A j \in Rows(f) : req[j].age \in Nat /\ req[j].age < ExecutionSeats
      BY <1>2, <3>1, AgeBound
    <3>3. K # {} /\ K \in SUBSET Key
      BY <1>2, <3>1, <3>2, OldestAgeOf
    <3>4. Oldest(K) \in K
      BY <3>3, OldestIn
    <3>5. WaveRows(f) = IF f[2] > 3 THEN {Oldest(K)} ELSE Rows(f)
      BY DEF WaveRows
    <3> QED BY <3>1, <3>4, <3>5
  <2> DEFINE families == {Family(k) : k \in active}
             first == {f \in families : \A g \in families \ {f} : Precedes(f, g)}
  <2>2. replied' = replied \cup UNION {WaveRows(f) : f \in first}
    BY DEF Wave
  <2>3. \A f \in first : WaveRows(f) \subseteq active
    BY <2>1
  <2> HIDE DEF first
  <2> QED BY <1>1, <1>2, <2>2, <2>3
<1>5. ASSUME NEW n \in 1 .. ExecutionSeats
      PROVE  Cardinality(Unserved(n)') <= ExecutionSeats - n
  <2> DEFINE W == {j \in active : req[j].age >= n - 1}
             U == {j \in active \ replied' : req'[j].age >= n}
             e == ExecutionSeats
             d == Cardinality(W)
  <2>1. e \in Nat /\ n \in 1 .. e
    BY <1>2
  <2>2. Unserved(n)' = U
    BY <1>1 DEF Unserved
  <2>3. IsFiniteSet(W) /\ d \in Nat /\ W \in SUBSET Key
    BY <1>2, FiniteKeys
  <2>4. d <= e - (n - 1)
    <3>1. CASE n = 1
      <4>1. W \in SUBSET active
        OBVIOUS
      <4>2. d <= ExecutionSeats
        BY <1>2, <4>1, FewerKeys
      <4>3. e - (n - 1) = e
        BY <2>1, <3>1
      <4> QED BY <4>2, <4>3
    <3>2. CASE n # 1
      <4>1. n - 1 \in 1 .. ExecutionSeats
        BY <1>2, <3>2
      <4>2. W = Unserved(n - 1)
        BY <1>2 DEF Unserved
      <4> QED BY <4>1, <4>2 DEF Aged
    <3> QED BY <3>1, <3>2
  <2>5. U \in SUBSET W
    <3>1. SUFFICES ASSUME NEW j \in U PROVE j \in W
      OBVIOUS
    <3>2. j \in active /\ req'[j].age >= n /\ req[j].age \in Nat
          /\ req'[j].age = req[j].age + 1
      BY <1>3
    <3>3. req[j].age >= n - 1
      BY <2>1, <3>2
    <3> QED BY <3>2, <3>3
  <2>6. CASE W = {}
    <3>1. U = {}
      BY <2>5, <2>6
    <3>2. Cardinality(U) = 0
      BY <3>1, FS_EmptySet
    <3> QED BY <2>1, <2>2, <3>2
  <2>7. CASE W # {}
    <3>1. active # {}
      BY <2>7
    <3>2. PICK k \in active \cap replied' : \A j \in active : req[j].age <= req[k].age
      BY <3>1, LongestServed
    <3>3. k \in W
      <4>1. PICK j \in W : TRUE
        BY <2>7
      <4>2. req[j].age >= n - 1 /\ req[j].age <= req[k].age
            /\ req[j].age \in Nat /\ req[k].age \in Nat
        BY <1>3, <3>2
      <4>3. req[k].age >= n - 1
        BY <2>1, <4>2
      <4> QED BY <4>3
    <3>4. U \in SUBSET (W \ {k}) /\ W \ {k} \in SUBSET Key
      BY <2>3, <2>5, <3>2
    <3>5. Cardinality(W \ {k}) = d - 1
      BY <2>3, <3>3, FS_RemoveElement
    <3> HIDE DEF W, U, d, e
    <3>6. Cardinality(W \ {k}) <= e - n /\ e - n \in Nat
      BY <2>1, <2>3, <2>4, <3>5
    <3>7. Cardinality(U) <= e - n
      BY <3>4, <3>6, FewerKeys
    <3> QED BY <2>2, <3>7 DEF e
  <2> QED BY <2>6, <2>7
<1>6. \A j \in Key : req'[j].status = "waiting" => req'[j].age = 0
  <2>1. SUFFICES ASSUME NEW j \in Key, req'[j].status = "waiting" PROVE req'[j].age = 0
    OBVIOUS
  <2>2. j \notin active
    <3>1. SUFFICES ASSUME j \in active PROVE FALSE
      OBVIOUS
    <3>2. req[j].status = "active" /\ req[j] \in Request
          /\ req'[j] = [req[j] EXCEPT !.age = @ + 1]
      BY <1>1, <1>2, <3>1 DEF Sound, Submitted
    <3> QED BY <2>1, <3>2 DEF Request
  <2> QED BY <1>1, <2>1, <2>2 DEF Aged
<1> QED BY <1>1, <1>2, <1>4, <1>5, <1>6 DEF Aged

LEMMA NextAges ==
  ASSUME IInv, Aged, [Next]_vars
  PROVE  Aged'
<1>1. CASE phase = "closed"
  <2>1. UNCHANGED vars
    BY <1>1, ClosedRests
  <2> QED BY <2>1 DEF vars, Aged, Unserved
<1>2. CASE phase # "closed"
  <2>1. Sound
    BY <1>2 DEF IInv
  <2>2. CASE \E q \in Question : Submit(q)
    BY <2>1, <2>2, SubmitAges
  <2>3. CASE \E k \in Key : Cancel(k)
    BY <2>1, <2>3, CancelAges
  <2>4. CASE Close
    BY <2>1, <2>4, CloseAges
  <2>5. CASE Admit
    BY <2>1, <2>5, AdmitAges
  <2>6. CASE \E k \in Key : Consume(k)
    BY <2>1, <2>6, ConsumeAges
  <2>7. CASE \E k \in Key : ReservePages(k)
    BY <2>1, <2>7, ReservePagesAges
  <2>8. CASE \E k \in Key : Preempt(k)
    BY <2>1, <2>8, PreemptAges
  <2>9. CASE Wave
    BY <2>1, <2>9, WaveAges
  <2>10. CASE AdmitFails
    BY <2>1, <2>10, AdmitFailsAges
  <2>11. CASE \E k \in Key : CancelFails(k)
    BY <2>1, <2>11, CancelFailsAges
  <2>12. CASE \E k \in Key : PreemptFails(k)
    BY <2>1, <2>12, PreemptFailsAges
  <2>13. CASE ConsumptionDone
    <3>1. replied = {}
      BY <2>13 DEF ConsumptionDone, Consumable, Aged
    <3> QED BY <2>1, <2>13, <3>1, QuietAges DEF ConsumptionDone
  <2>14. CASE ReservationDone
    <3>1. replied = {}
      BY <2>14 DEF ReservationDone, Aged
    <3> QED BY <2>1, <2>14, <3>1, QuietAges DEF ReservationDone
  <2>15. CASE \/ BeginTick \/ AdmissionDone \/ WaveFails
              \/ (\E k \in Key : ReserveFails(k)) \/ UNCHANGED vars
    <3>1. /\ UNCHANGED <<active, req, replied>>
          /\ phase' \notin {"reserve", "batch"} \/ phase' = phase
      BY <2>15 DEF BeginTick, AdmissionDone, WaveFails, ReserveFails, vars
    <3>2. phase' \in {"reserve", "batch"} => replied = {}
      BY <3>1 DEF Aged
    <3> QED BY <2>1, <3>1, <3>2, QuietAges
  <2> QED BY <2>2, <2>3, <2>4, <2>5, <2>6, <2>7, <2>8, <2>9, <2>10, <2>11, <2>12, <2>13,
             <2>14, <2>15
          DEF Next, TickStep
<1> QED BY <1>1, <1>2

LEMMA InitAges == Init => Aged
<1> SUFFICES ASSUME Init PROVE Aged
  OBVIOUS
<1>1. /\ active = {} /\ replied = {} /\ phase = "idle"
      /\ req = [k \in Key |-> Fresh] /\ ExecutionSeats \in Nat
  BY CapacityAssumption DEF Init
<1>2. \A n \in 1 .. ExecutionSeats : Unserved(n) = {} /\ 0 <= ExecutionSeats - n
  BY <1>1 DEF Unserved
<1>3. Cardinality({}) = 0
  BY FS_EmptySet
<1>4. \A k \in Key : req[k].status = "absent"
  BY <1>1 DEF Fresh
<1>5. \A n \in 1 .. ExecutionSeats : Cardinality(Unserved(n)) <= ExecutionSeats - n
  BY <1>2, <1>3
<1>6. Cardinality(active) <= ExecutionSeats
  BY <1>1, <1>3
<1> QED BY <1>1, <1>4, <1>5, <1>6 DEF Aged

\* No step starves: whatever the sizes of the families, a wave serves a step that
\* has waited longest, so with n execution seats every step is served within n
\* waves (scheduler.py, the key of the choice of the wave).
THEOREM StepsDoNotStarve == Spec => []ReadyBound
<1>1. Init => Aged
  BY InitAges
<1>2. IInv /\ Aged /\ [Next]_vars => Aged'
  BY NextAges
<1>3. IInv /\ Aged => ReadyBound
  <2> HAVE IInv /\ Aged
  <2>1. CASE phase = "closed"
    BY <2>1 DEF IInv, Ended, ReadyBound
  <2>2. CASE phase # "closed"
    <3>1. Sound
      BY <2>2 DEF IInv
    <3> QED BY <3>1, AgeBound DEF ReadyBound
  <2> QED BY <2>1, <2>2
<1> QED BY <1>1, <1>2, <1>3, InvariantHolds, PTL DEF Spec
=============================================================================
