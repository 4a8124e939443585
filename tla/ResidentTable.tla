--------------------------- MODULE ResidentTable ---------------------------
(***************************************************************************)
(* The values and methods of the serving host's ResidentTable              *)
(* (live/llm/qwen35/residents.py): resident seats that keep the tokens and *)
(* token pages of a conversation while it runs and after it has finished,  *)
(* over one shared pool of pages.                                          *)
(*                                                                         *)
(* A table is a record, and every method is an operator that returns the   *)
(* table it leaves behind, so that callers that make several calls in one  *)
(* step (a preemption finishes and then evicts) compose them.  A method    *)
(* that the code lets raise has a predicate of its own for the calls it    *)
(* accepts.                                                                *)
(*                                                                         *)
(* The pool of free pages is a set: the code keeps a stack, but which free *)
(* page a reservation gets is never observed.  The pages of a seat stay a  *)
(* sequence, because token k lives in page k \div PageTokens.              *)
(***************************************************************************)
EXTENDS Integers, Sequences, FiniteSets, FiniteSetsExt, SequencesExt, Functions

CONSTANTS
  ExecutionSeats,  \* requests that may run at once
  ResidentSeats,   \* seats that keep state, running or idle
  Page,            \* the physical token pages
  PageTokens,      \* tokens one page holds
  Token,           \* token ids
  Salt,            \* cache salts, NoSalt among them
  NoSalt           \* the cache_salt of a request that gave none

ASSUME CapacityAssumption ==
  /\ ExecutionSeats \in Nat \ {0}
  /\ ResidentSeats \in Nat \ {0}
  /\ ExecutionSeats <= ResidentSeats
  /\ PageTokens \in Nat \ {0}
  /\ IsFiniteSet(Page) /\ Page # {}
  /\ NoSalt \in Salt

Seats == 0 .. ResidentSeats - 1

NoRequest == 0

Resident ==
  [tokens      : Seq(Token),
   pages       : Seq(Page),
   incarnation : Nat,
   request     : Nat,
   touched     : Nat,
   cache_salt  : Salt]

Lease ==
  [seat : Seats, incarnation : Nat, request : Nat \ {NoRequest}, generation : Nat]

Table ==
  [seats      : [Seats -> Resident],
   free       : SUBSET Page,
   generation : Nat,
   sequence   : Nat]

EmptyResident ==
  [tokens |-> <<>>, pages |-> <<>>, incarnation |-> 0, request |-> NoRequest,
   touched |-> 0, cache_salt |-> NoSalt]

\* A table object; its generation tells it from the tables built before it.
NewTable(g) ==
  [seats      |-> [i \in Seats |-> EmptyResident],
   free       |-> Page,
   generation |-> g,
   sequence   |-> 0]

-----------------------------------------------------------------------------

Idle(t) == {i \in Seats : t.seats[i].request = NoRequest}

Live(t) == Seats \ Idle(t)

\* Faulty Resolves: a lease of another table is taken for one of this table.
ResolvesAnyGeneration(t, l) ==
  /\ l.incarnation = t.seats[l.seat].incarnation
  /\ l.request = t.seats[l.seat].request

\* The lease names the request that holds its seat now.
Resolves(t, l) ==
  /\ l.generation = t.generation
  /\ l.incarnation = t.seats[l.seat].incarnation
  /\ l.request = t.seats[l.seat].request

PagesFor(n) == (n + PageTokens - 1) \div PageTokens

\* The pages the seats of S hold: a seat counts once for every place it fills.
PageCount(t, S) ==
  Cardinality(UNION {{i} \X DOMAIN t.seats[i].pages : i \in S})

PagesOf(t, S) == UNION {Range(t.seats[i].pages) : i \in S}

-----------------------------------------------------------------------------
\* Eviction.

EvictedResident(r) ==
  [tokens |-> <<>>, pages |-> <<>>, incarnation |-> r.incarnation + 1,
   request |-> r.request, touched |-> r.touched, cache_salt |-> NoSalt]

\* Faulty Evict: the seat keeps the pages it gives back.
EvictKeepingPages(t, S) ==
  [t EXCEPT
     !.seats = [i \in Seats |-> IF i \in S
                  THEN [EvictedResident(t.seats[i]) EXCEPT !.pages = t.seats[i].pages]
                  ELSE t.seats[i]],
     !.free = t.free \cup PagesOf(t, S)]

\* The seats of S are evicted, each by a call of evict that succeeds.
Evict(t, S) ==
  [t EXCEPT
     !.seats = [i \in Seats |-> IF i \in S THEN EvictedResident(t.seats[i])
                                           ELSE t.seats[i]],
     !.free = t.free \cup PagesOf(t, S)]

\* clear_seat raises inside evict: the identity is gone, the pages stay.
FailedEvict(t, i) ==
  [t EXCEPT
     !.seats[i] = [EvictedResident(@) EXCEPT !.pages = t.seats[i].pages]]

-----------------------------------------------------------------------------
\* Acquisition.

AcquireAccepts(t, prompt) ==
  /\ prompt # <<>>
  /\ Cardinality(Live(t)) < ExecutionSeats

\* Faulty Matches: tokens cached under another salt.
MatchesAnySalt(t, prompt, salt) ==
  {i \in Idle(t) : t.seats[i].tokens # <<>> /\ IsPrefix(t.seats[i].tokens, prompt)}

\* The hot residents whose whole token history is a prefix of the prompt.
Matches(t, prompt, salt) ==
  {i \in Idle(t) :
     /\ t.seats[i].tokens # <<>>
     /\ t.seats[i].cache_salt = salt
     /\ IsPrefix(t.seats[i].tokens, prompt)}

Longest(t, S) ==
  {i \in S : \A j \in S : Len(t.seats[j].tokens) <= Len(t.seats[i].tokens)}

Coldest(t, S) ==
  {i \in S : \A j \in S : t.seats[i].touched <= t.seats[j].touched}

Empty(t) == {i \in Idle(t) : t.seats[i].tokens = <<>>}

Candidates(t, prompt, salt) ==
  IF Matches(t, prompt, salt) # {} THEN Longest(t, Matches(t, prompt, salt))
  ELSE IF Empty(t) # {} THEN Empty(t)
  ELSE Coldest(t, Idle(t))

\* The one seat acquire takes: the first of its candidates.
Chosen(t, prompt, salt) ==
  {i \in Idle(t) :
     /\ i \in Candidates(t, prompt, salt)
     /\ \A j \in Candidates(t, prompt, salt) : i <= j}

\* A hot hit keeps its state, any other seat is evicted first.
Cleared(t, i, prompt, salt) ==
  IF i \in Matches(t, prompt, salt) THEN t ELSE Evict(t, {i})

Acquire(t, i, prompt, salt) ==
  LET u == Cleared(t, i, prompt, salt)
  IN  [u EXCEPT
         !.sequence = t.sequence + 1,
         !.seats[i] = [@ EXCEPT !.cache_salt = salt,
                                !.request = t.sequence + 1,
                                !.touched = t.sequence + 1]]

LeaseOn(t, i) ==
  [seat        |-> i,
   incarnation |-> t.seats[i].incarnation,
   request     |-> t.seats[i].request,
   generation  |-> t.generation]

-----------------------------------------------------------------------------
\* Page reservation.

CanReserve(t, l, n) ==
  PagesFor(n) <= Len(t.seats[l.seat].pages) + Cardinality(t.free)
                 + PageCount(t, Idle(t))

Needed(t, l, n) ==
  IF PagesFor(n) > Len(t.seats[l.seat].pages)
  THEN PagesFor(n) - Len(t.seats[l.seat].pages) ELSE 0

\* Faulty Victims: running seats are victims too.
VictimsAmongLive(t) == {i \in Seats : t.seats[i].pages # <<>>}

Victims(t) == {i \in Idle(t) : t.seats[i].pages # <<>>}

OlderVictims(t, v) ==
  {u \in Victims(t) : t.seats[u].touched < t.seats[v].touched}

ReserveAccepts(t, l, n) ==
  /\ Len(t.seats[l.seat].tokens) <= n
  /\ Needed(t, l, n) <= Cardinality(t.free) + PageCount(t, Victims(t))

\* The victims reserve evicts, coldest first until the pool covers the need.
Shed(t, needed) ==
  {v \in Victims(t) :
     Cardinality(t.free) + PageCount(t, OlderVictims(t, v)) < needed}

\* The ways to hand out k free pages.
Grants(t, k) == {g \in [1 .. k -> t.free] : IsInjective(g)}

AfterShed(t, l, n) == Evict(t, Shed(t, Needed(t, l, n)))

Reserve(t, l, n, grant) ==
  LET u == AfterShed(t, l, n)
  IN  [u EXCEPT
         !.seats[l.seat].pages = @ \o grant,
         !.free = u.free \ Range(grant)]

-----------------------------------------------------------------------------
\* Commit and finish.

CommitAccepts(t, l, tokens) ==
  Len(t.seats[l.seat].tokens) + Len(tokens)
    <= Len(t.seats[l.seat].pages) * PageTokens

Commit(t, l, tokens) ==
  [t EXCEPT !.seats[l.seat].tokens = @ \o tokens]

\* Faulty Finish: a partly filled last page is given back.
FinishRoundingDown(t, l) ==
  LET r    == t.seats[l.seat]
      keep == Len(r.tokens) \div PageTokens
  IN  [t EXCEPT
         !.seats[l.seat] = [@ EXCEPT !.pages = SubSeq(r.pages, 1, keep),
                                     !.request = NoRequest],
         !.free = t.free \cup {r.pages[k] : k \in keep + 1 .. Len(r.pages)}]

\* The lease ends; the seat keeps its tokens and the pages that hold them.
Finish(t, l) ==
  LET r    == t.seats[l.seat]
      keep == PagesFor(Len(r.tokens))
  IN  [t EXCEPT
         !.seats[l.seat] = [@ EXCEPT !.pages = SubSeq(r.pages, 1, keep),
                                     !.request = NoRequest],
         !.free = t.free \cup {r.pages[k] : k \in keep + 1 .. Len(r.pages)}]

-----------------------------------------------------------------------------
\* What a table must satisfy.

\* Every page is free or belongs to exactly one seat, once
\* (residents.py: free_pages and Resident.pages share one pool).
PagesPartitioned(t) ==
  /\ \A i \in Seats : IsInjective(t.seats[i].pages)
  /\ \A i \in Seats : Range(t.seats[i].pages) \cap t.free = {}
  /\ \A i, j \in Seats :
       i # j => Range(t.seats[i].pages) \cap Range(t.seats[j].pages) = {}
  /\ Page = t.free \cup PagesOf(t, Seats)

\* Committed tokens lie in the seat's own pages, and an idle seat that keeps
\* tokens keeps no page beyond them (finish trims the lookahead).
SeatCovered(r) ==
  /\ Len(r.tokens) <= Len(r.pages) * PageTokens
  /\ r.request = NoRequest /\ r.tokens # <<>> =>
       Len(r.pages) = PagesFor(Len(r.tokens))

TokensCovered(t) == \A i \in Seats : SeatCovered(t.seats[i])

=============================================================================
