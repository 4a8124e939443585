-------------------------- MODULE ResidentLeasing --------------------------
(***************************************************************************)
(* A ResidentTable and the callers that hold leases on it: every method of *)
(* residents.py in every order, with clear_seat failing wherever it is     *)
(* called, leases used after they ended, and the table rebuilt under the   *)
(* callers when the live root rebinds its state (execution.py,             *)
(* _rebind_live_state).                                                    *)
(*                                                                         *)
(* A caller remembers what it was told and what it did: the tokens its     *)
(* continuation holds and the page map it may write through.               *)
(***************************************************************************)
EXTENDS ResidentTable

CONSTANTS
  Requests,        \* what callers ask for: a prompt and a cache salt
  Runs,        \* the token runs callers commit
  Lengths,         \* the lengths callers reserve
  MaxTokens,       \* bound: tokens one seat commits
  MaxCallers,      \* bound: leases handed out and tables rebuilt
  MaxIncarnation   \* bound: evictions of one seat

ASSUME CallersAssumption ==
  /\ Requests \subseteq [prompt : Seq(Token), cache_salt : Salt]
  /\ Runs \subseteq Seq(Token)
  /\ Lengths \subseteq Nat
  /\ MaxTokens \in Nat /\ MaxCallers \in Nat
  /\ MaxIncarnation \in Nat

VARIABLES
  residency,  \* the ResidentTable
  callers     \* the leases handed out, oldest first, with what each knows

leasing == <<residency, callers>>

Caller == [lease : Lease, tokens : Seq(Token), pages : Seq(Page)]

LeasingInit ==
  /\ residency = NewTable(0)
  /\ callers = <<>>

Bounded(t) == \A i \in Seats : t.seats[i].incarnation <= MaxIncarnation

\* The caller holding this lease; a stale lease is refused by every method.
Holds(c) == Resolves(residency, callers[c].lease)

-----------------------------------------------------------------------------

\* The caller takes the first `cached` tokens of its prompt as already there.
AcquireLease(prompt, salt) ==
  /\ Len(callers) + residency.generation < MaxCallers
  /\ AcquireAccepts(residency, prompt)
  /\ \E i \in Chosen(residency, prompt, salt) :
       /\ residency' = Acquire(residency, i, prompt, salt)
       /\ callers' = Append(callers,
                            [lease  |-> LeaseOn(residency', i),
                             tokens |-> SubSeq(prompt, 1, Len(residency'.seats[i].tokens)),
                             pages  |-> residency'.seats[i].pages])
  /\ Bounded(residency')

\* A cold acquire whose clear_seat raises hands out nothing.
AcquireFailsToClear(prompt, salt) ==
  /\ AcquireAccepts(residency, prompt)
  /\ \E i \in Chosen(residency, prompt, salt) \ Matches(residency, prompt, salt) :
       residency' = FailedEvict(residency, i)
  /\ Bounded(residency')
  /\ UNCHANGED callers

ReserveLease(c, n) ==
  LET l == callers[c].lease
  IN  /\ Holds(c)
      /\ ReserveAccepts(residency, l, n)
      /\ \E grant \in Grants(AfterShed(residency, l, n), Needed(residency, l, n)) :
           residency' = Reserve(residency, l, n, grant)
      /\ callers' = [callers EXCEPT ![c].pages = residency'.seats[l.seat].pages]
      /\ Bounded(residency')

\* clear_seat raises at victim v: the older victims are gone, v is emptied
\* but keeps its pages, and the caller gets no page.
ReserveFailsToClear(c, n) ==
  LET l    == callers[c].lease
      shed == Shed(residency, Needed(residency, l, n))
  IN  /\ Holds(c)
      /\ ReserveAccepts(residency, l, n)
      /\ \E v \in shed :
           residency' = FailedEvict(Evict(residency, shed \cap OlderVictims(residency, v)), v)
      /\ Bounded(residency')
      /\ UNCHANGED callers

CommitTokens(c, tokens) ==
  /\ Holds(c)
  /\ CommitAccepts(residency, callers[c].lease, tokens)
  /\ Len(callers[c].tokens) + Len(tokens) <= MaxTokens
  /\ residency' = Commit(residency, callers[c].lease, tokens)
  /\ callers' = [callers EXCEPT ![c].tokens = @ \o tokens]

FinishLease(c) ==
  /\ Holds(c)
  /\ residency' = Finish(residency, callers[c].lease)
  /\ UNCHANGED callers

EvictIdle(i) ==
  /\ i \in Idle(residency)
  /\ residency' = Evict(residency, {i})
  /\ Bounded(residency')
  /\ UNCHANGED callers

EvictFailsToClear(i) ==
  /\ i \in Idle(residency)
  /\ residency' = FailedEvict(residency, i)
  /\ Bounded(residency')
  /\ UNCHANGED callers

\* A new table replaces the old one; the callers' leases outlive it.
Rebind ==
  /\ Len(callers) + residency.generation < MaxCallers
  /\ residency' = NewTable(residency.generation + 1)
  /\ UNCHANGED callers

LeasingNext ==
  \/ \E r \in Requests :
       \/ AcquireLease(r.prompt, r.cache_salt)
       \/ AcquireFailsToClear(r.prompt, r.cache_salt)
  \/ \E c \in DOMAIN callers :
       \/ \E n \in Lengths : ReserveLease(c, n) \/ ReserveFailsToClear(c, n)
       \/ \E tokens \in Runs : CommitTokens(c, tokens)
       \/ FinishLease(c)
  \/ \E i \in Seats : EvictIdle(i) \/ EvictFailsToClear(i)
  \/ Rebind

LeasingSpec == LeasingInit /\ [][LeasingNext]_leasing

-----------------------------------------------------------------------------
\* Properties.

\* The table and the callers have their types.
LeasingTypeOK ==
  /\ residency \in Table
  /\ callers \in Seq(Caller)

\* No page is lost, shared or owned twice, whatever clears failed.
PageOwnership == PagesPartitioned(residency)

\* Committed tokens never outgrow the seat's pages, and a hot resident holds
\* exactly the pages its tokens need.
TokenCoverage == TokensCovered(residency)

\* While a lease resolves, its seat holds exactly the prompt prefix its caller
\* was promised and the tokens it committed since, and still maps every page
\* the caller writes through: no wrong hit, no other caller, no stale lease
\* and no eviction has touched it; and no two callers hold one seat.
LeaseIntegrity ==
  /\ \A c \in DOMAIN callers :
       Holds(c) =>
         LET r == residency.seats[callers[c].lease.seat]
         IN  r.tokens = callers[c].tokens /\ IsPrefix(callers[c].pages, r.pages)
  /\ \A c, d \in DOMAIN callers :
       Holds(c) /\ Holds(d) /\ callers[c].lease.seat = callers[d].lease.seat
         => c = d

\* As long as a seat keeps its incarnation, its tokens only grow, each token
\* stays in the page it was written to, and the salt that guards the tokens
\* does not change: a hot hit finds the state it matched.
IdentityStep(r, s) ==
  s.incarnation = r.incarnation =>
    /\ IsPrefix(r.tokens, s.tokens)
    /\ \A k \in 1 .. PagesFor(Len(r.tokens)) : s.pages[k] = r.pages[k]
    /\ r.tokens # <<>> => s.cache_salt = r.cache_salt

IdentityStable ==
  [][residency'.generation = residency.generation =>
       \A i \in Seats : IdentityStep(residency.seats[i], residency'.seats[i])]_leasing

\* A running request keeps its seat until its own finish: no eviction, hot
\* hit or failed clear of another caller takes it away.
LiveStep(r, s) ==
  r.request # NoRequest =>
    /\ s.request \in {r.request, NoRequest}
    /\ s.incarnation = r.incarnation

LiveSeatKept ==
  [][residency'.generation = residency.generation =>
       \A i \in Seats : LiveStep(residency.seats[i], residency'.seats[i])]_leasing

=============================================================================
