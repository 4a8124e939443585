--------------------------- MODULE ResidentLeases ---------------------------
(***************************************************************************)
(* The resident seats of the production route                              *)
(* (models/qwen35/resident_leases.py): who owns a seat, which checkpoint   *)
(* an idle seat keeps, and the frontier that follows what the device wrote *)
(* into an owned one.  Values and methods only; SeatScheduler drives them. *)
(*                                                                         *)
(* Three counters of the code are kept by what they tell apart.  A fence   *)
(* is the number of queued frames that may still write the seat, 0 once    *)
(* the code's fence <= completed_step.  The clock and `touched` are the    *)
(* order of the seats, least recently touched first.  Epochs are numbers,  *)
(* because they are compared across frames.                                *)
(*                                                                         *)
(* A seat keeps its checkpoint as `tokens`: the computed prefix and one    *)
(* lookahead token.  `blocks` is the sequence of its pages, <<>> for the   *)
(* code's None.                                                            *)
(***************************************************************************)
EXTENDS Integers, Sequences, FiniteSets, FiniteSetsExt, SequencesExt, Functions,
        Containers

CONSTANTS
  Seats,    \* the seats' numbers
  Request,  \* request ids
  Nobody,   \* owner of an idle seat
  NoOffer   \* no seat to offer

ASSUME SeatAssumption ==
  /\ Seats \subseteq Nat /\ IsFiniteSet(Seats) /\ Seats # {}
  /\ Nobody \notin Request

EmptySeat ==
  [owner |-> Nobody, epoch |-> 0, tokens |-> <<>>, salt |-> "none",
   blocks |-> <<>>, fence |-> 0]

\* The pool: its seats and their order of use.
NewPool ==
  [seat |-> [s \in Seats |-> EmptySeat], order |-> Ascending(Seats)]

Cursor(seat) == Max({Len(seat.tokens) - 1, 0})

Touched(order, s) == Append(Without(order, s), s)

\* self.requests, which is kept beside the owners.
Holders(pool) == {pool.seat[s].owner : s \in Seats} \ {Nobody}

SeatOf(pool, r) == CHOOSE s \in Seats : pool.seat[s].owner = r

Forgotten(seat) == [seat EXCEPT !.tokens = <<>>, !.salt = "none", !.blocks = <<>>]

\* A new incarnation of the seat.
Renewed(seat) == [seat EXCEPT !.epoch = @ + 1]

-----------------------------------------------------------------------------
\* Offers.

\* Faulty Available: the last writer of a retired seat is not waited for.
AvailableUnfenced(pool) == {s \in Seats : pool.seat[s].owner = Nobody}

Available(pool) ==
  {s \in Seats : pool.seat[s].owner = Nobody /\ pool.seat[s].fence = 0}

\* Faulty Hits: the lookahead token is left out of the comparison.
HitsByComputed(pool, tokens, salt) ==
  {s \in Available(pool) :
     LET seat == pool.seat[s] IN
     /\ seat.blocks # <<>>
     /\ Cursor(seat) > 0
     /\ seat.salt = salt
     /\ Len(tokens) >= Len(seat.tokens)
     /\ IsPrefix(Front(seat.tokens), tokens)}

\* The seats whose whole checkpoint, lookahead included, begins the tokens.
Hits(pool, tokens, salt) ==
  {s \in Available(pool) :
     LET seat == pool.seat[s] IN
     /\ seat.blocks # <<>>
     /\ Cursor(seat) > 0
     /\ seat.salt = salt
     /\ Len(tokens) >= Len(seat.tokens)
     /\ IsPrefix(seat.tokens, tokens)}

\* The longest checkpoint, the lower seat between two of the same length.
Longest(pool, H) ==
  CHOOSE s \in H : \A t \in H :
    \/ Cursor(pool.seat[s]) > Cursor(pool.seat[t])
    \/ Cursor(pool.seat[s]) = Cursor(pool.seat[t]) /\ s <= t

\* An empty seat if there is one, else the least recently touched.
Coldest(pool, A) ==
  LET empty == {s \in A : pool.seat[s].tokens = <<>>}
      among == IF empty = {} THEN A ELSE empty
  IN  Only(pool.order, among)[1]

Offered(pool, s, warm) == [seat |-> s, epoch |-> pool.seat[s].epoch, warm |-> warm]

Offer(pool, tokens, salt, allow_hit) ==
  LET hits == IF allow_hit THEN Hits(pool, tokens, salt) ELSE {} IN
  CASE hits # {} -> Offered(pool, Longest(pool, hits), TRUE)
    [] hits = {} /\ Available(pool) # {} ->
         Offered(pool, Coldest(pool, Available(pool)), FALSE)
    [] OTHER -> NoOffer

-----------------------------------------------------------------------------
\* Taking and leaving a seat.

\* The calls that do not raise.
Current(pool, offer) ==
  LET seat == pool.seat[offer.seat] IN
  seat.owner = Nobody /\ seat.epoch = offer.epoch /\ seat.fence = 0

ClaimAccepts(pool, r, offer) ==
  /\ r \notin Holders(pool)
  /\ Current(pool, offer)
  /\ offer.warm => /\ pool.seat[offer.seat].blocks # <<>>
                   /\ Cursor(pool.seat[offer.seat]) > 0

\* Release the victim's checkpoint before the new pages are charged.
Discard(pool, offer) ==
  IF pool.seat[offer.seat].blocks = <<>> THEN pool
  ELSE [pool EXCEPT !.seat[offer.seat] = Renewed(Forgotten(@))]

\* Faulty Claim: a cold claim keeps the seat's epoch.
ClaimSameEpoch(pool, r, offer) ==
  [pool EXCEPT
     !.seat[offer.seat] =
       IF offer.warm THEN [@ EXCEPT !.owner = r]
       ELSE [Forgotten(@) EXCEPT !.owner = r],
     !.order = Touched(@, offer.seat)]

\* A warm claim keeps the checkpoint and the epoch; a cold one starts a new
\* incarnation.
Claim(pool, r, offer) ==
  [pool EXCEPT
     !.seat[offer.seat] =
       IF offer.warm THEN [@ EXCEPT !.owner = r]
       ELSE [Renewed(Forgotten(@)) EXCEPT !.owner = r],
     !.order = Touched(@, offer.seat)]

\* The request has pinned the pages of its hit.
Transferred(pool, r) ==
  [pool EXCEPT !.seat[SeatOf(pool, r)] = [@ EXCEPT !.tokens = <<>>, !.blocks = <<>>]]

\* Faulty Retire: the frames still queued are forgotten.
RetireUnfenced(pool, r, fence) ==
  [pool EXCEPT
     !.seat[SeatOf(pool, r)] = [Forgotten(@) EXCEPT !.owner = Nobody, !.fence = 0],
     !.order = Touched(@, SeatOf(pool, r))]

\* The seat is idle; it may be offered when its last queued frame has retired.
Retire(pool, r, fence) ==
  [pool EXCEPT
     !.seat[SeatOf(pool, r)] = [Forgotten(@) EXCEPT !.owner = Nobody, !.fence = fence],
     !.order = Touched(@, SeatOf(pool, r))]

\* The idle seats that keep a checkpoint.
Hot(pool) ==
  {s \in Seats : pool.seat[s].owner = Nobody /\ pool.seat[s].blocks # <<>>}

\* invalidate_hot does not advance the epoch.
Invalidated(pool) ==
  [pool EXCEPT !.seat = [s \in Seats |->
     IF pool.seat[s].owner = Nobody THEN Forgotten(pool.seat[s]) ELSE pool.seat[s]]]

\* The idle checkpoints that may give up their pages, least recently used first.
Evictable(pool, exclude) ==
  Only(pool.order, {s \in Hot(pool) \ exclude : pool.seat[s].fence = 0})

Evicted(pool, s) ==
  [pool EXCEPT !.seat[s] = Renewed(Forgotten(@))]

-----------------------------------------------------------------------------
\* The frontier of an owned seat.

NewFrontier(tokens, cursor, remaining) ==
  [tokens |-> tokens, cursor |-> cursor, known |-> TRUE,
   remaining |-> remaining, prompt |-> Len(tokens)]

Lost(f) == [f EXCEPT !.known = FALSE]

\* A frontier whose lookahead is missing is not known.
Checked(f) == IF f.cursor >= Len(f.tokens) THEN Lost(f) ELSE f

\* Prompt tokens computed; the last chunk yields the first output token.
AdvancePrompt(f, query, drafts, sampled) ==
  LET g == [f EXCEPT !.cursor = @ + query] IN
  CASE g.cursor > f.prompt \/ drafts > 0 -> Lost(g)
    [] g.cursor = f.prompt /\ drafts = 0 ->
         IF Len(sampled) # 1 THEN Lost(g)
         ELSE Checked([g EXCEPT !.tokens = @ \o sampled, !.remaining = @ - 1])
    [] OTHER -> Checked(g)

\* Output tokens accepted, never beyond the length the device will write.
AdvanceOutput(f, query, drafts, sampled) ==
  IF query - drafts # 1 \/ sampled = <<>> THEN Lost(f)
  ELSE LET taken == SubSeq(sampled, 1, Min({Len(sampled), f.remaining}))
       IN  Checked([f EXCEPT !.tokens = @ \o taken, !.cursor = @ + Len(taken),
                             !.remaining = @ - Len(taken)])

\* Faulty Advance: the length limit does not freeze the frontier.
AdvanceUnfrozen(f, query, drafts, sampled) ==
  CASE ~f.known -> f
    [] f.known /\ f.cursor < f.prompt -> AdvancePrompt(f, query, drafts, sampled)
    [] OTHER -> Checked([f EXCEPT !.tokens = @ \o sampled, !.cursor = @ + Len(sampled)])

Advance(f, query, drafts, sampled) ==
  CASE ~f.known \/ f.remaining = 0 -> f
    [] f.known /\ f.remaining # 0 /\ f.cursor < f.prompt ->
         AdvancePrompt(f, query, drafts, sampled)
    [] OTHER -> AdvanceOutput(f, query, drafts, sampled)

Checkpoint(f) ==
  IF f.known /\ f.cursor > 0 THEN SubSeq(f.tokens, 1, f.cursor + 1) ELSE <<>>
=============================================================================
