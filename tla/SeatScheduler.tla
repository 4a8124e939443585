--------------------------- MODULE SeatScheduler ---------------------------
(***************************************************************************)
(* The production route's scheduler (models/qwen35/seat_scheduler.py): the *)
(* asynchronous native scheduler with resident seats and a prefill ring,   *)
(* and what the worker does to a seat's device state (state_address.py,    *)
(* state_slots.py).                                                        *)
(*                                                                         *)
(* A scheduling attempt is taken apart into its loop iterations: the       *)
(* preview and the ring's grants, the running requests, the waiting ones,  *)
(* and the frame that is queued.  The engine's other calls (arrival,       *)
(* abort, reset of the cache, the result of the oldest frame) come between *)
(* attempts.  Up to Depth frames are queued; the worker runs them in order *)
(* and its results come back in order, so that a frame is executed and     *)
(* observed in one step.                                                   *)
(*                                                                         *)
(* The native scheduler is external.  It counts the tokens it has          *)
(* scheduled, not the tokens accepted; it holds back the pages of a freed  *)
(* request until its last frame has retired; it preempts the request that  *)
(* was admitted last; it appends the output of a preempted request while   *)
(* that request waits.                                                     *)
(***************************************************************************)
EXTENDS ResidentLeases, PrefillRing

CONSTANTS
  Prompt,      \* per request, its prompt
  MaxTokens,   \* per request, the output tokens it may have
  SaltOf,      \* per request, its cache salt
  Reads,       \* the requests that may read the prefix cache
  Token,       \* token ids
  Stop,        \* the end-of-sequence token
  Drafts,      \* draft tokens of a verify row (num_spec_tokens)
  Page,        \* native page ids
  BlockSize,   \* tokens of a page
  MaxRunning,  \* requests the native scheduler runs at once
  Budget,      \* tokens of one frame
  Depth,       \* frames queued at once
  Arrivals,    \* bound: the order in which the requests arrive
  MaxDisturbances  \* bound: aborts and resets of the prefix cache

\* The native engine refuses an empty prompt.
ASSUME EngineAssumption ==
  /\ IsFiniteSet(Request)
  /\ Prompt \in [Request -> Seq(Token) \ {<<>>}] /\ MaxTokens \in [Request -> Nat \ {0}]
  /\ Reads \subseteq Request /\ Stop \in Token
  /\ Arrivals \in Seq(Request)
  /\ Page \subseteq Nat /\ IsFiniteSet(Page)
  /\ {Drafts, MaxDisturbances} \subseteq Nat
  /\ {BlockSize, MaxRunning, Budget, Depth} \subseteq Nat \ {0}

VARIABLES
  st,       \* residents, frontiers, pending checkpoints, offers and pages
  req,      \* per request, the native scheduler's record
  running,  \* the requests in the order of their admission
  waiting,  \* the requests to admit, those passed over before ahead of the others
  skipped,  \* the waiting requests that were passed over (skipped_waiting)
  frames,   \* the queued frames, oldest first
  device,   \* per seat, the worker's state
  ring,     \* the prefill ring
  attempt,  \* the scheduling attempt in progress
  disturbances,  \* aborts and resets so far
  passed    \* history: attempts in a row that passed a request over

vars ==
  <<st, req, running, waiting, skipped, frames, device, ring, attempt, disturbances,
    passed>>

\* No attempt in progress.
Resting ==
  [phase |-> "idle", next |-> 1, rows |-> <<>>, left |-> 0, grants |-> <<>>,
   preempted |-> FALSE]

NewRequest ==
  [status |-> "absent", out |-> <<>>, computed |-> 0, placeholders |-> 0,
   drafting |-> FALSE, lease |-> <<>>]

Init ==
  /\ st = [pool |-> NewPool, frontiers |-> <<>>, pending |-> <<>>,
           offers |-> [r \in Request |-> NoOffer],
           ref |-> [p \in Page |-> 0], held |-> [r \in Request |-> <<>>],
           deferred |-> <<>>]
  /\ req = [r \in Request |-> NewRequest]
  /\ running = <<>> /\ waiting = <<>> /\ skipped = {} /\ frames = <<>> /\ ring = <<>>
  /\ device = [s \in Seats |-> [epoch |-> 0, tokens |-> <<>>, remaining |-> 1]]
  /\ attempt = Resting
  /\ disturbances = 0
  /\ passed = [r \in Request |-> 0]

-----------------------------------------------------------------------------
\* Requests.

AllTokens(r) == Prompt[r] \o req[r].out

\* The frames up to the last one that has a row of r (last_sched_seq).
LastFrame(queue, r) ==
  Max({0} \cup {i \in DOMAIN queue : r \in DOMAIN queue[i]})

Demand(r) ==
  Max({0, Len(AllTokens(r)) + req[r].placeholders - req[r].computed
            + (IF req[r].drafting THEN Drafts ELSE 0)})

\* The queued rows may already reach the request's last token.
Saturated(r) ==
  /\ req[r].placeholders > 0
  /\ req[r].computed + 2 - req[r].placeholders >= Len(Prompt[r]) + MaxTokens[r]

-----------------------------------------------------------------------------
\* Pages and the life of a seat.

Pinned(ref, blocks) ==
  [p \in Page |-> ref[p] + (IF p \in Range(blocks) THEN 1 ELSE 0)]

Unpinned(ref, blocks) ==
  [p \in Page |-> ref[p] - (IF p \in Range(blocks) THEN 1 ELSE 0)]

\* Several lists of pages at once.
UnpinnedEach(ref, lists) ==
  [p \in Page |-> ref[p] - Cardinality({k \in DOMAIN lists : p \in Range(lists[k])})]

Free(ref) == {p \in Page : ref[p] = 0}

PagesFor(tokens) == (tokens + BlockSize - 1) \div BlockSize

Lacking(held, tokens) == Max({0, PagesFor(tokens) - Len(held)})

\* The pending checkpoints whose last writer has retired.
Due(s) == {k \in DOMAIN s.pending : s.pending[k].fence = 0}

Observed(s, k) == IF k \in DOMAIN s.frontiers THEN Checkpoint(s.frontiers[k]) ELSE <<>>

\* The pages of the computed tokens, the partly filled last one included.
KeptPages(s, k) ==
  LET count == PagesFor(Len(Observed(s, k)) - 1) IN
  IF Observed(s, k) = <<>> \/ count > Len(s.pending[k].blocks) THEN <<>>
  ELSE SubSeq(s.pending[k].blocks, 1, count)

\* Faulty OtherPages: the pages beyond the checkpoint stay pinned.
OtherPagesOfUnknown(s, k) ==
  IF KeptPages(s, k) = <<>> THEN s.pending[k].blocks ELSE <<>>

\* The speculative pages beyond the checkpoint, or all pages without one.
OtherPages(s, k) ==
  SubSeq(s.pending[k].blocks, Len(KeptPages(s, k)) + 1, Len(s.pending[k].blocks))

\* Due checkpoints become hot with the exact frontier; what is not kept goes back.
Publish(s) ==
  LET filled(i) == {k \in Due(s) : k.seat = i /\ KeptPages(s, k) # <<>>} IN
  [s EXCEPT
    !.pool.seat = [i \in Seats |->
       IF filled(i) = {} THEN @[i]
       ELSE LET k == CHOOSE k \in filled(i) : TRUE
            IN  [@[i] EXCEPT !.tokens = Observed(s, k), !.salt = s.pending[k].salt,
                             !.blocks = KeptPages(s, k)]],
    !.ref = UnpinnedEach(@, [k \in Due(s) |-> OtherPages(s, k)]),
    !.frontiers = Restrict(@, DOMAIN @ \ Due(s)),
    !.pending = Restrict(@, DOMAIN @ \ Due(s))]

\* The pages leave the request now, or when its last frame has retired.
NativeFree(s, r, fence) ==
  [s EXCEPT
     !.held[r] = <<>>,
     !.ref = IF fence = 0 THEN Unpinned(@, s.held[r]) ELSE @,
     !.deferred = IF fence = 0 \/ s.held[r] = <<>> THEN @
                  ELSE Append(@, [blocks |-> s.held[r], fence |-> fence])]

\* A request that finished keeps its pages pinned and its frontier observed
\* until its last frame has retired; one that was aborted or preempted does not.
LeaveSeat(s, r, finished, fence) ==
  LET i == SeatOf(s.pool, r)
      key == [rid |-> r, seat |-> i, epoch |-> s.pool.seat[i].epoch]
      entry == [fence |-> fence, salt |-> SaltOf[r], blocks |-> s.held[r]]
  IN  [s EXCEPT
        !.pending = IF finished THEN Put(@, key, entry) ELSE @,
        !.ref = IF finished THEN Pinned(@, s.held[r]) ELSE @,
        !.frontiers = IF finished THEN @ ELSE Restrict(@, DOMAIN @ \ {key}),
        !.pool = Retire(@, r, fence),
        !.offers[r] = NoOffer]

\* _free_request_blocks.
FreeRequestBlocks(s, r, finished, fence) ==
  LET left == IF r \in Holders(s.pool) THEN LeaveSeat(s, r, finished, fence) ELSE s
  IN  Publish(NativeFree(left, r, fence))

\* The end of one frame, for the pages whose last frame it was.
Expired(s) ==
  LET down == [j \in DOMAIN s.deferred |-> [s.deferred[j] EXCEPT !.fence = @ - 1]]
      due == {j \in DOMAIN down : down[j].fence <= 0}
  IN  [s EXCEPT
        !.ref = UnpinnedEach(@, [j \in due |-> down[j].blocks]),
        !.deferred = Only(down, {d \in Range(down) : d.fence > 0})]

\* A fence is one frame closer.
Closer(x) == [x EXCEPT !.fence = Max({0, @ - 1})]

\* Faulty Elapsed: the seats' fences are never passed.
ElapsedPages(s) ==
  [Expired(s) EXCEPT !.pending = [k \in DOMAIN @ |-> Closer(@[k])]]

\* One frame has retired.
Elapsed(s) ==
  [Expired(s) EXCEPT !.pool.seat = [i \in Seats |-> Closer(@[i])],
                     !.pending = [k \in DOMAIN @ |-> Closer(@[k])]]

-----------------------------------------------------------------------------
\* Between attempts: arrivals, aborts and resets.

Idle == attempt.phase = "idle"

Arrive(r) ==
  /\ Idle /\ req[r].status = "absent"
  /\ \A i \in DOMAIN Arrivals : Arrivals[i] = r =>
       \A j \in 1 .. i - 1 : req[Arrivals[j]].status # "absent"
  /\ req' = [req EXCEPT ![r].status = "waiting"]
  /\ waiting' = Append(waiting, r)
  /\ UNCHANGED <<st, running, skipped, frames, device, ring, attempt, disturbances, passed>>

Abort(r) ==
  /\ Idle /\ req[r].status \in {"waiting", "running"}
  /\ disturbances < MaxDisturbances
  /\ req' = [req EXCEPT ![r].status = "aborted"]
  /\ running' = Without(running, r)
  /\ waiting' = Without(waiting, r)
  /\ skipped' = skipped \ {r}
  /\ st' = FreeRequestBlocks(st, r, FALSE, LastFrame(frames, r))
  /\ disturbances' = disturbances + 1
  /\ UNCHANGED <<frames, device, ring, attempt, passed>>

\* Hot seats lose their checkpoint, and so will those still pending.
ResetPrefixCache ==
  /\ Idle /\ disturbances < MaxDisturbances
  /\ st' = [st EXCEPT
       !.pool = Invalidated(@),
       !.ref = UnpinnedEach(@, [i \in Hot(st.pool) |-> st.pool.seat[i].blocks]),
       !.frontiers = [k \in DOMAIN @ |-> IF k \in DOMAIN st.pending THEN Lost(@[k])
                                         ELSE @[k]]]
  /\ disturbances' = disturbances + 1
  /\ UNCHANGED <<req, running, waiting, skipped, frames, device, ring, attempt, passed>>

-----------------------------------------------------------------------------
\* The preview of an attempt: the ring's grants.

\* A finished request whose frontier is known, but whose frame is still queued,
\* will be a longer hit than any seat offered now.
WaitingForResident(r) ==
  \E k \in DOMAIN st.pending :
    /\ st.pending[k].fence > 0
    /\ st.pending[k].salt = SaltOf[r]
    /\ r \in Reads
    /\ k \in DOMAIN st.frontiers
    /\ st.frontiers[k].known
    /\ st.frontiers[k].remaining = 0
    /\ IsPrefix(st.frontiers[k].tokens, AllTokens(r))

OfferFor(r) == Offer(st.pool, AllTokens(r), SaltOf[r], r \in Reads)

Previewed(r) == IF WaitingForResident(r) THEN NoOffer ELSE OfferFor(r)

Prefilling(r) == req[r].computed < Len(Prompt[r])

\* A one-token hot hit becomes a verify row, which must not be cut.
AdmissionRow(r) ==
  LET offer == Previewed(r)
      hit == IF offer # NoOffer /\ offer.warm THEN Cursor(st.pool.seat[offer.seat]) ELSE 0
      demand == Len(AllTokens(r)) - hit
  IN  [demand   |-> IF demand = 1 THEN 1 + Drafts ELSE demand,
       eligible |-> offer # NoOffer,
       new      |-> TRUE,
       least    |-> IF demand = 1 THEN 1 + Drafts ELSE 1]

PrefillRow(r) ==
  [demand |-> Demand(r), eligible |-> ~Saturated(r), new |-> FALSE, least |-> 1]

\* The running requests past their prompts that have something to run, with
\* their demands.
Decodes ==
  LET decoding == Only(running, {r \in Request :
                    ~Prefilling(r) /\ Demand(r) > 0 /\ ~Saturated(r)})
  IN  [i \in DOMAIN decoding |-> [key |-> decoding[i], demand |-> Demand(decoding[i])]]

Slots == Max({0, MaxRunning - Len(running)})

\* prepare: decodes in running order, prefills and waiting requests in the ring.  Their
\* order is that of newcomers to the ring, of which none was passed over before.
BeginSchedule ==
  LET keys == Only(running, {r \in Request : Prefilling(r)}) \o waiting
      members == Members(ring, keys)
      rows == [r \in Range(keys) |->
                 IF r \in Range(waiting) THEN AdmissionRow(r) ELSE PrefillRow(r)]
      grants == Grants(members, Budget, Decodes, rows, Slots)
  IN  /\ Idle /\ Len(frames) < Depth
      /\ running # <<>> \/ waiting # <<>>
      /\ attempt' = [phase |-> "schedule", next |-> 1, rows |-> <<>>,
                     left |-> Budget, grants |-> grants, preempted |-> FALSE]
      /\ ring' = Rotated(members)
      /\ passed' = [r \in Request |->
           IF /\ r \in Range(keys) \ DOMAIN grants
              /\ rows[r].eligible /\ (rows[r].new => Slots > 0)
           THEN passed[r] + 1 ELSE 0]
      /\ UNCHANGED <<st, req, running, waiting, skipped, frames, device, disturbances>>

Granted(r) == IF r \in DOMAIN attempt.grants THEN attempt.grants[r] ELSE 0

-----------------------------------------------------------------------------
\* Native allocation, with the resident seats as a reserve.

\* The native allocator finds pages for the request's tokens and lookahead.
Fits(held, tokens) == Lacking(held, tokens + Drafts) <= Cardinality(Free(st.ref))

NewPages(held, tokens) ==
  SubSeq(Ascending(Free(st.ref)), 1, Lacking(held, tokens + Drafts))

\* Inactive hot residents give up their pages before a request is preempted.
EvictHot(exclude) ==
  LET victims == Evictable(st.pool, exclude) IN
  /\ victims # <<>>
  /\ st' = [st EXCEPT !.pool = Evicted(@, Head(victims)),
                      !.ref = Unpinned(@, st.pool.seat[Head(victims)].blocks)]

\* The known tokens among the i-th to the j-th.
Slice(tokens, i, j) == SubSeq(tokens, i, Min({j, Len(tokens)}))

\* What the worker is told of a scheduled request: the row follows a sample, and
\* begins with it, or it has tokens of the request as inputs.
Row(r, lease, query, drafts, from, sampling, limit) ==
  [seat |-> lease.seat, epoch |-> lease.epoch, query |-> query, drafts |-> drafts,
   sampling |-> sampling, follows |-> req[r].drafting \/ drafts > 0,
   decode |-> from >= Len(Prompt[r]), limit |-> limit,
   inputs |-> Slice(AllTokens(r), from + 1, from + query),
   ahead  |-> Slice(AllTokens(r), from + query + 1, from + query + 1)]

NoLimit == 0

\* The native counters after a row is scheduled.
Scheduled(q, computed, row) ==
  [q EXCEPT !.computed = computed + row.query,
            !.placeholders = @ + (IF row.sampling THEN 1 + row.drafts ELSE 0),
            !.drafting = @ \/ row.sampling,
            !.lease = <<row.seat, row.epoch>>]

-----------------------------------------------------------------------------
\* The running requests, in the order of their admission.

Query(r) ==
  IF Saturated(r) THEN 0 ELSE Min({Demand(r), attempt.left, Granted(r)})

\* The places the loop has not reached yet, those left out that it passes over
\* because they may have no token in this frame.
ToServe == {i \in attempt.next .. Len(running) : Query(running[i]) > 0}

Serving == attempt.phase = "schedule" /\ ToServe # {}

Served == running[Min(ToServe)]

ScheduleRunning ==
  LET r == Served
      n == Query(r)
      seat == SeatOf(st.pool, r)
      due == Len(AllTokens(r)) + req[r].placeholders - req[r].computed
      row == Row(r, [seat |-> seat, epoch |-> st.pool.seat[seat].epoch], n,
                 IF req[r].drafting THEN Max({0, n - due}) ELSE 0,
                 req[r].computed, n >= due, NoLimit)
      pages == NewPages(st.held[r], req[r].computed + n)
  IN  /\ Serving
      /\ Fits(st.held[r], req[r].computed + n)
      /\ st' = [st EXCEPT !.held[r] = @ \o pages, !.ref = Pinned(@, pages)]
      /\ req' = [req EXCEPT ![r] = Scheduled(@, @.computed, row)]
      /\ attempt' = [attempt EXCEPT !.next = Min(ToServe) + 1, !.left = @ - n,
                                    !.rows = Put(@, r, row)]
      /\ UNCHANGED <<running, waiting, skipped, frames, device, ring, disturbances, passed>>

EvictForRunning ==
  /\ Serving
  /\ ~Fits(st.held[Served], req[Served].computed + Query(Served))
  /\ EvictHot({})
  /\ UNCHANGED <<req, running, waiting, skipped, frames, device, ring, attempt, disturbances,
                 passed>>

\* The request admitted last returns to the head of the waiting queue, behind the
\* requests that were passed over; its queued frames still write its seat.  No
\* request is admitted in this attempt.
PreemptLast ==
  LET r == Served
      victim == Last(running)
  IN  /\ Serving
      /\ ~Fits(st.held[r], req[r].computed + Query(r))
      /\ Evictable(st.pool, {}) = <<>>
      /\ st' = FreeRequestBlocks(st, victim, FALSE, LastFrame(frames, victim))
      /\ req' = [req EXCEPT ![victim] = [@ EXCEPT !.status = "waiting", !.computed = 0,
                                          !.placeholders = 0, !.drafting = FALSE]]
      /\ running' = Front(running)
      /\ waiting' = Only(waiting, skipped) \o <<victim>> \o Only(waiting, Request \ skipped)
      /\ attempt' = [attempt EXCEPT !.preempted = TRUE]
      /\ UNCHANGED <<skipped, frames, device, ring, disturbances, passed>>

-----------------------------------------------------------------------------
\* The waiting requests, in queue order, when the running ones are served.

\* A request without a grant is passed over: it moves to the skipped queue, which
\* the next attempts visit first.
Queued == Only(waiting, {r \in Request : Granted(r) > 0})

Candidate == Head(Queued)

\* The loop over the waiting requests is entered and goes on: there is a token and a
\* slot for another request, and nobody was preempted.
Open ==
  /\ attempt.phase = "schedule" => ToServe = {}
  /\ ~attempt.preempted /\ attempt.left > 0 /\ Len(running) < MaxRunning

\* The requests without a grant that the loop has met when it comes to its
\* candidate, or when nobody is left.
PassedOver ==
  IF ~Open THEN {}
  ELSE {waiting[i] : i \in {i \in DOMAIN waiting :
          \A j \in 1 .. i : Granted(waiting[j]) = 0}}

\* There is a request to admit and a seat for it.
Admitting ==
  /\ attempt.phase = "schedule" /\ Open
  /\ Queued # <<>>
  /\ ~WaitingForResident(Candidate) /\ OfferFor(Candidate) # NoOffer

\* The seat is chosen, and a cold victim's checkpoint released before the new
\* pages are charged.
ConsiderWaiting ==
  LET offer == OfferFor(Candidate)
      pool == IF offer.warm THEN st.pool ELSE Discard(st.pool, offer)
  IN  /\ Admitting
      /\ st' = [st EXCEPT
           !.pool = pool,
           !.ref = IF offer.warm THEN @ ELSE Unpinned(@, st.pool.seat[offer.seat].blocks),
           !.offers[Candidate] = [offer EXCEPT !.epoch = pool.seat[offer.seat].epoch]]
      /\ attempt' = [attempt EXCEPT !.phase = "allocate"]
      /\ UNCHANGED <<req, running, waiting, skipped, frames, device, ring, disturbances, passed>>

\* The pages and the tokens an offer brings.
HitBlocks(offer) == IF offer.warm THEN st.pool.seat[offer.seat].blocks ELSE <<>>
HitCursor(offer) == IF offer.warm THEN Cursor(st.pool.seat[offer.seat]) ELSE 0

\* The tokens of the first row; one missing token is widened to a verify row.
Missing(r) == Len(AllTokens(r)) - HitCursor(st.offers[r])

FirstQuery(r) ==
  Min({IF Missing(r) = 1 THEN 1 + Drafts ELSE Missing(r), attempt.left, Granted(r)})

AdmissionFits(r) ==
  Fits(HitBlocks(st.offers[r]), HitCursor(st.offers[r]) + FirstQuery(r))

\* The request claims its seat; a warm one takes over the checkpoint's pages and
\* its cursor.  The worker learns how much output the seat may still take.
Admit ==
  LET r == Candidate
      offer == st.offers[r]
      hit == HitBlocks(offer)
      cursor == HitCursor(offer)
      n == FirstQuery(r)
      pages == NewPages(hit, cursor + n)
      remaining == MaxTokens[r] - Len(req[r].out)
      claimed == Claim(st.pool, r, offer)
      lease == [seat |-> offer.seat, epoch |-> claimed.seat[offer.seat].epoch]
      row == Row(r, lease, n, IF Missing(r) = 1 THEN n - 1 ELSE 0, cursor,
                 n >= Missing(r), remaining)
  IN  /\ attempt.phase = "allocate" /\ AdmissionFits(r)
      /\ st' = [st EXCEPT
           !.pool = Transferred(claimed, r),
           \* the native allocation pins the hit, the resident lets go of it
           !.ref = Unpinned(Pinned(Pinned(@, hit), pages),
                            claimed.seat[offer.seat].blocks),
           !.held[r] = hit \o pages,
           !.frontiers = Put(@, [rid |-> r, seat |-> lease.seat, epoch |-> lease.epoch],
                             NewFrontier(AllTokens(r), cursor, remaining)),
           !.offers[r] = NoOffer]
      /\ req' = [req EXCEPT ![r] = Scheduled([@ EXCEPT !.status = "running"], cursor, row)]
      /\ running' = Append(running, r)
      /\ waiting' = Without(waiting, r)
      /\ skipped' = (skipped \cup PassedOver) \ {r}
      /\ attempt' = [attempt EXCEPT !.phase = "schedule", !.next = Len(running) + 2,
                                    !.left = @ - n, !.rows = Put(@, r, row)]
      /\ UNCHANGED <<frames, device, ring, disturbances, passed>>

\* The seat on offer is not evicted for its own request.
EvictForWaiting ==
  /\ attempt.phase = "allocate" /\ ~AdmissionFits(Candidate)
  /\ EvictHot({st.offers[Candidate].seat})
  /\ UNCHANGED <<req, running, waiting, skipped, frames, device, ring, attempt, disturbances,
                 passed>>

\* The frame is queued.  An attempt that scheduled nothing waits for a result.
QueueFrame ==
  /\ frames' = IF attempt.rows = <<>> THEN frames ELSE Append(frames, attempt.rows)
  /\ attempt' = [Resting EXCEPT !.phase =
                   IF attempt.rows = <<>> /\ frames # <<>> THEN "collect" ELSE "idle"]
  /\ skipped' = skipped \cup PassedOver
  /\ UNCHANGED <<st, req, running, waiting, device, ring, disturbances, passed>>

\* The native allocator has no pages: admission ends, the offer stays behind.
RejectWaiting ==
  /\ attempt.phase = "allocate" /\ ~AdmissionFits(Candidate)
  /\ Evictable(st.pool, {st.offers[Candidate].seat}) = <<>>
  /\ QueueFrame

\* Nobody else can be served or admitted.
EndSchedule ==
  /\ attempt.phase = "schedule" /\ ~Serving /\ ~Admitting
  /\ QueueFrame

-----------------------------------------------------------------------------
\* The worker's oldest frame and its result.

\* What the model may sample for a row: nothing inside a prompt, one token at its
\* end, an accepted run for a verify row.
Samples(row) ==
  IF ~row.sampling THEN {<<>>}
  ELSE UNION {[1 .. n -> Token] : n \in 1 .. 1 + row.drafts}

\* A seat of another epoch is cleared; a new request sets the seat's limit.
Prepared(d, row) ==
  LET fresh == IF d.epoch = row.epoch THEN d
               ELSE [d EXCEPT !.epoch = row.epoch, !.tokens = <<>>]
  IN  IF row.limit = NoLimit THEN fresh ELSE [fresh EXCEPT !.remaining = row.limit]

\* A wave of rows past their prompts, none wider than its drafts, takes a decode
\* frame, in which all are verify rows (capacity).
DecodeFrame(frame) ==
  \A r \in DOMAIN frame : frame[r].decode /\ frame[r].query <= 1 + Drafts

\* Any other frame has a verify row where the runner counts drafts: a decode that was
\* cut to its one sampled token is a prefill row there.
VerifyRole(frame, r) == DecodeFrame(frame) \/ frame[r].drafts > 0

\* The tokens whose state the row has run to, with a lookahead it already knows.
Ran(d, row) ==
  IF row.follows THEN IF d.tokens = <<>> THEN SubSeq(row.inputs, 1, 1) ELSE d.tokens
  ELSE (IF d.tokens = <<>> THEN <<>> ELSE Front(d.tokens)) \o row.inputs
         \o (IF row.sampling THEN <<>> ELSE row.ahead)

\* What the limit leaves of a sample.
Limited(d, sampled) == SubSeq(sampled, 1, Min({Len(sampled), d.remaining}))

\* Faulty Executed: the limit does not stop the writes.
ExecutedUnlimited(d, row, role, sampled) ==
  [d EXCEPT !.tokens = Ran(d, row) \o sampled, !.remaining = @ - Len(Limited(d, sampled))]

\* The device state of a seat as the tokens it holds, with the lookahead token.  A
\* verify row selects the state after the accepted run, cut at the limit, and writes
\* nothing when no output is left; a prefill row runs on, whatever the limit.
Executed(d, row, role, sampled) ==
  IF role /\ d.remaining = 0 THEN d
  ELSE [d EXCEPT
         !.tokens = Ran(d, row) \o (IF role THEN Limited(d, sampled) ELSE sampled),
         !.remaining = @ - Len(Limited(d, sampled))]

\* The output a request keeps of a row: up to the stop token or its limit.
Kept(r, sampled) ==
  LET room == SubSeq(sampled, 1, Min({Len(sampled), MaxTokens[r] - Len(req[r].out)}))
      stops == {i \in DOMAIN room : room[i] = Stop}
  IN  IF stops = {} THEN room ELSE SubSeq(room, 1, Min(stops))

\* The native scheduler takes a result for the request's latest lease only.
Takes(r, row) ==
  /\ req[r].status \in {"waiting", "running"}
  /\ req[r].lease = <<row.seat, row.epoch>>
  /\ row.sampling

After(q, r, row, sampled) ==
  LET out == q.out \o Kept(r, sampled)
      rejected == 1 + row.drafts - Len(sampled)
      status == CASE Last(out) = Stop -> "stopped"
                  [] Last(out) # Stop /\ Len(out) = MaxTokens[r] -> "capped"
                  [] OTHER -> q.status
  IN  IF q.status = "waiting" THEN [q EXCEPT !.out = out, !.status = status]
      ELSE [q EXCEPT !.out = out, !.status = status,
                     !.computed = @ - rejected,
                     !.placeholders = @ - rejected - Len(Kept(r, sampled))]

\* The frontier follows the raw sample of every row, of finished requests too.
Advanced(s, frame, sampled) ==
  [s EXCEPT !.frontiers = [k \in DOMAIN @ |->
     IF /\ k.rid \in DOMAIN frame
        /\ frame[k.rid].seat = k.seat /\ frame[k.rid].epoch = k.epoch
     THEN Advance(@[k], frame[k.rid].query, frame[k.rid].drafts, sampled[k.rid])
     ELSE @[k]]]

\* Requests end one after the other, with the frames of the queue ahead of them.
Ended(s, ended, queue) ==
  LET after[i \in 0 .. Len(ended)] ==
        IF i = 0 THEN s
        ELSE FreeRequestBlocks(after[i - 1], ended[i], TRUE, LastFrame(queue, ended[i]))
  IN  after[Len(ended)]

UpdateFromOutput ==
  LET frame == Head(frames) IN
  /\ attempt.phase \in {"idle", "collect"}
  /\ frames # <<>>
  /\ \E sampled \in [DOMAIN frame -> UNION {Samples(frame[r]) : r \in DOMAIN frame}] :
       /\ \A r \in DOMAIN frame : sampled[r] \in Samples(frame[r])
       /\ device' = [i \in Seats |->
            LET rows == {r \in DOMAIN frame : frame[r].seat = i} IN
            IF rows = {} THEN device[i]
            ELSE LET r == CHOOSE r \in rows : TRUE
                 IN  Executed(Prepared(device[i], frame[r]), frame[r],
                              VerifyRole(frame, r), sampled[r])]
       /\ req' = [r \in Request |->
            IF r \in DOMAIN frame /\ Takes(r, frame[r])
            THEN After(req[r], r, frame[r], sampled[r]) ELSE req[r]]
       /\ LET same == {r \in Request : req'[r].status = req[r].status}
              ended == Only(running \o waiting, Request \ same)
          IN  /\ st' = Publish(Ended(Elapsed(Advanced(st, frame, sampled)), ended,
                                     Tail(frames)))
              /\ running' = Only(running, same)
              /\ waiting' = Only(waiting, same)
              /\ skipped' = skipped \cap same
  /\ frames' = Tail(frames)
  /\ attempt' = Resting
  /\ UNCHANGED <<ring, disturbances, passed>>

-----------------------------------------------------------------------------

Attempt ==
  \/ BeginSchedule
  \/ ScheduleRunning \/ EvictForRunning \/ PreemptLast
  \/ ConsiderWaiting \/ Admit \/ EvictForWaiting \/ RejectWaiting
  \/ EndSchedule

Next ==
  \/ \E r \in Request : Arrive(r) \/ Abort(r)
  \/ ResetPrefixCache
  \/ Attempt
  \/ UpdateFromOutput

Spec == Init /\ [][Next]_vars

\* The engine loop finishes the attempts it begins, begins one when it may, and
\* collects the results of queued frames.  This is weak fairness of Attempt and
\* of UpdateFromOutput with their guards written out: no other step ends an
\* attempt, begins one or shortens the queue.
FairSpec ==
  /\ Spec
  /\ []<>(attempt.phase \in {"idle", "collect"})
  /\ <>[](Idle /\ Len(frames) < Depth /\ running \o waiting # <<>>)
       => []<><<attempt.phase = "idle" /\ attempt'.phase = "schedule">>_attempt
  /\ <>[](attempt.phase \in {"idle", "collect"} /\ frames # <<>>)
       => []<><<Len(frames') < Len(frames)>>_frames

-----------------------------------------------------------------------------
\* Properties.

\* A seat belongs to one lease as long as a queued frame may write it, and
\* exactly the running requests own seats.
OneWriter ==
  /\ \A i, j \in DOMAIN frames : \A q \in DOMAIN frames[i], r \in DOMAIN frames[j] :
       frames[i][q].seat = frames[j][r].seat
         => q = r /\ frames[i][q].epoch = frames[j][r].epoch
  /\ \A i \in DOMAIN frames : \A r \in DOMAIN frames[i] :
       LET seat == st.pool.seat[frames[i][r].seat] IN
       seat.owner \in {r, Nobody} /\ (seat.owner = Nobody => seat.fence >= i)
  /\ Holders(st.pool) = Range(running)

\* What the adapter asserts never fails.
NothingRaises ==
  /\ \A k \in DOMAIN st.pending :
       /\ st.pool.seat[k.seat].owner = Nobody
       /\ st.pool.seat[k.seat].epoch = k.epoch
  /\ \A s \in Seats : st.pool.seat[s].owner # Nobody => st.pool.seat[s].blocks = <<>>
  /\ attempt.phase = "allocate" => ClaimAccepts(st.pool, Candidate, st.offers[Candidate])

\* A hot seat's checkpoint is what the device's state of that seat holds, and a
\* running request that trusts its frontier is where the device is when no
\* frame of it is queued.
CheckpointExact ==
  /\ \A s \in Hot(st.pool) :
       /\ device[s].epoch = st.pool.seat[s].epoch
       /\ device[s].tokens = st.pool.seat[s].tokens
  /\ \A k \in DOMAIN st.frontiers :
       /\ st.frontiers[k].known /\ st.frontiers[k].cursor > 0
       /\ st.pool.seat[k.seat].owner = k.rid
       /\ LastFrame(frames, k.rid) = 0
       => /\ device[k.seat].epoch = k.epoch
          /\ device[k.seat].tokens = Checkpoint(st.frontiers[k])

\* Every page is counted once by each that holds it: a request, a checkpoint, a
\* pending checkpoint or a deferred free.
PagesExact ==
  \A p \in Page :
    st.ref[p] =
      Cardinality({r \in Request : p \in Range(st.held[r])})
      + Cardinality({s \in Seats : p \in Range(st.pool.seat[s].blocks)})
      + Cardinality({k \in DOMAIN st.pending : p \in Range(st.pending[k].blocks)})
      + Cardinality({i \in DOMAIN st.deferred : p \in Range(st.deferred[i].blocks)})

\* A prefill that could have been served waits at most one turn of the ring for
\* its grant.
OneTurn == \A r \in Request : passed[r] < Cardinality(Request)

\* Every request that arrived ends.
EveryRequestEnds ==
  \A r \in Request :
    req[r].status = "waiting" ~> req[r].status \in {"stopped", "capped", "aborted"}
=============================================================================
