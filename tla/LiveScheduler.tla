--------------------------- MODULE LiveScheduler ---------------------------
(***************************************************************************)
(* The completed-wave scheduler of the serving host                        *)
(* (live/llm/qwen35/scheduler.py) over the resident table and the          *)
(* generation protocol each request runs (generation.py).                  *)
(*                                                                         *)
(* One tick admits waiting requests, consumes the replies of the last      *)
(* wave, reserves pages oldest request first, preempting the newest when   *)
(* the pool is short, and runs one family of steps as a wave.  The tick is *)
(* taken apart into its loop iterations by `phase`; submissions and        *)
(* cancellations come only between ticks (phase "idle"), because the event *)
(* loop has one writer (ingress.py).                                       *)
(*                                                                         *)
(* The model of the language model is Greedy: the token it predicts after  *)
(* a token sequence.  A seat's anchor is the prediction that the last      *)
(* target step left in the continuation state.                             *)
(***************************************************************************)
EXTENDS ResidentTable

CONSTANTS
  Question,       \* requests: [prompt, count, stops, cache_salt]
  Greedy(_),      \* the target model's next token
  NoAnchor,       \* anchor_token of a cleared seat
  PrefillWidths,  \* widths of the captured prefill graphs
  ContextTokens,  \* tokens the model's context holds
  MaxPending,     \* queue limit
  MaxRequests     \* bound: requests submitted

ASSUME SchedulerAssumption ==
  /\ Question \subseteq [prompt : Seq(Token), count : Int, stops : SUBSET Token,
                         cache_salt : Salt]
  /\ NoAnchor \notin Token
  /\ PrefillWidths \subseteq Nat \ {0, 1}
  /\ ContextTokens \in Nat /\ MaxPending \in Nat /\ MaxRequests \in Nat
  /\ \A n \in 1 .. ContextTokens : \A s \in [1 .. n -> Token] : Greedy(s) \in Token

Key == 1 .. MaxRequests

VARIABLES
  table,    \* root.residents_table
  anchor,   \* continuation.anchor_token, per seat
  asked,    \* the questions submitted; a key is its position (order) here
  waiting,  \* the deque of keys to admit
  active,   \* the keys that hold a lease
  req,      \* per key, the Request and the protocol it runs; its status is absent,
            \* waiting, active, lost, done or cancelled
  replied,  \* the active keys whose step has its reply
  drain,    \* pressure_drain
  phase     \* where the tick is: idle, admit, consume, reserve or batch; failed
            \* and closed end the scheduler

vars == <<table, anchor, asked, waiting, active, req, replied, drain, phase>>

\* Where generation_steps is suspended: before its first step, or at the
\* PageRequest or ModelStep it yielded. Else its point is none, start or closed.
PagePoints == {"prefill_pages", "decode_pages"}
DraftPoints ==
  {"prefill_draft", "prefill_shift", "decode_draft", "decode_propose",
   "decode_repair"}
TargetPoints == {"prefill_target", "decode_verify"}

NoLease == [seat |-> 0, incarnation |-> 0, request |-> NoRequest, generation |-> 0]

\* A request that runs no protocol.
Fresh ==
  [status |-> "absent", output |-> <<>>, progress |-> <<>>,
   lease |-> NoLease, cached |-> 0, emitted |-> <<>>,
   point |-> "none", width |-> 0, chunk |-> <<>>, age |-> 0]

Init ==
  /\ table = NewTable(0)
  /\ anchor = [i \in Seats |-> NoAnchor]
  /\ asked = <<>>
  /\ waiting = <<>>
  /\ active = {}
  /\ req = [k \in Key |-> Fresh]
  /\ replied = {}
  /\ drain = FALSE
  /\ phase = "idle"

-----------------------------------------------------------------------------
\* The model and the reference answer.

\* Every token of t is the one predicted after s and the tokens before it.
Follows(s, t) == \A i \in DOMAIN t : t[i] = Greedy(s \o SubSeq(t, 1, i - 1))

\* The n greedy tokens that continue s.
Continuation(s, n) == CHOOSE t \in [1 .. n -> Token] : Follows(s, t)

\* The tokens up to and with the first stop.
UpToStop(s, stops) ==
  LET ends == {i \in DOMAIN s : s[i] \in stops}
  IN  IF ends = {} THEN s ELSE SubSeq(s, 1, Min(ends))

Answer(q) == UpToStop(Continuation(q.prompt, q.count), q.stops)

-----------------------------------------------------------------------------
\* Requests, the protocol's position and its next step.

Pending == {k \in Key : req[k].status \in {"waiting", "active", "lost"}}

Oldest(K) == CHOOSE k \in K : \A j \in K : k <= j
Newest(K) == CHOOSE k \in K : \A j \in K : k >= j

SeatOf(k) == req[k].lease.seat

Committed(t, k) == t.seats[SeatOf(k)].tokens

\* The prompt the protocol was started with: a preempted request recomputes
\* the output it had.
Goal(k) == asked[k].prompt \o req[k].output
Quota(k) == asked[k].count - Len(req[k].output)

PrefillWidth(position, cached, goal) ==
  LET fit == {w \in PrefillWidths : position > cached /\ w <= goal - position}
  IN  IF fit = {} THEN 1 ELSE Max(fit)

\* The top of the protocol's loops: r is the request, t the table after its
\* commits.  "none" is the end of the protocol.
Resumed(t, k, r) ==
  LET position == Len(t.seats[r.lease.seat].tokens)
      goal     == Len(Goal(k))
      left     == Quota(k) - Len(r.emitted)
      stopped  == r.emitted # <<>> /\ Last(r.emitted) \in asked[k].stops
  IN  IF position < goal
      THEN [r EXCEPT !.point = "prefill_pages", !.chunk = <<>>, !.age = 0,
                     !.width = PrefillWidth(position, r.cached, goal)]
      ELSE IF left > 0 /\ ~stopped
      THEN [r EXCEPT !.point = "decode_pages", !.chunk = <<>>, !.age = 0,
                     !.width = IF left >= 3 THEN 3 ELSE 1]
      ELSE [r EXCEPT !.point = "none"]

\* The protocol returned: its lease is finished and its seat stays hot.
Completed(r) ==
  [Fresh EXCEPT !.status = "done", !.output = r.output \o r.emitted,
                !.progress = r.progress]

\* Faulty ClosedTable: closing the protocol runs no clean-up.
ClosedWithoutCleanup(t, S) == t

\* Faulty ClosedTable: the seats are finished and never evicted.
ClosedStaysHot(t, S) ==
  [t EXCEPT !.seats = [i \in Seats |-> IF i \in S
                         THEN [t.seats[i] EXCEPT !.request = NoRequest]
                         ELSE t.seats[i]]]

\* The protocols on the seats of S are closed: each drains, finishes and evicts
\* its seat, which gives back all its pages.
ClosedTable(t, S) ==
  Evict([t EXCEPT !.seats = [i \in Seats |-> IF i \in S
                               THEN [t.seats[i] EXCEPT !.request = NoRequest]
                               ELSE t.seats[i]]], S)

Unanchored(a, S) == [i \in Seats |-> IF i \in S THEN NoAnchor ELSE a[i]]

-----------------------------------------------------------------------------
\* Between ticks.

Submit(q) ==
  /\ phase = "idle"
  /\ Len(asked) < MaxRequests
  /\ Cardinality(Pending) < MaxPending
  /\ q.prompt # <<>> /\ q.count > 0
  /\ Len(q.prompt) + q.count <= ContextTokens
  /\ Len(q.prompt) + q.count <= Cardinality(Page) * PageTokens
  /\ LET k == Len(asked) + 1
     IN  /\ waiting' = Append(waiting, k)
         /\ req' = [req EXCEPT ![k].status = "waiting"]
  /\ asked' = Append(asked, q)
  /\ UNCHANGED <<table, anchor, active, replied, drain, phase>>

Cancelled(r) == [Fresh EXCEPT !.status = "cancelled", !.progress = r.progress]

Cancel(k) ==
  /\ phase = "idle"
  /\ k \in Pending
  /\ req' = [req EXCEPT ![k] = Cancelled(@)]
  /\ IF k \in active
     THEN /\ table' = ClosedTable(table, {SeatOf(k)})
          /\ anchor' = Unanchored(anchor, {SeatOf(k)})
          /\ active' = active \ {k}
          /\ replied' = replied \ {k}
          /\ UNCHANGED waiting
     ELSE /\ \E i \in DOMAIN waiting :
               waiting[i] = k /\ waiting' = RemoveAt(waiting, i)
          /\ UNCHANGED <<table, anchor, active, replied>>
  /\ UNCHANGED <<asked, drain, phase>>

\* clear_seat raises while the protocol of k is closed: the seat keeps its
\* pages, and the failure ends the pump.
SeatLost(k) ==
  /\ table' = FailedEvict(Finish(table, req[k].lease), SeatOf(k))
  /\ phase' = "failed"
  /\ UNCHANGED <<anchor, asked, waiting, drain>>

\* cancel has taken k from the active ones already; its key stays.
CancelFails(k) ==
  /\ phase = "idle"
  /\ k \in active
  /\ SeatLost(k)
  /\ req' = [req EXCEPT ![k] = [Fresh EXCEPT !.status = "lost",
                                            !.output = req[k].output,
                                            !.progress = req[k].progress]]
  /\ active' = active \ {k}
  /\ replied' = replied \ {k}

\* Every pending request is cancelled.  Closing a protocol that never started,
\* or that is closed already, runs none of its clean-up.
Close ==
  /\ phase \in {"idle", "failed"}
  /\ LET begun == {k \in active : req[k].point \notin {"start", "closed"}}
         seats == {SeatOf(k) : k \in begun}
     IN  /\ table' = ClosedTable(table, seats)
         /\ anchor' = Unanchored(anchor, seats)
  /\ req' = [k \in Key |-> IF k \in Pending THEN Cancelled(req[k]) ELSE req[k]]
  /\ waiting' = <<>>
  /\ active' = {}
  /\ replied' = {}
  /\ phase' = "closed"
  /\ UNCHANGED <<asked, drain>>

-----------------------------------------------------------------------------
\* The tick: admission.

\* Faulty BeginTick: the drain of a preempted cohort never ends.
BeginTickStillDraining ==
  /\ phase = "idle"
  /\ waiting # <<>> \/ active # {}
  /\ phase' = "admit"
  /\ UNCHANGED <<table, anchor, asked, waiting, active, req, replied, drain>>

BeginTick ==
  /\ phase = "idle"
  /\ waiting # <<>> \/ active # {}
  /\ drain' = (drain /\ active # {})
  /\ phase' = "admit"
  /\ UNCHANGED <<table, anchor, asked, waiting, active, req, replied>>

\* Faulty Admits: one request more than there are execution seats.
AdmitsOneMore ==
  waiting # <<>> /\ ~drain /\ Cardinality(active) <= ExecutionSeats

Admits == waiting # <<>> /\ ~drain /\ Cardinality(active) < ExecutionSeats

Admit ==
  /\ phase = "admit" /\ Admits
  /\ LET k == Head(waiting)
         q == asked[k]
     IN  /\ \E i \in Chosen(table, Goal(k), q.cache_salt) :
              /\ table' = Acquire(table, i, Goal(k), q.cache_salt)
              /\ anchor' = IF i \in Matches(table, Goal(k), q.cache_salt)
                           THEN anchor ELSE Unanchored(anchor, {i})
              /\ req' = [req EXCEPT
                           ![k] = [@ EXCEPT !.status = "active",
                                            !.lease = LeaseOn(table', i),
                                            !.cached = Len(table'.seats[i].tokens),
                                            !.point = "start"]]
         /\ active' = active \cup {k}
  /\ waiting' = Tail(waiting)
  /\ UNCHANGED <<asked, replied, drain, phase>>

\* acquire raises: the request has left the queue and holds no lease.
AdmitFails ==
  /\ phase = "admit" /\ Admits
  /\ LET k == Head(waiting)
         q == asked[k]
     IN  /\ \E i \in Chosen(table, Goal(k), q.cache_salt)
                       \ Matches(table, Goal(k), q.cache_salt) :
              table' = FailedEvict(table, i)
         /\ req' = [req EXCEPT ![k].status = "lost"]
  /\ waiting' = Tail(waiting)
  /\ phase' = "failed"
  /\ UNCHANGED <<anchor, asked, active, replied, drain>>

AdmissionDone ==
  /\ phase = "admit" /\ ~Admits
  /\ phase' = "consume"
  /\ UNCHANGED <<table, anchor, asked, waiting, active, req, replied, drain>>

-----------------------------------------------------------------------------
\* The tick: every reply of the last wave is consumed, in the order of
\* admission, which FirstComeFirstServed makes the order of submission.

Consumable == {k \in active : req[k].point = "start" \/ k \in replied}

Consumes(k) ==
  /\ phase = "consume"
  /\ Consumable # {}
  /\ k = Oldest(Consumable)

\* The request goes on with r, or its protocol returned.
Proceed(t, k, r) ==
  /\ IF r.point = "none"
     THEN /\ table' = Finish(t, r.lease)
          /\ req' = [req EXCEPT ![k] = Completed(r)]
          /\ active' = active \ {k}
     ELSE /\ table' = t
          /\ req' = [req EXCEPT ![k] = r]
          /\ UNCHANGED active
  /\ replied' = replied \ {k}
  /\ UNCHANGED <<asked, waiting, drain, phase>>

Start(k) ==
  /\ Consumes(k)
  /\ req[k].point = "start"
  /\ Proceed(table, k, Resumed(table, k, req[k]))
  /\ UNCHANGED anchor

\* The step after a draft reply or a target reply that commits nothing.
FollowingPoint(r) ==
  CASE r.point = "prefill_draft"  -> "prefill_target"
    [] r.point = "prefill_target" -> "prefill_shift"
    [] r.point = "decode_draft"   -> IF r.width = 3 THEN "decode_propose"
                                                    ELSE "decode_verify"
    [] r.point = "decode_propose" -> "decode_verify"

Follow(k) ==
  /\ Consumes(k)
  /\ \/ req[k].point \in {"prefill_draft", "decode_draft", "decode_propose"}
     \/ req[k].point = "prefill_target" /\ req[k].width > 1
  /\ Proceed(table, k,
             [req[k] EXCEPT !.point = FollowingPoint(req[k]), !.age = 0])
  /\ UNCHANGED anchor

\* The seat's anchor, cursors and committed tokens advance together; emitted
\* is empty while the prompt is prefilled.
CommitChunk(k, chunk, emitted) ==
  LET t == Commit(table, req[k].lease, chunk)
      r == [req[k] EXCEPT !.emitted = @ \o emitted, !.progress = @ \o emitted]
  IN  /\ Proceed(t, k, Resumed(t, k, r))
      /\ anchor' = [anchor EXCEPT ![SeatOf(k)] = Greedy(Committed(t, k))]

\* The last reply of a prefill chunk: the target's when it is one token wide,
\* the shifted draft's when it is wider.
CommitPrefill(k) ==
  /\ Consumes(k)
  /\ \/ req[k].point = "prefill_target" /\ req[k].width = 1
     \/ req[k].point = "prefill_shift"
  /\ LET position == Len(Committed(table, k))
     IN  CommitChunk(k, SubSeq(Goal(k), position + 1, position + req[k].width), <<>>)

\* What the target predicts in a verification wave over its own tokens: the
\* anchor it predicted before, and the two tokens behind it.
Predicted(k) ==
  LET first  == Append(Committed(table, k), anchor[SeatOf(k)])
      second == Append(first, Greedy(first))
  IN  <<anchor[SeatOf(k)], Greedy(first), Greedy(second)>>

\* Faulty Accepted: accepted drafts run past a stop.
AcceptedPastStop(k, n) == SubSeq(Predicted(k), 1, n)

\* The target verifies the anchor and the draft tokens: n of them agree with
\* its own predictions, and nothing after a stop is taken.
Accepted(k, n) == UpToStop(SubSeq(Predicted(k), 1, n), asked[k].stops)

Verify(k) ==
  /\ Consumes(k)
  /\ req[k].point = "decode_verify"
  /\ \E n \in 1 .. req[k].width :
       IF Len(Accepted(k, n)) > 1
       THEN /\ Proceed(table, k, [req[k] EXCEPT !.point = "decode_repair",
                                                !.chunk = Accepted(k, n),
                                                !.age = 0])
            /\ UNCHANGED anchor
       ELSE CommitChunk(k, Accepted(k, n), Accepted(k, n))

CommitRepaired(k) ==
  /\ Consumes(k)
  /\ req[k].point = "decode_repair"
  /\ CommitChunk(k, req[k].chunk, req[k].chunk)

ConsumptionDone ==
  /\ phase = "consume" /\ Consumable = {}
  /\ phase' = "reserve"
  /\ UNCHANGED <<table, anchor, asked, waiting, active, req, replied, drain>>

-----------------------------------------------------------------------------
\* The tick: page reservation, oldest request first.

Reserving == {k \in active : req[k].point \in PagePoints}

Reach(k) == Len(Committed(table, k)) + req[k].width

Reserves(k) ==
  /\ phase = "reserve"
  /\ Reserving # {}
  /\ k = Oldest(Reserving)

\* The step generation_steps yields once it has its slots.
GrantedPoint(k) ==
  IF req[k].point = "decode_pages" THEN "decode_draft"
  ELSE IF req[k].width = 1 /\ Committed(table, k) # <<>> THEN "prefill_draft"
  ELSE "prefill_target"

ReservePages(k) ==
  LET l == req[k].lease
      n == Reach(k)
  IN  /\ Reserves(k)
      /\ CanReserve(table, l, n)
      /\ \E g \in Grants(AfterShed(table, l, n), Needed(table, l, n)) :
           /\ g = CHOOSE h \in Grants(AfterShed(table, l, n), Needed(table, l, n)) : TRUE
           /\ table' = Reserve(table, l, n, g)
      /\ anchor' = Unanchored(anchor, Shed(table, Needed(table, l, n)))
      /\ req' = [req EXCEPT ![k] = [@ EXCEPT !.point = GrantedPoint(k), !.age = 0]]
      /\ UNCHANGED <<asked, waiting, active, replied, drain, phase>>

\* Faulty SavedOutput: output that was recomputed is saved again.
SavedTwice(k) ==
  req[k].output \o SubSeq(Committed(table, k), Len(asked[k].prompt) + 1,
                          Len(Committed(table, k)))

\* The output a preempted request keeps: what it had, and the tokens its seat
\* committed beyond the prompt and that output.
SavedOutput(k) ==
  req[k].output \o SubSeq(Committed(table, k), Len(Goal(k)) + 1,
                          Len(Committed(table, k)))

\* Faulty Requeued: behind requests that came later.
RequeuedLast(v) == Append(waiting, v)

\* The keys of s, which are distinct, in their order.
Sorted(s) ==
  CHOOSE t \in [DOMAIN s -> Range(s)] : \A i, j \in DOMAIN t : i < j => t[i] < t[j]

Requeued(v) == Sorted(Append(waiting, v))

\* The newest request loses its seat and returns to its place in the queue.
Preempt(k) ==
  LET v == Newest(active)
  IN  /\ Reserves(k)
      /\ ~CanReserve(table, req[k].lease, Reach(k))
      /\ req' = [req EXCEPT ![v] =
                   [Fresh EXCEPT !.status = "waiting",
                                 !.output = SavedOutput(v),
                                 !.progress = req[v].progress]]
      /\ table' = ClosedTable(table, {SeatOf(v)})
      /\ anchor' = Unanchored(anchor, {SeatOf(v)})
      /\ active' = active \ {v}
      /\ replied' = replied \ {v}
      /\ waiting' = Requeued(v)
      /\ drain' = TRUE
      /\ UNCHANGED <<asked, phase>>

\* clear_seat raises at an idle seat that reserve evicts.
ReserveFails(k) ==
  LET l    == req[k].lease
      shed == Shed(table, Needed(table, l, Reach(k)))
  IN  /\ Reserves(k)
      /\ CanReserve(table, l, Reach(k))
      /\ \E v \in shed :
           table' = FailedEvict(Evict(table, shed \cap OlderVictims(table, v)), v)
      /\ phase' = "failed"
      /\ UNCHANGED <<anchor, asked, waiting, active, req, replied, drain>>

\* The victim's output is saved and its protocol closed, and it is still active.
PreemptFails(k) ==
  LET v == Newest(active)
  IN  /\ Reserves(k)
      /\ ~CanReserve(table, req[k].lease, Reach(k))
      /\ SeatLost(v)
      /\ req' = [req EXCEPT ![v] = [@ EXCEPT !.output = SavedOutput(v),
                                            !.emitted = <<>>,
                                            !.point = "closed"]]
      /\ UNCHANGED <<active, replied>>

ReservationDone ==
  /\ phase = "reserve" /\ Reserving = {}
  /\ phase' = "batch"
  /\ UNCHANGED <<table, anchor, asked, waiting, active, req, replied, drain>>

-----------------------------------------------------------------------------
\* The tick: one wave.

\* The tokens of the step a request waits for.
StepTokens(k) ==
  CASE req[k].point \in TargetPoints \cup {"prefill_shift"} -> req[k].width
    [] req[k].point = "decode_repair" -> Len(req[k].chunk) - 1
    [] OTHER -> 1

Family(k) == <<req[k].point \in TargetPoints, StepTokens(k)>>

Rows(f) == {k \in active : Family(k) = f}

OldestAge(K) == Max({req[k].age : k \in K})

\* Faulty Precedes: waiting time does not count.
PrecedesBySize(f, g) ==
  \/ Cardinality(Rows(f)) > Cardinality(Rows(g))
  \/ /\ Cardinality(Rows(f)) = Cardinality(Rows(g))
     /\ Oldest(Rows(f)) < Oldest(Rows(g))

\* Family f goes before g: longest ready, then larger, then older.
Precedes(f, g) ==
  LET ready  == OldestAge(Rows(f))
      others == OldestAge(Rows(g))
  IN  \/ ready > others
      \/ ready = others /\ Cardinality(Rows(f)) > Cardinality(Rows(g))
      \/ /\ ready = others /\ Cardinality(Rows(f)) = Cardinality(Rows(g))
         /\ Oldest(Rows(f)) < Oldest(Rows(g))

\* A wide prefill step runs alone.
WaveRows(f) ==
  IF f[2] > 3
  THEN {Oldest({k \in Rows(f) : req[k].age = OldestAge(Rows(f))})}
  ELSE Rows(f)

Wave ==
  /\ phase = "batch"
  /\ LET families == {Family(k) : k \in active}
         first == {f \in families : \A g \in families \ {f} : Precedes(f, g)}
     IN  replied' = replied \cup UNION {WaveRows(f) : f \in first}
  /\ req' = [k \in Key |-> IF k \in active THEN [req[k] EXCEPT !.age = @ + 1]
                                           ELSE req[k]]
  /\ phase' = "idle"
  /\ UNCHANGED <<table, anchor, asked, waiting, active, drain>>

\* batch_step raises: the pump fails and serves no more.
WaveFails ==
  /\ phase = "batch" /\ active # {}
  /\ phase' = "failed"
  /\ UNCHANGED <<table, anchor, asked, waiting, active, req, replied, drain>>

-----------------------------------------------------------------------------

Consume(k) ==
  Start(k) \/ Follow(k) \/ CommitPrefill(k) \/ Verify(k) \/ CommitRepaired(k)

TickStep ==
  \/ BeginTick \/ Admit \/ AdmissionDone
  \/ \E k \in Key : Consume(k)
  \/ ConsumptionDone
  \/ \E k \in Key : ReservePages(k) \/ Preempt(k)
  \/ ReservationDone \/ Wave

Next ==
  \/ \E q \in Question : Submit(q)
  \/ \E k \in Key : Cancel(k)
  \/ Close
  \/ TickStep
  \/ AdmitFails \/ WaveFails
  \/ \E k \in Key : CancelFails(k) \/ ReserveFails(k) \/ PreemptFails(k)

Spec == Init /\ [][Next]_vars

\* The pump ticks as long as the scheduler is busy (ingress.py); nothing makes
\* clients submit or cancel, and nothing makes a wave fail.
FairSpec == Spec /\ WF_vars(TickStep)

-----------------------------------------------------------------------------
\* Properties.

\* The active requests whose protocol is not closed.
Running == {k \in active : req[k].point # "closed"}

\* Every running protocol holds a live lease on a seat of its own, and while
\* the scheduler runs no seat is held by anything else: admission, completion,
\* cancellation and preemption, in whatever order, leak no lease.
LeasesMatch ==
  /\ \A k \in Running : Resolves(table, req[k].lease)
  /\ \A j, k \in Running : SeatOf(j) = SeatOf(k) => j = k
  /\ phase # "closed" => Live(table) = {SeatOf(k) : k \in Running}

\* The table refuses no call the scheduler makes: acquire always finds an
\* execution seat and a quota left, a page request that can_reserve admits is
\* granted, and a commit always fits the pages reserved ticks before.
CallsAccepted ==
  /\ phase = "admit" /\ Admits =>
       /\ AcquireAccepts(table, Goal(Head(waiting)))
       /\ Quota(Head(waiting)) > 0
  /\ \A k \in Reserving :
       LET accepted == ReserveAccepts(table, req[k].lease, Reach(k))
           shed == AfterShed(table, req[k].lease, Reach(k))
       IN  /\ CanReserve(table, req[k].lease, Reach(k)) <=> accepted
           /\ accepted => Grants(shed, Needed(table, req[k].lease, Reach(k))) # {}
  /\ \A k \in active :
       req[k].point \in TargetPoints \cup {"prefill_shift", "decode_repair"} =>
         Len(Committed(table, k)) + req[k].width
           <= Len(table.seats[SeatOf(k)].pages) * PageTokens

\* Requests run in the order they were submitted: whatever was preempted or
\* cancelled meanwhile, none that waits is older than one that runs, and the
\* queue is in order ("oldest request can always progress alone",
\* scheduler.py _tick, relies on it).
FirstComeFirstServed ==
  /\ \A k \in active, i \in DOMAIN waiting : k < waiting[i]
  /\ \A i, j \in DOMAIN waiting : i < j => waiting[i] < waiting[j]

\* A seat with tokens, running or hot, holds the prediction that follows
\* exactly these tokens: a hot hit or a preemption never leaves the
\* continuation state of one history under the tokens of another.
AnchorSound ==
  \A i \in Seats : table.seats[i].tokens # <<>> =>
                     anchor[i] = Greedy(table.seats[i].tokens)

\* A seat is offered hot only with the whole history of a request that was
\* answered, under that request's salt: nothing is reused of a protocol that was
\* closed before its end, whose last step may have moved the seat's state beyond
\* what was committed (generation.py 213: "Do not publish a hot identity after
\* any partially completed writer"; scheduler.py: "cancellation invalidates the
\* entire seat").
HotIsAnswered ==
  \A i \in Idle(table) : table.seats[i].tokens # <<>> =>
    \E k \in Key :
      /\ req[k].status = "done"
      /\ table.seats[i].tokens = asked[k].prompt \o req[k].output
      /\ table.seats[i].cache_salt = asked[k].cache_salt

\* The histories agree: what was streamed is the output kept across
\* preemptions followed by what this protocol emitted, and the seat's tokens
\* are the part of prompt, output and emissions that is recomputed so far.
HistoryExact ==
  \A k \in Pending :
    /\ req[k].status # "lost" => req[k].progress = req[k].output \o req[k].emitted
    /\ k \in active =>
         /\ IsPrefix(Committed(table, k), Goal(k) \o req[k].emitted)
         /\ req[k].emitted # <<>> => Committed(table, k) = Goal(k) \o req[k].emitted

\* Oldest-ready-first keeps every step from starving: while one waits, every
\* other active request runs at most one step before it.
ReadyBound ==
  \A k \in active : k \notin replied => req[k].age < ExecutionSeats

\* The scheduler, with its caching, batching, speculation and preemption, is
\* the plain service: every request streams a growing prefix of its greedy
\* answer and ends with all of it or cancelled.
ServiceStatus ==
  [k \in Key |-> IF req[k].status \in {"waiting", "active", "lost"}
                 THEN "pending" ELSE req[k].status]

Service ==
  INSTANCE CompletionService
    WITH status <- ServiceStatus, stream <- [k \in Key |-> req[k].progress]

IsService == Service!Spec

\* Every submitted request ends, answered or cancelled, unless the pump fails
\* or the scheduler is closed.
EveryRequestEnds ==
  \A k \in Key : (k \in Pending) ~> (k \notin Pending \/ phase = "failed")

=============================================================================
