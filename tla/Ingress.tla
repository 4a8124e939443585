------------------------------ MODULE Ingress ------------------------------
(***************************************************************************)
(* The asynchronous ingress of the serving host (live/llm/qwen35/          *)
(* ingress.py) and its HTTP handlers and ranks (http.py): client tasks, a  *)
(* pump that turns their commands into ticks, streams and futures on the   *)
(* leader rank, and followers that replay the broadcast commands.          *)
(*                                                                         *)
(* An event loop runs one coroutine at a time up to its next await, so     *)
(* each action is what runs between two awaits.  The scheduler is reduced  *)
(* to what the ingress sees of it: submit, cancel, and a tick that admits  *)
(* in order, streams tokens and completes (LiveScheduler has the rest).    *)
(* The n-th token of an answer is the number n.  The ranks compute the     *)
(* same wave, because its collectives join them.                           *)
(***************************************************************************)
EXTENDS Integers, Sequences, FiniteSets, Functions

CONSTANTS
  Follower,        \* ranks other than the leader
  ExecutionSeats,  \* requests that may run at once
  MaxPending,      \* queue limit of a scheduler
  MaxRequests,     \* bound: tasks that clients start
  Streamed,        \* the tasks whose clients ask for a stream
  AnswerLength,    \* tokens in every answer
  MaxBehind        \* batches a broadcast may be ahead of a follower

ASSUME IngressAssumption ==
  /\ ExecutionSeats \in Nat \ {0} /\ MaxPending \in Nat
  /\ MaxRequests \in Nat /\ AnswerLength \in Nat \ {0}
  /\ MaxBehind \in Nat \ {0}
  /\ Streamed \subseteq 1 .. MaxRequests

Key == 1 .. MaxRequests

VARIABLES
  scheduler,  \* the leader's Scheduler
  commands,   \* commands of this turn, for the followers
  wakeup,     \* the event that wakes an idle pump
  pump,       \* where the pump is
  started,    \* tasks started; a key is its position
  task,       \* the coroutine execute() of a key
  future,     \* what it awaits
  offset,     \* tokens of it handed to its stream
  client,     \* the HTTP handler that waits for the task
  rank,       \* the followers' schedulers
  inbox       \* batches broadcast and not yet received, per follower

leader == <<scheduler, commands, wakeup, pump, started, task, future, offset>>
vars == <<leader, client, rank, inbox>>

\* A task is absent, awaiting, or has returned, failed or been cancelled. A
\* future that is "overtaken" has its result, and its task was cancelled before
\* it could read it.
\*
\* A client is watching when its stream waits for `changed`, sending when it is
\* suspended in a send, polling when a handler without a stream waits for its
\* task; answered, differs, refused and gone are its ends.
NoClient == [state |-> "absent", pending |-> <<>>, output |-> <<>>, changed |-> FALSE]

EmptyScheduler ==
  [waiting |-> <<>>, active |-> <<>>, produced |-> [k \in Key |-> 0], open |-> TRUE]

Init ==
  /\ scheduler = EmptyScheduler
  /\ commands = <<>>
  /\ wakeup = FALSE
  /\ pump = "waiting"
  /\ started = 0
  /\ task = [k \in Key |-> "absent"]
  /\ future = [k \in Key |-> "none"]
  /\ offset = [k \in Key |-> 0]
  /\ client = [k \in Key |-> NoClient]
  /\ rank = [f \in Follower |-> EmptyScheduler]
  /\ inbox = [f \in Follower |-> <<>>]

-----------------------------------------------------------------------------
\* What the ingress uses of a scheduler.

Keys(s) == Range(s.waiting) \cup Range(s.active)

Busy(s) == Keys(s) # {}

CanSubmit(s, k) == k \notin Keys(s) /\ Cardinality(Keys(s)) < MaxPending

Submitted(s, k) == [s EXCEPT !.waiting = Append(@, k)]

\* The list without the members of K.
Dropped(list, K) ==
  LET rest[n \in 0 .. Len(list)] ==
        IF n = 0 THEN <<>>
        ELSE IF list[n] \in K THEN rest[n - 1] ELSE Append(rest[n - 1], list[n])
  IN  rest[Len(list)]

Cancelled(s, K) ==
  [s EXCEPT !.waiting = Dropped(@, K), !.active = Dropped(@, K)]

Admitted(s) ==
  LET free == ExecutionSeats - Len(s.active)
      n    == IF Len(s.waiting) < free THEN Len(s.waiting) ELSE free
  IN  [s EXCEPT !.active  = @ \o SubSeq(s.waiting, 1, n),
                !.waiting = SubSeq(@, n + 1, Len(@))]

Finished(s) == {k \in Range(s.active) : s.produced[k] = AnswerLength}

\* One tick: admission, then a wave in which the keys of `wave` gain a token.
Produced(s, wave) ==
  [Admitted(s) EXCEPT !.produced = [k \in Key |-> IF k \in wave THEN @[k] + 1
                                                                ELSE @[k]]]

Ticked(s, wave) == Cancelled(Produced(s, wave), Finished(Produced(s, wave)))

Closed(s) == [s EXCEPT !.waiting = <<>>, !.active = <<>>, !.open = FALSE]

-----------------------------------------------------------------------------
\* Commands and batches.

CancelledKeys(cmds) == {c.key : c \in {d \in Range(cmds) : d.kind = "cancel"}}

\* before: the scheduler state the leader's tick starts from.
Turn(cmds, wave, before) ==
  [kind |-> "turn", commands |-> cmds, wave |-> wave, before |-> before]

Stop == [kind |-> "stop"]

Broadcast(m) == inbox' = [f \in Follower |-> Append(inbox[f], m)]

\* Faulty Obeyed: a follower leaves cancellation to the leader.
ObeyedSubmits(s, c) ==
  IF c.kind = "submit" THEN Submitted(s, c.key) ELSE s

\* A follower submits and cancels in the order of the commands.
Obeyed(s, c) ==
  IF c.kind = "submit" THEN Submitted(s, c.key) ELSE Cancelled(s, {c.key})

\* The scheduler s after each number of commands.
Replays(s, cmds) ==
  LET after[n \in 0 .. Len(cmds)] ==
        IF n = 0 THEN s ELSE Obeyed(after[n - 1], cmds[n])
  IN  after

Replayed(s, cmds) == Replays(s, cmds)[Len(cmds)]

-----------------------------------------------------------------------------
\* The client task: Ingress.execute up to its await, and from it on.

\* Faulty Announced: the command is queued before submit has accepted it.
AnnouncedUnchecked(k, accepted) == Append(commands, [kind |-> "submit", key |-> k])

Announced(k, accepted) ==
  IF accepted THEN Append(commands, [kind |-> "submit", key |-> k]) ELSE commands

\* A request arrives, with or without a stream.  A full queue refuses it, and
\* so does an owner that has failed.
Execute ==
  LET k        == started + 1
      accepted == pump # "failed" /\ CanSubmit(scheduler, k)
  IN  /\ pump # "stopped"
      /\ started < MaxRequests
      /\ started' = k
      /\ commands' = Announced(k, accepted)
      /\ IF accepted
         THEN /\ scheduler' = Submitted(scheduler, k)
              /\ task' = [task EXCEPT ![k] = "awaiting"]
              /\ future' = [future EXCEPT ![k] = "pending"]
              /\ wakeup' = TRUE
         ELSE /\ task' = [task EXCEPT ![k] = "failed"]
              /\ UNCHANGED <<scheduler, future, wakeup>>
      /\ client' = [client EXCEPT ![k] =
           [NoClient EXCEPT !.state = IF k \in Streamed THEN "watching" ELSE "polling",
                            !.changed = ~accepted]]
      /\ UNCHANGED <<pump, offset, rank, inbox>>

\* The task resumes; its clean-up forgets the future and the stream.
Resume(k) ==
  /\ task[k] = "awaiting"
  /\ future[k] # "pending"
  /\ IF future[k] \in {"cancelled", "overtaken"}
     THEN /\ commands' = Append(commands, [kind |-> "cancel", key |-> k])
          /\ wakeup' = TRUE
          /\ task' = [task EXCEPT ![k] = "cancelled"]
     ELSE /\ task' = [task EXCEPT ![k] = IF future[k] = "result" THEN "returned"
                                                                ELSE "failed"]
          /\ UNCHANGED <<commands, wakeup>>
  /\ client' = [client EXCEPT ![k].changed = TRUE]
  /\ UNCHANGED <<scheduler, pump, started, future, offset, rank, inbox>>

-----------------------------------------------------------------------------
\* The HTTP handler.

Done(k) == task[k] \notin {"absent", "awaiting"}

\* The stream's last check, once its loop has been left.
Verdict(k) ==
  IF task[k] # "returned" THEN "refused"
  ELSE IF client[k].output = [i \in 1 .. AnswerLength |-> i] THEN "answered"
  ELSE "differs"

\* `changed` wakes the stream: it sends what is pending, or looks at its task.
Watch(k) ==
  LET c == client[k]
  IN  /\ c.state = "watching" /\ c.changed
      /\ client' = [client EXCEPT ![k] =
           [c EXCEPT !.changed = FALSE,
                     !.pending = <<>>,
                     !.output = @ \o c.pending,
                     !.state = IF c.pending # <<>> THEN "sending"
                               ELSE IF Done(k) THEN Verdict(k) ELSE @]]
      /\ UNCHANGED <<leader, rank, inbox>>

\* The send returns, and the loop is left if the task is done by now.
Sent(k) ==
  /\ client[k].state = "sending"
  /\ client' = [client EXCEPT ![k].state = IF Done(k) THEN Verdict(k) ELSE "watching"]
  /\ UNCHANGED <<leader, rank, inbox>>

\* A handler without a stream has its task's result.
Answer(k) ==
  /\ client[k].state = "polling" /\ Done(k)
  /\ client' = [client EXCEPT ![k].state = IF task[k] = "returned" THEN "answered"
                                                                  ELSE "refused"]
  /\ UNCHANGED <<leader, rank, inbox>>

\* The client disconnects: the handler cancels a task that is not done.
Disconnect(k) ==
  /\ client[k].state \in {"watching", "sending", "polling"}
  /\ client' = [client EXCEPT ![k].state = "gone"]
  /\ future' = [future EXCEPT ![k] = IF task[k] # "awaiting" THEN @
                                     ELSE IF @ = "pending" THEN "cancelled"
                                     ELSE "overtaken"]
  /\ UNCHANGED <<scheduler, commands, wakeup, pump, started, task, offset, rank, inbox>>

-----------------------------------------------------------------------------
\* The pump.

Ready == pump = "sleeping" \/ (pump = "waiting" /\ wakeup)

\* Waking from wait() clears the event.
Woken == wakeup' = (wakeup /\ pump = "sleeping")

\* No broadcast runs away from the followers.
CanBroadcast == \A f \in Follower : Len(inbox[f]) < MaxBehind

Streaming(k) == task[k] = "awaiting" /\ k \in Streamed

\* Faulty Delta: the stream's offset is not taken into account.
DeltaFromStart(s, k) == [i \in 1 .. s.produced[k] |-> i]

\* The tokens of k not yet handed to its stream.
Delta(s, k) == [i \in 1 .. s.produced[k] - offset[k] |-> offset[k] + i]

\* A future that is still awaited gets its result.
Resolved(results) ==
  [k \in Key |-> IF k \in results /\ task[k] = "awaiting" /\ future[k] = "pending"
                 THEN "result" ELSE future[k]]

\* Every stream gets its new tokens, then every completed future its result.
Deliver(s, results) ==
  /\ client' = [k \in Key |->
       IF Streaming(k) /\ s.produced[k] > offset[k]
       THEN [client[k] EXCEPT !.pending = @ \o Delta(s, k), !.changed = TRUE]
       ELSE client[k]]
  /\ offset' = [k \in Key |-> IF Streaming(k) THEN s.produced[k] ELSE offset[k]]
  /\ future' = Resolved(results)

\* What the tick of this turn starts from, and the keys it may run.
Before == Cancelled(scheduler, CancelledKeys(commands))

Runnable == Range(Admitted(Before).active)

\* One turn with work to do: broadcast, cancel, tick, deliver, and then next.
TurnThen(wave, next) ==
  LET made == Produced(Before, wave)
  IN  /\ Ready /\ CanBroadcast
      /\ Busy(scheduler) \/ commands # <<>>
      /\ Woken
      /\ pump' = next
      /\ Broadcast(Turn(commands, wave, Before))
      /\ scheduler' = Ticked(Before, wave)
      /\ Deliver(made, Finished(made))
      /\ commands' = <<>>
      /\ UNCHANGED <<started, task, rank>>

\* Faulty PumpTurn: back to wait() after one turn.
PumpTurnOnce(wave) == TurnThen(wave, "waiting")

\* sleep(0): whatever else is ready may run before the next turn.
PumpTurn(wave) == TurnThen(wave, "sleeping")

\* Nothing to do: back to wait().
PumpRest ==
  /\ Ready
  /\ ~Busy(scheduler) /\ commands = <<>>
  /\ Woken
  /\ pump' = "waiting"
  /\ UNCHANGED <<scheduler, commands, started, task, future, offset, client, rank, inbox>>

\* The tick raises, and with it the collectives of the followers: every
\* awaiting client is told, and nothing ticks again.
PumpFails ==
  /\ Ready /\ CanBroadcast
  /\ Busy(scheduler) \/ commands # <<>>
  /\ Woken
  /\ pump' = "failed"
  /\ scheduler' = Before
  /\ commands' = <<>>
  /\ future' = [k \in Key |-> IF task[k] = "awaiting" /\ future[k] = "pending"
                              THEN "exception" ELSE future[k]]
  /\ UNCHANGED <<started, task, offset, client, rank, inbox>>

\* The server stops after its last connection: the pump is cancelled at an
\* await, the scheduler closed and the followers released.
Shutdown ==
  /\ pump \in {"waiting", "sleeping"}
  /\ \A k \in Key : client[k].state \notin {"watching", "sending", "polling"}
  /\ \A k \in Key : task[k] # "awaiting"
  /\ pump' = "stopped"
  /\ scheduler' = Closed(scheduler)
  /\ Broadcast(Stop)
  /\ UNCHANGED <<commands, wakeup, started, task, future, offset, client, rank>>

-----------------------------------------------------------------------------
\* A follower.

Follow(f) ==
  LET m == Head(inbox[f])
  IN  /\ inbox[f] # <<>> /\ rank[f].open
      /\ rank' = [rank EXCEPT ![f] =
           IF m.kind = "stop" THEN Closed(@)
                              ELSE Ticked(Replayed(@, m.commands), m.wave)]
      /\ inbox' = [inbox EXCEPT ![f] = Tail(@)]
      /\ UNCHANGED <<leader, client>>

-----------------------------------------------------------------------------

PumpStep == (\E wave \in SUBSET Runnable : PumpTurn(wave)) \/ PumpRest

Next ==
  \/ Execute
  \/ \E k \in Key : Resume(k) \/ Watch(k) \/ Sent(k) \/ Answer(k) \/ Disconnect(k)
  \/ PumpStep \/ PumpFails \/ Shutdown
  \/ \E f \in Follower : Follow(f)

Spec == Init /\ [][Next]_vars

\* The event loop runs every coroutine that is ready and a follower receives
\* what was broadcast.  Waves that bring every running request a token come
\* again and again (LiveScheduler's EveryRequestEnds).  Clients, their sends
\* and their disconnections are under no obligation.
FairSpec ==
  /\ Spec
  /\ WF_vars(PumpStep)
  /\ SF_vars(PumpTurn(Runnable))
  /\ WF_vars(\E k \in Key : Resume(k))
  /\ WF_vars(\E f \in Follower : Follow(f))

-----------------------------------------------------------------------------
\* Properties.

\* A follower's scheduler, when its tick starts, is in the state the leader's
\* was in when that tick started there, and no submit of the batch is refused:
\* although the leader submits at once and cancels later, the ranks take the
\* same decisions and their collectives match.
LockStep ==
  \A f \in Follower :
    inbox[f] # <<>> /\ Head(inbox[f]).kind = "turn" =>
      LET cmds == Head(inbox[f]).commands
      IN  /\ Replayed(rank[f], cmds) = Head(inbox[f]).before
          /\ \A i \in DOMAIN cmds :
               cmds[i].kind = "submit" =>
                 CanSubmit(Replays(rank[f], cmds)[i - 1], cmds[i].key)

\* What a stream was handed, sent or pending, is exactly the tokens up to its
\* offset, and a stream whose future has a result was handed all of them.
ExactStreams ==
  \A k \in Key :
    client[k].state \in {"watching", "sending"} =>
      /\ client[k].output \o client[k].pending = [i \in 1 .. offset[k] |-> i]
      /\ future[k] = "result" => offset[k] = AnswerLength

\* A client that waits is answered, refused or gone in the end: whatever the
\* order of arrivals, turns and cancellations, no wake-up of the pump and no
\* future is lost, and again and again nobody waits.
EveryTaskEnds == []<>(\A k \in Key : task[k] # "awaiting")

\* A request whose client has gone leaves the schedulers of all ranks, unless
\* the owner fails or stops first.
OrphansLeave ==
  LET Orphans == {k \in Key : task[k] = "cancelled"}
  IN  []<>(\/ pump \in {"failed", "stopped"}
           \/ /\ Orphans \cap Keys(scheduler) = {}
              /\ \A f \in Follower : Orphans \cap Keys(rank[f]) = {})

\* A stream whose request completed ends with the exact tokens: "completions
\* additionally supports exact-token SSE streaming" (live/llm/qwen35/README.md
\* line 67), which events() checks when its loop has been left (http.py 224).
StreamsEndExact == \A k \in Key : client[k].state # "differs"

=============================================================================
