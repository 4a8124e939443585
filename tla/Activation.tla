----------------------------- MODULE Activation -----------------------------
(***************************************************************************)
(* One generation activated on every rank of a group (LiveModule.activate, *)
(* TorchStateBackend, GlooStateCapacityCoordinator). With fitting (a floor *)
(* state_memory_floor_bytes is given) there is first calibration State of  *)
(* the minimum size, on which the whole portfolio is captured to hold its  *)
(* memory; then the State is sized from what the driver says is free,      *)
(* agreed and allocated, and the portfolio captured again on it. Without,  *)
(* a configured budget is planned, the units agreed, and captured once.    *)
(*                                                                         *)
(* A rank is one thread, the ranks meet in the collectives alone: a vote   *)
(* is an all_reduce(MIN), `votes` the values a rank has put into the       *)
(* group's collectives, in order. Bytes are small numbers; what another    *)
(* process takes from the device is left out, so is a collective that      *)
(* times out on a rank which is only slow.                                 *)
(***************************************************************************)
EXTENDS GraphBuilds, Sequences

CONSTANTS
  Rank,          \* the members of the capacity group
  Total,         \* per rank, the bytes of its device
  Budgets,       \* per rank, memory_budget_bytes
  Floor,         \* state_memory_floor_bytes
  Fixed,         \* bytes of the State of exact capacity
  Unit,          \* bytes of one complete capacity unit
  Padding,       \* allocation granularity - 1, over the elastic lanes
  CaptureBytes,  \* what the native graph of one capture may take
  MaxAttempts    \* bound: generations the group tries

ASSUME ActivationAssumption ==
  /\ IsFiniteSet(Rank) /\ Total \in [Rank -> Nat] /\ Budgets \in [Rank -> Nat]
  /\ Floor \in Nat /\ Fixed \in Nat /\ Unit \in Nat \ {0} /\ Padding \in Nat
  /\ CaptureBytes \subseteq Nat \ {0} /\ MaxAttempts \in Nat \ {0}

VARIABLES
  rank,     \* per rank, its record (NewRank)
  attempt,  \* the generation being tried
  fitting   \* whether it fits its State

vars == <<rank, attempt, fitting>>

\* unit.minimum_units
MinimumUnits == 1

NewRank ==
  [pc |-> "start",
   at |-> 1,              \* the next graph of the loop over the portfolio
   votes |-> <<>>,
   why |-> "none",        \* why the rank left the activation
   state |-> 0,           \* bytes of State storage on the device
   cache |-> 0,           \* bytes the allocator keeps and does not use
   units |-> 0,           \* capacity units bound to the State declarations
   calibrated |-> 0,      \* bytes of the captures when the State was sized
   backend |-> EmptyBackend]

Becomes(r, new) == rank' = [rank EXCEPT ![r] = new] /\ UNCHANGED <<attempt, fitting>>

-----------------------------------------------------------------------------
\* Device memory.

InUse(k) == k.state + DeviceBytes(k.backend)

\* An allocation takes cached bytes first, a release leaves its bytes cached.
Holding(k, state, backend) ==
  LET new == [k EXCEPT !.state = state, !.backend = backend]
      grown == InUse(new) - InUse(k)
  IN  [new EXCEPT !.cache = IF grown > @ THEN 0 ELSE @ - grown]

\* TorchDeviceMemoryObserver.reclaim and snapshot().free_bytes.
Reclaimed(k) == [k EXCEPT !.cache = 0]
Free(r, k) == Total[r] - InUse(k) - k.cache

\* A full device fails the allocation, after the cache is given back.
Fits(r, k) == InUse(k) <= Total[r]

-----------------------------------------------------------------------------
\* Agreement.

Vote(k, value) == [k EXCEPT !.votes = Append(@, value)]

Waiting(r) == rank[r].pc \in {"planning", "calibrating", "sizing", "allocating"}
Left(r) == rank[r].pc \in {"ready", "failed", "broken", "closed"}

\* Every rank has entered the collective that r is in.
Met(r) == \A q \in Rank : Len(rank[q].votes) >= Len(rank[r].votes)

\* Faulty Minimum: each rank keeps its own value.
OwnValue(r) == rank[r].votes[Len(rank[r].votes)]

\* GlooStateCapacityCoordinator._minimum
Minimum(r) == Min({rank[q].votes[Len(rank[r].votes)] : q \in Rank})

-----------------------------------------------------------------------------
\* The end of an attempt. The executions are closed last one first; the reset
\* of a native graph may raise, which leaves the earlier ones open.

From(first, b) == {g \in b.open : g >= first}

\* A rollback hands back what outlived the calibration and retires the census.
\* Where executions are still open the census refuses, and nothing after it in
\* the handler runs: the State stays.
RolledBack(r, k, why) ==
  \E reset \in {0} \cup k.backend.open :
    LET b == Released(k.backend, From(reset, k.backend))
    IN  Becomes(r, IF StillLive(b)
                   THEN [Holding(k, k.state, b) EXCEPT
                           !.pc = "broken", !.why = IF reset # 0 THEN "reset" ELSE why]
                   ELSE [Holding(k, 0, b) EXCEPT
                           !.pc = "failed", !.why = why, !.units = 0])

\* A rank that waits for a peer which has left: the group's timeout raises. The
\* provider releases the State it holds, the activation rolls back.
PeerTimeout(r) ==
  /\ Waiting(r)
  /\ \E q \in Rank : Left(q) /\ Len(rank[q].votes) < Len(rank[r].votes)
  /\ RolledBack(r, rank[r], "timeout")

-----------------------------------------------------------------------------
\* State of a plain activation (realize_state): only a positive maximum can be
\* voted, and the allocation after it is not.

Planned(r) == (Budgets[r] - Fixed) \div Unit

Plan(r) ==
  /\ rank[r].pc = "start" /\ ~fitting
  /\ Fixed <= Budgets[r] /\ Planned(r) >= MinimumUnits
  /\ Becomes(r, [Vote(rank[r], Planned(r)) EXCEPT !.pc = "planning"])

PlanFailed(r) == rank[r].pc = "start" /\ ~fitting /\ RolledBack(r, rank[r], "plan")

Realize(r) ==
  LET k == Holding(rank[r], Fixed + Minimum(r) * Unit, rank[r].backend)
  IN  /\ rank[r].pc = "planning" /\ Met(r) /\ Fits(r, k)
      /\ Becomes(r, [k EXCEPT !.pc = "initialize", !.units = Minimum(r)])

RealizeFailed(r) ==
  rank[r].pc = "planning" /\ Met(r) /\ RolledBack(r, rank[r], "realize")

-----------------------------------------------------------------------------
\* Calibration State.

CalibrationBytes == Fixed + MinimumUnits * Unit

Calibrate(r) ==
  LET k == Holding(rank[r], CalibrationBytes, rank[r].backend)
  IN  /\ rank[r].pc = "start" /\ fitting /\ Fits(r, k)
      /\ Becomes(r, [Vote(k, 1) EXCEPT !.pc = "calibrating"])

\* Faulty CalibrationFailed: the error is raised before the vote.
CalibrationRaised(r) ==
  /\ rank[r].pc = "start" /\ fitting
  /\ RolledBack(r, rank[r], "calibration")

\* The allocation fails: the rank votes so and holds nothing.
CalibrationFailed(r) ==
  /\ rank[r].pc = "start" /\ fitting
  /\ Becomes(r, [Vote(rank[r], 0) EXCEPT !.pc = "calibrating"])

CalibrationAgreed(r) ==
  /\ rank[r].pc = "calibrating" /\ Met(r)
  /\ IF Minimum(r) = 1
     THEN Becomes(r, [rank[r] EXCEPT !.pc = "initialize", !.units = MinimumUnits])
     ELSE RolledBack(r, rank[r], "calibration")

-----------------------------------------------------------------------------
\* The captures of the portfolio.

Initialize(r) ==
  /\ rank[r].pc = "initialize"
  /\ Becomes(r, [rank[r] EXCEPT !.pc = "warm", !.at = 1])

\* The pc of a loop over the portfolio after one more graph.
Advanced(k, next) ==
  IF k.at = Cardinality(Graph) THEN [k EXCEPT !.pc = next, !.at = 1]
  ELSE [k EXCEPT !.at = @ + 1]

\* Every program is warmed before any capture; then the cache is given back.
Warm(r) ==
  LET k == Advanced([rank[r] EXCEPT !.backend = Warmed(@, rank[r].at, attempt)], "capture")
  IN  /\ rank[r].pc = "warm"
      /\ Becomes(r, IF k.pc = "capture" THEN Reclaimed(k) ELSE k)

\* What follows the last capture: a plain generation is published.
AfterCaptures(k) ==
  CASE k.pc = "recapture" -> "settle"
    [] k.pc = "capture" /\ fitting -> "retain"
    [] OTHER -> "ready"

\* One capture, its State restored and, with fitting, its first replay.
Capture(r) ==
  LET k == rank[r] IN
  /\ k.pc \in {"capture", "recapture"}
  /\ \E bytes \in CaptureBytes :
       LET new == Holding(k, k.state, Captured(k.backend, k.at, bytes, attempt))
       IN  Fits(r, new) /\ Becomes(r, Advanced(new, AfterCaptures(k)))

\* The calibration execution retired, its inputs and native graph kept.
Retain(r) ==
  LET k == rank[r] IN
  /\ k.pc = "retain"
  /\ Becomes(r, Advanced([k EXCEPT !.backend = Retained(@, k.at)], "size"))

\* _rebind_live_state on the fitted State; the native graphs of the calibration
\* are reset and their segments given back before the final captures.
Rebind(r) ==
  LET k == rank[r] IN
  /\ k.pc = "rebind"
  /\ Becomes(r, [Reclaimed(Holding(k, k.state, PoolsHandedBack(k.backend))) EXCEPT
                   !.pc = "recapture", !.at = 1])

\* What a build step that raises may leave to the rollback: a hook or a warm-up
\* nothing, a capture its own clean-up or a capture whose first replay or
\* publication failed, a retirement its native graph already reset.
Abandoned(k) ==
  CASE k.pc \in {"initialize", "warm", "rebind"} -> {k.backend}
    [] k.pc \in {"capture", "recapture"} ->
         {CaptureAborted(k.backend, k.at, attempt)} \cup
         {Captured(k.backend, k.at, bytes, attempt) : bytes \in CaptureBytes}
    [] k.pc = "retain" -> {k.backend, RetainAborted(k.backend, k.at)}
    [] OTHER -> {}

BuildFailed(r) ==
  \E b \in Abandoned(rank[r]) :
    /\ Fits(r, Holding(rank[r], rank[r].state, b))
    /\ RolledBack(r, Holding(rank[r], rank[r].state, b), "build")

-----------------------------------------------------------------------------
\* Fitting: size, agree, allocate, agree.

\* Faulty Budget: no byte is set aside for the rounding of the allocations.
BudgetUnpadded(r, k) == Min({Free(r, k) - Floor, Budgets[r] - Fixed})

\* The calibration State is released and the fixed State allocated, the cache
\* given back; the budget is what the driver calls free, and no more than the
\* memory_budget_bytes of the provider.
Budget(r, k) == Min({Free(r, k) - Floor - Padding, Budgets[r] - Fixed})

Size(r) ==
  LET k == Reclaimed(Holding(rank[r], Fixed, rank[r].backend))
      units == IF Budget(r, k) < Unit THEN 0 ELSE Budget(r, k) \div Unit
  IN  /\ rank[r].pc = "size"
      /\ Becomes(r, [Vote(k, IF units < MinimumUnits THEN 0 ELSE units) EXCEPT
                       !.pc = "sizing", !.units = 0,
                       !.calibrated = DeviceBytes(k.backend)])

\* The fixed State cannot be allocated.
SizeFailed(r) ==
  LET k == Holding(rank[r], 0, rank[r].backend)
  IN  /\ rank[r].pc = "size"
      /\ Becomes(r, [Vote(k, 0) EXCEPT !.pc = "sizing", !.units = 0])

SizeAgreed(r) ==
  /\ rank[r].pc = "sizing" /\ Met(r)
  /\ IF Minimum(r) = 0
     THEN RolledBack(r, rank[r], "size")
     ELSE Becomes(r, [rank[r] EXCEPT !.pc = "allocate", !.units = Minimum(r)])

\* The State of the admitted units, rounded up by the allocator, then the floor.
Allocate(r) ==
  LET k == rank[r] IN
  /\ k.pc = "allocate"
  /\ \E rounding \in 0..Padding :
       LET new == Reclaimed(Holding(k, Fixed + k.units * Unit + rounding, k.backend))
           kept == Free(r, new) >= Floor
       IN  /\ Fits(r, new)
           /\ Becomes(r, [Vote(new, IF kept THEN 1 ELSE 0) EXCEPT
                            !.pc = "allocating", !.why = IF kept THEN @ ELSE "breach"])

AllocateFailed(r) ==
  /\ rank[r].pc = "allocate"
  /\ Becomes(r, [Vote(rank[r], 0) EXCEPT !.pc = "allocating"])

AllocationAgreed(r) ==
  /\ rank[r].pc = "allocating" /\ Met(r)
  /\ IF Minimum(r) = 1
     THEN Becomes(r, [rank[r] EXCEPT !.pc = "rebind"])
     ELSE RolledBack(r, rank[r], "allocate")

\* The inputs are consumed; the floor is checked once more, on this rank alone.
Settle(r) ==
  LET k == Reclaimed(rank[r]) IN
  /\ rank[r].pc = "settle"
  /\ IF Free(r, k) < Floor THEN RolledBack(r, k, "over")
     ELSE Becomes(r, [k EXCEPT !.pc = "ready"])

\* LiveModule.close. A reset that raises leaves by the exception at once.
Close(r) ==
  LET k == rank[r] IN
  /\ k.pc = "ready"
  /\ \/ Becomes(r, [Holding(k, 0, Released(k.backend, k.backend.open)) EXCEPT
                      !.pc = "closed", !.units = 0])
     \/ \E reset \in k.backend.open :
          Becomes(r, [Holding(k, k.state, Closed(k.backend, From(reset, k.backend))) EXCEPT
                        !.pc = "broken", !.why = "reset"])

-----------------------------------------------------------------------------

RankStep(r) ==
  \/ Plan(r) \/ PlanFailed(r) \/ Realize(r) \/ RealizeFailed(r)
  \/ Calibrate(r) \/ CalibrationFailed(r) \/ CalibrationAgreed(r)
  \/ Initialize(r) \/ Warm(r) \/ Capture(r) \/ Retain(r) \/ BuildFailed(r)
  \/ Size(r) \/ SizeFailed(r) \/ SizeAgreed(r)
  \/ Allocate(r) \/ AllocateFailed(r) \/ AllocationAgreed(r)
  \/ Rebind(r) \/ Settle(r) \/ Close(r) \/ PeerTimeout(r)

\* The group is set up again. The graph backend of a process stays, with what
\* its census says under the identity of the token, which may be given again.
Restart ==
  /\ attempt < MaxAttempts
  /\ \A r \in Rank : rank[r].pc \in {"failed", "closed"}
  /\ attempt' = attempt + 1 /\ fitting' \in BOOLEAN
  /\ rank' = [r \in Rank |-> [NewRank EXCEPT !.backend = rank[r].backend]]

\* No rank has anything left to do.
Over ==
  /\ \A r \in Rank : rank[r].pc \in {"failed", "broken", "closed"}
  /\ attempt = MaxAttempts \/ \E r \in Rank : rank[r].pc = "broken"
  /\ UNCHANGED vars

Init == rank = [r \in Rank |-> NewRank] /\ attempt = 1 /\ fitting \in BOOLEAN

Next == (\E r \in Rank : RankStep(r)) \/ Restart \/ Over

Spec == Init /\ [][Next]_vars

-----------------------------------------------------------------------------
\* Properties.

\* Ranks that hold final State hold the same number of units, within the maximum
\* of each; and with fitting a rank goes on only after every rank has said that
\* its storage is there, never beside a peer whose allocation failed
\* (admit_state_capacity, confirm_fitted_allocation).
SameUnits ==
  \A r, q \in Rank :
    LET final == IF fitting THEN {"rebind", "recapture", "settle", "ready"}
                 ELSE {"initialize", "warm", "capture", "ready"}
        votes == rank[q].votes
        bound == rank[q].units
    IN  rank[r].pc \in final =>
          /\ bound # 0 => bound = rank[r].units
          /\ fitting => Len(votes) = 3 /\ votes[3] = 1
          /\ rank[r].units <= votes[IF fitting THEN 2 ELSE 1]

\* With fitting, a rank left alone in a collective has lost its peer in the build
\* between the agreements, where no vote is due: a failure to allocate or to size
\* is voted, and never leaves the others to the timeout of the group
\* (realize_calibration_state, realize_state_fitting).
NobodyAbandoned ==
  fitting => \A r, q \in Rank :
    Waiting(r) /\ Left(q) /\ Len(rank[q].votes) < Len(rank[r].votes) =>
      Len(rank[q].votes) = 1 /\ rank[q].votes[1] = 1

\* The fitted State never breaks the floor it was sized for, and a final capture
\* breaks it only where it takes more than its calibration took: the sizing
\* counts what the first captures hold and the rounding of its own allocations.
FloorKept ==
  [][\A r \in Rank :
       /\ rank'[r].why # "breach"
       /\ rank'[r].why = "over" =>
            rank[r].why = "over" \/ DeviceBytes(rank[r].backend) > rank[r].calibrated]_vars

\* A program is captured only after this generation warmed it, although the
\* census of warmed programs outlives the calibration captures and is keyed by
\* an identity that the next generation may be given again (retire_generation).
WarmedFirst ==
  \A r \in Rank : \A g \in rank[r].backend.open :
    rank[r].backend.warmed[WarmKeyOf[g]] = attempt

\* What a rank owns is accounted for exactly. A graph has its input buffers once,
\* with its open capture or with the handoff; the users of a pool are the open
\* captures; a metadata program is offered to a later capture only while the
\* capture that built it is open. An activation that failed and a root that
\* closed own nothing, no State, pool, handed-over buffer or census: only a
\* native reset that raises leaves something, and the rank with it.
OwnedExactly ==
  \A r \in Rank :
    LET b == rank[r].backend IN
    /\ \A g \in Graph : b.inputs[g] = IF g \in b.open \cup b.retained THEN 1 ELSE 0
    /\ \A k \in DOMAIN b.users : b.users[k] = Cardinality({g \in b.open : PoolOf[g] = k})
    /\ \A k \in DOMAIN b.program : b.program[k] \in b.open \cup {NoGraph}
    /\ b.open \cap b.retained = {}
    /\ rank[r].pc \in {"failed", "closed"} => b = EmptyBackend /\ rank[r].state = 0
    /\ rank[r].pc = "broken" => rank[r].why = "reset"
=============================================================================
