---------------------------- MODULE HostSources ----------------------------
(***************************************************************************)
(* Host sources of the DSV4 decode route (patches/cross_step and           *)
(* patches/async_decode).                                                  *)
(*                                                                         *)
(* A serial host runner prepares a wave in pinned CPU tensors, which an    *)
(* asynchronous copy reads, and enqueues its target.  How many tokens the  *)
(* previous wave accepted is known to the device at once, to the host only *)
(* by a receipt.  In a stable wave the host does not wait for that receipt *)
(* before the target: it works with the optimistic count, and corrects the *)
(* CPU tensors behind the target, when no copy reads them any more.  The   *)
(* DP route also has two banks of these tensors, and a producer that       *)
(* copies them into slots of its own, uploads the slots on the ingress     *)
(* stream and derives the device inputs from them.                         *)
(*                                                                         *)
(* The tokens of the requests that stay in the batch are one number here.  *)
(***************************************************************************)
EXTENDS Integers, Sequences, FiniteSets

CONSTANTS
  Drafts,    \* draft tokens of a verification wave
  Count,     \* request counts for which the producer has slots
  MaxWaves   \* bound: waves

ASSUME SourcesAssumption == Drafts \in Nat \ {0} /\ MaxWaves \in Nat

Wave == 1 .. MaxWaves

\* _producer.py: a slot for every prepared request count and bank.
SlotKey == Count \X {0, 1}

VARIABLES
  route,     \* "tp": cross_step alone; "dp": async_decode as well
  runner,    \* the host: where it is, its wave, kind and metadata
  bounds,    \* CrossStepBounds: admitted, and pending, a wave or 0
  slots,     \* HostSourceSlots: the sequence, the selected bank, failed
  producer,  \* DecodeProducer: active, a wave or 0, and the sequence
  cpu,       \* per bank, what its pinned tensors say
  prepared,  \* the event of a bank: the work before it on the compute stream
  slot,      \* the slots of the producer
  last,      \* the last wave that was sampled, and its width
  ingress,   \* everything put on the ingress stream, and how far it is
  compute,   \* everything put on the compute stream, and how far it is
  inputs,    \* the waves whose preparation the device inputs come from
  progress,  \* the tokens of the requests on the device
  valid,     \* the tokens accepted last, on the device
  receipt,   \* the host's copy of it, and its wave
  slack,     \* the CPU bound of the last preparation minus the exact length
  read       \* per finished target, the waves whose inputs it read

host == <<route, runner, bounds, slots, producer, cpu, prepared, last>>
device == <<inputs, progress, valid, receipt, slack, read>>
vars == <<host, slot, ingress, compute, device>>

Dp == route = "dp"

\* The tokens that a wave verifies.
Width(kind) == IF kind = "plain" THEN 1 ELSE Drafts + 1

\* The wave that the CPU's count has to be corrected for, or 0.
Drafted == IF last.width > 1 THEN last.wave ELSE 0

Init ==
  /\ route \in {"tp", "dp"}
  /\ runner = [at |-> "idle", wave |-> 0, kind |-> "plain", metadata |-> 0]
  /\ bounds = [admitted |-> FALSE, pending |-> 0]
  /\ slots = [sequence |-> 0, bank |-> 0, failed |-> FALSE]
  /\ producer = [active |-> 0, sequence |-> 0]
  /\ cpu = [b \in {0, 1} |-> [wave |-> 0, budget |-> 0]]
  /\ prepared = [b \in {0, 1} |-> 0]
  /\ slot = [k \in SlotKey |-> [host |-> 0, device |-> 0, ready |-> 0, consumed |-> 0]]
  /\ last = [wave |-> 0, width |-> 0]
  /\ ingress = [work |-> <<>>, done |-> 0]
  /\ compute = [work |-> <<>>, done |-> 0]
  /\ inputs = {}
  /\ progress = 0
  /\ valid = 0
  /\ receipt = [wave |-> 0, count |-> 0]
  /\ slack = 0
  /\ read = <<>>

\* Put work on a stream.
Enqueue(stream, work) == [stream EXCEPT !.work = Append(@, work)]

\* Everything on a stream up to n has retired.
Retired(stream, n) == n <= stream.done

-----------------------------------------------------------------------------
\* The scope around the preparation of a wave.

\* Faulty CanEnter: a failed wave does not stop the next.
CanEnterFailed == TRUE

CanEnter == ~slots.failed

\* The bank of the next wave.
NextBank == IF Dp THEN slots.sequence % 2 ELSE 0

\* The selected bank says what the previous one said.
Selected(b) == [cpu EXCEPT ![b] = cpu[slots.bank]]

\* HostSourceSlots.scope, or the native synchronize_input_prep: the sources of
\* the bank are free once its last preparation has retired.  No admission is
\* inherited.
Enter(kind) ==
  /\ runner.at = "idle" /\ runner.wave < MaxWaves
  /\ CanEnter
  /\ kind = "dummy" => Dp
  /\ Retired(compute, prepared[NextBank])
  /\ cpu' = Selected(NextBank)
  /\ slots' = [slots EXCEPT !.bank = NextBank]
  /\ bounds' = [bounds EXCEPT !.admitted = @ /\ ~Dp]
  /\ runner' = [at |-> IF kind = "dummy" THEN "updated" ELSE "entered",
                wave |-> runner.wave + 1, kind |-> kind, metadata |-> 0]
  /\ UNCHANGED <<route, producer, prepared, last, slot, ingress, compute, device>>

\* The event of the bank stands for what was put on the compute stream so far.
Recorded ==
  /\ prepared' = [prepared EXCEPT ![slots.bank] = Len(compute.work)]
  /\ slots' = [slots EXCEPT !.sequence = @ + 1]

\* The scope ends without an error.
Leave ==
  /\ runner.at = "built"
  /\ Recorded
  /\ runner' = [runner EXCEPT !.at = "ready"]
  /\ UNCHANGED <<route, bounds, producer, cpu, last, slot, ingress, compute, device>>

\* An exception in the scope: the event is recorded all the same, and no other
\* wave enters.  On the TP route the engine stops with the exception.
Fail ==
  /\ runner.at \in {"entered", "updated", "prepared", "built"}
  /\ prepared' = [prepared EXCEPT ![slots.bank] = Len(compute.work)]
  /\ slots' = [slots EXCEPT !.sequence = @ + 1, !.failed = TRUE]
  /\ runner' = [runner EXCEPT !.at = IF Dp THEN "idle" ELSE "stopped"]
  /\ UNCHANGED <<route, bounds, producer, cpu, last, slot, ingress, compute, device>>

-----------------------------------------------------------------------------
\* The states of the requests.

\* The CPU's budget with the last wave counted as if all had been accepted.
Optimistic == cpu[slots.bank].budget + last.width

\* What the callback takes back of it.
Correction == last.width - receipt.count

\* The receipt of the last wave has arrived.
Received == receipt.wave = last.wave

\* stable_verification: the requests of the last wave, all with drafts.
CanBeStable == runner.kind = "verify" /\ last.wave # 0

\* The native _update_states, followed by its correction, which waits for the
\* receipt.  A wave that is not stable needs it at once.
Update ==
  /\ runner.at = "entered"
  /\ bounds.pending = 0
  /\ Drafted # 0 => Received
  /\ cpu' = [cpu EXCEPT ![slots.bank].budget =
               IF Drafted = 0 THEN Optimistic ELSE Optimistic - Correction]
  /\ runner' = [runner EXCEPT !.at = "updated"]
  /\ UNCHANGED <<route, bounds, slots, producer, prepared, last, slot,
                 ingress, compute, device>>

\* A stable wave defers the correction.
UpdateDeferred ==
  /\ runner.at = "entered"
  /\ bounds.pending = 0
  /\ CanBeStable
  /\ cpu' = [cpu EXCEPT ![slots.bank].budget = Optimistic]
  /\ bounds' = [bounds EXCEPT !.pending = Drafted]
  /\ runner' = [runner EXCEPT !.at = "updated", !.kind = "stable"]
  /\ UNCHANGED <<route, slots, producer, prepared, last, slot, ingress,
                 compute, device>>

-----------------------------------------------------------------------------
\* The preparation of the inputs.

\* What the host writes into the sources of the selected bank.
Written == [cpu EXCEPT ![slots.bank].wave = runner.wave]

\* The native preparation: an asynchronous copy of the sources, and the device
\* programs behind it.  `put` is what the copy is meant to find.
Native(bound) ==
  /\ cpu' = Written
  /\ compute' = Enqueue(compute,
       [op |-> "prepare", wave |-> runner.wave, kind |-> runner.kind,
        bank |-> slots.bank, put |-> Written[slots.bank], bound |-> bound])
  /\ runner' = [runner EXCEPT !.at = "prepared"]

\* _prepare_inputs without the producer.  An inadmissible upper bound gets the
\* native correction, which waits for the receipt.
PrepareNative ==
  /\ runner.at = "updated" /\ runner.kind # "dummy"
  /\ \/ Native(cpu[slots.bank].budget)
     \/ /\ bounds.pending # 0 /\ Received
        /\ Native(cpu[slots.bank].budget - Correction)
  /\ bounds' = [bounds EXCEPT !.admitted = runner.kind = "stable"]
  /\ producer' = [producer EXCEPT !.active = 0]
  /\ UNCHANGED <<route, slots, prepared, last, slot, ingress, device>>

\* A dummy wave bypasses _prepare_inputs.
PrepareDummy ==
  /\ runner.at = "updated" /\ runner.kind = "dummy"
  /\ Native(0)
  /\ UNCHANGED <<route, bounds, slots, producer, prepared, last, slot, ingress, device>>

\* The pinned half of slot k is free once its last upload has retired.
Rewritable(k) == Retired(ingress, slot[k].ready)

\* Slot.project and Slot.replay: the sources are copied, their upload waits
\* for the last derivation from the slot, and the next derivation for them.
PrepareOnSlot(n) ==
  LET k == <<n, producer.sequence % 2>>
  IN  /\ runner.at = "updated" /\ runner.kind = "stable" /\ Dp
      /\ Rewritable(k)
      /\ cpu' = Written
      /\ ingress' = Enqueue(ingress, [slot |-> k, after |-> slot[k].consumed])
      /\ compute' = Enqueue(compute,
           [op |-> "derive", wave |-> runner.wave, kind |-> runner.kind,
            slot |-> k, after |-> Len(ingress.work) + 1,
            bound |-> cpu[slots.bank].budget])
      /\ slot' = [slot EXCEPT ![k] = [@ EXCEPT !.host = runner.wave,
                                               !.ready = Len(ingress.work) + 1,
                                               !.consumed = Len(compute.work) + 1]]
      /\ bounds' = [bounds EXCEPT !.admitted = TRUE]
      /\ producer' = [active |-> runner.wave, sequence |-> producer.sequence + 1]
      /\ runner' = [runner EXCEPT !.at = "prepared"]
      /\ UNCHANGED <<route, slots, prepared, last, device>>

\* The metadata graphs go with the inputs the producer derived.
OnGraph == bounds.admitted /\ producer.active # 0

\* _build_attention_metadata: by the native builder, or by the graph where one
\* was captured for these shapes.
Build ==
  /\ runner.at = "prepared"
  /\ \E w \in {runner.wave} \cup (IF OnGraph THEN {producer.active} ELSE {}) :
       runner' = [runner EXCEPT !.at = "built", !.metadata = w]
  /\ UNCHANGED <<route, bounds, slots, producer, cpu, prepared, last, slot,
                 ingress, compute, device>>

-----------------------------------------------------------------------------
\* The forward, the deferred correction and the sampler.

Target == [op |-> "target", wave |-> runner.wave, metadata |-> runner.metadata]

\* The target is enqueued before anything is waited for.
Launch ==
  /\ runner.at = "ready"
  /\ compute' = Enqueue(compute, Target)
  /\ runner' = [runner EXCEPT !.at = IF bounds.pending # 0 THEN "launched"
                                                           ELSE "sampling"]
  /\ UNCHANGED <<route, bounds, slots, producer, cpu, prepared, last, slot,
                 ingress, device>>

\* A forward that raises ends the engine, with its target on the stream or not.
LaunchFails ==
  /\ runner.at = "ready"
  /\ compute' \in {compute, Enqueue(compute, Target)}
  /\ runner' = [runner EXCEPT !.at = "stopped"]
  /\ UNCHANGED <<route, bounds, slots, producer, cpu, prepared, last, slot,
                 ingress, device>>

\* Faulty SourcesFree: a forward is behind the preparation on its stream.
SourcesFreeBehindTarget == TRUE

\* No copy reads the sources of this wave: the producer has its own, or the
\* event of the preparation is over.
SourcesFree == OnGraph \/ Retired(compute, prepared[slots.bank])

\* The callback, once its receipt is there, corrects the sources.
Correct ==
  /\ runner.at = "launched"
  /\ SourcesFree
  /\ receipt.wave = bounds.pending
  /\ cpu' = [cpu EXCEPT ![slots.bank].budget = @ - Correction]
  /\ bounds' = [bounds EXCEPT !.pending = 0]
  /\ runner' = [runner EXCEPT !.at = "sampling"]
  /\ UNCHANGED <<route, slots, producer, prepared, last, slot, ingress,
                 compute, device>>

\* The native sampler; its count is copied back to the host.
Sample ==
  /\ runner.at = "sampling" /\ runner.kind # "dummy"
  /\ compute' = Enqueue(compute, [op |-> "sample", wave |-> runner.wave,
                                  width |-> Width(runner.kind)])
  /\ last' = [wave |-> runner.wave, width |-> Width(runner.kind)]
  /\ runner' = [runner EXCEPT !.at = "idle"]
  /\ UNCHANGED <<route, bounds, slots, producer, cpu, prepared, slot, ingress, device>>

\* A dummy wave samples nothing.
DummyDone ==
  /\ runner.at = "sampling" /\ runner.kind = "dummy"
  /\ runner' = [runner EXCEPT !.at = "idle"]
  /\ UNCHANGED <<route, bounds, slots, producer, cpu, prepared, last, slot,
                 ingress, compute, device>>

-----------------------------------------------------------------------------
\* The device streams.

\* An upload of a slot, behind the last derivation from it.
Upload ==
  LET u == ingress.work[ingress.done + 1]
  IN  /\ ingress.done < Len(ingress.work)
      /\ Retired(compute, u.after)
      /\ slot' = [slot EXCEPT ![u.slot].device = slot[u.slot].host]
      /\ ingress' = [ingress EXCEPT !.done = @ + 1]
      /\ UNCHANGED <<host, compute, device>>

Running == compute.work[compute.done + 1]

\* The work op at the head of the compute stream retires.
Runs(op) ==
  /\ compute.done < Len(compute.work)
  /\ Running.op = op
  /\ compute' = [compute EXCEPT !.done = @ + 1]

\* Device progress takes up the count of the last wave, whatever the host knows.
Advanced ==
  IF Running.kind = "dummy"
  THEN UNCHANGED <<progress, slack>>
  ELSE /\ progress' = progress + valid
       /\ slack' = Running.bound - progress'

\* The copy of the native preparation; 0 stands for the bytes of another state.
RunPrepare ==
  /\ Runs("prepare")
  /\ inputs' = IF cpu[Running.bank] = Running.put THEN {Running.wave} ELSE {0}
  /\ Advanced
  /\ UNCHANGED <<host, slot, ingress, valid, receipt, read>>

\* The derivation from the device half of a slot, behind its upload.
RunDerive ==
  /\ Runs("derive")
  /\ Retired(ingress, Running.after)
  /\ inputs' = {slot[Running.slot].device}
  /\ Advanced
  /\ UNCHANGED <<host, slot, ingress, valid, receipt, read>>

RunTarget ==
  /\ Runs("target")
  /\ read' = Append(read, inputs \cup {Running.metadata})
  /\ UNCHANGED <<host, slot, ingress, inputs, progress, valid, receipt, slack>>

\* The target accepts at least one token.
RunSample ==
  /\ Runs("sample")
  /\ valid' \in 1 .. Running.width
  /\ receipt' = [wave |-> Running.wave, count |-> valid']
  /\ UNCHANGED <<host, slot, ingress, inputs, progress, slack, read>>

-----------------------------------------------------------------------------

\* The host goes on with its wave.
Continue ==
  \/ Update \/ UpdateDeferred
  \/ PrepareNative \/ PrepareDummy \/ \E n \in Count : PrepareOnSlot(n)
  \/ Build \/ Leave \/ Launch \/ Correct \/ Sample \/ DummyDone

Compute == RunPrepare \/ RunDerive \/ RunTarget \/ RunSample

Next ==
  \/ \E kind \in {"dummy", "plain", "verify"} : Enter(kind)
  \/ Continue \/ Fail \/ LaunchFails
  \/ Upload \/ Compute

Spec == Init /\ [][Next]_vars

\* The device runs what its streams hold, and a wave that has begun goes on.
FairSpec ==
  /\ Spec
  /\ WF_vars(Upload) /\ WF_vars(Compute)
  /\ WF_vars(Continue)

-----------------------------------------------------------------------------
\* Properties.

\* The length that the host plans a wave with never falls short of the exact
\* length on the device ("CPU authorization underestimates device progress",
\* cross_step/__init__.py 174), and exceeds it at most by the drafts of one
\* wave: receipts are neither lost nor counted twice, and none lags further.
BoundCovers == slack \in 0 .. Drafts

\* Every target reads exactly the inputs and the metadata of its own wave: no
\* correction, no bank and no slot is changed under a copy, and no admission
\* outlives its wave.  Every target is reached, and the host comes back from
\* every wave: the fences of host, ingress and compute never wait in a circle.
Targets == {i \in DOMAIN compute.work : compute.work[i].op = "target"}

Service == INSTANCE WaveMetadata WITH submitted <- Cardinality(Targets)

OwnInputs == Service!Spec /\ []<>(runner.at \in {"idle", "stopped"})

=============================================================================
