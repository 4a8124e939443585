-------------------------- MODULE HostSourcesProofs --------------------------
(****************************************************************************)
(* Proofs about HostSources, for both routes, every number of drafts, every *)
(* set of request counts with slots and every number of waves.              *)
(*                                                                          *)
(*   TypeCorrect   the types of HostSources                                 *)
(*   BoundsCover   the bound a plan is made with covers what runs           *)
(*                 (BoundCovers)                                            *)
(*   ReadsItsOwn   the safety part of WaveMetadata: the next wave to read   *)
(*                 reads its own metadata                                   *)
(*                                                                          *)
(* BoundInv replays the compute stream on paper.  A course gives for each   *)
(* place of the queue what the device will have computed before it, with    *)
(* every sample that is still to come counted in full; what the host will   *)
(* plan with next lies at or above the end of that course, and what it      *)
(* planned with lies at or above the course at the place of the plan.       *)
(*                                                                          *)
(* OwnInv follows the inputs of a wave: the copies that are queued find     *)
(* the source they were enqueued for (CopiesKept), a slot's derived inputs  *)
(* stay until they are uploaded and its uploads until they are read         *)
(* (SlotsKept), each target is queued behind the work that fills what it    *)
(* reads (Attributed), and targets come in the order of their waves         *)
(* (Numbered).                                                              *)
(****************************************************************************)
EXTENDS HostSources, FiniteSetTheorems, TLAPS

-----------------------------------------------------------------------------
\* Types.

Kind == {"dummy", "plain", "verify", "stable"}

Place == {"idle", "entered", "updated", "prepared", "built", "ready", "launched",
          "sampling", "stopped"}

\* What the pinned tensors of a bank say.
Source == [wave : Nat, budget : Int]

Preparing == [op : {"prepare"}, wave : Nat, kind : Kind, bank : {0, 1}, put : Source,
              bound : Int]
Deriving == [op : {"derive"}, wave : Nat, kind : Kind, slot : SlotKey, after : Nat,
             bound : Int]
Targeting == [op : {"target"}, wave : Nat, metadata : Nat]
Sampling == [op : {"sample"}, wave : Nat, width : Nat]

Work == Preparing \cup Deriving \cup Targeting \cup Sampling

Runner == [at : Place, wave : Nat, kind : Kind, metadata : Nat]

HostTyped ==
  /\ route \in {"tp", "dp"}
  /\ runner \in Runner
  /\ bounds \in [admitted : BOOLEAN, pending : Nat]
  /\ slots \in [sequence : Nat, bank : {0, 1}, failed : BOOLEAN]
  /\ producer \in [active : Nat, sequence : Nat]
  /\ cpu \in [{0, 1} -> Source]
  /\ prepared \in [{0, 1} -> Nat]
  /\ last \in [wave : Nat, width : Nat]

SlotTyped ==
  slot \in [SlotKey -> [host : Nat, device : Nat, ready : Nat, consumed : Nat]]

StreamsTyped ==
  /\ ingress \in [work : Seq([slot : SlotKey, after : Nat]), done : Nat]
  /\ compute \in [work : Seq(Work), done : Nat]
  /\ ingress.done <= Len(ingress.work)
  /\ compute.done <= Len(compute.work)

DeviceTyped ==
  /\ inputs \in SUBSET Nat
  /\ progress \in Nat
  /\ valid \in Nat
  /\ receipt \in [wave : Nat, count : Nat]
  /\ slack \in Int
  /\ read \in Seq(SUBSET Nat)

Typed == HostTyped /\ SlotTyped /\ StreamsTyped /\ DeviceTyped

LEMMA HostFacts ==
  ASSUME Typed
  PROVE  /\ runner.at \in Place /\ runner.wave \in Nat /\ runner.kind \in Kind
         /\ runner.metadata \in Nat
         /\ bounds.admitted \in BOOLEAN /\ bounds.pending \in Nat
         /\ slots.sequence \in Nat /\ slots.bank \in {0, 1} /\ slots.failed \in BOOLEAN
         /\ producer.active \in Nat /\ producer.sequence \in Nat
         /\ \A b \in {0, 1} : /\ cpu[b] \in Source /\ cpu[b].wave \in Nat
                             /\ cpu[b].budget \in Int /\ prepared[b] \in Nat
         /\ last.wave \in Nat /\ last.width \in Nat
         /\ receipt.wave \in Nat /\ receipt.count \in Nat
         /\ valid \in Nat /\ progress \in Nat
<1>1. \A b \in {0, 1} : /\ cpu[b] \in Source /\ cpu[b].wave \in Nat
                       /\ cpu[b].budget \in Int /\ prepared[b] \in Nat
  BY DEF Typed, HostTyped, Source
<1> QED BY <1>1 DEF Typed, HostTyped, DeviceTyped, Runner

LEMMA StreamFacts ==
  ASSUME Typed
  PROVE  /\ ingress.work \in Seq([slot : SlotKey, after : Nat])
         /\ compute.work \in Seq(Work)
         /\ Len(ingress.work) \in Nat /\ ingress.done \in Nat
         /\ ingress.done <= Len(ingress.work)
         /\ Len(compute.work) \in Nat /\ compute.done \in Nat
         /\ compute.done <= Len(compute.work)
  BY DEF Typed, StreamsTyped

\* Updates of one field keep the host's records typed.
LEMMA RunnerAt ==
  ASSUME Typed, NEW at \in Place, runner' = [runner EXCEPT !.at = at]
  PROVE  runner' \in Runner
  BY DEF Typed, HostTyped, Runner

LEMMA BudgetSet ==
  ASSUME Typed, NEW v \in Int, cpu' = [cpu EXCEPT ![slots.bank].budget = v]
  PROVE  cpu' \in [{0, 1} -> Source]
<1>1. cpu \in [{0, 1} -> Source]
  BY DEF Typed, HostTyped
<1>2. [cpu[slots.bank] EXCEPT !.budget = v] \in Source
  BY HostFacts DEF Source
<1> QED BY <1>1, <1>2

LEMMA WidthType ==
  ASSUME NEW kind
  PROVE  Width(kind) \in Nat /\ Width(kind) >= 1 /\ Width(kind) \in {1, Drafts + 1}
  BY SourcesAssumption DEF Width

LEMMA Enqueued ==
  ASSUME NEW T, NEW stream \in [work : Seq(T), done : Nat], NEW work \in T,
         stream.done <= Len(stream.work), NEW next, next = Enqueue(stream, work)
  PROVE  /\ next \in [work : Seq(T), done : Nat]
         /\ next.done = stream.done /\ next.done <= Len(next.work)
         /\ Len(stream.work) \in Nat /\ Len(next.work) = Len(stream.work) + 1
         /\ \A i \in 1 .. Len(stream.work) : next.work[i] = stream.work[i]
         /\ next.work[Len(stream.work) + 1] = work
<1>1. Enqueue(stream, work) = [stream EXCEPT !.work = Append(stream.work, work)]
  BY DEF Enqueue
<1>2. stream.work \in Seq(T) /\ stream.done \in Nat
  OBVIOUS
<1>3. Enqueue(stream, work) = [work |-> Append(stream.work, work), done |-> stream.done]
  BY <1>1
<1>4. /\ Append(stream.work, work) \in Seq(T)
      /\ Len(Append(stream.work, work)) = Len(stream.work) + 1
      /\ Len(stream.work) \in Nat
      /\ \A i \in 1 .. Len(stream.work) : Append(stream.work, work)[i] = stream.work[i]
      /\ Append(stream.work, work)[Len(stream.work) + 1] = work
  BY <1>2
<1> QED BY <1>2, <1>3, <1>4

LEMMA WorkFields ==
  ASSUME NEW work \in Work
  PROVE  /\ work.op \in {"prepare", "derive", "target", "sample"}
         /\ work.wave \in Nat
         /\ work.op = "prepare" => work \in Preparing
         /\ work.op = "derive" => work \in Deriving
         /\ work.op = "target" => work \in Targeting
         /\ work.op = "sample" => work \in Sampling
  BY DEF Work, Preparing, Deriving, Targeting, Sampling

LEMMA RunningIs ==
  ASSUME StreamsTyped, compute.done < Len(compute.work)
  PROVE  Running \in Work /\ compute.done + 1 \in 1 .. Len(compute.work)
  BY DEF StreamsTyped, Running

LEMMA RunsStreams ==
  ASSUME StreamsTyped, NEW op, Runs(op)
  PROVE  /\ compute'.done = compute.done + 1 /\ compute'.work = compute.work
         /\ compute.done < Len(compute.work)
         /\ Running \in Work /\ Running.op = op
         /\ compute' \in [work : Seq(Work), done : Nat] /\ compute'.done <= Len(compute'.work)
<1>1. Len(compute.work) \in Nat /\ compute.done \in Nat
  BY DEF StreamsTyped
<1> QED BY <1>1, RunningIs DEF Runs, StreamsTyped

LEMMA InitTyped ==
  ASSUME Init
  PROVE  Typed
<1>1. HostTyped
  BY DEF Init, HostTyped, Runner, Place, Kind, Source
<1>2. SlotTyped
  BY DEF Init, SlotTyped
<1>3. StreamsTyped
  BY DEF Init, StreamsTyped
<1>4. DeviceTyped
  BY DEF Init, DeviceTyped
<1> QED BY <1>1, <1>2, <1>3, <1>4 DEF Typed

LEMMA EnterTyped ==
  ASSUME Typed, NEW kind \in {"dummy", "plain", "verify"}, Enter(kind)
  PROVE  Typed'
<1>1. NextBank \in {0, 1}
  BY HostFacts DEF NextBank
<1>2. cpu' \in [{0, 1} -> Source]
  <2>1. cpu \in [{0, 1} -> Source] /\ cpu[slots.bank] \in Source
    BY HostFacts DEF Typed, HostTyped
  <2> QED BY <1>1, <2>1 DEF Enter, Selected
<1>3. runner' \in Runner
  <2>1. runner.wave + 1 \in Nat /\ kind \in Kind
    BY HostFacts DEF Kind
  <2>2. runner' = [at |-> IF kind = "dummy" THEN "updated" ELSE "entered",
                   wave |-> runner.wave + 1, kind |-> kind, metadata |-> 0]
    BY DEF Enter
  <2> QED BY <2>1, <2>2 DEF Runner, Place
<1>4. slots' \in [sequence : Nat, bank : {0, 1}, failed : BOOLEAN]
  BY <1>1 DEF Typed, HostTyped, Enter
<1>5. bounds' \in [admitted : BOOLEAN, pending : Nat]
  BY HostFacts DEF Typed, HostTyped, Enter
<1>6. HostTyped'
  BY <1>2, <1>3, <1>4, <1>5 DEF Typed, HostTyped, Enter
<1> QED BY <1>6 DEF Typed, SlotTyped, StreamsTyped, DeviceTyped, Enter, device

LEMMA UpdateTyped ==
  ASSUME Typed, Update \/ UpdateDeferred
  PROVE  Typed'
<1>1. Optimistic \in Int /\ Correction \in Int
  BY HostFacts DEF Optimistic, Correction
<1>2. Drafted \in Nat
  BY HostFacts DEF Drafted
<1>3. HostTyped'
  <2>1. CASE Update
    <3>1. (IF Drafted = 0 THEN Optimistic ELSE Optimistic - Correction) \in Int
      BY <1>1
    <3>2. cpu' \in [{0, 1} -> Source]
      BY <2>1, <3>1, BudgetSet DEF Update
    <3>3. runner' \in Runner
      BY <2>1, RunnerAt DEF Update, Place
    <3> QED BY <2>1, <3>2, <3>3 DEF Typed, HostTyped, Update
  <2>2. CASE UpdateDeferred
    <3>1. cpu' \in [{0, 1} -> Source]
      BY <1>1, <2>2, BudgetSet DEF UpdateDeferred
    <3>2. runner' \in Runner
      BY <2>2 DEF UpdateDeferred, Typed, HostTyped, Runner, Place, Kind
    <3>3. bounds' \in [admitted : BOOLEAN, pending : Nat]
      BY <1>2, <2>2 DEF UpdateDeferred, Typed, HostTyped
    <3> QED BY <2>2, <3>1, <3>2, <3>3 DEF Typed, HostTyped, UpdateDeferred
  <2> QED BY <2>1, <2>2
<1> QED BY <1>3 DEF Typed, SlotTyped, StreamsTyped, DeviceTyped, Update, UpdateDeferred, device

LEMMA WrittenTyped ==
  ASSUME Typed
  PROVE  /\ Written \in [{0, 1} -> Source]
         /\ Written[slots.bank] \in Source
         /\ Written[slots.bank].wave = runner.wave
         /\ Written[slots.bank].budget = cpu[slots.bank].budget
         /\ \A b \in {0, 1} : b # slots.bank => Written[b] = cpu[b]
<1>1. cpu \in [{0, 1} -> Source] /\ slots.bank \in {0, 1}
  BY HostFacts DEF Typed, HostTyped
<1>2. /\ [cpu[slots.bank] EXCEPT !.wave = runner.wave] \in Source
      /\ [cpu[slots.bank] EXCEPT !.wave = runner.wave].wave = runner.wave
      /\ [cpu[slots.bank] EXCEPT !.wave = runner.wave].budget = cpu[slots.bank].budget
  BY HostFacts DEF Source
<1> QED BY <1>1, <1>2 DEF Written

LEMMA NativeTyped ==
  ASSUME Typed, NEW bound \in Int, Native(bound)
  PROVE  /\ cpu' \in [{0, 1} -> Source]
         /\ compute' \in [work : Seq(Work), done : Nat] /\ compute'.done <= Len(compute'.work)
         /\ runner' \in Runner
<1> DEFINE work == [op |-> "prepare", wave |-> runner.wave, kind |-> runner.kind,
                    bank |-> slots.bank, put |-> Written[slots.bank], bound |-> bound]
<1>1. work \in Work
  BY WrittenTyped, HostFacts DEF Work, Preparing
<1>2. compute \in [work : Seq(Work), done : Nat] /\ compute.done <= Len(compute.work)
  BY DEF Typed, StreamsTyped
<1>3. compute' = Enqueue(compute, work) /\ cpu' = Written
  BY DEF Native
<1>4. runner' \in Runner
  BY RunnerAt DEF Native, Place
<1> HIDE DEF work
<1>5. compute' \in [work : Seq(Work), done : Nat] /\ compute'.done <= Len(compute'.work)
  BY <1>1, <1>2, <1>3, Enqueued
<1> QED BY <1>3, <1>4, <1>5, WrittenTyped

LEMMA PrepareTyped ==
  ASSUME Typed, PrepareNative \/ PrepareDummy
  PROVE  Typed'
<1>1. cpu[slots.bank].budget \in Int /\ cpu[slots.bank].budget - Correction \in Int
  BY HostFacts DEF Correction
<1>2. PICK bound \in Int : Native(bound)
  <2>1. CASE PrepareNative
    BY <1>1, <2>1 DEF PrepareNative
  <2>2. CASE PrepareDummy
    BY <2>2 DEF PrepareDummy
  <2> QED BY <2>1, <2>2
<1>3. HostTyped'
  <2>1. cpu' \in [{0, 1} -> Source] /\ runner' \in Runner
    BY <1>2, NativeTyped
  <2>2. bounds' \in [admitted : BOOLEAN, pending : Nat]
    <3>1. bounds \in [admitted : BOOLEAN, pending : Nat] /\ (runner.kind = "stable") \in BOOLEAN
      BY DEF Typed, HostTyped
    <3>2. \/ bounds' = [bounds EXCEPT !.admitted = (runner.kind = "stable")]
          \/ bounds' = bounds
      BY DEF PrepareNative, PrepareDummy
    <3> DEFINE stable == (runner.kind = "stable")
    <3>3. stable \in BOOLEAN /\ (bounds' = [bounds EXCEPT !.admitted = stable] \/ bounds' = bounds)
      BY <3>2
    <3> HIDE DEF stable
    <3> QED BY <3>1, <3>3
  <2>3. producer' \in [active : Nat, sequence : Nat]
    BY DEF PrepareNative, PrepareDummy, Typed, HostTyped
  <2> QED BY <2>1, <2>2, <2>3 DEF PrepareNative, PrepareDummy, Typed, HostTyped
<1>4. StreamsTyped'
  <2>1. compute' \in [work : Seq(Work), done : Nat] /\ compute'.done <= Len(compute'.work)
    BY <1>2, NativeTyped
  <2> QED BY <2>1 DEF PrepareNative, PrepareDummy, Typed, StreamsTyped
<1> QED BY <1>3, <1>4 DEF Typed, SlotTyped, DeviceTyped, PrepareNative, PrepareDummy, device

LEMMA PrepareOnSlotTyped ==
  ASSUME Typed, NEW n \in Count, PrepareOnSlot(n)
  PROVE  Typed'
<1> DEFINE k == <<n, producer.sequence % 2>>
           upload == [slot |-> k, after |-> slot[k].consumed]
           work == [op |-> "derive", wave |-> runner.wave, kind |-> runner.kind,
                    slot |-> k, after |-> Len(ingress.work) + 1,
                    bound |-> cpu[slots.bank].budget]
           filled == [slot[k] EXCEPT !.host = runner.wave,
                                     !.ready = Len(ingress.work) + 1,
                                     !.consumed = Len(compute.work) + 1]
<1>1. k \in SlotKey
  BY HostFacts DEF SlotKey
<1>2. /\ ingress' = Enqueue(ingress, upload) /\ compute' = Enqueue(compute, work)
      /\ cpu' = Written /\ slot' = [slot EXCEPT ![k] = filled]
      /\ bounds' = [bounds EXCEPT !.admitted = TRUE]
      /\ producer' = [active |-> runner.wave, sequence |-> producer.sequence + 1]
      /\ runner' = [runner EXCEPT !.at = "prepared"]
      /\ UNCHANGED <<route, slots, prepared, last, device>>
  BY DEF PrepareOnSlot
<1>3. slot \in [SlotKey -> [host : Nat, device : Nat, ready : Nat, consumed : Nat]]
  BY DEF Typed, SlotTyped
<1> HIDE DEF k, work, filled
<1>4. upload \in [slot : SlotKey, after : Nat]
  BY <1>1, <1>3
<1>5. work \in Work
  <2>1. /\ runner.wave \in Nat /\ runner.kind \in Kind
        /\ cpu[slots.bank].budget \in Int
    BY HostFacts
  <2>2. Len(ingress.work) + 1 \in Nat
    BY StreamFacts
  <2>3. work \in Deriving
    BY <1>1, <2>1, <2>2 DEF Deriving, work
  <2> QED BY <2>3 DEF Work
<1>6. filled \in [host : Nat, device : Nat, ready : Nat, consumed : Nat]
  <2>1. runner.wave \in Nat
    BY HostFacts
  <2>2. slot[k] \in [host : Nat, device : Nat, ready : Nat, consumed : Nat]
    BY <1>1, <1>3
  <2>3. Len(ingress.work) + 1 \in Nat /\ Len(compute.work) + 1 \in Nat
    BY StreamFacts
  <2> QED BY <2>1, <2>2, <2>3 DEF filled
<1> HIDE DEF upload
<1>7. StreamsTyped'
  <2>1. /\ ingress \in [work : Seq([slot : SlotKey, after : Nat]), done : Nat]
        /\ ingress.done <= Len(ingress.work)
        /\ compute \in [work : Seq(Work), done : Nat] /\ compute.done <= Len(compute.work)
    BY DEF Typed, StreamsTyped
  <2> DEFINE T == [slot : SlotKey, after : Nat]
  <2>2. upload \in T /\ ingress \in [work : Seq(T), done : Nat]
    BY <1>4, <2>1
  <2> HIDE DEF T
  <2>3. ingress' \in [work : Seq(T), done : Nat] /\ ingress'.done <= Len(ingress'.work)
    BY <1>2, <2>1, <2>2, Enqueued
  <2>4. compute' \in [work : Seq(Work), done : Nat] /\ compute'.done <= Len(compute'.work)
    BY <1>2, <1>5, <2>1, Enqueued
  <2> QED BY <2>3, <2>4 DEF StreamsTyped, T
<1>8. SlotTyped'
  BY <1>1, <1>2, <1>3, <1>6 DEF SlotTyped
<1>9. HostTyped'
  <2>1. cpu' \in [{0, 1} -> Source]
    BY <1>2, WrittenTyped
  <2>2. runner' \in Runner
    BY <1>2, RunnerAt DEF Place
  <2>3. bounds' \in [admitted : BOOLEAN, pending : Nat]
    BY <1>2 DEF Typed, HostTyped
  <2>4. producer' \in [active : Nat, sequence : Nat]
    <3>1. runner.wave \in Nat /\ producer.sequence + 1 \in Nat
      BY HostFacts
    <3> QED BY <1>2, <3>1
  <2> QED BY <1>2, <2>1, <2>2, <2>3, <2>4 DEF Typed, HostTyped
<1> QED BY <1>2, <1>7, <1>8, <1>9 DEF Typed, DeviceTyped, device

LEMMA ScopeTyped ==
  ASSUME Typed, Build \/ Leave \/ Fail
  PROVE  Typed'
<1>1. runner' \in Runner
  <2>1. CASE Build
    <3>1. PICK w \in {runner.wave} \cup (IF OnGraph THEN {producer.active} ELSE {}) :
            runner' = [runner EXCEPT !.at = "built", !.metadata = w]
      BY <2>1 DEF Build
    <3>2. w \in Nat
      BY <3>1, HostFacts
    <3> QED BY <3>1, <3>2 DEF Typed, HostTyped, Runner, Place
  <2>2. CASE Leave
    BY <2>2, RunnerAt DEF Leave, Place
  <2>3. CASE Fail
    <3>1. (IF Dp THEN "idle" ELSE "stopped") \in Place
      BY DEF Place
    <3> QED BY <2>3, <3>1, RunnerAt DEF Fail
  <2> QED BY <2>1, <2>2, <2>3
<1>2. prepared' \in [{0, 1} -> Nat]
  <2>1. prepared \in [{0, 1} -> Nat] /\ Len(compute.work) \in Nat
    BY StreamFacts DEF Typed, HostTyped
  <2>2. prepared' = prepared \/ prepared' = [prepared EXCEPT ![slots.bank] = Len(compute.work)]
    BY DEF Build, Leave, Fail, Recorded
  <2> QED BY <2>1, <2>2
<1>3. slots' \in [sequence : Nat, bank : {0, 1}, failed : BOOLEAN]
  <2>1. /\ slots \in [sequence : Nat, bank : {0, 1}, failed : BOOLEAN]
        /\ slots.sequence + 1 \in Nat
    BY HostFacts DEF Typed, HostTyped
  <2>2. \/ slots' = slots
        \/ slots' = [slots EXCEPT !.sequence = slots.sequence + 1]
        \/ slots' = [slots EXCEPT !.sequence = slots.sequence + 1, !.failed = TRUE]
    BY DEF Build, Leave, Fail, Recorded
  <2> QED BY <2>1, <2>2
<1>4. HostTyped'
  BY <1>1, <1>2, <1>3 DEF Typed, HostTyped, Build, Leave, Fail
<1> QED BY <1>4 DEF Typed, SlotTyped, StreamsTyped, DeviceTyped, Build, Leave, Fail, device

LEMMA LaunchTyped ==
  ASSUME Typed, Launch \/ LaunchFails
  PROVE  Typed'
<1>1. Target \in Work
  BY HostFacts DEF Target, Work, Targeting
<1>2. compute' = compute \/ compute' = Enqueue(compute, Target)
  BY DEF Launch, LaunchFails
<1>3. StreamsTyped'
  <2>1. compute \in [work : Seq(Work), done : Nat] /\ compute.done <= Len(compute.work)
    BY DEF Typed, StreamsTyped
  <2>2. compute' \in [work : Seq(Work), done : Nat] /\ compute'.done <= Len(compute'.work)
    BY <1>1, <1>2, <2>1, Enqueued
  <2> QED BY <2>2 DEF Typed, StreamsTyped, Launch, LaunchFails
<1>4. runner' \in Runner
  <2>1. (IF bounds.pending # 0 THEN "launched" ELSE "sampling") \in Place
    BY DEF Place
  <2>2. CASE Launch
    BY <2>1, <2>2, RunnerAt DEF Launch
  <2>3. CASE LaunchFails
    BY <2>3, RunnerAt DEF LaunchFails, Place
  <2> QED BY <2>2, <2>3
<1>5. HostTyped'
  BY <1>4 DEF Launch, LaunchFails, Typed, HostTyped
<1> QED BY <1>3, <1>5 DEF Typed, SlotTyped, DeviceTyped, Launch, LaunchFails, device

LEMMA AfterLaunchTyped ==
  ASSUME Typed, Correct \/ Sample \/ DummyDone
  PROVE  Typed'
<1>1. CASE Correct
  <2>1. cpu[slots.bank].budget - Correction \in Int
    BY HostFacts DEF Correction
  <2>2. cpu' = [cpu EXCEPT ![slots.bank].budget = cpu[slots.bank].budget - Correction]
    BY <1>1 DEF Correct
  <2>3. cpu' \in [{0, 1} -> Source]
    BY <2>1, <2>2, BudgetSet
  <2>4. runner' \in Runner
    BY <1>1, RunnerAt DEF Correct, Place
  <2>5. bounds' \in [admitted : BOOLEAN, pending : Nat]
    BY <1>1 DEF Correct, Typed, HostTyped
  <2>6. HostTyped'
    BY <1>1, <2>3, <2>4, <2>5 DEF Correct, Typed, HostTyped
  <2> QED BY <1>1, <2>6 DEF Typed, SlotTyped, StreamsTyped, DeviceTyped, Correct, device
<1>2. CASE Sample
  <2> DEFINE work == [op |-> "sample", wave |-> runner.wave, width |-> Width(runner.kind)]
  <2>1. work \in Work /\ Width(runner.kind) \in Nat
    BY WidthType, HostFacts DEF Work, Sampling
  <2>2. compute' = Enqueue(compute, work)
    BY <1>2 DEF Sample
  <2> HIDE DEF work
  <2>3. StreamsTyped'
    <3>1. compute \in [work : Seq(Work), done : Nat] /\ compute.done <= Len(compute.work)
      BY DEF Typed, StreamsTyped
    <3>2. compute' \in [work : Seq(Work), done : Nat] /\ compute'.done <= Len(compute'.work)
      BY <2>1, <2>2, <3>1, Enqueued
    <3> QED BY <1>2, <3>2 DEF Typed, StreamsTyped, Sample
  <2>4. runner' \in Runner /\ last' \in [wave : Nat, width : Nat]
    BY <1>2, <2>1, RunnerAt, HostFacts DEF Sample, Place
  <2>5. HostTyped'
    BY <1>2, <2>4 DEF Sample, Typed, HostTyped
  <2> QED BY <1>2, <2>3, <2>5 DEF Typed, SlotTyped, DeviceTyped, Sample, device
<1>3. CASE DummyDone
  <2>1. runner' \in Runner
    BY <1>3, RunnerAt DEF DummyDone, Place
  <2> QED BY <1>3, <2>1 DEF DummyDone, Typed, HostTyped, SlotTyped, StreamsTyped, DeviceTyped,
                            device
<1> QED BY <1>1, <1>2, <1>3

LEMMA UploadTyped ==
  ASSUME Typed, Upload
  PROVE  Typed'
<1> DEFINE u == ingress.work[ingress.done + 1]
<1>1. /\ ingress.done \in Nat /\ Len(ingress.work) \in Nat
      /\ ingress.done < Len(ingress.work)
      /\ slot' = [slot EXCEPT ![u.slot].device = slot[u.slot].host]
      /\ ingress' = [ingress EXCEPT !.done = @ + 1]
      /\ UNCHANGED <<host, compute, device>>
  BY DEF Typed, StreamsTyped, Upload
<1>2. u.slot \in SlotKey
  <2> DEFINE T == [slot : SlotKey, after : Nat]
  <2>1. ingress.work \in Seq(T) /\ ingress.done + 1 \in 1 .. Len(ingress.work)
    BY <1>1, StreamFacts
  <2>2. u \in T
    <3> HIDE DEF T
    <3> QED BY <2>1
  <2> QED BY <2>2
<1> HIDE DEF u
<1>3. SlotTyped'
  BY <1>1, <1>2 DEF Typed, SlotTyped
<1>4. StreamsTyped'
  BY <1>1 DEF Typed, StreamsTyped
<1> QED BY <1>1, <1>3, <1>4 DEF Typed, HostTyped, DeviceTyped, host, device

LEMMA ComputeTyped ==
  ASSUME Typed, Compute
  PROVE  Typed'
<1>1. /\ HostTyped' /\ SlotTyped' /\ ingress' = ingress
  BY DEF Typed, Compute, RunPrepare, RunDerive, RunTarget, RunSample, HostTyped, SlotTyped, host
<1>2. PICK op : Runs(op) /\ op \in {"prepare", "derive", "target", "sample"}
  BY DEF Compute, RunPrepare, RunDerive, RunTarget, RunSample
<1>3. StreamsTyped' /\ Running \in Work /\ Running.op = op
  BY <1>1, <1>2, RunsStreams DEF Typed, StreamsTyped
<1>4. ASSUME Running.op \in {"prepare", "derive"}, Advanced
      PROVE  progress' \in Nat /\ slack' \in Int
  <2>1. Running.bound \in Int
    BY <1>3, <1>4, WorkFields DEF Preparing, Deriving
  <2> QED BY <1>4, <2>1 DEF Advanced, Typed, DeviceTyped
<1>5. DeviceTyped'
  <2>1. CASE RunPrepare
    <3>1. inputs' \in SUBSET Nat
      BY <1>3, <2>1, WorkFields DEF RunPrepare
    <3>2. Running.op = "prepare"
      BY <2>1 DEF RunPrepare, Runs
    <3> QED BY <1>4, <2>1, <3>1, <3>2 DEF RunPrepare, Typed, DeviceTyped
  <2>2. CASE RunDerive
    <3>1. Running.op = "derive"
      BY <2>2 DEF RunDerive, Runs
    <3>2. Running.slot \in SlotKey
      BY <1>3, <3>1, WorkFields DEF Deriving
    <3>3. inputs' \in SUBSET Nat
      BY <2>2, <3>2 DEF RunDerive, Typed, SlotTyped
    <3> QED BY <1>4, <2>2, <3>1, <3>3 DEF RunDerive, Typed, DeviceTyped
  <2>3. CASE RunTarget
    <3>1. Running.metadata \in Nat
      BY <1>3, <2>3, WorkFields DEF RunTarget, Runs, Targeting
    <3>2. inputs \cup {Running.metadata} \in SUBSET Nat
      BY <3>1 DEF Typed, DeviceTyped
    <3> QED BY <2>3, <3>2 DEF RunTarget, Typed, DeviceTyped
  <2>4. CASE RunSample
    <3>1. Running.wave \in Nat /\ Running.width \in Nat
      BY <1>3, <2>4, WorkFields DEF RunSample, Runs, Sampling
    <3>2. valid' \in Nat
      BY <2>4, <3>1 DEF RunSample
    <3> QED BY <2>4, <3>1, <3>2 DEF RunSample, Typed, DeviceTyped
  <2> QED BY <2>1, <2>2, <2>3, <2>4 DEF Compute
<1> QED BY <1>1, <1>3, <1>5 DEF Typed

LEMMA NextTyped ==
  ASSUME Typed, Next
  PROVE  Typed'
<1>1. ASSUME Continue PROVE Typed'
  BY <1>1, UpdateTyped, PrepareTyped, PrepareOnSlotTyped, ScopeTyped, LaunchTyped,
     AfterLaunchTyped, Zenon DEF Continue
<1> QED BY <1>1, EnterTyped, ScopeTyped, LaunchTyped, UploadTyped, ComputeTyped, Zenon DEF Next

-----------------------------------------------------------------------------
\* What the host plans with, and what the device has.

Queued == compute.done + 1 .. Len(compute.work)

\* Work that takes up the count of the last wave, and work that brings one.
Advances(work) == work.op \in {"prepare", "derive"} /\ work.kind # "dummy"
Sampled(work) == work.op = "sample"

\* A sample is queued before i.
Behind(i) == \E j \in Queued : j < i /\ Sampled(compute.work[j])

AnySample == \E j \in Queued : Sampled(compute.work[j])

\* The host goes on: no wave has failed.
Live == ~slots.failed /\ runner.at # "stopped"

\* The host's wave is on the stream, and not yet its sample.
Opened ==
  /\ runner.kind # "dummy"
  /\ runner.at \in {"prepared", "built", "ready", "launched", "sampling"}

\* The host has counted the last wave.
Updated == Opened \/ (runner.kind # "dummy" /\ runner.at = "updated")

\* What the last wave adds to the budget, as far as the host can know.
Owed == IF Received THEN receipt.count ELSE last.width

\* One piece of work leads from the length g to the length h, and from p
\* open waves to q.  Its bound is never too small, and exact behind a sample.
Leads(work, g, h, p, q, behind) ==
  /\ Advances(work) => /\ p = 0 /\ q = 1 /\ h = g
                       /\ work.bound - g \in 0 .. Drafts
                       /\ behind => work.bound = g
  /\ Sampled(work) => p = 1 /\ q = 0 /\ h = g + work.width
  /\ ~Advances(work) /\ ~Sampled(work) => q = p /\ h = g

\* The lengths the requests will have after each piece of queued work, with
\* every sample that is not there yet counted in full.
Course(g, p) ==
  /\ g \in [Nat -> Int] /\ p \in [Nat -> {0, 1}]
  /\ g[compute.done] = progress + (IF p[compute.done] = 1 THEN 0 ELSE valid)
  /\ \A i \in Queued : Leads(compute.work[i], g[i - 1], g[i], p[i - 1], p[i], Behind(i))

\* The samples that are queued: only the last of them may be wide.
Samples ==
  /\ \A i \in Queued : Sampled(compute.work[i]) =>
       LET work == compute.work[i]
       IN  /\ work.wave <= last.wave
           /\ work.wave = last.wave <=> \A j \in Queued : j > i => ~Sampled(compute.work[j])
           /\ work.width \in {1, Drafts + 1}
           /\ work.wave = last.wave => work.width = last.width
           /\ work.width > 1 => work.wave = last.wave
  /\ Received <=> \A i \in Queued : ~Sampled(compute.work[i])

LastCounted ==
  /\ last.wave <= runner.wave
  /\ runner.at \notin {"idle", "stopped"} => last.wave < runner.wave /\ ~slots.failed
  /\ runner.at = "entered" => runner.kind # "dummy"
  /\ last.width \in {0, 1, Drafts + 1}
  /\ last.width = 0 <=> last.wave = 0
  /\ receipt.wave <= last.wave
  /\ Received => IF last.width = 0 THEN receipt.count = 0
                                   ELSE receipt.count \in 1 .. last.width

\* The host's budget, against the length after all that is queued.
Planned(total, open) ==
  LET budget == cpu[slots.bank].budget
  IN  Live =>
        /\ open = 1 <=> Opened
        /\ ~Updated => bounds.pending = 0 /\ total = budget + Owed
        /\ Updated /\ bounds.pending = 0 => total = budget /\ (Drafted # 0 => Received)
        /\ bounds.pending # 0 =>
             /\ bounds.pending = last.wave /\ last.width > 1
             /\ total = budget - (IF Received THEN Correction ELSE 0)
        /\ runner.at = "launched" => bounds.pending # 0
        /\ runner.at = "sampling" => bounds.pending = 0

Counted ==
  \E g \in [Nat -> Int], p \in [Nat -> {0, 1}] :
    Course(g, p) /\ Planned(g[Len(compute.work)], p[Len(compute.work)])

BoundInv == Typed /\ Samples /\ LastCounted /\ BoundCovers /\ Counted

LEMMA QueuedFacts ==
  ASSUME Typed, NEW i \in Queued
  PROVE  /\ i \in Nat /\ i - 1 \in Nat /\ i \in 1 .. Len(compute.work) /\ i > compute.done
         /\ compute.work[i] \in Work
<1>1. i \in 1 .. Len(compute.work) /\ i > compute.done /\ i \in Nat /\ i - 1 \in Nat
  BY StreamFacts DEF Queued
<1> QED BY <1>1, StreamFacts

LEMMA EnqueuedQueue ==
  ASSUME Typed, NEW work \in Work, compute' = Enqueue(compute, work)
  PROVE  LET n == Len(compute.work) + 1
         IN  /\ compute'.done = compute.done /\ Len(compute'.work) = n /\ n \in Nat
             /\ Queued' = Queued \cup {n} /\ n \notin Queued
             /\ \A i \in Queued : compute'.work[i] = compute.work[i]
             /\ compute'.work[n] = work
<1> DEFINE n == Len(compute.work) + 1
<1>1. /\ compute'.done = compute.done /\ Len(compute'.work) = n
      /\ \A i \in 1 .. Len(compute.work) : compute'.work[i] = compute.work[i]
      /\ compute'.work[n] = work
  <2>1. compute \in [work : Seq(Work), done : Nat] /\ compute.done <= Len(compute.work)
    BY DEF Typed, StreamsTyped
  <2>2. compute'.work = Append(compute.work, work) /\ compute'.done = compute.done
    BY <2>1 DEF Enqueue
  <2>3. compute.work \in Seq(Work)
    BY <2>1
  <2> DEFINE old == compute.work
             new == compute'.work
  <2>4. new = Append(old, work) /\ old \in Seq(Work)
    BY <2>2, <2>3
  <2> HIDE DEF old, new
  <2>5. /\ Len(new) = Len(old) + 1
        /\ \A i \in 1 .. Len(old) : new[i] = old[i]
        /\ new[Len(old) + 1] = work
    BY <2>4
  <2> QED BY <2>2, <2>5 DEF old, new
<1>2. /\ Len(compute.work) \in Nat /\ compute.done \in Nat
      /\ compute.done <= Len(compute.work)
  BY StreamFacts
<1>3. Queued' = compute.done + 1 .. Len(compute.work) + 1
  BY <1>1 DEF Queued
<1>4. Queued' = Queued \cup {n} /\ n \notin Queued
  <2>1. \A i : i \in compute.done + 1 .. Len(compute.work) + 1
                <=> i \in compute.done + 1 .. Len(compute.work) \/ i = Len(compute.work) + 1
    BY <1>2
  <2>2. Queued' = Queued \cup {n}
    BY <1>3, <2>1 DEF Queued
  <2>3. ~(n \in compute.done + 1 .. Len(compute.work))
    BY <1>2
  <2> QED BY <2>2, <2>3 DEF Queued
<1>5. \A i \in Queued : i \in 1 .. Len(compute.work)
  BY QueuedFacts
<1> QED BY <1>1, <1>2, <1>4, <1>5

\* Work that is put on the stream goes on from the end of the course.
LEMMA CourseGrows ==
  ASSUME Typed, NEW g, NEW p, Course(g, p), NEW work \in Work,
         compute' = Enqueue(compute, work), UNCHANGED <<progress, valid>>,
         NEW h \in Int, NEW q \in {0, 1},
         Leads(work, g[Len(compute.work)], h, p[Len(compute.work)], q, AnySample),
         Planned(h, q)'
  PROVE  Counted'
<1> PICK n : n = Len(compute.work) + 1
  OBVIOUS
<1> DEFINE g2 == [g EXCEPT ![n] = h]
           p2 == [p EXCEPT ![n] = q]
<1>1. /\ compute'.done = compute.done /\ Len(compute'.work) = n /\ n \in Nat
      /\ Queued' = Queued \cup {n} /\ n \notin Queued
      /\ \A i \in Queued : compute'.work[i] = compute.work[i]
      /\ compute'.work[n] = work
  BY EnqueuedQueue
<1>2. /\ g \in [Nat -> Int] /\ p \in [Nat -> {0, 1}]
      /\ g[compute.done] = progress + (IF p[compute.done] = 1 THEN 0 ELSE valid)
      /\ \A i \in Queued : Leads(compute.work[i], g[i - 1], g[i], p[i - 1], p[i], Behind(i))
  BY DEF Course
<1>3. /\ Len(compute.work) \in Nat /\ compute.done \in Nat
      /\ compute.done <= Len(compute.work) /\ n - 1 = Len(compute.work)
  BY StreamFacts
<1>4. /\ g2 \in [Nat -> Int] /\ p2 \in [Nat -> {0, 1}]
      /\ g2[n] = h /\ p2[n] = q
      /\ \A i \in Nat : i # n => g2[i] = g[i] /\ p2[i] = p[i]
  BY <1>1, <1>2
<1>5. Leads(work, g[n - 1], h, p[n - 1], q, AnySample)
  BY <1>3
<1> HIDE DEF g2, p2
<1>6. g2[compute.done] = progress + (IF p2[compute.done] = 1 THEN 0 ELSE valid)
  <2>1. compute.done # n /\ compute.done \in Nat
    BY <1>3
  <2> QED BY <1>2, <1>4, <2>1
<1>7. ASSUME NEW i \in Queued'
      PROVE  Leads(compute'.work[i], g2[i - 1], g2[i], p2[i - 1], p2[i], Behind(i)')
  <2>1. CASE i \in Queued
    <3>1. /\ i \in Nat /\ i - 1 \in Nat /\ i # n /\ i - 1 # n /\ ~(n < i)
      BY <1>3, <2>1, QueuedFacts
    <3>2. Behind(i)' <=> Behind(i)
      <4>1. \A j : (j \in Queued' /\ j < i) <=> (j \in Queued /\ j < i)
        BY <1>1, <3>1
      <4> QED BY <1>1, <4>1 DEF Behind
    <3>3. g2[i - 1] = g[i - 1] /\ g2[i] = g[i] /\ p2[i - 1] = p[i - 1] /\ p2[i] = p[i]
      BY <1>4, <3>1
    <3>4. Leads(compute.work[i], g[i - 1], g[i], p[i - 1], p[i], Behind(i))
      BY <1>2, <2>1
    <3>5. compute'.work[i] = compute.work[i]
      BY <1>1, <2>1
    <3> QED BY <3>2, <3>3, <3>4, <3>5 DEF Leads
  <2>2. CASE i = n
    <3>1. n - 1 \in Nat /\ n - 1 # n
      BY <1>3
    <3>2. g2[n - 1] = g[n - 1] /\ g2[n] = h /\ p2[n - 1] = p[n - 1] /\ p2[n] = q
      BY <1>4, <3>1
    <3>3. Behind(i)' <=> AnySample
      <4>1. \A j \in Queued : j < n
        BY <1>3, QueuedFacts
      <4>2. ~(n < n)
        BY <1>3
      <4>3. \A j : (j \in Queued' /\ j < i) <=> j \in Queued
        BY <1>1, <2>2, <4>1, <4>2
      <4> QED BY <1>1, <4>3 DEF Behind, AnySample
    <3>4. compute'.work[n] = work
      BY <1>1
    <3> QED BY <1>5, <2>2, <3>2, <3>3, <3>4 DEF Leads
  <2> QED BY <1>1, <2>1, <2>2
<1>8. Course(g2, p2)'
  BY <1>1, <1>4, <1>6, <1>7 DEF Course
<1>9. Planned(g2[n], p2[n])'
  BY <1>4
<1> QED BY <1>1, <1>4, <1>8, <1>9 DEF Counted

\* Work that samples nothing leaves the samples as they are.
LEMMA SamplesEnqueued ==
  ASSUME Typed, Samples, NEW work \in Work, ~Sampled(work),
         compute' = Enqueue(compute, work), UNCHANGED <<last, receipt>>
  PROVE  Samples'
<1> DEFINE n == Len(compute.work) + 1
<1>1. /\ Queued' = Queued \cup {n} /\ n \notin Queued
      /\ \A i \in Queued : compute'.work[i] = compute.work[i]
      /\ compute'.work[n] = work
  BY EnqueuedQueue
<1> HIDE DEF n
<1>2. Received' <=> Received
  BY DEF Received
<1>3. \A i \in Queued' : Sampled(compute'.work[i]) =>
        i \in Queued /\ compute'.work[i] = compute.work[i]
  BY <1>1
<1> QED BY <1>1, <1>2, <1>3 DEF Samples

LEMMA SamplesUnchanged ==
  ASSUME Samples, UNCHANGED <<compute, last, receipt>>
  PROVE  Samples'
<1>1. Queued' = Queued /\ (Received' <=> Received)
  BY DEF Queued, Received
<1> QED BY <1>1 DEF Samples

LEMMA CountedStays ==
  ASSUME Typed, Counted, UNCHANGED <<compute, progress, valid>>,
         \A total \in Int, open \in {0, 1} : Planned(total, open) => Planned(total, open)'
  PROVE  Counted'
<1>1. PICK g \in [Nat -> Int], p \in [Nat -> {0, 1}] :
        Course(g, p) /\ Planned(g[Len(compute.work)], p[Len(compute.work)])
  BY DEF Counted
<1>2. Course(g, p)'
  <2>1. Queued' = Queued /\ \A i : Behind(i)' <=> Behind(i)
    BY DEF Queued, Behind
  <2> QED BY <1>1, <2>1 DEF Course
<1>3. PICK n : n = Len(compute.work)
  OBVIOUS
<1>4. g[n] \in Int /\ p[n] \in {0, 1} /\ n = Len(compute'.work)
  BY <1>3, StreamFacts
<1>5. Planned(g[n], p[n])'
  BY <1>1, <1>3, <1>4
<1> QED BY <1>2, <1>4, <1>5 DEF Counted

LEMMA CountedGrows ==
  ASSUME Typed, Counted, NEW work \in Work,
         compute' = Enqueue(compute, work), UNCHANGED <<progress, valid>>,
         \A total \in Int, open \in {0, 1} : Planned(total, open) =>
           \E h \in Int, q \in {0, 1} :
             /\ Leads(work, total, h, open, q, AnySample)
             /\ Planned(h, q)'
  PROVE  Counted'
<1>1. PICK g \in [Nat -> Int], p \in [Nat -> {0, 1}] :
        Course(g, p) /\ Planned(g[Len(compute.work)], p[Len(compute.work)])
  BY DEF Counted
<1>2. PICK total : total = g[Len(compute.work)]
  OBVIOUS
<1>3. PICK open : open = p[Len(compute.work)]
  OBVIOUS
<1>4. total \in Int /\ open \in {0, 1} /\ Planned(total, open)
  BY <1>1, <1>2, <1>3, StreamFacts
<1>5. PICK h \in Int, q \in {0, 1} :
        /\ Leads(work, total, h, open, q, AnySample)
        /\ Planned(h, q)'
  BY <1>4
<1>6. Leads(work, g[Len(compute.work)], h, p[Len(compute.work)], q, AnySample)
  BY <1>2, <1>3, <1>5, Zenon
<1> QED BY <1>1, <1>5, <1>6, CourseGrows

\* The steps of the host that put nothing on the compute stream.
LEMMA EnterPlans ==
  ASSUME Typed, LastCounted, NEW kind \in {"dummy", "plain", "verify"}, Enter(kind),
         NEW total \in Int, NEW open \in {0, 1}, Planned(total, open)
  PROVE  LastCounted' /\ Planned(total, open)'
<1>1. /\ runner.at = "idle" /\ ~slots.failed
      /\ runner' = [at |-> IF kind = "dummy" THEN "updated" ELSE "entered",
                    wave |-> runner.wave + 1, kind |-> kind, metadata |-> 0]
      /\ slots' = [slots EXCEPT !.bank = NextBank]
      /\ UNCHANGED <<last, receipt>>
  BY DEF Enter, CanEnter, device
<1>2. /\ slots'.bank = NextBank /\ NextBank \in {0, 1} /\ slots'.failed = slots.failed
  BY <1>1, HostFacts DEF NextBank, Typed, HostTyped
<1>3. cpu'[slots'.bank].budget = cpu[slots.bank].budget
  BY <1>2 DEF Enter, Selected, Typed, HostTyped
<1>4. bounds'.pending = bounds.pending
  BY DEF Enter, Typed, HostTyped
<1>5. /\ runner'.at = (IF kind = "dummy" THEN "updated" ELSE "entered")
      /\ runner'.kind = kind /\ runner'.wave = runner.wave + 1
  BY <1>1
<1>6. LastCounted'
  BY <1>1, <1>2, <1>5, HostFacts DEF LastCounted, Received
<1>7. ~Opened /\ ~Updated /\ Live
  BY <1>1 DEF Opened, Updated, Live
<1>8. ~Opened' /\ ~Updated' /\ Live'
  BY <1>1, <1>2, <1>5 DEF Opened, Updated, Live
<1>9. Owed' = Owed
  BY <1>1 DEF Owed, Received
<1>10. Planned(total, open)'
  BY <1>1, <1>3, <1>4, <1>5, <1>7, <1>8, <1>9 DEF Planned
<1> QED BY <1>6, <1>10

LEMMA BudgetIs ==
  ASSUME Typed, NEW v, cpu' = [cpu EXCEPT ![slots.bank].budget = v], slots'.bank = slots.bank
  PROVE  cpu'[slots'.bank].budget = v
<1>1. cpu \in [{0, 1} -> Source] /\ slots.bank \in {0, 1}
  BY HostFacts DEF Typed, HostTyped
<1>2. cpu'[slots.bank] = [cpu[slots.bank] EXCEPT !.budget = v]
  BY <1>1
<1>3. cpu[slots.bank] \in [wave : Nat, budget : Int]
  BY <1>1 DEF Source
<1> QED BY <1>2, <1>3

LEMMA UpdatePlans ==
  ASSUME Typed, LastCounted, Update \/ UpdateDeferred,
         NEW total \in Int, NEW open \in {0, 1}, Planned(total, open)
  PROVE  LastCounted' /\ Planned(total, open)'
<1> DEFINE b == cpu[slots.bank].budget
           c == cpu'[slots'.bank].budget
<1>1. /\ runner.at = "entered" /\ bounds.pending = 0 /\ runner'.at = "updated"
      /\ runner'.wave = runner.wave /\ runner'.kind # "dummy"
      /\ UNCHANGED <<last, receipt, slots>>
  BY DEF Update, UpdateDeferred, device, LastCounted, CanBeStable, Typed, HostTyped, Runner
<1>2. LastCounted'
  BY <1>1 DEF LastCounted, Received
<1>3. ~Opened /\ ~Updated /\ (Live' <=> Live) /\ ~Opened' /\ Updated'
  BY <1>1 DEF Opened, Updated, Live
<1>4. Received' <=> Received
  BY <1>1 DEF Received
<1>5. Correction = last.width - receipt.count /\ Correction' = Correction
      /\ Drafted' = Drafted /\ (Drafted = 0 <=> last.wave = 0 \/ ~(last.width > 1))
      /\ (Drafted # 0 => Drafted = last.wave)
  BY <1>1 DEF Correction, Drafted
<1>6. CASE Update
  <2>1. c = IF Drafted = 0 THEN b + last.width ELSE (b + last.width) - Correction
    <3> DEFINE v == IF Drafted = 0 THEN Optimistic ELSE Optimistic - Correction
    <3>1. cpu' = [cpu EXCEPT ![slots.bank].budget = v] /\ slots'.bank = slots.bank
      BY <1>1, <1>6 DEF Update
    <3> HIDE DEF v
    <3>2. cpu'[slots'.bank].budget = v
      BY <3>1, BudgetIs
    <3>3. Optimistic = b + last.width
      BY DEF Optimistic
    <3> HIDE DEF b, c
    <3>4. c = v
      BY <3>2 DEF c
    <3> QED BY <3>3, <3>4 DEF v
  <2>2. bounds'.pending = 0 /\ (Drafted # 0 => Received)
    BY <1>1, <1>6 DEF Update
  <2>3. c = b + Owed
    BY <1>5, <2>1, <2>2, HostFacts DEF Owed, LastCounted
  <2> HIDE DEF b, c
  <2>4. Planned(total, open) => Planned(total, open)'
    BY <1>1, <1>3, <1>4, <1>5, <2>2, <2>3 DEF Planned, b, c
  <2> QED BY <1>2, <2>4
<1>7. CASE UpdateDeferred
  <2>1. c = b + last.width
    BY <1>1, <1>7, BudgetIs DEF UpdateDeferred, Optimistic
  <2>2. bounds'.pending = Drafted
    BY <1>7 DEF UpdateDeferred, Typed, HostTyped
  <2>3. ~Live \/ total = b + Owed
    BY <1>3 DEF Planned
  <2>4. b \in Int /\ last.width \in Nat /\ receipt.count \in Nat /\ last.wave \in Nat
    BY HostFacts
  <2> HIDE DEF b, c
  <2>5. CASE Drafted = 0
    <3>1. c = b + Owed
      BY <1>5, <2>1, <2>4, <2>5 DEF Owed, LastCounted
    <3> QED BY <1>1, <1>2, <1>3, <1>4, <1>5, <2>2, <2>3, <2>5, <3>1 DEF Planned, b, c
  <2>6. CASE Drafted # 0
    <3>1. last.width > 1 /\ Drafted = last.wave
      BY <1>5, <2>4, <2>6
    <3>2. b + Owed = c - (IF Received THEN Correction ELSE 0)
      BY <1>5, <2>1, <2>4 DEF Owed
    <3> QED BY <1>1, <1>2, <1>3, <1>4, <1>5, <2>2, <2>3, <2>6, <3>1, <3>2 DEF Planned, b, c
  <2> QED BY <2>5, <2>6
<1> QED BY <1>6, <1>7

LEMMA BuildPlans ==
  ASSUME Typed, LastCounted, Build \/ Leave,
         NEW total \in Int, NEW open \in {0, 1}, Planned(total, open)
  PROVE  LastCounted' /\ Planned(total, open)'
<1>1. /\ runner.at \in {"prepared", "built"} /\ runner'.at \in {"built", "ready"}
      /\ runner'.wave = runner.wave /\ runner'.kind = runner.kind
  BY DEF Build, Leave, Typed, HostTyped, Runner
<1>2. /\ slots'.bank = slots.bank /\ slots'.failed = slots.failed
      /\ UNCHANGED <<bounds, cpu, last, receipt>>
  BY DEF Build, Leave, Recorded, device, Typed, HostTyped
<1>3. LastCounted'
  BY <1>1, <1>2 DEF LastCounted, Received
<1>4. (Opened' <=> Opened) /\ (Updated' <=> Updated) /\ (Live' <=> Live)
  BY <1>1, <1>2 DEF Opened, Updated, Live
<1>5. (Received' <=> Received) /\ Owed' = Owed /\ Correction' = Correction /\ Drafted' = Drafted
  BY <1>2 DEF Received, Owed, Correction, Drafted
<1>6. Planned(total, open)'
  BY <1>1, <1>2, <1>4, <1>5 DEF Planned
<1> QED BY <1>3, <1>6

LEMMA CorrectPlans ==
  ASSUME Typed, LastCounted, Correct,
         NEW total \in Int, NEW open \in {0, 1}, Planned(total, open)
  PROVE  LastCounted' /\ Planned(total, open)'
<1>1. /\ runner.at = "launched" /\ runner'.at = "sampling"
      /\ runner'.wave = runner.wave /\ runner'.kind = runner.kind
      /\ bounds'.pending = 0 /\ receipt.wave = bounds.pending
      /\ UNCHANGED <<last, receipt, slots>>
  BY DEF Correct, device, Typed, HostTyped, Runner
<1>2. LastCounted'
  BY <1>1 DEF LastCounted, Received
<1>3. (Opened' <=> Opened) /\ (Updated' <=> Updated) /\ (Live' <=> Live)
  BY <1>1 DEF Opened, Updated, Live
<1>4. cpu'[slots'.bank].budget = cpu[slots.bank].budget - Correction
  <2> DEFINE v == cpu[slots.bank].budget - Correction
  <2>1. cpu' = [cpu EXCEPT ![slots.bank].budget = v] /\ slots'.bank = slots.bank
    BY <1>1 DEF Correct
  <2> HIDE DEF v
  <2>2. cpu'[slots'.bank].budget = v
    BY <2>1, BudgetIs
  <2> QED BY <2>2 DEF v
<1>5. (Received' <=> Received) /\ Drafted' = Drafted
  BY <1>1 DEF Received, Drafted
<1>6. Live => bounds.pending # 0 /\ bounds.pending = last.wave /\ Received /\ Updated
  BY <1>1 DEF Planned, Received
<1>7. Live => total = cpu[slots.bank].budget - Correction
  BY <1>6 DEF Planned
<1>8. Planned(total, open)'
  BY <1>1, <1>3, <1>4, <1>5, <1>6, <1>7 DEF Planned
<1> QED BY <1>2, <1>8

LEMMA DummyPlans ==
  ASSUME Typed, LastCounted, DummyDone,
         NEW total \in Int, NEW open \in {0, 1}, Planned(total, open)
  PROVE  LastCounted' /\ Planned(total, open)'
<1>1. /\ runner.at = "sampling" /\ runner.kind = "dummy" /\ runner'.at = "idle"
      /\ runner'.wave = runner.wave /\ runner'.kind = runner.kind
      /\ UNCHANGED <<last, receipt, slots, bounds, cpu>>
  BY DEF DummyDone, device, Typed, HostTyped, Runner
<1>2. LastCounted'
  BY <1>1, HostFacts DEF LastCounted, Received
<1>3. ~Opened /\ ~Updated /\ (Live' <=> Live) /\ ~Opened' /\ ~Updated'
  BY <1>1 DEF Opened, Updated, Live
<1>4. (Received' <=> Received) /\ Owed' = Owed
  BY <1>1 DEF Received, Owed
<1>5. Planned(total, open)'
  BY <1>1, <1>3, <1>4 DEF Planned
<1> QED BY <1>2, <1>5

LEMMA FailPlans ==
  ASSUME Typed, LastCounted, Fail \/ LaunchFails,
         NEW total \in Int, NEW open \in {0, 1}
  PROVE  LastCounted' /\ Planned(total, open)'
<1>1. /\ runner'.at \in {"idle", "stopped"} /\ runner'.wave = runner.wave
      /\ slots'.failed \/ runner'.at = "stopped"
      /\ UNCHANGED <<last, receipt>>
  BY DEF Fail, LaunchFails, device, Typed, HostTyped, Runner
<1>2. LastCounted'
  BY <1>1 DEF LastCounted, Received
<1>3. ~Live'
  BY <1>1 DEF Live
<1> QED BY <1>2, <1>3 DEF Planned

\* The steps of the host that put work on the compute stream.
LEMMA PreparePlans ==
  ASSUME Typed, LastCounted, Samples,
         NEW work \in Work, work.op \in {"prepare", "derive"}, work.kind = runner.kind,
         runner.kind # "dummy" =>
           \/ work.bound = cpu[slots.bank].budget
           \/ /\ bounds.pending # 0 /\ Received
              /\ work.bound = cpu[slots.bank].budget - Correction,
         runner.at = "updated", runner'.at = "prepared",
         runner'.wave = runner.wave, runner'.kind = runner.kind,
         bounds'.pending = bounds.pending,
         cpu'[slots'.bank].budget = cpu[slots.bank].budget,
         UNCHANGED <<slots, last, receipt>>,
         NEW total \in Int, NEW open \in {0, 1}, Planned(total, open)
  PROVE  /\ LastCounted'
         /\ \E h \in Int, q \in {0, 1} :
              Leads(work, total, h, open, q, AnySample) /\ Planned(h, q)'
<1>1. LastCounted'
  BY DEF LastCounted, Received
<1>2. (Received' <=> Received) /\ Owed' = Owed /\ Correction' = Correction /\ Drafted' = Drafted
  BY DEF Received, Owed, Correction, Drafted
<1>3. Live /\ (Live' <=> Live)
  BY DEF Live, LastCounted
<1>4. CASE runner.kind = "dummy"
  <2>1. ~Opened /\ ~Updated /\ ~Opened' /\ ~Updated'
    BY <1>4 DEF Opened, Updated
  <2>2. Planned(total, open)'
    BY <1>2, <1>3, <2>1 DEF Planned
  <2>3. Leads(work, total, total, open, open, AnySample)
    BY <1>4 DEF Leads, Advances, Sampled
  <2> QED BY <1>1, <2>2, <2>3
<1>5. CASE runner.kind # "dummy"
  <2> DEFINE b == cpu[slots.bank].budget
             c == cpu'[slots'.bank].budget
  <2>1. ~Opened /\ Updated /\ Opened' /\ Updated'
    BY <1>5 DEF Opened, Updated
  <2>2. c = b /\ b \in Int
    BY HostFacts
  <2>3. \/ bounds.pending = 0 /\ total = b
        \/ /\ bounds.pending # 0 /\ last.width > 1
           /\ total = b - (IF Received THEN Correction ELSE 0)
    BY <1>3, <2>1 DEF Planned
  <2>4. open = 0
    BY <1>3, <2>1 DEF Planned
  <2>5. Correction = last.width - receipt.count
    BY DEF Correction
  <2>6. Received => /\ ~AnySample
                    /\ last.width > 1 => Correction \in 0 .. Drafts
    <3>1. Received => ~AnySample
      BY DEF Samples, AnySample
    <3>2. ASSUME Received, last.width > 1 PROVE Correction \in 0 .. Drafts
      <4>1. last.width = Drafts + 1 /\ receipt.count \in 1 .. last.width
        BY <3>2, HostFacts, SourcesAssumption DEF LastCounted
      <4> QED BY <2>5, <4>1, SourcesAssumption
    <3> QED BY <3>1, <3>2
  <2>7. work.bound - total \in 0 .. Drafts /\ (AnySample => work.bound = total)
    <3>1. work.bound = b \/ (bounds.pending # 0 /\ Received /\ work.bound = b - Correction)
      BY <1>5
    <3>2. last.width \in Nat /\ receipt.count \in Nat
      BY HostFacts
    <3> HIDE DEF b, c
    <3> QED BY <2>2, <2>3, <2>5, <2>6, <3>1, <3>2, SourcesAssumption
  <2>8. Leads(work, total, total, open, 1, AnySample)
    BY <1>5, <2>4, <2>7 DEF Leads, Advances, Sampled
  <2>9. Planned(total, 1)'
    BY <1>2, <1>3, <2>1, <2>2 DEF Planned
  <2> QED BY <1>1, <2>8, <2>9
<1> QED BY <1>4, <1>5

LEMMA LaunchPlans ==
  ASSUME Typed, LastCounted, Launch,
         NEW total \in Int, NEW open \in {0, 1}, Planned(total, open)
  PROVE  LastCounted' /\ Planned(total, open)'
<1>1. /\ runner.at = "ready"
      /\ runner'.at = (IF bounds.pending # 0 THEN "launched" ELSE "sampling")
      /\ runner'.wave = runner.wave /\ runner'.kind = runner.kind
      /\ UNCHANGED <<bounds, cpu, slots, last, receipt>>
  BY DEF Launch, device, Typed, HostTyped, Runner
<1>2. LastCounted'
  BY <1>1 DEF LastCounted, Received
<1>3. (Opened' <=> Opened) /\ (Updated' <=> Updated) /\ (Live' <=> Live)
  BY <1>1 DEF Opened, Updated, Live
<1>4. (Received' <=> Received) /\ Owed' = Owed /\ Correction' = Correction /\ Drafted' = Drafted
  BY <1>1 DEF Received, Owed, Correction, Drafted
<1>5. bounds.pending \in Nat /\ bounds'.pending = bounds.pending
  BY <1>1, HostFacts
<1>6. Planned(total, open)'
  BY <1>1, <1>3, <1>4, <1>5 DEF Planned
<1> QED BY <1>2, <1>6

LEMMA TargetLeads ==
  ASSUME Typed, NEW total \in Int, NEW open \in {0, 1}
  PROVE  /\ Target \in Work /\ ~Sampled(Target)
         /\ Leads(Target, total, total, open, open, AnySample)
<1>1. Target.op = "target"
  BY DEF Target
<1>2. Target \in Work
  BY HostFacts DEF Target, Work, Targeting
<1> QED BY <1>1, <1>2 DEF Leads, Advances, Sampled

LEMMA SamplePlans ==
  ASSUME Typed, LastCounted, Samples, Sample,
         NEW total \in Int, NEW open \in {0, 1}, Planned(total, open)
  PROVE  LET work == [op |-> "sample", wave |-> runner.wave, width |-> Width(runner.kind)]
         IN  /\ LastCounted' /\ Samples'
             /\ \E h \in Int, q \in {0, 1} :
                  Leads(work, total, h, open, q, AnySample) /\ Planned(h, q)'
<1> PICK w : w = Width(runner.kind)
  OBVIOUS
<1> DEFINE work == [op |-> "sample", wave |-> runner.wave, width |-> w]
           n == Len(compute.work) + 1
<1>1. /\ runner.at = "sampling" /\ runner.kind # "dummy" /\ runner'.at = "idle"
      /\ runner'.wave = runner.wave /\ runner'.kind = runner.kind
      /\ last' = [wave |-> runner.wave, width |-> w]
      /\ compute' = Enqueue(compute, work)
      /\ UNCHANGED <<receipt, slots, bounds, cpu>>
  BY DEF Sample, device, Typed, HostTyped, Runner
<1>2. w \in Nat /\ w >= 1 /\ w \in {1, Drafts + 1}
  BY WidthType
<1>3. work \in Work /\ work.op = "sample" /\ work.wave = runner.wave /\ work.width = w
  BY <1>2, HostFacts DEF Work, Sampling
<1>4. last'.wave = runner.wave /\ last'.width = w
  BY <1>1
<1>5. /\ last.wave < runner.wave /\ receipt.wave <= last.wave /\ Live
      /\ last.wave \in Nat /\ runner.wave \in Nat /\ receipt.wave \in Nat
  BY <1>1, HostFacts DEF LastCounted, Live
<1>6. ~Received'
  BY <1>1, <1>4, <1>5 DEF Received
<1>7. bounds.pending = 0 /\ open = 1 /\ total = cpu[slots.bank].budget /\ (Drafted # 0 => Received)
  BY <1>1, <1>5 DEF Planned, Opened, Updated
<1> HIDE DEF work
<1>8. LastCounted'
  BY <1>1, <1>2, <1>4, <1>5, <1>6 DEF LastCounted
<1>9. Planned(total + w, 0)'
  <2>1. ~Opened' /\ ~Updated'
    BY <1>1 DEF Opened, Updated
  <2>2. Owed' = w
    BY <1>4, <1>6 DEF Owed
  <2> QED BY <1>1, <1>4, <1>7, <2>1, <2>2 DEF Planned
<1>10. Leads(work, total, total + w, open, 0, AnySample)
  BY <1>3, <1>7 DEF Leads, Advances, Sampled
<1>11. Samples'
  <2>1. /\ Queued' = Queued \cup {n} /\ n \notin Queued
        /\ \A i \in Queued : compute'.work[i] = compute.work[i]
        /\ compute'.work[n] = work
    BY <1>1, <1>3, EnqueuedQueue
  <2>2. \A i \in Queued : i \in Nat /\ i < n /\ compute.work[i] \in Work
    BY QueuedFacts, StreamFacts
  <2>3. n \in Nat
    BY StreamFacts
  <2> HIDE DEF n
  <2>4. Sampled(compute'.work[n])
    BY <1>3, <2>1 DEF Sampled
  <2>5. ASSUME NEW i \in Queued, Sampled(compute.work[i])
        PROVE  compute.work[i].wave < runner.wave /\ compute.work[i].width = 1
    <3>1. /\ compute.work[i].wave <= last.wave
          /\ compute.work[i].width \in {1, Drafts + 1}
          /\ compute.work[i].wave = last.wave => compute.work[i].width = last.width
          /\ compute.work[i].width > 1 => compute.work[i].wave = last.wave
          /\ compute.work[i].wave \in Nat
      BY <2>2, <2>5, WorkFields DEF Samples
    <3>2. ~Received
      BY <2>5 DEF Samples
    <3>3. last.wave = 0 \/ ~(last.width > 1)
      BY <1>7, <3>2, <1>5 DEF Drafted
    <3>4. ~(last.width > 1)
      BY <3>3, HostFacts DEF LastCounted
    <3> QED BY <1>5, <3>1, <3>4, SourcesAssumption
  <2>6. ASSUME NEW i \in Queued', Sampled(compute'.work[i])
        PROVE  /\ compute'.work[i].wave <= last'.wave
               /\ compute'.work[i].wave = last'.wave
                    <=> \A j \in Queued' : j > i => ~Sampled(compute'.work[j])
               /\ compute'.work[i].width \in {1, Drafts + 1}
               /\ compute'.work[i].wave = last'.wave => compute'.work[i].width = last'.width
               /\ compute'.work[i].width > 1 => compute'.work[i].wave = last'.wave
    <3>1. CASE i = n
      <4>1. \A j \in Queued' : ~(j > i)
        BY <2>1, <2>2, <2>3, <3>1
      <4> QED BY <1>2, <1>3, <1>4, <1>5, <2>1, <3>1, <4>1
    <3>2. CASE i \in Queued
      <4>1. compute'.work[i].wave < runner.wave /\ compute'.work[i].width = 1
        BY <2>1, <2>5, <2>6, <3>2
      <4>2. n \in Queued' /\ n > i
        BY <2>1, <2>2, <3>2
      <4>3. compute'.work[i].wave \in Nat
        BY <2>1, <2>2, <3>2, WorkFields
      <4> QED BY <1>4, <1>5, <2>4, <4>1, <4>2, <4>3
    <3> QED BY <2>1, <3>1, <3>2
  <2>7. ~(\A i \in Queued' : ~Sampled(compute'.work[i]))
    BY <2>1, <2>4
  <2> QED BY <1>6, <2>6, <2>7 DEF Samples
<1>12. \E h \in Int, q \in {0, 1} :
         Leads(work, total, h, open, q, AnySample) /\ Planned(h, q)'
  <2>1. total + w \in Int /\ 0 \in {0, 1}
    BY <1>2
  <2> QED BY <1>9, <1>10, <2>1
<1> QED BY <1>8, <1>11, <1>12 DEF work

LEMMA PlanExists ==
  ASSUME Typed, Counted
  PROVE  \E total \in Int, open \in {0, 1} : Planned(total, open)
<1>1. PICK g \in [Nat -> Int], p \in [Nat -> {0, 1}] :
        Planned(g[Len(compute.work)], p[Len(compute.work)])
  BY DEF Counted
<1>2. g[Len(compute.work)] \in Int /\ p[Len(compute.work)] \in {0, 1}
  BY StreamFacts
<1> QED BY <1>1, <1>2

\* The steps of the host keep the invariant.
LEMMA StillCounted ==
  ASSUME BoundInv,
         \/ \E kind \in {"dummy", "plain", "verify"} : Enter(kind)
         \/ Update \/ UpdateDeferred \/ Build \/ Leave \/ Correct \/ DummyDone \/ Fail
  PROVE  Samples' /\ LastCounted' /\ BoundCovers' /\ Counted'
<1>1. Typed /\ Samples /\ LastCounted /\ BoundCovers /\ Counted
  BY DEF BoundInv
<1>2. UNCHANGED <<compute, progress, valid, slack, last, receipt>>
  BY DEF Enter, Update, UpdateDeferred, Build, Leave, Correct, DummyDone, Fail, device
<1>3. ASSUME NEW total \in Int, NEW open \in {0, 1}, Planned(total, open)
      PROVE  LastCounted' /\ Planned(total, open)'
  BY <1>1, <1>3, EnterPlans, UpdatePlans, BuildPlans, CorrectPlans, DummyPlans, FailPlans, Zenon
<1>4. LastCounted'
  BY <1>1, <1>3, PlanExists
<1>5. Counted'
  BY <1>1, <1>2, <1>3, CountedStays
<1>6. Samples'
  BY <1>1, <1>2, SamplesUnchanged
<1> QED BY <1>1, <1>2, <1>4, <1>5, <1>6 DEF BoundCovers

LEMMA NativeCounted ==
  ASSUME BoundInv, PrepareNative \/ PrepareDummy
  PROVE  Samples' /\ LastCounted' /\ BoundCovers' /\ Counted'
<1>1. Typed /\ Samples /\ LastCounted /\ BoundCovers /\ Counted
  BY DEF BoundInv
<1>2. PICK bound \in Int :
        /\ Native(bound)
        /\ runner.kind # "dummy" =>
             \/ bound = cpu[slots.bank].budget
             \/ /\ bounds.pending # 0 /\ Received
                /\ bound = cpu[slots.bank].budget - Correction
  <2>1. cpu[slots.bank].budget \in Int /\ cpu[slots.bank].budget - Correction \in Int
    BY <1>1, HostFacts DEF Correction
  <2>2. CASE PrepareNative
    BY <2>1, <2>2 DEF PrepareNative
  <2>3. CASE PrepareDummy
    BY <2>3 DEF PrepareDummy
  <2> QED BY <2>2, <2>3
<1> DEFINE work == [op |-> "prepare", wave |-> runner.wave, kind |-> runner.kind,
                    bank |-> slots.bank, put |-> Written[slots.bank], bound |-> bound]
<1>3. /\ compute' = Enqueue(compute, work) /\ cpu' = Written
      /\ runner' = [runner EXCEPT !.at = "prepared"]
  BY <1>2 DEF Native
<1>4. /\ work.op = "prepare" /\ work.kind = runner.kind /\ work.bound = bound
  OBVIOUS
<1>5. work \in Work
  BY <1>1, WrittenTyped, HostFacts DEF Work, Preparing
<1> HIDE DEF work
<1>6. UNCHANGED <<slots, last, receipt, progress, valid, slack>> /\ runner.at = "updated"
  BY DEF PrepareNative, PrepareDummy, device
<1>7. /\ runner'.at = "prepared" /\ runner'.wave = runner.wave /\ runner'.kind = runner.kind
  BY <1>1, <1>3 DEF Typed, HostTyped, Runner
<1>8. bounds'.pending = bounds.pending
  <2>1. bounds' = bounds \/ \E v : bounds' = [bounds EXCEPT !.admitted = v]
    BY DEF PrepareNative, PrepareDummy
  <2> QED BY <1>1, <2>1 DEF Typed, HostTyped
<1>9. cpu'[slots'.bank].budget = cpu[slots.bank].budget
  <2>1. slots'.bank = slots.bank /\ slots.bank \in {0, 1}
    BY <1>1, <1>3, <1>6, HostFacts
  <2>2. Written[slots.bank].budget = cpu[slots.bank].budget
    BY <1>1, <2>1, WrittenTyped
  <2>3. cpu' = Written
    BY <1>3, <1>6
  <2> QED BY <2>1, <2>2, <2>3
<1>10. ASSUME NEW total \in Int, NEW open \in {0, 1}, Planned(total, open)
       PROVE  /\ LastCounted'
              /\ \E h \in Int, q \in {0, 1} :
                   Leads(work, total, h, open, q, AnySample) /\ Planned(h, q)'
  BY <1>1, <1>2, <1>4, <1>5, <1>6, <1>7, <1>8, <1>9, <1>10, PreparePlans
<1>11. LastCounted'
  BY <1>1, <1>10, PlanExists
<1>12. Counted'
  BY <1>1, <1>3, <1>5, <1>6, <1>10, CountedGrows
<1>13. Samples'
  <2>1. ~Sampled(work)
    BY <1>4 DEF Sampled
  <2> QED BY <1>1, <1>3, <1>5, <1>6, <2>1, SamplesEnqueued
<1> QED BY <1>1, <1>6, <1>11, <1>12, <1>13 DEF BoundCovers

LEMMA OnSlotCounted ==
  ASSUME BoundInv, NEW n \in Count, PrepareOnSlot(n)
  PROVE  Samples' /\ LastCounted' /\ BoundCovers' /\ Counted'
<1>1. Typed /\ Samples /\ LastCounted /\ BoundCovers /\ Counted
  BY DEF BoundInv
<1> DEFINE k == <<n, producer.sequence % 2>>
           work == [op |-> "derive", wave |-> runner.wave, kind |-> runner.kind,
                    slot |-> k, after |-> Len(ingress.work) + 1,
                    bound |-> cpu[slots.bank].budget]
<1>2. /\ compute' = Enqueue(compute, work) /\ cpu' = Written
      /\ runner' = [runner EXCEPT !.at = "prepared"]
      /\ bounds' = [bounds EXCEPT !.admitted = TRUE]
      /\ runner.at = "updated"
      /\ UNCHANGED <<slots, last, receipt, progress, valid, slack>>
  BY DEF PrepareOnSlot, device
<1>3. work.op = "derive" /\ work.kind = runner.kind /\ work.bound = cpu[slots.bank].budget
  OBVIOUS
<1>4. work \in Work
  <2>1. k \in SlotKey
    BY <1>1, HostFacts DEF SlotKey
  <2> HIDE DEF k
  <2>2. runner.wave \in Nat /\ runner.kind \in Kind /\ cpu[slots.bank].budget \in Int
    BY <1>1, HostFacts
  <2>3. Len(ingress.work) + 1 \in Nat
    BY <1>1, StreamFacts
  <2>4. work \in Deriving
    BY <2>1, <2>2, <2>3 DEF Deriving
  <2> QED BY <2>4 DEF Work
<1> HIDE DEF work
<1>5. /\ runner'.at = "prepared" /\ runner'.wave = runner.wave /\ runner'.kind = runner.kind
      /\ bounds'.pending = bounds.pending
  BY <1>1, <1>2 DEF Typed, HostTyped, Runner
<1>6. cpu'[slots'.bank].budget = cpu[slots.bank].budget
  <2>1. slots'.bank = slots.bank /\ slots.bank \in {0, 1}
    BY <1>1, <1>2, HostFacts
  <2>2. Written[slots.bank].budget = cpu[slots.bank].budget
    BY <1>1, <2>1, WrittenTyped
  <2>3. cpu' = Written
    BY <1>2
  <2> QED BY <2>1, <2>2, <2>3
<1>7. ASSUME NEW total \in Int, NEW open \in {0, 1}, Planned(total, open)
      PROVE  /\ LastCounted'
             /\ \E h \in Int, q \in {0, 1} :
                  Leads(work, total, h, open, q, AnySample) /\ Planned(h, q)'
  BY <1>1, <1>2, <1>3, <1>4, <1>5, <1>6, <1>7, PreparePlans
<1>8. LastCounted'
  BY <1>1, <1>7, PlanExists
<1>9. Counted'
  BY <1>1, <1>2, <1>4, <1>7, CountedGrows
<1>10. Samples'
  <2>1. ~Sampled(work)
    BY <1>3 DEF Sampled
  <2> QED BY <1>1, <1>2, <1>4, <2>1, SamplesEnqueued
<1> QED BY <1>1, <1>2, <1>8, <1>9, <1>10 DEF BoundCovers

LEMMA LaunchCounted ==
  ASSUME BoundInv, Launch \/ LaunchFails
  PROVE  Samples' /\ LastCounted' /\ BoundCovers' /\ Counted'
<1>1. Typed /\ Samples /\ LastCounted /\ BoundCovers /\ Counted
  BY DEF BoundInv
<1>2. UNCHANGED <<last, receipt, progress, valid, slack>>
      /\ (compute' = compute \/ compute' = Enqueue(compute, Target))
  BY DEF Launch, LaunchFails, device
<1>3. ASSUME NEW total \in Int, NEW open \in {0, 1}, Planned(total, open)
      PROVE  LastCounted' /\ Planned(total, open)'
  BY <1>1, <1>3, LaunchPlans, FailPlans
<1>4. LastCounted'
  BY <1>1, <1>3, PlanExists
<1>5. CASE compute' = compute
  <2>1. Counted'
    BY <1>1, <1>2, <1>3, <1>5, CountedStays
  <2>2. Samples'
    BY <1>1, <1>2, <1>5, SamplesUnchanged
  <2> QED BY <1>1, <1>2, <1>4, <2>1, <2>2 DEF BoundCovers
<1>6. CASE compute' = Enqueue(compute, Target)
  <2>1. PICK work : work = Target
    OBVIOUS
  <2>2. work \in Work /\ ~Sampled(work) /\ compute' = Enqueue(compute, work)
    BY <1>1, <1>6, <2>1, TargetLeads
  <2>3. ASSUME NEW total \in Int, NEW open \in {0, 1}, Planned(total, open)
        PROVE  \E h \in Int, q \in {0, 1} :
                 Leads(work, total, h, open, q, AnySample) /\ Planned(h, q)'
    BY <1>1, <1>3, <2>1, <2>3, TargetLeads
  <2>4. Counted'
    BY <1>1, <1>2, <2>2, <2>3, CountedGrows
  <2>5. Samples'
    BY <1>1, <1>2, <2>2, SamplesEnqueued
  <2> QED BY <1>1, <1>2, <1>4, <2>4, <2>5 DEF BoundCovers
<1> QED BY <1>2, <1>5, <1>6

LEMMA SampleCounted ==
  ASSUME BoundInv, Sample
  PROVE  Samples' /\ LastCounted' /\ BoundCovers' /\ Counted'
<1>1. Typed /\ Samples /\ LastCounted /\ BoundCovers /\ Counted
  BY DEF BoundInv
<1>2. PICK work : work = [op |-> "sample", wave |-> runner.wave, width |-> Width(runner.kind)]
  OBVIOUS
<1>3. UNCHANGED <<progress, valid, slack>> /\ compute' = Enqueue(compute, work)
  BY <1>2 DEF Sample, device
<1>4. work \in Work
  BY <1>1, <1>2, WidthType, HostFacts DEF Work, Sampling
<1>5. ASSUME NEW total \in Int, NEW open \in {0, 1}, Planned(total, open)
      PROVE  /\ LastCounted' /\ Samples'
             /\ \E h \in Int, q \in {0, 1} :
                  Leads(work, total, h, open, q, AnySample) /\ Planned(h, q)'
  BY <1>1, <1>2, <1>5, SamplePlans
<1>6. LastCounted' /\ Samples'
  BY <1>1, <1>5, PlanExists
<1>7. Counted'
  BY <1>1, <1>3, <1>4, <1>5, CountedGrows
<1> QED BY <1>1, <1>3, <1>6, <1>7 DEF BoundCovers

\* The head of the compute stream retires.
LEMMA HeadRuns ==
  ASSUME Typed, NEW op, Runs(op)
  PROVE  /\ compute'.work = compute.work /\ compute'.done = compute.done + 1
         /\ compute.done + 1 \in Queued /\ compute.done \in Nat
         /\ Running = compute.work[compute.done + 1] /\ Running \in Work /\ Running.op = op
         /\ Queued' = Queued \ {compute.done + 1}
         /\ \A i \in Queued' : i - 1 > compute.done /\ i \in Nat /\ i - 1 \in Nat
<1>1. /\ compute'.done = compute.done + 1 /\ compute'.work = compute.work
      /\ compute.done < Len(compute.work)
      /\ Running \in Work /\ Running.op = op
  BY RunsStreams DEF Typed
<1>2. Len(compute.work) \in Nat /\ compute.done \in Nat
  BY StreamFacts
<1>3. Queued' = compute.done + 1 + 1 .. Len(compute.work)
  BY <1>1 DEF Queued
<1>4. compute.done + 1 \in Queued
  BY <1>1, <1>2 DEF Queued
<1>5. \A i : i \in compute.done + 1 + 1 .. Len(compute.work)
             <=> i \in compute.done + 1 .. Len(compute.work) /\ i # compute.done + 1
  BY <1>2
<1>6. Queued' = Queued \ {compute.done + 1}
  BY <1>3, <1>5 DEF Queued
<1>7. \A i \in Queued' : i - 1 > compute.done /\ i \in Nat /\ i - 1 \in Nat
  BY <1>2, <1>3
<1> QED BY <1>1, <1>2, <1>4, <1>6, <1>7 DEF Running

LEMMA PlannedUnchanged ==
  ASSUME UNCHANGED <<host, receipt>>, NEW total, NEW open, Planned(total, open)
  PROVE  Planned(total, open)'
<1>1. UNCHANGED <<runner, slots, bounds, cpu, last, receipt>>
  BY DEF host
<1>2. /\ (Opened' <=> Opened) /\ (Updated' <=> Updated) /\ (Live' <=> Live)
      /\ (Received' <=> Received) /\ Owed' = Owed /\ Correction' = Correction
      /\ Drafted' = Drafted
  BY <1>1 DEF Opened, Updated, Live, Received, Owed, Correction, Drafted
<1> QED BY <1>1, <1>2 DEF Planned

\* Work that is no sample: a preparation advances the device to the length
\* the course has, and its bound covers it.
LEMMA HeadCounted ==
  ASSUME BoundInv, NEW op, Runs(op), op # "sample",
         UNCHANGED <<host, receipt, valid>>,
         Advances(Running) => progress' = progress + valid /\ slack' = Running.bound - progress',
         ~Advances(Running) => UNCHANGED <<progress, slack>>
  PROVE  Samples' /\ LastCounted' /\ BoundCovers' /\ Counted'
<1>1. Typed /\ Samples /\ LastCounted /\ BoundCovers /\ Counted
  BY DEF BoundInv
<1>2. PICK m : m = compute.done + 1
  OBVIOUS
<1>3. /\ compute'.work = compute.work /\ compute'.done = m
      /\ m \in Queued /\ compute.done \in Nat /\ m - 1 = compute.done
      /\ Running = compute.work[m] /\ Running \in Work /\ Running.op = op
      /\ Queued' = Queued \ {m}
      /\ \A i \in Queued' : i \in Nat /\ i - 1 \in Nat
  BY <1>1, <1>2, HeadRuns
<1>4. ~Sampled(Running)
  BY <1>3 DEF Sampled
<1>5. PICK g \in [Nat -> Int], p \in [Nat -> {0, 1}] :
        Course(g, p) /\ Planned(g[Len(compute.work)], p[Len(compute.work)])
  BY <1>1 DEF Counted
<1>6. /\ g[m - 1] = progress + (IF p[m - 1] = 1 THEN 0 ELSE valid)
      /\ Leads(Running, g[m - 1], g[m], p[m - 1], p[m], Behind(m))
      /\ \A i \in Queued : Leads(compute.work[i], g[i - 1], g[i], p[i - 1], p[i], Behind(i))
  BY <1>3, <1>5 DEF Course
<1>7. /\ progress \in Nat /\ valid \in Nat /\ g[m] \in Int
      /\ Running.bound \in Int \/ ~Advances(Running)
  <2>1. Running.op \in {"prepare", "derive"} => Running.bound \in Int
    BY <1>3, WorkFields DEF Preparing, Deriving
  <2>2. m \in Nat
    BY <1>1, <1>3, QueuedFacts
  <2> QED BY <1>1, <1>5, <2>1, <2>2, HostFacts DEF Advances
<1>8. g[m] = progress' + (IF p[m] = 1 THEN 0 ELSE valid') /\ BoundCovers'
  <2>1. CASE Advances(Running)
    <3>1. /\ p[m - 1] = 0 /\ p[m] = 1 /\ g[m] = g[m - 1]
          /\ Running.bound - g[m - 1] \in 0 .. Drafts
      BY <1>6, <2>1 DEF Leads
    <3>2. progress' = progress + valid /\ slack' = Running.bound - progress'
      BY <2>1
    <3> QED BY <1>6, <1>7, <2>1, <3>1, <3>2 DEF BoundCovers
  <2>2. CASE ~Advances(Running)
    <3>1. p[m] = p[m - 1] /\ g[m] = g[m - 1]
      BY <1>4, <1>6, <2>2 DEF Leads
    <3> QED BY <1>1, <1>6, <2>2, <3>1 DEF BoundCovers
  <2> QED BY <2>1, <2>2
<1>9. \A i : Behind(i)' <=> Behind(i)
  BY <1>3, <1>4 DEF Behind
<1>10. Course(g, p)'
  BY <1>3, <1>5, <1>6, <1>8, <1>9 DEF Course
<1>11. Counted'
  <2>1. PICK n : n = Len(compute.work)
    OBVIOUS
  <2>2. Planned(g[n], p[n])'
    BY <1>5, <2>1, PlannedUnchanged
  <2> QED BY <1>3, <1>10, <2>1, <2>2 DEF Counted
<1>12. Samples'
  <2>1. Received' <=> Received
    BY DEF Received, host
  <2>2. last' = last
    BY DEF host
  <2>3. \A i \in Queued : Sampled(compute.work[i]) => i \in Queued'
    BY <1>3, <1>4
  <2> QED BY <1>1, <1>3, <2>1, <2>2, <2>3 DEF Samples
<1>13. LastCounted'
  BY <1>1 DEF LastCounted, Received, host
<1> QED BY <1>8, <1>11, <1>12, <1>13

\* A sample brings its count, which the course has taken for its whole width.
LEMMA SampleRuns ==
  ASSUME BoundInv, RunSample
  PROVE  Samples' /\ LastCounted' /\ BoundCovers' /\ Counted'
<1>1. Typed /\ Samples /\ LastCounted /\ BoundCovers /\ Counted
  BY DEF BoundInv
<1>2. PICK m : m = compute.done + 1
  OBVIOUS
<1>3. /\ compute'.work = compute.work /\ compute'.done = m
      /\ m \in Queued /\ compute.done \in Nat /\ m - 1 = compute.done
      /\ Running = compute.work[m] /\ Running \in Work /\ Running.op = "sample"
      /\ Queued' = Queued \ {m}
      /\ \A i \in Queued' : i \in Nat /\ i - 1 \in Nat /\ m < i
  BY <1>1, <1>2, HeadRuns DEF RunSample
<1>4. PICK w : w = Running.width
  OBVIOUS
<1>5. PICK c : c = valid'
  OBVIOUS
<1>6. /\ c \in 1 .. w /\ receipt' = [wave |-> Running.wave, count |-> c]
      /\ UNCHANGED <<host, progress, slack>>
  BY <1>4, <1>5 DEF RunSample
<1>7. receipt'.wave = Running.wave /\ receipt'.count = c
  BY <1>6
<1>8. Sampled(compute.work[m]) /\ ~Advances(Running)
  BY <1>3 DEF Sampled, Advances
<1>9. /\ Running.wave <= last.wave
      /\ Running.wave = last.wave <=> \A j \in Queued : j > m => ~Sampled(compute.work[j])
      /\ w \in {1, Drafts + 1}
      /\ Running.wave = last.wave => w = last.width
      /\ w > 1 => Running.wave = last.wave
      /\ ~Received
  BY <1>1, <1>3, <1>4, <1>8 DEF Samples
<1>10. /\ w \in Nat /\ c \in Nat /\ c >= 1 /\ c <= w /\ w - c \in 0 .. Drafts
       /\ w = 1 => w - c = 0
  BY <1>6, <1>9, SourcesAssumption
<1>11. Received' <=> Running.wave = last.wave
  BY <1>6, <1>7 DEF Received, host
<1>12. (\A j \in Queued' : ~Sampled(compute.work[j])) <=> Running.wave = last.wave
  <2>1. \A j \in Queued : j > m <=> j \in Queued'
    <3>1. \A j \in Queued' : j > m
      BY <1>3
    <3>2. m \in Nat /\ ~(m > m)
      BY <1>1, <1>3, QueuedFacts
    <3> QED BY <1>3, <3>1, <3>2
  <2> QED BY <1>3, <1>9, <2>1
<1>13. Samples'
  <2>1. last' = last
    BY <1>6 DEF host
  <2>2. ASSUME NEW i \in Queued', Sampled(compute.work[i])
        PROVE  (\A j \in Queued' : j > i => ~Sampled(compute.work[j]))
               <=> (\A j \in Queued : j > i => ~Sampled(compute.work[j]))
    <3>1. m < i /\ i \in Nat /\ m \in Nat
      BY <1>1, <1>3, QueuedFacts
    <3>2. ~(m > i)
      BY <3>1
    <3> QED BY <1>3, <3>2
  <2> QED BY <1>1, <1>3, <1>11, <1>12, <2>1, <2>2 DEF Samples
<1>14. LastCounted'
  <2>1. UNCHANGED <<runner, slots, last>>
    BY <1>6 DEF host
  <2>2. Received' => last.width # 0 /\ c \in 1 .. last.width
    BY <1>9, <1>10, <1>11
  <2> QED BY <1>1, <1>7, <1>9, <2>1, <2>2 DEF LastCounted
<1>15. PICK g \in [Nat -> Int], p \in [Nat -> {0, 1}] :
         Course(g, p) /\ Planned(g[Len(compute.work)], p[Len(compute.work)])
  BY <1>1 DEF Counted
<1>16. /\ g[m - 1] = progress + (IF p[m - 1] = 1 THEN 0 ELSE valid)
       /\ Leads(Running, g[m - 1], g[m], p[m - 1], p[m], Behind(m))
       /\ \A i \in Queued : Leads(compute.work[i], g[i - 1], g[i], p[i - 1], p[i], Behind(i))
  BY <1>3, <1>15 DEF Course
<1>17. PICK h : h = [i \in Nat |-> g[i] - (w - c)]
  OBVIOUS
<1>18. h \in [Nat -> Int] /\ \A i \in Nat : h[i] = g[i] - (w - c)
  BY <1>10, <1>15, <1>17
<1>19. m \in Nat /\ m - 1 \in Nat
  BY <1>1, <1>3, QueuedFacts
<1>20. h[m] = progress' + (IF p[m] = 1 THEN 0 ELSE valid')
  <2>1. p[m - 1] = 1 /\ p[m] = 0 /\ g[m] = g[m - 1] + w
    BY <1>3, <1>4, <1>8, <1>16 DEF Leads
  <2>2. progress \in Nat /\ progress' = progress /\ g[m] \in Int
    BY <1>1, <1>6, <1>15, <1>19, HostFacts
  <2> QED BY <1>5, <1>10, <1>16, <1>18, <1>19, <2>1, <2>2
<1>21. ASSUME NEW i \in Queued'
       PROVE  Leads(compute.work[i], h[i - 1], h[i], p[i - 1], p[i], Behind(i)')
  <2>1. /\ i \in Nat /\ i - 1 \in Nat /\ m < i /\ i \in Queued
        /\ Leads(compute.work[i], g[i - 1], g[i], p[i - 1], p[i], Behind(i))
    BY <1>3, <1>16
  <2>2. Behind(i)
    BY <1>3, <1>8, <2>1 DEF Behind
  <2>3. Behind(i)' => w - c = 0
    <3>1. Behind(i)' => Running.wave # last.wave
      BY <1>3, <1>12 DEF Behind
    <3> QED BY <1>9, <1>10, <3>1
  <2>4. h[i - 1] = g[i - 1] - (w - c) /\ h[i] = g[i] - (w - c)
        /\ g[i - 1] \in Int /\ g[i] \in Int
    BY <1>15, <1>18, <2>1
  <2> DEFINE work == compute.work[i]
  <2>5. work \in Work
    BY <1>1, <2>1, QueuedFacts
  <2>6. Leads(work, g[i - 1], g[i], p[i - 1], p[i], Behind(i))
    BY <2>1
  <2> HIDE DEF work
  <2>7. Leads(work, h[i - 1], h[i], p[i - 1], p[i], Behind(i)')
    <3>1. CASE Advances(work)
      <4>1. /\ p[i - 1] = 0 /\ p[i] = 1 /\ g[i] = g[i - 1] /\ work.bound = g[i - 1]
        BY <2>2, <2>6, <3>1 DEF Leads
      <4>2. work.bound - h[i - 1] \in 0 .. Drafts /\ (Behind(i)' => work.bound = h[i - 1])
        BY <1>10, <2>3, <2>4, <4>1
      <4>3. ~Sampled(work)
        BY <3>1 DEF Advances, Sampled
      <4> QED BY <2>4, <3>1, <4>1, <4>2, <4>3 DEF Leads
    <3>2. CASE Sampled(work)
      <4>1. work.width \in Nat
        BY <2>5, <3>2, WorkFields DEF Sampled, Sampling
      <4>2. p[i - 1] = 1 /\ p[i] = 0 /\ g[i] = g[i - 1] + work.width
        BY <2>6, <3>2 DEF Leads
      <4>3. h[i] = h[i - 1] + work.width
        BY <1>10, <2>4, <4>1, <4>2
      <4>4. ~Advances(work)
        BY <3>2 DEF Advances, Sampled
      <4> QED BY <3>2, <4>2, <4>3, <4>4 DEF Leads
    <3>3. CASE ~Advances(work) /\ ~Sampled(work)
      <4>1. p[i] = p[i - 1] /\ g[i] = g[i - 1]
        BY <2>6, <3>3 DEF Leads
      <4> QED BY <2>4, <3>3, <4>1 DEF Leads
    <3> QED BY <3>1, <3>2, <3>3
  <2> QED BY <2>7 DEF work
<1>22. Course(h, p)'
  BY <1>3, <1>15, <1>18, <1>20, <1>21 DEF Course
<1>23. PICK n : n = Len(compute.work)
  OBVIOUS
<1>24. n \in Nat /\ g[n] \in Int /\ h[n] = g[n] - (w - c)
  BY <1>1, <1>15, <1>18, <1>23, StreamFacts
<1>25. PICK total : total = g[n]
  OBVIOUS
<1>26. PICK open : open = p[n]
  OBVIOUS
<1>27. Planned(total, open)
  BY <1>15, <1>23, <1>25, <1>26
<1>28. Planned(total - (w - c), open)'
  <2>1. UNCHANGED <<runner, slots, bounds, cpu, last>>
    BY <1>6 DEF host
  <2>2. /\ (Opened' <=> Opened) /\ (Updated' <=> Updated) /\ (Live' <=> Live)
        /\ Drafted' = Drafted
    BY <2>1 DEF Opened, Updated, Live, Drafted
  <2>3. Owed = last.width /\ Owed' = IF Received' THEN c ELSE last.width
    BY <1>7, <1>9, <2>1 DEF Owed
  <2>4. Correction' = last.width - c
    BY <1>7, <2>1 DEF Correction
  <2>5. \/ Received' /\ w = last.width
        \/ ~Received' /\ w - c = 0
    BY <1>9, <1>10, <1>11
  <2>6. last.width \in Nat /\ last.wave \in Nat /\ cpu[slots.bank].budget \in Int /\ total \in Int
        /\ bounds.pending \in Nat
    BY <1>1, <1>24, <1>25, HostFacts
  <2>7. Updated /\ bounds.pending = 0 /\ Live => total = cpu[slots.bank].budget /\ w - c = 0
        /\ (Drafted # 0 => Received')
    <3>1. Updated /\ bounds.pending = 0 /\ Live => Drafted = 0 /\ total = cpu[slots.bank].budget
      BY <1>9, <1>27 DEF Planned
    <3>2. Drafted = 0 => last.wave = 0 \/ ~(last.width > 1)
      BY DEF Drafted
    <3>3. Drafted = 0 => ~(last.width > 1)
      BY <1>1, <3>2 DEF LastCounted
    <3> QED BY <1>9, <1>10, <2>5, <2>6, <3>1, <3>3
  <2>8. ~Updated /\ Live => total - (w - c) = cpu[slots.bank].budget + Owed'
    <3>1. ~Updated /\ Live => total = cpu[slots.bank].budget + last.width
      BY <1>27, <2>3 DEF Planned
    <3> QED BY <1>10, <2>3, <2>5, <2>6, <3>1
  <2>9. bounds.pending # 0 /\ Live =>
          total - (w - c) = cpu[slots.bank].budget - (IF Received' THEN Correction' ELSE 0)
    <3>1. bounds.pending # 0 /\ Live => total = cpu[slots.bank].budget
      BY <1>9, <1>27, <2>6 DEF Planned
    <3> QED BY <1>10, <2>4, <2>5, <2>6, <3>1
  <2>10. total - (w - c) = total \/ w - c # 0
    BY <1>10, <2>6
  <2>11. PICK fixed : fixed = total - (w - c)
    OBVIOUS
  <2>12. Planned(fixed, open)'
    BY <1>27, <2>1, <2>2, <2>6, <2>7, <2>8, <2>9, <2>10, <2>11 DEF Planned
  <2> QED BY <2>11, <2>12
<1>29. Counted'
  <2>1. h[n] = total - (w - c) /\ p[n] = open /\ n = Len(compute'.work)
    BY <1>3, <1>23, <1>24, <1>25, <1>26
  <2>2. Planned(h[n], p[n])'
    BY <1>28, <2>1
  <2> QED BY <1>18, <1>22, <2>1, <2>2 DEF Counted
<1> QED BY <1>1, <1>6, <1>13, <1>14, <1>29 DEF BoundCovers

LEMMA ComputeCounted ==
  ASSUME BoundInv, Compute
  PROVE  Samples' /\ LastCounted' /\ BoundCovers' /\ Counted'
<1>1. Typed
  BY DEF BoundInv
<1>2. CASE RunPrepare
  <2>1. Runs("prepare") /\ UNCHANGED <<host, receipt, valid>> /\ Running.op = "prepare"
    BY <1>1, <1>2, HeadRuns DEF RunPrepare
  <2>2. Advances(Running) => progress' = progress + valid /\ slack' = Running.bound - progress'
    BY <1>2, <2>1 DEF RunPrepare, Advanced, Advances
  <2>3. ~Advances(Running) => UNCHANGED <<progress, slack>>
    BY <1>2, <2>1 DEF RunPrepare, Advanced, Advances
  <2> QED BY <2>1, <2>2, <2>3, HeadCounted
<1>3. CASE RunDerive
  <2>1. Runs("derive") /\ UNCHANGED <<host, receipt, valid>> /\ Running.op = "derive"
    BY <1>1, <1>3, HeadRuns DEF RunDerive
  <2>2. Advances(Running) => progress' = progress + valid /\ slack' = Running.bound - progress'
    BY <1>3, <2>1 DEF RunDerive, Advanced, Advances
  <2>3. ~Advances(Running) => UNCHANGED <<progress, slack>>
    BY <1>3, <2>1 DEF RunDerive, Advanced, Advances
  <2> QED BY <2>1, <2>2, <2>3, HeadCounted
<1>4. CASE RunTarget
  <2>1. Runs("target") /\ UNCHANGED <<host, receipt, valid, progress, slack>>
        /\ Running.op = "target"
    BY <1>1, <1>4, HeadRuns DEF RunTarget
  <2>2. ~Advances(Running)
    BY <2>1 DEF Advances
  <2> QED BY <2>1, <2>2, HeadCounted
<1> QED BY <1>2, <1>3, <1>4, SampleRuns DEF Compute

LEMMA UploadCounted ==
  ASSUME BoundInv, Upload
  PROVE  Samples' /\ LastCounted' /\ BoundCovers' /\ Counted'
<1>1. Typed /\ Samples /\ LastCounted /\ BoundCovers /\ Counted
  BY DEF BoundInv
<1>2. UNCHANGED <<host, compute, progress, valid, slack, receipt>>
  BY DEF Upload, device
<1>3. UNCHANGED <<last, runner, slots>>
  BY <1>2 DEF host
<1>4. \A total \in Int, open \in {0, 1} : Planned(total, open) => Planned(total, open)'
  BY <1>2, PlannedUnchanged
<1>5. Counted'
  BY <1>1, <1>2, <1>4, CountedStays
<1>6. Samples'
  BY <1>1, <1>2, <1>3, SamplesUnchanged
<1>7. LastCounted'
  BY <1>1, <1>2, <1>3 DEF LastCounted, Received
<1> QED BY <1>1, <1>2, <1>5, <1>6, <1>7 DEF BoundCovers

LEMMA InitBound ==
  ASSUME Init
  PROVE  BoundInv
<1>1. Typed
  BY InitTyped
<1>2. /\ compute.work = <<>> /\ compute.done = 0 /\ Len(compute.work) = 0
      /\ runner.at = "idle" /\ runner.wave = 0 /\ bounds.pending = 0
      /\ slots.failed = FALSE /\ slots.bank = 0 /\ last.wave = 0 /\ last.width = 0
      /\ progress = 0 /\ valid = 0 /\ receipt.wave = 0 /\ receipt.count = 0 /\ slack = 0
      /\ cpu[0].budget = 0
  BY DEF Init
<1>3. Queued = {}
  BY <1>2 DEF Queued
<1>4. Received
  BY <1>2 DEF Received
<1>5. Samples
  BY <1>3, <1>4 DEF Samples
<1>6. LastCounted
  BY <1>2 DEF LastCounted
<1>7. BoundCovers
  BY <1>2, SourcesAssumption DEF BoundCovers
<1>8. Counted
  <2>1. PICK g : g = [i \in Nat |-> 0]
    OBVIOUS
  <2>2. g \in [Nat -> Int] /\ g \in [Nat -> {0, 1}] /\ g[0] = 0
    BY <2>1
  <2>3. Course(g, g)
    BY <1>2, <1>3, <2>2 DEF Course
  <2>4. ~Opened /\ ~Updated
    BY <1>2 DEF Opened, Updated
  <2>5. Planned(0, 0)
    BY <1>2, <1>4, <2>4 DEF Planned, Owed
  <2> QED BY <1>2, <2>2, <2>3, <2>5 DEF Counted
<1> QED BY <1>1, <1>5, <1>6, <1>7, <1>8 DEF BoundInv

LEMMA NextBound ==
  ASSUME BoundInv, Next
  PROVE  BoundInv'
<1>1. Typed'
  BY NextTyped DEF BoundInv
<1>2. ASSUME Continue
      PROVE  Samples' /\ LastCounted' /\ BoundCovers' /\ Counted'
  BY <1>2, StillCounted, NativeCounted, OnSlotCounted, LaunchCounted, SampleCounted, Zenon
     DEF Continue
<1>3. Samples' /\ LastCounted' /\ BoundCovers' /\ Counted'
  BY <1>2, StillCounted, LaunchCounted, UploadCounted, ComputeCounted, Zenon DEF Next
<1> QED BY <1>1, <1>3 DEF BoundInv

LEMMA StutterBound ==
  ASSUME BoundInv, UNCHANGED vars
  PROVE  BoundInv'
<1>1. Typed /\ Samples /\ LastCounted /\ BoundCovers /\ Counted
  BY DEF BoundInv
<1>2. /\ UNCHANGED <<route, runner, bounds, slots, producer, cpu, prepared, last, slot, ingress,
                     compute, inputs, progress, valid, receipt, slack, read>>
      /\ UNCHANGED host
  BY DEF vars, host, device
<1>3. Typed'
  BY <1>1, <1>2 DEF Typed, HostTyped, SlotTyped, StreamsTyped, DeviceTyped
<1>4. \A total \in Int, open \in {0, 1} : Planned(total, open) => Planned(total, open)'
  BY <1>2, PlannedUnchanged
<1>5. Counted'
  BY <1>1, <1>2, <1>4, CountedStays
<1>6. Samples'
  BY <1>1, <1>2, SamplesUnchanged
<1>7. LastCounted' /\ BoundCovers'
  BY <1>1, <1>2 DEF LastCounted, Received, BoundCovers
<1> QED BY <1>3, <1>5, <1>6, <1>7 DEF BoundInv

\* The variables keep their types, whatever fails and however late the streams are.
THEOREM TypeCorrect == Spec => []Typed
<1>1. Typed /\ [Next]_vars => Typed'
  <2>1. Typed /\ UNCHANGED vars => Typed'
    BY DEF vars, host, device, Typed, HostTyped, SlotTyped, StreamsTyped, DeviceTyped
  <2> QED BY <2>1, NextTyped
<1> QED BY <1>1, InitTyped, PTL DEF Spec

\* The length the host plans a wave with covers the length the device has, by at
\* most the drafts of one wave.
THEOREM BoundsCover == Spec => []BoundCovers
<1>1. BoundInv /\ [Next]_vars => BoundInv'
  BY NextBound, StutterBound
<1>2. BoundInv => BoundCovers
  BY DEF BoundInv
<1> QED BY <1>1, <1>2, InitBound, PTL DEF Spec

-----------------------------------------------------------------------------
\* What a target reads.

\* The host has put the preparation of its wave on the stream.
AtWork == runner.at \in {"prepared", "built", "ready", "launched", "sampling"}

\* A copy of the native preparation that is still to run finds what it was meant
\* to find: the host writes the tensors of a bank only while no copy of them is
\* queued, because the scope, the callback or both wait for its event.
CopyKept(i, work) ==
  /\ cpu[work.bank] = work.put
  /\ work.bank = slots.bank => /\ runner.at \notin {"entered", "updated"}
                               /\ AtWork => ~OnGraph
  /\ \/ i <= prepared[work.bank]
     \/ runner.at \in {"prepared", "built"} /\ work.bank = slots.bank

CopiesKept ==
  \A i \in Queued : compute.work[i].op = "prepare" => CopyKept(i, compute.work[i])

\* A derivation that is still to run finds its own wave in its slot, once the
\* upload it waits for is over.
DeriveKept(i, work) ==
  /\ i <= slot[work.slot].consumed
  /\ work.after <= slot[work.slot].ready
  /\ work.after \in 1 .. Len(ingress.work)
  /\ ingress.work[work.after].slot = work.slot
  /\ work.after <= ingress.done => slot[work.slot].device = work.wave
  /\ ~(work.after <= ingress.done) => slot[work.slot].host = work.wave

DerivesKept ==
  \A i \in Queued : compute.work[i].op = "derive" => DeriveKept(i, compute.work[i])

\* A slot has one upload on its way at most, and that waits for every earlier
\* derivation from the slot.
UploadKept(a, upload) ==
  /\ a = slot[upload.slot].ready
  /\ \A i \in Queued :
       /\ compute.work[i].op = "derive" /\ compute.work[i].slot = upload.slot
       /\ compute.work[i].after < a
       => i <= upload.after

UploadsKept ==
  \A a \in ingress.done + 1 .. Len(ingress.work) : UploadKept(a, ingress.work[a])

SlotsKept ==
  /\ DerivesKept /\ UploadsKept
  /\ \A k \in SlotKey : slot[k].ready <= Len(ingress.work)

\* The metadata of a wave is its own, and so is what the producer derived for it.
Attributed ==
  /\ runner.kind = "dummy" => ~bounds.admitted
  /\ AtWork /\ OnGraph => producer.active = runner.wave
  /\ runner.at \in {"built", "ready"} => runner.metadata = runner.wave

\* One piece of work leads from t targets to u, and from the inputs of wave v
\* to those of wave x.  A target is the next one, and finds its own wave.
Carries(work, t, u, v, x) ==
  /\ work.op \in {"prepare", "derive"} => u = t /\ x = work.wave
  /\ work.op = "target" => /\ u = t + 1 /\ x = v
                           /\ work.metadata = u /\ v = u
  /\ work.op = "sample" => u = t /\ x = v

\* The targets finished, and the wave the device inputs come from, after each
\* piece of queued work.
Numbering(t, v) ==
  /\ t \in [Nat -> Nat] /\ v \in [Nat -> Nat]
  /\ t[compute.done] = Len(read) /\ inputs \subseteq {v[compute.done]}
  /\ \A i \in Queued : Carries(compute.work[i], t[i - 1], t[i], v[i - 1], v[i])
  /\ \A i \in Queued : t[i] <= t[Len(compute.work)]

\* Every wave has one target, until one fails, and the inputs that are prepared
\* last are those of the wave that is next to launch.
Launched(total, wave) ==
  /\ total = Cardinality(Targets)
  /\ Live => total = IF runner.at \in {"idle", "launched", "sampling"}
                     THEN runner.wave ELSE runner.wave - 1
  /\ runner.at \in {"prepared", "built", "ready"} => wave = runner.wave

Numbered ==
  \E t \in [Nat -> Nat], v \in [Nat -> Nat] :
    Numbering(t, v) /\ Launched(t[Len(compute.work)], v[Len(compute.work)])

OwnInv == BoundInv /\ CopiesKept /\ SlotsKept /\ Attributed /\ Numbered

\* The fields of work, by its kind.
LEMMA PrepareFields ==
  ASSUME NEW w \in Work, w.op = "prepare"
  PROVE  w \in Preparing /\ w.bank \in {0, 1} /\ w.put \in Source /\ w.wave \in Nat
  BY WorkFields DEF Preparing

LEMMA DeriveFields ==
  ASSUME NEW w \in Work, w.op = "derive"
  PROVE  w \in Deriving /\ w.slot \in SlotKey /\ w.after \in Nat /\ w.wave \in Nat
  BY WorkFields DEF Deriving

-----------------------------------------------------------------------------
\* Copies.

LEMMA CopiesStay ==
  ASSUME Typed, CopiesKept, compute'.work = compute.work, Queued' \subseteq Queued,
         \A i \in Queued, w \in Work :
           w.op = "prepare" /\ CopyKept(i, w) => CopyKept(i, w)'
  PROVE  CopiesKept'
<1> SUFFICES ASSUME NEW i \in Queued', compute'.work[i].op = "prepare"
             PROVE  CopyKept(i, compute.work[i])'
  BY DEF CopiesKept
<1> PICK w : w = compute.work[i]
  OBVIOUS
<1>1. i \in Queued /\ w \in Work /\ w.op = "prepare" /\ w = compute'.work[i]
  BY QueuedFacts
<1>2. CopyKept(i, w)
  BY <1>1 DEF CopiesKept
<1>3. CopyKept(i, w)'
  BY <1>1, <1>2
<1> QED BY <1>1, <1>3 DEF CopyKept

LEMMA CopiesEnqueued ==
  ASSUME Typed, CopiesKept, NEW work \in Work, compute' = Enqueue(compute, work),
         \A i \in Queued, w \in Work :
           w.op = "prepare" /\ CopyKept(i, w) => CopyKept(i, w)',
         work.op = "prepare" => \A n \in Nat : CopyKept(n, work)'
  PROVE  CopiesKept'
<1> SUFFICES ASSUME NEW i \in Queued', compute'.work[i].op = "prepare"
             PROVE  CopyKept(i, compute.work[i])'
  BY DEF CopiesKept
<1> PICK n : n = Len(compute.work) + 1
  OBVIOUS
<1>1. /\ Queued' = Queued \cup {n} /\ n \in Nat /\ compute'.work[n] = work
      /\ \A j \in Queued : compute'.work[j] = compute.work[j]
  BY EnqueuedQueue
<1> PICK w : w = compute'.work[i]
  OBVIOUS
<1> SUFFICES CopyKept(i, w)'
  BY DEF CopyKept
<1>2. CASE i \in Queued
  <2>1. w \in Work /\ w.op = "prepare" /\ w = compute.work[i]
    BY <1>1, <1>2, QueuedFacts
  <2>2. CopyKept(i, w)
    BY <1>2, <2>1 DEF CopiesKept
  <2>3. CopyKept(i, w)'
    BY <1>2, <2>1, <2>2
  <2> QED BY <2>3
<1>3. CASE i = n
  <2>1. w = work /\ work.op = "prepare"
    BY <1>1, <1>3
  <2>2. CopyKept(i, w)'
    BY <1>1, <1>3, <2>1
  <2> QED BY <2>2
<1> QED BY <1>1, <1>2, <1>3

\* Nothing is queued from a bank whose event is over.
LEMMA BankFree ==
  ASSUME Typed, NEW i \in Queued, NEW w \in Work, w.op = "prepare", CopyKept(i, w),
         Retired(compute, prepared[w.bank])
  PROVE  runner.at \in {"prepared", "built"} /\ w.bank = slots.bank
<1>1. w.bank \in {0, 1} /\ prepared[w.bank] \in Nat
  BY PrepareFields, HostFacts
<1>2. i \in Nat /\ i > compute.done /\ compute.done \in Nat
  BY QueuedFacts, StreamFacts
<1> QED BY <1>1, <1>2 DEF CopyKept, Retired

LEMMA EnterCopies ==
  ASSUME Typed, CopiesKept, NEW kind \in {"dummy", "plain", "verify"}, Enter(kind)
  PROVE  CopiesKept'
<1>1. /\ runner.at = "idle" /\ compute' = compute /\ prepared' = prepared
      /\ cpu' = Selected(NextBank)
      /\ Retired(compute, prepared[NextBank])
      /\ slots' = [slots EXCEPT !.bank = NextBank]
      /\ runner'.at \in {"entered", "updated"}
  BY DEF Enter
<1>2. slots'.bank = NextBank /\ NextBank \in {0, 1}
  BY <1>1, HostFacts DEF NextBank, Typed, HostTyped
<1>3. \A b \in {0, 1} : b # NextBank => cpu'[b] = cpu[b]
  BY <1>1 DEF Selected, Typed, HostTyped
<1>4. ASSUME NEW i \in Queued, NEW w \in Work, w.op = "prepare", CopyKept(i, w)
      PROVE  CopyKept(i, w)'
  <2>1. w.bank \in {0, 1}
    BY <1>4, PrepareFields
  <2>2. w.bank # NextBank
    BY <1>1, <1>4, BankFree
  <2>3. i <= prepared[w.bank]
    BY <1>1, <1>4 DEF CopyKept
  <2> QED BY <1>1, <1>2, <1>3, <1>4, <2>1, <2>2, <2>3 DEF CopyKept
<1>5. Queued' = Queued
  BY <1>1 DEF Queued
<1> QED BY <1>1, <1>4, <1>5, CopiesStay

LEMMA UpdateCopies ==
  ASSUME Typed, CopiesKept, Update \/ UpdateDeferred
  PROVE  CopiesKept'
<1>1. /\ runner.at = "entered" /\ runner'.at = "updated"
      /\ UNCHANGED <<compute, prepared, slots>>
  BY DEF Update, UpdateDeferred, Typed, HostTyped, Runner
<1>2. \A b \in {0, 1} : b # slots.bank => cpu'[b] = cpu[b]
  <2>1. PICK x : cpu' = [cpu EXCEPT ![slots.bank].budget = x]
    BY DEF Update, UpdateDeferred
  <2> QED BY <2>1 DEF Typed, HostTyped
<1>3. ASSUME NEW i \in Queued, NEW w \in Work, w.op = "prepare", CopyKept(i, w)
      PROVE  CopyKept(i, w)'
  <2>1. w.bank \in {0, 1}
    BY <1>3, PrepareFields
  <2> QED BY <1>1, <1>2, <1>3, <2>1 DEF CopyKept
<1>4. Queued' = Queued
  BY <1>1 DEF Queued
<1> QED BY <1>1, <1>3, <1>4, CopiesStay

LEMMA NativeCopies ==
  ASSUME Typed, CopiesKept, Attributed, PrepareNative \/ PrepareDummy
  PROVE  CopiesKept'
<1>1. PICK bound : Native(bound) /\ bound \in Int
  <2>1. cpu[slots.bank].budget \in Int /\ cpu[slots.bank].budget - Correction \in Int
    BY HostFacts DEF Correction
  <2> QED BY <2>1 DEF PrepareNative, PrepareDummy
<1>2. PICK work : work = [op |-> "prepare", wave |-> runner.wave, kind |-> runner.kind,
                          bank |-> slots.bank, put |-> Written[slots.bank],
                          bound |-> bound]
  OBVIOUS
<1>3. /\ cpu' = Written /\ compute' = Enqueue(compute, work)
      /\ runner' = [runner EXCEPT !.at = "prepared"]
      /\ runner.at = "updated" /\ UNCHANGED <<prepared, slots>>
  BY <1>1, <1>2 DEF Native, PrepareNative, PrepareDummy
<1>4. runner'.at = "prepared"
  BY <1>3 DEF Typed, HostTyped, Runner
<1>5. ~OnGraph'
  <2>1. CASE PrepareNative
    BY <2>1 DEF PrepareNative, OnGraph, Typed, HostTyped
  <2>2. CASE PrepareDummy
    BY <2>2 DEF PrepareDummy, OnGraph, Attributed
  <2> QED BY <2>1, <2>2
<1>6. work.op = "prepare" /\ work.bank = slots.bank /\ work.put = Written[slots.bank]
  BY <1>2
<1>7. work \in Work
  BY <1>1, <1>2, WrittenTyped, HostFacts DEF Work, Preparing
<1>8. ASSUME NEW i \in Queued, NEW w \in Work, w.op = "prepare", CopyKept(i, w)
      PROVE  CopyKept(i, w)'
  <2>1. w.bank \in {0, 1} /\ w.bank # slots.bank
    BY <1>3, <1>8, PrepareFields DEF CopyKept
  <2>2. cpu'[w.bank] = cpu[w.bank]
    BY <1>3, <2>1, WrittenTyped
  <2> QED BY <1>3, <1>4, <1>8, <2>1, <2>2 DEF CopyKept
<1>9. \A n \in Nat : CopyKept(n, work)'
  BY <1>3, <1>4, <1>5, <1>6 DEF CopyKept
<1> QED BY <1>3, <1>7, <1>8, <1>9, CopiesEnqueued

LEMMA SlotKeys ==
  ASSUME Typed, NEW n \in Count
  PROVE  <<n, producer.sequence % 2>> \in SlotKey
BY HostFacts DEF SlotKey

LEMMA OnSlotWork ==
  ASSUME Typed, NEW n \in Count, NEW work,
         work = [op |-> "derive", wave |-> runner.wave, kind |-> runner.kind,
                 slot |-> <<n, producer.sequence % 2>>, after |-> Len(ingress.work) + 1,
                 bound |-> cpu[slots.bank].budget]
  PROVE  work \in Work
<1> DEFINE k == <<n, producer.sequence % 2>>
<1>1. k \in SlotKey
  BY SlotKeys
<1>2. work = [op |-> "derive", wave |-> runner.wave, kind |-> runner.kind,
              slot |-> k, after |-> Len(ingress.work) + 1, bound |-> cpu[slots.bank].budget]
  OBVIOUS
<1> HIDE DEF k
<1>3. runner.wave \in Nat /\ runner.kind \in Kind /\ cpu[slots.bank].budget \in Int
  BY HostFacts
<1>4. Len(ingress.work) + 1 \in Nat
  BY StreamFacts
<1>5. work \in Deriving
  BY <1>1, <1>2, <1>3, <1>4 DEF Deriving
<1> QED BY <1>5 DEF Work

LEMMA OnSlotCopies ==
  ASSUME Typed, CopiesKept, NEW n \in Count, PrepareOnSlot(n), Typed'
  PROVE  CopiesKept'
<1>1. PICK work : /\ compute' = Enqueue(compute, work) /\ work.op = "derive"
                  /\ work = [op |-> "derive", wave |-> runner.wave, kind |-> runner.kind,
                             slot |-> <<n, producer.sequence % 2>>,
                             after |-> Len(ingress.work) + 1,
                             bound |-> cpu[slots.bank].budget]
  BY DEF PrepareOnSlot
<1>2. work \in Work
  BY <1>1, OnSlotWork
<1>3. /\ cpu' = Written /\ runner.at = "updated" /\ UNCHANGED <<prepared, slots>>
      /\ runner' = [runner EXCEPT !.at = "prepared"]
  BY DEF PrepareOnSlot
<1>4. runner'.at = "prepared"
  BY <1>3 DEF Typed, HostTyped, Runner
<1>5. ASSUME NEW i \in Queued, NEW w \in Work, w.op = "prepare", CopyKept(i, w)
      PROVE  CopyKept(i, w)'
  <2>1. w.bank \in {0, 1} /\ w.bank # slots.bank
    BY <1>3, <1>5, PrepareFields DEF CopyKept
  <2>2. cpu'[w.bank] = cpu[w.bank]
    BY <1>3, <2>1, WrittenTyped
  <2> QED BY <1>3, <1>4, <1>5, <2>1, <2>2 DEF CopyKept
<1> QED BY <1>1, <1>2, <1>5, CopiesEnqueued

LEMMA ScopeCopies ==
  ASSUME Typed, CopiesKept, Build \/ Leave \/ Fail
  PROVE  CopiesKept'
<1>1. /\ UNCHANGED <<compute, cpu, bounds, producer>> /\ slots'.bank = slots.bank
  BY DEF Build, Leave, Fail, Recorded, device, Typed, HostTyped
<1>2. /\ runner'.at \in {"built", "ready", "idle", "stopped"}
      /\ Build => runner.at = "prepared" /\ runner'.at = "built"
      /\ Leave => runner.at = "built" /\ runner'.at = "ready"
      /\ Fail => runner'.at \in {"idle", "stopped"}
  BY DEF Build, Leave, Fail, Typed, HostTyped, Runner
<1>3. /\ Build => prepared' = prepared
      /\ ~Build => prepared' = [prepared EXCEPT ![slots.bank] = Len(compute.work)]
  BY DEF Build, Leave, Fail, Recorded
<1>4. ASSUME NEW i \in Queued, NEW w \in Work, w.op = "prepare", CopyKept(i, w)
      PROVE  CopyKept(i, w)'
  <2>1. w.bank \in {0, 1} /\ slots.bank \in {0, 1} /\ prepared \in [{0, 1} -> Nat]
    BY <1>4, PrepareFields, HostFacts DEF Typed, HostTyped
  <2>2. i <= Len(compute.work)
    BY QueuedFacts
  <2>3. \/ i <= prepared'[w.bank]
        \/ runner'.at \in {"prepared", "built"} /\ w.bank = slots.bank
    <3>1. CASE Build
      BY <1>2, <1>3, <1>4, <3>1 DEF CopyKept
    <3>2. CASE ~Build /\ w.bank = slots.bank
      BY <1>3, <2>1, <2>2, <3>2
    <3>3. CASE ~Build /\ w.bank # slots.bank
      BY <1>3, <1>4, <2>1, <3>3 DEF CopyKept
    <3> QED BY <3>1, <3>2, <3>3
  <2>4. w.bank = slots.bank => /\ runner'.at \notin {"entered", "updated"}
                               /\ AtWork' => ~OnGraph'
    <3>1. AtWork' => AtWork
      BY <1>2 DEF AtWork, Build, Leave
    <3>2. OnGraph' <=> OnGraph
      BY <1>1 DEF OnGraph
    <3> QED BY <1>2, <1>4, <3>1, <3>2 DEF CopyKept
  <2> QED BY <1>1, <1>4, <2>3, <2>4 DEF CopyKept
<1>5. Queued' = Queued
  BY <1>1 DEF Queued
<1> QED BY <1>1, <1>4, <1>5, CopiesStay

LEMMA LaunchCopies ==
  ASSUME Typed, CopiesKept, Launch \/ LaunchFails
  PROVE  CopiesKept'
<1>1. /\ UNCHANGED <<cpu, bounds, producer, slots, prepared>> /\ runner.at = "ready"
      /\ compute' \in {compute, Enqueue(compute, Target)}
  BY DEF Launch, LaunchFails
<1>2. runner'.at \in {"launched", "sampling", "stopped"}
  BY DEF Launch, LaunchFails, Typed, HostTyped, Runner
<1>3. ASSUME NEW i \in Queued, NEW w \in Work, w.op = "prepare", CopyKept(i, w)
      PROVE  CopyKept(i, w)'
  <2>1. AtWork /\ (OnGraph' <=> OnGraph)
    BY <1>1 DEF AtWork, OnGraph
  <2> QED BY <1>1, <1>2, <1>3, <2>1 DEF CopyKept
<1>4. CASE compute' = compute
  <2>1. Queued' = Queued
    BY <1>4 DEF Queued
  <2> QED BY <1>3, <1>4, <2>1, CopiesStay
<1>5. CASE compute' = Enqueue(compute, Target)
  <2>1. PICK work : work = Target
    OBVIOUS
  <2>2. work \in Work /\ work.op = "target"
    BY <2>1, TargetLeads DEF Target
  <2> QED BY <1>3, <1>5, <2>1, <2>2, CopiesEnqueued
<1> QED BY <1>1, <1>4, <1>5

\* The callback waits for the copies from its bank, if there are any.
LEMMA CorrectCopies ==
  ASSUME Typed, CopiesKept, Correct
  PROVE  CopiesKept'
<1>1. /\ runner.at = "launched" /\ SourcesFree
      /\ UNCHANGED <<compute, prepared, slots, producer>>
  BY DEF Correct
<1>2. runner'.at = "sampling" /\ bounds'.admitted = bounds.admitted
  BY DEF Correct, Typed, HostTyped, Runner
<1>3. \A b \in {0, 1} : b # slots.bank => cpu'[b] = cpu[b]
  <2>1. PICK x : cpu' = [cpu EXCEPT ![slots.bank].budget = x]
    BY DEF Correct
  <2> QED BY <2>1 DEF Typed, HostTyped
<1>4. ASSUME NEW i \in Queued, NEW w \in Work, w.op = "prepare", CopyKept(i, w)
      PROVE  CopyKept(i, w)'
  <2>1. w.bank \in {0, 1}
    BY <1>4, PrepareFields
  <2>2. w.bank # slots.bank
    <3>1. CASE OnGraph
      BY <1>1, <1>4, <3>1 DEF CopyKept, AtWork
    <3>2. CASE Retired(compute, prepared[slots.bank])
      BY <1>1, <1>4, <3>2, BankFree
    <3> QED BY <1>1, <3>1, <3>2 DEF SourcesFree
  <2> QED BY <1>1, <1>2, <1>3, <1>4, <2>1, <2>2 DEF CopyKept
<1>5. Queued' = Queued
  BY <1>1 DEF Queued
<1> QED BY <1>1, <1>4, <1>5, CopiesStay

LEMMA SampleCopies ==
  ASSUME Typed, CopiesKept, Sample \/ DummyDone
  PROVE  CopiesKept'
<1>1. /\ UNCHANGED <<cpu, bounds, producer, slots, prepared>> /\ runner.at = "sampling"
  BY DEF Sample, DummyDone
<1>2. runner'.at = "idle"
  BY DEF Sample, DummyDone, Typed, HostTyped, Runner
<1>3. ASSUME NEW i \in Queued, NEW w \in Work, w.op = "prepare", CopyKept(i, w)
      PROVE  CopyKept(i, w)'
  BY <1>1, <1>2, <1>3 DEF CopyKept, AtWork
<1>4. CASE DummyDone
  <2>1. Queued' = Queued /\ compute' = compute
    BY <1>4 DEF Queued, DummyDone
  <2> QED BY <1>3, <1>4, <2>1, CopiesStay
<1>5. CASE Sample
  <2>1. PICK work : work = [op |-> "sample", wave |-> runner.wave,
                            width |-> Width(runner.kind)]
    OBVIOUS
  <2>2. work \in Work /\ work.op = "sample"
    BY <2>1, WidthType, HostFacts DEF Work, Sampling
  <2>3. compute' = Enqueue(compute, work)
    BY <1>5, <2>1 DEF Sample
  <2> QED BY <1>3, <2>2, <2>3, CopiesEnqueued
<1> QED BY <1>4, <1>5

\* The devices leave the host's tensors alone.
LEMMA DeviceCopies ==
  ASSUME Typed, CopiesKept, UNCHANGED host, compute'.work = compute.work,
         Queued' \subseteq Queued
  PROVE  CopiesKept'
<1>1. UNCHANGED <<runner, bounds, slots, producer, cpu, prepared>>
  BY DEF host
<1>2. ASSUME NEW i \in Queued, NEW w \in Work, w.op = "prepare", CopyKept(i, w)
      PROVE  CopyKept(i, w)'
  BY <1>1, <1>2 DEF CopyKept, AtWork, OnGraph
<1> QED BY <1>2, CopiesStay

-----------------------------------------------------------------------------
\* Slots.

LEMMA SlotFacts ==
  ASSUME Typed, NEW k \in SlotKey
  PROVE  /\ slot[k].host \in Nat /\ slot[k].device \in Nat
         /\ slot[k].ready \in Nat /\ slot[k].consumed \in Nat
BY DEF Typed, SlotTyped

LEMMA UploadFacts ==
  ASSUME Typed, NEW a \in ingress.done + 1 .. Len(ingress.work)
  PROVE  /\ a \in Nat /\ a > ingress.done /\ a \in 1 .. Len(ingress.work)
         /\ ingress.work[a].slot \in SlotKey /\ ingress.work[a].after \in Nat
<1>1. a \in 1 .. Len(ingress.work) /\ a \in Nat /\ a > ingress.done
  BY StreamFacts
<1> DEFINE T == [slot : SlotKey, after : Nat]
<1>2. ingress.work \in Seq(T)
  BY StreamFacts
<1>3. ingress.work[a] \in T
  <2> HIDE DEF T
  <2> QED BY <1>1, <1>2
<1> QED BY <1>1, <1>3

LEMMA EnqueuedUpload ==
  ASSUME Typed, NEW upload \in [slot : SlotKey, after : Nat],
         ingress' = Enqueue(ingress, upload)
  PROVE  /\ ingress'.done = ingress.done /\ Len(ingress'.work) = Len(ingress.work) + 1
         /\ \A a \in 1 .. Len(ingress.work) : ingress'.work[a] = ingress.work[a]
         /\ ingress'.work[Len(ingress.work) + 1] = upload
<1> DEFINE T == [slot : SlotKey, after : Nat]
           old == ingress.work
           new == ingress'.work
<1>1. ingress \in [work : Seq(T), done : Nat] /\ upload \in T
  BY DEF Typed, StreamsTyped
<1> HIDE DEF T
<1>2. new = Append(old, upload) /\ ingress'.done = ingress.done /\ old \in Seq(T)
  BY <1>1 DEF Enqueue
<1> HIDE DEF old, new
<1>3. /\ Len(new) = Len(old) + 1
      /\ \A a \in 1 .. Len(old) : new[a] = old[a]
      /\ new[Len(old) + 1] = upload
  BY <1>1, <1>2
<1> QED BY <1>2, <1>3 DEF old, new

\* The compute stream goes on, and the slots are left alone.
LEMMA SlotsStay ==
  ASSUME Typed, SlotsKept, UNCHANGED <<slot, ingress>>,
         compute'.work = compute.work, Queued' \subseteq Queued
  PROVE  SlotsKept'
<1>1. DerivesKept'
  <2> SUFFICES ASSUME NEW i \in Queued', compute'.work[i].op = "derive"
               PROVE  DeriveKept(i, compute.work[i])'
    BY DEF DerivesKept
  <2> QED BY DEF SlotsKept, DerivesKept, DeriveKept
<1>2. UploadsKept'
  BY DEF SlotsKept, UploadsKept, UploadKept
<1> QED BY <1>1, <1>2 DEF SlotsKept

LEMMA SlotsEnqueued ==
  ASSUME Typed, SlotsKept, UNCHANGED <<slot, ingress>>,
         NEW work \in Work, work.op # "derive", compute' = Enqueue(compute, work)
  PROVE  SlotsKept'
<1> PICK n : n = Len(compute.work) + 1
  OBVIOUS
<1>1. /\ Queued' = Queued \cup {n} /\ n \in Nat /\ compute'.work[n] = work
      /\ \A j \in Queued : compute'.work[j] = compute.work[j]
  BY EnqueuedQueue
<1>2. \A i \in Queued' : compute'.work[i].op = "derive" =>
        i \in Queued /\ compute'.work[i] = compute.work[i]
  BY <1>1
<1>3. DerivesKept'
  <2> SUFFICES ASSUME NEW i \in Queued', compute'.work[i].op = "derive"
               PROVE  DeriveKept(i, compute.work[i])'
    BY DEF DerivesKept
  <2>1. i \in Queued /\ compute'.work[i] = compute.work[i]
    BY <1>2
  <2>2. DeriveKept(i, compute.work[i])
    BY <2>1 DEF SlotsKept, DerivesKept
  <2> QED BY <2>1, <2>2 DEF DeriveKept
<1>4. UploadsKept'
  BY <1>2 DEF SlotsKept, UploadsKept, UploadKept
<1> QED BY <1>3, <1>4 DEF SlotsKept

\* The producer takes a slot whose last upload is over, so every derivation from
\* it that is queued has its inputs on the device already; the new upload waits
\* for all of them.
LEMMA OnSlotSlots ==
  ASSUME Typed, SlotsKept, NEW n \in Count, PrepareOnSlot(n)
  PROVE  SlotsKept'
<1> PICK k : k = <<n, producer.sequence % 2>>
  OBVIOUS
<1> PICK l : l = Len(ingress.work) + 1
  OBVIOUS
<1> PICK m : m = Len(compute.work) + 1
  OBVIOUS
<1> PICK w : w = runner.wave
  OBVIOUS
<1>1. k \in SlotKey /\ l \in Nat /\ m \in Nat /\ w \in Nat
  <2>1. k \in SlotKey
    BY SlotKeys, Zenon
  <2>2. l \in Nat /\ m \in Nat
    BY StreamFacts
  <2>3. w \in Nat
    BY HostFacts
  <2> QED BY <2>1, <2>2, <2>3
<1>2. PICK upload : upload = [slot |-> k, after |-> slot[k].consumed]
  OBVIOUS
<1>3. PICK work : work = [op |-> "derive", wave |-> w, kind |-> runner.kind, slot |-> k,
                          after |-> l, bound |-> cpu[slots.bank].budget]
  OBVIOUS
<1>4. /\ Rewritable(k)
      /\ ingress' = Enqueue(ingress, upload) /\ compute' = Enqueue(compute, work)
      /\ slot' = [slot EXCEPT ![k] = [@ EXCEPT !.host = w, !.ready = l, !.consumed = m]]
  BY <1>2, <1>3 DEF PrepareOnSlot
<1>5. /\ work.op = "derive" /\ work.slot = k /\ work.after = l /\ work.wave = w
      /\ upload.slot = k /\ upload.after = slot[k].consumed
  BY <1>2, <1>3
<1>6. work \in Work
  BY <1>3, OnSlotWork
<1>7. /\ Queued' = Queued \cup {m} /\ compute'.work[m] = work
      /\ \A i \in Queued : compute'.work[i] = compute.work[i]
      /\ \A i \in Queued : i < m /\ i \in Nat /\ compute.work[i] \in Work
  <2>1. \A i \in Queued : i < m /\ i \in Nat /\ compute.work[i] \in Work
    BY QueuedFacts, StreamFacts
  <2> QED BY <1>4, <1>6, <2>1, EnqueuedQueue
<1>8. /\ Len(ingress'.work) = l /\ ingress'.done = ingress.done
      /\ \A a \in 1 .. Len(ingress.work) : ingress'.work[a] = ingress.work[a]
      /\ ingress'.work[l] = upload
  <2>1. upload \in [slot : SlotKey, after : Nat]
    BY <1>1, <1>2, SlotFacts
  <2> QED BY <1>4, <2>1, EnqueuedUpload
<1>9. /\ slot'[k].host = w /\ slot'[k].ready = l /\ slot'[k].consumed = m
      /\ slot'[k].device = slot[k].device
      /\ \A x \in SlotKey : x # k => slot'[x] = slot[x]
  BY <1>1, <1>4 DEF Typed, SlotTyped
<1>10. /\ slot[k].ready <= ingress.done /\ ingress.done < l /\ l = Len(ingress.work) + 1
       /\ ingress.done \in Nat /\ slot[k].ready \in Nat /\ Len(ingress.work) \in Nat
  BY <1>1, <1>4, StreamFacts, SlotFacts DEF Rewritable, Retired
<1>11. ASSUME NEW i \in Queued, NEW d \in Work, d.op = "derive", d = compute.work[i]
       PROVE  DeriveKept(i, d)'
  <2>1. DeriveKept(i, d) /\ d.slot \in SlotKey /\ d.after \in Nat /\ i \in Nat /\ i < m
    BY <1>7, <1>11, DeriveFields DEF SlotsKept, DerivesKept
  <2>2. d.after \in 1 .. Len(ingress'.work) /\ ingress'.work[d.after].slot = d.slot
    BY <1>8, <1>10, <2>1 DEF DeriveKept
  <2>3. CASE d.slot = k
    BY <1>8, <1>9, <1>10, <2>1, <2>2, <2>3 DEF DeriveKept
  <2>4. CASE d.slot # k
    BY <1>8, <1>9, <2>1, <2>2, <2>4 DEF DeriveKept
  <2> QED BY <2>3, <2>4
<1>12. DeriveKept(m, work)'
  BY <1>1, <1>5, <1>8, <1>9, <1>10 DEF DeriveKept
<1>13. DerivesKept'
  <2> SUFFICES ASSUME NEW i \in Queued', compute'.work[i].op = "derive"
               PROVE  DeriveKept(i, compute.work[i])'
    BY DEF DerivesKept
  <2> PICK d : d = compute'.work[i]
    OBVIOUS
  <2>1. DeriveKept(i, d)'
    BY <1>7, <1>11, <1>12
  <2> QED BY <2>1 DEF DeriveKept
<1>14. ASSUME NEW a \in ingress.done + 1 .. Len(ingress.work), NEW u, u = ingress.work[a]
       PROVE  UploadKept(a, u)'
  <2>1. UploadKept(a, u) /\ u.slot \in SlotKey /\ a \in Nat /\ a > ingress.done
    BY <1>14, UploadFacts DEF SlotsKept, UploadsKept
  <2>2. u.slot # k
    BY <1>10, <2>1 DEF UploadKept
  <2>3. slot'[u.slot] = slot[u.slot]
    BY <1>9, <2>1, <2>2
  <2> QED BY <1>5, <1>7, <2>1, <2>2, <2>3 DEF UploadKept
<1>15. UploadKept(l, upload)'
  <2>1. ASSUME NEW i \in Queued', compute'.work[i].op = "derive", compute'.work[i].slot = k,
               compute'.work[i].after < l
        PROVE  i <= upload.after
    <3>1. i # m
      BY <1>1, <1>5, <1>7, <2>1
    <3>2. i \in Queued /\ compute'.work[i] = compute.work[i]
      BY <1>7, <3>1
    <3> QED BY <1>5, <2>1, <3>2 DEF SlotsKept, DerivesKept, DeriveKept
  <2> QED BY <1>5, <1>9, <2>1 DEF UploadKept
<1>16. UploadsKept'
  <2> SUFFICES ASSUME NEW a \in (ingress.done + 1 .. Len(ingress.work))'
               PROVE  UploadKept(a, ingress.work[a])'
    BY DEF UploadsKept
  <2> PICK u : u = ingress'.work[a]
    OBVIOUS
  <2>1. a = l \/ (a \in ingress.done + 1 .. Len(ingress.work) /\ u = ingress.work[a])
    BY <1>8, <1>10
  <2>2. UploadKept(a, u)'
    BY <1>8, <1>14, <1>15, <2>1
  <2> QED BY <2>2 DEF UploadKept
<1>17. \A x \in SlotKey : slot'[x].ready <= Len(ingress'.work)
  <2> SUFFICES ASSUME NEW x \in SlotKey
               PROVE  slot'[x].ready <= Len(ingress'.work)
    OBVIOUS
  <2>1. slot[x].ready <= Len(ingress.work) /\ slot[x].ready \in Nat
    BY SlotFacts DEF SlotsKept
  <2>2. CASE x = k
    <3>1. slot'[x].ready = l /\ Len(ingress'.work) = l
      BY <1>8, <1>9, <2>2
    <3> QED BY <1>1, <3>1
  <2>3. CASE x # k
    <3>1. slot'[x].ready = slot[x].ready /\ Len(ingress'.work) = l
      BY <1>8, <1>9, <2>3
    <3> QED BY <1>10, <2>1, <3>1
  <2> QED BY <2>2, <2>3
<1> QED BY <1>13, <1>16, <1>17 DEF SlotsKept

\* An upload changes the device half of a slot that no queued derivation still
\* needs as it was.
LEMMA UploadSlots ==
  ASSUME Typed, SlotsKept, Upload
  PROVE  SlotsKept'
<1> PICK a : a = ingress.done + 1
  OBVIOUS
<1> PICK u : u = ingress.work[a]
  OBVIOUS
<1>1. /\ ingress.done < Len(ingress.work) /\ Retired(compute, u.after)
      /\ slot' = [slot EXCEPT ![u.slot].device = slot[u.slot].host]
      /\ ingress' = [ingress EXCEPT !.done = @ + 1] /\ compute' = compute
  BY DEF Upload
<1>2. /\ a \in Nat /\ ingress.done \in Nat /\ Len(ingress.work) \in Nat
      /\ a \in ingress.done + 1 .. Len(ingress.work)
  BY <1>1, StreamFacts
<1>3. /\ u.slot \in SlotKey /\ u.after \in Nat /\ UploadKept(a, u)
  BY <1>2, UploadFacts DEF SlotsKept, UploadsKept
<1>4. ingress'.done = a /\ ingress'.work = ingress.work
  BY <1>1 DEF Typed, StreamsTyped
<1>5. /\ slot'[u.slot].device = slot[u.slot].host /\ slot'[u.slot].host = slot[u.slot].host
      /\ \A k \in SlotKey : /\ slot'[k].ready = slot[k].ready
                            /\ slot'[k].consumed = slot[k].consumed
                            /\ k # u.slot => slot'[k] = slot[k]
  BY <1>1, <1>3 DEF Typed, SlotTyped
<1>6. Queued' = Queued
  BY <1>1 DEF Queued
<1>7. ASSUME NEW i \in Queued, NEW d \in Work, d.op = "derive", d = compute.work[i]
      PROVE  DeriveKept(i, d)'
  <2>1. DeriveKept(i, d) /\ d.slot \in SlotKey /\ d.after \in Nat
    BY <1>7, DeriveFields DEF SlotsKept, DerivesKept
  <2>2. CASE d.slot = u.slot
    <3>1. d.after <= a
      BY <1>3, <2>1, <2>2 DEF DeriveKept, UploadKept
    <3>2. ~(d.after < a)
      <4>1. SUFFICES ASSUME d.after < a PROVE FALSE
        OBVIOUS
      <4>2. i <= u.after
        BY <1>3, <1>7, <2>2, <4>1 DEF UploadKept
      <4>3. i > compute.done /\ i \in Nat /\ compute.done \in Nat
        BY QueuedFacts, StreamFacts
      <4> QED BY <1>1, <1>3, <4>2, <4>3 DEF Retired
    <3>3. d.after = a /\ ~(d.after <= ingress.done)
      BY <1>2, <2>1, <3>1, <3>2
    <3> QED BY <1>1, <1>3, <1>4, <1>5, <2>1, <2>2, <3>3 DEF DeriveKept
  <2>3. CASE d.slot # u.slot
    <3>1. d.after # a
      BY <2>1, <2>3 DEF DeriveKept
    <3>2. d.after <= a <=> d.after <= ingress.done
      BY <1>2, <2>1, <3>1
    <3> QED BY <1>4, <1>5, <2>1, <2>3, <3>2 DEF DeriveKept
  <2> QED BY <2>2, <2>3
<1>8. DerivesKept'
  <2> SUFFICES ASSUME NEW i \in Queued', compute'.work[i].op = "derive"
               PROVE  DeriveKept(i, compute.work[i])'
    BY DEF DerivesKept
  <2> PICK d : d = compute.work[i]
    OBVIOUS
  <2>1. d \in Work /\ d.op = "derive" /\ i \in Queued
    BY <1>1, <1>6, QueuedFacts
  <2>2. DeriveKept(i, d)'
    BY <1>7, <2>1
  <2> QED BY <1>1, <2>2 DEF DeriveKept
<1>9. UploadsKept'
  <2> SUFFICES ASSUME NEW b \in (ingress.done + 1 .. Len(ingress.work))'
               PROVE  UploadKept(b, ingress.work[b])'
    BY DEF UploadsKept
  <2>1. b \in ingress.done + 1 .. Len(ingress.work)
    BY <1>2, <1>4
  <2>2. UploadKept(b, ingress.work[b]) /\ ingress.work[b].slot \in SlotKey
    BY <2>1, UploadFacts DEF SlotsKept, UploadsKept
  <2> QED BY <1>1, <1>4, <1>5, <1>6, <2>2 DEF UploadKept
<1>10. \A k \in SlotKey : slot'[k].ready <= Len(ingress'.work)
  BY <1>4, <1>5 DEF SlotsKept
<1> QED BY <1>8, <1>9, <1>10 DEF SlotsKept

-----------------------------------------------------------------------------
\* Whose inputs a wave computes with.

LEMMA HostAttributed ==
  ASSUME Typed, Attributed,
         \/ \E kind \in {"dummy", "plain", "verify"} : Enter(kind)
         \/ Update \/ UpdateDeferred \/ Leave \/ Launch \/ Correct \/ Sample \/ DummyDone
         \/ Fail \/ LaunchFails
  PROVE  Attributed'
<1>1. producer' = producer
  BY DEF Enter, Update, UpdateDeferred, Leave, Launch, Correct, Sample, DummyDone, Fail,
         LaunchFails
<1>2. CASE \E kind \in {"dummy", "plain", "verify"} : Enter(kind)
  <2>1. PICK kind \in {"dummy", "plain", "verify"} : Enter(kind)
    BY <1>2
  <2>2. runner'.kind = kind /\ runner'.at \in {"entered", "updated"}
    BY <2>1 DEF Enter
  <2>3. kind = "dummy" => ~bounds'.admitted
    BY <2>1 DEF Enter, Typed, HostTyped
  <2> QED BY <2>2, <2>3 DEF Attributed, AtWork
<1>3. CASE Update \/ UpdateDeferred
  <2>1. runner'.at = "updated" /\ bounds'.admitted = bounds.admitted
        /\ (runner'.kind = runner.kind \/ runner'.kind = "stable")
    BY <1>3 DEF Update, UpdateDeferred, Typed, HostTyped, Runner
  <2> QED BY <2>1 DEF Attributed, AtWork
<1>4. CASE Leave \/ Launch \/ Correct
  <2>1. /\ runner'.kind = runner.kind /\ runner'.wave = runner.wave
        /\ runner'.metadata = runner.metadata /\ bounds'.admitted = bounds.admitted
        /\ runner'.at = "ready" => runner.at = "built"
        /\ runner'.at \in {"ready", "launched", "sampling"} /\ AtWork
    BY <1>4 DEF Leave, Launch, Correct, AtWork, Typed, HostTyped, Runner
  <2> QED BY <1>1, <2>1 DEF Attributed, OnGraph
<1>5. CASE Sample \/ DummyDone \/ Fail \/ LaunchFails
  <2>1. /\ runner'.kind = runner.kind /\ bounds'.admitted = bounds.admitted
        /\ runner'.at \in {"idle", "stopped"}
    BY <1>5 DEF Sample, DummyDone, Fail, LaunchFails, Typed, HostTyped, Runner
  <2> QED BY <2>1 DEF Attributed, AtWork
<1> QED BY <1>2, <1>3, <1>4, <1>5

LEMMA WorkAttributed ==
  ASSUME Typed, Attributed,
         PrepareNative \/ PrepareDummy \/ (\E n \in Count : PrepareOnSlot(n)) \/ Build
  PROVE  Attributed'
<1>1. CASE PrepareNative
  <2>1. /\ runner'.kind = runner.kind /\ runner.kind # "dummy"
        /\ runner'.at = "prepared" /\ producer'.active = 0
    BY <1>1 DEF PrepareNative, Native, Typed, HostTyped, Runner
  <2> QED BY <2>1 DEF Attributed, OnGraph
<1>2. CASE PrepareDummy
  <2>1. /\ runner'.kind = runner.kind /\ runner.kind = "dummy" /\ bounds' = bounds
        /\ runner'.at = "prepared"
    BY <1>2 DEF PrepareDummy, Native, Typed, HostTyped, Runner
  <2> QED BY <2>1 DEF Attributed, OnGraph
<1>3. CASE \E n \in Count : PrepareOnSlot(n)
  <2>1. PICK s : /\ runner.kind = "stable" /\ runner' = [runner EXCEPT !.at = "prepared"]
                 /\ producer' = [active |-> runner.wave, sequence |-> s]
    BY <1>3 DEF PrepareOnSlot
  <2>2. /\ runner'.kind = runner.kind /\ runner.kind = "stable" /\ runner'.wave = runner.wave
        /\ producer'.active = runner.wave
    BY <2>1 DEF Typed, HostTyped, Runner
  <2>3. runner'.at = "prepared"
    BY <2>1 DEF Typed, HostTyped, Runner
  <2> QED BY <2>2, <2>3 DEF Attributed
<1>4. CASE Build
  <2>1. PICK w \in {runner.wave} \cup (IF OnGraph THEN {producer.active} ELSE {}) :
          runner' = [runner EXCEPT !.at = "built", !.metadata = w]
    BY <1>4 DEF Build
  <2>2. runner.at = "prepared" /\ UNCHANGED <<bounds, producer>>
    BY <1>4 DEF Build
  <2>3. w = runner.wave
    BY <2>1, <2>2 DEF Attributed, AtWork
  <2>4. /\ runner'.metadata = w /\ runner'.kind = runner.kind /\ runner'.wave = runner.wave
        /\ runner'.at = "built"
    BY <2>1 DEF Typed, HostTyped, Runner
  <2>5. (OnGraph' <=> OnGraph) /\ AtWork
    BY <2>2 DEF OnGraph, AtWork
  <2> QED BY <2>2, <2>3, <2>4, <2>5 DEF Attributed
<1> QED BY <1>1, <1>2, <1>3, <1>4

-----------------------------------------------------------------------------
\* The targets that have been put on the stream.

LEMMA FiniteTargets ==
  ASSUME Typed
  PROVE  /\ IsFiniteSet(Targets) /\ Cardinality(Targets) \in Nat
         /\ Len(compute.work) + 1 \notin Targets
<1>1. compute.work \in Seq(Work) /\ Len(compute.work) \in Nat
  BY StreamFacts
<1>2. DOMAIN compute.work = 1 .. Len(compute.work)
  BY <1>1
<1>3. Targets \subseteq 1 .. Len(compute.work)
  BY <1>2 DEF Targets
<1>4. IsFiniteSet(Targets)
  <2>1. IsFiniteSet(1 .. Len(compute.work))
    BY <1>1, FS_Interval
  <2> QED BY <1>3, <2>1, FS_Subset
<1>5. Cardinality(Targets) \in Nat
  BY <1>4, FS_CardinalityType
<1> QED BY <1>1, <1>3, <1>4, <1>5

LEMMA TargetsEnqueued ==
  ASSUME Typed, NEW work \in Work, compute' = Enqueue(compute, work), Typed'
  PROVE  Cardinality(Targets') = Cardinality(Targets) + (IF work.op = "target" THEN 1 ELSE 0)
<1> PICK n : n = Len(compute.work) + 1
  OBVIOUS
<1>1. /\ Len(compute'.work) = n /\ compute'.work[n] = work /\ n \in Nat
      /\ \A i \in 1 .. Len(compute.work) : compute'.work[i] = compute.work[i]
  <2>1. compute.work \in Seq(Work) /\ Len(compute.work) \in Nat
    BY StreamFacts
  <2>2. compute'.work = Append(compute.work, work)
    BY DEF Enqueue, Typed, StreamsTyped
  <2> DEFINE old == compute.work
             new == compute'.work
  <2>3. new = Append(old, work) /\ old \in Seq(Work) /\ n = Len(old) + 1
    BY <2>1, <2>2
  <2> HIDE DEF old, new
  <2>4. /\ Len(new) = n /\ new[n] = work
        /\ \A i \in 1 .. Len(old) : new[i] = old[i]
    BY <2>3
  <2> QED BY <2>1, <2>4 DEF old, new
<1>2. /\ DOMAIN compute.work = 1 .. Len(compute.work)
      /\ DOMAIN compute'.work = 1 .. Len(compute'.work)
  <2>1. compute.work \in Seq(Work) /\ compute'.work \in Seq(Work)
    BY DEF Typed, StreamsTyped
  <2> QED BY <2>1
<1>3. Len(compute.work) \in Nat
  BY StreamFacts
<1>4. \A i : i \in 1 .. n <=> i \in 1 .. Len(compute.work) \/ i = n
  BY <1>1, <1>3
<1>5. Targets' = IF work.op = "target" THEN Targets \cup {n} ELSE Targets
  <2>1. \A i : i \in Targets <=> i \in 1 .. Len(compute.work) /\ compute.work[i].op = "target"
    BY <1>2 DEF Targets
  <2>2. \A i : i \in Targets' <=> i \in 1 .. n /\ compute'.work[i].op = "target"
    BY <1>1, <1>2 DEF Targets
  <2>3. \A i : i \in Targets' <=> i \in Targets \/ (i = n /\ work.op = "target")
    BY <1>1, <1>4, <2>1, <2>2
  <2> QED BY <2>3
<1>6. IsFiniteSet(Targets) /\ Cardinality(Targets) \in Nat /\ n \notin Targets
  BY FiniteTargets
<1>7. Cardinality(Targets \cup {n}) = Cardinality(Targets) + 1
  BY <1>6, FS_AddElement
<1> QED BY <1>5, <1>6, <1>7

LEMMA TargetsStay ==
  ASSUME compute'.work = compute.work
  PROVE  Targets' = Targets
BY DEF Targets

-----------------------------------------------------------------------------
\* The numbering of the queue.

LEMMA NumberedStays ==
  ASSUME Typed, Numbered, UNCHANGED <<compute, read, inputs>>,
         \A total \in Nat, wave \in Nat : Launched(total, wave) => Launched(total, wave)'
  PROVE  Numbered'
<1>1. PICK t \in [Nat -> Nat], v \in [Nat -> Nat] :
        Numbering(t, v) /\ Launched(t[Len(compute.work)], v[Len(compute.work)])
  BY DEF Numbered
<1>2. Numbering(t, v)'
  <2>1. Queued' = Queued
    BY DEF Queued
  <2> QED BY <1>1, <2>1 DEF Numbering
<1>3. PICK n : n = Len(compute.work)
  OBVIOUS
<1>4. t[n] \in Nat /\ v[n] \in Nat /\ n = Len(compute'.work)
  BY <1>3, StreamFacts
<1>5. Launched(t[n], v[n])'
  BY <1>1, <1>3, <1>4
<1> QED BY <1>2, <1>4, <1>5 DEF Numbered

LEMMA PlusOne ==
  ASSUME NEW d \in Nat
  PROVE  (d + 1) - 1 = d /\ d + 1 \in Nat
OBVIOUS

LEMMA Inside ==
  ASSUME NEW l \in Nat, NEW j \in 1 .. l
  PROVE  j \in Nat /\ j - 1 \in Nat /\ j # l + 1 /\ j - 1 # l + 1
OBVIOUS

LEMMA NumberedGrows ==
  ASSUME Typed, Numbered, NEW work \in Work,
         compute' = Enqueue(compute, work), UNCHANGED <<read, inputs>>,
         \A total \in Nat, wave \in Nat : Launched(total, wave) =>
           \E u \in Nat, x \in Nat :
             Carries(work, total, u, wave, x) /\ total <= u /\ Launched(u, x)'
  PROVE  Numbered'
<1>1. PICK t \in [Nat -> Nat], v \in [Nat -> Nat] :
        Numbering(t, v) /\ Launched(t[Len(compute.work)], v[Len(compute.work)])
  BY DEF Numbered
<1> PICK l : l = Len(compute.work)
  OBVIOUS
<1> PICK n : n = Len(compute.work) + 1
  OBVIOUS
<1>2. /\ compute'.done = compute.done /\ Len(compute'.work) = n /\ n \in Nat
      /\ Queued' = Queued \cup {n} /\ n \notin Queued
      /\ \A i \in Queued : compute'.work[i] = compute.work[i]
      /\ compute'.work[n] = work
  BY EnqueuedQueue
<1>3. /\ l \in Nat /\ compute.done \in Nat /\ compute.done <= l /\ n - 1 = l /\ l # n
  BY StreamFacts
<1>4. PICK total : total = t[l]
  OBVIOUS
<1>5. PICK wave : wave = v[l]
  OBVIOUS
<1>6. total \in Nat /\ wave \in Nat /\ Launched(total, wave)
  BY <1>1, <1>3, <1>4, <1>5
<1>7. PICK u \in Nat, x \in Nat :
        Carries(work, total, u, wave, x) /\ total <= u /\ Launched(u, x)'
  BY <1>6
<1> DEFINE t2 == [t EXCEPT ![n] = u]
           v2 == [v EXCEPT ![n] = x]
<1>8. /\ t2 \in [Nat -> Nat] /\ v2 \in [Nat -> Nat] /\ t2[n] = u /\ v2[n] = x
      /\ \A i \in Nat : i # n => t2[i] = t[i] /\ v2[i] = v[i]
  BY <1>1, <1>2
<1> HIDE DEF t2, v2
<1>9. t2[compute'.done] = Len(read') /\ inputs' \subseteq {v2[compute'.done]}
  <2>1. compute.done # n
    BY <1>2, <1>3
  <2> QED BY <1>1, <1>2, <1>3, <1>8, <2>1 DEF Numbering
<1>10. ASSUME NEW i \in Queued'
       PROVE  /\ Carries(compute'.work[i], t2[i - 1], t2[i], v2[i - 1], v2[i])
              /\ t2[i] <= t2[n]
  <2>1. CASE i \in Queued
    <3>1. i \in Nat /\ i - 1 \in Nat /\ i # n /\ i - 1 # n
      <4>1. i \in 1 .. Len(compute.work) /\ Len(compute.work) \in Nat
        BY <2>1, QueuedFacts, StreamFacts, Zenon
      <4> QED BY <4>1, Inside, Zenon
    <3>2. t2[i - 1] = t[i - 1] /\ t2[i] = t[i] /\ v2[i - 1] = v[i - 1] /\ v2[i] = v[i]
      BY <1>8, <3>1
    <3>3. Carries(compute.work[i], t[i - 1], t[i], v[i - 1], v[i]) /\ t[i] <= total
      BY <1>1, <1>4, <2>1 DEF Numbering
    <3>4. t[i] \in Nat
      BY <1>1, <3>1
    <3>5. compute'.work[i] = compute.work[i]
      BY <1>2, <2>1
    <3>6. t2[i] <= t2[n]
      <4>1. \A a, b \in Nat : a <= b /\ b <= u => a <= u
        BY <1>7
      <4> QED BY <1>6, <1>7, <1>8, <3>2, <3>3, <3>4, <4>1
    <3> QED BY <3>2, <3>3, <3>5, <3>6
  <2>2. CASE i = n
    <3>1. t2[i - 1] = total /\ v2[i - 1] = wave
      BY <1>3, <1>4, <1>5, <1>8, <2>2
    <3>2. u <= u
      BY <1>7
    <3> QED BY <1>2, <1>7, <1>8, <2>2, <3>1, <3>2
  <2> QED BY <1>2, <2>1, <2>2
<1>11. Numbering(t2, v2)'
  BY <1>2, <1>8, <1>9, <1>10 DEF Numbering
<1>12. Launched(t2[n], v2[n])'
  BY <1>7, <1>8
<1> QED BY <1>2, <1>8, <1>11, <1>12 DEF Numbered

\* The work at the head does what it was numbered for.
LEMMA NumberedRuns ==
  ASSUME Typed, Numbered, NEW op, Runs(op), UNCHANGED host,
         \A u \in Nat, v \in Nat, x \in Nat :
           /\ inputs \subseteq {v}
           /\ Carries(Running, Len(read), u, v, x)
           => Len(read') = u /\ inputs' \subseteq {x}
  PROVE  Numbered'
<1>1. PICK t \in [Nat -> Nat], v \in [Nat -> Nat] :
        Numbering(t, v) /\ Launched(t[Len(compute.work)], v[Len(compute.work)])
  BY DEF Numbered
<1> PICK m : m = compute.done + 1
  OBVIOUS
<1>2. /\ compute'.work = compute.work /\ compute'.done = m
      /\ m \in Queued /\ compute.done \in Nat /\ m - 1 = compute.done /\ m \in Nat
      /\ Running = compute.work[m] /\ Queued' = Queued \ {m}
  <2>1. /\ compute'.work = compute.work /\ compute'.done = compute.done + 1
        /\ compute.done + 1 \in Queued /\ compute.done \in Nat
        /\ Running = compute.work[compute.done + 1]
        /\ Queued' = Queued \ {compute.done + 1}
    BY HeadRuns
  <2>2. m - 1 = compute.done /\ m \in Nat
    <3>1. (compute.done + 1) - 1 = compute.done /\ compute.done + 1 \in Nat
      BY <2>1, PlusOne, Zenon
    <3> QED BY <3>1, Zenon
  <2> QED BY <2>1, <2>2
<1>3. /\ Carries(Running, Len(read), t[m], v[m - 1], v[m]) /\ inputs \subseteq {v[m - 1]}
  BY <1>1, <1>2 DEF Numbering
<1>4. t[m] \in Nat /\ v[m - 1] \in Nat /\ v[m] \in Nat
  BY <1>1, <1>2
<1>5. Len(read') = t[m] /\ inputs' \subseteq {v[m]}
  BY <1>3, <1>4
<1>6. Numbering(t, v)'
  BY <1>1, <1>2, <1>5 DEF Numbering
<1>7. PICK n : n = Len(compute.work)
  OBVIOUS
<1>8. Launched(t[n], v[n])'
  <2>1. Targets' = Targets
    BY <1>2, TargetsStay
  <2>2. (Live' <=> Live) /\ runner' = runner
    BY DEF Live, host
  <2> QED BY <1>1, <1>7, <2>1, <2>2 DEF Launched
<1> QED BY <1>1, <1>2, <1>6, <1>7, <1>8 DEF Numbered

-----------------------------------------------------------------------------
\* The steps of the host, numbered.

LEMMA HostNumbered ==
  ASSUME Typed, LastCounted, Numbered,
         \/ \E kind \in {"dummy", "plain", "verify"} : Enter(kind)
         \/ Update \/ UpdateDeferred \/ Build \/ Leave \/ Correct \/ DummyDone \/ Fail
  PROVE  Numbered'
<1>1. UNCHANGED <<compute, read, inputs>>
  BY DEF Enter, Update, UpdateDeferred, Build, Leave, Correct, DummyDone, Fail, device
<1>2. Targets' = Targets
  BY <1>1, TargetsStay
<1>3. ASSUME NEW total \in Nat, NEW wave \in Nat, Launched(total, wave)
      PROVE  Launched(total, wave)'
  <2>1. CASE \E kind \in {"dummy", "plain", "verify"} : Enter(kind)
    <3>1. /\ runner.at = "idle" /\ ~slots.failed
          /\ runner'.at \in {"entered", "updated"} /\ runner'.wave = runner.wave + 1
      BY <2>1 DEF Enter, CanEnter
    <3>2. total = runner.wave /\ runner.wave \in Nat
      BY <1>3, <3>1, HostFacts DEF Launched, Live
    <3>3. total = runner'.wave - 1
      BY <3>1, <3>2
    <3> QED BY <1>2, <1>3, <3>1, <3>3 DEF Launched
  <2>2. CASE Update \/ UpdateDeferred
    <3>1. /\ runner.at = "entered" /\ runner'.at = "updated" /\ runner'.wave = runner.wave
          /\ slots' = slots
      BY <2>2 DEF Update, UpdateDeferred, Typed, HostTyped, Runner
    <3> QED BY <1>2, <1>3, <3>1 DEF Launched, Live
  <2>3. CASE Build \/ Leave
    <3>1. /\ runner.at \in {"prepared", "built"} /\ runner'.at \in {"built", "ready"}
          /\ runner'.wave = runner.wave /\ slots'.failed = slots.failed
      BY <2>3 DEF Build, Leave, Recorded, Typed, HostTyped, Runner
    <3> QED BY <1>2, <1>3, <3>1 DEF Launched, Live
  <2>4. CASE Correct \/ DummyDone
    <3>1. /\ runner.at \in {"launched", "sampling"} /\ runner'.at \in {"sampling", "idle"}
          /\ runner'.wave = runner.wave /\ slots' = slots
      BY <2>4 DEF Correct, DummyDone, Typed, HostTyped, Runner
    <3> QED BY <1>2, <1>3, <3>1 DEF Launched, Live
  <2>5. CASE Fail
    <3>1. slots'.failed /\ runner'.at \in {"idle", "stopped"}
      BY <2>5 DEF Fail, Typed, HostTyped, Runner
    <3> QED BY <1>2, <1>3, <3>1 DEF Launched, Live
  <2> QED BY <2>1, <2>2, <2>3, <2>4, <2>5
<1> QED BY <1>1, <1>3, NumberedStays

LEMMA PrepareNumbered ==
  ASSUME Typed, Numbered, Typed',
         NEW work \in Work, work.op \in {"prepare", "derive"}, work.wave = runner.wave,
         compute' = Enqueue(compute, work), UNCHANGED <<read, inputs, slots>>,
         runner.at = "updated", runner' = [runner EXCEPT !.at = "prepared"]
  PROVE  Numbered'
<1>1. runner'.at = "prepared" /\ runner'.wave = runner.wave /\ runner.wave \in Nat
  BY HostFacts DEF Typed, HostTyped, Runner
<1>2. Cardinality(Targets') = Cardinality(Targets)
  <2>1. Cardinality(Targets') = Cardinality(Targets) + 0
    BY TargetsEnqueued
  <2> QED BY <2>1, FiniteTargets
<1>3. ASSUME NEW total \in Nat, NEW wave \in Nat, Launched(total, wave)
      PROVE  \E u \in Nat, x \in Nat :
               Carries(work, total, u, wave, x) /\ total <= u /\ Launched(u, x)'
  <2>1. PICK x \in Nat : x = runner.wave
    BY <1>1
  <2>2. Carries(work, total, total, wave, x)
    BY <2>1 DEF Carries
  <2>3. Launched(total, x)'
    BY <1>1, <1>2, <1>3, <2>1 DEF Launched, Live
  <2>4. total <= total
    OBVIOUS
  <2> QED BY <2>2, <2>3, <2>4
<1> QED BY <1>3, NumberedGrows

LEMMA LaunchNumbered ==
  ASSUME Typed, LastCounted, Attributed, Numbered, Typed', Launch \/ LaunchFails
  PROVE  Numbered'
<1>1. /\ UNCHANGED <<slots, read, inputs>> /\ runner.at = "ready"
      /\ (LaunchFails /\ compute' = compute) \/ compute' = Enqueue(compute, Target)
  BY DEF Launch, LaunchFails, device
<1>2. /\ runner'.wave = runner.wave /\ runner.wave \in Nat
      /\ Launch => runner'.at \in {"launched", "sampling"}
      /\ LaunchFails => runner'.at = "stopped"
  BY HostFacts DEF Launch, LaunchFails, Typed, HostTyped, Runner
<1>3. CASE LaunchFails /\ compute' = compute
  <2>1. ASSUME NEW total \in Nat, NEW wave \in Nat, Launched(total, wave)
        PROVE  Launched(total, wave)'
    <3>1. Targets' = Targets
      BY <1>3, TargetsStay
    <3> QED BY <1>1, <1>2, <1>3, <2>1, <3>1 DEF Launched, Live
  <2> QED BY <1>1, <1>3, <2>1, NumberedStays
<1>4. CASE compute' = Enqueue(compute, Target)
  <2>1. PICK work : work = Target
    OBVIOUS
  <2>2. work \in Work /\ work.op = "target" /\ work.metadata = runner.wave
    <3>1. work.op = "target" /\ work.metadata = runner.metadata
      BY <2>1 DEF Target
    <3> QED BY <1>1, <2>1, <3>1, TargetLeads DEF Attributed
  <2>3. compute' = Enqueue(compute, work)
    BY <1>4, <2>1
  <2>4. Cardinality(Targets') = Cardinality(Targets) + 1
    BY <2>2, <2>3, TargetsEnqueued
  <2>5. ASSUME NEW total \in Nat, NEW wave \in Nat, Launched(total, wave)
        PROVE  \E u \in Nat, x \in Nat :
                 Carries(work, total, u, wave, x) /\ total <= u /\ Launched(u, x)'
    <3>1. Live /\ total = runner.wave - 1 /\ wave = runner.wave
      BY <1>1, <2>5 DEF LastCounted, Launched, Live
    <3>2. total + 1 = runner.wave /\ total + 1 \in Nat /\ total <= total + 1
      BY <1>2, <3>1
    <3>3. Carries(work, total, total + 1, wave, wave)
      BY <2>2, <3>1, <3>2 DEF Carries
    <3>4. PICK u \in Nat : u = total + 1
      BY <3>2
    <3>5. Launched(u, wave)'
      <4>1. u = Cardinality(Targets')
        BY <2>4, <2>5, <3>4 DEF Launched
      <4>2. u = runner'.wave
        BY <1>2, <3>2, <3>4
      <4>3. Live' => runner'.at \in {"launched", "sampling"}
        BY <1>2 DEF Live
      <4>4. runner'.at \notin {"prepared", "built", "ready"}
        BY <1>2
      <4> QED BY <4>1, <4>2, <4>3, <4>4 DEF Launched
    <3> QED BY <3>2, <3>3, <3>4, <3>5
  <2> QED BY <1>1, <2>2, <2>3, <2>5, NumberedGrows
<1> QED BY <1>1, <1>3, <1>4

LEMMA SampleNumbered ==
  ASSUME Typed, Numbered, Typed', Sample
  PROVE  Numbered'
<1>1. PICK work : work = [op |-> "sample", wave |-> runner.wave, width |-> Width(runner.kind)]
  OBVIOUS
<1>2. work \in Work /\ work.op = "sample"
  BY <1>1, WidthType, HostFacts DEF Work, Sampling
<1>3. compute' = Enqueue(compute, work) /\ UNCHANGED <<slots, read, inputs>>
      /\ runner.at = "sampling"
  BY <1>1 DEF Sample, device
<1>4. runner'.at = "idle" /\ runner'.wave = runner.wave
  BY DEF Sample, Typed, HostTyped, Runner
<1>5. Cardinality(Targets') = Cardinality(Targets)
  <2>1. Cardinality(Targets') = Cardinality(Targets) + 0
    BY <1>2, <1>3, TargetsEnqueued
  <2> QED BY <2>1, FiniteTargets
<1>6. ASSUME NEW total \in Nat, NEW wave \in Nat, Launched(total, wave)
      PROVE  \E u \in Nat, x \in Nat :
               Carries(work, total, u, wave, x) /\ total <= u /\ Launched(u, x)'
  <2>1. Carries(work, total, total, wave, wave)
    BY <1>2 DEF Carries
  <2>2. Launched(total, wave)'
    BY <1>3, <1>4, <1>5, <1>6 DEF Launched, Live
  <2>3. total <= total
    OBVIOUS
  <2> QED BY <2>1, <2>2, <2>3
<1> QED BY <1>2, <1>3, <1>6, NumberedGrows

-----------------------------------------------------------------------------
\* The steps of the device, numbered.

LEMMA DeviceNumbered ==
  ASSUME Typed, CopiesKept, SlotsKept, Numbered, Compute
  PROVE  Numbered'
<1> PICK m : m = compute.done + 1
  OBVIOUS
<1>1. ASSUME NEW op, Runs(op)
      PROVE  m \in Queued /\ Running = compute.work[m] /\ Running \in Work /\ Running.op = op
  BY <1>1, HeadRuns
<1>2. CASE RunPrepare
  <2>1. Runs("prepare") /\ UNCHANGED host /\ read' = read
        /\ inputs' = IF cpu[Running.bank] = Running.put THEN {Running.wave} ELSE {0}
    BY <1>2 DEF RunPrepare
  <2>2. cpu[Running.bank] = Running.put /\ Running.op = "prepare"
    BY <1>1, <2>1 DEF CopiesKept, CopyKept
  <2> QED BY <2>1, <2>2, NumberedRuns DEF Carries
<1>3. CASE RunDerive
  <2>1. Runs("derive") /\ UNCHANGED host /\ read' = read
        /\ inputs' = {slot[Running.slot].device} /\ Running.after <= ingress.done
    BY <1>3 DEF RunDerive, Retired
  <2>2. slot[Running.slot].device = Running.wave /\ Running.op = "derive"
    BY <1>1, <2>1 DEF SlotsKept, DerivesKept, DeriveKept
  <2> QED BY <2>1, <2>2, NumberedRuns DEF Carries
<1>4. CASE RunTarget
  <2>1. Runs("target") /\ UNCHANGED <<host, inputs>>
        /\ read' = Append(read, inputs \cup {Running.metadata})
    BY <1>4 DEF RunTarget
  <2>2. Running.op = "target"
    BY <1>1, <2>1
  <2>3. Len(read') = Len(read) + 1
    BY <2>1 DEF Typed, DeviceTyped
  <2> QED BY <2>1, <2>2, <2>3, NumberedRuns DEF Carries
<1>5. CASE RunSample
  <2>1. Runs("sample") /\ UNCHANGED <<host, inputs, read>>
    BY <1>5 DEF RunSample
  <2>2. Running.op = "sample"
    BY <1>1, <2>1
  <2> QED BY <2>1, <2>2, NumberedRuns DEF Carries
<1> QED BY <1>2, <1>3, <1>4, <1>5 DEF Compute

LEMMA ReadLength ==
  ASSUME NEW T, NEW s \in Seq(T)
  PROVE  Len(s) \in Nat
OBVIOUS

\* A target that runs is the next one, and reads its own wave and no other.
LEMMA TargetReads ==
  ASSUME Typed, Numbered, RunTarget
  PROVE  /\ Len(read) < Cardinality(Targets)
         /\ read' = Append(read, {Len(read) + 1})
<1>1. PICK t \in [Nat -> Nat], v \in [Nat -> Nat] :
        Numbering(t, v) /\ t[Len(compute.work)] = Cardinality(Targets)
  BY DEF Numbered, Launched
<1> PICK m : m = compute.done + 1
  OBVIOUS
<1>2. /\ m \in Queued /\ Running = compute.work[m] /\ Running.op = "target"
      /\ compute.done \in Nat
  BY HeadRuns DEF RunTarget
<1>3. m \in Nat /\ m - 1 = compute.done
  BY <1>2, PlusOne, Zenon
<1>4. /\ t[m - 1] = Len(read) /\ inputs \subseteq {v[m - 1]}
      /\ Carries(Running, t[m - 1], t[m], v[m - 1], v[m])
      /\ t[m] <= t[Len(compute.work)]
  BY <1>1, <1>2, <1>3 DEF Numbering
<1>5. t[m] = Len(read) + 1 /\ Running.metadata = t[m] /\ v[m - 1] = t[m]
  BY <1>2, <1>4 DEF Carries
<1>6. Len(read) < Cardinality(Targets)
  <2>1. Len(read) \in Nat /\ Cardinality(Targets) \in Nat
    <3>1. read \in Seq(SUBSET Nat)
      BY DEF Typed, DeviceTyped
    <3>2. Len(read) \in Nat
      BY <3>1, ReadLength
    <3> QED BY <3>2, FiniteTargets
  <2> QED BY <1>1, <1>4, <1>5, <2>1
<1>7. inputs \cup {Running.metadata} = {Len(read) + 1}
  BY <1>4, <1>5
<1> QED BY <1>6, <1>7 DEF RunTarget

-----------------------------------------------------------------------------
\* The invariant.

LEMMA InitOwn ==
  ASSUME Init
  PROVE  OwnInv
<1>1. BoundInv /\ Typed
  BY InitBound, InitTyped
<1>2. /\ compute.work = <<>> /\ compute.done = 0 /\ Len(compute.work) = 0
      /\ ingress.work = <<>> /\ ingress.done = 0 /\ Len(ingress.work) = 0
      /\ runner.at = "idle" /\ runner.wave = 0 /\ runner.kind = "plain"
      /\ bounds.admitted = FALSE /\ read = <<>> /\ Len(read) = 0 /\ inputs = {}
      /\ slot = [k \in SlotKey |-> [host |-> 0, device |-> 0, ready |-> 0, consumed |-> 0]]
  BY DEF Init
<1>3. Queued = {} /\ ingress.done + 1 .. Len(ingress.work) = {}
  BY <1>2 DEF Queued
<1>4. CopiesKept
  BY <1>3 DEF CopiesKept
<1>5. SlotsKept
  <2>1. \A k \in SlotKey : slot[k].ready <= Len(ingress.work)
    BY <1>2
  <2>2. DerivesKept /\ UploadsKept
    BY <1>3 DEF DerivesKept, UploadsKept
  <2> QED BY <2>1, <2>2 DEF SlotsKept
<1>6. Attributed
  BY <1>2 DEF Attributed, AtWork
<1>7. Numbered
  <2>1. PICK t : t = [i \in Nat |-> 0]
    OBVIOUS
  <2>2. t \in [Nat -> Nat] /\ t[0] = 0
    BY <2>1
  <2>3. Numbering(t, t)
    BY <1>2, <1>3, <2>2 DEF Numbering
  <2>4. Targets = {}
    BY <1>2 DEF Targets
  <2>5. Launched(0, 0)
    BY <1>2, <2>4, FS_EmptySet DEF Launched
  <2> QED BY <1>2, <2>2, <2>3, <2>5 DEF Numbered
<1> QED BY <1>1, <1>4, <1>5, <1>6, <1>7 DEF OwnInv

\* The steps of the host, but the preparation.
LEMMA HostOwn ==
  ASSUME OwnInv, Typed',
         \/ \E kind \in {"dummy", "plain", "verify"} : Enter(kind)
         \/ Update \/ UpdateDeferred \/ Build \/ Leave \/ Launch \/ Correct \/ Sample
         \/ DummyDone \/ Fail \/ LaunchFails
  PROVE  CopiesKept' /\ SlotsKept' /\ Attributed' /\ Numbered'
<1>1. Typed /\ LastCounted /\ CopiesKept /\ SlotsKept /\ Attributed /\ Numbered
  BY DEF OwnInv, BoundInv
<1>2. CopiesKept'
  BY <1>1, EnterCopies, UpdateCopies, ScopeCopies, LaunchCopies, CorrectCopies, SampleCopies,
     Zenon
<1>3. Attributed'
  BY <1>1, HostAttributed, WorkAttributed, Zenon
<1>4. Numbered'
  BY <1>1, HostNumbered, LaunchNumbered, SampleNumbered, Zenon
<1>5. SlotsKept'
  <2>1. UNCHANGED <<slot, ingress>>
    BY DEF Enter, Update, UpdateDeferred, Build, Leave, Launch, Correct, Sample, DummyDone,
           Fail, LaunchFails
  <2>2. CASE compute' = compute
    <3>1. Queued' = Queued
      BY <2>2 DEF Queued
    <3> QED BY <1>1, <2>1, <2>2, <3>1, SlotsStay
  <2>3. PICK sample : sample = [op |-> "sample", wave |-> runner.wave,
                                width |-> Width(runner.kind)]
    OBVIOUS
  <2>4. \/ compute' = compute
        \/ compute' = Enqueue(compute, Target)
        \/ compute' = Enqueue(compute, sample)
    BY <2>3 DEF Enter, Update, UpdateDeferred, Build, Leave, Launch, Correct, Sample,
                DummyDone, Fail, LaunchFails
  <2>5. PICK target : target = Target
    OBVIOUS
  <2>6. target \in Work /\ target.op # "derive"
    BY <1>1, <2>5, TargetLeads DEF Target
  <2>7. sample \in Work /\ sample.op # "derive"
    BY <1>1, <2>3, WidthType, HostFacts DEF Work, Sampling
  <2> QED BY <1>1, <2>1, <2>2, <2>4, <2>5, <2>6, <2>7, SlotsEnqueued
<1> QED BY <1>2, <1>3, <1>4, <1>5

LEMMA PrepareOwn ==
  ASSUME OwnInv, Typed',
         PrepareNative \/ PrepareDummy \/ \E n \in Count : PrepareOnSlot(n)
  PROVE  CopiesKept' /\ SlotsKept' /\ Attributed' /\ Numbered'
<1>1. Typed /\ CopiesKept /\ SlotsKept /\ Attributed /\ Numbered
  BY DEF OwnInv, BoundInv
<1>2. CopiesKept'
  BY <1>1, NativeCopies, OnSlotCopies, Zenon
<1>3. Attributed'
  BY <1>1, WorkAttributed, Zenon
<1>4. CASE PrepareNative \/ PrepareDummy
  <2>1. PICK bound : Native(bound) /\ bound \in Int
    <3>1. cpu[slots.bank].budget \in Int /\ cpu[slots.bank].budget - Correction \in Int
      BY <1>1, HostFacts DEF Correction
    <3> QED BY <1>4, <3>1 DEF PrepareNative, PrepareDummy
  <2>2. PICK work : work = [op |-> "prepare", wave |-> runner.wave, kind |-> runner.kind,
                            bank |-> slots.bank, put |-> Written[slots.bank],
                            bound |-> bound]
    OBVIOUS
  <2>3. /\ compute' = Enqueue(compute, work) /\ runner' = [runner EXCEPT !.at = "prepared"]
        /\ runner.at = "updated" /\ UNCHANGED <<slot, ingress, read, inputs, slots>>
    BY <1>4, <2>1, <2>2 DEF Native, PrepareNative, PrepareDummy, device
  <2>4. work.op = "prepare" /\ work.wave = runner.wave
    BY <2>2
  <2>5. work \in Work
    BY <1>1, <2>1, <2>2, WrittenTyped, HostFacts DEF Work, Preparing
  <2>6. SlotsKept'
    BY <1>1, <2>3, <2>4, <2>5, SlotsEnqueued
  <2>7. Numbered'
    BY <1>1, <2>3, <2>4, <2>5, PrepareNumbered
  <2> QED BY <1>2, <1>3, <2>6, <2>7
<1>5. CASE \E n \in Count : PrepareOnSlot(n)
  <2>1. PICK n \in Count : PrepareOnSlot(n)
    BY <1>5
  <2>2. SlotsKept'
    BY <1>1, <2>1, OnSlotSlots
  <2>3. PICK work : work = [op |-> "derive", wave |-> runner.wave, kind |-> runner.kind,
                            slot |-> <<n, producer.sequence % 2>>,
                            after |-> Len(ingress.work) + 1,
                            bound |-> cpu[slots.bank].budget]
    OBVIOUS
  <2>4. /\ compute' = Enqueue(compute, work) /\ runner' = [runner EXCEPT !.at = "prepared"]
        /\ runner.at = "updated" /\ UNCHANGED <<read, inputs, slots>>
    BY <2>1, <2>3 DEF PrepareOnSlot, device
  <2>5. work.op = "derive" /\ work.wave = runner.wave
    BY <2>3
  <2>6. work \in Work
    BY <1>1, <2>3, OnSlotWork
  <2>7. Numbered'
    BY <1>1, <2>4, <2>5, <2>6, PrepareNumbered
  <2> QED BY <1>2, <1>3, <2>2, <2>7
<1> QED BY <1>4, <1>5

LEMMA DeviceOwn ==
  ASSUME OwnInv, Upload \/ Compute
  PROVE  CopiesKept' /\ SlotsKept' /\ Attributed' /\ Numbered'
<1>1. Typed /\ CopiesKept /\ SlotsKept /\ Attributed /\ Numbered
  BY DEF OwnInv, BoundInv
<1>2. UNCHANGED host
  BY DEF Upload, Compute, RunPrepare, RunDerive, RunTarget, RunSample
<1>3. UNCHANGED <<runner, bounds, slots, producer>>
  BY <1>2 DEF host
<1>4. Attributed'
  BY <1>1, <1>3 DEF Attributed, AtWork, OnGraph
<1>5. CASE Upload
  <2>1. compute' = compute /\ UNCHANGED <<read, inputs>>
    BY <1>5 DEF Upload, device
  <2>2. Queued' = Queued /\ Targets' = Targets
    BY <2>1, TargetsStay DEF Queued
  <2>3. CopiesKept'
    BY <1>1, <1>2, <2>1, <2>2, DeviceCopies
  <2>4. \A total \in Nat, wave \in Nat : Launched(total, wave) => Launched(total, wave)'
    BY <1>3, <2>2 DEF Launched, Live
  <2>5. Numbered'
    BY <1>1, <2>1, <2>4, NumberedStays
  <2>6. SlotsKept'
    BY <1>1, <1>5, UploadSlots
  <2> QED BY <1>4, <2>3, <2>5, <2>6
<1>6. CASE Compute
  <2>1. UNCHANGED <<slot, ingress>> /\ \E op : Runs(op)
    BY <1>6 DEF Compute, RunPrepare, RunDerive, RunTarget, RunSample
  <2>2. compute'.work = compute.work /\ Queued' \subseteq Queued
    BY <1>1, <2>1, HeadRuns
  <2>3. CopiesKept'
    BY <1>1, <1>2, <2>2, DeviceCopies
  <2>4. SlotsKept'
    BY <1>1, <2>1, <2>2, SlotsStay
  <2>5. Numbered'
    BY <1>1, <1>6, DeviceNumbered
  <2> QED BY <1>4, <2>3, <2>4, <2>5
<1> QED BY <1>5, <1>6

LEMMA NextOwn ==
  ASSUME OwnInv, Next
  PROVE  OwnInv'
<1>1. BoundInv' /\ Typed'
  BY NextBound, NextTyped DEF OwnInv, BoundInv
<1>2. ASSUME Continue
      PROVE  CopiesKept' /\ SlotsKept' /\ Attributed' /\ Numbered'
  BY <1>1, <1>2, HostOwn, PrepareOwn, Zenon DEF Continue
<1>3. CopiesKept' /\ SlotsKept' /\ Attributed' /\ Numbered'
  BY <1>1, <1>2, HostOwn, DeviceOwn, Zenon DEF Next
<1> QED BY <1>1, <1>3 DEF OwnInv

LEMMA StutterOwn ==
  ASSUME OwnInv, UNCHANGED vars
  PROVE  OwnInv'
<1>1. Typed /\ BoundInv /\ CopiesKept /\ SlotsKept /\ Attributed /\ Numbered
  BY DEF OwnInv, BoundInv
<1>2. /\ UNCHANGED <<route, runner, bounds, slots, producer, cpu, prepared, last, slot, ingress,
                     compute, inputs, progress, valid, receipt, slack, read>>
      /\ UNCHANGED host
  BY DEF vars, host, device
<1>3. BoundInv'
  BY <1>1, StutterBound
<1>4. Queued' = Queued /\ Targets' = Targets
  BY <1>2, TargetsStay DEF Queued
<1>5. CopiesKept'
  BY <1>1, <1>2, <1>4, DeviceCopies
<1>6. SlotsKept'
  BY <1>1, <1>2, <1>4, SlotsStay
<1>7. Attributed'
  BY <1>1, <1>2 DEF Attributed, AtWork, OnGraph
<1>8. \A total \in Nat, wave \in Nat : Launched(total, wave) => Launched(total, wave)'
  BY <1>2, <1>4 DEF Launched, Live
<1>9. Numbered'
  BY <1>1, <1>2, <1>8, NumberedStays
<1> QED BY <1>3, <1>5, <1>6, <1>7, <1>9 DEF OwnInv

-----------------------------------------------------------------------------
\* The abstract publication.

LEMMA ServiceSteps ==
  ASSUME OwnInv, Next
  PROVE  [Service!Next]_Service!vars
<1>1. Typed /\ Numbered /\ Typed'
  BY NextTyped DEF OwnInv, BoundInv
<1>2. ASSUME compute'.work = compute.work, read' = read
      PROVE  UNCHANGED Service!vars
  <2>1. Targets' = Targets
    BY <1>2, TargetsStay
  <2> QED BY <1>2, <2>1 DEF Service!vars
<1>3. ASSUME NEW work \in Work, compute' = Enqueue(compute, work), read' = read
      PROVE  [Service!Next]_Service!vars
  <2>1. Cardinality(Targets') = Cardinality(Targets) + (IF work.op = "target" THEN 1 ELSE 0)
    BY <1>1, <1>3, TargetsEnqueued
  <2>2. CASE work.op = "target"
    BY <1>3, <2>1, <2>2 DEF Service!Next, Service!Submit
  <2>3. CASE work.op # "target"
    <3>1. Cardinality(Targets') = Cardinality(Targets)
      BY <1>1, <2>1, <2>3, FiniteTargets
    <3> QED BY <1>3, <3>1 DEF Service!vars
  <2> QED BY <2>2, <2>3
<1>4. CASE \/ \E kind \in {"dummy", "plain", "verify"} : Enter(kind)
           \/ Update \/ UpdateDeferred \/ Build \/ Leave \/ Correct \/ DummyDone \/ Fail
           \/ Upload
  <2>1. compute' = compute /\ read' = read
    BY <1>4 DEF Enter, Update, UpdateDeferred, Build, Leave, Correct, DummyDone, Fail, Upload,
                device
  <2> QED BY <1>2, <2>1
<1>5. CASE PrepareNative \/ PrepareDummy
  <2>1. PICK bound : Native(bound) /\ bound \in Int
    <3>1. cpu[slots.bank].budget \in Int /\ cpu[slots.bank].budget - Correction \in Int
      BY <1>1, HostFacts DEF Correction
    <3> QED BY <1>5, <3>1 DEF PrepareNative, PrepareDummy
  <2>2. PICK work : work = [op |-> "prepare", wave |-> runner.wave, kind |-> runner.kind,
                            bank |-> slots.bank, put |-> Written[slots.bank],
                            bound |-> bound]
    OBVIOUS
  <2>3. compute' = Enqueue(compute, work) /\ read' = read
    BY <1>5, <2>1, <2>2 DEF Native, PrepareNative, PrepareDummy, device
  <2>4. work \in Work
    BY <1>1, <2>1, <2>2, WrittenTyped, HostFacts DEF Work, Preparing
  <2> QED BY <1>3, <2>3, <2>4
<1>6. CASE \E n \in Count : PrepareOnSlot(n)
  <2>1. PICK n \in Count : PrepareOnSlot(n)
    BY <1>6
  <2>2. PICK work : work = [op |-> "derive", wave |-> runner.wave, kind |-> runner.kind,
                            slot |-> <<n, producer.sequence % 2>>,
                            after |-> Len(ingress.work) + 1,
                            bound |-> cpu[slots.bank].budget]
    OBVIOUS
  <2>3. compute' = Enqueue(compute, work) /\ read' = read
    BY <2>1, <2>2 DEF PrepareOnSlot, device
  <2>4. work \in Work
    BY <1>1, <2>2, OnSlotWork
  <2> QED BY <1>3, <2>3, <2>4
<1>7. CASE Launch \/ LaunchFails
  <2>1. PICK work : work = Target
    OBVIOUS
  <2>2. read' = read /\ (compute' = compute \/ compute' = Enqueue(compute, work))
    BY <1>7, <2>1 DEF Launch, LaunchFails, device
  <2>3. work \in Work
    BY <1>1, <2>1, TargetLeads
  <2> QED BY <1>2, <1>3, <2>2, <2>3
<1>8. CASE Sample
  <2>1. PICK work : work = [op |-> "sample", wave |-> runner.wave,
                            width |-> Width(runner.kind)]
    OBVIOUS
  <2>2. compute' = Enqueue(compute, work) /\ read' = read
    BY <1>8, <2>1 DEF Sample, device
  <2>3. work \in Work
    BY <1>1, <2>1, WidthType, HostFacts DEF Work, Sampling
  <2> QED BY <1>3, <2>2, <2>3
<1>9. CASE Compute
  <2>1. \E op : Runs(op)
    BY <1>9 DEF Compute, RunPrepare, RunDerive, RunTarget, RunSample
  <2>2. compute'.work = compute.work
    BY <1>1, <2>1, HeadRuns
  <2>3. CASE RunTarget
    <3>1. Len(read) < Cardinality(Targets) /\ read' = Append(read, {Len(read) + 1})
      BY <1>1, <2>3, TargetReads
    <3>2. Targets' = Targets
      BY <2>2, TargetsStay
    <3> QED BY <3>1, <3>2 DEF Service!Next, Service!Finish
  <2>4. CASE RunPrepare \/ RunDerive \/ RunSample
    <3>1. read' = read
      BY <2>4 DEF RunPrepare, RunDerive, RunSample
    <3> QED BY <1>2, <2>2, <3>1
  <2> QED BY <1>9, <2>3, <2>4 DEF Compute
<1> QED BY <1>4, <1>5, <1>6, <1>7, <1>8, <1>9, Zenon DEF Next, Continue

\* Whatever the host, the producer and the two streams do is a step of the abstract
\* publication or leaves it alone: targets are submitted one by one, and the next
\* one to finish has read the inputs and the metadata of its own wave and no other
\* (HostSourceSlots, DecodeProducer and the callback of CrossStepBounds).
THEOREM ReadsItsOwn == Spec => Service!Init /\ [][Service!Next]_Service!vars
<1>1. Init => Service!Init
  <2>1. Init => Targets = {}
    BY DEF Init, Targets
  <2> QED BY <2>1, FS_EmptySet DEF Init, Service!Init
<1>2. OwnInv /\ [Next]_vars => OwnInv'
  BY NextOwn, StutterOwn
<1>3. OwnInv /\ [Next]_vars => [Service!Next]_Service!vars
  <2>1. ASSUME UNCHANGED vars
        PROVE  UNCHANGED Service!vars
    <3>1. compute' = compute /\ read' = read
      BY <2>1 DEF vars, device
    <3>2. Targets' = Targets
      BY <3>1, TargetsStay
    <3> QED BY <3>1, <3>2 DEF Service!vars
  <2> QED BY <2>1, ServiceSteps
<1> QED BY <1>1, <1>2, <1>3, InitOwn, PTL DEF Spec

=============================================================================
