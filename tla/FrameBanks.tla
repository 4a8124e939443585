----------------------------- MODULE FrameBanks -----------------------------
(***************************************************************************)
(* Banked publication of step metadata (patches/qwen_gdn/publication.py    *)
(* and patches/qwen_fia/wave.py).                                          *)
(*                                                                         *)
(* A serial host runner builds the metadata of a wave in the pinned source *)
(* of a frame, uploads it to the frame's device slab on the ingress        *)
(* stream, and launches the forward that reads it on the compute stream.   *)
(* Frames exist per kind, token capacity and bank; real waves alternate    *)
(* between two banks.  Device streams run their work in order, at their    *)
(* own pace; an event stands for the work recorded before it.  An upload   *)
(* and a forward take two steps, over two halves of the data, because what *)
(* they read may change meanwhile.                                         *)
(***************************************************************************)
EXTENDS Integers, Sequences

CONSTANTS
  Capacity,  \* token capacities that waves are padded to
  MaxWaves   \* bound: waves

ASSUME BanksAssumption == MaxWaves \in Nat

Bank == {0, 1}

\* GDN metadata is published for every wave, FIA plans for full graphs only.
Frame == {"gdn", "fia"} \X Capacity \X Bank

VARIABLES
  runner,    \* the host: where it is, and its wave
  nextBank,  \* _owned_next_bank
  source,    \* pinned slab of a frame: the wave in each half
  slab,      \* device slab of a frame: the wave in each half
  uploaded,  \* a frame's event: its last upload, 0 for none
  consumed,  \* a frame's event: the last forward released, 0 for none
  uploads,   \* everything put on the ingress stream
  forwards,  \* everything put on the compute stream
  ingress,   \* progress of the ingress stream
  compute,   \* progress of the compute stream
  read       \* per finished forward, the waves whose metadata it read

host == <<runner, nextBank, source, uploaded, consumed, uploads, forwards>>
device == <<slab, ingress, compute, read>>
vars == <<host, device>>

\* Both halves of the metadata of wave w.
Whole(w) == <<w, w>>

\* An upload waits for a forward, a forward for uploads.
Upload == [frame : Frame, wave : 1 .. MaxWaves, after : Nat]

Forward == [frames : SUBSET Frame, after : SUBSET Nat]

Init ==
  /\ runner = [at |-> "idle", wave |-> 0, frame |-> {}]
  /\ nextBank = 0
  /\ source = [f \in Frame |-> Whole(0)]
  /\ slab = [f \in Frame |-> Whole(0)]
  /\ uploaded = [f \in Frame |-> 0]
  /\ consumed = [f \in Frame |-> 0]
  /\ uploads = <<>>
  /\ forwards = <<>>
  /\ ingress = [done |-> 0, half |-> FALSE]
  /\ compute = [done |-> 0, half |-> FALSE, seen |-> {}]
  /\ read = <<>>

-----------------------------------------------------------------------------
\* The host runner.

\* Faulty Reusable: the host does not wait for the last upload.
ReusableAtOnce(f) == TRUE

\* The pinned source of f is free once its last upload has retired.
Reusable(f) == uploaded[f] <= ingress.done

\* Faulty Consumer: the copy is put on the stream without a wait.
NoConsumer(f) == 0

\* What the copy to f has to wait for on the device.
Consumer(f) == consumed[f]

\* Fill the source of f with wave w, and put its copy on the ingress stream.
Put(f, w) ==
  /\ Reusable(f)
  /\ source' = [source EXCEPT ![f] = Whole(w)]
  /\ uploads' = Append(uploads, [frame |-> f, wave |-> w, after |-> Consumer(f)])
  /\ uploaded' = [uploaded EXCEPT ![f] = Len(uploads) + 1]

\* The bank after a wave in bank b.
Alternated(b, dummy) == IF dummy THEN nextBank ELSE 1 - b

\* _build_attention_metadata.  Warm-up and capture choose a bank, and a dummy
\* wave does not alternate.
Publish(c, b, dummy) ==
  /\ runner.at = "idle" /\ runner.wave < MaxWaves
  /\ b = nextBank \/ dummy
  /\ Put(<<"gdn", c, b>>, runner.wave + 1)
  /\ runner' = [at |-> "published", wave |-> runner.wave + 1,
                frame |-> {<<"gdn", c, b>>}]
  /\ nextBank' = Alternated(b, dummy)
  /\ UNCHANGED <<consumed, forwards, device>>

\* The FIA frame of the same capacity and bank, in the forward of a full graph.
Prepare ==
  /\ runner.at = "published"
  /\ \E c \in Capacity, b \in Bank :
       /\ runner.frame = {<<"gdn", c, b>>}
       /\ Put(<<"fia", c, b>>, runner.wave)
       /\ runner' = [runner EXCEPT !.at = "prepared", !.frame = @ \cup {<<"fia", c, b>>}]
  /\ UNCHANGED <<nextBank, consumed, forwards, device>>

\* The forward, behind the waits for its frames' uploads.
Launched ==
  forwards' = Append(forwards, [frames |-> runner.frame,
                                after |-> {uploaded[f] : f \in runner.frame}])

\* Faulty Released: the event is recorded before the forward is launched.
ReleasedEarly(frames) ==
  consumed' = [f \in Frame |-> IF f \in frames THEN Len(forwards) ELSE consumed[f]]

Released(frames) ==
  consumed' = [f \in Frame |-> IF f \in frames THEN Len(forwards) + 1 ELSE consumed[f]]

\* _model_forward, and the release of its frames.
Launch ==
  /\ runner.at \in {"published", "prepared"}
  /\ Launched
  /\ Released(runner.frame)
  /\ runner' = [runner EXCEPT !.at = "idle", !.frame = {}]
  /\ UNCHANGED <<nextBank, source, uploaded, uploads, device>>

\* The forward raises with some of its work launched: only FIA frames are
\* released, and the native engine stops.  Its GDN frame stays without the event, which
\* no copy misses: the runner publishes nothing after it.
LaunchFails ==
  /\ runner.at \in {"published", "prepared"}
  /\ Launched
  /\ Released({f \in runner.frame : f[1] = "fia"})
  /\ runner' = [runner EXCEPT !.at = "failed", !.frame = {}]
  /\ UNCHANGED <<nextBank, source, uploaded, uploads, device>>

-----------------------------------------------------------------------------
\* The device streams.

\* Half h of slab f becomes wave w.
Copied(f, h) == slab' = [slab EXCEPT ![f][h] = source[f][h]]

StartUpload ==
  LET u == uploads[ingress.done + 1]
  IN  /\ ~ingress.half /\ ingress.done < Len(uploads)
      /\ u.after <= compute.done
      /\ Copied(u.frame, 1)
      /\ ingress' = [ingress EXCEPT !.half = TRUE]
      /\ UNCHANGED <<host, compute, read>>

FinishUpload ==
  /\ ingress.half
  /\ Copied(uploads[ingress.done + 1].frame, 2)
  /\ ingress' = [done |-> ingress.done + 1, half |-> FALSE]
  /\ UNCHANGED <<host, compute, read>>

\* What half h of the slabs of a forward says.
Seen(w, h) == {slab[f][h] : f \in w.frames}

StartForward ==
  LET w == forwards[compute.done + 1]
  IN  /\ ~compute.half /\ compute.done < Len(forwards)
      /\ \A n \in w.after : n <= ingress.done
      /\ compute' = [compute EXCEPT !.half = TRUE, !.seen = Seen(w, 1)]
      /\ UNCHANGED <<host, slab, ingress, read>>

FinishForward ==
  /\ compute.half
  /\ read' = Append(read, compute.seen \cup Seen(forwards[compute.done + 1], 2))
  /\ compute' = [done |-> compute.done + 1, half |-> FALSE, seen |-> {}]
  /\ UNCHANGED <<host, slab, ingress>>

-----------------------------------------------------------------------------

Next ==
  \/ \E c \in Capacity, b \in Bank, dummy \in BOOLEAN : Publish(c, b, dummy)
  \/ Prepare \/ Launch \/ LaunchFails
  \/ StartUpload \/ FinishUpload \/ StartForward \/ FinishForward

Spec == Init /\ [][Next]_vars

\* The device runs what its streams hold.  The host owes nothing.
FairSpec ==
  /\ Spec
  /\ WF_vars(StartUpload \/ FinishUpload)
  /\ WF_vars(StartForward \/ FinishForward)

-----------------------------------------------------------------------------
\* Properties.

TypeOK ==
  /\ runner \in [at : {"idle", "published", "prepared", "failed"},
                 wave : 0 .. MaxWaves, frame : SUBSET Frame]
  /\ nextBank \in Bank
  /\ source \in [Frame -> (0 .. MaxWaves) \X (0 .. MaxWaves)]
  /\ slab \in [Frame -> (0 .. MaxWaves) \X (0 .. MaxWaves)]
  /\ uploads \in Seq(Upload)
  /\ forwards \in Seq(Forward)
  /\ uploaded \in [Frame -> 0 .. Len(uploads)]
  /\ consumed \in [Frame -> 0 .. Len(forwards)]
  /\ ingress \in [done : 0 .. Len(uploads), half : BOOLEAN]
  /\ ingress.half => ingress.done < Len(uploads)
  /\ compute \in [done : 0 .. Len(forwards), half : BOOLEAN,
                  seen : SUBSET (0 .. MaxWaves)]
  /\ compute.half => compute.done < Len(forwards)
  /\ read \in Seq(SUBSET (0 .. MaxWaves))
  /\ Len(read) = compute.done

\* The host never writes into a pinned source that a copy still has to read:
\* what is on the ingress stream finds the wave it was put there for.
SourceKept ==
  \A i \in 1 .. Len(uploads) :
    i > ingress.done => source[uploads[i].frame] = Whole(uploads[i].wave)

\* No copy overwrites a device slab that a forward still has to read: once its
\* uploads are done, every forward on the compute stream finds its own wave,
\* until it has finished.
SlabKept ==
  \A j \in 1 .. Len(forwards) :
    j > compute.done /\ (\A n \in forwards[j].after : n <= ingress.done) =>
      \A f \in forwards[j].frames : slab[f] = Whole(j)

\* Every forward reads exactly the metadata of its wave, and each is reached:
\* ingress waits for compute, compute for ingress and the host for ingress,
\* and never in a circle.
Service == INSTANCE WaveMetadata WITH submitted <- Len(forwards)

OwnMetadata == Service!Spec

=============================================================================
