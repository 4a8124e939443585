-------------------------- MODULE FrameBanksProofs --------------------------
(***************************************************************************)
(* Proofs about FrameBanks, for every set of token capacities and every    *)
(* number of waves: the two fences hold, and every forward reads exactly   *)
(* the metadata of its own wave, in order.                                 *)
(***************************************************************************)
EXTENDS FrameBanks, TLAPS

-----------------------------------------------------------------------------
\* The inductive invariant.

\* Whether the runner has a wave whose forward it has not launched.
Busy == runner.at \in {"published", "prepared"}

\* Forward number j is that of wave j.
Numbered ==
  /\ runner.wave = Len(forwards) + (IF Busy THEN 1 ELSE 0)
  /\ Busy <=> runner.frame # {}

\* The runner's frames hold its wave.
RunnerHolds ==
  \A f \in runner.frame :
    /\ uploaded[f] \in 1 .. Len(uploads)
    /\ uploads[uploaded[f]].frame = f
    /\ uploads[uploaded[f]].wave = runner.wave

\* The event of a frame is that of its last upload, and the source still holds
\* what that upload copies.  At most one upload of a frame is under way.
LastUpload ==
  \A i \in 1 .. Len(uploads) :
    LET f == uploads[i].frame
    IN  /\ i <= uploaded[f]
        /\ i > ingress.done => uploaded[f] = i
        /\ uploaded[f] = i => source[f] = Whole(uploads[i].wave)

\* The event of a frame covers every wave that was put into it and launched.
Covered ==
  \A i \in 1 .. Len(uploads) :
    LET f == uploads[i].frame
    IN  /\ f \in runner.frame \/ uploads[i].wave <= Len(forwards)
        /\ \/ uploads[i].wave <= consumed[f]
           \/ uploads[i].wave = runner.wave /\ f \in runner.frame
           \/ runner.at = "failed"

\* So an upload waits for every wave that was in its frame before.
Ordered ==
  \A i, k \in 1 .. Len(uploads) :
    i < k /\ uploads[i].frame = uploads[k].frame => uploads[i].wave <= uploads[k].after

\* A forward waits for the upload of its wave to each of its frames.
Waits ==
  \A j \in 1 .. Len(forwards) :
    /\ forwards[j].frames # {}
    /\ \A f \in forwards[j].frames :
         \E n \in forwards[j].after :
           /\ n \in 1 .. Len(uploads)
           /\ uploads[n].frame = f /\ uploads[n].wave = j

\* The upload under way has waited.
Waited == ingress.half => uploads[ingress.done + 1].after <= compute.done

\* A slab holds what was uploaded to it for as long as a wave needs it.
SlabHolds ==
  \A i \in 1 .. Len(uploads) :
    LET f == uploads[i].frame
    IN  /\ i <= ingress.done /\ uploads[i].wave > compute.done
             => slab[f] = Whole(uploads[i].wave)
        /\ i = ingress.done + 1 /\ ingress.half => slab[f][1] = uploads[i].wave

\* The forward under way has waited, and has read its own wave so far.
Reading ==
  compute.half =>
    /\ \A n \in forwards[compute.done + 1].after : n <= ingress.done
    /\ compute.seen = {compute.done + 1}

\* What finished forwards read.
ReadOwn == \A j \in 1 .. Len(read) : read[j] = {j}

IInv ==
  /\ TypeOK
  /\ Numbered
  /\ RunnerHolds
  /\ LastUpload
  /\ Covered
  /\ Ordered
  /\ Waits
  /\ Waited
  /\ SlabHolds
  /\ Reading
  /\ ReadOwn

-----------------------------------------------------------------------------
\* What the helpers leave behind.

\* Putting wave w into frame f appends one upload and touches no other frame.
LEMMA PutFields ==
  ASSUME TypeOK, NEW f \in Frame, NEW w \in 1 .. MaxWaves, Put(f, w)
  PROVE  /\ uploads' \in Seq(Upload)
         /\ Len(uploads') = Len(uploads) + 1
         /\ \A i \in 1 .. Len(uploads) : uploads'[i] = uploads[i]
         /\ uploads'[Len(uploads) + 1] = [frame |-> f, wave |-> w, after |-> consumed[f]]
         /\ uploaded' \in [Frame -> 0 .. Len(uploads')]
         /\ uploaded'[f] = Len(uploads) + 1
         /\ \A g \in Frame : g # f => uploaded'[g] = uploaded[g]
         /\ source' \in [Frame -> (0 .. MaxWaves) \X (0 .. MaxWaves)]
         /\ source'[f] = Whole(w)
         /\ \A g \in Frame : g # f => source'[g] = source[g]
PROOF
  <1> DEFINE u == [frame |-> f, wave |-> w, after |-> consumed[f]]
  <1>1. /\ source' = [source EXCEPT ![f] = Whole(w)]
        /\ uploads' = Append(uploads, u)
        /\ uploaded' = [uploaded EXCEPT ![f] = Len(uploads) + 1]
    BY DEF Put, Consumer
  <1>2. u \in Upload
    BY DEF TypeOK, Upload
  <1>3. /\ uploads' \in Seq(Upload)
        /\ Len(uploads') = Len(uploads) + 1
        /\ \A i \in 1 .. Len(uploads) : uploads'[i] = uploads[i]
        /\ uploads'[Len(uploads) + 1] = u
    <2> HIDE DEF u
    <2> QED BY <1>1, <1>2 DEF TypeOK
  <1>4. /\ uploaded' \in [Frame -> 0 .. Len(uploads')]
        /\ uploaded'[f] = Len(uploads) + 1
        /\ \A g \in Frame : g # f => uploaded'[g] = uploaded[g]
    <2>1. Len(uploads) \in Nat /\ uploaded \in [Frame -> 0 .. Len(uploads)]
      BY DEF TypeOK
    <2> QED BY <1>1, <1>3, <2>1
  <1>5. Whole(w) \in (0 .. MaxWaves) \X (0 .. MaxWaves)
    BY BanksAssumption DEF Whole
  <1>6. /\ source' \in [Frame -> (0 .. MaxWaves) \X (0 .. MaxWaves)]
        /\ source'[f] = Whole(w)
        /\ \A g \in Frame : g # f => source'[g] = source[g]
    <2>1. source \in [Frame -> (0 .. MaxWaves) \X (0 .. MaxWaves)]
      BY DEF TypeOK
    <2> QED BY <1>1, <1>5, <2>1
  <1> QED BY <1>3, <1>4, <1>6

\* A copied half has what the source has, and nothing else changes.
LEMMA CopiedFields ==
  ASSUME TypeOK, NEW f \in Frame, NEW h \in {1, 2}, Copied(f, h)
  PROVE  /\ slab' \in [Frame -> (0 .. MaxWaves) \X (0 .. MaxWaves)]
         /\ slab'[f][h] = source[f][h]
         /\ \A k \in {1, 2} : k # h => slab'[f][k] = slab[f][k]
         /\ \A g \in Frame : g # f => slab'[g] = slab[g]
PROOF
  <1> DEFINE new == [slab[f] EXCEPT ![h] = source[f][h]]
  <1>1. slab' = [slab EXCEPT ![f] = new]
    BY DEF Copied
  <1>2. /\ slab[f] \in (0 .. MaxWaves) \X (0 .. MaxWaves)
        /\ source[f] \in (0 .. MaxWaves) \X (0 .. MaxWaves)
    BY DEF TypeOK
  <1>3. /\ new \in (0 .. MaxWaves) \X (0 .. MaxWaves)
        /\ new[h] = source[f][h]
        /\ \A k \in {1, 2} : k # h => new[k] = slab[f][k]
    <2>1. CASE h = 1
      BY <1>2, <2>1
    <2>2. CASE h = 2
      BY <1>2, <2>2
    <2> QED BY <2>1, <2>2
  <1>4. slab \in [Frame -> (0 .. MaxWaves) \X (0 .. MaxWaves)]
    BY DEF TypeOK
  <1> HIDE DEF new
  <1>5. slab'[f] = new /\ \A g \in Frame : g # f => slab'[g] = slab[g]
    BY <1>1, <1>4
  <1> QED BY <1>1, <1>3, <1>4, <1>5

\* An upload on the stream has its fields.
LEMMA UploadFields ==
  ASSUME NEW s \in Seq(Upload), NEW i \in 1 .. Len(s)
  PROVE  s[i].frame \in Frame /\ s[i].wave \in 1 .. MaxWaves /\ s[i].after \in Nat
PROOF
  <1>1. s[i] \in Upload
    OBVIOUS
  <1> QED BY <1>1 DEF Upload

\* So has a forward.
LEMMA ForwardFields ==
  ASSUME NEW s \in Seq(Forward), NEW j \in 1 .. Len(s)
  PROVE  s[j].frames \in SUBSET Frame /\ s[j].after \in SUBSET Nat
PROOF
  <1>1. s[j] \in Forward
    OBVIOUS
  <1> QED BY <1>1 DEF Forward

\* Positions of the two streams.
LEMMA Positions ==
  ASSUME TypeOK
  PROVE  /\ Len(uploads) \in Nat /\ Len(forwards) \in Nat
         /\ ingress.done \in 0 .. Len(uploads) /\ ingress.half \in BOOLEAN
         /\ compute.done \in 0 .. Len(forwards) /\ compute.half \in BOOLEAN
         /\ ingress.half => ingress.done + 1 \in 1 .. Len(uploads)
         /\ compute.half => compute.done + 1 \in 1 .. Len(forwards)
         /\ runner.wave \in 0 .. MaxWaves
         /\ runner.frame \in SUBSET Frame
         /\ \A f \in Frame : consumed[f] \in 0 .. Len(forwards)
BY BanksAssumption DEF TypeOK

-----------------------------------------------------------------------------
\* The host's steps.

\* Any upload that is put into a frame the runner does not hold yet, for the
\* wave it is about to launch.
LEMMA PutKeeps ==
  ASSUME IInv, NEW f \in Frame, NEW w \in 1 .. MaxWaves, Put(f, w),
         f \notin runner.frame, runner.at # "failed",
         w = Len(forwards) + 1, runner.frame = {} \/ runner.wave = w,
         runner' \in [at : {"idle", "published", "prepared", "failed"},
                      wave : 0 .. MaxWaves, frame : SUBSET Frame],
         runner'.at \in {"published", "prepared"}, runner'.wave = w,
         runner'.frame = runner.frame \cup {f}, nextBank' \in Bank,
         UNCHANGED <<consumed, forwards, device>>
  PROVE  IInv'
PROOF
  <1> DEFINE n == Len(uploads) + 1
  <1>1. TypeOK
    BY DEF IInv
  <1>2. /\ consumed' = consumed /\ forwards' = forwards /\ slab' = slab
        /\ ingress' = ingress /\ compute' = compute /\ read' = read
    BY DEF device
  <1>3. /\ uploads' \in Seq(Upload)
        /\ Len(uploads') = n
        /\ \A i \in 1 .. Len(uploads) : uploads'[i] = uploads[i]
        /\ uploads'[n].frame = f /\ uploads'[n].wave = w /\ uploads'[n].after = consumed[f]
        /\ uploaded' \in [Frame -> 0 .. Len(uploads')]
        /\ uploaded'[f] = n
        /\ \A g \in Frame : g # f => uploaded'[g] = uploaded[g]
        /\ source' \in [Frame -> (0 .. MaxWaves) \X (0 .. MaxWaves)]
        /\ source'[f] = Whole(w)
        /\ \A g \in Frame : g # f => source'[g] = source[g]
    <2>1. uploads'[n] = [frame |-> f, wave |-> w, after |-> consumed[f]]
      BY <1>1, PutFields
    <2>2. uploads'[n].frame = f /\ uploads'[n].wave = w /\ uploads'[n].after = consumed[f]
      BY <2>1
    <2> QED BY <1>1, <2>2, PutFields
  <1>4. /\ Len(uploads) \in Nat /\ Len(forwards) \in Nat
        /\ ingress.done \in 0 .. Len(uploads)
        /\ ingress.half => ingress.done + 1 \in 1 .. Len(uploads)
    BY <1>1, Positions
  <1>5. \A i \in 1 .. Len(uploads) : uploads[i].frame \in Frame /\ uploads[i].wave \in 1 .. MaxWaves
    BY <1>1, UploadFields DEF TypeOK
  <1>6. uploaded[f] \in Nat /\ uploaded[f] <= ingress.done
    BY <1>1 DEF Put, Reusable, TypeOK
  <1>7. \A i \in 1 .. n : i = n \/ i \in 1 .. Len(uploads)
    BY <1>4
  <1> HIDE DEF n
  <1>8. TypeOK'
    <2>1. /\ slab \in [Frame -> (0 .. MaxWaves) \X (0 .. MaxWaves)]
          /\ forwards \in Seq(Forward)
          /\ consumed \in [Frame -> 0 .. Len(forwards)]
          /\ compute \in [done : 0 .. Len(forwards), half : BOOLEAN,
                          seen : SUBSET (0 .. MaxWaves)]
          /\ compute.half => compute.done < Len(forwards)
          /\ read \in Seq(SUBSET (0 .. MaxWaves))
          /\ Len(read) = compute.done
      BY <1>1 DEF TypeOK
    <2>2. /\ ingress \in [done : 0 .. n, half : BOOLEAN]
          /\ ingress.half => ingress.done < n
      BY <1>1, <1>4 DEF TypeOK, n
    <2> QED BY <2>1, <2>2, <1>2, <1>3 DEF TypeOK
  <1>9. Numbered'
    BY <1>2 DEF Numbered, Busy
  <1>10. RunnerHolds'
    <2> SUFFICES ASSUME NEW g \in runner'.frame
                 PROVE  /\ uploaded'[g] \in 1 .. Len(uploads')
                        /\ uploads'[uploaded'[g]].frame = g
                        /\ uploads'[uploaded'[g]].wave = runner'.wave
      BY DEF RunnerHolds
    <2>1. CASE g = f
      BY <2>1, <1>3, <1>4 DEF n
    <2>2. CASE g # f
      <3>1. g \in runner.frame /\ g \in Frame /\ runner.wave = w
        BY <2>2, <1>1, Positions
      <3>2. /\ uploaded[g] \in 1 .. Len(uploads)
            /\ uploads[uploaded[g]].frame = g
            /\ uploads[uploaded[g]].wave = runner.wave
        BY <3>1 DEF IInv, RunnerHolds
      <3> QED BY <3>1, <3>2, <2>2, <1>3, <1>4 DEF n
    <2> QED BY <2>1, <2>2
  <1>11. LastUpload'
    <2> SUFFICES ASSUME NEW i \in 1 .. n
                 PROVE  LET g == uploads'[i].frame
                        IN  /\ i <= uploaded'[g]
                            /\ i > ingress.done => uploaded'[g] = i
                            /\ uploaded'[g] = i => source'[g] = Whole(uploads'[i].wave)
      BY <1>2, <1>3 DEF LastUpload
    <2>1. CASE i = n
      BY <2>1, <1>3, <1>4 DEF n
    <2>2. CASE i \in 1 .. Len(uploads)
      <3> DEFINE g == uploads[i].frame
      <3>1. /\ i <= uploaded[g]
            /\ i > ingress.done => uploaded[g] = i
            /\ uploaded[g] = i => source[g] = Whole(uploads[i].wave)
        BY <2>2 DEF IInv, LastUpload
      <3>2. uploads'[i] = uploads[i] /\ g \in Frame
        BY <2>2, <1>3, <1>5
      <3>3. CASE g = f
        <4>1. i <= ingress.done
          BY <3>3, <3>1, <1>4, <1>6
        <4> QED BY <4>1, <3>3, <3>2, <2>2, <1>3, <1>4 DEF n
      <3>4. CASE g # f
        BY <3>1, <3>2, <3>4, <1>3
      <3> QED BY <3>3, <3>4
    <2> QED BY <2>1, <2>2, <1>7
  <1>12. Covered'
    <2> SUFFICES ASSUME NEW i \in 1 .. n
                 PROVE  LET g == uploads'[i].frame
                        IN  /\ g \in runner'.frame \/ uploads'[i].wave <= Len(forwards)
                            /\ \/ uploads'[i].wave <= consumed[g]
                               \/ uploads'[i].wave = runner'.wave /\ g \in runner'.frame
      BY <1>2, <1>3 DEF Covered
    <2>1. CASE i = n
      BY <2>1, <1>3
    <2>2. CASE i \in 1 .. Len(uploads)
      BY <2>2, <1>3 DEF IInv, Covered
    <2> QED BY <2>1, <2>2, <1>7
  <1>13. Ordered'
    <2> SUFFICES ASSUME NEW i \in 1 .. n, NEW k \in 1 .. n,
                        i < k, uploads'[i].frame = uploads'[k].frame
                 PROVE  uploads'[i].wave <= uploads'[k].after
      BY <1>3 DEF Ordered
    <2>1. i \in 1 .. Len(uploads) /\ uploads'[i] = uploads[i]
      BY <1>3, <1>4 DEF n
    <2>2. CASE k = n
      <3>1. uploads[i].frame = f
        BY <2>1, <2>2, <1>3
      <3>2. uploads[i].wave <= consumed[f]
        BY <2>1, <3>1 DEF IInv, Covered
      <3> QED BY <2>1, <2>2, <3>2, <1>3
    <2>3. CASE k \in 1 .. Len(uploads)
      BY <2>1, <2>3, <1>3 DEF IInv, Ordered
    <2> QED BY <2>2, <2>3, <1>7
  <1>14. Waits'
    <2> SUFFICES ASSUME NEW j \in 1 .. Len(forwards)
                 PROVE  /\ forwards[j].frames # {}
                        /\ \A g \in forwards[j].frames :
                             \E m \in forwards[j].after :
                               /\ m \in 1 .. n
                               /\ uploads'[m].frame = g /\ uploads'[m].wave = j
      BY <1>2, <1>3 DEF Waits
    <2>1. /\ forwards[j].frames # {}
          /\ \A g \in forwards[j].frames :
               \E m \in forwards[j].after :
                 /\ m \in 1 .. Len(uploads)
                 /\ uploads[m].frame = g /\ uploads[m].wave = j
      BY DEF IInv, Waits
    <2>2. \A m \in 1 .. Len(uploads) : m \in 1 .. n /\ uploads'[m] = uploads[m]
      BY <1>3, <1>4 DEF n
    <2> QED BY <2>1, <2>2
  <1>15. Waited'
    BY <1>2, <1>3, <1>4 DEF IInv, Waited
  <1>16. SlabHolds'
    <2> SUFFICES ASSUME NEW i \in 1 .. n
                 PROVE  LET g == uploads'[i].frame
                        IN  /\ i <= ingress.done /\ uploads'[i].wave > compute.done
                                 => slab[g] = Whole(uploads'[i].wave)
                            /\ i = ingress.done + 1 /\ ingress.half
                                 => slab[g][1] = uploads'[i].wave
      BY <1>2, <1>3 DEF SlabHolds
    <2>1. CASE i = n
      BY <2>1, <1>4 DEF n
    <2>2. CASE i \in 1 .. Len(uploads)
      <3>1. LET g == uploads[i].frame
            IN  /\ i <= ingress.done /\ uploads[i].wave > compute.done
                     => slab[g] = Whole(uploads[i].wave)
                /\ i = ingress.done + 1 /\ ingress.half
                     => slab[g][1] = uploads[i].wave
        BY <2>2 DEF IInv, SlabHolds
      <3>2. uploads'[i] = uploads[i]
        BY <2>2, <1>3
      <3> QED BY <3>1, <3>2
    <2> QED BY <2>1, <2>2, <1>7
  <1>17. Reading' /\ ReadOwn'
    <2>1. Reading'
      BY <1>2 DEF IInv, Reading
    <2>2. ReadOwn'
      BY <1>2 DEF IInv, ReadOwn
    <2> QED BY <2>1, <2>2
  <1> QED BY <1>8, <1>9, <1>10, <1>11, <1>12, <1>13, <1>14, <1>15, <1>16, <1>17 DEF IInv

\* A wave is published into a frame of the bank.
LEMMA PublishKeeps ==
  ASSUME IInv, NEW c \in Capacity, NEW b \in Bank, NEW dummy \in BOOLEAN,
         Publish(c, b, dummy)
  PROVE  IInv'
PROOF
  <1> DEFINE f == <<"gdn", c, b>>
  <1>1. f \in Frame
    BY DEF Frame
  <1>2. /\ runner.at = "idle" /\ runner.wave < MaxWaves
        /\ Put(f, runner.wave + 1)
        /\ runner' = [at |-> "published", wave |-> runner.wave + 1, frame |-> {f}]
        /\ UNCHANGED <<consumed, forwards, device>>
    BY DEF Publish
  <1>3. TypeOK /\ Numbered
    BY DEF IInv
  <1>4. runner.frame = {} /\ runner.wave = Len(forwards) /\ runner.wave \in Nat
    BY <1>2, <1>3, Positions DEF Numbered, Busy
  <1>5. nextBank' \in Bank
    <2>1. nextBank' = IF dummy THEN nextBank ELSE 1 - b
      BY DEF Publish, Alternated
    <2> QED BY <2>1, <1>3 DEF TypeOK, Bank
  <1> HIDE DEF f
  <1> QED BY <1>1, <1>2, <1>4, <1>5, BanksAssumption, PutKeeps

\* The FIA frame of the same wave.
LEMMA PrepareKeeps ==
  ASSUME IInv, Prepare
  PROVE  IInv'
PROOF
  <1>1. PICK c \in Capacity, b \in Bank :
          /\ runner.frame = {<<"gdn", c, b>>}
          /\ Put(<<"fia", c, b>>, runner.wave)
          /\ runner' = [runner EXCEPT !.at = "prepared", !.frame = @ \cup {<<"fia", c, b>>}]
    BY DEF Prepare
  <1> DEFINE f == <<"fia", c, b>>
  <1>2. f \in Frame /\ f \notin runner.frame
    BY <1>1 DEF Frame
  <1>3. TypeOK /\ Numbered
    BY DEF IInv
  <1>4. runner.at = "published" /\ UNCHANGED <<nextBank, consumed, forwards, device>>
    BY DEF Prepare
  <1>5. /\ runner.wave = Len(forwards) + 1 /\ runner.wave \in 1 .. MaxWaves
        /\ nextBank' \in Bank
    BY <1>3, <1>4, Positions DEF Numbered, Busy, TypeOK
  <1>6. /\ runner' \in [at : {"idle", "published", "prepared", "failed"},
                        wave : 0 .. MaxWaves, frame : SUBSET Frame]
        /\ runner'.at = "prepared" /\ runner'.wave = runner.wave
        /\ runner'.frame = runner.frame \cup {f}
    <2> HIDE DEF f
    <2>1. runner \in [at : {"idle", "published", "prepared", "failed"},
                      wave : 0 .. MaxWaves, frame : SUBSET Frame]
      BY <1>3 DEF TypeOK
    <2>2. runner' = [runner EXCEPT !.at = "prepared", !.frame = @ \cup {f}]
      BY <1>1 DEF f
    <2> QED BY <2>1, <2>2, <1>2
  <1>7. Put(f, runner.wave)
    BY <1>1
  <1> HIDE DEF f
  <1> QED BY <1>2, <1>4, <1>5, <1>6, <1>7, PutKeeps

\* Launching the forward of the runner's wave, and releasing some of its
\* frames, all of them unless it failed.
LEMMA LaunchedKeeps ==
  ASSUME IInv, Busy, Launched, NEW R \in SUBSET runner.frame, Released(R),
         runner' \in [at : {"idle", "published", "prepared", "failed"},
                      wave : 0 .. MaxWaves, frame : SUBSET Frame],
         runner'.at = "failed" \/ (runner'.at = "idle" /\ R = runner.frame),
         runner'.wave = runner.wave, runner'.frame = {},
         UNCHANGED <<nextBank, source, uploaded, uploads, device>>
  PROVE  IInv'
PROOF
  <1> DEFINE n == Len(forwards) + 1
             w == [frames |-> runner.frame, after |-> {uploaded[f] : f \in runner.frame}]
  <1>1. TypeOK
    BY DEF IInv
  <1>2. /\ nextBank' = nextBank /\ source' = source /\ uploaded' = uploaded
        /\ uploads' = uploads /\ slab' = slab
        /\ ingress' = ingress /\ compute' = compute /\ read' = read
    BY DEF device
  <1>3. /\ Len(uploads) \in Nat /\ Len(forwards) \in Nat
        /\ compute.done \in 0 .. Len(forwards)
        /\ compute.half => compute.done + 1 \in 1 .. Len(forwards)
        /\ runner.frame \in SUBSET Frame
    BY <1>1, Positions
  <1>4. runner.wave = n /\ runner.frame # {}
    BY DEF IInv, Numbered, Busy
  <1>5. \A f \in runner.frame :
          /\ uploaded[f] \in 1 .. Len(uploads)
          /\ uploads[uploaded[f]].frame = f /\ uploads[uploaded[f]].wave = n
    BY <1>4 DEF IInv, RunnerHolds
  <1>6. w \in Forward
    BY <1>3, <1>5 DEF Forward
  <1>7. /\ forwards' \in Seq(Forward)
        /\ Len(forwards') = n
        /\ \A j \in 1 .. Len(forwards) : forwards'[j] = forwards[j]
        /\ forwards'[n] = w
    <2>1. forwards' = Append(forwards, w)
      BY DEF Launched
    <2> HIDE DEF w
    <2> QED BY <2>1, <1>1, <1>6 DEF TypeOK
  <1>8. \A j \in 1 .. n : j = n \/ j \in 1 .. Len(forwards)
    BY <1>3
  <1>9. /\ consumed' \in [Frame -> 0 .. n]
        /\ \A f \in R : consumed'[f] = n
        /\ \A f \in Frame \ R : consumed'[f] = consumed[f]
    <2>1. consumed \in [Frame -> 0 .. Len(forwards)]
      BY <1>1 DEF TypeOK
    <2> QED BY <2>1, <1>3 DEF Released
  <1>10. \A i \in 1 .. Len(uploads) : uploads[i].frame \in Frame /\ uploads[i].wave \in 1 .. MaxWaves
    BY <1>1, UploadFields DEF TypeOK
  <1> HIDE DEF n, w
  <1>11. TypeOK'
    <2>1. /\ nextBank \in Bank
          /\ source \in [Frame -> (0 .. MaxWaves) \X (0 .. MaxWaves)]
          /\ slab \in [Frame -> (0 .. MaxWaves) \X (0 .. MaxWaves)]
          /\ uploads \in Seq(Upload)
          /\ uploaded \in [Frame -> 0 .. Len(uploads)]
          /\ ingress \in [done : 0 .. Len(uploads), half : BOOLEAN]
          /\ ingress.half => ingress.done < Len(uploads)
          /\ read \in Seq(SUBSET (0 .. MaxWaves))
          /\ Len(read) = compute.done
      BY <1>1 DEF TypeOK
    <2>2. /\ compute \in [done : 0 .. n, half : BOOLEAN, seen : SUBSET (0 .. MaxWaves)]
          /\ compute.half => compute.done < n
      BY <1>1, <1>3 DEF TypeOK, n
    <2> QED BY <2>1, <2>2, <1>2, <1>7, <1>9 DEF TypeOK
  <1>12. Numbered'
    BY <1>4, <1>7 DEF Numbered, Busy
  <1>13. RunnerHolds'
    BY DEF RunnerHolds
  <1>14. LastUpload' /\ Ordered' /\ Waited' /\ SlabHolds' /\ ReadOwn'
    <2>1. LastUpload'
      BY <1>2 DEF IInv, LastUpload
    <2>2. Ordered'
      BY <1>2 DEF IInv, Ordered
    <2>3. Waited'
      BY <1>2 DEF IInv, Waited
    <2>4. SlabHolds'
      BY <1>2 DEF IInv, SlabHolds
    <2>5. ReadOwn'
      BY <1>2 DEF IInv, ReadOwn
    <2> QED BY <2>1, <2>2, <2>3, <2>4, <2>5
  <1>15. Covered'
    <2> SUFFICES ASSUME NEW i \in 1 .. Len(uploads)
                 PROVE  LET f == uploads[i].frame
                        IN  /\ uploads[i].wave <= n
                            /\ \/ uploads[i].wave <= consumed'[f]
                               \/ runner'.at = "failed"
      BY <1>2, <1>7 DEF Covered
    <2> DEFINE f == uploads[i].frame
    <2>1. /\ f \in runner.frame \/ uploads[i].wave <= Len(forwards)
          /\ \/ uploads[i].wave <= consumed[f]
             \/ uploads[i].wave = n /\ f \in runner.frame
      <3>1. runner.at # "failed"
        BY DEF Busy
      <3> QED BY <1>4, <3>1 DEF IInv, Covered
    <2>2. f \in Frame /\ uploads[i].wave \in Nat /\ consumed[f] \in 0 .. Len(forwards)
      BY <1>1, <1>10, Positions
    <2>3. uploads[i].wave <= n
      BY <2>1, <2>2, <1>3 DEF n
    <2>4. CASE f \in R
      BY <2>3, <2>4, <1>9
    <2>5. CASE f \notin R
      BY <2>1, <2>2, <2>3, <2>5, <1>9
    <2> QED BY <2>3, <2>4, <2>5
  <1>16. Waits'
    <2> SUFFICES ASSUME NEW j \in 1 .. n
                 PROVE  /\ forwards'[j].frames # {}
                        /\ \A f \in forwards'[j].frames :
                             \E m \in forwards'[j].after :
                               /\ m \in 1 .. Len(uploads)
                               /\ uploads[m].frame = f /\ uploads[m].wave = j
      BY <1>2, <1>7 DEF Waits
    <2>1. CASE j = n
      BY <2>1, <1>4, <1>5, <1>7 DEF w
    <2>2. CASE j \in 1 .. Len(forwards)
      <3>1. forwards'[j] = forwards[j]
        BY <2>2, <1>7
      <3> QED BY <2>2, <3>1 DEF IInv, Waits
    <2> QED BY <2>1, <2>2, <1>8
  <1>17. Reading'
    BY <1>2, <1>3, <1>7 DEF IInv, Reading
  <1> QED BY <1>11, <1>12, <1>13, <1>14, <1>15, <1>16, <1>17 DEF IInv

\* A forward that is launched, whole or in part.
LEMMA LaunchKeeps ==
  ASSUME IInv, Launch \/ LaunchFails
  PROVE  IInv'
PROOF
  <1>1. /\ Busy /\ Launched
        /\ UNCHANGED <<nextBank, source, uploaded, uploads, device>>
    BY DEF Launch, LaunchFails, Busy
  <1>2. /\ runner \in [at : {"idle", "published", "prepared", "failed"},
                       wave : 0 .. MaxWaves, frame : SUBSET Frame]
    BY DEF IInv, TypeOK
  <1>3. CASE Launch
    <2>1. /\ runner' = [runner EXCEPT !.at = "idle", !.frame = {}]
          /\ Released(runner.frame)
      BY <1>3 DEF Launch
    <2>2. /\ runner' \in [at : {"idle", "published", "prepared", "failed"},
                          wave : 0 .. MaxWaves, frame : SUBSET Frame]
          /\ runner'.at = "idle" /\ runner'.wave = runner.wave /\ runner'.frame = {}
      BY <1>2, <2>1
    <2> QED BY <1>1, <2>1, <2>2, LaunchedKeeps
  <1>4. CASE LaunchFails
    <2> DEFINE R == {f \in runner.frame : f[1] = "fia"}
    <2>1. /\ runner' = [runner EXCEPT !.at = "failed", !.frame = {}]
          /\ Released(R) /\ R \in SUBSET runner.frame
      BY <1>4 DEF LaunchFails
    <2> HIDE DEF R
    <2>2. /\ runner' \in [at : {"idle", "published", "prepared", "failed"},
                          wave : 0 .. MaxWaves, frame : SUBSET Frame]
          /\ runner'.at = "failed" /\ runner'.wave = runner.wave /\ runner'.frame = {}
      BY <1>2, <2>1
    <2> QED BY <1>1, <2>1, <2>2, LaunchedKeeps
  <1> QED BY <1>3, <1>4

-----------------------------------------------------------------------------
\* The device's steps.

\* What no device step changes.
LEMMA HostKept ==
  ASSUME IInv, UNCHANGED host
  PROVE  /\ runner' = runner /\ nextBank' = nextBank /\ source' = source
         /\ uploaded' = uploaded /\ consumed' = consumed
         /\ uploads' = uploads /\ forwards' = forwards
         /\ Numbered' /\ RunnerHolds' /\ Covered' /\ Ordered'
BY DEF IInv, host, Numbered, Busy, RunnerHolds, Covered, Ordered

\* Nothing of an earlier upload to the same frame is still needed when an
\* upload runs: its wave has been consumed.
LEMMA EarlierConsumed ==
  ASSUME IInv, ingress.done < Len(uploads),
         uploads[ingress.done + 1].after <= compute.done,
         NEW i \in 1 .. ingress.done,
         uploads[i].frame = uploads[ingress.done + 1].frame
  PROVE  uploads[i].wave <= compute.done
PROOF
  <1>1. TypeOK
    BY DEF IInv
  <1>2. /\ Len(uploads) \in Nat /\ ingress.done \in 0 .. Len(uploads)
        /\ compute.done \in Nat
    BY <1>1, Positions
  <1>3. /\ i \in 1 .. Len(uploads) /\ ingress.done + 1 \in 1 .. Len(uploads)
        /\ i < ingress.done + 1
    BY <1>2
  <1>4. uploads[i].wave <= uploads[ingress.done + 1].after
    BY <1>3 DEF IInv, Ordered
  <1>5. uploads \in Seq(Upload)
    BY <1>1 DEF TypeOK
  <1>6. uploads[i].wave \in Nat
    BY <1>3, <1>5, UploadFields, BanksAssumption
  <1>7. uploads[ingress.done + 1].after \in Nat
    BY <1>3, <1>5, UploadFields
  <1> QED BY <1>2, <1>4, <1>6, <1>7

\* The first half of a copy replaces only what is no longer needed.
LEMMA StartUploadKeeps ==
  ASSUME IInv, StartUpload
  PROVE  IInv'
PROOF
  <1> DEFINE d == ingress.done
             u == uploads[d + 1]
  <1>1. TypeOK
    BY DEF IInv
  <1>2. /\ ~ingress.half /\ d < Len(uploads)
        /\ u.after <= compute.done
        /\ Copied(u.frame, 1)
        /\ ingress' = [ingress EXCEPT !.half = TRUE]
        /\ UNCHANGED <<host, compute, read>>
    BY DEF StartUpload
  <1>3. /\ Len(uploads) \in Nat /\ d \in 0 .. Len(uploads) /\ compute.done \in Nat
        /\ d + 1 \in 1 .. Len(uploads)
    BY <1>1, <1>2, Positions
  <1>4. u.frame \in Frame
    BY <1>1, <1>3, UploadFields DEF TypeOK
  <1>5. /\ runner' = runner /\ nextBank' = nextBank /\ source' = source
        /\ uploaded' = uploaded /\ consumed' = consumed
        /\ uploads' = uploads /\ forwards' = forwards
        /\ compute' = compute /\ read' = read
        /\ Numbered' /\ RunnerHolds' /\ Covered' /\ Ordered'
    BY <1>2, HostKept
  <1>6. /\ ingress' \in [done : 0 .. Len(uploads), half : BOOLEAN]
        /\ ingress'.done = d /\ ingress'.half
    BY <1>1, <1>2 DEF TypeOK
  <1>7. /\ slab' \in [Frame -> (0 .. MaxWaves) \X (0 .. MaxWaves)]
        /\ slab'[u.frame][1] = source[u.frame][1]
        /\ \A g \in Frame : g # u.frame => slab'[g] = slab[g]
    <2> HIDE DEF u
    <2> QED BY <1>1, <1>2, <1>4, CopiedFields
  <1> HIDE DEF d, u
  <1>8. TypeOK'
    BY <1>1, <1>2, <1>5, <1>6, <1>7 DEF TypeOK
  <1>9. LastUpload' /\ Waits' /\ ReadOwn'
    <2>1. LastUpload'
      BY <1>5, <1>6 DEF IInv, LastUpload, d
    <2>2. Waits'
      BY <1>5, <1>6 DEF IInv, Waits, d
    <2>3. ReadOwn'
      BY <1>5, <1>6 DEF IInv, ReadOwn, d
    <2> QED BY <2>1, <2>2, <2>3
  <1>10. Waited'
    BY <1>2, <1>5, <1>6 DEF Waited, u
  <1>11. SlabHolds'
    <2> SUFFICES ASSUME NEW i \in 1 .. Len(uploads)
                 PROVE  LET f == uploads[i].frame
                        IN  /\ i <= d /\ uploads[i].wave > compute.done
                                 => slab'[f] = Whole(uploads[i].wave)
                            /\ i = d + 1 => slab'[f][1] = uploads[i].wave
      BY <1>5, <1>6 DEF SlabHolds
    <2> DEFINE f == uploads[i].frame
    <2>1. f \in Frame /\ uploads[i].wave \in Nat
      BY <1>1, UploadFields, BanksAssumption DEF TypeOK
    <2>2. ASSUME i <= d, uploads[i].wave > compute.done
          PROVE  slab'[f] = Whole(uploads[i].wave)
      <3>1. i \in 1 .. ingress.done
        BY <2>2, <1>3 DEF d
      <3>2. f # u.frame
        BY <3>1, <2>1, <2>2, <1>2, <1>3, EarlierConsumed DEF d, u
      <3>3. slab[f] = Whole(uploads[i].wave)
        BY <2>2 DEF IInv, SlabHolds, d
      <3> QED BY <3>2, <3>3, <2>1, <1>7
    <2>3. ASSUME i = d + 1
          PROVE  slab'[f][1] = uploads[i].wave
      <3>1. source[f] = Whole(uploads[i].wave)
        <4>1. i > ingress.done
          BY <2>3, <1>3 DEF d
        <4> QED BY <4>1 DEF IInv, LastUpload
      <3>2. source[f][1] = uploads[i].wave
        BY <3>1 DEF Whole
      <3> QED BY <3>2, <2>3, <1>7 DEF u
    <2> QED BY <2>2, <2>3
  <1>12. Reading'
    BY <1>5, <1>6 DEF IInv, Reading, d
  <1> QED BY <1>5, <1>8, <1>9, <1>10, <1>11, <1>12 DEF IInv

\* With the second half the slab holds the wave of the upload.
LEMMA FinishUploadKeeps ==
  ASSUME IInv, FinishUpload
  PROVE  IInv'
PROOF
  <1> DEFINE d == ingress.done
             u == uploads[d + 1]
  <1>1. TypeOK
    BY DEF IInv
  <1>2. /\ ingress.half
        /\ Copied(u.frame, 2)
        /\ ingress' = [done |-> d + 1, half |-> FALSE]
        /\ UNCHANGED <<host, compute, read>>
    BY DEF FinishUpload
  <1>3. /\ Len(uploads) \in Nat /\ d \in 0 .. Len(uploads) /\ compute.done \in Nat
        /\ d + 1 \in 1 .. Len(uploads)
    BY <1>1, <1>2, Positions
  <1>4. u.frame \in Frame
    BY <1>1, <1>3, UploadFields DEF TypeOK
  <1>5. /\ runner' = runner /\ nextBank' = nextBank /\ source' = source
        /\ uploaded' = uploaded /\ consumed' = consumed
        /\ uploads' = uploads /\ forwards' = forwards
        /\ compute' = compute /\ read' = read
        /\ Numbered' /\ RunnerHolds' /\ Covered' /\ Ordered'
    BY <1>2, HostKept
  <1>6. /\ ingress' \in [done : 0 .. Len(uploads), half : BOOLEAN]
        /\ ingress'.done = d + 1 /\ ~ingress'.half
    BY <1>2, <1>3
  <1>7. /\ slab' \in [Frame -> (0 .. MaxWaves) \X (0 .. MaxWaves)]
        /\ slab'[u.frame][2] = source[u.frame][2]
        /\ slab'[u.frame][1] = slab[u.frame][1]
        /\ \A g \in Frame : g # u.frame => slab'[g] = slab[g]
    <2> HIDE DEF u
    <2> QED BY <1>1, <1>2, <1>4, CopiedFields
  <1> HIDE DEF d, u
  <1>8. TypeOK'
    BY <1>1, <1>2, <1>5, <1>6, <1>7 DEF TypeOK
  <1>9. LastUpload'
    BY <1>3, <1>5, <1>6 DEF IInv, LastUpload, d
  <1>10. Waits' /\ Waited' /\ ReadOwn'
    <2>1. Waits'
      BY <1>5, <1>6 DEF IInv, Waits
    <2>2. Waited'
      BY <1>5, <1>6 DEF IInv, Waited
    <2>3. ReadOwn'
      BY <1>5, <1>6 DEF IInv, ReadOwn
    <2> QED BY <2>1, <2>2, <2>3
  <1>11. SlabHolds'
    <2> SUFFICES ASSUME NEW i \in 1 .. Len(uploads),
                        i <= d + 1, uploads[i].wave > compute.done
                 PROVE  slab'[uploads[i].frame] = Whole(uploads[i].wave)
      BY <1>5, <1>6 DEF SlabHolds
    <2> DEFINE f == uploads[i].frame
    <2>1. f \in Frame /\ uploads[i].wave \in Nat
      BY <1>1, UploadFields, BanksAssumption DEF TypeOK
    <2>2. CASE i <= d
      <3>1. i \in 1 .. ingress.done
        BY <2>2, <1>3 DEF d
      <3>2. u.after <= compute.done
        BY <1>2 DEF IInv, Waited, d, u
      <3>3. f # u.frame
        BY <3>1, <3>2, <2>1, <1>3, EarlierConsumed DEF d, u
      <3>4. slab[f] = Whole(uploads[i].wave)
        BY <2>2 DEF IInv, SlabHolds, d
      <3> QED BY <3>3, <3>4, <2>1, <1>7
    <2>3. CASE i = d + 1
      <3>1. source[f] = Whole(uploads[i].wave)
        <4>1. i > ingress.done
          BY <2>3, <1>3 DEF d
        <4> QED BY <4>1 DEF IInv, LastUpload
      <3>2. source[f][2] = uploads[i].wave
        BY <3>1 DEF Whole
      <3>3. slab[f][1] = uploads[i].wave
        BY <2>3, <1>2 DEF IInv, SlabHolds, d
      <3>4. slab'[f][1] = uploads[i].wave /\ slab'[f][2] = uploads[i].wave
        BY <3>2, <3>3, <2>3, <1>7 DEF u
      <3>5. slab'[f] \in (0 .. MaxWaves) \X (0 .. MaxWaves)
        BY <2>1, <1>7
      <3> QED BY <3>4, <3>5 DEF Whole
    <2> QED BY <2>2, <2>3, <1>3
  <1>12. Reading'
    <2>1. ASSUME compute.half, NEW n \in forwards[compute.done + 1].after
          PROVE  n <= d + 1
      <3>1. n <= d
        BY <2>1 DEF IInv, Reading, d
      <3>2. n \in Nat
        <4>1. compute.done + 1 \in 1 .. Len(forwards)
          BY <2>1, <1>1, Positions
        <4> QED BY <2>1, <4>1, <1>1, ForwardFields DEF TypeOK
      <3> QED BY <3>1, <3>2, <1>3
    <2> QED BY <2>1, <1>5, <1>6 DEF IInv, Reading
  <1> QED BY <1>5, <1>8, <1>9, <1>10, <1>11, <1>12 DEF IInv

\* Once its uploads are done, a forward that has not finished finds its own
\* wave in each of its slabs.
LEMMA HeldForForward ==
  ASSUME IInv, NEW j \in 1 .. Len(forwards), j > compute.done,
         \A n \in forwards[j].after : n <= ingress.done
  PROVE  forwards[j].frames # {} /\ \A f \in forwards[j].frames : slab[f] = Whole(j)
PROOF
  <1>1. forwards[j].frames # {}
    BY DEF IInv, Waits
  <1>2. ASSUME NEW f \in forwards[j].frames
        PROVE  slab[f] = Whole(j)
    <2>1. PICK n \in forwards[j].after :
            n \in 1 .. Len(uploads) /\ uploads[n].frame = f /\ uploads[n].wave = j
      BY <1>2 DEF IInv, Waits
    <2>2. n <= ingress.done
      BY <2>1
    <2> QED BY <2>1, <2>2 DEF IInv, SlabHolds
  <1> QED BY <1>1, <1>2

\* A launched wave is one of the waves.
LEMMA WavesBounded ==
  ASSUME IInv, NEW j \in 1 .. Len(forwards)
  PROVE  j \in 0 .. MaxWaves
PROOF
  <1>1. TypeOK /\ Numbered
    BY DEF IInv
  <1>2. /\ Len(forwards) \in Nat /\ runner.wave \in 0 .. MaxWaves
    BY <1>1, Positions
  <1>3. Len(forwards) <= runner.wave
    BY <1>1, <1>2 DEF Numbered
  <1> QED BY <1>2, <1>3, BanksAssumption

\* A forward reads the first half of its own wave,
LEMMA StartForwardKeeps ==
  ASSUME IInv, StartForward
  PROVE  IInv'
PROOF
  <1> DEFINE j == compute.done + 1
             w == forwards[j]
  <1>1. TypeOK
    BY DEF IInv
  <1>2. /\ ~compute.half /\ compute.done < Len(forwards)
        /\ \A n \in w.after : n <= ingress.done
        /\ compute' = [compute EXCEPT !.half = TRUE, !.seen = Seen(w, 1)]
        /\ UNCHANGED <<host, slab, ingress, read>>
    BY DEF StartForward
  <1>3. /\ Len(forwards) \in Nat /\ compute.done \in Nat
        /\ j \in 1 .. Len(forwards)
    BY <1>1, <1>2, Positions
  <1>4. /\ runner' = runner /\ nextBank' = nextBank /\ source' = source
        /\ uploaded' = uploaded /\ consumed' = consumed
        /\ uploads' = uploads /\ forwards' = forwards
        /\ slab' = slab /\ ingress' = ingress /\ read' = read
        /\ Numbered' /\ RunnerHolds' /\ Covered' /\ Ordered'
    BY <1>2, HostKept
  <1>5. w.frames # {} /\ \A f \in w.frames : slab[f] = Whole(j)
    BY <1>2, <1>3, HeldForForward
  <1>6. Seen(w, 1) = {j}
    BY <1>5 DEF Seen, Whole
  <1> HIDE DEF j, w
  <1>7. /\ compute' \in [done : 0 .. Len(forwards), half : BOOLEAN,
                         seen : SUBSET (0 .. MaxWaves)]
        /\ compute'.done = compute.done /\ compute'.half /\ compute'.seen = {j}
    <2>1. j \in 0 .. MaxWaves
      BY <1>3, WavesBounded DEF j
    <2> QED BY <2>1, <1>1, <1>2, <1>6 DEF TypeOK
  <1>8. TypeOK'
    BY <1>1, <1>2, <1>4, <1>7 DEF TypeOK
  <1>9. LastUpload' /\ Waits' /\ Waited' /\ SlabHolds' /\ ReadOwn'
    <2>1. LastUpload'
      BY <1>4, <1>7 DEF IInv, LastUpload
    <2>2. Waits'
      BY <1>4, <1>7 DEF IInv, Waits
    <2>3. Waited'
      BY <1>4, <1>7 DEF IInv, Waited
    <2>4. SlabHolds'
      BY <1>4, <1>7 DEF IInv, SlabHolds
    <2>5. ReadOwn'
      BY <1>4, <1>7 DEF IInv, ReadOwn
    <2> QED BY <2>1, <2>2, <2>3, <2>4, <2>5
  <1>10. Reading'
    BY <1>2, <1>4, <1>7 DEF Reading, j, w
  <1> QED BY <1>4, <1>8, <1>9, <1>10 DEF IInv

\* and the second.
LEMMA FinishForwardKeeps ==
  ASSUME IInv, FinishForward
  PROVE  IInv' /\ read' = Append(read, {compute.done + 1})
PROOF
  <1> DEFINE j == compute.done + 1
             w == forwards[j]
  <1>1. TypeOK
    BY DEF IInv
  <1>2. /\ compute.half
        /\ read' = Append(read, compute.seen \cup Seen(w, 2))
        /\ compute' = [done |-> j, half |-> FALSE, seen |-> {}]
        /\ UNCHANGED <<host, slab, ingress>>
    BY DEF FinishForward
  <1>3. /\ Len(forwards) \in Nat /\ compute.done \in Nat
        /\ j \in 1 .. Len(forwards)
    BY <1>1, <1>2, Positions
  <1>4. /\ runner' = runner /\ nextBank' = nextBank /\ source' = source
        /\ uploaded' = uploaded /\ consumed' = consumed
        /\ uploads' = uploads /\ forwards' = forwards
        /\ slab' = slab /\ ingress' = ingress
        /\ Numbered' /\ RunnerHolds' /\ Covered' /\ Ordered'
    BY <1>2, HostKept
  <1>5. compute.seen = {j} /\ \A n \in w.after : n <= ingress.done
    BY <1>2 DEF IInv, Reading
  <1>6. w.frames # {} /\ \A f \in w.frames : slab[f] = Whole(j)
    BY <1>3, <1>5, HeldForForward
  <1>7. Seen(w, 2) = {j}
    BY <1>6 DEF Seen, Whole
  <1>8. read' = Append(read, {j})
    BY <1>2, <1>5, <1>7
  <1>9. j \in 0 .. MaxWaves
    BY <1>3, WavesBounded
  <1>10. read \in Seq(SUBSET (0 .. MaxWaves)) /\ Len(read) = compute.done
    BY <1>1 DEF TypeOK
  <1>11. /\ read' \in Seq(SUBSET (0 .. MaxWaves)) /\ Len(read') = j
         /\ \A k \in 1 .. Len(read) : read'[k] = read[k]
         /\ read'[j] = {j}
    <2>1. {j} \in SUBSET (0 .. MaxWaves)
      BY <1>9
    <2> QED BY <2>1, <1>8, <1>10
  <1> HIDE DEF j, w
  <1>12. /\ compute' \in [done : 0 .. Len(forwards), half : BOOLEAN,
                          seen : SUBSET (0 .. MaxWaves)]
         /\ compute'.done = j /\ ~compute'.half
    BY <1>2, <1>3
  <1>13. TypeOK'
    BY <1>1, <1>4, <1>11, <1>12 DEF TypeOK
  <1>14. LastUpload' /\ Waits' /\ Reading'
    <2>1. LastUpload'
      BY <1>4, <1>12 DEF IInv, LastUpload
    <2>2. Waits'
      BY <1>4, <1>12 DEF IInv, Waits
    <2>3. Reading'
      BY <1>4, <1>12 DEF IInv, Reading
    <2> QED BY <2>1, <2>2, <2>3
  <1>15. Waited'
    <2>1. ASSUME ingress.half
          PROVE  uploads[ingress.done + 1].after <= j
      <3>1. uploads[ingress.done + 1].after <= compute.done
        BY <2>1 DEF IInv, Waited
      <3>2. uploads \in Seq(Upload) /\ ingress.done + 1 \in 1 .. Len(uploads)
        BY <2>1, <1>1, Positions DEF TypeOK
      <3>3. uploads[ingress.done + 1].after \in Nat
        BY <3>2, UploadFields
      <3> QED BY <3>1, <3>3, <1>3 DEF j
    <2> QED BY <2>1, <1>4, <1>12 DEF Waited
  <1>16. SlabHolds'
    <2> SUFFICES ASSUME NEW i \in 1 .. Len(uploads)
                 PROVE  LET f == uploads[i].frame
                        IN  /\ i <= ingress.done /\ uploads[i].wave > j
                                 => slab[f] = Whole(uploads[i].wave)
                            /\ i = ingress.done + 1 /\ ingress.half
                                 => slab[f][1] = uploads[i].wave
      BY <1>4, <1>12 DEF SlabHolds
    <2>1. uploads[i].wave \in Nat
      BY <1>1, UploadFields, BanksAssumption DEF TypeOK
    <2>2. uploads[i].wave > j => uploads[i].wave > compute.done
      BY <2>1, <1>3 DEF j
    <2> QED BY <2>2 DEF IInv, SlabHolds
  <1>17. ReadOwn'
    <2> SUFFICES ASSUME NEW k \in 1 .. j
                 PROVE  read'[k] = {k}
      BY <1>11 DEF ReadOwn
    <2>1. k = j \/ k \in 1 .. Len(read)
      BY <1>3, <1>10 DEF j
    <2> QED BY <2>1, <1>11 DEF IInv, ReadOwn
  <1> QED BY <1>4, <1>8, <1>13, <1>14, <1>15, <1>16, <1>17 DEF IInv, j

-----------------------------------------------------------------------------
\* The theorems.

\* Nothing is put on the streams at first.
LEMMA InitKeeps == Init => IInv
PROOF
  <1> SUFFICES ASSUME Init PROVE IInv
    OBVIOUS
  <1>1. /\ runner = [at |-> "idle", wave |-> 0, frame |-> {}]
        /\ nextBank = 0 /\ uploads = <<>> /\ forwards = <<>> /\ read = <<>>
        /\ source = [f \in Frame |-> Whole(0)] /\ slab = [f \in Frame |-> Whole(0)]
        /\ uploaded = [f \in Frame |-> 0] /\ consumed = [f \in Frame |-> 0]
        /\ ingress = [done |-> 0, half |-> FALSE]
        /\ compute = [done |-> 0, half |-> FALSE, seen |-> {}]
    BY DEF Init
  <1>2. /\ Len(uploads) = 0 /\ Len(forwards) = 0 /\ Len(read) = 0
        /\ uploads \in Seq(Upload) /\ forwards \in Seq(Forward)
        /\ read \in Seq(SUBSET (0 .. MaxWaves))
    BY <1>1
  <1>3. Whole(0) \in (0 .. MaxWaves) \X (0 .. MaxWaves)
    BY BanksAssumption DEF Whole
  <1>4. /\ source \in [Frame -> (0 .. MaxWaves) \X (0 .. MaxWaves)]
        /\ slab \in [Frame -> (0 .. MaxWaves) \X (0 .. MaxWaves)]
        /\ uploaded \in [Frame -> 0 .. 0] /\ consumed \in [Frame -> 0 .. 0]
    BY <1>1, <1>3
  <1>5. /\ runner \in [at : {"idle", "published", "prepared", "failed"},
                       wave : 0 .. MaxWaves, frame : SUBSET Frame]
        /\ nextBank \in Bank
        /\ ingress \in [done : 0 .. 0, half : BOOLEAN] /\ ~ingress.half
        /\ compute \in [done : 0 .. 0, half : BOOLEAN, seen : SUBSET (0 .. MaxWaves)]
        /\ ~compute.half /\ compute.done = 0
    BY <1>1, BanksAssumption DEF Bank
  <1>6. TypeOK
    BY <1>2, <1>4, <1>5 DEF TypeOK
  <1>7. Numbered /\ RunnerHolds
    BY <1>1, <1>2 DEF Numbered, RunnerHolds, Busy
  <1>8. LastUpload /\ Covered /\ Ordered /\ Waits /\ SlabHolds /\ ReadOwn
    BY <1>2 DEF LastUpload, Covered, Ordered, Waits, SlabHolds, ReadOwn
  <1>9. Waited /\ Reading
    BY <1>5 DEF Waited, Reading
  <1> QED BY <1>6, <1>7, <1>8, <1>9 DEF IInv

\* Every step keeps the invariant.
LEMMA NextKeeps == IInv /\ [Next]_vars => IInv'
PROOF
  <1> SUFFICES ASSUME IInv, [Next]_vars PROVE IInv'
    OBVIOUS
  <1>1. ASSUME NEW c \in Capacity, NEW b \in Bank, NEW dummy \in BOOLEAN,
               Publish(c, b, dummy)
        PROVE  IInv'
    BY <1>1, PublishKeeps
  <1>2. CASE Prepare
    BY <1>2, PrepareKeeps
  <1>3. CASE Launch \/ LaunchFails
    BY <1>3, LaunchKeeps
  <1>4. CASE StartUpload
    BY <1>4, StartUploadKeeps
  <1>5. CASE FinishUpload
    BY <1>5, FinishUploadKeeps
  <1>6. CASE StartForward
    BY <1>6, StartForwardKeeps
  <1>7. CASE FinishForward
    BY <1>7, FinishForwardKeeps
  <1>8. CASE UNCHANGED vars
    <2>1. /\ UNCHANGED host
          /\ slab' = slab /\ ingress' = ingress /\ compute' = compute /\ read' = read
      BY <1>8 DEF vars, device
    <2>2. /\ runner' = runner /\ nextBank' = nextBank /\ source' = source
          /\ uploaded' = uploaded /\ consumed' = consumed
          /\ uploads' = uploads /\ forwards' = forwards
          /\ Numbered' /\ RunnerHolds' /\ Covered' /\ Ordered'
      BY <2>1, HostKept
    <2>3. TypeOK'
      BY <2>1, <2>2 DEF IInv, TypeOK
    <2>4. LastUpload'
      BY <2>1, <2>2 DEF IInv, LastUpload
    <2>5. Waits'
      BY <2>1, <2>2 DEF IInv, Waits
    <2>6. Waited'
      BY <2>1, <2>2 DEF IInv, Waited
    <2>7. SlabHolds'
      BY <2>1, <2>2 DEF IInv, SlabHolds
    <2>8. Reading'
      BY <2>1, <2>2 DEF IInv, Reading
    <2>9. ReadOwn'
      BY <2>1, <2>2 DEF IInv, ReadOwn
    <2> QED BY <2>2, <2>3, <2>4, <2>5, <2>6, <2>7, <2>8, <2>9 DEF IInv
  <1> QED BY <1>1, <1>2, <1>3, <1>4, <1>5, <1>6, <1>7, <1>8 DEF Next

\* So it holds throughout.
LEMMA Inductive == Spec => []IInv
BY InitKeeps, NextKeeps, PTL DEF Spec

\* The publication keeps its types: every event names work of its stream, and
\* the bank alternates between two.
THEOREM TypeCorrect == Spec => []TypeOK
PROOF
  <1>1. IInv => TypeOK
    BY DEF IInv
  <1> QED BY <1>1, Inductive, PTL

\* The host-DMA fence is enough: no pinned source is rewritten under a copy.
THEOREM SourceIsKept == Spec => []SourceKept
PROOF
  <1>1. IInv => SourceKept
    BY DEF IInv, LastUpload, SourceKept
  <1> QED BY <1>1, Inductive, PTL

\* The device-reader fence is enough: no slab is overwritten under a forward,
\* even after a forward that failed half-way.
THEOREM SlabIsKept == Spec => []SlabKept
PROOF
  <1>1. IInv => SlabKept
    BY HeldForForward DEF SlabKept
  <1> QED BY <1>1, Inductive, PTL

\* Every step of the runner and of the two streams is a step of the abstract
\* publication or leaves it alone: waves are submitted one by one, and the
\* next one to finish reads its own metadata and no other.
THEOREM ReadsItsOwn == Spec => Service!Init /\ [][Service!Next]_Service!vars
PROOF
  <1>1. Init => Service!Init
    BY DEF Init, Service!Init
  <1>2. ASSUME IInv, [Next]_vars
        PROVE  [Service!Next]_Service!vars
    <2>1. TypeOK
      BY <1>2 DEF IInv
    <2>2. ASSUME Launched, read' = read
          PROVE  Service!Submit
      <3>1. Len(forwards') = Len(forwards) + 1
        BY <2>1, <2>2 DEF Launched, TypeOK
      <3> QED BY <3>1, <2>2 DEF Service!Submit
    <2>3. ASSUME UNCHANGED <<forwards, read>>
          PROVE  UNCHANGED Service!vars
      BY <2>3 DEF Service!vars
    <2>4. ASSUME NEW c \in Capacity, NEW b \in Bank, NEW dummy \in BOOLEAN,
                 Publish(c, b, dummy)
          PROVE  UNCHANGED Service!vars
      BY <2>3, <2>4 DEF Publish, device
    <2>5. CASE Prepare
      BY <2>3, <2>5 DEF Prepare, device
    <2>6. CASE Launch \/ LaunchFails
      BY <2>2, <2>6 DEF Launch, LaunchFails, device, Service!Next
    <2>7. CASE StartUpload \/ FinishUpload \/ StartForward
      BY <2>3, <2>7 DEF StartUpload, FinishUpload, StartForward, host
    <2>8. CASE FinishForward
      <3>1. /\ read' = Append(read, {compute.done + 1}) /\ forwards' = forwards
            /\ compute.half
        BY <1>2, <2>8, FinishForwardKeeps DEF FinishForward, host
      <3>2. Len(read) = compute.done /\ compute.done < Len(forwards)
        BY <2>1, <3>1 DEF TypeOK
      <3> QED BY <3>1, <3>2 DEF Service!Next, Service!Finish
    <2>9. CASE UNCHANGED vars
      BY <2>3, <2>9 DEF vars, host, device
    <2> QED BY <1>2, <2>4, <2>5, <2>6, <2>7, <2>8, <2>9 DEF Next
  <1> QED BY <1>1, <1>2, Inductive, PTL DEF Spec

=============================================================================
