--------------------------- MODULE HostStateProofs ---------------------------
(***************************************************************************)
(* Proofs about HostState, for every set of requests and blocks, every     *)
(* budget and any number of transfers: no State is lost, no completion is  *)
(* refused, and what is committed stays within the budget.                 *)
(***************************************************************************)
EXTENDS HostState, FiniteSetTheorems, FunctionTheorems, TLAPS

-----------------------------------------------------------------------------
\* The inductive invariant.

ActivePhase == {"admitted", "enqueued", "copied"}
Phases == ActivePhase \cup {"orphaned", "raised", "terminal"}

Active == {h \in Handle : transfer[h].phase \in ActivePhase}

\* Restores whose copies may still write their destination.
Writing == {h \in Handle : transfer[h].restore
                           /\ transfer[h].phase \in ActivePhase \cup {"orphaned"}}

Transfer(n) == [key : Key, block : Block, restore : BOOLEAN, payload : 1..n, phase : Phases]

TypeOK ==
  /\ \E n \in Nat : transfer \in [1..n -> Transfer(n)]
  /\ DOMAIN payload = Handle
  /\ DOMAIN snapshots \subseteq Key
  /\ \A k \in DOMAIN snapshots : snapshots[k] \in [payload : Handle, pins : Nat]
  /\ inflight \subseteq Key
  /\ DOMAIN block = Block
  /\ lease \in [Key -> Block \cup {NoBlock}]
  /\ version \in [Key -> Nat]

\* A key is in flight for at most one transfer.
OneTransfer ==
  /\ \A h \in Active : transfer[h].key \in inflight
  /\ \A h, i \in Active : transfer[h].key = transfer[i].key => h = i

\* An offload in flight has no snapshot yet, a restore has the one it reads,
\* pinned, and its request computes nowhere.
Endpoints ==
  \A h \in Active :
    LET t == transfer[h] IN
    IF t.restore
    THEN /\ t.key \in DOMAIN snapshots /\ lease[t.key] = NoBlock
         /\ snapshots[t.key].payload = t.payload /\ snapshots[t.key].pins > 0
    ELSE t.key \notin DOMAIN snapshots

\* The payload of a snapshot is that of a finished offload: no copy writes it.
Published ==
  \A k \in DOMAIN snapshots :
    LET t == transfer[snapshots[k].payload]
    IN  t.key = k /\ ~t.restore /\ t.phase = "terminal"

\* Nobody else is in the blocks of a request, nor of a restore that may write.
Exclusive ==
  /\ \A j, k \in Key : lease[j] = lease[k] /\ lease[j] # NoBlock => j = k
  /\ \A h \in Writing : \A k \in Key : lease[k] # transfer[h].block
  /\ \A h, i \in Writing : transfer[h].block = transfer[i].block => h = i

\* Only a request that has begun has State anywhere.
Begun ==
  /\ \A k \in Key : lease[k] # NoBlock => version[k] > 0
  /\ \A h \in Handle : version[transfer[h].key] > 0

\* A restore whose copies are done has the newest State at its destination.
Restored ==
  \A h \in Active :
    LET t == transfer[h]
    IN  t.restore /\ t.phase = "copied" => block[t.block] = <<t.key, version[t.key]>>

IInv ==
  /\ TypeOK /\ OneTransfer /\ Endpoints /\ Published /\ Exclusive /\ Begun
  /\ Restored /\ NothingLost

-----------------------------------------------------------------------------
\* Handles are numbered from one.

LEMMA HandlesNumbered ==
  ASSUME TypeOK
  PROVE  /\ Cardinality(Handle) \in Nat
         /\ Handle = 1..Cardinality(Handle)
         /\ transfer \in [Handle -> Transfer(Cardinality(Handle))]
<1>1. PICK n \in Nat : transfer \in [1..n -> Transfer(n)]
  BY DEF TypeOK, Transfer
<1>2. Handle = 1..n
  BY <1>1 DEF Handle
<1>3. Cardinality(1..n) = n
  BY <1>1, FS_Interval
<1> QED BY <1>1, <1>2, <1>3

LEMMA NextHandle ==
  ASSUME NEW n \in Nat \ {0}, NEW H, H = 1..(n - 1)
  PROVE  /\ n \in 1..n /\ n \notin H /\ 1..n = H \cup {n}
         /\ \A h \in H : h \in 1..(n - 1)
OBVIOUS

\* What a new transfer leaves behind.
NewHandle == Cardinality(Handle) + 1

LEMMA StartedFields ==
  ASSUME TypeOK, NEW k \in Key, NEW b \in Block, NEW restore \in BOOLEAN,
         NEW source \in 1..NewHandle, Started(k, b, restore, source)
  PROVE  /\ NewHandle \in Nat /\ NewHandle \notin Handle
         /\ Handle' = Handle \cup {NewHandle} /\ Handle' = 1..NewHandle
         /\ transfer' \in [1..NewHandle -> Transfer(NewHandle)]
         /\ \A h \in Handle : transfer'[h] = transfer[h]
         /\ transfer'[NewHandle].key = k /\ transfer'[NewHandle].block = b
         /\ transfer'[NewHandle].restore = restore /\ transfer'[NewHandle].payload = source
         /\ transfer'[NewHandle].phase = "admitted"
         /\ inflight' = inflight \cup {k}
<1> DEFINE n == NewHandle
<1>1. /\ n \in Nat \ {0} /\ Handle = 1..(n - 1)
      /\ transfer \in [1..(n - 1) -> Transfer(n - 1)]
  BY HandlesNumbered DEF NewHandle
<1> HIDE DEF n
<1>0. /\ n \in 1..n /\ n \notin Handle /\ 1..n = Handle \cup {n}
      /\ \A h \in Handle : h \in 1..(n - 1)
  BY <1>1, NextHandle
<1>2. transfer' = [h \in 1..n |->
                     IF h \in Handle THEN transfer[h]
                     ELSE [key |-> k, block |-> b, restore |-> restore,
                           payload |-> source, phase |-> "admitted"]]
  BY DEF Started, n, NewHandle
<1>3. Handle' = 1..n
  BY <1>2 DEF Handle
<1>4. \A h \in Handle : transfer'[h] = transfer[h] /\ transfer'[h] \in Transfer(n)
  <2> TAKE h \in Handle
  <2>1. h \in 1..(n - 1) /\ h \in 1..n
    BY <1>0
  <2>2. transfer'[h] = transfer[h]
    BY <1>2, <2>1
  <2>3. transfer[h] \in Transfer(n - 1)
    BY <1>1, <2>1
  <2>4. transfer[h].payload \in 1..n
    BY <1>1, <2>3 DEF Transfer
  <2>5. transfer[h] \in Transfer(n)
    BY <2>3, <2>4 DEF Transfer
  <2> QED BY <2>2, <2>5
<1>5. /\ transfer'[n] = [key |-> k, block |-> b, restore |-> restore,
                         payload |-> source, phase |-> "admitted"]
      /\ transfer'[n] \in Transfer(n)
  <2>1. n \in 1..n /\ n \notin Handle
    BY <1>0
  <2>2. transfer'[n] = [key |-> k, block |-> b, restore |-> restore,
                        payload |-> source, phase |-> "admitted"]
    BY <1>2, <2>1
  <2>3. "admitted" \in Phases
    BY DEF Phases, ActivePhase
  <2>4. source \in 1..n
    BY DEF n
  <2> QED BY <2>2, <2>3, <2>4 DEF Transfer
<1>6. transfer' \in [1..n -> Transfer(n)]
  <2>1. \A h \in 1..n : h \in Handle \/ h = n
    BY <1>0
  <2>2. \A h \in 1..n : transfer'[h] \in Transfer(n)
    BY <2>1, <1>4, <1>5
  <2>3. transfer' = [h \in 1..n |-> transfer'[h]]
    BY <1>2
  <2> QED BY <2>2, <2>3
<1>7. n \in Nat /\ n \notin Handle /\ Handle' = Handle \cup {n}
  BY <1>0, <1>1, <1>3
<1>8. inflight' = inflight \cup {k}
  BY DEF Started
<1> QED BY <1>3, <1>4, <1>5, <1>6, <1>7, <1>8 DEF n

\* What a transfer that moves to another phase leaves behind.
LEMMA PhaseFields ==
  ASSUME TypeOK, NEW h \in Handle, NEW p \in Phases, Phase(h, p)
  PROVE  /\ Handle' = Handle
         /\ \E n \in Nat : Handle = 1..n /\ transfer' \in [1..n -> Transfer(n)]
         /\ \A i \in Handle : /\ transfer'[i].key = transfer[i].key
                              /\ transfer'[i].block = transfer[i].block
                              /\ transfer'[i].restore = transfer[i].restore
                              /\ transfer'[i].payload = transfer[i].payload
                              /\ i # h => transfer'[i].phase = transfer[i].phase
         /\ transfer'[h].phase = p
<1>1. PICK n \in Nat : Handle = 1..n /\ transfer \in [1..n -> Transfer(n)]
  BY HandlesNumbered
<1>2. transfer' = [transfer EXCEPT ![h].phase = p]
  BY DEF Phase
<1>3. \A i \in 1..n : transfer[i] \in Transfer(n)
  BY <1>1
<1>4. transfer' \in [1..n -> Transfer(n)]
  <2>1. transfer[h] \in Transfer(n)
    BY <1>1, <1>3
  <2>2. [transfer[h] EXCEPT !.phase = p] \in Transfer(n)
    BY <2>1 DEF Transfer
  <2> QED BY <1>1, <1>2, <2>2
<1>5. Handle' = Handle
  BY <1>1, <1>4 DEF Handle
<1> QED BY <1>1, <1>2, <1>3, <1>4, <1>5 DEF Transfer

\* The types, variable by variable.
LEMMA Types ==
  ASSUME TypeOK
  PROVE  /\ \A h \in Handle : /\ transfer[h].key \in Key /\ transfer[h].block \in Block
                              /\ transfer[h].restore \in BOOLEAN
                              /\ transfer[h].payload \in Handle
                              /\ transfer[h].phase \in Phases
         /\ \A k \in DOMAIN snapshots : /\ k \in Key /\ snapshots[k].payload \in Handle
                                        /\ snapshots[k].pins \in Nat
         /\ lease \in [Key -> Block \cup {NoBlock}] /\ version \in [Key -> Nat]
         /\ DOMAIN block = Block /\ DOMAIN payload = Handle /\ inflight \subseteq Key
<1>1. \A h \in Handle : transfer[h] \in Transfer(Cardinality(Handle))
  BY HandlesNumbered
<1>2. Handle = 1..Cardinality(Handle)
  BY HandlesNumbered
<1> QED BY <1>1, <1>2 DEF TypeOK, Transfer
-----------------------------------------------------------------------------
\* The invariant is kept, action by action.

\* A request begins in blocks that nobody has.
LEMMA BeginKeeps ==
  ASSUME IInv, NEW k \in Key, Begin(k)
  PROVE  IInv'
<1>0. PICK b \in FreeBlock :
      /\ b \in Block /\ UNCHANGED <<transfer, snapshots, inflight, payload>>
      /\ version[k] = 0 /\ version' = [version EXCEPT ![k] = 1]
      /\ lease' = [lease EXCEPT ![k] = b]
      /\ block' = [block EXCEPT ![b] = <<k, 1>>]
  BY DEF Begin, backendVars, FreeBlock
<1>1. TypeOK'
  BY <1>0 DEF IInv, TypeOK, Handle, FreeBlock
<1>2. OneTransfer'
  BY <1>0, Types DEF IInv, OneTransfer, Handle, Active, Writing
<1>3. Endpoints'
  BY <1>0, Types DEF IInv, Endpoints, Begun, Active, Handle, TypeOK
<1>4. Published'
  BY <1>0, Types DEF IInv, Published, Handle, Active, Writing
<1>5. Exclusive'
  <2>1. \A j \in Key : lease[j] # b
    BY <1>0 DEF FreeBlock
  <2>2. \A h \in Writing : transfer[h].block # b
    BY <1>0 DEF FreeBlock, Writing, ActivePhase
  <2>3. Writing' = Writing
    BY <1>0 DEF Writing, Handle
  <2>4. /\ lease \in [Key -> Block \cup {NoBlock}] /\ Exclusive
    BY DEF IInv, TypeOK
  <2>5. \A i, j \in Key : lease'[i] = lease'[j] /\ lease'[i] # NoBlock => i = j
    BY <1>0, <2>1, <2>4 DEF Exclusive
  <2>6. \A h \in Writing : \A j \in Key : lease'[j] # transfer[h].block
    BY <1>0, <2>2, <2>4 DEF Exclusive
  <2> QED BY <1>0, <2>3, <2>4, <2>5, <2>6 DEF Exclusive
<1>6. Begun'
  BY <1>0, Types DEF IInv, Begun, Handle, TypeOK
<1>7. Restored'
  <2>1. /\ \A h \in Active : /\ transfer[h].block # b /\ transfer[h].key # k
                             /\ transfer[h].block \in Block /\ transfer[h].key \in Key
        /\ Active' = Active
    BY <1>0, Types DEF IInv, FreeBlock, Active, ActivePhase, Begun, Handle
  <2>2. Restored /\ version \in [Key -> Nat] /\ DOMAIN block = Block
    BY DEF IInv, TypeOK
  <2> QED BY <1>0, <2>1, <2>2 DEF Restored
<1>8. NothingLost'
  BY <1>0, Types, HostStateAssumption DEF IInv, NothingLost, Begun, TypeOK, FreeBlock
<1> QED BY <1>1, <1>2, <1>3, <1>4, <1>5, <1>6, <1>7, <1>8 DEF IInv

\* A request writes its own blocks, in which no restore is.
LEMMA WriteKeeps ==
  ASSUME IInv, NEW k \in Key, Write(k)
  PROVE  IInv'
<1>0. /\ UNCHANGED <<transfer, snapshots, inflight, payload, lease>>
      /\ lease[k] # NoBlock /\ version' = [version EXCEPT ![k] = @ + 1]
      /\ block' = [block EXCEPT ![lease[k]] = <<k, version[k] + 1>>]
  BY DEF Write, backendVars
<1>1. TypeOK'
  BY <1>0 DEF IInv, TypeOK, Handle, FreeBlock
<1>2. OneTransfer'
  BY <1>0, Types DEF IInv, OneTransfer, Handle, Active, Writing
<1>3. Endpoints'
  BY <1>0, Types DEF IInv, Endpoints, Handle, Active, Writing
<1>4. Published'
  BY <1>0, Types DEF IInv, Published, Handle, Active, Writing
<1>5. Exclusive'
  BY <1>0, Types DEF IInv, Exclusive, Handle, Active, Writing
<1>6. Begun'
  BY <1>0, Types DEF IInv, Begun, Handle, TypeOK
<1>7. Restored'
  BY <1>0, Types DEF IInv, Restored, Exclusive, Endpoints, Active, Writing, ActivePhase,
     Handle, TypeOK
<1>8. NothingLost'
  BY <1>0, Types, HostStateAssumption DEF IInv, NothingLost, Exclusive, TypeOK
<1> QED BY <1>1, <1>2, <1>3, <1>4, <1>5, <1>6, <1>7, <1>8 DEF IInv

\* A request gives its blocks up with its newest State in its snapshot.
LEMMA GiveUpKeeps ==
  ASSUME IInv, NEW k \in Key, GiveUp(k)
  PROVE  IInv'
<1>0. /\ UNCHANGED <<transfer, snapshots, inflight, payload, block, version>>
      /\ lease[k] # NoBlock /\ lease' = [lease EXCEPT ![k] = NoBlock]
      /\ k \in DOMAIN snapshots /\ payload[snapshots[k].payload] = <<k, version[k]>>
  BY DEF GiveUp, backendVars
<1>1. TypeOK'
  BY <1>0 DEF IInv, TypeOK, Handle, FreeBlock
<1>2. OneTransfer'
  BY <1>0, Types DEF IInv, OneTransfer, Handle, Active, Writing
<1>3. Endpoints'
  BY <1>0, Types DEF IInv, Endpoints, Active, Handle, TypeOK
<1>4. Published'
  BY <1>0, Types DEF IInv, Published, Handle, Active, Writing
<1>5. Exclusive'
  BY <1>0, Types, HostStateAssumption DEF IInv, Exclusive, Handle, Writing, TypeOK
<1>6. Begun'
  BY <1>0, Types DEF IInv, Begun, Handle, TypeOK
<1>7. Restored'
  BY <1>0, Types DEF IInv, Restored, Handle, Active, Writing
<1>8. NothingLost'
  BY <1>0, Types DEF IInv, NothingLost, TypeOK
<1> QED BY <1>1, <1>2, <1>3, <1>4, <1>5, <1>6, <1>7, <1>8 DEF IInv

\* Only a snapshot that no transfer uses is released.
LEMMA ReleaseKeeps ==
  ASSUME IInv, NEW k \in Key, Release(k)
  PROVE  IInv'
<1>0. /\ UNCHANGED <<transfer, inflight, payload, block, version, lease>>
      /\ k \in DOMAIN snapshots /\ k \notin inflight
      /\ lease[k] # NoBlock \/ \E h \in Restoring : transfer[h].key = k
      /\ snapshots' = [i \in DOMAIN snapshots \ {k} |-> snapshots[i]]
  BY DEF Release, Releasable, callerVars
<1>1. TypeOK'
  BY <1>0 DEF IInv, TypeOK, Handle
<1>2. OneTransfer'
  BY <1>0, Types DEF IInv, OneTransfer, Handle, Active, Writing
<1>3. Endpoints'
  BY <1>0, Types DEF IInv, Endpoints, OneTransfer, Active, Handle, TypeOK
<1>4. Published'
  BY <1>0, Types DEF IInv, Published, Handle, Active, Writing
<1>5. Exclusive'
  BY <1>0, Types DEF IInv, Exclusive, Handle, Active, Writing
<1>6. Begun'
  BY <1>0, Types DEF IInv, Begun, Handle, Active, Writing
<1>7. Restored'
  BY <1>0, Types DEF IInv, Restored, Handle, Active, Writing
<1>8. NothingLost'
  BY <1>0, Types DEF IInv, NothingLost, OneTransfer, Active, Restoring, ActivePhase, TypeOK
<1> QED BY <1>1, <1>2, <1>3, <1>4, <1>5, <1>6, <1>7, <1>8 DEF IInv

\* The copies are enqueued.
LEMMA EnqueueKeeps ==
  ASSUME IInv, NEW h \in Handle, Enqueue(h)
  PROVE  IInv'
<1>a. /\ UNCHANGED <<snapshots, inflight, payload, block, version, lease>>
      /\ transfer[h].phase = "admitted" /\ Phase(h, "enqueued")
  BY DEF Enqueue, backendVars, callerVars
<1>b. /\ Handle' = Handle
      /\ \A i \in Handle : /\ transfer'[i].key = transfer[i].key
                           /\ transfer'[i].block = transfer[i].block
                           /\ transfer'[i].restore = transfer[i].restore
                           /\ transfer'[i].payload = transfer[i].payload
                           /\ i # h => transfer'[i].phase = transfer[i].phase
      /\ transfer'[h].phase = "enqueued"
  BY <1>a, PhaseFields DEF IInv, Phases, ActivePhase
<1>n. \E n \in Nat : Handle = 1..n /\ transfer' \in [1..n -> Transfer(n)]
  BY <1>a, PhaseFields DEF IInv, Phases, ActivePhase
<1>c. Active' = Active /\ Writing' = Writing /\ h \in Active
  BY <1>a, <1>b, Types DEF IInv, Active, Writing, ActivePhase
<1>d. /\ OneTransfer /\ Endpoints /\ Published /\ Exclusive /\ Begun /\ Restored /\ NothingLost
      /\ \A i \in Handle : /\ transfer[i].key \in Key /\ transfer[i].block \in Block
                           /\ transfer[i].payload \in Handle
      /\ \A k \in DOMAIN snapshots : /\ k \in Key /\ snapshots[k].payload \in Handle
                                     /\ snapshots[k].pins \in Nat
      /\ lease \in [Key -> Block \cup {NoBlock}] /\ version \in [Key -> Nat]
      /\ DOMAIN block = Block /\ DOMAIN payload = Handle /\ inflight \subseteq Key
      /\ Active \subseteq Handle /\ Writing \subseteq Handle
  BY Types DEF IInv, Active, Writing
<1>1. TypeOK'
  BY <1>a, <1>b, <1>n, Types DEF IInv, TypeOK
<1>2. OneTransfer'
  BY <1>a, <1>b, <1>c, <1>d DEF OneTransfer
<1>3. Endpoints'
  BY <1>a, <1>b, <1>c, <1>d DEF Endpoints
<1>4. Published'
  BY <1>a, <1>b, <1>c, <1>d DEF Published
<1>5. Exclusive'
  BY <1>a, <1>b, <1>c, <1>d DEF Exclusive
<1>6. Begun'
  BY <1>a, <1>b, <1>c, <1>d DEF Begun
<1>7. Restored'
  BY <1>a, <1>b, <1>c, <1>d DEF Restored
<1>8. NothingLost'
  BY <1>a, <1>b, <1>c, <1>d DEF NothingLost
<1> QED BY <1>1, <1>2, <1>3, <1>4, <1>5, <1>6, <1>7, <1>8 DEF IInv

\* An enqueue raises, its pin is returned.
LEMMA EnqueueRaisesKeeps ==
  ASSUME IInv, NEW h \in Handle, EnqueueRaises(h)
  PROVE  IInv'
<1>a. /\ UNCHANGED <<payload, block, version, lease>>
      /\ transfer[h].phase = "admitted" /\ (Phase(h, "raised") \/ Phase(h, "orphaned"))
      /\ inflight' = inflight \ {transfer[h].key}
      /\ snapshots' = IF transfer[h].restore
                      THEN [snapshots EXCEPT ![transfer[h].key].pins = @ - 1] ELSE snapshots
  BY DEF EnqueueRaises, callerVars
<1>b. /\ Handle' = Handle
      /\ \A i \in Handle : /\ transfer'[i].key = transfer[i].key
                           /\ transfer'[i].block = transfer[i].block
                           /\ transfer'[i].restore = transfer[i].restore
                           /\ transfer'[i].payload = transfer[i].payload
                           /\ i # h => transfer'[i].phase = transfer[i].phase
      /\ transfer'[h].phase \in {"raised", "orphaned"}
  BY <1>a, PhaseFields DEF IInv, Phases, ActivePhase
<1>n. \E n \in Nat : Handle = 1..n /\ transfer' \in [1..n -> Transfer(n)]
  BY <1>a, PhaseFields DEF IInv, Phases, ActivePhase
<1>c. Active' = Active \ {h} /\ Writing' \subseteq Writing /\ h \in Active
  BY <1>a, <1>b, Types DEF IInv, Active, Writing, ActivePhase
<1>d. /\ OneTransfer /\ Endpoints /\ Published /\ Exclusive /\ Begun /\ Restored /\ NothingLost
      /\ \A i \in Handle : /\ transfer[i].key \in Key /\ transfer[i].block \in Block
                           /\ transfer[i].payload \in Handle
      /\ \A k \in DOMAIN snapshots : /\ k \in Key /\ snapshots[k].payload \in Handle
                                     /\ snapshots[k].pins \in Nat
      /\ lease \in [Key -> Block \cup {NoBlock}] /\ version \in [Key -> Nat]
      /\ DOMAIN block = Block /\ DOMAIN payload = Handle /\ inflight \subseteq Key
      /\ Active \subseteq Handle /\ Writing \subseteq Handle
  BY Types DEF IInv, Active, Writing
<1>s. /\ DOMAIN snapshots' = DOMAIN snapshots
      /\ \A k \in DOMAIN snapshots :
           /\ snapshots'[k].payload = snapshots[k].payload
           /\ k # transfer[h].key => snapshots'[k].pins = snapshots[k].pins
           /\ snapshots'[k] \in [payload : Handle, pins : Nat]
  <2>1. /\ \A k \in DOMAIN snapshots : snapshots[k] \in [payload : Handle, pins : Nat]
        /\ inflight \subseteq Key
    BY DEF IInv, TypeOK
  <2>2. CASE ~transfer[h].restore
    BY <1>a, <2>1, <2>2
  <2>3. CASE transfer[h].restore
    <3>1. transfer[h].key \in DOMAIN snapshots /\ snapshots[transfer[h].key].pins > 0
      BY <1>c, <1>d, <2>3 DEF Endpoints
    <3> QED BY <1>a, <2>1, <2>3, <3>1
  <2> QED BY <2>2, <2>3
<1>1. TypeOK'
  <2>1. \E n \in Nat : transfer' \in [1..n -> Transfer(n)]
    BY <1>n
  <2>2. /\ \A k \in DOMAIN snapshots' : snapshots'[k] \in [payload : Handle', pins : Nat]
        /\ DOMAIN snapshots' \subseteq Key /\ inflight' \subseteq Key
    BY <1>a, <1>b, <1>d, <1>s
  <2> QED BY <1>a, <1>b, <1>d, <2>1, <2>2 DEF TypeOK
<1>2. OneTransfer'
  BY <1>a, <1>b, <1>c, <1>d, <1>s DEF OneTransfer
<1>3. Endpoints'
  BY <1>a, <1>b, <1>c, <1>d, <1>s DEF Endpoints, OneTransfer
<1>4. Published'
  BY <1>a, <1>b, <1>c, <1>d, <1>s DEF Published
<1>5. Exclusive'
  BY <1>a, <1>b, <1>c, <1>d, <1>s DEF Exclusive
<1>6. Begun'
  BY <1>a, <1>b, <1>c, <1>d, <1>s DEF Begun
<1>7. Restored'
  BY <1>a, <1>b, <1>c, <1>d, <1>s DEF Restored
<1>8. NothingLost'
  BY <1>a, <1>b, <1>c, <1>d, <1>s DEF NothingLost
<1> QED BY <1>1, <1>2, <1>3, <1>4, <1>5, <1>6, <1>7, <1>8 DEF IInv

\* The copies of a restore, also of one that raised, write blocks nobody has.
LEMMA CopyRestoreKeeps ==
  ASSUME IInv, NEW h \in Handle, Copy(h), transfer[h].restore
  PROVE  IInv'
<1>a. /\ UNCHANGED <<snapshots, inflight, payload, version, lease>>
      /\ block' = [block EXCEPT ![transfer[h].block] = payload[transfer[h].payload]]
      /\ \/ transfer[h].phase = "enqueued" /\ Phase(h, "copied")
         \/ transfer[h].phase = "orphaned" /\ Phase(h, "raised")
  BY DEF Copy, backendVars
<1>b. /\ Handle' = Handle
      /\ \A i \in Handle : /\ transfer'[i].key = transfer[i].key
                           /\ transfer'[i].block = transfer[i].block
                           /\ transfer'[i].restore = transfer[i].restore
                           /\ transfer'[i].payload = transfer[i].payload
                           /\ i # h => transfer'[i].phase = transfer[i].phase
      /\ transfer'[h].phase = IF transfer[h].phase = "enqueued" THEN "copied" ELSE "raised"
  BY <1>a, PhaseFields DEF IInv, Phases, ActivePhase
<1>n. \E n \in Nat : Handle = 1..n /\ transfer' \in [1..n -> Transfer(n)]
  BY <1>a, PhaseFields DEF IInv, Phases, ActivePhase
<1>c. /\ Active' = Active /\ Writing' \subseteq Writing /\ h \in Writing
      /\ \A i \in Active : transfer[i].restore => i \in Writing
  BY <1>a, <1>b, Types DEF IInv, Active, Writing, ActivePhase
<1>d. /\ OneTransfer /\ Endpoints /\ Published /\ Exclusive /\ Begun /\ Restored /\ NothingLost
      /\ \A i \in Handle : /\ transfer[i].key \in Key /\ transfer[i].block \in Block
                           /\ transfer[i].payload \in Handle
      /\ \A k \in DOMAIN snapshots : /\ k \in Key /\ snapshots[k].payload \in Handle
                                     /\ snapshots[k].pins \in Nat
      /\ lease \in [Key -> Block \cup {NoBlock}] /\ version \in [Key -> Nat]
      /\ DOMAIN block = Block /\ DOMAIN payload = Handle /\ inflight \subseteq Key
      /\ Active \subseteq Handle /\ Writing \subseteq Handle
  BY Types DEF IInv, Active, Writing
<1>1. TypeOK'
  BY <1>a, <1>b, <1>d, <1>n, Types DEF IInv, TypeOK
<1>2. OneTransfer'
  BY <1>a, <1>b, <1>c, <1>d DEF OneTransfer
<1>3. Endpoints'
  BY <1>a, <1>b, <1>c, <1>d DEF Endpoints
<1>4. Published'
  BY <1>a, <1>b, <1>c, <1>d DEF Published
<1>5. Exclusive'
  BY <1>a, <1>b, <1>c, <1>d DEF Exclusive
<1>6. Begun'
  BY <1>a, <1>b, <1>c, <1>d DEF Begun
<1>7. Restored'
  <2> SUFFICES ASSUME NEW i \in Active, transfer[i].restore, transfer'[i].phase = "copied"
               PROVE  block'[transfer[i].block] = <<transfer[i].key, version[transfer[i].key]>>
    BY <1>a, <1>b, <1>c, <1>d DEF Restored
  <2>1. CASE i = h
    <3>1. /\ transfer[i].key \in DOMAIN snapshots /\ lease[transfer[i].key] = NoBlock
          /\ snapshots[transfer[i].key].payload = transfer[i].payload
          /\ version[transfer[i].key] > 0
      BY <1>d DEF Endpoints, Begun
    <3>2. payload[transfer[i].payload] = <<transfer[i].key, version[transfer[i].key]>>
      BY <1>d, <3>1 DEF NothingLost
    <3> QED BY <1>a, <1>d, <2>1, <3>2
  <2>2. CASE i # h
    <3>1. transfer[i].block # transfer[h].block
      BY <1>c, <1>d, <2>2 DEF Exclusive
    <3>2. transfer[i].phase = "copied"
      BY <1>b, <1>d, <2>2
    <3> QED BY <1>a, <1>d, <3>1, <3>2 DEF Restored
  <2> QED BY <2>1, <2>2
<1>8. NothingLost'
  <2>1. \A k \in Key : lease[k] # transfer[h].block
    BY <1>c, <1>d DEF Exclusive
  <2>2. \A k \in Key : lease[k] # NoBlock => block'[lease[k]] = block[lease[k]]
    BY <1>a, <1>d, <2>1
  <2> QED BY <1>a, <1>d, <2>2 DEF NothingLost
<1> QED BY <1>1, <1>2, <1>3, <1>4, <1>5, <1>6, <1>7, <1>8 DEF IInv

\* The copies of an offload write a payload that no snapshot has.
LEMMA CopyOffloadKeeps ==
  ASSUME IInv, NEW h \in Handle, Copy(h), ~transfer[h].restore
  PROVE  IInv'
<1>a. /\ UNCHANGED <<snapshots, inflight, block, version, lease>>
      /\ payload' = [payload EXCEPT ![h] = block[transfer[h].block]]
      /\ \/ transfer[h].phase = "enqueued" /\ Phase(h, "copied")
         \/ transfer[h].phase = "orphaned" /\ Phase(h, "raised")
  BY DEF Copy, backendVars
<1>b. /\ Handle' = Handle
      /\ \A i \in Handle : /\ transfer'[i].key = transfer[i].key
                           /\ transfer'[i].block = transfer[i].block
                           /\ transfer'[i].restore = transfer[i].restore
                           /\ transfer'[i].payload = transfer[i].payload
                           /\ i # h => transfer'[i].phase = transfer[i].phase
      /\ transfer'[h].phase = IF transfer[h].phase = "enqueued" THEN "copied" ELSE "raised"
  BY <1>a, PhaseFields DEF IInv, Phases, ActivePhase
<1>n. \E n \in Nat : Handle = 1..n /\ transfer' \in [1..n -> Transfer(n)]
  BY <1>a, PhaseFields DEF IInv, Phases, ActivePhase
<1>c. /\ Active' = Active /\ Writing' = Writing
  BY <1>a, <1>b, Types DEF IInv, Active, Writing, ActivePhase
<1>d. /\ OneTransfer /\ Endpoints /\ Published /\ Exclusive /\ Begun /\ Restored /\ NothingLost
      /\ \A i \in Handle : /\ transfer[i].key \in Key /\ transfer[i].block \in Block
                           /\ transfer[i].payload \in Handle
      /\ \A k \in DOMAIN snapshots : /\ k \in Key /\ snapshots[k].payload \in Handle
                                     /\ snapshots[k].pins \in Nat
      /\ lease \in [Key -> Block \cup {NoBlock}] /\ version \in [Key -> Nat]
      /\ DOMAIN block = Block /\ DOMAIN payload = Handle /\ inflight \subseteq Key
      /\ Active \subseteq Handle /\ Writing \subseteq Handle
  BY Types DEF IInv, Active, Writing
<1>1. TypeOK'
  BY <1>a, <1>b, <1>d, <1>n, Types DEF IInv, TypeOK
<1>2. OneTransfer'
  BY <1>a, <1>b, <1>c, <1>d DEF OneTransfer
<1>3. Endpoints'
  BY <1>a, <1>b, <1>c, <1>d DEF Endpoints
<1>4. Published'
  BY <1>a, <1>b, <1>c, <1>d DEF Published
<1>5. Exclusive'
  BY <1>a, <1>b, <1>c, <1>d DEF Exclusive
<1>6. Begun'
  BY <1>a, <1>b, <1>c, <1>d DEF Begun
<1>7. Restored'
  <2>1. \A i \in Active : transfer[i].restore => transfer'[i].phase = transfer[i].phase
    BY <1>b, <1>d
  <2> QED BY <1>a, <1>b, <1>c, <1>d, <2>1 DEF Restored
<1>8. NothingLost'
  <2>1. \A k \in DOMAIN snapshots : snapshots[k].payload # h
    BY <1>a, <1>d DEF Published
  <2>2. \A k \in DOMAIN snapshots : payload'[snapshots[k].payload] = payload[snapshots[k].payload]
    BY <1>a, <1>d, <2>1
  <2> QED BY <1>a, <1>d, <2>2 DEF NothingLost
<1> QED BY <1>1, <1>2, <1>3, <1>4, <1>5, <1>6, <1>7, <1>8 DEF IInv

\* The caller publishes the destination of a restore, which has the newest State.
LEMMA FinishRestoreKeeps ==
  ASSUME IInv, NEW h \in Handle, Finish(h), transfer[h].restore
  PROVE  IInv'
<1>a. /\ UNCHANGED <<payload, block, version>>
      /\ transfer[h].phase = "copied" /\ Phase(h, "terminal")
      /\ inflight' = inflight \ {transfer[h].key}
      /\ snapshots' = [snapshots EXCEPT ![transfer[h].key].pins = @ - 1]
      /\ lease' = [lease EXCEPT ![transfer[h].key] = transfer[h].block]
  BY DEF Finish
<1>b. /\ Handle' = Handle
      /\ \A i \in Handle : /\ transfer'[i].key = transfer[i].key
                           /\ transfer'[i].block = transfer[i].block
                           /\ transfer'[i].restore = transfer[i].restore
                           /\ transfer'[i].payload = transfer[i].payload
                           /\ i # h => transfer'[i].phase = transfer[i].phase
      /\ transfer'[h].phase = "terminal"
  BY <1>a, PhaseFields DEF IInv, Phases, ActivePhase
<1>n. \E n \in Nat : Handle = 1..n /\ transfer' \in [1..n -> Transfer(n)]
  BY <1>a, PhaseFields DEF IInv, Phases, ActivePhase
<1>c. Active' = Active \ {h} /\ Writing' = Writing \ {h} /\ h \in Active /\ h \in Writing
  BY <1>a, <1>b, Types DEF IInv, Active, Writing, ActivePhase
<1>d. /\ OneTransfer /\ Endpoints /\ Published /\ Exclusive /\ Begun /\ Restored /\ NothingLost
      /\ \A i \in Handle : /\ transfer[i].key \in Key /\ transfer[i].block \in Block
                           /\ transfer[i].payload \in Handle
      /\ \A k \in DOMAIN snapshots : /\ k \in Key /\ snapshots[k].payload \in Handle
                                     /\ snapshots[k].pins \in Nat
      /\ lease \in [Key -> Block \cup {NoBlock}] /\ version \in [Key -> Nat]
      /\ DOMAIN block = Block /\ DOMAIN payload = Handle /\ inflight \subseteq Key
      /\ Active \subseteq Handle /\ Writing \subseteq Handle
  BY Types DEF IInv, Active, Writing
<1>s. /\ DOMAIN snapshots' = DOMAIN snapshots
      /\ \A k \in DOMAIN snapshots :
           /\ snapshots'[k].payload = snapshots[k].payload
           /\ k # transfer[h].key => snapshots'[k].pins = snapshots[k].pins
           /\ snapshots'[k] \in [payload : Handle, pins : Nat]
  <2>1. \A k \in DOMAIN snapshots : snapshots[k] \in [payload : Handle, pins : Nat]
    BY DEF IInv, TypeOK
  <2>2. transfer[h].key \in DOMAIN snapshots /\ snapshots[transfer[h].key].pins > 0
    BY <1>c, <1>d DEF Endpoints
  <2> QED BY <1>a, <2>1, <2>2
<1>1. TypeOK'
  <2>1. \E n \in Nat : transfer' \in [1..n -> Transfer(n)]
    BY <1>n
  <2>2. /\ \A k \in DOMAIN snapshots' : snapshots'[k] \in [payload : Handle', pins : Nat]
        /\ DOMAIN snapshots' \subseteq Key /\ inflight' \subseteq Key
    BY <1>a, <1>b, <1>d, <1>s
  <2>3. lease' \in [Key -> Block \cup {NoBlock}]
    BY <1>a, <1>d
  <2> QED BY <1>a, <1>b, <1>d, <2>1, <2>2, <2>3 DEF TypeOK
<1>2. OneTransfer'
  BY <1>a, <1>b, <1>c, <1>d, <1>s DEF OneTransfer
<1>3. Endpoints'
  BY <1>a, <1>b, <1>c, <1>d, <1>s DEF Endpoints, OneTransfer
<1>4. Published'
  BY <1>a, <1>b, <1>c, <1>d, <1>s DEF Published
<1>5. Exclusive'
  <2>1. /\ \A k \in Key : lease[k] # transfer[h].block
        /\ \A i \in Writing' : transfer[i].block # transfer[h].block
    BY <1>c, <1>d DEF Exclusive
  <2>2. \A j, k \in Key : lease'[j] = lease'[k] /\ lease'[j] # NoBlock => j = k
    BY <1>a, <1>d, <2>1 DEF Exclusive
  <2>3. \A i \in Writing' : \A k \in Key : lease'[k] # transfer[i].block
    BY <1>a, <1>c, <1>d, <2>1 DEF Exclusive
  <2> QED BY <1>b, <1>c, <1>d, <2>2, <2>3 DEF Exclusive
<1>6. Begun'
  BY <1>a, <1>b, <1>c, <1>d, <1>s DEF Begun
<1>7. Restored'
  BY <1>a, <1>b, <1>c, <1>d, <1>s DEF Restored
<1>8. NothingLost'
  <2>1. block[transfer[h].block] = <<transfer[h].key, version[transfer[h].key]>>
    BY <1>a, <1>c, <1>d DEF Restored
  <2> QED BY <1>a, <1>d, <1>s, <2>1, HostStateAssumption DEF NothingLost
<1> QED BY <1>1, <1>2, <1>3, <1>4, <1>5, <1>6, <1>7, <1>8 DEF IInv

\* The payload of an offload becomes the snapshot of a request that still computes.
LEMMA FinishOffloadKeeps ==
  ASSUME IInv, NEW h \in Handle, Finish(h), ~transfer[h].restore
  PROVE  IInv'
<1>a. /\ UNCHANGED <<payload, block, version, lease>>
      /\ transfer[h].phase = "copied" /\ Phase(h, "terminal")
      /\ inflight' = inflight \ {transfer[h].key}
      /\ snapshots' = [i \in DOMAIN snapshots \cup {transfer[h].key} |->
                         IF i = transfer[h].key THEN [payload |-> h, pins |-> 0]
                         ELSE snapshots[i]]
  BY DEF Finish
<1>b. /\ Handle' = Handle
      /\ \A i \in Handle : /\ transfer'[i].key = transfer[i].key
                           /\ transfer'[i].block = transfer[i].block
                           /\ transfer'[i].restore = transfer[i].restore
                           /\ transfer'[i].payload = transfer[i].payload
                           /\ i # h => transfer'[i].phase = transfer[i].phase
      /\ transfer'[h].phase = "terminal"
  BY <1>a, PhaseFields DEF IInv, Phases, ActivePhase
<1>n. \E n \in Nat : Handle = 1..n /\ transfer' \in [1..n -> Transfer(n)]
  BY <1>a, PhaseFields DEF IInv, Phases, ActivePhase
<1>c. Active' = Active \ {h} /\ Writing' = Writing /\ h \in Active
  BY <1>a, <1>b, Types DEF IInv, Active, Writing, ActivePhase
<1>d. /\ OneTransfer /\ Endpoints /\ Published /\ Exclusive /\ Begun /\ Restored /\ NothingLost
      /\ \A i \in Handle : /\ transfer[i].key \in Key /\ transfer[i].block \in Block
                           /\ transfer[i].payload \in Handle
      /\ \A k \in DOMAIN snapshots : /\ k \in Key /\ snapshots[k].payload \in Handle
                                     /\ snapshots[k].pins \in Nat
      /\ lease \in [Key -> Block \cup {NoBlock}] /\ version \in [Key -> Nat]
      /\ DOMAIN block = Block /\ DOMAIN payload = Handle /\ inflight \subseteq Key
      /\ Active \subseteq Handle /\ Writing \subseteq Handle
  BY Types DEF IInv, Active, Writing
<1>s. /\ DOMAIN snapshots' = DOMAIN snapshots \cup {transfer[h].key}
      /\ transfer[h].key \notin DOMAIN snapshots
      /\ \A k \in DOMAIN snapshots : snapshots'[k] = snapshots[k]
      /\ snapshots'[transfer[h].key] = [payload |-> h, pins |-> 0]
      /\ \A k \in DOMAIN snapshots' : snapshots'[k] \in [payload : Handle, pins : Nat]
  <2>1. \A k \in DOMAIN snapshots : snapshots[k] \in [payload : Handle, pins : Nat]
    BY DEF IInv, TypeOK
  <2>2. transfer[h].key \notin DOMAIN snapshots
    BY <1>c, <1>d DEF Endpoints
  <2> QED BY <1>a, <2>1, <2>2
<1>1. TypeOK'
  <2>1. \E n \in Nat : transfer' \in [1..n -> Transfer(n)]
    BY <1>n
  <2>2. /\ \A k \in DOMAIN snapshots' : snapshots'[k] \in [payload : Handle', pins : Nat]
        /\ DOMAIN snapshots' \subseteq Key /\ inflight' \subseteq Key
    <3>1. \A k \in DOMAIN snapshots' : snapshots'[k] \in [payload : Handle', pins : Nat]
      BY <1>b, <1>s
    <3>2. DOMAIN snapshots' \subseteq Key
      BY <1>d, <1>s
    <3>3. inflight' \subseteq Key
      BY <1>a, <1>d
    <3> QED BY <3>1, <3>2, <3>3
  <2> QED BY <1>a, <1>b, <1>d, <2>1, <2>2 DEF TypeOK
<1>2. OneTransfer'
  BY <1>a, <1>b, <1>c, <1>d, <1>s DEF OneTransfer
<1>3. Endpoints'
  BY <1>a, <1>b, <1>c, <1>d, <1>s DEF Endpoints, OneTransfer
<1>4. Published'
  BY <1>a, <1>b, <1>c, <1>d, <1>s DEF Published
<1>5. Exclusive'
  BY <1>a, <1>b, <1>c, <1>d, <1>s DEF Exclusive
<1>6. Begun'
  BY <1>a, <1>b, <1>c, <1>d, <1>s DEF Begun
<1>7. Restored'
  BY <1>a, <1>b, <1>c, <1>d, <1>s DEF Restored
<1>8. NothingLost'
  <2>1. lease[transfer[h].key] # NoBlock
    BY <1>d, <1>s DEF NothingLost, Begun
  <2> QED BY <1>a, <1>d, <1>s, <2>1 DEF NothingLost
<1> QED BY <1>1, <1>2, <1>3, <1>4, <1>5, <1>6, <1>7, <1>8 DEF IInv

\* An offload begins, of a request that computes and has no snapshot.
LEMMA OffloadKeeps ==
  ASSUME IInv, NEW k \in Key, Offload(k)
  PROVE  IInv'
<1>a. /\ UNCHANGED <<snapshots, block, version, lease>>
      /\ lease[k] # NoBlock /\ k \notin DOMAIN snapshots /\ k \notin inflight
      /\ Started(k, lease[k], FALSE, NewHandle)
  BY DEF Offload, Duplicate, callerVars, NewHandle
<1>q. payload' = [i \in 1..NewHandle |-> IF i = NewHandle THEN NoContent ELSE payload[i]]
  BY DEF Offload, NewHandle
<1>s. NewHandle \in 1..NewHandle /\ lease[k] \in Block
  <2>1. NewHandle \in Nat \ {0} /\ Handle = 1..(NewHandle - 1)
    BY HandlesNumbered DEF IInv, NewHandle
  <2> QED BY <1>a, <2>1, NextHandle DEF IInv, TypeOK
<1>n. /\ NewHandle \in Nat /\ NewHandle \in 1..NewHandle /\ Handle' = 1..NewHandle
      /\ transfer' \in [1..NewHandle -> Transfer(NewHandle)]
  BY <1>a, <1>s, StartedFields DEF IInv
<1>b. /\ NewHandle \notin Handle /\ Handle' = Handle \cup {NewHandle}
      /\ \A h \in Handle : transfer'[h] = transfer[h]
      /\ transfer'[NewHandle].key = k /\ transfer'[NewHandle].block = lease[k]
      /\ transfer'[NewHandle].restore = FALSE /\ transfer'[NewHandle].payload = NewHandle
      /\ transfer'[NewHandle].phase = "admitted"
      /\ inflight' = inflight \cup {k}
  BY <1>a, <1>s, StartedFields DEF IInv
<1>e. DOMAIN payload' = Handle' /\ \A h \in Handle : payload'[h] = payload[h]
  BY <1>n, <1>b, <1>q
<1>c. Active' = Active \cup {NewHandle} /\ Writing' = Writing
  BY <1>b DEF Active, Writing, ActivePhase
<1>d. /\ OneTransfer /\ Endpoints /\ Published /\ Exclusive /\ Begun /\ Restored /\ NothingLost
      /\ \A i \in Handle : /\ transfer[i].key \in Key /\ transfer[i].block \in Block
                           /\ transfer[i].payload \in Handle
      /\ \A j \in DOMAIN snapshots : /\ j \in Key /\ snapshots[j].payload \in Handle
                                     /\ snapshots[j].pins \in Nat
      /\ lease \in [Key -> Block \cup {NoBlock}] /\ version \in [Key -> Nat]
      /\ DOMAIN block = Block /\ DOMAIN payload = Handle /\ inflight \subseteq Key
      /\ Active \subseteq Handle /\ Writing \subseteq Handle
  BY Types DEF IInv, Active, Writing
<1>1. TypeOK'
  <2>1. \E m \in Nat : transfer' \in [1..m -> Transfer(m)]
    BY <1>n
  <2>2. \A j \in DOMAIN snapshots' : snapshots'[j] \in [payload : Handle, pins : Nat]
    BY <1>a, <1>s DEF IInv, TypeOK
  <2>3. \A j \in DOMAIN snapshots' : snapshots'[j] \in [payload : Handle', pins : Nat]
    BY <1>b, <2>2
  <2>4. DOMAIN snapshots' \subseteq Key
    BY <1>a, <1>d
  <2> QED BY <1>a, <1>b, <1>d, <1>e, <2>1, <2>3, <2>4 DEF TypeOK
<1>2. OneTransfer'
  BY <1>a, <1>b, <1>c, <1>d DEF OneTransfer
<1>3. Endpoints'
  BY <1>a, <1>b, <1>c, <1>d DEF Endpoints
<1>4. Published'
  BY <1>a, <1>b, <1>c, <1>d DEF Published
<1>5. Exclusive'
  BY <1>a, <1>b, <1>c, <1>d DEF Exclusive
<1>6. Begun'
  BY <1>a, <1>b, <1>c, <1>d DEF Begun
<1>7. Restored'
  BY <1>a, <1>b, <1>c, <1>d DEF Restored
<1>8. NothingLost'
  <2>1. \A j \in DOMAIN snapshots : payload'[snapshots[j].payload] = payload[snapshots[j].payload]
    BY <1>d, <1>e
  <2> QED BY <1>a, <1>d, <2>1 DEF NothingLost
<1> QED BY <1>1, <1>2, <1>3, <1>4, <1>5, <1>6, <1>7, <1>8 DEF IInv

\* A restore begins, of a request that computes nowhere, into free blocks.
LEMMA RestoreKeeps ==
  ASSUME IInv, NEW k \in Key, Restore(k)
  PROVE  IInv'
<1>a. PICK b \in FreeBlock :
      /\ b \in Block /\ UNCHANGED <<block, version, lease>>
      /\ lease[k] = NoBlock /\ k \in DOMAIN snapshots /\ k \notin inflight
      /\ Started(k, b, TRUE, snapshots[k].payload)
      /\ snapshots' = [snapshots EXCEPT ![k].pins = @ + 1]
  BY DEF Restore, FreeBlock, callerVars
<1>q. payload' = [i \in 1..NewHandle |-> IF i = NewHandle THEN NoContent ELSE payload[i]]
  BY DEF Restore, NewHandle
<1>s. /\ snapshots[k].payload \in 1..NewHandle /\ b \in Block
      /\ \A j \in Key : lease[j] # b
      /\ \A h \in Writing : transfer[h].block # b
  <2>1. snapshots[k].payload \in Handle
    BY <1>a, Types DEF IInv
  <2>2. NewHandle \in Nat \ {0} /\ Handle = 1..(NewHandle - 1)
    BY HandlesNumbered DEF IInv, NewHandle
  <2>3. 1..NewHandle = Handle \cup {NewHandle}
    BY <2>2, NextHandle
  <2>4. \A h \in Writing : transfer[h].block # b
    BY <1>a DEF FreeBlock, Writing, ActivePhase
  <2> QED BY <1>a, <2>1, <2>3, <2>4 DEF FreeBlock
<1>p. /\ DOMAIN snapshots' = DOMAIN snapshots
      /\ \A j \in DOMAIN snapshots :
           /\ snapshots'[j].payload = snapshots[j].payload
           /\ j # k => snapshots'[j].pins = snapshots[j].pins
           /\ snapshots'[j] \in [payload : Handle, pins : Nat]
      /\ snapshots'[k].pins > 0
  <2>1. \A j \in DOMAIN snapshots : snapshots[j] \in [payload : Handle, pins : Nat]
    BY DEF IInv, TypeOK
  <2> QED BY <1>a, <2>1
<1>n. /\ NewHandle \in Nat /\ NewHandle \in 1..NewHandle /\ Handle' = 1..NewHandle
      /\ transfer' \in [1..NewHandle -> Transfer(NewHandle)]
  BY <1>a, <1>s, StartedFields DEF IInv
<1>b. /\ NewHandle \notin Handle /\ Handle' = Handle \cup {NewHandle}
      /\ \A h \in Handle : transfer'[h] = transfer[h]
      /\ transfer'[NewHandle].key = k /\ transfer'[NewHandle].block = b
      /\ transfer'[NewHandle].restore = TRUE /\ transfer'[NewHandle].payload = snapshots[k].payload
      /\ transfer'[NewHandle].phase = "admitted"
      /\ inflight' = inflight \cup {k}
  <2> DEFINE source == snapshots[k].payload
  <2>1. TypeOK /\ b \in Block /\ source \in 1..NewHandle /\ Started(k, b, TRUE, source)
    BY <1>a, <1>s DEF IInv
  <2> HIDE DEF source
  <2>2. /\ NewHandle \notin Handle /\ Handle' = Handle \cup {NewHandle}
        /\ \A h \in Handle : transfer'[h] = transfer[h]
        /\ transfer'[NewHandle].key = k /\ transfer'[NewHandle].block = b
        /\ transfer'[NewHandle].restore = TRUE /\ transfer'[NewHandle].payload = source
        /\ transfer'[NewHandle].phase = "admitted"
        /\ inflight' = inflight \cup {k}
    BY <2>1, StartedFields
  <2> QED BY <2>2 DEF source
<1>e. DOMAIN payload' = Handle' /\ \A h \in Handle : payload'[h] = payload[h]
  BY <1>n, <1>b, <1>q
<1>c. Active' = Active \cup {NewHandle} /\ Writing' = Writing \cup {NewHandle}
  BY <1>b DEF Active, Writing, ActivePhase
<1>d. /\ OneTransfer /\ Endpoints /\ Published /\ Exclusive /\ Begun /\ Restored /\ NothingLost
      /\ \A i \in Handle : /\ transfer[i].key \in Key /\ transfer[i].block \in Block
                           /\ transfer[i].payload \in Handle
      /\ \A j \in DOMAIN snapshots : /\ j \in Key /\ snapshots[j].payload \in Handle
                                     /\ snapshots[j].pins \in Nat
      /\ lease \in [Key -> Block \cup {NoBlock}] /\ version \in [Key -> Nat]
      /\ DOMAIN block = Block /\ DOMAIN payload = Handle /\ inflight \subseteq Key
      /\ Active \subseteq Handle /\ Writing \subseteq Handle
  BY Types DEF IInv, Active, Writing
<1>1. TypeOK'
  <2>1. \E m \in Nat : transfer' \in [1..m -> Transfer(m)]
    BY <1>n
  <2>2. \A j \in DOMAIN snapshots' : snapshots'[j] \in [payload : Handle, pins : Nat]
    BY <1>a, <1>p DEF IInv, TypeOK
  <2>3. \A j \in DOMAIN snapshots' : snapshots'[j] \in [payload : Handle', pins : Nat]
    BY <1>b, <2>2
  <2>4. DOMAIN snapshots' \subseteq Key
    BY <1>a, <1>d, <1>p
  <2> QED BY <1>a, <1>b, <1>d, <1>e, <2>1, <2>3, <2>4 DEF TypeOK
<1>2. OneTransfer'
  BY <1>a, <1>b, <1>c, <1>d DEF OneTransfer
<1>3. Endpoints'
  BY <1>a, <1>b, <1>c, <1>d, <1>p DEF Endpoints, OneTransfer
<1>4. Published'
  BY <1>a, <1>b, <1>c, <1>d, <1>p DEF Published
<1>5. Exclusive'
  BY <1>a, <1>b, <1>c, <1>d, <1>s DEF Exclusive
<1>6. Begun'
  <2>1. version[k] > 0
    BY <1>a, <1>d DEF Begun, Published
  <2> QED BY <1>a, <1>b, <1>d, <2>1 DEF Begun
<1>7. Restored'
  BY <1>a, <1>b, <1>c, <1>d DEF Restored
<1>8. NothingLost'
  <2>1. \A j \in DOMAIN snapshots : payload'[snapshots[j].payload] = payload[snapshots[j].payload]
    BY <1>d, <1>e
  <2> QED BY <1>a, <1>d, <1>p, <2>1 DEF NothingLost
<1> QED BY <1>1, <1>2, <1>3, <1>4, <1>5, <1>6, <1>7, <1>8 DEF IInv

-----------------------------------------------------------------------------
\* Sums of bytes.

LEMMA BytesOfOne ==
  ASSUME NEW x, NEW n \in Nat
  PROVE  IsFiniteSet({x} \X (1 .. n)) /\ Cardinality({x} \X (1 .. n)) = n
<1>1. IsFiniteSet({x}) /\ Cardinality({x}) = 1
  BY FS_Singleton
<1>2. IsFiniteSet(1 .. n) /\ Cardinality(1 .. n) = n
  BY FS_Interval
<1>3. /\ IsFiniteSet({x} \X (1 .. n))
      /\ Cardinality({x} \X (1 .. n)) = Cardinality({x}) * Cardinality(1 .. n)
  BY <1>1, <1>2, FS_Product
<1> QED BY <1>1, <1>2, <1>3

LEMMA BytesType ==
  ASSUME NEW S, IsFiniteSet(S), NEW f \in [S -> Nat]
  PROVE  /\ IsFiniteSet(UNION {{x} \X (1 .. f[x]) : x \in DOMAIN f})
         /\ Bytes(f) \in Nat
<1> DEFINE T == {{x} \X (1 .. f[x]) : x \in DOMAIN f}
           g == [x \in S |-> {x} \X (1 .. f[x])]
<1>1. DOMAIN f = S
  OBVIOUS
<1>2. g \in Surjection(S, T)
  <2>1. \A x \in S : g[x] \in T
    BY <1>1
  <2>2. \A y \in T : \E x \in S : g[x] = y
    BY <1>1
  <2> QED BY <2>1, <2>2 DEF Surjection
<1>3. IsFiniteSet(T)
  BY <1>2, FS_Surjection
<1>4. ASSUME NEW y \in T PROVE IsFiniteSet(y)
  <2>1. PICK x \in S : y = {x} \X (1 .. f[x])
    BY <1>1
  <2>2. f[x] \in Nat
    OBVIOUS
  <2> QED BY <2>1, <2>2, BytesOfOne
<1>5. IsFiniteSet(UNION T)
  BY <1>3, <1>4, FS_UNION
<1> QED BY <1>5, FS_CardinalityType DEF Bytes

\* One size more.
LEMMA BytesOneMore ==
  ASSUME NEW S, IsFiniteSet(S), NEW f \in [S -> Nat], NEW x, x \notin S,
         NEW g \in [S \cup {x} -> Nat], \A y \in S : g[y] = f[y]
  PROVE  Bytes(g) = Bytes(f) + g[x]
<1> DEFINE P == UNION {{y} \X (1 .. f[y]) : y \in DOMAIN f}
           Q == UNION {{y} \X (1 .. g[y]) : y \in DOMAIN g}
           R == {x} \X (1 .. g[x])
<1>1. DOMAIN f = S /\ DOMAIN g = S \cup {x} /\ g[x] \in Nat
  OBVIOUS
<1>2. Q = P \cup R
  BY <1>1
<1>3. P \cap R = {}
  BY <1>1
<1>4. IsFiniteSet(P) /\ Cardinality(P) \in Nat
  BY BytesType, FS_CardinalityType
<1>5. IsFiniteSet(R) /\ Cardinality(R) = g[x]
  BY <1>1, BytesOfOne
<1> HIDE DEF P, Q, R
<1>6. Cardinality(Q) = Cardinality(P) + Cardinality(R) - 0
  <2>1. Cardinality(P \cup R) = Cardinality(P) + Cardinality(R) - Cardinality(P \cap R)
    BY <1>4, <1>5, FS_Union
  <2>2. Cardinality(P \cap R) = 0
    BY <1>3, FS_EmptySet
  <2> QED BY <1>2, <2>1, <2>2
<1>7. Cardinality(Q) = Cardinality(P) + g[x]
  BY <1>1, <1>4, <1>5, <1>6
<1> QED BY <1>7 DEF Bytes, P, Q

LEMMA BytesNone ==
  ASSUME NEW f, DOMAIN f = {}
  PROVE  Bytes(f) = 0
<1>1. UNION {{x} \X (1 .. f[x]) : x \in DOMAIN f} = {}
  OBVIOUS
<1> QED BY <1>1, FS_EmptySet DEF Bytes

LEMMA BytesAlone ==
  ASSUME NEW x, NEW f, DOMAIN f = {x}, f[x] \in Nat
  PROVE  Bytes(f) = f[x]
<1>1. UNION {{y} \X (1 .. f[y]) : y \in DOMAIN f} = {x} \X (1 .. f[x])
  OBVIOUS
<1> QED BY <1>1, BytesOfOne DEF Bytes

-----------------------------------------------------------------------------
\* The budget.

\* The bytes of the requests in K.
Payloads(K) == Bytes([k \in K |-> BytesOf[k]])

\* Alone, an offload has passed the check with all the others finished.
Ledger ==
  /\ committed = Payloads(DOMAIN snapshots)
  /\ ~overlapped =>
       /\ \A h, i \in Offloading : h = i
       /\ committed <= MemoryBudget
       /\ \A h \in Offloading : committed + BytesOf[transfer[h].key] <= MemoryBudget

LEMMA PayloadsType ==
  ASSUME NEW K \in SUBSET Key
  PROVE  /\ Payloads(K) \in Nat
         /\ \A k \in Key \ K : /\ BytesOf[k] \in Nat
                               /\ Payloads(K \cup {k}) = Payloads(K) + BytesOf[k]
<1>1. IsFiniteSet(K)
  BY HostStateAssumption, FS_Subset
<1>2. \A L \in SUBSET Key : [k \in L |-> BytesOf[k]] \in [L -> Nat]
  BY HostStateAssumption
<1>3. Payloads(K) \in Nat
  BY <1>1, <1>2, BytesType DEF Payloads
<1>4. ASSUME NEW k \in Key \ K
      PROVE  Payloads(K \cup {k}) = Payloads(K) + BytesOf[k]
  <2> DEFINE f == [i \in K |-> BytesOf[i]]
             g == [i \in K \cup {k} |-> BytesOf[i]]
  <2>1. f \in [K -> Nat] /\ g \in [K \cup {k} -> Nat]
    BY HostStateAssumption
  <2>2. \A y \in K : g[y] = f[y]
    OBVIOUS
  <2>3. g[k] = BytesOf[k]
    OBVIOUS
  <2> HIDE DEF f, g
  <2>4. Bytes(g) = Bytes(f) + g[k]
    BY <1>1, <2>1, <2>2, BytesOneMore
  <2> QED BY <2>3, <2>4 DEF Payloads, f, g
<1> QED BY <1>3, <1>4, HostStateAssumption

\* A step that commits and releases nothing, with no offload more.
LEMMA QuietLedger ==
  ASSUME Ledger, committed' = committed, DOMAIN snapshots' = DOMAIN snapshots,
         overlapped' = overlapped,
         \A h \in Offloading' : h \in Offloading /\ transfer'[h].key = transfer[h].key
  PROVE  Ledger'
BY DEF Ledger, Payloads

LEMMA OffloadingHandles ==
  ASSUME TypeOK
  PROVE  /\ Offloading \subseteq Active
         /\ \A h \in Offloading : h \in Handle /\ transfer[h].key \in Key
  BY Types DEF Offloading, Active, ActivePhase

LEMMA OffloadLedger ==
  ASSUME IInv, Ledger, NEW k \in Key, Offload(k)
  PROVE  Ledger'
<1>1. /\ NewHandle \notin Handle /\ Handle' = Handle \cup {NewHandle}
      /\ \A h \in Handle : transfer'[h] = transfer[h]
      /\ transfer'[NewHandle].key = k
  <2>1. /\ Started(k, lease[k], FALSE, NewHandle) /\ lease[k] # NoBlock
    BY DEF Offload, NewHandle
  <2>2. NewHandle \in 1..NewHandle /\ lease[k] \in Block
    <3>1. NewHandle \in Nat \ {0} /\ Handle = 1..(NewHandle - 1)
      BY HandlesNumbered DEF IInv, NewHandle
    <3> QED BY <2>1, <3>1, NextHandle DEF IInv, TypeOK
  <2> QED BY <2>1, <2>2, StartedFields DEF IInv
<1>2. /\ UNCHANGED <<snapshots, committed>> /\ WithinBudget(k)
      /\ overlapped' = (overlapped \/ Offloading # {})
  BY DEF Offload
<1>3. Offloading' \subseteq Offloading \cup {NewHandle}
  BY <1>1 DEF Offloading
<1>4. committed \in Nat /\ BytesOf[k] \in Nat /\ MemoryBudget \in Nat
  <2>1. DOMAIN snapshots \in SUBSET Key
    BY DEF IInv, TypeOK
  <2> QED BY <2>1, PayloadsType, HostStateAssumption DEF Ledger
<1>5. ASSUME ~overlapped'
      PROVE  /\ \A h, i \in Offloading' : h = i
             /\ committed' <= MemoryBudget
             /\ \A h \in Offloading' :
                  committed' + BytesOf[transfer'[h].key] <= MemoryBudget
  <2>1. Offloading = {} /\ committed + BytesOf[k] <= MemoryBudget
    BY <1>2, <1>5 DEF WithinBudget
  <2>2. \A h \in Offloading' : h = NewHandle
    BY <1>3, <2>1
  <2> QED BY <1>1, <1>2, <1>4, <2>1, <2>2
<1> QED BY <1>2, <1>5 DEF Ledger

LEMMA FinishOffloadLedger ==
  ASSUME IInv, Ledger, NEW h \in Handle, Finish(h), ~transfer[h].restore
  PROVE  Ledger'
<1> DEFINE k == transfer[h].key
<1>1. /\ transfer[h].phase = "copied" /\ Phase(h, "terminal")
      /\ DOMAIN snapshots' = DOMAIN snapshots \cup {k}
      /\ committed' = committed + BytesOf[k] /\ overlapped' = overlapped
  BY DEF Finish
<1>2. /\ Handle' = Handle /\ transfer'[h].phase = "terminal"
      /\ \A i \in Handle : /\ transfer'[i].key = transfer[i].key
                           /\ transfer'[i].restore = transfer[i].restore
                           /\ i # h => transfer'[i].phase = transfer[i].phase
  BY <1>1, PhaseFields DEF IInv, Phases
<1>3. h \in Offloading /\ h \in Active
  BY <1>1 DEF Offloading, Active, ActivePhase
<1>4. k \in Key \ DOMAIN snapshots /\ DOMAIN snapshots \in SUBSET Key
  BY <1>3, Types DEF IInv, Endpoints, TypeOK
<1>5. Offloading' = Offloading \ {h}
  BY <1>2 DEF Offloading
<1>6. committed' = Payloads(DOMAIN snapshots')
  BY <1>1, <1>4, PayloadsType DEF Ledger
<1>7. ~overlapped => Offloading' = {} /\ committed' <= MemoryBudget
  BY <1>1, <1>3, <1>5 DEF Ledger
<1> QED BY <1>1, <1>6, <1>7 DEF Ledger, Payloads

LEMMA ReleaseLedger ==
  ASSUME IInv, Ledger, NEW k \in Key, Release(k)
  PROVE  Ledger'
<1> DEFINE K == DOMAIN snapshots \ {k}
<1>1. /\ k \in DOMAIN snapshots /\ DOMAIN snapshots' = K
      /\ committed' = committed - BytesOf[k] /\ overlapped' = overlapped
      /\ transfer' = transfer
  BY DEF Release, Releasable
<1>2. K \in SUBSET Key /\ k \in Key \ K /\ DOMAIN snapshots = K \cup {k}
  BY <1>1 DEF IInv, TypeOK
<1> HIDE DEF K
<1>3. /\ Payloads(K) \in Nat /\ BytesOf[k] \in Nat
      /\ Payloads(K \cup {k}) = Payloads(K) + BytesOf[k]
  BY <1>2, PayloadsType
<1>4. /\ committed \in Nat /\ committed' \in Nat /\ committed' <= committed
      /\ committed' = Payloads(DOMAIN snapshots')
  BY <1>1, <1>2, <1>3 DEF Ledger
<1>5. Offloading' = Offloading
  BY <1>1 DEF Offloading, Handle
<1>6. \A h \in Offloading : BytesOf[transfer[h].key] \in Nat
  BY OffloadingHandles, HostStateAssumption DEF IInv
<1>7. MemoryBudget \in Nat
  BY HostStateAssumption
<1>8. ASSUME ~overlapped
      PROVE  /\ \A h, i \in Offloading' : h = i
             /\ committed' <= MemoryBudget
             /\ \A h \in Offloading' :
                  committed' + BytesOf[transfer'[h].key] <= MemoryBudget
  <2>1. /\ \A h, i \in Offloading : h = i
        /\ committed <= MemoryBudget
        /\ \A h \in Offloading : committed + BytesOf[transfer[h].key] <= MemoryBudget
    BY <1>8 DEF Ledger
  <2> QED BY <1>1, <1>4, <1>5, <1>6, <1>7, <2>1
<1> QED BY <1>1, <1>4, <1>8 DEF Ledger

LEMMA PhaseLedger ==
  ASSUME IInv, Ledger, NEW h \in Handle, NEW p \in Phases, Phase(h, p),
         h \notin Offloading => (transfer[h].restore \/ p \notin ActivePhase),
         committed' = committed, DOMAIN snapshots' = DOMAIN snapshots,
         overlapped' = overlapped
  PROVE  Ledger'
<1>1. /\ Handle' = Handle
      /\ \A i \in Handle : /\ transfer'[i].key = transfer[i].key
                           /\ transfer'[i].restore = transfer[i].restore
                           /\ i # h => transfer'[i].phase = transfer[i].phase
      /\ transfer'[h].phase = p
  BY PhaseFields DEF IInv
<1>2. \A i \in Offloading' : i \in Offloading /\ transfer'[i].key = transfer[i].key
  BY <1>1 DEF Offloading, ActivePhase
<1> QED BY <1>2, QuietLedger

LEMMA StepLedger == IInv /\ Ledger /\ [Next]_vars => Ledger'
<1> SUFFICES ASSUME IInv, Ledger, [Next]_vars PROVE Ledger'
  OBVIOUS
<1>1. CASE UNCHANGED vars
  BY <1>1 DEF vars, backendVars, Ledger, Payloads, Offloading, Handle
<1>2. ASSUME NEW k \in Key, Begin(k) \/ Write(k) \/ GiveUp(k)
      PROVE  Ledger'
  <2>1. UNCHANGED <<snapshots, committed, transfer, overlapped>>
    BY <1>2 DEF Begin, Write, GiveUp, backendVars
  <2> QED BY <2>1 DEF Ledger, Payloads, Offloading, Handle
<1>3. ASSUME NEW k \in Key, Offload(k) \/ Release(k)
      PROVE  Ledger'
  BY <1>3, OffloadLedger, ReleaseLedger
<1>4. ASSUME NEW k \in Key, Restore(k)
      PROVE  Ledger'
  <2>1. PICK b \in Block : Started(k, b, TRUE, snapshots[k].payload)
    BY <1>4 DEF Restore, FreeBlock
  <2>2. /\ k \in DOMAIN snapshots /\ committed' = committed /\ overlapped' = overlapped
        /\ DOMAIN snapshots' = DOMAIN snapshots
    BY <1>4 DEF Restore
  <2>3. snapshots[k].payload \in 1..NewHandle
    <3>1. snapshots[k].payload \in Handle
      BY <2>2, Types DEF IInv
    <3>2. NewHandle \in Nat \ {0} /\ Handle = 1..(NewHandle - 1)
      BY HandlesNumbered DEF IInv, NewHandle
    <3>3. 1..NewHandle = Handle \cup {NewHandle}
      BY <3>2, NextHandle
    <3> QED BY <3>1, <3>3
  <2>4. /\ Handle' = Handle \cup {NewHandle} /\ transfer'[NewHandle].restore = TRUE
        /\ \A h \in Handle : transfer'[h] = transfer[h]
    BY <2>1, <2>3, StartedFields DEF IInv
  <2>5. \A h \in Offloading' : h \in Offloading /\ transfer'[h].key = transfer[h].key
    BY <2>4 DEF Offloading
  <2> QED BY <2>2, <2>5, QuietLedger
<1>5. ASSUME NEW h \in Handle, Enqueue(h)
      PROVE  Ledger'
  <2>1. /\ Phase(h, "enqueued")
        /\ h \notin Offloading => transfer[h].restore
        /\ UNCHANGED <<snapshots, committed, overlapped>>
    BY <1>5, Types DEF Enqueue, Offloading, backendVars, IInv
  <2>2. "enqueued" \in Phases
    BY DEF Phases, ActivePhase
  <2> QED BY <2>1, <2>2, PhaseLedger
<1>6. ASSUME NEW h \in Handle, EnqueueRaises(h)
      PROVE  Ledger'
  <2>1. PICK p \in {"raised", "orphaned"} : Phase(h, p)
    BY <1>6 DEF EnqueueRaises
  <2>2. p \in Phases \ ActivePhase
    BY DEF Phases, ActivePhase
  <2>3. /\ committed' = committed /\ overlapped' = overlapped
        /\ DOMAIN snapshots' = DOMAIN snapshots
    BY <1>6 DEF EnqueueRaises
  <2> QED BY <2>1, <2>2, <2>3, PhaseLedger
<1>7. ASSUME NEW h \in Handle, Copy(h)
      PROVE  Ledger'
  <2>1. UNCHANGED <<snapshots, committed, overlapped>>
    BY <1>7 DEF Copy, backendVars
  <2>2. CASE transfer[h].phase = "enqueued" /\ Phase(h, "copied")
    <3>1. h \notin Offloading => transfer[h].restore
      BY <2>2, Types DEF Offloading, IInv
    <3>2. "copied" \in Phases
      BY DEF Phases, ActivePhase
    <3> QED BY <2>1, <2>2, <3>1, <3>2, PhaseLedger
  <2>3. CASE transfer[h].phase = "orphaned" /\ Phase(h, "raised")
    <3>1. "raised" \in Phases \ ActivePhase
      BY DEF Phases, ActivePhase
    <3> QED BY <2>1, <2>3, <3>1, PhaseLedger
  <2> QED BY <1>7, <2>2, <2>3 DEF Copy
<1>8. ASSUME NEW h \in Handle, Finish(h)
      PROVE  Ledger'
  <2>1. CASE transfer[h].restore
    <3>1. /\ Phase(h, "terminal") /\ committed' = committed /\ overlapped' = overlapped
          /\ DOMAIN snapshots' = DOMAIN snapshots
      BY <1>8, <2>1 DEF Finish
    <3>2. "terminal" \in Phases \ ActivePhase
      BY DEF Phases, ActivePhase
    <3> QED BY <3>1, <3>2, PhaseLedger
  <2> QED BY <1>8, <2>1, FinishOffloadLedger
<1> QED BY <1>1, <1>2, <1>3, <1>4, <1>5, <1>6, <1>7, <1>8 DEF Next

LEMMA InitLedger == Init => Ledger
<1> SUFFICES ASSUME Init PROVE Ledger
  OBVIOUS
<1>1. /\ DOMAIN snapshots = {} /\ Handle = {} /\ committed = 0
  BY DEF Init, Handle
<1>2. Payloads({}) = 0
  BY BytesNone DEF Payloads
<1>3. MemoryBudget \in Nat
  BY HostStateAssumption
<1> QED BY <1>1, <1>2, <1>3 DEF Ledger, Offloading

-----------------------------------------------------------------------------
\* The theorems.

LEMMA InitOK == Init => IInv
<1> SUFFICES ASSUME Init PROVE IInv
  OBVIOUS
<1>1. /\ transfer = <<>> /\ Handle = {} /\ DOMAIN snapshots = {}
      /\ DOMAIN payload = {} /\ inflight = {} /\ Active = {} /\ Writing = {}
  BY DEF Init, Handle, Active, Writing
<1>2. transfer \in [1..0 -> Transfer(0)]
  BY <1>1
<1>3. TypeOK
  BY <1>1, <1>2 DEF Init, TypeOK
<1>4. OneTransfer /\ Endpoints /\ Published /\ Restored
  BY <1>1 DEF OneTransfer, Endpoints, Published, Restored
<1>5. Exclusive /\ Begun /\ NothingLost
  BY <1>1 DEF Init, Exclusive, Begun, NothingLost
<1> QED BY <1>3, <1>4, <1>5 DEF IInv

LEMMA StepOK == IInv /\ [Next]_vars => IInv'
<1> SUFFICES ASSUME IInv, [Next]_vars PROVE IInv'
  OBVIOUS
<1>1. CASE UNCHANGED vars
  BY <1>1 DEF vars, backendVars, callerVars, IInv, TypeOK, OneTransfer, Endpoints,
     Published, Exclusive, Begun, Restored, NothingLost, Handle, Active, Writing
<1>2. ASSUME NEW k \in Key, Begin(k) \/ Write(k) \/ GiveUp(k)
      PROVE  IInv'
  BY <1>2, BeginKeeps, WriteKeeps, GiveUpKeeps
<1>3. ASSUME NEW k \in Key, Offload(k) \/ Restore(k) \/ Release(k)
      PROVE  IInv'
  BY <1>3, OffloadKeeps, RestoreKeeps, ReleaseKeeps
<1>4. ASSUME NEW h \in Handle, Enqueue(h) \/ EnqueueRaises(h)
      PROVE  IInv'
  BY <1>4, EnqueueKeeps, EnqueueRaisesKeeps
<1>5. ASSUME NEW h \in Handle, Copy(h) \/ Finish(h)
      PROVE  IInv'
  BY <1>5, CopyRestoreKeeps, CopyOffloadKeeps, FinishRestoreKeeps, FinishOffloadKeeps
<1> QED BY <1>1, <1>2, <1>3, <1>4, <1>5 DEF Next

THEOREM Inductive == Spec => []IInv
BY InitOK, StepOK, PTL DEF Spec

\* The newest State of every request survives every order of transfers, releases
\* and failed enqueues, for any number of requests, blocks and transfers.
THEOREM StateNeverLost == Spec => []NothingLost
<1>1. IInv => NothingLost
  BY DEF IInv
<1> QED BY <1>1, Inductive, PTL

\* No completion is refused: _finish_transfer neither finds a stale key nor a
\* restore without its pinned snapshot.
THEOREM CompletionsSound == Spec => []CompletionSound
<1>1. IInv => CompletionSound
  <2> SUFFICES ASSUME IInv, NEW h \in Handle, transfer[h].phase = "copied"
               PROVE  ~Refused(h)
    BY DEF CompletionSound
  <2>1. h \in Active
    BY DEF Active, ActivePhase
  <2>2. /\ OneTransfer /\ Endpoints
        /\ \A k \in DOMAIN snapshots : snapshots[k].pins \in Nat
    BY Types DEF IInv
  <2> QED BY <2>1, <2>2 DEF Refused, OneTransfer, Endpoints
<1> QED BY <1>1, Inductive, PTL

\* The committed bytes are those of the snapshots, and as long as no two offloads
\* were in flight together the budget holds them and the payload in flight.
THEOREM BudgetHolds == Spec => []BudgetAlone
<1>1. Init => Ledger
  BY InitLedger
<1>2. IInv /\ Ledger /\ [Next]_vars => Ledger'
  BY StepLedger
<1>3. IInv /\ Ledger => BudgetAlone
  <2> SUFFICES ASSUME IInv, Ledger PROVE BudgetAlone
    OBVIOUS
  <2>1. committed = Bytes([k \in DOMAIN snapshots |-> BytesOf[k]])
    BY DEF Ledger, Payloads
  <2>2. ASSUME ~overlapped
        PROVE  committed + Bytes([h \in Offloading |-> BytesOf[transfer[h].key]])
                 <= MemoryBudget
    <3> DEFINE f == [h \in Offloading |-> BytesOf[transfer[h].key]]
    <3>1. /\ \A h, i \in Offloading : h = i
          /\ committed <= MemoryBudget
          /\ \A h \in Offloading : committed + BytesOf[transfer[h].key] <= MemoryBudget
      BY <2>2 DEF Ledger
    <3>2. committed \in Nat
      <4>1. DOMAIN snapshots \in SUBSET Key
        BY DEF IInv, TypeOK
      <4> QED BY <4>1, PayloadsType DEF Ledger
    <3>3. CASE Offloading = {}
      <4>1. Bytes(f) = 0
        BY <3>3, BytesNone
      <4> QED BY <3>1, <3>2, <4>1
    <3>4. CASE Offloading # {}
      <4>1. PICK h \in Offloading : Offloading = {h}
        BY <3>1, <3>4
      <4>2. BytesOf[transfer[h].key] \in Nat
        BY OffloadingHandles, HostStateAssumption DEF IInv
      <4>3. DOMAIN f = {h} /\ f[h] = BytesOf[transfer[h].key]
        BY <4>1
      <4> HIDE DEF f
      <4>4. Bytes(f) = BytesOf[transfer[h].key]
        BY <4>2, <4>3, BytesAlone
      <4> QED BY <3>1, <4>4 DEF f
    <3> QED BY <3>3, <3>4
  <2> QED BY <2>1, <2>2 DEF BudgetAlone
<1> QED BY <1>1, <1>2, <1>3, Inductive, PTL DEF Spec
==============================================================================
