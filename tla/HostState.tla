------------------------------ MODULE HostState ------------------------------
(***************************************************************************)
(* The host residency of State (TorchHostStateBackend): the State of one   *)
(* request incarnation is copied to a pinned host payload (offload), its   *)
(* device blocks go to others, and it is copied back later (restore).      *)
(*                                                                         *)
(* Threads call the backend, whose lock covers the parts below that are    *)
(* one action; the copies run on the device between the enqueue and the    *)
(* event. A handle is observed by one thread, the one that asked for it.   *)
(* The callers, external here, keep what the class asks of them: the       *)
(* device lease of a source until its offload is terminal, a destination   *)
(* unpublished until its restore is.                                       *)
(***************************************************************************)
EXTENDS Integers, FiniteSets

CONSTANTS
  Key,           \* request incarnations (HostStateKey)
  Block,         \* selections of device blocks, each holds one State
  BytesOf,       \* per key, the bytes of its payload
  MemoryBudget,  \* memory_budget_bytes
  MaxTransfer,   \* bound: transfers that are ever asked for
  MaxVersion,    \* bound: how often a State is written
  NoBlock        \* no device blocks

ASSUME HostStateAssumption ==
  /\ IsFiniteSet(Key) /\ NoBlock \notin Block
  /\ BytesOf \in [Key -> Nat \ {0}] /\ MemoryBudget \in Nat \ {0}
  /\ MaxTransfer \in Nat /\ MaxVersion \in Nat

VARIABLES
  snapshots,   \* _snapshots: key -> [payload, pins], partial
  inflight,    \* _inflight
  committed,   \* _committed_bytes
  transfer,    \* the transfers so far, a sequence indexed by their handle
  payload,     \* per handle of an offload, what its host buffer holds
  block,       \* what the device blocks hold
  lease,       \* per key, the blocks where its request computes
  version,     \* per key, the newest version of its State
  overlapped   \* history: two offloads have been in flight together

backendVars == <<snapshots, inflight, committed>>
callerVars == <<block, lease, version>>
vars == <<backendVars, transfer, payload, callerVars, overlapped>>

Handle == DOMAIN transfer
NoContent == <<>>

Offloading == {h \in Handle : ~transfer[h].restore
                              /\ transfer[h].phase \in {"admitted", "enqueued", "copied"}}
Restoring == {h \in Handle : transfer[h].restore
                             /\ transfer[h].phase \in {"admitted", "enqueued", "copied"}}

\* Blocks nobody computes in and no copy reads or writes, also none of those an
\* enqueue that raised has left on the stream: the backend does not wait for them.
FreeBlock ==
  {b \in Block : /\ \A k \in Key : lease[k] # b
                 /\ \A h \in Handle : \/ transfer[h].phase \in {"raised", "terminal"}
                                      \/ transfer[h].block # b}

-----------------------------------------------------------------------------
\* Starting a transfer. The lock is given up before the copies are enqueued.

Started(k, b, restore, source) ==
  /\ Cardinality(Handle) < MaxTransfer
  /\ inflight' = inflight \cup {k}
  /\ transfer' = [h \in 1..(Cardinality(Handle) + 1) |->
                    IF h \in Handle THEN transfer[h]
                    ELSE [key |-> k, block |-> b, restore |-> restore,
                          payload |-> source, phase |-> "admitted"]]

\* Faulty Duplicate: an offload in flight does not count.
DuplicateSnapshot(k) == k \in DOMAIN snapshots

Duplicate(k) == k \in DOMAIN snapshots \/ k \in inflight

\* Faulty WithinBudget: the payload is not counted.
WithinBudgetBefore(k) == committed <= MemoryBudget

\* What is in flight is not committed, the check does not see it.
WithinBudget(k) == committed + BytesOf[k] <= MemoryBudget

Offload(k) ==
  LET h == Cardinality(Handle) + 1 IN
  /\ lease[k] # NoBlock
  /\ ~Duplicate(k) /\ WithinBudget(k)
  /\ Started(k, lease[k], FALSE, h)
  /\ payload' = [i \in 1..h |-> IF i = h THEN NoContent ELSE payload[i]]
  /\ overlapped' = (overlapped \/ Offloading # {})
  /\ UNCHANGED <<snapshots, committed, callerVars>>

Restore(k) ==
  LET h == Cardinality(Handle) + 1 IN
  /\ lease[k] = NoBlock
  /\ k \in DOMAIN snapshots /\ k \notin inflight
  /\ \E b \in FreeBlock : Started(k, b, TRUE, snapshots[k].payload)
  /\ snapshots' = [snapshots EXCEPT ![k].pins = @ + 1]
  /\ payload' = [i \in 1..h |-> IF i = h THEN NoContent ELSE payload[i]]
  /\ UNCHANGED <<committed, callerVars, overlapped>>

Phase(h, phase) == transfer' = [transfer EXCEPT ![h].phase = phase]

Enqueue(h) ==
  /\ transfer[h].phase = "admitted"
  /\ Phase(h, "enqueued")
  /\ UNCHANGED <<backendVars, payload, callerVars, overlapped>>

\* The enqueue raises at once, or with copies of some lanes on the stream.
EnqueueRaises(h) ==
  /\ transfer[h].phase = "admitted"
  /\ Phase(h, "raised") \/ Phase(h, "orphaned")
  /\ inflight' = inflight \ {transfer[h].key}
  /\ snapshots' = IF transfer[h].restore
                  THEN [snapshots EXCEPT ![transfer[h].key].pins = @ - 1] ELSE snapshots
  /\ UNCHANGED <<committed, payload, callerVars, overlapped>>

-----------------------------------------------------------------------------
\* The device.

Copy(h) ==
  LET t == transfer[h] IN
  /\ \/ t.phase = "enqueued" /\ Phase(h, "copied")
     \/ t.phase = "orphaned" /\ Phase(h, "raised")
  /\ IF t.restore
     THEN block' = [block EXCEPT ![t.block] = payload[t.payload]] /\ UNCHANGED payload
     ELSE payload' = [payload EXCEPT ![h] = block[t.block]] /\ UNCHANGED block
  /\ UNCHANGED <<backendVars, lease, version, overlapped>>

-----------------------------------------------------------------------------
\* done and result, and the end of a snapshot.

\* _finish_transfer raises, or an assertion of it fails.
Refused(h) ==
  LET t == transfer[h] IN
  \/ t.key \notin inflight
  \/ /\ t.restore
     /\ \/ t.key \notin DOMAIN snapshots
        \/ snapshots[t.key].payload # t.payload
        \/ snapshots[t.key].pins <= 0

\* Offload: the snapshot is published. Restore: the pin is returned, and the
\* caller publishes the destination.
Finish(h) ==
  LET k == transfer[h].key IN
  /\ transfer[h].phase = "copied" /\ ~Refused(h)
  /\ Phase(h, "terminal")
  /\ inflight' = inflight \ {k}
  /\ IF transfer[h].restore
     THEN /\ snapshots' = [snapshots EXCEPT ![k].pins = @ - 1]
          /\ lease' = [lease EXCEPT ![k] = transfer[h].block]
          /\ UNCHANGED committed
     ELSE /\ snapshots' = [i \in DOMAIN snapshots \cup {k} |->
                             IF i = k THEN [payload |-> h, pins |-> 0] ELSE snapshots[i]]
          /\ committed' = committed + BytesOf[k]
          /\ UNCHANGED lease
  /\ UNCHANGED <<payload, block, version, overlapped>>

\* Faulty Releasable: a transfer in flight does not protect the snapshot.
ReleasableInFlight(k) == k \in DOMAIN snapshots

Releasable(k) == k \in DOMAIN snapshots /\ k \notin inflight

\* A caller releases the host State of a request that computes again, or, too
\* early, while its restore is still in flight.
Release(k) ==
  /\ lease[k] # NoBlock \/ \E h \in Restoring : transfer[h].key = k
  /\ Releasable(k)
  /\ snapshots' = [i \in DOMAIN snapshots \ {k} |-> snapshots[i]]
  /\ committed' = committed - BytesOf[k]
  /\ UNCHANGED <<inflight, transfer, payload, callerVars, overlapped>>

-----------------------------------------------------------------------------
\* The requests. One with a lease computes, unless its blocks are being read.

Begin(k) ==
  /\ version[k] = 0
  /\ \E b \in FreeBlock : /\ lease' = [lease EXCEPT ![k] = b]
                          /\ block' = [block EXCEPT ![b] = <<k, 1>>]
  /\ version' = [version EXCEPT ![k] = 1]
  /\ UNCHANGED <<backendVars, transfer, payload, overlapped>>

Write(k) ==
  /\ lease[k] # NoBlock /\ version[k] < MaxVersion
  /\ \A h \in Offloading : transfer[h].key # k
  /\ version' = [version EXCEPT ![k] = @ + 1]
  /\ block' = [block EXCEPT ![lease[k]] = <<k, version[k] + 1>>]
  /\ UNCHANGED <<backendVars, transfer, payload, lease, overlapped>>

\* A request whose terminal snapshot holds its newest State gives its blocks up;
\* a snapshot that has fallen behind must be released and taken again.
GiveUp(k) ==
  /\ lease[k] # NoBlock /\ k \notin inflight
  /\ k \in DOMAIN snapshots /\ payload[snapshots[k].payload] = <<k, version[k]>>
  /\ lease' = [lease EXCEPT ![k] = NoBlock]
  /\ UNCHANGED <<backendVars, transfer, payload, block, version, overlapped>>

Init ==
  /\ snapshots = <<>> /\ inflight = {} /\ committed = 0
  /\ transfer = <<>> /\ payload = <<>>
  /\ block = [b \in Block |-> NoContent]
  /\ lease = [k \in Key |-> NoBlock] /\ version = [k \in Key |-> 0]
  /\ overlapped = FALSE

Next ==
  \/ \E k \in Key : \/ Begin(k) \/ Write(k) \/ GiveUp(k)
                    \/ Offload(k) \/ Restore(k) \/ Release(k)
  \/ \E h \in Handle : Enqueue(h) \/ EnqueueRaises(h) \/ Copy(h) \/ Finish(h)

Spec == Init /\ [][Next]_vars

-----------------------------------------------------------------------------
\* Properties.

\* The newest State of every request is where it computes, or, once it has given
\* its blocks up, in its one snapshot, also while a restore reads that snapshot
\* and another thread asks for its release.
NothingLost ==
  \A k \in Key : version[k] > 0 =>
    IF lease[k] # NoBlock THEN block[lease[k]] = <<k, version[k]>>
    ELSE k \in DOMAIN snapshots /\ payload[snapshots[k].payload] = <<k, version[k]>>

\* A transfer whose copies are done can be finished: no completion is stale and
\* no restore has lost its pinned snapshot, whatever other threads did between
\* its start and its end (_finish_transfer).
CompletionSound ==
  \A h \in Handle : transfer[h].phase = "copied" => ~Refused(h)

\* The sum of sizes, byte by byte.
Bytes(size) == Cardinality(UNION {{x} \X (1 .. size[x]) : x \in DOMAIN size})

\* The committed bytes are those of the snapshots, and they stay within the
\* budget as long as no two offloads are in flight together. When two are, each
\* has passed the check of offload without the other's bytes.
BudgetAlone ==
  /\ committed = Bytes([k \in DOMAIN snapshots |-> BytesOf[k]])
  /\ ~overlapped =>
       committed + Bytes([h \in Offloading |-> BytesOf[transfer[h].key]]) <= MemoryBudget
=============================================================================
