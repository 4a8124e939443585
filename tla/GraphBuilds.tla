----------------------------- MODULE GraphBuilds -----------------------------
(***************************************************************************)
(* What one rank's graph backend owns while a generation is built          *)
(* (live/runtime/graph_backend.py): the census of warmed programs, the     *)
(* capture pools with their users, the metadata programs that captures     *)
(* share, the captured executions, and what outlives a calibration capture *)
(* in a handoff, its native graph and its input buffers.                   *)
(*                                                                         *)
(* A generation is named by the identity of its token, which Python may    *)
(* give to the next one again: the keys here leave it out altogether.      *)
(* `warmed` notes the attempt that warmed a program; the code keeps a set. *)
(***************************************************************************)
EXTENDS Integers, FiniteSets, FiniteSetsExt, Functions

CONSTANTS
  WarmKeyOf,  \* per graph of the portfolio, graph_warmup_key
  PoolOf,     \* per graph, graph_pool_key
  ProgramOf   \* per graph, graph_metadata_key

\* The graphs, in the order of the portfolio.
Graph == DOMAIN PoolOf
NoGraph == 0

ASSUME GraphAssumption ==
  /\ IsFiniteSet(Graph) /\ Graph # {} /\ Graph = 1..Cardinality(Graph)
  /\ DOMAIN WarmKeyOf = Graph /\ DOMAIN ProgramOf = Graph

EmptyBackend ==
  [warmed   |-> [k \in Range(WarmKeyOf) |-> 0],
   users    |-> [k \in Range(PoolOf) |-> 0],
   program  |-> [k \in Range(ProgramOf) |-> NoGraph],
   open     |-> {},                    \* executions that are not closed
   native   |-> [g \in Graph |-> 0],   \* bytes of the native graph, 0 for none
   inputs   |-> [g \in Graph |-> 0],   \* input buffers on the device
   retained |-> {}]                    \* input handoffs of retired captures

\* The pool handoffs: native graphs that no execution can replay any more.
Handed(b) == {g \in Graph \ b.open : b.native[g] > 0}

\* The units of f, one by one: as a set, their number is known to be a number.
Laid(f) == UNION {{g} \X (1 .. f[g]) : g \in Graph}

DeviceBytes(b) == Cardinality(Laid(b.native)) + Cardinality(Laid(b.inputs))

-----------------------------------------------------------------------------
\* Warm-up and capture.

\* A program is warmed once for all the graphs that share it.
Warmed(b, g, attempt) ==
  IF b.warmed[WarmKeyOf[g]] # 0 THEN b
  ELSE [b EXCEPT !.warmed[WarmKeyOf[g]] = attempt]

\* A capture takes the inputs of its handoff if there is one, and the metadata
\* program of an open capture if there is one.
Captured(b, g, bytes, attempt) ==
  [Warmed(b, g, attempt) EXCEPT
     !.users[PoolOf[g]] = @ + 1,
     !.program[ProgramOf[g]] = IF @ = NoGraph THEN g ELSE @,
     !.open = @ \cup {g},
     !.native[g] = bytes,
     !.inputs[g] = IF g \in b.retained THEN @ ELSE @ + 1,
     !.retained = @ \ {g}]

\* Faulty CaptureAborted: the user of the pool is not taken back.
CaptureAbortedInPool(b, g, attempt) ==
  [Warmed(b, g, attempt) EXCEPT
     !.users[PoolOf[g]] = @ + 1,
     !.inputs[g] = IF g \in b.retained THEN @ - 1 ELSE @,
     !.retained = @ \ {g}]

\* A capture that raises gives back its native graph, its metadata, its inputs,
\* those of its handoff too, and its use of the pool.
CaptureAborted(b, g, attempt) ==
  [Warmed(b, g, attempt) EXCEPT
     !.inputs[g] = IF g \in b.retained THEN @ - 1 ELSE @,
     !.retained = @ \ {g}]

-----------------------------------------------------------------------------
\* The end of an execution.

ForgetProgram(b, g) ==
  [b EXCEPT !.program = [k \in DOMAIN @ |-> IF @[k] = g THEN NoGraph ELSE @[k]]]

\* Faulty Retained: the execution does not know that its inputs are retained.
RetainedNotMarked(b, g) ==
  [ForgetProgram(b, g) EXCEPT
     !.open = @ \ {g}, !.users[PoolOf[g]] = @ - 1,
     !.inputs[g] = @ - 1, !.retained = @ \cup {g}]

\* retain_calibration_inputs and retain_calibration_pool: the execution is
\* closed, its inputs and its native graph are not.
Retained(b, g) ==
  [ForgetProgram(b, g) EXCEPT
     !.open = @ \ {g}, !.users[PoolOf[g]] = @ - 1, !.retained = @ \cup {g}]

\* The metadata of the execution raises: its native graph is reset.
RetainAborted(b, g) == [Retained(b, g) EXCEPT !.native[g] = 0]

\* The executions of `closing` closed, reset and without their inputs.
Closed(b, closing) ==
  [b EXCEPT
     !.users = [k \in DOMAIN @ |-> @[k] - Cardinality({g \in closing : PoolOf[g] = k})],
     !.program = [k \in DOMAIN @ |-> IF @[k] \in closing THEN NoGraph ELSE @[k]],
     !.native = [g \in Graph |-> IF g \in closing THEN 0 ELSE @[g]],
     !.inputs = [g \in Graph |-> IF g \in closing THEN @[g] - 1 ELSE @[g]],
     !.open = @ \ closing]

PoolsHandedBack(b) ==
  [b EXCEPT !.native = [g \in Graph |-> IF g \in Handed(b) THEN 0 ELSE @[g]]]

InputsHandedBack(b) ==
  [b EXCEPT !.inputs = [g \in Graph |-> IF g \in b.retained THEN @[g] - 1 ELSE @[g]],
            !.retained = {}]

\* retire_generation refuses while a pool or a metadata program is left.
StillLive(b) ==
  \/ \E k \in DOMAIN b.users : b.users[k] # 0
  \/ \E k \in DOMAIN b.program : b.program[k] # NoGraph

\* Faulty GenerationRetired: the census of warmed programs is kept.
GenerationRetiredWarm(b) == b

GenerationRetired(b) ==
  IF StillLive(b) THEN b ELSE [b EXCEPT !.warmed = [k \in DOMAIN @ |-> 0]]

\* The graph part of a rollback, or of the close of a root, that has closed the
\* executions of `closing`.
Released(b, closing) ==
  GenerationRetired(InputsHandedBack(PoolsHandedBack(Closed(b, closing))))
=============================================================================
