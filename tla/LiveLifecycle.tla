---------------------------- MODULE LiveLifecycle ----------------------------
(***************************************************************************)
(* The physical lifecycle of live modules (live/core/live_module.py) and   *)
(* of the invocations they admit (live/runtime/invocation.py,              *)
(* live_graph.py).                                                         *)
(*                                                                         *)
(* A root has children; each module has a graph, a state and hooks of its  *)
(* own.  Any module may be activated, which creates a generation for it    *)
(* and everything below it; each has its own phase and its own active      *)
(* invocations.  An action is one public call, made under the lock of the  *)
(* module it is made on, with whatever it raises.  Memory fitting rebinds  *)
(* state within one activation and is part of Activate.                    *)
(***************************************************************************)
EXTENDS Integers, Sequences, FiniteSets

CONSTANTS
  Root,           \* the module at the top
  Children,       \* the modules below it
  MaxGeneration,  \* bound: attempts to activate
  MaxInvocation   \* bound: invocations admitted

ASSUME LifecycleAssumption ==
  /\ Root \notin Children
  /\ MaxGeneration \in Nat /\ MaxInvocation \in Nat

Module == {Root} \cup Children

\* named_live_modules: a module and what is below it.
Subtree(m) == IF m = Root THEN Module ELSE {m}

VARIABLES
  phase,        \* phase of a module
  token,        \* generation of a module, 0 for none
  members,      \* modules of the generation a module has activated
  graph,        \* generation of a graph's execution, 0 if not prepared
  bound,        \* generation that a module's state is bound to
  resource,     \* generation a module's hooks hold resources of
  generations,  \* every attempt to activate: by whom, and whether it succeeded
  invocations   \* every invocation ever admitted

tree == <<phase, token, members>>
physical == <<graph, bound, resource>>
lifecycle == <<tree, physical, generations, invocations>>

Phases == {"created", "ready", "poisoned", "closing", "closed"}

InvocationPhases == {"bound", "prepared", "in-flight", "aborting", "retired"}

\* failed: it aborted.
Invocation ==
  [owner : Module, token : Nat \ {0}, phase : InvocationPhases,
   failed : BOOLEAN]

Id == DOMAIN invocations

Active(m) == {i \in Id : invocations[i].owner = m /\ invocations[i].phase # "retired"}

LifecycleInit ==
  /\ phase = [m \in Module |-> "created"]
  /\ token = [m \in Module |-> 0]
  /\ members = [m \in Module |-> {}]
  /\ graph = [m \in Module |-> 0]
  /\ bound = [m \in Module |-> 0]
  /\ resource = [m \in Module |-> 0]
  /\ generations = <<>>
  /\ invocations = <<>>

\* The function f with value v on the set S.
Overlay(f, S, v) == [m \in Module |-> IF m \in S THEN v ELSE f[m]]

-----------------------------------------------------------------------------
\* activate

Generation == Len(generations) + 1

CanTry(m) == phase[m] \in {"created", "closed"} /\ Generation <= MaxGeneration

\* Nothing of the subtree belongs to a generation: otherwise a prepared graph
\* is refused, or a bound state refuses to be bound again.
Unclaimed(m) == \A k \in Subtree(m) : graph[k] = 0 /\ bound[k] = 0

\* Everything is bound, initialized and captured before anything is published.
Activate(m) ==
  LET all == Subtree(m)
  IN  /\ CanTry(m) /\ Unclaimed(m)
      /\ generations' = Append(generations, [by |-> m, ready |-> TRUE])
      /\ graph' = Overlay(graph, all, Generation)
      /\ bound' = Overlay(bound, all, Generation)
      /\ resource' = Overlay(resource, all, Generation)
      /\ token' = Overlay(token, all, Generation)
      /\ phase' = Overlay(phase, all, "ready")
      /\ members' = [members EXCEPT ![m] = all]
      /\ UNCHANGED invocations

\* Faulty RollBack: the state of a failed activation stays bound.
KeptBound(m) ==
  /\ bound' = Overlay(bound, Subtree(m), Generation)
  /\ UNCHANGED graph

\* Executions, metadata and state of a failed activation are released.
RollBack(m) == UNCHANGED <<graph, bound>>

\* Any step of it raises, when the modules of `initialized` are, parents first.
\* The rollback collects what their release hooks raise: the modules of
\* `leaked` keep their resources.
ActivateFails(m) ==
  /\ CanTry(m) /\ Unclaimed(m)
  /\ generations' = Append(generations, [by |-> m, ready |-> FALSE])
  /\ \E initialized \in SUBSET Subtree(m) :
       /\ initialized # {} => m \in initialized
       /\ \E leaked \in SUBSET initialized :
            resource' = Overlay(Overlay(resource, initialized, 0), leaked, Generation)
  /\ RollBack(m)
  /\ UNCHANGED <<tree, invocations>>

-----------------------------------------------------------------------------
\* Invocations.

\* invoke and _admit
Invoke(m) ==
  /\ Len(invocations) < MaxInvocation
  /\ phase[m] = "ready" /\ graph[m] # 0
  /\ invocations' = Append(invocations,
       [owner |-> m, token |-> token[m], phase |-> "bound", failed |-> FALSE])
  /\ UNCHANGED <<tree, physical, generations>>

Moved(i, p) == invocations' = [invocations EXCEPT ![i].phase = p]

\* Faulty Poison: an invocation that fails before its replay poisons nothing.
PoisonInFlight(i) ==
  phase' = [phase EXCEPT ![invocations[i].owner] =
              IF invocations[i].phase = "prepared" THEN "poisoned" ELSE @]

\* _poison_after_failed_invocation
Poison(i) == phase' = [phase EXCEPT ![invocations[i].owner] = "poisoned"]

\* _abort: poisoning asserts a READY module.  If the assertion raises, the
\* invocation is left aborting, and active.
Abort(i) ==
  LET ready == phase[invocations[i].owner] = "ready"
  IN  /\ invocations' = [invocations EXCEPT
           ![i].phase = IF ready THEN "retired" ELSE "aborting",
           ![i].failed = TRUE]
      /\ IF ready THEN Poison(i) ELSE UNCHANGED phase

\* Whether the owner's graph has an execution to work on.
Prepared(i) == graph[invocations[i].owner] # 0

\* shadow_replay; whatever it raises aborts the invocation.
ShadowReplay(i) ==
  /\ invocations[i].phase = "bound"
  /\ \/ Prepared(i) /\ Moved(i, "prepared") /\ UNCHANGED phase
     \/ Abort(i)
  /\ UNCHANGED <<token, members, physical, generations>>

\* replay
Replay(i) ==
  /\ invocations[i].phase = "prepared"
  /\ \/ Prepared(i) /\ Moved(i, "in-flight") /\ UNCHANGED phase
     \/ Abort(i)
  /\ UNCHANGED <<token, members, physical, generations>>

\* retire, once the caller knows that the device is done
Retire(i) ==
  /\ invocations[i].phase = "in-flight"
  /\ Moved(i, "retired")
  /\ UNCHANGED <<tree, physical, generations>>

-----------------------------------------------------------------------------
\* close

\* Faulty CanClose: invocations that have not been replayed do not count.
CanCloseInFlight(m) ==
  /\ phase[m] \in {"ready", "poisoned"}
  /\ \A i \in Active(m) : invocations[i].phase # "in-flight"

\* The module's own invocations refuse a close.
CanClose(m) == phase[m] \in {"ready", "poisoned"} /\ Active(m) = {}

CloseCreated(m) ==
  /\ phase[m] = "created"
  /\ phase' = [phase EXCEPT ![m] = "closed"]
  /\ UNCHANGED <<token, members, physical, generations, invocations>>

\* A module that is a member of its parent's generation has none of its own:
\* nothing is released, and nothing leads out of CLOSING again but its parent.
CloseMember(m) ==
  /\ CanClose(m) /\ members[m] = {}
  /\ phase' = [phase EXCEPT ![m] = "closing"]
  /\ UNCHANGED <<token, members, physical, generations, invocations>>

\* The release of a graph raises.  The graphs before it, children first, are
\* released, it is forgotten, and the module stays CLOSING.
CloseFailsInGraph(m) ==
  /\ CanClose(m)
  /\ \E released \in SUBSET members[m] :
       /\ m \in released => released = members[m]
       /\ \E k \in released : graph[k] # 0
       /\ graph' = Overlay(graph, released, 0)
  /\ phase' = [phase EXCEPT ![m] = "closing"]
  /\ UNCHANGED <<token, members, bound, resource, generations, invocations>>

\* A release hook raises, after those of some modules below have run.  The
\* module keeps its generation, so that its close may be tried again.
CloseFailsInHook(m) ==
  /\ CanClose(m) /\ members[m] # {}
  /\ \E released \in SUBSET (members[m] \ {m}) :
       resource' = Overlay(resource, released, 0)
  /\ graph' = Overlay(graph, members[m], 0)
  /\ phase' = Overlay(phase, members[m], "poisoned")
  /\ UNCHANGED <<token, members, bound, generations, invocations>>

\* Faulty HooksReleased: a failed close is taken to have released its modules.
HooksReleasedOnce(m) ==
  resource' = Overlay(resource, {k \in members[m] : phase[k] = "ready"}, 0)

HooksReleased(m) == resource' = Overlay(resource, members[m], 0)

Detached(m) == token' = Overlay(token, members[m], 0)

CloseDone(m) ==
  /\ CanClose(m) /\ members[m] # {}
  /\ graph' = Overlay(graph, members[m], 0)
  /\ HooksReleased(m)
  /\ bound' = Overlay(bound, members[m], 0)
  /\ Detached(m)
  /\ phase' = Overlay(phase, members[m], "closed")
  /\ members' = [members EXCEPT ![m] = {}]
  /\ UNCHANGED <<generations, invocations>>

-----------------------------------------------------------------------------

LifecycleNext ==
  \/ \E m \in Module :
       \/ Activate(m) \/ ActivateFails(m) \/ Invoke(m)
       \/ CloseCreated(m) \/ CloseMember(m) \/ CloseFailsInGraph(m)
       \/ CloseFailsInHook(m) \/ CloseDone(m)
  \/ \E i \in Id : ShadowReplay(i) \/ Replay(i) \/ Retire(i)

LifecycleSpec == LifecycleInit /\ [][LifecycleNext]_lifecycle

-----------------------------------------------------------------------------
\* Properties.

\* The modules whose state or graph belongs to generation t.
Holders(t) == {k \in Module : graph[k] = t \/ bound[k] = t}

\* A generation is held by all its modules or by none, whatever raised and
\* however often a close was tried: one module has it as its own, its members
\* have its token and its state, and nothing else, such as a failed activation
\* or a closed root, leaves a graph or a state behind.
GenerationWhole ==
  \A t \in 1 .. Len(generations) :
    LET m == generations[t].by
    IN  \/ Holders(t) = {} /\ \A k \in Module : token[k] # t
        \/ /\ token[m] = t /\ members[m] = Subtree(m)
           /\ Holders(t) = members[m]
           /\ \A k \in members[m] : token[k] = t /\ bound[k] = t

\* Hooks hold resources of the module's own generation only, or of one whose
\* activation failed: a close that was tried again has released everything.
NoHookForgotten ==
  \A k \in Module :
    resource[k] # 0 /\ generations[resource[k]].ready => resource[k] = token[k]

\* An invocation of the module that activated the generation works on the
\* graph and on the state of that generation from its admission until it is
\* retired ("never consults mutable selection state"): no close, and no other
\* activation, gets between its steps.
OwnGeneration ==
  \A i \in Id :
    LET v == invocations[i]
    IN  v.phase # "retired" /\ generations[v.token].by = v.owner =>
          /\ graph[v.owner] = v.token
          /\ \A k \in members[v.owner] : bound[k] = v.token

\* Fail-stop: a module whose invocation failed admits no other one in the same
\* generation.
FailStop ==
  [][\A m \in Module :
       Len(invocations') > Len(invocations) /\ invocations'[Len(invocations')].owner = m =>
         ~ \E i \in Id :
             /\ invocations[i].failed
             /\ invocations[i].owner = m
             /\ invocations[i].token = token[m]]_lifecycle

\* "an active invocation escaped its READY module" (live_module.py line 1130)
\* is asserted never to happen: no invocation is left aborting, which would
\* keep its module from closing for ever.
NoInvocationStuck == \A i \in Id : invocations[i].phase # "aborting"

=============================================================================
