-------------------------- MODULE ActivationProofs --------------------------
(***************************************************************************)
(* Proofs about Activation, for every group of ranks, every portfolio, all *)
(* sizes of devices, budgets, State and captures, and any number of        *)
(* generations.                                                            *)
(*                                                                         *)
(* First what the methods of a graph backend keep (GraphBuilds), for any   *)
(* way its graphs share programs, pools and metadata: what it owns is      *)
(* accounted for exactly, and what is open was warmed by its generation.   *)
(* Then the inductive invariant of the ranks, and its theorems.            *)
(*                                                                         *)
(* At the end the proofs about LiveLifecycle, which takes an activation    *)
(* for one step and follows the generation until it is closed.             *)
(***************************************************************************)
EXTENDS Activation, LiveLifecycle, FiniteSetTheorems, WellFoundedInduction, TLAPS

-----------------------------------------------------------------------------
\* A backend.

Backend ==
  [warmed   : [Range(WarmKeyOf) -> Nat],
   users    : [Range(PoolOf) -> Nat],
   program  : [Range(ProgramOf) -> Graph \cup {NoGraph}],
   open     : SUBSET Graph,
   native   : [Graph -> Nat],
   inputs   : [Graph -> Nat],
   retained : SUBSET Graph]

\* The open captures of a pool.
Users(open, k) == {g \in open : PoolOf[g] = k}

Owned(b) ==
  /\ \A g \in Graph : b.inputs[g] = IF g \in b.open \cup b.retained THEN 1 ELSE 0
  /\ \A k \in Range(PoolOf) : b.users[k] = Cardinality(Users(b.open, k))
  /\ \A k \in Range(ProgramOf) : b.program[k] \in b.open \cup {NoGraph}
  /\ b.open \cap b.retained = {}

WarmedBy(b, a) ==
  /\ \A k \in Range(WarmKeyOf) : b.warmed[k] \in {0, a}
  /\ \A g \in b.open : b.warmed[WarmKeyOf[g]] = a

Sound(b, a) == b \in Backend /\ Owned(b) /\ WarmedBy(b, a)

-----------------------------------------------------------------------------

LEMMA Keys ==
  /\ \A g \in Graph : /\ WarmKeyOf[g] \in Range(WarmKeyOf)
                      /\ PoolOf[g] \in Range(PoolOf)
                      /\ ProgramOf[g] \in Range(ProgramOf)
  /\ IsFiniteSet(Graph) /\ Cardinality(Graph) \in Nat \ {0}
  /\ Graph = 1..Cardinality(Graph) /\ NoGraph \notin Graph /\ Graph \subseteq Nat
<1>1. \A g \in Graph : /\ WarmKeyOf[g] \in Range(WarmKeyOf)
                       /\ PoolOf[g] \in Range(PoolOf)
                       /\ ProgramOf[g] \in Range(ProgramOf)
  BY GraphAssumption DEF Range, Graph
<1>2. /\ IsFiniteSet(Graph) /\ Graph # {} /\ Graph = 1..Cardinality(Graph)
  BY GraphAssumption
<1>3. Cardinality(Graph) \in Nat /\ Cardinality(Graph) # 0
  BY <1>2, FS_CardinalityType, FS_EmptySet
<1>4. NoGraph \notin Graph /\ Graph \subseteq Nat
  BY <1>2, <1>3 DEF NoGraph
<1> QED BY <1>1, <1>2, <1>3, <1>4

\* Bytes are a natural number.
LEMMA BytesCount == ASSUME NEW f \in [Graph -> Nat] PROVE Cardinality(Laid(f)) \in Nat
<1> DEFINE T == {{g} \X (1 .. f[g]) : g \in Graph}
<1>1. \A g \in Graph : IsFiniteSet({g} \X (1 .. f[g]))
  <2> SUFFICES ASSUME NEW g \in Graph PROVE IsFiniteSet({g} \X (1 .. f[g]))
    OBVIOUS
  <2>1. f[g] \in Nat
    OBVIOUS
  <2>2. IsFiniteSet(1 .. f[g])
    BY <2>1, FS_Interval
  <2>3. IsFiniteSet({g})
    BY FS_Singleton
  <2> QED BY <2>2, <2>3, FS_Product
<1>2. IsFiniteSet(T)
  <2> DEFINE h == [g \in Graph |-> {g} \X (1 .. f[g])]
  <2>1. h \in Surjection(Graph, T)
    BY DEF Surjection
  <2> HIDE DEF T, h
  <2> QED BY <2>1, Keys, FS_Surjection
<1>3. \A S \in T : IsFiniteSet(S)
  BY <1>1
<1>4. IsFiniteSet(UNION T)
  BY <1>2, <1>3, FS_UNION
<1> QED BY <1>4, FS_CardinalityType DEF Laid

LEMMA DeviceBytesCount == ASSUME NEW b \in Backend PROVE DeviceBytes(b) \in Nat
BY BytesCount DEF DeviceBytes, Backend

LEMMA UsersFinite ==
  ASSUME NEW A \in SUBSET Graph, NEW k
  PROVE  /\ IsFiniteSet(Users(A, k)) /\ Cardinality(Users(A, k)) \in Nat
         /\ Cardinality(Users(A, k)) = 0 <=> Users(A, k) = {}
<1>1. Users(A, k) \subseteq Graph
  BY DEF Users
<1>2. IsFiniteSet(Users(A, k))
  BY <1>1, Keys, FS_Subset
<1> QED BY <1>2, FS_CardinalityType, FS_EmptySet

LEMMA OneMoreUser ==
  ASSUME NEW A \in SUBSET Graph, NEW g \in Graph, g \notin A
  PROVE  \A k : Cardinality(Users(A \cup {g}, k)) =
                  Cardinality(Users(A, k)) + (IF PoolOf[g] = k THEN 1 ELSE 0)
<1> SUFFICES ASSUME NEW k
             PROVE  Cardinality(Users(A \cup {g}, k)) =
                      Cardinality(Users(A, k)) + (IF PoolOf[g] = k THEN 1 ELSE 0)
  OBVIOUS
<1>1. IsFiniteSet(Users(A, k)) /\ Cardinality(Users(A, k)) \in Nat
  BY UsersFinite
<1>2. CASE PoolOf[g] = k
  <2>1. Users(A \cup {g}, k) = Users(A, k) \cup {g} /\ g \notin Users(A, k)
    BY <1>2 DEF Users
  <2> QED BY <1>1, <1>2, <2>1, FS_AddElement
<1>3. CASE PoolOf[g] # k
  <2>1. Users(A \cup {g}, k) = Users(A, k)
    BY <1>3 DEF Users
  <2> QED BY <1>1, <1>3, <2>1
<1> QED BY <1>2, <1>3

LEMMA FewerUsers ==
  ASSUME NEW A \in SUBSET Graph, NEW C \in SUBSET A, NEW k
  PROVE  Cardinality(Users(A \ C, k)) = Cardinality(Users(A, k)) - Cardinality(Users(C, k))
<1>1. /\ IsFiniteSet(Users(A, k)) /\ IsFiniteSet(Users(C, k))
      /\ Cardinality(Users(A, k)) \in Nat /\ Cardinality(Users(C, k)) \in Nat
  BY UsersFinite
<1>2. /\ Users(A \ C, k) = Users(A, k) \ Users(C, k)
      /\ Users(A, k) \cap Users(C, k) = Users(C, k)
  BY DEF Users
<1> DEFINE U == Users(A, k)
           V == Users(C, k)
<1>3. Cardinality(U \ V) = Cardinality(U) - Cardinality(U \cap V)
  <2> HIDE DEF U, V
  <2>1. IsFiniteSet(U)
    BY <1>1 DEF U
  <2> QED BY <2>1, FS_Difference
<1> QED BY <1>2, <1>3

-----------------------------------------------------------------------------
\* The methods.

LEMMA EmptySound == \A a : Sound(EmptyBackend, a)
<1>1. EmptyBackend \in Backend
  BY DEF EmptyBackend, Backend
<1>2. \A k : Users({}, k) = {} /\ Cardinality(Users({}, k)) = 0
  BY FS_EmptySet DEF Users
<1>3. Owned(EmptyBackend)
  BY <1>2 DEF Owned, EmptyBackend
<1>4. \A a : WarmedBy(EmptyBackend, a)
  BY DEF WarmedBy, EmptyBackend
<1> QED BY <1>1, <1>3, <1>4 DEF Sound

LEMMA WarmedKeeps ==
  ASSUME NEW a \in Nat \ {0}, NEW b, Sound(b, a), NEW g \in Graph
  PROVE  LET n == Warmed(b, g, a)
         IN  /\ Sound(n, a) /\ n.warmed[WarmKeyOf[g]] = a
             /\ n.users = b.users /\ n.program = b.program /\ n.open = b.open
             /\ n.native = b.native /\ n.inputs = b.inputs /\ n.retained = b.retained
<1> DEFINE n == Warmed(b, g, a)
<1>1. b \in Backend /\ WarmKeyOf[g] \in Range(WarmKeyOf)
  BY Keys DEF Sound
<1>2. n \in Backend
  BY <1>1 DEF Warmed, Backend
<1>3. /\ n.users = b.users /\ n.program = b.program /\ n.open = b.open
      /\ n.native = b.native /\ n.inputs = b.inputs /\ n.retained = b.retained
  BY <1>1 DEF Warmed, Backend
<1>4. /\ n.warmed[WarmKeyOf[g]] = a
      /\ \A k \in Range(WarmKeyOf) : n.warmed[k] = b.warmed[k] \/ n.warmed[k] = a
  BY <1>1 DEF Warmed, Backend, Sound, WarmedBy
<1> HIDE DEF n
<1>5. Owned(n)
  BY <1>3 DEF Sound, Owned
<1>6. WarmedBy(n, a)
  BY <1>3, <1>4, Keys DEF Sound, WarmedBy, Backend
<1> QED BY <1>2, <1>3, <1>4, <1>5, <1>6 DEF Sound, n

LEMMA CapturedKeeps ==
  ASSUME NEW a \in Nat \ {0}, NEW b, Sound(b, a), NEW g \in Graph \ b.open,
         NEW bytes \in Nat \ {0}
  PROVE  LET n == Captured(b, g, bytes, a)
         IN  Sound(n, a) /\ n.open = b.open \cup {g}
<1> DEFINE w == Warmed(b, g, a)
           n == Captured(b, g, bytes, a)
           o == b.open
<1>1. /\ Sound(w, a) /\ w.warmed[WarmKeyOf[g]] = a
      /\ w.open = o /\ w.retained = b.retained
  BY WarmedKeeps
<1>2. /\ w \in Backend /\ o \in SUBSET Graph /\ g \in Graph /\ g \notin o
      /\ PoolOf[g] \in Range(PoolOf) /\ ProgramOf[g] \in Range(ProgramOf)
  BY <1>1, Keys DEF Sound, Backend
<1>3. n = [w EXCEPT
     !.users[PoolOf[g]] = @ + 1,
     !.program[ProgramOf[g]] = IF @ = NoGraph THEN g ELSE @,
     !.open = @ \cup {g},
     !.native[g] = bytes,
     !.inputs[g] = IF g \in w.retained THEN @ ELSE @ + 1,
     !.retained = @ \ {g}]
  BY <1>1 DEF Captured
<1> HIDE DEF n, w
<1> DEFINE users == [w.users EXCEPT ![PoolOf[g]] = @ + 1]
           program == [w.program EXCEPT ![ProgramOf[g]] = IF @ = NoGraph THEN g ELSE @]
           native == [w.native EXCEPT ![g] = bytes]
           inputs == [w.inputs EXCEPT ![g] = IF g \in w.retained THEN @ ELSE @ + 1]
<1>4. /\ users \in [Range(PoolOf) -> Nat]
      /\ program \in [Range(ProgramOf) -> Graph \cup {NoGraph}]
      /\ native \in [Graph -> Nat] /\ inputs \in [Graph -> Nat]
      /\ o \cup {g} \in SUBSET Graph /\ w.retained \ {g} \in SUBSET Graph
  <2>1. /\ w.users \in [Range(PoolOf) -> Nat]
        /\ w.program \in [Range(ProgramOf) -> Graph \cup {NoGraph}]
        /\ w.native \in [Graph -> Nat] /\ w.inputs \in [Graph -> Nat]
        /\ w.retained \in SUBSET Graph
    BY <1>2 DEF Backend
  <2>2. users \in [Range(PoolOf) -> Nat]
    BY <1>2, <2>1
  <2>5. native \in [Graph -> Nat]
    BY <1>2, <2>1
  <2>3. program \in [Range(ProgramOf) -> Graph \cup {NoGraph}]
    BY <1>2, <2>1
  <2>4. inputs \in [Graph -> Nat]
    BY <2>1
  <2> QED BY <1>2, <2>1, <2>2, <2>3, <2>4, <2>5
<1>5. /\ n \in Backend
      /\ n.warmed = w.warmed /\ n.open = o \cup {g} /\ n.retained = w.retained \ {g}
      /\ n.users = users /\ n.program = program /\ n.inputs = inputs
  <2>1. n = [w EXCEPT !.users = users, !.program = program, !.open = o \cup {g},
                      !.native = native, !.inputs = inputs, !.retained = w.retained \ {g}]
    BY <1>1, <1>3
  <2> HIDE DEF users, program, native, inputs
  <2> QED BY <1>2, <1>4, <2>1 DEF Backend
<1>6. \A h \in Graph : n.inputs[h] = IF h \in n.open \cup n.retained THEN 1 ELSE 0
  BY <1>1, <1>2, <1>5 DEF Sound, Owned, Backend
<1>7. \A k \in Range(PoolOf) : n.users[k] = Cardinality(Users(n.open, k))
  <2>1. \A k : Cardinality(Users(n.open, k)) =
                 Cardinality(Users(o, k)) + (IF PoolOf[g] = k THEN 1 ELSE 0)
    BY <1>2, <1>5, OneMoreUser
  <2>2. \A k \in Range(PoolOf) : w.users[k] = Cardinality(Users(o, k)) /\ w.users[k] \in Nat
    BY <1>1, <1>2 DEF Sound, Owned, Backend
  <2>3. \A k \in Range(PoolOf) :
          n.users[k] = w.users[k] + (IF PoolOf[g] = k THEN 1 ELSE 0)
    <3>1. w.users \in [Range(PoolOf) -> Nat]
      BY <1>2 DEF Backend
    <3> QED BY <1>2, <1>5, <2>2, <3>1
  <2> QED BY <2>1, <2>2, <2>3
<1>8. \A k \in Range(ProgramOf) : n.program[k] \in n.open \cup {NoGraph}
  BY <1>1, <1>2, <1>5 DEF Sound, Owned, Backend
<1>9. n.open \cap n.retained = {}
  BY <1>1, <1>5 DEF Sound, Owned
<1>10. WarmedBy(n, a)
  BY <1>1, <1>5 DEF Sound, WarmedBy
<1> QED BY <1>5, <1>6, <1>7, <1>8, <1>9, <1>10 DEF Sound, Owned, n

LEMMA CaptureAbortedKeeps ==
  ASSUME NEW a \in Nat \ {0}, NEW b, Sound(b, a), NEW g \in Graph \ b.open
  PROVE  LET n == CaptureAborted(b, g, a) IN Sound(n, a) /\ n.open = b.open
<1> DEFINE w == Warmed(b, g, a)
           n == CaptureAborted(b, g, a)
<1>1. Sound(w, a) /\ w.open = b.open /\ w.retained = b.retained
  BY WarmedKeeps
<1>2. w \in Backend /\ g \notin w.open
  BY <1>1 DEF Sound
<1>3. n = [w EXCEPT !.inputs[g] = IF g \in w.retained THEN @ - 1 ELSE @,
                    !.retained = @ \ {g}]
  BY <1>1 DEF CaptureAborted
<1>4. w.inputs[g] = IF g \in w.retained THEN 1 ELSE 0
  BY <1>1, <1>2 DEF Sound, Owned
<1> HIDE DEF n, w
<1> DEFINE inputs == [w.inputs EXCEPT ![g] = IF g \in w.retained THEN @ - 1 ELSE @]
<1>0. /\ w.inputs \in [Graph -> Nat] /\ w.retained \in SUBSET Graph
      /\ w.users \in [Range(PoolOf) -> Nat] /\ w.native \in [Graph -> Nat]
      /\ w.program \in [Range(ProgramOf) -> Graph \cup {NoGraph}]
      /\ w.open \in SUBSET Graph
  BY <1>2 DEF Backend
<1>5. inputs = [w.inputs EXCEPT ![g] = 0] /\ inputs \in [Graph -> Nat]
  BY <1>0, <1>4
<1>6. /\ n \in Backend
      /\ n.warmed = w.warmed /\ n.open = w.open /\ n.retained = w.retained \ {g}
      /\ n.users = w.users /\ n.program = w.program
      /\ \A h \in Graph : n.inputs[h] = IF h = g THEN 0 ELSE w.inputs[h]
  <2>1. n = [w EXCEPT !.inputs = inputs, !.retained = w.retained \ {g}]
    BY <1>3
  <2>2. n = [w EXCEPT !.users = w.users, !.program = w.program, !.open = w.open,
                      !.native = w.native, !.inputs = inputs, !.retained = w.retained \ {g}]
    <3> HIDE DEF inputs
    <3> QED BY <1>2, <2>1 DEF Backend
  <2>3. w.retained \ {g} \in SUBSET Graph
    BY <1>0
  <2>4. /\ n \in Backend
        /\ n.warmed = w.warmed /\ n.open = w.open /\ n.retained = w.retained \ {g}
        /\ n.users = w.users /\ n.program = w.program /\ n.inputs = inputs
    <3> HIDE DEF inputs
    <3> QED BY <1>0, <1>2, <1>5, <2>2, <2>3 DEF Backend
  <2>5. \A h \in Graph : inputs[h] = IF h = g THEN 0 ELSE w.inputs[h]
    BY <1>0, <1>5
  <2> QED BY <2>4, <2>5
<1>7. Owned(n)
  BY <1>1, <1>2, <1>6 DEF Sound, Owned
<1>8. WarmedBy(n, a)
  BY <1>1, <1>6 DEF Sound, WarmedBy
<1> QED BY <1>1, <1>6, <1>7, <1>8 DEF Sound, n

LEMMA RetainedKeeps ==
  ASSUME NEW a, NEW b, Sound(b, a), NEW g \in b.open
  PROVE  LET n == Retained(b, g) IN Sound(n, a) /\ n.open = b.open \ {g}
<1> DEFINE n == Retained(b, g)
           o == b.open
           program == [k \in DOMAIN b.program |-> IF b.program[k] = g THEN NoGraph
                                                  ELSE b.program[k]]
           users == [b.users EXCEPT ![PoolOf[g]] = @ - 1]
<1>1. /\ b.users \in [Range(PoolOf) -> Nat] /\ o \in SUBSET Graph /\ g \in Graph
      /\ b.program \in [Range(ProgramOf) -> Graph \cup {NoGraph}]
      /\ b.retained \in SUBSET Graph /\ b \in Backend /\ PoolOf[g] \in Range(PoolOf)
  BY Keys DEF Sound, Backend
<1>2. n = [b EXCEPT !.program = program, !.open = o \ {g}, !.users = users,
                    !.retained = @ \cup {g}]
  BY <1>1 DEF Retained, ForgetProgram, Backend
<1>3. \A k \in Range(PoolOf) : b.users[k] = Cardinality(Users(o, k))
  BY DEF Sound, Owned
<1>4. \A k : Cardinality(Users(o, k)) =
               Cardinality(Users(o \ {g}, k)) + (IF PoolOf[g] = k THEN 1 ELSE 0)
  <2>1. o \ {g} \in SUBSET Graph /\ g \notin o \ {g} /\ o = (o \ {g}) \cup {g}
    BY <1>1
  <2> QED BY <1>1, <2>1, OneMoreUser
<1>5. \A k : Cardinality(Users(o \ {g}, k)) \in Nat
  BY <1>1, UsersFinite
<1>6. /\ \A k \in Range(PoolOf) : users[k] = Cardinality(Users(o \ {g}, k))
      /\ users \in [Range(PoolOf) -> Nat]
  <2>1. /\ DOMAIN users = Range(PoolOf) /\ users = [k \in Range(PoolOf) |-> users[k]]
        /\ \A k \in Range(PoolOf) :
             users[k] = b.users[k] - (IF PoolOf[g] = k THEN 1 ELSE 0)
    BY <1>1
  <2>2. \A k \in Range(PoolOf) : users[k] = Cardinality(Users(o \ {g}, k))
    <3> SUFFICES ASSUME NEW k \in Range(PoolOf)
                 PROVE  users[k] = Cardinality(Users(o \ {g}, k))
      OBVIOUS
    <3> DEFINE c == Cardinality(Users(o \ {g}, k))
               d == IF PoolOf[g] = k THEN 1 ELSE 0
    <3>1. users[k] = b.users[k] - d /\ b.users[k] = c + d /\ c \in Nat /\ d \in Nat
      BY <1>3, <1>4, <1>5, <2>1
    <3> HIDE DEF users, c, d
    <3>2. users[k] = c
      BY <3>1
    <3> QED BY <3>2 DEF c
  <2> HIDE DEF users
  <2> QED BY <1>5, <2>1, <2>2
<1>7. /\ program \in [Range(ProgramOf) -> Graph \cup {NoGraph}]
      /\ \A k \in Range(ProgramOf) : program[k] \in (o \ {g}) \cup {NoGraph}
  BY <1>1 DEF Sound, Owned
<1> HIDE DEF n, program, users
<1>8. /\ n \in Backend /\ n.warmed = b.warmed /\ n.users = users /\ n.program = program
      /\ n.open = o \ {g} /\ n.native = b.native /\ n.inputs = b.inputs
      /\ n.retained = b.retained \cup {g}
  BY <1>1, <1>2, <1>6, <1>7 DEF Backend
<1>9. Owned(n)
  BY <1>1, <1>6, <1>7, <1>8 DEF Sound, Owned
<1>10. WarmedBy(n, a)
  BY <1>8 DEF Sound, WarmedBy
<1> QED BY <1>8, <1>9, <1>10 DEF Sound, n

LEMMA RetainAbortedKeeps ==
  ASSUME NEW a, NEW b, Sound(b, a), NEW g \in b.open
  PROVE  LET n == RetainAborted(b, g) IN Sound(n, a) /\ n.open = b.open \ {g}
<1> DEFINE m == Retained(b, g)
           n == RetainAborted(b, g)
<1>1. Sound(m, a) /\ m.open = b.open \ {g}
  BY RetainedKeeps
<1>2. n = [m EXCEPT !.native[g] = 0] /\ m \in Backend
  BY <1>1 DEF RetainAborted, Sound
<1> HIDE DEF m, n
<1>3. /\ n \in Backend /\ n.warmed = m.warmed /\ n.users = m.users /\ n.program = m.program
      /\ n.open = m.open /\ n.inputs = m.inputs /\ n.retained = m.retained
  <2> DEFINE native == [m.native EXCEPT ![g] = 0]
  <2>1. native \in [Graph -> Nat] /\ n = [m EXCEPT !.native = native]
    BY <1>2 DEF Backend
  <2> HIDE DEF native
  <2> QED BY <1>2, <2>1 DEF Backend
<1> QED BY <1>1, <1>3 DEF Sound, Owned, WarmedBy, n

LEMMA ClosedKeeps ==
  ASSUME NEW a, NEW b, Sound(b, a), NEW C \in SUBSET b.open
  PROVE  LET n == Closed(b, C)
         IN  /\ Sound(n, a) /\ n.open = b.open \ C /\ n.retained = b.retained
             /\ \A g \in C : n.native[g] = 0
<1> DEFINE n == Closed(b, C)
           o == b.open
           users == [k \in DOMAIN b.users |->
                       b.users[k] - Cardinality({g \in C : PoolOf[g] = k})]
           program == [k \in DOMAIN b.program |-> IF b.program[k] \in C THEN NoGraph
                                                  ELSE b.program[k]]
           native == [g \in Graph |-> IF g \in C THEN 0 ELSE b.native[g]]
           inputs == [g \in Graph |-> IF g \in C THEN b.inputs[g] - 1 ELSE b.inputs[g]]
<1>1. /\ b.users \in [Range(PoolOf) -> Nat] /\ o \in SUBSET Graph
      /\ b.program \in [Range(ProgramOf) -> Graph \cup {NoGraph}]
      /\ b.native \in [Graph -> Nat] /\ b.inputs \in [Graph -> Nat]
      /\ b.retained \in SUBSET Graph /\ b \in Backend /\ C \in SUBSET Graph
  BY DEF Sound, Backend
<1>2. n = [b EXCEPT !.users = users, !.program = program, !.native = native,
                    !.inputs = inputs, !.open = o \ C]
  BY DEF Closed
<1>3. /\ \A k \in Range(PoolOf) : users[k] = Cardinality(Users(o \ C, k))
      /\ users \in [Range(PoolOf) -> Nat]
  <2>1. \A k \in Range(PoolOf) : b.users[k] = Cardinality(Users(o, k))
    BY DEF Sound, Owned
  <2>2. \A k : Cardinality(Users(o \ C, k)) = Cardinality(Users(o, k)) - Cardinality(Users(C, k))
    BY <1>1, FewerUsers
  <2>3. \A k : Cardinality(Users(o \ C, k)) \in Nat
    BY <1>1, UsersFinite
  <2>4. \A k \in Range(PoolOf) : users[k] = Cardinality(Users(o \ C, k))
    BY <1>1, <2>1, <2>2 DEF Users
  <2> QED BY <1>1, <2>3, <2>4
<1>4. /\ program \in [Range(ProgramOf) -> Graph \cup {NoGraph}]
      /\ \A k \in Range(ProgramOf) : program[k] \in (o \ C) \cup {NoGraph}
  BY <1>1 DEF Sound, Owned
<1>5. native \in [Graph -> Nat] /\ \A g \in C : native[g] = 0
  BY <1>1
<1>6. /\ inputs \in [Graph -> Nat]
      /\ \A g \in Graph : inputs[g] = IF g \in (o \ C) \cup b.retained THEN 1 ELSE 0
  BY <1>1 DEF Sound, Owned
<1> HIDE DEF n, users, program, native, inputs
<1>7. /\ n \in Backend /\ n.warmed = b.warmed /\ n.users = users /\ n.program = program
      /\ n.open = o \ C /\ n.native = native /\ n.inputs = inputs
      /\ n.retained = b.retained
  BY <1>1, <1>2, <1>3, <1>4, <1>5, <1>6 DEF Backend
<1>8. Owned(n)
  BY <1>3, <1>4, <1>6, <1>7 DEF Sound, Owned
<1>9. WarmedBy(n, a)
  BY <1>7 DEF Sound, WarmedBy
<1> QED BY <1>5, <1>7, <1>8, <1>9 DEF Sound, n

LEMMA PoolsHandedBackKeeps ==
  ASSUME NEW a, NEW b, Sound(b, a)
  PROVE  LET n == PoolsHandedBack(b)
         IN  /\ Sound(n, a) /\ n.open = b.open
             /\ \A g \in Graph \ b.open : n.native[g] = 0
<1> DEFINE n == PoolsHandedBack(b)
           native == [g \in Graph |-> IF g \in Handed(b) THEN 0 ELSE b.native[g]]
<1>1. b \in Backend /\ b.native \in [Graph -> Nat]
  BY DEF Sound, Backend
<1>2. n = [b EXCEPT !.native = native]
  BY DEF PoolsHandedBack
<1>3. native \in [Graph -> Nat] /\ \A g \in Graph \ b.open : native[g] = 0
  BY <1>1 DEF Handed
<1> HIDE DEF n, native
<1>4. /\ n \in Backend /\ n.warmed = b.warmed /\ n.users = b.users /\ n.program = b.program
      /\ n.open = b.open /\ n.native = native /\ n.inputs = b.inputs
      /\ n.retained = b.retained
  BY <1>1, <1>2, <1>3 DEF Backend
<1> QED BY <1>3, <1>4 DEF Sound, Owned, WarmedBy, n

LEMMA InputsHandedBackKeeps ==
  ASSUME NEW a, NEW b, Sound(b, a)
  PROVE  LET n == InputsHandedBack(b)
         IN  Sound(n, a) /\ n.open = b.open /\ n.native = b.native /\ n.retained = {}
<1> DEFINE n == InputsHandedBack(b)
           inputs == [g \in Graph |-> IF g \in b.retained THEN b.inputs[g] - 1
                                      ELSE b.inputs[g]]
<1>1. b \in Backend /\ b.inputs \in [Graph -> Nat] /\ b.retained \in SUBSET Graph
  BY DEF Sound, Backend
<1>2. n = [b EXCEPT !.inputs = inputs, !.retained = {}]
  BY DEF InputsHandedBack
<1>3. /\ inputs \in [Graph -> Nat]
      /\ \A g \in Graph : inputs[g] = IF g \in b.open THEN 1 ELSE 0
  BY <1>1 DEF Sound, Owned
<1> HIDE DEF n, inputs
<1>4. /\ n \in Backend /\ n.warmed = b.warmed /\ n.users = b.users /\ n.program = b.program
      /\ n.open = b.open /\ n.native = b.native /\ n.inputs = inputs /\ n.retained = {}
  BY <1>1, <1>2, <1>3 DEF Backend
<1>5. Owned(n)
  BY <1>3, <1>4 DEF Sound, Owned
<1> QED BY <1>4, <1>5 DEF Sound, WarmedBy, n

\* The census goes exactly when no capture is open.
LEMMA LiveMeansOpen == ASSUME NEW a, NEW b, Sound(b, a) PROVE StillLive(b) <=> b.open # {}
<1>1. /\ b.open \in SUBSET Graph /\ DOMAIN b.users = Range(PoolOf)
      /\ DOMAIN b.program = Range(ProgramOf)
  BY DEF Sound, Backend
<1>2. \A k \in Range(PoolOf) : b.users[k] # 0 <=> Users(b.open, k) # {}
  BY <1>1, UsersFinite DEF Sound, Owned
<1>3. CASE b.open = {}
  <2>1. \A k : Users(b.open, k) = {}
    BY <1>3 DEF Users
  <2>2. \A k \in Range(ProgramOf) : b.program[k] = NoGraph
    BY <1>3 DEF Sound, Owned
  <2> QED BY <1>1, <1>2, <1>3, <2>1, <2>2 DEF StillLive
<1>4. CASE b.open # {}
  <2>1. PICK g : g \in b.open
    BY <1>4
  <2>2. g \in Users(b.open, PoolOf[g]) /\ PoolOf[g] \in Range(PoolOf)
    BY <1>1, <2>1, Keys DEF Users
  <2> QED BY <1>1, <1>2, <1>4, <2>2 DEF StillLive
<1> QED BY <1>3, <1>4

LEMMA GenerationRetiredKeeps ==
  ASSUME NEW a, NEW b, Sound(b, a)
  PROVE  LET n == GenerationRetired(b)
         IN  /\ Sound(n, a) /\ n.open = b.open
             /\ n.native = b.native /\ n.retained = b.retained
             /\ b.open = {} => \A k \in Range(WarmKeyOf) : n.warmed[k] = 0
<1> DEFINE n == GenerationRetired(b)
           warmed == [k \in DOMAIN b.warmed |-> 0]
<1>1. CASE b.open # {}
  BY <1>1, LiveMeansOpen DEF GenerationRetired
<1>2. CASE b.open = {}
  <2>1. n = [b EXCEPT !.warmed = warmed]
    BY <1>2, LiveMeansOpen DEF GenerationRetired
  <2>2. b \in Backend /\ warmed \in [Range(WarmKeyOf) -> Nat]
        /\ \A k \in Range(WarmKeyOf) : warmed[k] = 0
    BY DEF Sound, Backend
  <2> HIDE DEF n, warmed
  <2>3. /\ n \in Backend /\ n.warmed = warmed /\ n.users = b.users /\ n.program = b.program
        /\ n.open = b.open /\ n.native = b.native /\ n.inputs = b.inputs
        /\ n.retained = b.retained
    BY <2>1, <2>2 DEF Backend
  <2>4. Owned(n) /\ WarmedBy(n, a)
    BY <1>2, <2>2, <2>3 DEF Sound, Owned, WarmedBy
  <2> QED BY <2>2, <2>3, <2>4 DEF Sound, n
<1> QED BY <1>1, <1>2

\* A release that closes every execution leaves an empty backend.
LEMMA ReleasedKeeps ==
  ASSUME NEW a, NEW b, Sound(b, a), NEW C \in SUBSET b.open
  PROVE  LET n == Released(b, C)
         IN  /\ Sound(n, a) /\ n.open = b.open \ C
             /\ StillLive(n) <=> C # b.open
             /\ C = b.open => n = EmptyBackend
<1> DEFINE n1 == Closed(b, C)
           n2 == PoolsHandedBack(n1)
           n3 == InputsHandedBack(n2)
           n == GenerationRetired(n3)
<1>0. n = Released(b, C)
  BY DEF Released
<1>1. Sound(n1, a) /\ n1.open = b.open \ C
  BY ClosedKeeps
<1> HIDE DEF n1
<1>2. /\ Sound(n2, a) /\ n2.open = b.open \ C
      /\ \A g \in Graph \ n1.open : n2.native[g] = 0
  BY <1>1, PoolsHandedBackKeeps
<1> HIDE DEF n2
<1>3. /\ Sound(n3, a) /\ n3.open = b.open \ C
      /\ n3.native = n2.native /\ n3.retained = {}
  BY <1>2, InputsHandedBackKeeps
<1> HIDE DEF n3
<1>4. /\ Sound(n, a) /\ n.open = b.open \ C /\ n.native = n2.native /\ n.retained = {}
      /\ n3.open = {} => \A k \in Range(WarmKeyOf) : n.warmed[k] = 0
  BY <1>3, GenerationRetiredKeeps
<1> HIDE DEF n
<1>5. StillLive(n) <=> C # b.open
  BY <1>4, LiveMeansOpen
<1>6. ASSUME C = b.open PROVE n = EmptyBackend
  <2>1. n \in Backend /\ n.open = {} /\ n.retained = {}
    BY <1>4, <1>6 DEF Sound
  <2>2. n.native = [g \in Graph |-> 0]
    <3>1. \A g \in Graph : n.native[g] = 0
      BY <1>1, <1>2, <1>4, <1>6
    <3> QED BY <2>1, <3>1 DEF Backend
  <2>3. n.inputs = [g \in Graph |-> 0]
    <3>1. \A g \in Graph : n.inputs[g] = 0
      BY <1>4, <2>1 DEF Sound, Owned
    <3> QED BY <2>1, <3>1 DEF Backend
  <2>4. n.users = [k \in Range(PoolOf) |-> 0]
    <3>1. \A k \in Range(PoolOf) : n.users[k] = 0
      BY <1>4, <2>1, LiveMeansOpen DEF StillLive, Sound, Backend
    <3> QED BY <2>1, <3>1 DEF Backend
  <2>5. n.program = [k \in Range(ProgramOf) |-> NoGraph]
    <3>1. \A k \in Range(ProgramOf) : n.program[k] = NoGraph
      BY <1>4, <2>1 DEF Sound, Owned
    <3> QED BY <2>1, <3>1 DEF Backend
  <2>6. n.warmed = [k \in Range(WarmKeyOf) |-> 0]
    <3>1. \A k \in Range(WarmKeyOf) : n.warmed[k] = 0
      BY <1>3, <1>4, <1>6
    <3> QED BY <2>1, <3>1 DEF Backend
  <2> QED BY <2>1, <2>2, <2>3, <2>4, <2>5, <2>6 DEF EmptyBackend, Backend
<1> QED BY <1>0, <1>4, <1>5, <1>6

-----------------------------------------------------------------------------
\* The inductive invariant: what each rank knows of itself, ...

Gone == {"failed", "broken", "closed"}

Building == {"initialize", "warm", "capture", "retain", "size"}

Rebuilding == {"rebind", "recapture", "settle", "ready"}

Pcs ==
  {"start", "planning", "calibrating", "sizing", "allocate", "allocating"}
    \cup Building \cup Rebuilding \cup Gone

Whys ==
  {"none", "timeout", "plan", "realize", "calibration", "build", "size", "allocate",
   "over", "reset"}

RankRecord ==
  [pc : Pcs, at : Graph, votes : Seq(Nat), why : Whys, state : Nat, cache : Nat,
   units : Nat, calibrated : Nat, backend : Backend]

\* How far a rank is, and how often it has voted.
Placed(k) ==
  LET n == Len(k.votes) IN
  IF fitting
  THEN /\ k.pc # "planning"
       /\ k.pc = "start" => n = 0
       /\ k.pc \in Building \cup {"calibrating"} => n = 1
       /\ k.pc \in {"sizing", "allocate"} => n = 2
       /\ k.pc \in Rebuilding \cup {"allocating"} => n = 3
       /\ k.pc \in Gone => n \in 1..3
       /\ n >= 1 => k.votes[1] \in {0, 1}
       /\ n >= 3 => k.votes[3] \in {0, 1}
       /\ k.pc = "sizing" => k.units = 0
  ELSE /\ k.pc \in {"start", "planning", "initialize", "warm", "capture", "ready"} \cup Gone
       /\ k.pc = "start" => n = 0 /\ k.units = 0
       /\ k.pc \in {"planning", "initialize", "warm", "capture", "ready"} => n = 1
       /\ k.pc \in Gone => n \in 0..1
       /\ k.pc = "planning" => k.units = 0

\* Which executions are open.
OpenIn(k) ==
  /\ k.pc \in {"capture", "recapture"} => k.backend.open = {g \in Graph : g < k.at}
  /\ k.pc = "retain" => k.backend.open = {g \in Graph : g >= k.at}
  /\ k.pc \notin {"capture", "recapture", "retain", "settle", "ready"} \cup Gone =>
       k.backend.open = {}

\* What a rank that is through leaves.
Ended(k) ==
  /\ k.pc \in {"failed", "closed"} =>
       k.backend = EmptyBackend /\ k.state = 0 /\ k.units = 0
  /\ k.pc = "broken" => k.why = "reset"

\* What the device can hold.
Sized(r, k) ==
  fitting =>
    /\ (k.pc = "sizing" /\ k.votes[2] # 0) \/ k.pc = "allocate" =>
         /\ k.calibrated = DeviceBytes(k.backend)
         /\ k.votes[2] * Unit + Fixed + k.calibrated + Floor + Padding <= Total[r]
    /\ (k.pc = "allocating" /\ k.votes[3] = 1) \/ k.pc \in {"rebind", "recapture", "settle"} =>
         k.state + k.calibrated + Floor <= Total[r]

Local(r, k) ==
  /\ k \in RankRecord /\ Sound(k.backend, attempt)
  /\ Placed(k) /\ OpenIn(k) /\ Ended(k) /\ Sized(r, k)

TypeOK ==
  /\ attempt \in Nat \ {0} /\ fitting \in BOOLEAN
  /\ rank = [r \in Rank |-> rank[r]]
  /\ \A r \in Rank : Local(r, rank[r])

\* ... and what it may conclude about the others.

AllMet(n) == \A p \in Rank : Len(rank[p].votes) >= n
AllSay(n, V) == \A p \in Rank : Len(rank[p].votes) >= n /\ rank[p].votes[n] \in V

Past1(k) == Len(k.votes) >= 2 \/ k.pc \in Building
Past2(k) == Len(k.votes) >= 3 \/ k.pc = "allocate"
Past3(k) == k.pc \in Rebuilding

\* A rank that is past an agreement knows that all said yes.
Agreed(k) ==
  /\ Past1(k) => AllSay(1, {1})
  /\ Past2(k) => AllSay(2, Nat \ {0})
  /\ Past3(k) => AllSay(3, {1})

\* The vote that agrees on the units, and the ranks that are bound to its result.
Level == IF fitting THEN 2 ELSE 1

Final ==
  IF fitting THEN {"allocate", "allocating"} \cup Rebuilding
  ELSE {"initialize", "warm", "capture", "ready"}

Bound(k) == Len(k.votes) >= Level /\ (k.units # 0 \/ k.pc \in Final)

MinAt(n) == Min({rank[q].votes[n] : q \in Rank})

BoundRight(k) == Bound(k) => AllMet(Level) /\ k.units = MinAt(Level)

\* A rank that left after its second vote has seen it fail, or been deserted.
Stuck ==
  \E p \in Rank : \/ Len(rank[p].votes) >= 2 /\ rank[p].votes[2] = 0
                  \/ Left(p) /\ Len(rank[p].votes) < 2

Excused(k) == k.pc \in Gone /\ Len(k.votes) = 2 => Stuck

IInv ==
  /\ TypeOK
  /\ fitting => \A r \in Rank : Agreed(rank[r]) /\ Excused(rank[r])
  /\ \A r \in Rank : BoundRight(rank[r])

\* What a step of one rank may do.
Allowed(r, n) ==
  LET k == rank[r] IN
  /\ Local(r, n)
  /\ Len(n.votes) >= Len(k.votes)
  /\ \A i \in 1..Len(k.votes) : n.votes[i] = k.votes[i]
  /\ Left(r) => n.votes = k.votes /\ n.pc \in Gone
  /\ fitting =>
       /\ Past1(n) => Past1(k) \/ AllSay(1, {1})
       /\ Past2(n) => Past2(k) \/ AllSay(2, Nat \ {0})
       /\ Past3(n) => Past3(k) \/ AllSay(3, {1})
       /\ n.pc \in Gone /\ Len(n.votes) = 2 => k.pc \in Gone \/ Stuck
  /\ Bound(n) => \/ Bound(k) /\ n.units = k.units
                 \/ AllMet(Level) /\ n.units = MinAt(Level)
  /\ n.why = "over" => k.why = "over" \/ DeviceBytes(k.backend) > k.calibrated

FloorStep ==
  \A r \in Rank :
    /\ rank'[r].why # "breach"
    /\ rank'[r].why = "over" =>
         rank[r].why = "over" \/ DeviceBytes(rank[r].backend) > rank[r].calibrated

-----------------------------------------------------------------------------
\* Arithmetic.

LEMMA Smallest ==
  ASSUME NEW T \in SUBSET Nat, T # {}
  PROVE  Min(T) \in T /\ \A y \in T : Min(T) <= y
<1> DEFINE R == OpToRel(<, Nat)
<1>1. IsWellFoundedOn(R, Nat)
  BY NatLessThanWellFounded
<1>2. \A x, y \in Nat : x < y => <<x, y>> \in R
  BY DEF OpToRel
<1> HIDE DEF R
<1>3. PICK x \in T : \A y \in T : ~ (<<y, x>> \in R)
  BY <1>1, WFMin
<1>4. \A y \in T : x \in Nat /\ y \in Nat /\ ~ (y < x)
  BY <1>2, <1>3
<1>5. \A y \in T : x <= y
  BY <1>4
<1> QED BY <1>3, <1>5 DEF Min

LEMMA Smaller == ASSUME NEW a \in Int, NEW b \in Int
                 PROVE  Min({a, b}) \in Int /\ Min({a, b}) <= a /\ Min({a, b}) <= b
<1> DEFINE T == {a, b}
<1>1. \E x \in T : \A y \in T : x <= y
  OBVIOUS
<1> DEFINE m == CHOOSE x \in T : \A y \in T : x <= y
<1>2. m \in T /\ \A y \in T : m <= y
  <2> HIDE DEF T
  <2> QED BY <1>1
<1>3. Min(T) = m
  BY DEF Min
<1> HIDE DEF m
<1>4. m \in Int /\ m <= a /\ m <= b
  BY <1>2
<1> QED BY <1>3, <1>4

LEMMA Grows == ASSUME NEW x \in Nat, NEW y \in Nat, x <= y, NEW u \in Nat
               PROVE  x * u \in Nat /\ y * u \in Nat /\ x * u <= y * u
<1>1. PICK d \in Nat : y = x + d
  <2>1. y - x \in Nat /\ y = x + (y - x)
    OBVIOUS
  <2> QED BY <2>1
<1>2. x * u \in Nat /\ d * u \in Nat /\ y * u = x * u + d * u
  BY <1>1
<1> QED BY <1>2

\* A budget pays for the units it is divided into.
LEMMA Pays == ASSUME NEW b \in Int, NEW u \in Nat \ {0}
              PROVE  /\ b \div u \in Int /\ (b \div u) * u <= b
                     /\ b >= u => b \div u \in Nat \ {0}
OBVIOUS

-----------------------------------------------------------------------------
\* The helpers on the record of a rank.

LEMMA HoldingFields ==
  ASSUME NEW k \in RankRecord, NEW state \in Nat, NEW b \in Backend
  PROVE  LET n == Holding(k, state, b)
         IN  /\ n \in RankRecord /\ n.state = state /\ n.backend = b
             /\ n.pc = k.pc /\ n.at = k.at /\ n.votes = k.votes /\ n.why = k.why
             /\ n.units = k.units /\ n.calibrated = k.calibrated
<1> DEFINE n == Holding(k, state, b)
           m == [k EXCEPT !.state = state, !.backend = b]
           grown == InUse(m) - InUse(k)
           cache == IF grown > k.cache THEN 0 ELSE k.cache - grown
<1>1. /\ m \in RankRecord /\ m.state = state /\ m.backend = b /\ m.cache = k.cache
      /\ m.pc = k.pc /\ m.at = k.at /\ m.votes = k.votes /\ m.why = k.why
      /\ m.units = k.units /\ m.calibrated = k.calibrated
  BY DEF RankRecord
<1>2. grown \in Int
  <2> HIDE DEF m
  <2>1. DeviceBytes(m.backend) \in Nat /\ DeviceBytes(k.backend) \in Nat
    BY <1>1, DeviceBytesCount DEF RankRecord
  <2> QED BY <1>1, <2>1 DEF InUse, RankRecord
<1>3. n = [m EXCEPT !.cache = cache]
  <2>1. m.cache = k.cache
    BY <1>1
  <2> QED BY <2>1 DEF Holding
<1>4. cache \in Nat
  <2>1. k.cache \in Nat
    BY DEF RankRecord
  <2> HIDE DEF grown
  <2> QED BY <1>2, <2>1
<1> HIDE DEF n, m, cache
<1>5. /\ n \in RankRecord /\ n.state = state /\ n.backend = b
      /\ n.pc = k.pc /\ n.at = k.at /\ n.votes = k.votes /\ n.why = k.why
      /\ n.units = k.units /\ n.calibrated = k.calibrated
  BY <1>1, <1>3, <1>4 DEF RankRecord
<1> QED BY <1>5 DEF n

LEMMA ReclaimedFields ==
  ASSUME NEW k \in RankRecord
  PROVE  LET n == Reclaimed(k)
         IN  /\ n \in RankRecord /\ n.cache = 0 /\ n.state = k.state /\ n.backend = k.backend
             /\ n.pc = k.pc /\ n.at = k.at /\ n.votes = k.votes /\ n.why = k.why
             /\ n.units = k.units /\ n.calibrated = k.calibrated
BY DEF Reclaimed, RankRecord

LEMMA VoteFields ==
  ASSUME NEW k \in RankRecord, NEW value \in Nat
  PROVE  LET n == Vote(k, value)
         IN  /\ n \in RankRecord /\ n.state = k.state /\ n.backend = k.backend
             /\ n.pc = k.pc /\ n.at = k.at /\ n.why = k.why
             /\ n.units = k.units /\ n.calibrated = k.calibrated
             /\ Len(n.votes) = Len(k.votes) + 1 /\ n.votes[Len(k.votes) + 1] = value
             /\ \A i \in 1..Len(k.votes) : n.votes[i] = k.votes[i]
<1> DEFINE votes == Append(k.votes, value)
           n == Vote(k, value)
<1>1. k.votes \in Seq(Nat)
  BY DEF RankRecord
<1>2. /\ votes \in Seq(Nat) /\ Len(votes) = Len(k.votes) + 1
      /\ votes[Len(k.votes) + 1] = value
      /\ \A i \in 1..Len(k.votes) : votes[i] = k.votes[i]
  BY <1>1
<1>3. n = [k EXCEPT !.votes = votes]
  BY DEF Vote
<1> HIDE DEF votes, n
<1>4. /\ n \in RankRecord /\ n.state = k.state /\ n.backend = k.backend
      /\ n.pc = k.pc /\ n.at = k.at /\ n.why = k.why
      /\ n.units = k.units /\ n.calibrated = k.calibrated /\ n.votes = votes
  BY <1>2, <1>3 DEF RankRecord
<1> QED BY <1>2, <1>4 DEF n

LEMMA AdvancedFields ==
  ASSUME NEW k \in RankRecord, NEW next \in Pcs
  PROVE  LET n == Advanced(k, next)
         IN  /\ n \in RankRecord /\ n.state = k.state /\ n.backend = k.backend
             /\ n.votes = k.votes /\ n.why = k.why
             /\ n.units = k.units /\ n.calibrated = k.calibrated
             /\ \/ k.at = Cardinality(Graph) /\ n.pc = next /\ n.at = 1
                \/ k.at # Cardinality(Graph) /\ n.pc = k.pc /\ n.at = k.at + 1
<1>1. k.at \in 1..Cardinality(Graph) /\ Cardinality(Graph) \in Nat /\ 1 \in Graph
      /\ Graph = 1..Cardinality(Graph)
  BY Keys DEF RankRecord
<1>2. CASE k.at = Cardinality(Graph)
  BY <1>1, <1>2 DEF Advanced, RankRecord
<1>3. CASE k.at # Cardinality(Graph)
  <2>1. k.at + 1 \in Graph
    BY <1>1, <1>3
  <2>2. Advanced(k, next) = [k EXCEPT !.at = @ + 1]
    BY <1>3 DEF Advanced
  <2> QED BY <1>3, <2>1, <2>2 DEF RankRecord
<1> QED BY <1>2, <1>3

-----------------------------------------------------------------------------
\* What one rank says or has left behind stays so, whatever another rank does.

LEMMA Lasting ==
  ASSUME NEW r \in Rank, NEW n, IInv, Becomes(r, n), Allowed(r, n)
  PROVE  /\ \A m \in Nat \ {0} : AllMet(m) => AllMet(m)' /\ MinAt(m)' = MinAt(m)
         /\ \A m \in Nat \ {0} : \A V : AllSay(m, V) => AllSay(m, V)'
         /\ Stuck => Stuck'
<1>1. /\ \A p \in Rank : rank'[p] = IF p = r THEN n ELSE rank[p]
      /\ rank' = [p \in Rank |-> rank'[p]]
  BY DEF IInv, TypeOK, Becomes
<1>2. \A p \in Rank : Len(rank[p].votes) \in Nat
  BY DEF IInv, TypeOK, Local, RankRecord
<1>3. Len(n.votes) \in Nat
  BY DEF Allowed, Local, RankRecord
<1>4. \A p \in Rank :
        /\ Len(rank'[p].votes) >= Len(rank[p].votes) /\ Len(rank'[p].votes) \in Nat
        /\ \A i \in 1..Len(rank[p].votes) : rank'[p].votes[i] = rank[p].votes[i]
  BY <1>1, <1>2, <1>3 DEF Allowed
<1>5. ASSUME NEW m \in Nat \ {0} PROVE \A V : AllSay(m, V) => AllSay(m, V)'
  BY <1>2, <1>4 DEF AllSay
<1>6. ASSUME NEW m \in Nat \ {0}, AllMet(m) PROVE AllMet(m)' /\ MinAt(m)' = MinAt(m)
  <2>1. \A p \in Rank : Len(rank'[p].votes) >= m
    BY <1>2, <1>4, <1>6 DEF AllMet
  <2>2. \A p \in Rank : rank'[p].votes[m] = rank[p].votes[m]
    BY <1>2, <1>4, <1>6 DEF AllMet
  <2>3. {rank'[p].votes[m] : p \in Rank} = {rank[p].votes[m] : p \in Rank}
    BY <2>2
  <2> QED BY <2>1, <2>3 DEF AllMet, MinAt
<1>7. ASSUME Stuck PROVE Stuck'
  <2>1. PICK p \in Rank :
          \/ Len(rank[p].votes) >= 2 /\ rank[p].votes[2] = 0
          \/ Left(p) /\ Len(rank[p].votes) < 2
    BY <1>7 DEF Stuck
  <2>2. CASE Len(rank[p].votes) >= 2 /\ rank[p].votes[2] = 0
    <3>1. Len(rank'[p].votes) >= 2 /\ rank'[p].votes[2] = 0
      BY <1>2, <1>4, <2>2
    <3> QED BY <3>1 DEF Stuck
  <2>3. CASE Left(p) /\ Len(rank[p].votes) < 2
    <3>1. rank'[p].pc \in {"ready", "failed", "broken", "closed"}
          /\ rank'[p].votes = rank[p].votes
      BY <1>1, <2>3 DEF Left, Allowed, Gone
    <3> QED BY <2>3, <3>1 DEF Stuck, Left
  <2> QED BY <2>1, <2>2, <2>3
<1> QED BY <1>5, <1>6, <1>7

LEMMA AllowedKeeps ==
  ASSUME NEW r \in Rank, NEW n, IInv, Becomes(r, n), Allowed(r, n)
  PROVE  IInv' /\ FloorStep
<1>1. /\ \A p \in Rank : rank'[p] = IF p = r THEN n ELSE rank[p]
      /\ rank' = [p \in Rank |-> rank'[p]] /\ attempt' = attempt /\ fitting' = fitting
  BY DEF IInv, TypeOK, Becomes
<1>2. TypeOK'
  <2>1. \A p \in Rank : Local(p, rank'[p])
    BY <1>1 DEF IInv, TypeOK, Allowed
  <2>2. \A p \in Rank : Local(p, rank[p])'
    BY <1>1, <2>1 DEF Local, Placed, Sized
  <2> QED BY <1>1, <2>2 DEF IInv, TypeOK
<1>3. /\ \A m \in Nat \ {0} : AllMet(m) => AllMet(m)' /\ MinAt(m)' = MinAt(m)
      /\ \A m \in Nat \ {0} : \A V : AllSay(m, V) => AllSay(m, V)'
      /\ Stuck => Stuck'
  BY Lasting
<1>4. ASSUME fitting, NEW p \in Rank PROVE Agreed(rank[p])' /\ Excused(rank[p])'
  <2>1. Agreed(rank[p]) /\ Excused(rank[p]) /\ Excused(rank[r])
    BY <1>4 DEF IInv
  <2>2. /\ Past1(rank'[p]) => AllSay(1, {1})
        /\ Past2(rank'[p]) => AllSay(2, Nat \ {0})
        /\ Past3(rank'[p]) => AllSay(3, {1})
    BY <1>1, <1>4, <2>1 DEF Agreed, Allowed
  <2>3. rank'[p].pc \in Gone /\ Len(rank'[p].votes) = 2 => Stuck
    <3>1. CASE p # r
      BY <1>1, <2>1, <3>1 DEF Excused
    <3>2. CASE p = r
      <4>1. rank[r].pc \in Gone => Left(r)
        BY DEF Left, Gone
      <4> QED BY <1>1, <1>4, <2>1, <3>2, <4>1 DEF Excused, Allowed
    <3> QED BY <3>1, <3>2
  <2>4. /\ AllSay(1, {1}) => AllSay(1, {1})'
        /\ AllSay(2, Nat \ {0}) => AllSay(2, Nat \ {0})'
        /\ AllSay(3, {1}) => AllSay(3, {1})'
    <3> HIDE DEF AllSay
    <3> QED BY <1>3
  <2> QED BY <1>3, <2>2, <2>3, <2>4 DEF Agreed, Excused, Past1, Past2, Past3
<1>5. ASSUME NEW p \in Rank PROVE BoundRight(rank[p])'
  <2>1. Level' = Level /\ Level \in Nat \ {0} /\ Final' = Final
    BY <1>1 DEF Level, Final
  <2>2. Bound(rank'[p]) => AllMet(Level) /\ rank'[p].units = MinAt(Level)
    <3>1. \A q \in Rank : Bound(rank[q]) => AllMet(Level) /\ rank[q].units = MinAt(Level)
      BY DEF IInv, BoundRight
    <3> QED BY <1>1, <3>1 DEF Allowed
  <2>3. ASSUME Bound(rank'[p]) PROVE AllMet(Level)' /\ rank'[p].units = MinAt(Level)'
    BY <1>3, <2>1, <2>2, <2>3
  <2>4. Bound(rank[p])' => Bound(rank'[p])
    BY <2>1 DEF Bound
  <2> QED BY <2>3, <2>4 DEF BoundRight
<1>6. FloorStep
  <2>1. \A p \in Rank : rank'[p].why \in Whys
    BY <1>2 DEF TypeOK, Local, RankRecord
  <2> QED BY <1>1, <2>1 DEF FloorStep, Allowed, Whys
<1> QED BY <1>1, <1>2, <1>4, <1>5, <1>6 DEF IInv

-----------------------------------------------------------------------------
\* Ranks in a collective, and ranks that leave.

LEMMA Result ==
  ASSUME NEW m \in Nat \ {0}, IInv, AllMet(m), NEW r \in Rank
  PROVE  /\ MinAt(m) \in Nat
         /\ \A q \in Rank : rank[q].votes[m] \in Nat /\ MinAt(m) <= rank[q].votes[m]
         /\ \E q \in Rank : rank[q].votes[m] = MinAt(m)
<1> DEFINE T == {rank[q].votes[m] : q \in Rank}
<1>1. \A q \in Rank : rank[q].votes[m] \in Nat
  <2> TAKE q \in Rank
  <2>1. rank[q] \in RankRecord
    BY DEF IInv, TypeOK, Local
  <2>2. rank[q].votes \in Seq(Nat) /\ m \in 1 .. Len(rank[q].votes)
    <3>1. rank[q].votes \in Seq(Nat)
      BY <2>1 DEF RankRecord
    <3>2. Len(rank[q].votes) >= m
      BY DEF AllMet
    <3> QED BY <3>1, <3>2
  <2> QED BY <2>2
<1>2. T \in SUBSET Nat /\ T # {}
  BY <1>1
<1>3. Min(T) \in T /\ \A y \in T : Min(T) <= y
  <2> HIDE DEF T
  <2> QED BY <1>2, Smallest
<1> QED BY <1>1, <1>3 DEF MinAt

LEMMA MetMinimum ==
  ASSUME NEW r \in Rank, NEW m \in Nat \ {0}, IInv, Met(r), Len(rank[r].votes) = m
  PROVE  /\ AllMet(m) /\ Minimum(r) = MinAt(m) /\ Minimum(r) \in Nat
         /\ \A q \in Rank : rank[q].votes[m] \in Nat /\ Minimum(r) <= rank[q].votes[m]
         /\ \E q \in Rank : rank[q].votes[m] = Minimum(r)
<1>1. AllMet(m)
  BY DEF Met, AllMet
<1>2. Minimum(r) = MinAt(m)
  BY DEF Minimum, MinAt
<1> QED BY <1>1, <1>2, Result

LEMMA GoneAllowed ==
  ASSUME NEW r \in Rank, NEW n \in RankRecord, IInv,
         n.pc \in Gone, n.votes = rank[r].votes, n.units \in {0, rank[r].units},
         Sound(n.backend, attempt), Ended(n),
         fitting => Len(rank[r].votes) >= 1,
         fitting /\ Len(rank[r].votes) = 2 => Stuck,
         n.why = "over" =>
           rank[r].why = "over" \/ DeviceBytes(rank[r].backend) > rank[r].calibrated
  PROVE  Allowed(r, n)
<1>1. Local(r, rank[r]) /\ Len(n.votes) \in Nat
  BY DEF IInv, TypeOK, RankRecord
<1>2. n.pc \notin Building \cup Rebuilding \cup
                {"start", "planning", "calibrating", "sizing", "allocate", "allocating"}
  BY DEF Gone, Building, Rebuilding
<1>3. Placed(n)
  <2>1. CASE fitting
    <3>1. /\ Len(n.votes) \in 1..3
          /\ Len(n.votes) >= 1 => n.votes[1] \in {0, 1}
          /\ Len(n.votes) >= 3 => n.votes[3] \in {0, 1}
      BY <1>1, <2>1 DEF Local, RankRecord, Pcs, Placed
    <3> QED BY <1>2, <2>1, <3>1 DEF Placed, Building, Rebuilding
  <2>2. CASE ~ fitting
    <3>1. Len(n.votes) \in 0..1
      BY <1>1, <2>2 DEF Local, Placed
    <3> QED BY <1>2, <2>2, <3>1 DEF Placed, Building, Rebuilding
  <2> QED BY <2>1, <2>2
<1>4. OpenIn(n) /\ Sized(r, n)
  BY <1>2 DEF OpenIn, Sized, Gone, Building, Rebuilding
<1>5. Local(r, n)
  BY <1>3, <1>4 DEF Local
<1>6. /\ Past1(n) => Past1(rank[r])
      /\ Past2(n) => Past2(rank[r])
      /\ ~ Past3(n)
  BY <1>2 DEF Past1, Past2, Past3
<1>7. Bound(n) => Bound(rank[r]) /\ n.units = rank[r].units
  <2>1. n.pc \notin Final
    BY <1>2 DEF Final, Building, Rebuilding
  <2> QED BY <2>1 DEF Bound
<1>8. Len(n.votes) >= Len(rank[r].votes)
  BY <1>1
<1> QED BY <1>5, <1>6, <1>7, <1>8 DEF Allowed

\* A rank that goes on without a vote.
LEMMA OnAllowed ==
  ASSUME NEW r \in Rank, NEW n, IInv, Local(r, n), n.votes = rank[r].votes,
         n.why = rank[r].why, n.pc \notin Gone, ~ Left(r),
         fitting =>
           /\ Past1(n) => Past1(rank[r]) \/ AllSay(1, {1})
           /\ Past2(n) => Past2(rank[r]) \/ AllSay(2, Nat \ {0})
           /\ Past3(n) => Past3(rank[r]) \/ AllSay(3, {1}),
         Bound(n) => \/ Bound(rank[r]) /\ n.units = rank[r].units
                     \/ AllMet(Level) /\ n.units = MinAt(Level)
  PROVE  Allowed(r, n)
<1>1. Len(n.votes) \in Nat /\ Len(n.votes) = Len(rank[r].votes)
  BY DEF Local, RankRecord
<1> QED BY <1>1 DEF Allowed

LEMMA RolledBackKeeps ==
  ASSUME NEW r \in Rank, NEW k \in RankRecord, NEW why \in Whys, IInv,
         Sound(k.backend, attempt), k.votes = rank[r].votes, k.units = rank[r].units,
         fitting => Len(rank[r].votes) >= 1,
         fitting /\ Len(rank[r].votes) = 2 => Stuck,
         why = "over" => DeviceBytes(rank[r].backend) > rank[r].calibrated,
         RolledBack(r, k, why)
  PROVE  IInv' /\ FloorStep
<1>1. PICK reset \in {0} \cup k.backend.open :
        LET b == Released(k.backend, From(reset, k.backend))
        IN  Becomes(r, IF StillLive(b)
                       THEN [Holding(k, k.state, b) EXCEPT
                               !.pc = "broken", !.why = IF reset # 0 THEN "reset" ELSE why]
                       ELSE [Holding(k, 0, b) EXCEPT
                               !.pc = "failed", !.why = why, !.units = 0])
  BY DEF RolledBack
<1> DEFINE C == From(reset, k.backend)
           b == Released(k.backend, C)
<1>2. k.backend.open \in SUBSET Graph /\ C \in SUBSET k.backend.open
  BY DEF Sound, Backend, From
<1>3. reset = 0 => C = k.backend.open
  BY <1>2, Keys DEF From
<1>4. /\ Sound(b, attempt) /\ b \in Backend
      /\ StillLive(b) <=> C # k.backend.open
      /\ C = k.backend.open => b = EmptyBackend
  <2> HIDE DEF C
  <2> QED BY <1>2, ReleasedKeeps DEF Sound
<1> HIDE DEF C, b
<1>5. CASE StillLive(b)
  <2> DEFINE h == Holding(k, k.state, b)
             n == [h EXCEPT !.pc = "broken", !.why = IF reset # 0 THEN "reset" ELSE why]
  <2>1. Becomes(r, n)
    BY <1>1, <1>5 DEF b, C
  <2>2. reset # 0
    BY <1>3, <1>4, <1>5
  <2>3. /\ h \in RankRecord /\ h.backend = b /\ h.votes = k.votes /\ h.units = k.units
    <3>1. k.state \in Nat
      BY DEF RankRecord
    <3> QED BY <1>4, <3>1, HoldingFields
  <2>4. n = [h EXCEPT !.pc = "broken", !.why = "reset"]
    BY <2>2
  <2> HIDE DEF h, n
  <2>5. /\ n \in RankRecord /\ n.pc = "broken" /\ n.why = "reset" /\ n.backend = b
        /\ n.votes = rank[r].votes /\ n.units = rank[r].units
    BY <2>3, <2>4 DEF RankRecord, Pcs, Gone, Whys
  <2>6. Ended(n) /\ n.pc \in Gone
    BY <2>5 DEF Ended, Gone
  <2>7. Allowed(r, n)
    BY <1>4, <2>5, <2>6, GoneAllowed
  <2> QED BY <2>1, <2>7, AllowedKeeps
<1>6. CASE ~ StillLive(b)
  <2> DEFINE h == Holding(k, 0, b)
             n == [h EXCEPT !.pc = "failed", !.why = why, !.units = 0]
  <2>1. Becomes(r, n)
    BY <1>1, <1>6 DEF b, C
  <2>3. /\ h \in RankRecord /\ h.backend = b /\ h.votes = k.votes /\ h.state = 0
    BY <1>4, HoldingFields
  <2> HIDE DEF h
  <2>5. /\ n \in RankRecord /\ n.pc = "failed" /\ n.why = why /\ n.backend = b
        /\ n.votes = rank[r].votes /\ n.units = 0 /\ n.state = 0
    BY <2>3 DEF RankRecord, Pcs, Gone
  <2> HIDE DEF n
  <2>6. Ended(n) /\ n.pc \in Gone
    BY <1>4, <1>6, <2>5 DEF Ended, Gone
  <2>7. Allowed(r, n)
    BY <1>4, <2>5, <2>6, GoneAllowed
  <2> QED BY <2>1, <2>7, AllowedKeeps
<1> QED BY <1>5, <1>6

-----------------------------------------------------------------------------
\* State of a plain activation.

LEMMA PlanKeeps ==
  ASSUME NEW r \in Rank, IInv, Plan(r)
  PROVE  IInv' /\ FloorStep
<1> DEFINE v == Vote(rank[r], Planned(r))
           n == [v EXCEPT !.pc = "planning"]
<1>1. /\ Local(r, rank[r]) /\ rank[r].pc = "start" /\ ~ fitting /\ Becomes(r, n)
  BY DEF IInv, TypeOK, Plan
<1>2. Planned(r) \in Nat
  <2>1. Budgets[r] - Fixed \in Int /\ Unit \in Nat \ {0}
    BY ActivationAssumption
  <2>2. Planned(r) \in Int /\ Planned(r) >= 1
    BY <2>1, Pays DEF Plan, Planned, MinimumUnits
  <2> QED BY <2>2
<1>3. rank[r] \in RankRecord /\ Len(rank[r].votes) = 0 /\ rank[r].units = 0
  BY <1>1 DEF Local, Placed
<1>4. /\ v \in RankRecord /\ v.backend = rank[r].backend /\ v.why = rank[r].why
      /\ v.units = 0 /\ Len(v.votes) = 1
  <2>1. /\ v \in RankRecord /\ v.backend = rank[r].backend /\ v.why = rank[r].why
        /\ v.units = rank[r].units /\ Len(v.votes) = Len(rank[r].votes) + 1
    BY <1>2, <1>3, VoteFields
  <2> QED BY <1>3, <2>1
<1> HIDE DEF v
<1>5. /\ n \in RankRecord /\ n.pc = "planning" /\ n.backend = rank[r].backend
      /\ n.units = 0 /\ Len(n.votes) = 1 /\ n.why = rank[r].why
  BY <1>4 DEF RankRecord, Pcs
<1> HIDE DEF n
<1>6. Local(r, n)
  BY <1>1, <1>5 DEF Local, Placed, OpenIn, Ended, Sized, Gone
<1>7. ~ Bound(n)
  BY <1>1, <1>5 DEF Bound, Level, Final
<1>8. Allowed(r, n)
  BY <1>1, <1>3, <1>5, <1>6, <1>7 DEF Allowed, Left
<1> QED BY <1>1, <1>8, AllowedKeeps

LEMMA PlanFailedKeeps ==
  ASSUME NEW r \in Rank, IInv, PlanFailed(r)
  PROVE  IInv' /\ FloorStep
<1>1. /\ Local(r, rank[r]) /\ ~ fitting /\ RolledBack(r, rank[r], "plan")
  BY DEF IInv, TypeOK, PlanFailed
<1> QED BY <1>1, RolledBackKeeps DEF Local, Whys

LEMMA RealizeKeeps ==
  ASSUME NEW r \in Rank, IInv, Realize(r)
  PROVE  IInv' /\ FloorStep
<1> DEFINE h == Holding(rank[r], Fixed + Minimum(r) * Unit, rank[r].backend)
           n == [h EXCEPT !.pc = "initialize", !.units = Minimum(r)]
<1>1. /\ Local(r, rank[r]) /\ rank[r].pc = "planning" /\ Met(r) /\ Becomes(r, n)
  BY DEF IInv, TypeOK, Realize
<1>2. /\ rank[r] \in RankRecord /\ Len(rank[r].votes) = 1 /\ ~ fitting
      /\ rank[r].backend.open = {}
  BY <1>1 DEF Local, Placed, OpenIn, Gone
<1>3. AllMet(1) /\ Minimum(r) = MinAt(1) /\ Minimum(r) \in Nat
  <2>1. 1 \in Nat \ {0}
    OBVIOUS
  <2> QED BY <1>1, <1>2, <2>1, MetMinimum
<1>4. Fixed + Minimum(r) * Unit \in Nat
  BY <1>3, ActivationAssumption
<1>5. /\ h \in RankRecord /\ h.backend = rank[r].backend /\ h.votes = rank[r].votes
      /\ h.why = rank[r].why
  <2>1. rank[r].backend \in Backend
    BY <1>2 DEF RankRecord
  <2> QED BY <1>2, <1>4, <2>1, HoldingFields
<1> HIDE DEF h
<1>6. /\ n \in RankRecord /\ n.pc = "initialize" /\ n.backend = rank[r].backend
      /\ n.units = Minimum(r) /\ n.votes = rank[r].votes /\ n.why = rank[r].why
  BY <1>3, <1>5 DEF RankRecord, Pcs, Building
<1> HIDE DEF n
<1>7. Local(r, n)
  BY <1>1, <1>2, <1>6 DEF Local, Placed, OpenIn, Ended, Sized, Gone
<1>8. AllMet(Level) /\ n.units = MinAt(Level)
  BY <1>2, <1>3, <1>6 DEF Level
<1>9. ~ Left(r) /\ n.pc \notin Gone
  BY <1>1, <1>6 DEF Left, Gone
<1>10. Allowed(r, n)
  BY <1>2, <1>6, <1>7, <1>8, <1>9, OnAllowed
<1> QED BY <1>1, <1>10, AllowedKeeps

LEMMA RealizeFailedKeeps ==
  ASSUME NEW r \in Rank, IInv, RealizeFailed(r)
  PROVE  IInv' /\ FloorStep
<1>1. /\ Local(r, rank[r]) /\ rank[r].pc = "planning" /\ RolledBack(r, rank[r], "realize")
  BY DEF IInv, TypeOK, RealizeFailed
<1>2. ~ fitting
  BY <1>1 DEF Local, Placed
<1> QED BY <1>1, <1>2, RolledBackKeeps DEF Local, Whys

-----------------------------------------------------------------------------
\* Calibration State.

LEMMA CalibrationVoteKeeps ==
  ASSUME NEW r \in Rank, NEW k \in RankRecord, NEW value \in {0, 1}, IInv,
         rank[r].pc = "start", fitting, k.backend = rank[r].backend,
         k.votes = rank[r].votes, k.why = rank[r].why,
         Becomes(r, [Vote(k, value) EXCEPT !.pc = "calibrating"])
  PROVE  IInv' /\ FloorStep
<1> DEFINE v == Vote(k, value)
           n == [v EXCEPT !.pc = "calibrating"]
<1>1. Local(r, rank[r]) /\ Becomes(r, n)
  BY DEF IInv, TypeOK
<1>2. /\ rank[r] \in RankRecord /\ Len(rank[r].votes) = 0 /\ rank[r].backend.open = {}
      /\ value \in Nat
  BY <1>1 DEF Local, Placed, OpenIn, Gone
<1>3. /\ v \in RankRecord /\ v.backend = rank[r].backend /\ v.why = rank[r].why
      /\ Len(v.votes) = 1 /\ v.votes[1] = value
  <2>1. /\ v \in RankRecord /\ v.backend = rank[r].backend /\ v.why = rank[r].why
        /\ Len(v.votes) = Len(k.votes) + 1 /\ v.votes[Len(k.votes) + 1] = value
    BY <1>2, VoteFields
  <2> QED BY <1>2, <2>1
<1> HIDE DEF v
<1>4. /\ n \in RankRecord /\ n.pc = "calibrating" /\ n.backend = rank[r].backend
      /\ Len(n.votes) = 1 /\ n.votes[1] = value /\ n.why = rank[r].why
  BY <1>3 DEF RankRecord, Pcs
<1> HIDE DEF n
<1>5. Placed(n) /\ OpenIn(n) /\ Ended(n) /\ Sized(r, n)
  BY <1>2, <1>4 DEF Placed, OpenIn, Ended, Sized, Gone, Building, Rebuilding
<1>6. Local(r, n)
  BY <1>1, <1>4, <1>5 DEF Local
<1>7. ~ Past1(n) /\ ~ Past2(n) /\ ~ Past3(n) /\ ~ Bound(n) /\ n.pc \notin Gone
  BY <1>4 DEF Past1, Past2, Past3, Bound, Level, Building, Rebuilding, Gone
<1>8. Allowed(r, n)
  BY <1>2, <1>4, <1>6, <1>7 DEF Allowed, Left
<1> QED BY <1>1, <1>8, AllowedKeeps

LEMMA CalibrateKeeps ==
  ASSUME NEW r \in Rank, IInv, Calibrate(r) \/ CalibrationFailed(r)
  PROVE  IInv' /\ FloorStep
<1>1. rank[r] \in RankRecord /\ rank[r].backend \in Backend
  BY DEF IInv, TypeOK, Local, RankRecord
<1>2. CASE CalibrationFailed(r)
  BY <1>1, <1>2, CalibrationVoteKeeps DEF CalibrationFailed
<1>3. CASE Calibrate(r)
  <2> DEFINE h == Holding(rank[r], CalibrationBytes, rank[r].backend)
  <2>1. CalibrationBytes \in Nat
    BY ActivationAssumption DEF CalibrationBytes, MinimumUnits
  <2>2. /\ h \in RankRecord /\ h.backend = rank[r].backend /\ h.votes = rank[r].votes
        /\ h.why = rank[r].why
    BY <1>1, <2>1, HoldingFields
  <2>3. /\ rank[r].pc = "start" /\ fitting
        /\ Becomes(r, [Vote(h, 1) EXCEPT !.pc = "calibrating"])
    BY <1>3 DEF Calibrate
  <2> HIDE DEF h
  <2> QED BY <2>2, <2>3, CalibrationVoteKeeps
<1> QED BY <1>2, <1>3

LEMMA CalibrationAgreedKeeps ==
  ASSUME NEW r \in Rank, IInv, CalibrationAgreed(r)
  PROVE  IInv' /\ FloorStep
<1>1. Local(r, rank[r]) /\ rank[r].pc = "calibrating" /\ Met(r)
  BY DEF IInv, TypeOK, CalibrationAgreed
<1>2. /\ rank[r] \in RankRecord /\ fitting /\ Len(rank[r].votes) = 1
      /\ rank[r].backend.open = {}
  BY <1>1 DEF Local, Placed, OpenIn, Gone
<1>3. CASE Minimum(r) = 1
  <2> DEFINE n == [rank[r] EXCEPT !.pc = "initialize", !.units = MinimumUnits]
  <2>1. Becomes(r, n)
    BY <1>3 DEF CalibrationAgreed
  <2>2. /\ n \in RankRecord /\ n.pc = "initialize" /\ n.backend = rank[r].backend
        /\ n.votes = rank[r].votes /\ n.why = rank[r].why /\ Len(n.votes) = 1
    BY <1>2 DEF RankRecord, Pcs, Building, MinimumUnits
  <2> HIDE DEF n
  <2>3. AllSay(1, {1})
    <3>1. AllMet(1) /\ \A q \in Rank : rank[q].votes[1] \in Nat /\ rank[q].votes[1] >= 1
      <4>1. 1 \in Nat \ {0}
        OBVIOUS
      <4>2. AllMet(1) /\ \A q \in Rank : rank[q].votes[1] \in Nat /\ Minimum(r) <= rank[q].votes[1]
        BY <1>1, <1>2, <4>1, MetMinimum
      <4> QED BY <1>3, <4>2
    <3>2. \A q \in Rank : rank[q].votes[1] \in {0, 1}
      BY <1>2, <3>1 DEF IInv, TypeOK, Local, Placed, AllMet
    <3> QED BY <3>1, <3>2 DEF AllSay, AllMet
  <2>4. Placed(n)
    BY <1>1, <1>2, <2>2 DEF Local, Placed, Gone, Building, Rebuilding
  <2>5. Local(r, n)
    BY <1>1, <1>2, <2>2, <2>4 DEF Local, OpenIn, Ended, Sized, Gone
  <2>6. ~ Past2(n) /\ ~ Past3(n) /\ ~ Bound(n) /\ n.pc \notin Gone /\ ~ Left(r)
    <3>1. n.pc \notin Gone \cup Rebuilding \cup {"allocate"}
      BY <2>2 DEF Gone, Rebuilding
    <3>2. ~ Left(r)
      BY <1>1 DEF Left
    <3>3. ~ (Len(n.votes) >= Level) /\ ~ (Len(n.votes) >= 3)
      <4>1. Level = 2
        BY <1>2 DEF Level
      <4>2. Len(n.votes) = 1
        BY <2>2
      <4> QED BY <4>1, <4>2
    <3> QED BY <3>1, <3>2, <3>3 DEF Past2, Past3, Bound
  <2>7. Allowed(r, n)
    BY <2>2, <2>3, <2>5, <2>6, OnAllowed
  <2> QED BY <2>1, <2>7, AllowedKeeps
<1>4. CASE Minimum(r) # 1
  <2>1. RolledBack(r, rank[r], "calibration")
    BY <1>4 DEF CalibrationAgreed
  <2>2. Len(rank[r].votes) >= 1 /\ Len(rank[r].votes) # 2
    BY <1>2
  <2> QED BY <1>1, <1>2, <2>1, <2>2, RolledBackKeeps DEF Local, Whys
<1> QED BY <1>3, <1>4

-----------------------------------------------------------------------------
\* The captures.

\* The next step of the captures.
Follows(k, n) ==
  \/ /\ k.pc \in {"initialize", "warm", "capture", "retain"}
     /\ n.pc \in {"warm", "capture"} \/ (fitting /\ n.pc \in {"retain", "size"})
  \/ k.pc \in {"rebind", "recapture"} /\ n.pc \in {"recapture", "settle"}
  \/ ~ fitting /\ k.pc = "capture" /\ n.pc = "ready"

LEMMA BuildOn ==
  ASSUME NEW r \in Rank, NEW n \in RankRecord, IInv,
         Sound(n.backend, attempt), OpenIn(n),
         n.votes = rank[r].votes, n.units = rank[r].units, n.why = rank[r].why,
         n.state = rank[r].state, n.calibrated = rank[r].calibrated, Follows(rank[r], n)
  PROVE  Allowed(r, n)
<1>1. Local(r, rank[r]) /\ ~ Left(r) /\ n.pc \notin Gone /\ Ended(n)
  BY DEF IInv, TypeOK, Left, Gone, Ended, Follows
<1>2. Len(n.votes) \in Nat /\ Placed(rank[r])
  BY <1>1 DEF Local, RankRecord
<1>3. CASE fitting
  <2>1. CASE n.pc \in Building
    <3>1. rank[r].pc \in Building
      BY <1>3, <2>1 DEF Building, Follows
    <3>2. Len(n.votes) = 1 /\ n.votes[1] \in {0, 1}
      BY <1>2, <1>3, <3>1 DEF Placed
    <3>3. Placed(n) /\ Sized(r, n)
      BY <1>3, <2>1, <3>2 DEF Placed, Sized, Building, Rebuilding, Gone
    <3>4. Local(r, n)
      BY <1>1, <3>3 DEF Local
    <3>5. Past1(rank[r]) /\ ~ Past2(n) /\ ~ Past3(n)
      BY <2>1, <3>1, <3>2 DEF Past1, Past2, Past3, Building, Rebuilding
    <3>6. ~ Bound(n)
      <4>1. Level = 2
        BY <1>3 DEF Level
      <4> QED BY <3>2, <4>1 DEF Bound
    <3> QED BY <1>1, <3>4, <3>5, <3>6, OnAllowed
  <2>2. CASE n.pc \notin Building
    <3>1. n.pc \in {"recapture", "settle"} /\ rank[r].pc \in {"rebind", "recapture"}
      BY <1>3, <2>2 DEF Building, Follows
    <3>2. /\ Len(n.votes) = 3 /\ n.votes[1] \in {0, 1} /\ n.votes[3] \in {0, 1}
      BY <1>2, <1>3, <3>1 DEF Placed, Rebuilding
    <3>3. Placed(n)
      BY <1>3, <3>1, <3>2 DEF Placed, Building, Rebuilding, Gone
    <3>4. Sized(r, n)
      BY <1>1, <3>1 DEF Local, Sized
    <3>5. Local(r, n)
      BY <1>1, <3>3, <3>4 DEF Local
    <3>6. Past1(rank[r]) /\ Past2(rank[r]) /\ Past3(rank[r])
      BY <3>1, <3>2 DEF Past1, Past2, Past3, Rebuilding
    <3>7. Bound(rank[r])
      <4>1. Level = 2 /\ rank[r].pc \in Final
        BY <1>3, <3>1 DEF Level, Final, Rebuilding
      <4> QED BY <3>2, <4>1 DEF Bound
    <3> QED BY <1>1, <3>5, <3>6, <3>7, OnAllowed
  <2> QED BY <2>1, <2>2
<1>4. CASE ~ fitting
  <2>1. rank[r].pc \in {"initialize", "warm", "capture"} /\ n.pc \in {"warm", "capture", "ready"}
    BY <1>2, <1>4 DEF Placed, Gone, Follows
  <2>2. Len(n.votes) = 1
    BY <1>2, <1>4, <2>1 DEF Placed
  <2>3. Placed(n) /\ Sized(r, n)
    BY <1>4, <2>1, <2>2 DEF Placed, Sized, Gone
  <2>4. Local(r, n)
    BY <1>1, <2>3 DEF Local
  <2>5. Bound(rank[r])
    <3>1. Level = 1 /\ rank[r].pc \in Final
      BY <1>4, <2>1 DEF Level, Final
    <3> QED BY <2>2, <3>1 DEF Bound
  <2> QED BY <1>1, <1>4, <2>4, <2>5, OnAllowed
<1> QED BY <1>3, <1>4

LEMMA InitializeKeeps ==
  ASSUME NEW r \in Rank, IInv, Initialize(r)
  PROVE  IInv' /\ FloorStep
<1> DEFINE n == [rank[r] EXCEPT !.pc = "warm", !.at = 1]
<1>1. Local(r, rank[r]) /\ rank[r].pc = "initialize" /\ Becomes(r, n)
  BY DEF IInv, TypeOK, Initialize
<1>2. rank[r] \in RankRecord /\ rank[r].backend.open = {} /\ 1 \in Graph
  BY <1>1, Keys DEF Local, OpenIn, Gone
<1>3. /\ n \in RankRecord /\ n.pc = "warm" /\ n.backend = rank[r].backend
      /\ n.votes = rank[r].votes /\ n.units = rank[r].units /\ n.why = rank[r].why
      /\ n.state = rank[r].state /\ n.calibrated = rank[r].calibrated
  BY <1>2 DEF RankRecord, Pcs, Building
<1> HIDE DEF n
<1>4. Sound(n.backend, attempt) /\ OpenIn(n)
  BY <1>1, <1>2, <1>3 DEF Local, OpenIn
<1>5. Allowed(r, n)
  <2>1. Follows(rank[r], n)
    BY <1>1, <1>3 DEF Follows
  <2> QED BY <1>3, <1>4, <2>1, BuildOn
<1> QED BY <1>1, <1>5, AllowedKeeps

LEMMA WarmKeeps ==
  ASSUME NEW r \in Rank, IInv, Warm(r)
  PROVE  IInv' /\ FloorStep
<1> DEFINE b == Warmed(rank[r].backend, rank[r].at, attempt)
           w == [rank[r] EXCEPT !.backend = b]
           k == Advanced(w, "capture")
           n == IF k.pc = "capture" THEN Reclaimed(k) ELSE k
<1>1. Local(r, rank[r]) /\ rank[r].pc = "warm" /\ Becomes(r, n) /\ attempt \in Nat \ {0}
  BY DEF IInv, TypeOK, Warm
<1>2. /\ rank[r] \in RankRecord /\ rank[r].backend.open = {} /\ rank[r].at \in Graph
      /\ Sound(rank[r].backend, attempt)
  BY <1>1 DEF Local, OpenIn, Gone, RankRecord
<1>3. Sound(b, attempt) /\ b.open = {} /\ b \in Backend
  BY <1>1, <1>2, WarmedKeeps DEF Sound
<1> HIDE DEF b
<1>4. /\ w \in RankRecord /\ w.pc = "warm" /\ w.backend = b
      /\ w.votes = rank[r].votes /\ w.units = rank[r].units /\ w.why = rank[r].why
      /\ w.state = rank[r].state /\ w.calibrated = rank[r].calibrated
  BY <1>1, <1>2, <1>3 DEF RankRecord
<1> HIDE DEF w
<1>5. /\ k \in RankRecord /\ k.backend = b
      /\ k.votes = rank[r].votes /\ k.units = rank[r].units /\ k.why = rank[r].why
      /\ k.state = rank[r].state /\ k.calibrated = rank[r].calibrated
      /\ k.pc = "warm" \/ (k.pc = "capture" /\ k.at = 1)
  <2>1. "capture" \in Pcs
    BY DEF Pcs, Building
  <2>2. /\ k \in RankRecord /\ k.backend = w.backend
        /\ k.votes = w.votes /\ k.units = w.units /\ k.why = w.why
        /\ k.state = w.state /\ k.calibrated = w.calibrated
        /\ k.pc = w.pc \/ (k.pc = "capture" /\ k.at = 1)
    BY <1>4, <2>1, AdvancedFields
  <2> HIDE DEF k
  <2> QED BY <1>4, <2>2
<1> HIDE DEF k
<1>6. /\ n \in RankRecord /\ n.backend = b
      /\ n.votes = rank[r].votes /\ n.units = rank[r].units /\ n.why = rank[r].why
      /\ n.state = rank[r].state /\ n.calibrated = rank[r].calibrated
      /\ n.pc = "warm" \/ (n.pc = "capture" /\ n.at = 1)
  BY <1>5, ReclaimedFields
<1> HIDE DEF n
<1>7. Sound(n.backend, attempt) /\ OpenIn(n)
  <2>1. {g \in Graph : g < 1} = {}
    BY Keys
  <2> QED BY <1>3, <1>6, <2>1 DEF OpenIn
<1>8. Allowed(r, n)
  <2>1. Follows(rank[r], n)
    BY <1>1, <1>6 DEF Follows
  <2> QED BY <1>6, <1>7, <2>1, BuildOn
<1> QED BY <1>1, <1>8, AllowedKeeps

LEMMA CaptureKeeps ==
  ASSUME NEW r \in Rank, IInv, Capture(r)
  PROVE  IInv' /\ FloorStep
<1>1. /\ Local(r, rank[r]) /\ rank[r].pc \in {"capture", "recapture"}
      /\ attempt \in Nat \ {0}
  BY DEF IInv, TypeOK, Capture
<1> DEFINE k == rank[r]
           next == AfterCaptures(k)
<1>2. PICK bytes \in CaptureBytes :
        Becomes(r, Advanced(Holding(k, k.state, Captured(k.backend, k.at, bytes, attempt)), next))
  BY DEF Capture
<1> DEFINE b == Captured(k.backend, k.at, bytes, attempt)
           h == Holding(k, k.state, b)
           n == Advanced(h, next)
<1>3. /\ k \in RankRecord /\ k.at \in Graph /\ k.state \in Nat
      /\ k.backend.open = {g \in Graph : g < k.at} /\ Sound(k.backend, attempt)
  BY <1>1 DEF Local, OpenIn, RankRecord
<1>4. k.at \in Graph \ k.backend.open /\ bytes \in Nat \ {0}
  BY <1>3, Keys, ActivationAssumption
<1>5. Sound(b, attempt) /\ b.open = k.backend.open \cup {k.at} /\ b \in Backend
  BY <1>1, <1>3, <1>4, CapturedKeeps DEF Sound
<1> HIDE DEF b
<1>6. /\ h \in RankRecord /\ h.pc = k.pc /\ h.backend = b /\ h.at = k.at
      /\ h.votes = k.votes /\ h.units = k.units /\ h.why = k.why
      /\ h.state = k.state /\ h.calibrated = k.calibrated
  BY <1>3, <1>5, HoldingFields
<1> HIDE DEF h
<1>7. /\ next \in Pcs /\ next \in {"settle", "retain", "ready"}
      /\ k.pc = "recapture" => next = "settle"
      /\ k.pc = "capture" /\ fitting => next = "retain"
      /\ k.pc = "capture" /\ ~ fitting => next = "ready"
  <2>1. CASE k.pc = "recapture"
    BY <2>1 DEF AfterCaptures, Pcs, Rebuilding
  <2>2. CASE k.pc = "capture" /\ fitting
    BY <2>2 DEF AfterCaptures, Pcs, Building
  <2>3. CASE k.pc = "capture" /\ ~ fitting
    BY <2>3 DEF AfterCaptures, Pcs, Rebuilding
  <2> QED BY <1>1, <2>1, <2>2, <2>3
<1> HIDE DEF next
<1>8. /\ n \in RankRecord /\ n.backend = b
      /\ n.votes = k.votes /\ n.units = k.units /\ n.why = k.why
      /\ n.state = k.state /\ n.calibrated = k.calibrated
      /\ \/ k.at = Cardinality(Graph) /\ n.pc = next /\ n.at = 1
         \/ n.pc = k.pc /\ n.at = k.at + 1
  BY <1>6, <1>7, AdvancedFields
<1> HIDE DEF n
<1>9. OpenIn(n)
  <2>1. CASE n.pc = k.pc /\ n.at = k.at + 1
    <3>1. b.open = {g \in Graph : g < k.at + 1}
      BY <1>3, <1>5, Keys
    <3> QED BY <1>1, <1>8, <2>1, <3>1 DEF OpenIn
  <2>2. CASE k.at = Cardinality(Graph) /\ n.pc = next /\ n.at = 1
    <3>1. b.open = {g \in Graph : g >= 1}
      BY <1>3, <1>5, <2>2, Keys
    <3> QED BY <1>7, <1>8, <2>2, <3>1 DEF OpenIn
  <2> QED BY <1>8, <2>1, <2>2
<1>10. Allowed(r, n)
  <2>1. ASSUME n.pc = k.pc PROVE Follows(k, n)
    BY <1>1, <2>1 DEF Follows
  <2>2. ASSUME n.pc = next PROVE Follows(k, n)
    BY <1>1, <1>7, <2>2 DEF Follows
  <2>3. Follows(k, n)
    BY <1>8, <2>1, <2>2
  <2> QED BY <1>5, <1>8, <1>9, <2>3, BuildOn
<1> QED BY <1>2, <1>10, AllowedKeeps DEF n, h, b

LEMMA RetainKeeps ==
  ASSUME NEW r \in Rank, IInv, Retain(r)
  PROVE  IInv' /\ FloorStep
<1> DEFINE k == rank[r]
           b == Retained(k.backend, k.at)
           w == [k EXCEPT !.backend = b]
           n == Advanced(w, "size")
<1>1. Local(r, k) /\ k.pc = "retain" /\ Becomes(r, n)
  BY DEF IInv, TypeOK, Retain
<1>2. /\ k \in RankRecord /\ k.at \in Graph /\ Sound(k.backend, attempt)
      /\ k.backend.open = {g \in Graph : g >= k.at} /\ fitting
  BY <1>1 DEF Local, OpenIn, RankRecord, Placed, Gone
<1>3. k.at \in k.backend.open
  BY <1>2, Keys
<1>4. Sound(b, attempt) /\ b.open = k.backend.open \ {k.at} /\ b \in Backend
  BY <1>2, <1>3, RetainedKeeps DEF Sound
<1> HIDE DEF b
<1>5. /\ w \in RankRecord /\ w.pc = "retain" /\ w.backend = b /\ w.at = k.at
      /\ w.votes = k.votes /\ w.units = k.units /\ w.why = k.why
      /\ w.state = k.state /\ w.calibrated = k.calibrated
  BY <1>1, <1>2, <1>4 DEF RankRecord
<1> HIDE DEF w
<1>6. /\ n \in RankRecord /\ n.backend = b
      /\ n.votes = k.votes /\ n.units = k.units /\ n.why = k.why
      /\ n.state = k.state /\ n.calibrated = k.calibrated
      /\ \/ k.at = Cardinality(Graph) /\ n.pc = "size"
         \/ n.pc = "retain" /\ n.at = k.at + 1
  <2>1. "size" \in Pcs
    BY DEF Pcs, Building
  <2> QED BY <1>5, <2>1, AdvancedFields
<1> HIDE DEF n
<1>7. OpenIn(n)
  <2>1. CASE n.pc = "retain" /\ n.at = k.at + 1
    <3>1. b.open = {g \in Graph : g >= k.at + 1}
      BY <1>2, <1>4, Keys
    <3> QED BY <1>6, <2>1, <3>1 DEF OpenIn
  <2>2. CASE k.at = Cardinality(Graph) /\ n.pc = "size"
    <3>1. b.open = {}
      BY <1>2, <1>4, <2>2, Keys
    <3> QED BY <1>6, <2>2, <3>1 DEF OpenIn
  <2> QED BY <1>6, <2>1, <2>2
<1>8. Allowed(r, n)
  <2>1. Follows(k, n)
    BY <1>1, <1>2, <1>6 DEF Follows
  <2> QED BY <1>4, <1>6, <1>7, <2>1, BuildOn
<1> QED BY <1>1, <1>8, AllowedKeeps

LEMMA RebindKeeps ==
  ASSUME NEW r \in Rank, IInv, Rebind(r)
  PROVE  IInv' /\ FloorStep
<1> DEFINE k == rank[r]
           b == PoolsHandedBack(k.backend)
           h == Holding(k, k.state, b)
           w == Reclaimed(h)
           n == [w EXCEPT !.pc = "recapture", !.at = 1]
<1>1. Local(r, k) /\ k.pc = "rebind" /\ Becomes(r, n)
  BY DEF IInv, TypeOK, Rebind
<1>2. /\ k \in RankRecord /\ k.state \in Nat /\ Sound(k.backend, attempt)
      /\ k.backend.open = {} /\ 1 \in Graph
  BY <1>1, Keys DEF Local, OpenIn, RankRecord, Gone
<1>3. Sound(b, attempt) /\ b.open = {} /\ b \in Backend
  BY <1>2, PoolsHandedBackKeeps DEF Sound
<1> HIDE DEF b
<1>4. /\ h \in RankRecord /\ h.backend = b
      /\ h.votes = k.votes /\ h.units = k.units /\ h.why = k.why
      /\ h.state = k.state /\ h.calibrated = k.calibrated
  BY <1>2, <1>3, HoldingFields
<1> HIDE DEF h
<1>5. /\ w \in RankRecord /\ w.backend = b
      /\ w.votes = k.votes /\ w.units = k.units /\ w.why = k.why
      /\ w.state = k.state /\ w.calibrated = k.calibrated
  BY <1>4, ReclaimedFields
<1> HIDE DEF w
<1>6. /\ n \in RankRecord /\ n.backend = b /\ n.pc = "recapture" /\ n.at = 1
      /\ n.votes = k.votes /\ n.units = k.units /\ n.why = k.why
      /\ n.state = k.state /\ n.calibrated = k.calibrated
  BY <1>2, <1>5 DEF RankRecord, Pcs, Rebuilding
<1> HIDE DEF n
<1>7. OpenIn(n)
  <2>1. {g \in Graph : g < 1} = {}
    BY Keys
  <2> QED BY <1>3, <1>6, <2>1 DEF OpenIn
<1>8. Allowed(r, n)
  <2>1. Follows(k, n)
    BY <1>1, <1>6 DEF Follows
  <2> QED BY <1>3, <1>6, <1>7, <2>1, BuildOn
<1> QED BY <1>1, <1>8, AllowedKeeps

LEMMA BuildFailedKeeps ==
  ASSUME NEW r \in Rank, IInv, BuildFailed(r)
  PROVE  IInv' /\ FloorStep
<1> DEFINE k == rank[r]
<1>1. PICK b \in Abandoned(k) : RolledBack(r, Holding(k, k.state, b), "build")
  BY DEF BuildFailed
<1>2. /\ Local(r, k) /\ k \in RankRecord /\ k.at \in Graph /\ k.state \in Nat
      /\ Sound(k.backend, attempt) /\ attempt \in Nat \ {0}
  BY DEF IInv, TypeOK, Local, RankRecord
<1>3. k.pc \in {"initialize", "warm", "rebind", "capture", "recapture", "retain"}
  BY <1>1 DEF Abandoned
<1>4. Sound(b, attempt)
  <2>1. CASE k.pc \in {"initialize", "warm", "rebind"}
    <3>1. b = k.backend
      BY <1>1, <2>1 DEF Abandoned
    <3> QED BY <1>2, <3>1
  <2>2. CASE k.pc \in {"capture", "recapture"}
    <3>1. k.backend.open = {g \in Graph : g < k.at}
      BY <1>2, <2>2 DEF Local, OpenIn
    <3>2. k.at \in Graph \ k.backend.open
      BY <1>2, <3>1, Keys
    <3>3. \/ b = CaptureAborted(k.backend, k.at, attempt)
          \/ \E bytes \in CaptureBytes : b = Captured(k.backend, k.at, bytes, attempt)
      BY <1>1, <2>2 DEF Abandoned
    <3>4. CASE b = CaptureAborted(k.backend, k.at, attempt)
      BY <1>2, <3>2, <3>4, CaptureAbortedKeeps
    <3>5. ASSUME NEW bytes \in CaptureBytes, b = Captured(k.backend, k.at, bytes, attempt)
          PROVE  Sound(b, attempt)
      <4>1. bytes \in Nat \ {0}
        BY ActivationAssumption
      <4> QED BY <1>2, <3>2, <3>5, <4>1, CapturedKeeps
    <3> QED BY <3>3, <3>4, <3>5
  <2>3. CASE k.pc = "retain"
    <3>1. k.backend.open = {g \in Graph : g >= k.at}
      BY <1>2, <2>3 DEF Local, OpenIn
    <3>2. k.at \in k.backend.open
      BY <1>2, <3>1, Keys
    <3>3. b \in {k.backend, RetainAborted(k.backend, k.at)}
      BY <1>1, <2>3 DEF Abandoned
    <3> QED BY <1>2, <3>2, <3>3, RetainAbortedKeeps
  <2> QED BY <1>3, <2>1, <2>2, <2>3
<1> DEFINE h == Holding(k, k.state, b)
<1>5. /\ h \in RankRecord /\ h.backend = b
      /\ h.votes = k.votes /\ h.units = k.units /\ h.why = k.why
  <2>1. b \in Backend
    BY <1>4 DEF Sound
  <2> QED BY <1>2, <2>1, HoldingFields
<1>6. RolledBack(r, h, "build")
  BY <1>1
<1> HIDE DEF h
<1>7. fitting => Len(k.votes) >= 1 /\ Len(k.votes) # 2
  <2> SUFFICES ASSUME fitting PROVE Len(k.votes) >= 1 /\ Len(k.votes) # 2
    OBVIOUS
  <2>1. CASE Len(k.votes) = 1
    BY <2>1
  <2>2. CASE Len(k.votes) = 3
    BY <2>2
  <2>3. Len(k.votes) = 1 \/ Len(k.votes) = 3
    BY <1>2, <1>3 DEF Local, Placed, Building, Rebuilding
  <2> QED BY <2>1, <2>2, <2>3
<1> QED BY <1>4, <1>5, <1>6, <1>7, RolledBackKeeps DEF Whys

-----------------------------------------------------------------------------
\* Fitting.

LEMMA SizingAllowed ==
  ASSUME NEW r \in Rank, NEW n \in RankRecord, IInv, rank[r].pc = "size",
         n.pc = "sizing", n.units = 0, n.backend = rank[r].backend,
         n.why = rank[r].why, Len(n.votes) = 2, n.votes[1] = rank[r].votes[1], Sized(r, n)
  PROVE  Allowed(r, n)
<1>1. Local(r, rank[r]) /\ rank[r].pc \in Building
  BY DEF IInv, TypeOK, Building
<1>2. fitting
  BY <1>1 DEF Local, Placed, Building, Gone
<1>3. Len(rank[r].votes) = 1 /\ rank[r].votes[1] \in {0, 1} /\ rank[r].backend.open = {}
  BY <1>1, <1>2 DEF Local, Placed, OpenIn, Gone
<1>4. n.pc \notin Building \cup Rebuilding \cup Gone
  BY DEF Building, Rebuilding, Gone
<1>5. Placed(n) /\ OpenIn(n) /\ Ended(n)
  BY <1>2, <1>3, <1>4 DEF Placed, OpenIn, Ended
<1>6. Local(r, n)
  BY <1>1, <1>5 DEF Local
<1>7. Past1(rank[r]) /\ ~ Past2(n) /\ ~ Past3(n)
  BY <1>1, <1>4 DEF Past1, Past2, Past3
<1>8. ~ Bound(n) /\ ~ Left(r)
  <2>1. n.pc \notin Final
    BY <1>2, <1>4 DEF Final
  <2> QED BY <2>1 DEF Bound, Left
<1>9. /\ Len(n.votes) >= Len(rank[r].votes)
      /\ \A i \in 1..Len(rank[r].votes) : n.votes[i] = rank[r].votes[i]
  BY <1>3
<1> QED BY <1>4, <1>6, <1>7, <1>8, <1>9 DEF Allowed

LEMMA SizeKeeps ==
  ASSUME NEW r \in Rank, IInv, Size(r)
  PROVE  IInv' /\ FloorStep
<1> DEFINE k == rank[r]
           h == Holding(k, Fixed, k.backend)
           w == Reclaimed(h)
           units == IF Budget(r, w) < Unit THEN 0 ELSE Budget(r, w) \div Unit
           value == IF units < MinimumUnits THEN 0 ELSE units
           v == Vote(w, value)
           D == DeviceBytes(w.backend)
           n == [v EXCEPT !.pc = "sizing", !.units = 0, !.calibrated = D]
<1>1. Local(r, k) /\ k.pc = "size" /\ Becomes(r, n)
  BY DEF IInv, TypeOK, Size
<1>2. k \in RankRecord /\ k.backend \in Backend /\ Len(k.votes) = 1
  BY <1>1 DEF Local, RankRecord, Placed, Building, Gone
<1>3. /\ h \in RankRecord /\ h.backend = k.backend /\ h.votes = k.votes
      /\ h.why = k.why /\ h.state = Fixed
  BY <1>2, ActivationAssumption, HoldingFields
<1> HIDE DEF h
<1>4. /\ w \in RankRecord /\ w.backend = k.backend /\ w.votes = k.votes
      /\ w.why = k.why /\ w.state = Fixed /\ w.cache = 0
  BY <1>3, ReclaimedFields
<1> HIDE DEF w
<1>5. D \in Nat
  BY <1>2, <1>4, DeviceBytesCount
<1>6. /\ Total[r] \in Nat /\ Budgets[r] \in Nat /\ Floor \in Nat /\ Fixed \in Nat
      /\ Unit \in Nat \ {0} /\ Padding \in Nat
  BY ActivationAssumption
<1>7. Free(r, w) = Total[r] - (Fixed + D)
  BY <1>4, <1>5, <1>6 DEF Free, InUse
<1> HIDE DEF D
<1>8. Budget(r, w) \in Int /\ Budget(r, w) <= Total[r] - (Fixed + D) - Floor - Padding
  <2> DEFINE a == Free(r, w) - Floor - Padding
             b == Budgets[r] - Fixed
  <2>1. a \in Int /\ b \in Int /\ a = Total[r] - (Fixed + D) - Floor - Padding
    BY <1>5, <1>6, <1>7
  <2>2. Budget(r, w) = Min({a, b})
    BY DEF Budget
  <2> HIDE DEF a, b
  <2>3. Budget(r, w) \in Int /\ Budget(r, w) <= a
    BY <2>1, <2>2, Smaller
  <2> QED BY <2>1, <2>3
<1>9. value \in Nat /\ (value # 0 => value * Unit <= Budget(r, w))
  <2>1. CASE Budget(r, w) < Unit
    BY <2>1 DEF MinimumUnits
  <2>2. CASE ~ (Budget(r, w) < Unit)
    <3> DEFINE B == Budget(r, w)
    <3>1. B \in Int /\ B >= Unit
      BY <1>6, <1>8, <2>2
    <3>2. units = B \div Unit
      BY <2>2
    <3> HIDE DEF B
    <3>3. units \in Nat /\ units * Unit <= B
      <4> HIDE DEF units
      <4> QED BY <1>6, <3>1, <3>2, Pays
    <3> HIDE DEF units
    <3>4. value \in {0, units}
      OBVIOUS
    <3> HIDE DEF value
    <3> QED BY <3>3, <3>4 DEF B
  <2> QED BY <2>1, <2>2
<1> HIDE DEF value
<1>10. /\ v \in RankRecord /\ v.backend = k.backend /\ v.why = k.why
       /\ Len(v.votes) = 2 /\ v.votes[1] = k.votes[1] /\ v.votes[2] = value
  <2>1. /\ v \in RankRecord /\ v.backend = w.backend /\ v.why = w.why
        /\ Len(v.votes) = Len(w.votes) + 1 /\ v.votes[Len(w.votes) + 1] = value
        /\ \A i \in 1..Len(w.votes) : v.votes[i] = w.votes[i]
    BY <1>4, <1>9, VoteFields
  <2>2. Len(w.votes) = 1
    BY <1>2, <1>4
  <2> QED BY <1>4, <2>1, <2>2
<1> HIDE DEF v
<1>11. /\ n \in RankRecord /\ n.pc = "sizing" /\ n.units = 0 /\ n.calibrated = D
       /\ n.backend = k.backend /\ n.why = k.why /\ n.votes = v.votes
  BY <1>5, <1>10 DEF RankRecord, Pcs
<1> HIDE DEF n
<1>12. Sized(r, n)
  <2>1. n.calibrated = DeviceBytes(n.backend)
    BY <1>4, <1>11 DEF D
  <2>2. ASSUME value # 0
        PROVE  value * Unit + Fixed + D + Floor + Padding <= Total[r]
    <3>1. value * Unit \in Int
      BY <1>6, <1>9
    <3> QED BY <1>5, <1>6, <1>8, <1>9, <2>2, <3>1
  <2>3. n.votes[2] = value
    BY <1>10, <1>11
  <2> QED BY <1>11, <2>1, <2>2, <2>3 DEF Sized
<1>13. Allowed(r, n)
  BY <1>1, <1>10, <1>11, <1>12, SizingAllowed
<1> QED BY <1>1, <1>13, AllowedKeeps

LEMMA SizeFailedKeeps ==
  ASSUME NEW r \in Rank, IInv, SizeFailed(r)
  PROVE  IInv' /\ FloorStep
<1> DEFINE k == rank[r]
           h == Holding(k, 0, k.backend)
           v == Vote(h, 0)
           n == [v EXCEPT !.pc = "sizing", !.units = 0]
<1>1. Local(r, k) /\ k.pc = "size" /\ Becomes(r, n)
  BY DEF IInv, TypeOK, SizeFailed
<1>2. k \in RankRecord /\ k.backend \in Backend /\ Len(k.votes) = 1
  BY <1>1 DEF Local, RankRecord, Placed, Building, Gone
<1>3. /\ h \in RankRecord /\ h.backend = k.backend /\ h.votes = k.votes
      /\ h.why = k.why
  BY <1>2, HoldingFields
<1> HIDE DEF h
<1>4. /\ v \in RankRecord /\ v.backend = k.backend /\ v.why = k.why
      /\ Len(v.votes) = 2 /\ v.votes[1] = k.votes[1] /\ v.votes[2] = 0
  <2>1. /\ v \in RankRecord /\ v.backend = h.backend /\ v.why = h.why
        /\ Len(v.votes) = Len(h.votes) + 1 /\ v.votes[Len(h.votes) + 1] = 0
        /\ \A i \in 1..Len(h.votes) : v.votes[i] = h.votes[i]
    BY <1>3, VoteFields
  <2>2. Len(h.votes) = 1
    BY <1>2, <1>3
  <2> QED BY <1>3, <2>1, <2>2
<1> HIDE DEF v
<1>5. /\ n \in RankRecord /\ n.pc = "sizing" /\ n.units = 0
      /\ n.backend = k.backend /\ n.why = k.why /\ n.votes = v.votes
  BY <1>4 DEF RankRecord, Pcs
<1> HIDE DEF n
<1>6. Sized(r, n)
  BY <1>4, <1>5 DEF Sized
<1>7. Allowed(r, n)
  BY <1>1, <1>4, <1>5, <1>6, SizingAllowed
<1> QED BY <1>1, <1>7, AllowedKeeps

LEMMA SizeAgreedKeeps ==
  ASSUME NEW r \in Rank, IInv, SizeAgreed(r)
  PROVE  IInv' /\ FloorStep
<1> DEFINE k == rank[r]
<1>1. Local(r, k) /\ k.pc = "sizing" /\ Met(r)
  BY DEF IInv, TypeOK, SizeAgreed
<1>2. k \in RankRecord /\ fitting
  BY <1>1 DEF Local, Placed, Gone
<1>3. Len(k.votes) = 2 /\ k.votes[1] \in {0, 1} /\ k.backend.open = {}
  BY <1>1, <1>2 DEF Local, Placed, OpenIn, Gone
<1>4. /\ AllMet(2) /\ Minimum(r) = MinAt(2) /\ Minimum(r) \in Nat
      /\ \A q \in Rank : rank[q].votes[2] \in Nat /\ Minimum(r) <= rank[q].votes[2]
      /\ \E q \in Rank : rank[q].votes[2] = Minimum(r)
  <2>1. 2 \in Nat \ {0}
    OBVIOUS
  <2> QED BY <1>1, <1>3, <2>1, MetMinimum
<1>5. CASE Minimum(r) = 0
  <2>1. RolledBack(r, k, "size")
    BY <1>5 DEF SizeAgreed
  <2>2. Stuck
    BY <1>4, <1>5 DEF Stuck, AllMet
  <2>3. Len(k.votes) >= 1
    BY <1>3
  <2> QED BY <1>1, <1>2, <2>1, <2>2, <2>3, RolledBackKeeps DEF Local, Whys
<1>6. CASE Minimum(r) # 0
  <2> DEFINE n == [k EXCEPT !.pc = "allocate", !.units = Minimum(r)]
  <2>1. Becomes(r, n)
    BY <1>6 DEF SizeAgreed
  <2>2. /\ n \in RankRecord /\ n.pc = "allocate" /\ n.units = Minimum(r)
        /\ n.backend = k.backend /\ n.votes = k.votes /\ n.why = k.why
        /\ n.calibrated = k.calibrated
    BY <1>2, <1>4 DEF RankRecord, Pcs
  <2> HIDE DEF n
  <2>3. n.pc \notin Building \cup Rebuilding \cup Gone
    BY <2>2 DEF Building, Rebuilding, Gone
  <2>4. Placed(n) /\ OpenIn(n) /\ Ended(n)
    BY <1>2, <1>3, <2>2, <2>3 DEF Placed, OpenIn, Ended
  <2>5. Sized(r, n)
    <3>1. k.votes[2] # 0
      BY <1>4, <1>6
    <3>2. /\ k.calibrated = DeviceBytes(k.backend)
          /\ k.votes[2] * Unit + Fixed + k.calibrated + Floor + Padding <= Total[r]
      BY <1>1, <1>2, <3>1 DEF Local, Sized
    <3> QED BY <2>2, <3>2 DEF Sized
  <2>6. Local(r, n)
    BY <1>1, <2>2, <2>4, <2>5 DEF Local
  <2>7. Past1(k) /\ ~ Past3(n) /\ ~ Left(r)
    BY <1>1, <1>3, <2>3 DEF Past1, Past3, Left
  <2>8. AllSay(2, Nat \ {0})
    BY <1>4, <1>6 DEF AllSay, AllMet
  <2>9. AllMet(Level) /\ n.units = MinAt(Level)
    <3>1. Level = 2
      BY <1>2 DEF Level
    <3> QED BY <1>4, <2>2, <3>1
  <2>10. Allowed(r, n)
    BY <2>2, <2>3, <2>6, <2>7, <2>8, <2>9, OnAllowed
  <2> QED BY <2>1, <2>10, AllowedKeeps
<1> QED BY <1>5, <1>6

LEMMA AllocatingAllowed ==
  ASSUME NEW r \in Rank, NEW n \in RankRecord, IInv, rank[r].pc = "allocate",
         n.pc = "allocating", n.units = rank[r].units, n.backend = rank[r].backend,
         n.why = rank[r].why, Len(n.votes) = 3, n.votes[3] \in {0, 1},
         \A i \in 1..Len(rank[r].votes) : n.votes[i] = rank[r].votes[i], Sized(r, n)
  PROVE  Allowed(r, n)
<1>1. Local(r, rank[r])
  BY DEF IInv, TypeOK
<1>2. fitting
  BY <1>1 DEF Local, Placed, Gone
<1>3. Len(rank[r].votes) = 2 /\ rank[r].votes[1] \in {0, 1} /\ rank[r].backend.open = {}
  BY <1>1, <1>2 DEF Local, Placed, OpenIn, Gone
<1>4. n.pc \notin Building \cup Rebuilding \cup Gone
  BY DEF Building, Rebuilding, Gone
<1>5. n.votes[1] \in {0, 1} /\ Len(n.votes) >= Len(rank[r].votes)
  BY <1>3
<1>6. Placed(n) /\ OpenIn(n) /\ Ended(n)
  BY <1>2, <1>3, <1>4, <1>5 DEF Placed, OpenIn, Ended
<1>7. Local(r, n)
  BY <1>1, <1>6 DEF Local
<1>8. Past1(rank[r]) /\ Past2(rank[r]) /\ ~ Past3(n)
  BY <1>3, <1>4 DEF Past1, Past2, Past3
<1>9. Bound(rank[r]) /\ ~ Left(r)
  <2>1. rank[r].pc \in Final /\ Level = 2
    BY <1>2 DEF Final, Level
  <2> QED BY <1>3, <2>1 DEF Bound, Left
<1> QED BY <1>4, <1>5, <1>7, <1>8, <1>9 DEF Allowed

\* The storage of the admitted units fits what the sizing left for it.
LEMMA AllocateKeeps ==
  ASSUME NEW r \in Rank, IInv, Allocate(r)
  PROVE  IInv' /\ FloorStep
<1> DEFINE k == rank[r]
<1>1. PICK rounding \in 0..Padding :
        LET new == Reclaimed(Holding(k, Fixed + k.units * Unit + rounding, k.backend))
            kept == Free(r, new) >= Floor
        IN  Becomes(r, [Vote(new, IF kept THEN 1 ELSE 0) EXCEPT
                          !.pc = "allocating", !.why = IF kept THEN @ ELSE "breach"])
  BY DEF Allocate
<1> DEFINE state == Fixed + k.units * Unit + rounding
           h == Holding(k, state, k.backend)
           w == Reclaimed(h)
           v == Vote(w, 1)
           n == [v EXCEPT !.pc = "allocating"]
           D == DeviceBytes(k.backend)
<1>2. Local(r, k) /\ k.pc = "allocate"
  BY DEF IInv, TypeOK, Allocate
<1>3. k \in RankRecord /\ k.backend \in Backend /\ k.units \in Nat /\ fitting
  BY <1>2 DEF Local, RankRecord, Placed, Gone
<1>4. Len(k.votes) = 2 /\ k.votes[2] \in Nat
  BY <1>2, <1>3 DEF Local, Placed, RankRecord
<1>5. k.units <= k.votes[2]
  <2>1. Level = 2 /\ k.pc \in Final
    BY <1>2, <1>3 DEF Level, Final
  <2>2. Bound(k)
    BY <1>4, <2>1 DEF Bound
  <2>3. AllMet(2) /\ k.units = MinAt(2)
    BY <2>1, <2>2 DEF IInv, BoundRight
  <2>4. \A q \in Rank : MinAt(2) <= rank[q].votes[2]
    <3>1. 2 \in Nat \ {0}
      OBVIOUS
    <3> QED BY <2>3, <3>1, Result
  <2> QED BY <2>3, <2>4
<1>6. /\ Total[r] \in Nat /\ Floor \in Nat /\ Fixed \in Nat /\ Unit \in Nat
      /\ Padding \in Nat /\ rounding \in Nat /\ rounding <= Padding
  BY ActivationAssumption
<1>7. k.calibrated = D /\ k.votes[2] * Unit + Fixed + k.calibrated + Floor + Padding <= Total[r]
  BY <1>2, <1>3 DEF Local, Sized
<1>8. D \in Nat
  BY <1>3, DeviceBytesCount
<1> HIDE DEF D
<1>9. state \in Nat /\ state + D + Floor <= Total[r]
  <2> DEFINE x == k.units * Unit
             y == k.votes[2] * Unit
  <2>1. x \in Nat /\ y \in Nat /\ x <= y
    BY <1>3, <1>4, <1>5, <1>6, Grows
  <2>2. y + Fixed + D + Floor + Padding <= Total[r] /\ state = Fixed + x + rounding
    BY <1>7
  <2> HIDE DEF x, y, state
  <2> QED BY <1>6, <1>8, <2>1, <2>2
<1>10. h.state = state
  BY <1>3, <1>9, HoldingFields
<1>11. /\ h \in RankRecord /\ h.backend = k.backend /\ h.votes = k.votes /\ h.why = k.why
       /\ h.units = k.units /\ h.calibrated = k.calibrated
  BY <1>3, <1>9, HoldingFields
<1>12. /\ w \in RankRecord /\ w.backend = k.backend /\ w.votes = k.votes /\ w.why = k.why
       /\ w.units = k.units /\ w.calibrated = k.calibrated /\ w.state = state /\ w.cache = 0
  <2> HIDE DEF h, state
  <2> QED BY <1>10, <1>11, ReclaimedFields
<1>13. Free(r, w) >= Floor
  <2> HIDE DEF w, state
  <2>1. Free(r, w) = Total[r] - (state + D)
    BY <1>6, <1>8, <1>9, <1>12 DEF Free, InUse, D
  <2> QED BY <1>6, <1>8, <1>9, <2>1
<1>14. Becomes(r, [v EXCEPT !.pc = "allocating", !.why = @])
  <2>1. Becomes(r, [Vote(w, IF Free(r, w) >= Floor THEN 1 ELSE 0) EXCEPT
                      !.pc = "allocating", !.why = IF Free(r, w) >= Floor THEN @ ELSE "breach"])
    BY <1>1
  <2> HIDE DEF w
  <2> QED BY <1>13, <2>1
<1> HIDE DEF w, state, h
<1>15. /\ v \in RankRecord /\ v.backend = k.backend /\ v.why = k.why /\ v.state = state
       /\ v.units = k.units /\ v.calibrated = k.calibrated
       /\ Len(v.votes) = 3 /\ v.votes[3] = 1
       /\ \A i \in 1..Len(k.votes) : v.votes[i] = k.votes[i]
  <2>1. /\ v \in RankRecord /\ v.backend = w.backend /\ v.why = w.why /\ v.state = w.state
        /\ v.units = w.units /\ v.calibrated = w.calibrated
        /\ Len(v.votes) = Len(w.votes) + 1 /\ v.votes[Len(w.votes) + 1] = 1
        /\ \A i \in 1..Len(w.votes) : v.votes[i] = w.votes[i]
    BY <1>12, VoteFields
  <2>2. Len(w.votes) = 2
    BY <1>4, <1>12
  <2> QED BY <1>12, <2>1, <2>2
<1> HIDE DEF v
<1>16. n = [v EXCEPT !.pc = "allocating", !.why = @]
  BY <1>15 DEF RankRecord
<1>17. /\ n \in RankRecord /\ n.pc = "allocating" /\ n.backend = k.backend /\ n.why = k.why
       /\ n.state = state /\ n.units = k.units /\ n.calibrated = k.calibrated
       /\ n.votes = v.votes
  BY <1>15 DEF RankRecord, Pcs
<1>18. Becomes(r, n)
  BY <1>14, <1>16
<1> HIDE DEF n
<1>19. Sized(r, n)
  BY <1>7, <1>9, <1>17 DEF Sized
<1>20. Allowed(r, n)
  BY <1>2, <1>15, <1>17, <1>19, AllocatingAllowed
<1> QED BY <1>18, <1>20, AllowedKeeps

LEMMA AllocateFailedKeeps ==
  ASSUME NEW r \in Rank, IInv, AllocateFailed(r)
  PROVE  IInv' /\ FloorStep
<1> DEFINE k == rank[r]
           v == Vote(k, 0)
           n == [v EXCEPT !.pc = "allocating"]
<1>1. Local(r, k) /\ k.pc = "allocate" /\ Becomes(r, n)
  BY DEF IInv, TypeOK, AllocateFailed
<1>2. k \in RankRecord /\ Len(k.votes) = 2
  BY <1>1 DEF Local, Placed, Gone
<1>3. /\ v \in RankRecord /\ v.backend = k.backend /\ v.why = k.why /\ v.units = k.units
      /\ Len(v.votes) = 3 /\ v.votes[3] = 0
      /\ \A i \in 1..Len(k.votes) : v.votes[i] = k.votes[i]
  <2>1. /\ v \in RankRecord /\ v.backend = k.backend /\ v.why = k.why /\ v.units = k.units
        /\ Len(v.votes) = Len(k.votes) + 1 /\ v.votes[Len(k.votes) + 1] = 0
        /\ \A i \in 1..Len(k.votes) : v.votes[i] = k.votes[i]
    <3>1. k \in RankRecord /\ 0 \in Nat
      BY <1>2
    <3> HIDE DEF k, n
    <3> QED BY <3>1, VoteFields, Zenon
  <2> QED BY <1>2, <2>1
<1> HIDE DEF v
<1>4. /\ n \in RankRecord /\ n.pc = "allocating" /\ n.backend = k.backend
      /\ n.why = k.why /\ n.units = k.units /\ n.votes = v.votes
  BY <1>3 DEF RankRecord, Pcs
<1> HIDE DEF n
<1>5. Sized(r, n)
  BY <1>3, <1>4 DEF Sized
<1>6. Allowed(r, n)
  BY <1>1, <1>3, <1>4, <1>5, AllocatingAllowed
<1> QED BY <1>1, <1>6, AllowedKeeps

LEMMA AllocationAgreedKeeps ==
  ASSUME NEW r \in Rank, IInv, AllocationAgreed(r)
  PROVE  IInv' /\ FloorStep
<1> DEFINE k == rank[r]
<1>1. Local(r, k) /\ k.pc = "allocating" /\ Met(r)
  BY DEF IInv, TypeOK, AllocationAgreed
<1>2. k \in RankRecord /\ fitting
  BY <1>1 DEF Local, Placed, Gone
<1>3. /\ Len(k.votes) = 3 /\ k.votes[1] \in {0, 1} /\ k.votes[3] \in {0, 1}
      /\ k.backend.open = {}
  BY <1>1, <1>2 DEF Local, Placed, OpenIn, Gone
<1>4. /\ AllMet(3)
      /\ \A q \in Rank : rank[q].votes[3] \in Nat /\ Minimum(r) <= rank[q].votes[3]
  <2>1. 3 \in Nat \ {0}
    OBVIOUS
  <2> QED BY <1>1, <1>3, <2>1, MetMinimum
<1>5. CASE Minimum(r) # 1
  <2>1. RolledBack(r, k, "allocate")
    BY <1>5 DEF AllocationAgreed
  <2>2. Len(k.votes) >= 1 /\ Len(k.votes) # 2
    BY <1>3
  <2> QED BY <1>1, <1>2, <2>1, <2>2, RolledBackKeeps DEF Local, Whys
<1>6. CASE Minimum(r) = 1
  <2> DEFINE n == [k EXCEPT !.pc = "rebind"]
  <2>1. Becomes(r, n)
    BY <1>6 DEF AllocationAgreed
  <2>2. /\ n \in RankRecord /\ n.pc = "rebind" /\ n.units = k.units /\ n.state = k.state
        /\ n.backend = k.backend /\ n.votes = k.votes /\ n.why = k.why
        /\ n.calibrated = k.calibrated
    BY <1>2 DEF RankRecord, Pcs, Rebuilding
  <2> HIDE DEF n
  <2>3. n.pc \in Rebuilding /\ n.pc \notin Building \cup Gone
    BY <2>2 DEF Building, Rebuilding, Gone
  <2>4. AllSay(3, {1})
    <3>1. \A q \in Rank : rank[q].votes[3] \in {0, 1}
      BY <1>2, <1>4 DEF IInv, TypeOK, Local, Placed, AllMet
    <3>2. \A q \in Rank : rank[q].votes[3] = 1
      BY <1>4, <1>6, <3>1
    <3> QED BY <1>4, <3>2 DEF AllSay, AllMet
  <2>5. Placed(n) /\ OpenIn(n) /\ Ended(n)
    BY <1>2, <1>3, <2>2, <2>3 DEF Placed, OpenIn, Ended, Gone
  <2>6. Sized(r, n)
    <3>1. k.votes[3] = 1
      BY <2>4 DEF AllSay
    <3>2. k.state + k.calibrated + Floor <= Total[r]
      BY <1>1, <1>2, <3>1 DEF Local, Sized
    <3> QED BY <2>2, <3>2 DEF Sized
  <2>7. Local(r, n)
    BY <1>1, <2>2, <2>5, <2>6 DEF Local
  <2>8. Past1(k) /\ Past2(k) /\ ~ Left(r)
    BY <1>1, <1>3 DEF Past1, Past2, Left
  <2>9. Bound(k)
    <3>1. Level = 2 /\ k.pc \in Final
      BY <1>1, <1>2 DEF Level, Final
    <3> QED BY <1>3, <3>1 DEF Bound
  <2>10. Allowed(r, n)
    BY <2>2, <2>3, <2>4, <2>7, <2>8, <2>9, OnAllowed
  <2> QED BY <2>1, <2>10, AllowedKeeps
<1> QED BY <1>5, <1>6

LEMMA SettleKeeps ==
  ASSUME NEW r \in Rank, IInv, Settle(r)
  PROVE  IInv' /\ FloorStep
<1> DEFINE k == rank[r]
           w == Reclaimed(k)
           D == DeviceBytes(k.backend)
<1>1. Local(r, k) /\ k.pc = "settle"
  BY DEF IInv, TypeOK, Settle
<1>2. k \in RankRecord /\ fitting /\ k.backend \in Backend /\ Sound(k.backend, attempt)
  BY <1>1 DEF Local, Placed, Gone, RankRecord
<1>3. Len(k.votes) = 3 /\ k.votes[1] \in {0, 1} /\ k.votes[3] \in {0, 1}
  BY <1>1, <1>2 DEF Local, Placed, Rebuilding
<1>4. /\ w \in RankRecord /\ w.backend = k.backend /\ w.votes = k.votes /\ w.why = k.why
      /\ w.units = k.units /\ w.calibrated = k.calibrated /\ w.state = k.state /\ w.cache = 0
  BY <1>2, ReclaimedFields
<1>5. CASE Free(r, w) < Floor
  <2>1. RolledBack(r, w, "over")
    BY <1>5 DEF Settle
  <2> HIDE DEF w
  <2>2. k.state + k.calibrated + Floor <= Total[r]
    BY <1>1, <1>2 DEF Local, Sized
  <2>3. D \in Nat /\ k.state \in Nat /\ k.calibrated \in Nat /\ Total[r] \in Nat /\ Floor \in Nat
    BY <1>2, DeviceBytesCount, ActivationAssumption DEF RankRecord
  <2>4. Free(r, w) = Total[r] - (k.state + D)
    BY <1>4, <2>3 DEF Free, InUse
  <2> HIDE DEF D
  <2>5. D > k.calibrated
    BY <1>5, <2>2, <2>3, <2>4
  <2>6. Len(k.votes) >= 1 /\ Len(k.votes) # 2
    BY <1>3
  <2> QED BY <1>2, <1>4, <2>1, <2>5, <2>6, RolledBackKeeps DEF D, Whys
<1>6. CASE ~ (Free(r, w) < Floor)
  <2> DEFINE n == [w EXCEPT !.pc = "ready"]
  <2>1. Becomes(r, n)
    BY <1>6 DEF Settle
  <2> HIDE DEF w
  <2>2. /\ n \in RankRecord /\ n.pc = "ready" /\ n.units = k.units
        /\ n.backend = k.backend /\ n.votes = k.votes /\ n.why = k.why
    BY <1>4 DEF RankRecord, Pcs, Rebuilding
  <2> HIDE DEF n
  <2>3. n.pc \in Rebuilding /\ n.pc \notin Building \cup Gone
    BY <2>2 DEF Building, Rebuilding, Gone
  <2>4. Placed(n) /\ OpenIn(n) /\ Ended(n) /\ Sized(r, n)
    BY <1>2, <1>3, <2>2, <2>3 DEF Placed, OpenIn, Ended, Sized, Gone
  <2>5. Local(r, n)
    BY <1>2, <2>2, <2>4 DEF Local
  <2>6. Past1(k) /\ Past2(k) /\ Past3(k) /\ ~ Left(r)
    BY <1>1, <1>3 DEF Past1, Past2, Past3, Left, Rebuilding
  <2>7. Bound(k)
    <3>1. Level = 2 /\ k.pc \in Final
      BY <1>1, <1>2 DEF Level, Final, Rebuilding
    <3> QED BY <1>3, <3>1 DEF Bound
  <2>8. Allowed(r, n)
    BY <2>2, <2>3, <2>5, <2>6, <2>7, OnAllowed
  <2> QED BY <2>1, <2>8, AllowedKeeps
<1> QED BY <1>5, <1>6

-----------------------------------------------------------------------------
\* The close of a root, a peer that has left, a new generation.

LEMMA CloseKeeps ==
  ASSUME NEW r \in Rank, IInv, Close(r)
  PROVE  IInv' /\ FloorStep
<1> DEFINE k == rank[r]
           b0 == k.backend
<1>1. Local(r, k) /\ k.pc = "ready"
  BY DEF IInv, TypeOK, Close
<1>2. /\ k \in RankRecord /\ b0 \in Backend /\ Sound(b0, attempt) /\ k.state \in Nat
      /\ b0.open \in SUBSET Graph
  BY <1>1 DEF Local, RankRecord, Backend
<1>3. fitting => Len(k.votes) >= 1 /\ Len(k.votes) # 2
  <2> SUFFICES ASSUME fitting PROVE Len(k.votes) >= 1 /\ Len(k.votes) # 2
    OBVIOUS
  <2>1. Len(k.votes) = 3
    BY <1>1 DEF Local, Placed, Rebuilding
  <2> QED BY <2>1
<1>4. CASE Becomes(r, [Holding(k, 0, Released(b0, b0.open)) EXCEPT !.pc = "closed", !.units = 0])
  <2> DEFINE b == Released(b0, b0.open)
             h == Holding(k, 0, b)
             n == [h EXCEPT !.pc = "closed", !.units = 0]
  <2>1. Sound(b, attempt) /\ b \in Backend /\ b = EmptyBackend
    BY <1>2, ReleasedKeeps DEF Sound
  <2> HIDE DEF b
  <2>2. /\ h \in RankRecord /\ h.backend = b /\ h.votes = k.votes /\ h.why = k.why
        /\ h.state = 0
    <3> HIDE DEF k, b0, n
    <3>1. k \in RankRecord /\ 0 \in Nat /\ b \in Backend
      BY <1>2, <2>1
    <3> QED BY <3>1, HoldingFields, Zenon
  <2>3. Becomes(r, n)
    BY <1>4 DEF b
  <2> HIDE DEF h
  <2>4. /\ n \in RankRecord /\ n.pc = "closed" /\ n.units = 0 /\ n.backend = b
        /\ n.votes = k.votes /\ n.why = k.why /\ n.state = 0
    BY <2>2 DEF RankRecord, Pcs, Gone
  <2> HIDE DEF n
  <2>5. Ended(n) /\ n.pc \in Gone /\ Sound(n.backend, attempt)
    BY <2>1, <2>4 DEF Ended, Gone
  <2>6. n.why = "over" => k.why = "over"
    BY <2>4
  <2>7. Allowed(r, n)
    BY <1>3, <2>4, <2>5, <2>6, GoneAllowed
  <2> QED BY <2>3, <2>7, AllowedKeeps
<1>5. ASSUME NEW reset \in b0.open,
             Becomes(r, [Holding(k, k.state, Closed(b0, From(reset, b0))) EXCEPT
                           !.pc = "broken", !.why = "reset"])
      PROVE  IInv' /\ FloorStep
  <2> DEFINE C == From(reset, b0)
             b == Closed(b0, C)
             h == Holding(k, k.state, b)
             n == [h EXCEPT !.pc = "broken", !.why = "reset"]
  <2>1. C \in SUBSET b0.open
    BY DEF From
  <2>2. Sound(b, attempt) /\ b \in Backend
    <3> HIDE DEF C
    <3> QED BY <1>2, <2>1, ClosedKeeps DEF Sound
  <2>3. Becomes(r, n)
    BY <1>5
  <2> HIDE DEF b
  <2>4. /\ h \in RankRecord /\ h.backend = b /\ h.votes = k.votes /\ h.units = k.units
    <3> HIDE DEF k, b0, n
    <3> QED BY <1>2, <2>2, HoldingFields
  <2> HIDE DEF h
  <2>5. /\ n \in RankRecord /\ n.pc = "broken" /\ n.why = "reset" /\ n.backend = b
        /\ n.votes = k.votes /\ n.units = k.units
    BY <2>4 DEF RankRecord, Pcs, Gone, Whys
  <2> HIDE DEF n
  <2>6. Ended(n) /\ n.pc \in Gone /\ Sound(n.backend, attempt)
    BY <2>2, <2>5 DEF Ended, Gone
  <2>7. Allowed(r, n)
    BY <1>3, <2>5, <2>6, GoneAllowed
  <2> QED BY <2>3, <2>7, AllowedKeeps
<1>6. \/ Becomes(r, [Holding(k, 0, Released(b0, b0.open)) EXCEPT !.pc = "closed", !.units = 0])
      \/ \E reset \in b0.open :
           Becomes(r, [Holding(k, k.state, Closed(b0, From(reset, b0))) EXCEPT
                         !.pc = "broken", !.why = "reset"])
  BY DEF Close
<1> QED BY <1>4, <1>5, <1>6

LEMMA PeerTimeoutKeeps ==
  ASSUME NEW r \in Rank, IInv, PeerTimeout(r)
  PROVE  IInv' /\ FloorStep
<1>1. /\ Local(r, rank[r]) /\ rank[r] \in RankRecord /\ Waiting(r)
      /\ RolledBack(r, rank[r], "timeout")
  BY DEF IInv, TypeOK, Local, PeerTimeout
<1>2. ASSUME fitting PROVE Len(rank[r].votes) >= 1
  <2>1. CASE rank[r].pc = "calibrating"
    <3>1. Len(rank[r].votes) = 1
      BY <1>1, <1>2, <2>1 DEF Local, Placed
    <3> QED BY <3>1
  <2>2. CASE rank[r].pc = "sizing"
    <3>1. Len(rank[r].votes) = 2
      BY <1>1, <1>2, <2>2 DEF Local, Placed
    <3> QED BY <3>1
  <2>3. CASE rank[r].pc = "allocating"
    <3>1. Len(rank[r].votes) = 3
      BY <1>1, <1>2, <2>3 DEF Local, Placed
    <3> QED BY <3>1
  <2>4. rank[r].pc # "planning"
    BY <1>1, <1>2 DEF Local, Placed
  <2> QED BY <1>1, <2>1, <2>2, <2>3, <2>4 DEF Waiting
<1>3. ASSUME Len(rank[r].votes) = 2 PROVE Stuck
  <2>1. PICK q \in Rank : Left(q) /\ Len(rank[q].votes) < Len(rank[r].votes)
    BY DEF PeerTimeout
  <2> QED BY <1>3, <2>1 DEF Stuck
<1> QED BY <1>1, <1>2, <1>3, RolledBackKeeps DEF Local, Whys

LEMMA RankStepKeeps ==
  ASSUME NEW r \in Rank, IInv, RankStep(r)
  PROVE  IInv' /\ FloorStep
BY PlanKeeps, PlanFailedKeeps, RealizeKeeps, RealizeFailedKeeps, CalibrateKeeps,
   CalibrationAgreedKeeps, InitializeKeeps, WarmKeeps, CaptureKeeps, RetainKeeps,
   BuildFailedKeeps, SizeKeeps, SizeFailedKeeps, SizeAgreedKeeps, AllocateKeeps,
   AllocateFailedKeeps, AllocationAgreedKeeps, RebindKeeps, SettleKeeps, CloseKeeps,
   PeerTimeoutKeeps
   DEF RankStep

\* A rank that starts with an empty backend.
LEMMA FreshFields ==
  /\ NewRank \in RankRecord /\ Len(NewRank.votes) = 0 /\ NewRank.why = "none"
  /\ NewRank.units = 0 /\ NewRank.backend = EmptyBackend /\ NewRank.backend.open = {}
  /\ NewRank.pc = "start" /\ NewRank.pc \notin Building \cup Rebuilding \cup Gone
<1>1. /\ Len(NewRank.votes) = 0 /\ NewRank.why = "none" /\ NewRank.pc = "start"
      /\ NewRank.backend = EmptyBackend /\ NewRank.units = 0
  BY DEF NewRank
<1>2. NewRank \in RankRecord
  <2>1. EmptyBackend \in Backend /\ 1 \in Graph
    BY EmptySound, Keys DEF Sound
  <2> QED BY <2>1 DEF NewRank, RankRecord, Pcs, Whys
<1>3. NewRank.backend.open = {}
  BY <1>1 DEF EmptyBackend
<1> QED BY <1>1, <1>2, <1>3 DEF Building, Rebuilding, Gone

LEMMA InitIInv == Init => IInv
<1> SUFFICES ASSUME Init PROVE IInv
  OBVIOUS
<1>1. \A r \in Rank : rank[r] = NewRank
  BY DEF Init
<1>2. \A r \in Rank : Local(r, NewRank)
  <2>1. Sound(NewRank.backend, attempt)
    BY FreshFields, EmptySound
  <2>2. Placed(NewRank) /\ OpenIn(NewRank) /\ Ended(NewRank)
    BY FreshFields DEF Placed, OpenIn, Ended
  <2>3. \A r \in Rank : Sized(r, NewRank)
    BY FreshFields DEF Sized, Rebuilding
  <2> QED BY <2>1, <2>2, <2>3, FreshFields DEF Local
<1>3. TypeOK
  BY <1>1, <1>2 DEF Init, TypeOK
<1>4. ~ Past1(NewRank) /\ ~ Past2(NewRank) /\ ~ Past3(NewRank) /\ ~ Bound(NewRank)
  <2>1. Level \in {1, 2}
    BY DEF Level
  <2> QED BY <2>1, FreshFields DEF Past1, Past2, Past3, Bound
<1> QED BY <1>1, <1>3, <1>4, FreshFields DEF IInv, Agreed, Excused, BoundRight

LEMMA RestartKeeps == ASSUME IInv, Restart PROVE IInv' /\ FloorStep
<1>1. /\ attempt' \in Nat \ {0} /\ fitting' \in BOOLEAN
      /\ rank' = [r \in Rank |-> [NewRank EXCEPT !.backend = rank[r].backend]]
  BY DEF IInv, TypeOK, Restart
<1>2. \A r \in Rank : rank'[r] = NewRank
  <2> SUFFICES ASSUME NEW r \in Rank PROVE rank'[r] = NewRank
    OBVIOUS
  <2>1. rank[r].backend = EmptyBackend
    BY DEF IInv, TypeOK, Restart, Local, Ended
  <2>2. rank'[r] = [NewRank EXCEPT !.backend = EmptyBackend]
    BY <1>1, <2>1
  <2> QED BY <2>2, FreshFields DEF NewRank
<1>3. \A r \in Rank : Local(r, rank[r])'
  <2> SUFFICES ASSUME NEW r \in Rank PROVE Local(r, rank[r])'
    OBVIOUS
  <2>1. Sound(rank[r].backend, attempt)'
    BY <1>2, FreshFields, EmptySound DEF Sound, WarmedBy, Owned
  <2>2. Placed(rank[r])' /\ OpenIn(rank[r])' /\ Ended(rank[r])'
    BY <1>2, FreshFields DEF Placed, OpenIn, Ended
  <2>3. Sized(r, rank[r])'
    BY <1>2, FreshFields DEF Sized, Rebuilding
  <2> QED BY <1>2, <2>1, <2>2, <2>3, FreshFields DEF Local
<1>4. TypeOK'
  BY <1>1, <1>3 DEF TypeOK
<1>5. ASSUME NEW r \in Rank
      PROVE  /\ ~ Past1(rank[r])' /\ ~ Past2(rank[r])' /\ ~ Past3(rank[r])'
             /\ ~ Bound(rank[r])'
  <2>1. Level' \in {1, 2}
    BY DEF Level
  <2> QED BY <1>2, <2>1, FreshFields DEF Past1, Past2, Past3, Bound
<1>6. FloorStep
  BY <1>2, FreshFields DEF FloorStep
<1> QED BY <1>2, <1>4, <1>5, <1>6, FreshFields DEF IInv, Agreed, Excused, BoundRight

LEMMA NextKeeps == ASSUME IInv, [Next]_vars PROVE IInv' /\ (FloorStep \/ UNCHANGED vars)
<1>1. CASE \E r \in Rank : RankStep(r)
  BY <1>1, RankStepKeeps
<1>2. CASE Restart
  BY <1>2, RestartKeeps
<1>3. CASE Over \/ UNCHANGED vars
  <2>1. UNCHANGED vars
    BY <1>3 DEF Over
  <2> QED BY <2>1
    DEF vars, IInv, TypeOK, Local, Placed, Sized, Agreed, AllSay, Excused, Stuck, Left,
        BoundRight, AllMet, Level, Final, Bound, MinAt, Past1, Past2, Past3
<1> QED BY <1>1, <1>2, <1>3 DEF Next

-----------------------------------------------------------------------------
\* The theorems.

\* The agreement of the ranks and what each of them owns, as one invariant that
\* every step of every rank keeps (LiveModule.activate, TorchStateBackend,
\* GlooStateCapacityCoordinator).
THEOREM Inductive == Spec => []IInv
<1>1. IInv /\ [Next]_vars => IInv'
  BY NextKeeps
<1> QED BY <1>1, InitIInv, PTL DEF Spec

\* Ranks that hold final State hold the same number of units, never more than any
\* of them has offered, and never beside a peer whose allocation failed
\* (admit_state_capacity, confirm_fitted_allocation).
THEOREM Agreement == Spec => []SameUnits
<1>1. IInv => SameUnits
  <2> SUFFICES ASSUME IInv, NEW r \in Rank, NEW q \in Rank,
                      rank[r].pc \in IF fitting THEN Rebuilding
                                     ELSE {"initialize", "warm", "capture", "ready"}
               PROVE  /\ rank[q].units # 0 => rank[q].units = rank[r].units
                      /\ fitting => Len(rank[q].votes) = 3 /\ rank[q].votes[3] = 1
                      /\ rank[r].units <= rank[q].votes[Level]
    BY DEF SameUnits, Rebuilding, Level
  <2>1. Local(r, rank[r]) /\ Local(q, rank[q])
    BY DEF IInv, TypeOK
  <2>2. ASSUME fitting PROVE /\ Len(rank[q].votes) = 3 /\ rank[q].votes[3] = 1
                             /\ Len(rank[r].votes) = 3
    <3>1. rank[r].pc \in Rebuilding
      BY <2>2
    <3>2. Len(rank[r].votes) = 3
      BY <2>1, <2>2, <3>1 DEF Local, Placed
    <3>3. Len(rank[q].votes) >= 3 /\ rank[q].votes[3] = 1
      BY <2>2, <3>1 DEF IInv, Agreed, Past3, AllSay
    <3>4. Len(rank[q].votes) \in 0..3
      BY <2>1, <2>2 DEF Local, Placed, RankRecord, Pcs
    <3> QED BY <3>2, <3>3, <3>4
  <2>3. rank[r].pc \in Final /\ Level \in Nat \ {0} /\ Len(rank[r].votes) >= Level
    <3>1. CASE fitting
      <4>1. Level = 2 /\ rank[r].pc \in Final
        BY <3>1 DEF Level, Final
      <4> QED BY <2>2, <3>1, <4>1
    <3>2. CASE ~ fitting
      <4>1. Level = 1 /\ rank[r].pc \in Final
        BY <3>2 DEF Level, Final
      <4>2. Len(rank[r].votes) = 1
        BY <2>1, <3>2 DEF Local, Placed
      <4> QED BY <4>1, <4>2
    <3> QED BY <3>1, <3>2
  <2>4. AllMet(Level) /\ rank[r].units = MinAt(Level)
    BY <2>3 DEF IInv, BoundRight, Bound
  <2>5. rank[q].units # 0 => rank[q].units = MinAt(Level)
    BY <2>4 DEF IInv, BoundRight, Bound, AllMet
  <2>6. MinAt(Level) <= rank[q].votes[Level]
    BY <2>3, <2>4, Result
  <2> QED BY <2>2, <2>4, <2>5, <2>6
<1> QED BY <1>1, Inductive, PTL

\* A rank that waits alone has lost a peer in the build between the agreements: no
\* failure to allocate or to size leaves the others to the timeout
\* (realize_calibration_state, realize_state_fitting).
THEOREM FailuresVoted == Spec => []NobodyAbandoned
<1>1. IInv => NobodyAbandoned
  <2> SUFFICES ASSUME IInv, fitting, NEW r \in Rank, NEW q \in Rank, Waiting(r), Left(q),
                      Len(rank[q].votes) < Len(rank[r].votes)
               PROVE  Len(rank[q].votes) = 1 /\ rank[q].votes[1] = 1
    BY DEF NobodyAbandoned
  <2>1. /\ Local(r, rank[r]) /\ Local(q, rank[q])
        /\ Len(rank[r].votes) \in Nat /\ Len(rank[q].votes) \in Nat
    BY DEF IInv, TypeOK, Local, RankRecord
  <2>2. Len(rank[r].votes) \in 1..3
    BY <2>1 DEF Local, Placed, Waiting
  <2>3. Len(rank[q].votes) \in 1..3
    BY <2>1 DEF Local, Placed, Left, Gone, Rebuilding
  <2>4. Len(rank[r].votes) >= 2 /\ Len(rank[q].votes) < 3
    <3> DEFINE x == Len(rank[r].votes)
               y == Len(rank[q].votes)
    <3>1. x \in 1..3 /\ y \in 1..3 /\ y < x
      BY <2>2, <2>3
    <3> HIDE DEF x, y
    <3>2. x >= 2 /\ y < 3
      BY <3>1
    <3> QED BY <3>2 DEF x, y
  <2>5. rank[q].votes[1] = 1
    BY <2>4 DEF IInv, Agreed, Past1, AllSay
  <2>6. ASSUME Len(rank[q].votes) = 2 PROVE FALSE
    <3>1. Len(rank[r].votes) >= 3
      BY <2>2, <2>6
    <3>2. \A p \in Rank : Len(rank[p].votes) >= 2 /\ rank[p].votes[2] # 0
      BY <3>1 DEF IInv, Agreed, Past2, AllSay
    <3>3. rank[q].pc \in Gone
      BY <2>1, <2>6 DEF Left, Gone, Local, Placed, Rebuilding
    <3>4. Stuck
      BY <2>6, <3>3 DEF IInv, Excused
    <3>5. \A p \in Rank : Len(rank[p].votes) \in Nat
      <4>1. \A p \in Rank : rank[p] \in RankRecord
        BY DEF IInv, TypeOK, Local
      <4>2. \A p \in Rank : rank[p].votes \in Seq(Nat)
        BY <4>1 DEF RankRecord
      <4> QED BY <4>2
    <3> QED BY <3>2, <3>4, <3>5 DEF Stuck
  <2> QED BY <2>3, <2>4, <2>5, <2>6
<1> QED BY <1>1, Inductive, PTL

\* What is captured was warmed by its own generation, although the census of the
\* backend outlives the generations (retire_generation).
THEOREM CapturedWarm == Spec => []WarmedFirst
<1>1. IInv => WarmedFirst
  BY DEF IInv, TypeOK, Local, Sound, WarmedBy, WarmedFirst
<1> QED BY <1>1, Inductive, PTL

\* What a backend owns is what its open captures and its handoffs stand for, and a
\* rank that failed or closed owns nothing, whatever was done before and wherever
\* it was stopped (the clean-ups of capture, retention, rollback and close).
THEOREM NothingLeft == Spec => []OwnedExactly
<1>1. IInv => OwnedExactly
  <2> SUFFICES ASSUME IInv, NEW r \in Rank
               PROVE  LET b == rank[r].backend IN
                      /\ \A g \in Graph : b.inputs[g] = IF g \in b.open \cup b.retained
                                                       THEN 1 ELSE 0
                      /\ \A k \in DOMAIN b.users :
                           b.users[k] = Cardinality({g \in b.open : PoolOf[g] = k})
                      /\ \A k \in DOMAIN b.program : b.program[k] \in b.open \cup {NoGraph}
                      /\ b.open \cap b.retained = {}
                      /\ rank[r].pc \in {"failed", "closed"} =>
                           b = EmptyBackend /\ rank[r].state = 0
                      /\ rank[r].pc = "broken" => rank[r].why = "reset"
    BY DEF OwnedExactly
  <2>1. Owned(rank[r].backend) /\ rank[r].backend \in Backend /\ Ended(rank[r])
    BY DEF IInv, TypeOK, Local, Sound
  <2>2. /\ DOMAIN rank[r].backend.users = Range(PoolOf)
        /\ DOMAIN rank[r].backend.program = Range(ProgramOf)
    BY <2>1 DEF Backend
  <2> QED BY <2>1, <2>2 DEF Owned, Users, Ended
<1> QED BY <1>1, Inductive, PTL

\* The fitted State is never what breaks the memory floor, and the final captures
\* break it only where they take more than the calibration captures took
\* (realize_state_fitting).
THEOREM FloorSafe == Spec => FloorKept
<1>1. IInv /\ [Next]_vars => [FloorStep]_vars
  BY NextKeeps
<1> QED BY <1>1, Inductive, PTL DEF FloorKept, FloorStep, Spec

-----------------------------------------------------------------------------
(***************************************************************************)
(* Proofs about LiveLifecycle, for every set of children and any number of *)
(* activations and invocations: generations are whole or gone, hooks are   *)
(* released, invocations keep their generation, and a failed module stops. *)
(***************************************************************************)
-----------------------------------------------------------------------------
\* The inductive invariant.

Attempts == 1..Len(generations)

LifecycleTypeOK ==
  /\ phase \in [Module -> Phases]
  /\ token \in [Module -> {0} \cup Attempts]
  /\ members \in [Module -> SUBSET Module]
  /\ graph \in [Module -> {0} \cup Attempts]
  /\ bound \in [Module -> {0} \cup Attempts]
  /\ resource \in [Module -> {0} \cup Attempts]
  /\ generations \in Seq([by : Module, ready : BOOLEAN])
  /\ invocations \in Seq(Invocation)
  /\ \A i \in Id : invocations[i].token \in Attempts

\* State is bound to the generation of its module, and so is a graph, until it
\* is released.
Physical == \A k \in Module : bound[k] = token[k] /\ graph[k] \in {0, token[k]}

\* A generation belongs to the module that activated it, with all below.
Rooted ==
  \A k \in Module : token[k] # 0 =>
    LET m == generations[token[k]].by
    IN  k \in Subtree(m) /\ token[m] = token[k] /\ members[m] # {}

\* What a module has activated is its whole subtree, in its generation.
Whole ==
  \A m \in Module : members[m] # {} =>
    /\ members[m] = Subtree(m) /\ token[m] # 0
    /\ generations[token[m]].by = m
    /\ \A k \in Subtree(m) : token[k] = token[m]

\* An invocation of the module that activated has its graph until it retires.
OwnGraph ==
  \A i \in Id :
    invocations[i].phase # "retired"
      /\ generations[invocations[i].token].by = invocations[i].owner =>
        graph[invocations[i].owner] = invocations[i].token

\* A module with a failed invocation of its generation is not READY.
Stopped ==
  \A i \in Id :
    invocations[i].failed /\ invocations[i].token = token[invocations[i].owner] =>
      phase[invocations[i].owner] # "ready"

LifecycleInv ==
  /\ LifecycleTypeOK /\ Physical /\ Rooted /\ Whole /\ NoHookForgotten /\ OwnGraph /\ Stopped

-----------------------------------------------------------------------------
\* What the operators leave behind.

LEMMA Subtrees ==
  ASSUME NEW m \in Module
  PROVE  /\ m \in Subtree(m) /\ Subtree(m) \subseteq Module
         /\ \A k \in Subtree(m) : k # m => m = Root /\ Subtree(k) = {k}
BY DEF Subtree, Module

LEMMA Overlaid ==
  ASSUME NEW f, NEW S \in SUBSET Module, NEW v
  PROVE  /\ DOMAIN Overlay(f, S, v) = Module
         /\ \A k \in S : Overlay(f, S, v)[k] = v
         /\ \A k \in Module \ S : Overlay(f, S, v)[k] = f[k]
         /\ \A T : f \in [Module -> T] /\ v \in T => Overlay(f, S, v) \in [Module -> T]
BY DEF Overlay

LEMMA Attempted ==
  ASSUME LifecycleTypeOK, NEW m \in Module, NEW ready \in BOOLEAN,
         generations' = Append(generations, [by |-> m, ready |-> ready])
  PROVE  /\ Attempts' = Attempts \cup {Generation} /\ Generation \notin Attempts
         /\ Generation # 0 /\ 0 \notin Attempts
         /\ generations' \in Seq([by : Module, ready : BOOLEAN])
         /\ \A t \in Attempts : generations'[t] = generations[t]
         /\ generations'[Generation].by = m /\ generations'[Generation].ready = ready
<1>1. /\ Len(generations) \in Nat /\ generations \in Seq([by : Module, ready : BOOLEAN])
      /\ [by |-> m, ready |-> ready] \in [by : Module, ready : BOOLEAN]
  BY DEF LifecycleTypeOK
<1>2. /\ generations' \in Seq([by : Module, ready : BOOLEAN])
      /\ Len(generations') = Len(generations) + 1
      /\ \A t \in Attempts : generations'[t] = generations[t]
      /\ generations'[Generation] = [by |-> m, ready |-> ready]
  BY <1>1 DEF Attempts, Generation
<1>3. /\ Attempts' = Attempts \cup {Generation} /\ Generation \notin Attempts
      /\ Generation # 0 /\ 0 \notin Attempts
  BY <1>1, <1>2 DEF Attempts, Generation
<1>4. generations'[Generation].by = m /\ generations'[Generation].ready = ready
  <2> DEFINE r == [by |-> m, ready |-> ready]
  <2>1. r.by = m /\ r.ready = ready
    OBVIOUS
  <2> QED BY <1>2, <2>1
<1>5. /\ generations' \in Seq([by : Module, ready : BOOLEAN])
      /\ \A t \in Attempts : generations'[t] = generations[t]
  BY <1>2
<1> HIDE DEF Generation
<1> QED BY <1>3, <1>4, <1>5

-----------------------------------------------------------------------------
\* Steps that move invocations, or a phase away from READY, and touch nothing
\* that belongs to a generation.

LEMMA Admitted ==
  ASSUME LifecycleTypeOK
  PROVE  /\ invocations \in Seq(Invocation)
         /\ \A j \in Id : /\ invocations[j] \in Invocation
                          /\ invocations[j].owner \in Module
                          /\ invocations[j].token \in Attempts
<1>1. invocations \in Seq(Invocation) /\ \A j \in Id : invocations[j].token \in Attempts
  BY DEF LifecycleTypeOK
<1> DEFINE I == Invocation
<1>2. \A j \in Id : invocations[j] \in I
  <2> HIDE DEF I
  <2>1. invocations \in Seq(I)
    BY <1>1 DEF I
  <2> QED BY <2>1 DEF Id
<1>3. \A v \in Invocation : v.owner \in Module
  BY DEF Invocation
<1> QED BY <1>1, <1>2, <1>3

\* Replacing one of the invocations.
LEMMA Replaced ==
  ASSUME LifecycleTypeOK, NEW i \in Id, NEW v \in Invocation,
         invocations' = [invocations EXCEPT ![i] = v]
  PROVE  /\ invocations' \in Seq(Invocation) /\ DOMAIN invocations' = Id
         /\ invocations'[i] = v /\ \A j \in Id : j # i => invocations'[j] = invocations[j]
<1> DEFINE I == Invocation
<1>1. invocations \in Seq(I) /\ v \in I
  BY Admitted
<1> HIDE DEF I
<1>2. invocations' \in Seq(I)
  BY <1>1 DEF Id
<1> QED BY <1>1, <1>2 DEF Id, I

LEMMA Quiet ==
  ASSUME LifecycleInv, UNCHANGED <<token, members, physical, generations>>,
         phase' \in [Module -> Phases],
         \A k \in Module : phase'[k] = "ready" => phase[k] = "ready",
         invocations' \in Seq(Invocation), DOMAIN invocations' = Id,
         \A j \in Id :
           /\ invocations'[j].owner = invocations[j].owner
           /\ invocations'[j].token = invocations[j].token
           /\ invocations'[j].phase # "retired" => invocations[j].phase # "retired"
           /\ invocations'[j].failed =>
                invocations[j].failed \/ phase'[invocations[j].owner] # "ready"
  PROVE  LifecycleInv'
<1>1. LifecycleTypeOK'
  BY DEF LifecycleInv, LifecycleTypeOK, physical, Attempts, Id
<1>2. Physical' /\ Rooted' /\ Whole' /\ NoHookForgotten'
  BY DEF LifecycleInv, Physical, Rooted, Whole, NoHookForgotten, physical
<1>3. OwnGraph'
  BY DEF LifecycleInv, OwnGraph, Id, physical
<1>4. Stopped'
  <2>1. \A j \in Id : invocations[j].owner \in Module
    BY Admitted DEF LifecycleInv
  <2> QED BY <2>1 DEF LifecycleInv, Stopped, Id
<1> QED BY <1>1, <1>2, <1>3, <1>4 DEF LifecycleInv

LEMMA CloseCreatedKeeps ==
  ASSUME LifecycleInv, NEW m \in Module, CloseCreated(m)
  PROVE  LifecycleInv'
<1>1. phase' \in [Module -> Phases] /\ \A k \in Module : phase'[k] = "ready" => phase[k] = "ready"
  BY DEF LifecycleInv, LifecycleTypeOK, CloseCreated, Phases
<1>2. invocations' = invocations /\ invocations \in Seq(Invocation)
  BY DEF LifecycleInv, LifecycleTypeOK, CloseCreated
<1>3. UNCHANGED <<token, members, physical, generations>>
  BY DEF CloseCreated
<1> QED BY <1>1, <1>2, <1>3, Quiet DEF Id

LEMMA CloseMemberKeeps == ASSUME LifecycleInv, NEW m \in Module, CloseMember(m) PROVE LifecycleInv'
<1>1. phase' \in [Module -> Phases] /\ \A k \in Module : phase'[k] = "ready" => phase[k] = "ready"
  BY DEF LifecycleInv, LifecycleTypeOK, CloseMember, Phases
<1>2. invocations' = invocations /\ invocations \in Seq(Invocation)
  BY DEF LifecycleInv, LifecycleTypeOK, CloseMember
<1>3. UNCHANGED <<token, members, physical, generations>>
  BY DEF CloseMember
<1> QED BY <1>1, <1>2, <1>3, Quiet DEF Id

LEMMA MovedWell ==
  ASSUME LifecycleInv, NEW i \in Id, NEW p \in InvocationPhases, Moved(i, p),
         invocations[i].phase # "retired",
         UNCHANGED <<phase, token, members, physical, generations>>
  PROVE  LifecycleInv'
<1> DEFINE v == [invocations[i] EXCEPT !.phase = p]
<1>1. LifecycleTypeOK /\ invocations[i] \in Invocation /\ phase \in [Module -> Phases]
  BY Admitted DEF LifecycleInv, LifecycleTypeOK
<1>2. /\ v \in Invocation /\ v.owner = invocations[i].owner /\ v.token = invocations[i].token
      /\ v.failed = invocations[i].failed
  BY <1>1 DEF Invocation
<1>3. invocations' = [invocations EXCEPT ![i] = v]
  BY DEF Moved
<1> HIDE DEF v
<1>4. /\ invocations' \in Seq(Invocation) /\ DOMAIN invocations' = Id
      /\ invocations'[i] = v /\ \A j \in Id : j # i => invocations'[j] = invocations[j]
  BY <1>1, <1>2, <1>3, Replaced
<1> QED BY <1>1, <1>2, <1>4, Quiet

LEMMA AbortKeeps ==
  ASSUME LifecycleInv, NEW i \in Id, Abort(i), invocations[i].phase # "retired",
         UNCHANGED <<token, members, physical, generations>>
  PROVE  LifecycleInv'
<1> DEFINE o == invocations[i].owner
           p == IF phase[o] = "ready" THEN "retired" ELSE "aborting"
           v == [invocations[i] EXCEPT !.phase = p, !.failed = TRUE]
<1>1. /\ LifecycleTypeOK /\ invocations[i] \in Invocation /\ o \in Module
      /\ phase \in [Module -> Phases]
  BY Admitted DEF LifecycleInv, LifecycleTypeOK
<1>2. /\ v \in Invocation /\ v.owner = o /\ v.token = invocations[i].token
  BY <1>1 DEF Invocation, InvocationPhases
<1>3. invocations' = [invocations EXCEPT ![i] = v]
  BY DEF Abort
<1> HIDE DEF v
<1>4. /\ invocations' \in Seq(Invocation) /\ DOMAIN invocations' = Id
      /\ invocations'[i] = v /\ \A j \in Id : j # i => invocations'[j] = invocations[j]
  BY <1>1, <1>2, <1>3, Replaced
<1>5. phase' \in [Module -> Phases] /\ phase'[o] # "ready"
      /\ \A k \in Module : phase'[k] = "ready" => phase[k] = "ready"
  BY <1>1 DEF Abort, Poison, Phases
<1> QED BY <1>1, <1>2, <1>4, <1>5, Quiet

LEMMA InvocationKeeps ==
  ASSUME LifecycleInv, NEW i \in Id, ShadowReplay(i) \/ Replay(i) \/ Retire(i)
  PROVE  LifecycleInv'
<1>1. CASE ShadowReplay(i)
  BY <1>1, MovedWell, AbortKeeps DEF ShadowReplay, InvocationPhases
<1>2. CASE Replay(i)
  BY <1>2, MovedWell, AbortKeeps DEF Replay, InvocationPhases
<1>3. CASE Retire(i)
  BY <1>3, MovedWell DEF Retire, InvocationPhases, tree
<1> QED BY <1>1, <1>2, <1>3

LEMMA InvokeKeeps == ASSUME LifecycleInv, NEW m \in Module, Invoke(m) PROVE LifecycleInv'
<1> DEFINE n == Len(invocations) + 1
           v == [owner |-> m, token |-> token[m], phase |-> "bound", failed |-> FALSE]
<1>1. /\ invocations \in Seq(Invocation)
      /\ token \in [Module -> {0} \cup Attempts] /\ Attempts \subseteq Nat \ {0}
      /\ UNCHANGED <<phase, token, members, graph, bound, resource, generations>>
  BY DEF LifecycleInv, LifecycleTypeOK, Invoke, tree, physical, Attempts
<1>2. token[m] \in Attempts /\ graph[m] = token[m]
  BY <1>1 DEF LifecycleInv, Physical, Invoke
<1>3. v \in Invocation
  BY <1>1, <1>2 DEF Invocation, InvocationPhases
<1>4. v.owner = m /\ v.token = token[m] /\ v.failed = FALSE
  OBVIOUS
<1>5. invocations' = Append(invocations, v)
  BY DEF Invoke
<1> HIDE DEF v
<1>6. /\ invocations' \in Seq(Invocation) /\ Id' = Id \cup {n} /\ invocations'[n] = v
      /\ \A j \in Id : invocations'[j] = invocations[j]
  BY <1>1, <1>3, <1>5 DEF Id
<1> HIDE DEF n
<1>7. LifecycleTypeOK'
  <2>1. /\ phase \in [Module -> Phases] /\ members \in [Module -> SUBSET Module]
        /\ graph \in [Module -> {0} \cup Attempts] /\ bound \in [Module -> {0} \cup Attempts]
        /\ resource \in [Module -> {0} \cup Attempts]
        /\ generations \in Seq([by : Module, ready : BOOLEAN])
        /\ \A i \in Id : invocations[i].token \in Attempts
    BY DEF LifecycleInv, LifecycleTypeOK
  <2>2. \A i \in Id' : invocations'[i].token \in Attempts
    BY <1>2, <1>4, <1>6, <2>1
  <2>3. Attempts' = Attempts
    BY <1>1 DEF Attempts
  <2> QED BY <1>1, <1>6, <2>1, <2>2, <2>3 DEF LifecycleTypeOK
<1>8. Physical' /\ Rooted' /\ Whole' /\ NoHookForgotten'
  BY <1>1 DEF LifecycleInv, Physical, Rooted, Whole, NoHookForgotten
<1>9. OwnGraph'
  BY <1>1, <1>2, <1>4, <1>6 DEF LifecycleInv, OwnGraph
<1>10. Stopped'
  BY <1>1, <1>4, <1>6 DEF LifecycleInv, Stopped
<1> QED BY <1>7, <1>8, <1>9, <1>10 DEF LifecycleInv


-----------------------------------------------------------------------------
\* Activation.

LEMMA Activators == ASSUME LifecycleTypeOK PROVE \A t \in Attempts : generations[t].by \in Module
<1> DEFINE G == [by : Module, ready : BOOLEAN]
<1>1. generations \in Seq(G)
  BY DEF LifecycleTypeOK
<1>2. \A r \in G : r.by \in Module
  OBVIOUS
<1> HIDE DEF G
<1>3. \A t \in Attempts : generations[t] \in G
  BY <1>1 DEF Attempts
<1> QED BY <1>2, <1>3

\* Nothing in an unclaimed subtree has a generation, nor activated one.
LEMMA UnclaimedTokens ==
  ASSUME LifecycleInv, NEW m \in Module, Unclaimed(m)
  PROVE  \A k \in Subtree(m) : token[k] = 0 /\ graph[k] = 0 /\ members[k] = {}
<1>1. \A k \in Subtree(m) : k \in Module /\ token[k] = 0 /\ graph[k] = 0
  BY Subtrees DEF LifecycleInv, Unclaimed, Physical
<1> QED BY <1>1 DEF LifecycleInv, Whole

LEMMA ActivateKeeps == ASSUME LifecycleInv, NEW m \in Module, Activate(m) PROVE LifecycleInv'
<1> DEFINE S == Subtree(m)
           g == Generation
           G == [by : Module, ready : BOOLEAN]
<1>1. /\ phase \in [Module -> Phases] /\ members \in [Module -> SUBSET Module]
      /\ token \in [Module -> {0} \cup Attempts] /\ graph \in [Module -> {0} \cup Attempts]
      /\ bound \in [Module -> {0} \cup Attempts] /\ resource \in [Module -> {0} \cup Attempts]
      /\ LifecycleTypeOK /\ invocations' = invocations
  BY DEF LifecycleInv, LifecycleTypeOK, Activate
<1>2. /\ Attempts' = Attempts \cup {g} /\ g \notin Attempts /\ g # 0 /\ 0 \notin Attempts
      /\ generations' \in Seq(G) /\ \A t \in Attempts : generations'[t] = generations[t]
      /\ generations'[g].by = m /\ generations'[g].ready = TRUE
  BY <1>1, Attempted DEF Activate
<1>3. m \in S /\ S \subseteq Module
  BY Subtrees
<1>4. \A k \in S : token[k] = 0 /\ graph[k] = 0 /\ members[k] = {}
  BY UnclaimedTokens DEF Activate
<1>5. /\ \A k \in S : /\ token'[k] = g /\ graph'[k] = g /\ bound'[k] = g
                      /\ resource'[k] = g /\ phase'[k] = "ready"
      /\ \A k \in Module \ S : /\ token'[k] = token[k] /\ graph'[k] = graph[k]
                               /\ bound'[k] = bound[k] /\ resource'[k] = resource[k]
                               /\ phase'[k] = phase[k]
  <2>1. /\ token' = Overlay(token, S, g) /\ graph' = Overlay(graph, S, g)
        /\ bound' = Overlay(bound, S, g) /\ resource' = Overlay(resource, S, g)
        /\ phase' = Overlay(phase, S, "ready")
    BY DEF Activate
  <2> HIDE DEF S, g
  <2> QED BY <1>3, <2>1 DEF Overlay
<1>6. members'[m] = S /\ \A k \in Module : k # m => members'[k] = members[k]
  BY <1>1 DEF Activate
<1>7. /\ phase' \in [Module -> Phases] /\ members' \in [Module -> SUBSET Module]
      /\ token' \in [Module -> {0} \cup Attempts'] /\ graph' \in [Module -> {0} \cup Attempts']
      /\ bound' \in [Module -> {0} \cup Attempts']
      /\ resource' \in [Module -> {0} \cup Attempts']
  <2>1. phase' \in [Module -> Phases]
    BY <1>1 DEF Activate, Overlay, Phases
  <2>2. members' \in [Module -> SUBSET Module]
    BY <1>1, <1>3 DEF Activate
  <2>3. \A f \in [Module -> {0} \cup Attempts] : Overlay(f, S, g) \in [Module -> {0} \cup Attempts']
    BY <1>2 DEF Overlay
  <2>4. /\ token' = Overlay(token, S, g) /\ graph' = Overlay(graph, S, g)
        /\ bound' = Overlay(bound, S, g) /\ resource' = Overlay(resource, S, g)
    BY DEF Activate
  <2> QED BY <1>1, <2>1, <2>2, <2>3, <2>4
<1>8. \A i \in Id : /\ invocations[i].owner \in Module /\ invocations[i].token \in Attempts
                    /\ invocations'[i] = invocations[i]
  BY <1>1, Admitted
<1>9. Id' = Id
  BY <1>1 DEF Id
<1> HIDE DEF S, g, G
<1>10. LifecycleTypeOK'
  <2>1. invocations' \in Seq(Invocation)
    BY <1>1, Admitted
  <2>2. \A i \in Id' : invocations'[i].token \in Attempts'
    BY <1>2, <1>8, <1>9
  <2> QED BY <1>2, <1>7, <2>1, <2>2 DEF LifecycleTypeOK, G
<1>11. Physical'
  BY <1>5 DEF LifecycleInv, Physical
<1>12. Rooted'
  <2> SUFFICES ASSUME NEW k \in Module, token'[k] # 0
               PROVE  LET n == generations'[token'[k]].by
                      IN  k \in Subtree(n) /\ token'[n] = token'[k] /\ members'[n] # {}
    BY DEF Rooted, Subtree
  <2>1. CASE k \in S
    BY <2>1, <1>2, <1>3, <1>5, <1>6 DEF S
  <2>2. CASE k \notin S
    <3> DEFINE n == generations[token[k]].by
    <3>1. /\ token[k] \in Attempts /\ token'[k] = token[k]
          /\ generations'[token[k]] = generations[token[k]]
      BY <2>2, <1>1, <1>2, <1>5
    <3>2. k \in Subtree(n) /\ token[n] = token[k] /\ members[n] # {}
      BY <3>1, <1>2 DEF LifecycleInv, Rooted
    <3>3. n \in Module
      BY <3>1, <1>1, Activators
    <3>4. n \notin S /\ n # m
      BY <3>1, <3>2, <1>2, <1>3, <1>4
    <3> QED BY <3>1, <3>2, <3>3, <3>4, <1>5, <1>6
  <2> QED BY <2>1, <2>2
<1>13. Whole'
  <2> SUFFICES ASSUME NEW n \in Module, members'[n] # {}
               PROVE  /\ members'[n] = Subtree(n) /\ token'[n] # 0
                      /\ generations'[token'[n]].by = n
                      /\ \A k \in Subtree(n) : token'[k] = token'[n]
    BY DEF Whole, Subtree
  <2>1. CASE n = m
    BY <2>1, <1>2, <1>3, <1>5, <1>6 DEF S
  <2>2. CASE n # m
    <3>1. members'[n] = members[n] /\ members[n] # {}
      BY <2>2, <1>6
    <3>2. /\ members[n] = Subtree(n) /\ token[n] # 0 /\ generations[token[n]].by = n
          /\ \A k \in Subtree(n) : token[k] = token[n]
      BY <3>1 DEF LifecycleInv, Whole
    <3>3. n \in Subtree(n) /\ \A k \in Subtree(n) : k \in Module /\ k \notin S
      BY <3>2, <1>4, Subtrees
    <3>4. token[n] \in Attempts
      BY <3>2, <1>1
    <3> QED BY <3>1, <3>2, <3>3, <3>4, <1>2, <1>5
  <2> QED BY <2>1, <2>2
<1>14. NoHookForgotten'
  <2> SUFFICES ASSUME NEW k \in Module, resource'[k] # 0, generations'[resource'[k]].ready
               PROVE  resource'[k] = token'[k]
    BY DEF NoHookForgotten
  <2>1. CASE k \in S
    BY <2>1, <1>5
  <2>2. CASE k \notin S
    BY <2>2, <1>1, <1>2, <1>5 DEF LifecycleInv, NoHookForgotten
  <2> QED BY <2>1, <2>2
<1>15. OwnGraph'
  BY <1>2, <1>4, <1>5, <1>8, <1>9 DEF LifecycleInv, OwnGraph
<1>16. Stopped'
  BY <1>2, <1>5, <1>8, <1>9 DEF LifecycleInv, Stopped
<1> QED BY <1>10, <1>11, <1>12, <1>13, <1>14, <1>15, <1>16 DEF LifecycleInv

LEMMA ActivateFailsKeeps ==
  ASSUME LifecycleInv, NEW m \in Module, ActivateFails(m)
  PROVE  LifecycleInv'
<1> DEFINE g == Generation
           G == [by : Module, ready : BOOLEAN]
           R == {0} \cup Attempts
<1>1. /\ phase \in [Module -> Phases] /\ members \in [Module -> SUBSET Module]
      /\ token \in [Module -> R] /\ graph \in [Module -> R]
      /\ bound \in [Module -> R] /\ resource \in [Module -> R] /\ LifecycleTypeOK
      /\ UNCHANGED <<phase, token, members, graph, bound, invocations>>
  BY DEF LifecycleInv, LifecycleTypeOK, ActivateFails, RollBack, tree
<1>2. /\ Attempts' = Attempts \cup {g} /\ g \notin Attempts /\ g # 0 /\ 0 \notin Attempts
      /\ generations' \in Seq(G) /\ \A t \in Attempts : generations'[t] = generations[t]
      /\ generations'[g].ready = FALSE
  BY <1>1, Attempted DEF ActivateFails
<1>3. /\ resource' \in [Module -> R \cup {g}]
      /\ \A k \in Module : resource'[k] \in {resource[k], 0, g}
  <2>1. PICK A \in SUBSET Subtree(m) : \E B \in SUBSET A :
          resource' = Overlay(Overlay(resource, A, 0), B, g)
    BY DEF ActivateFails
  <2>2. PICK B \in SUBSET A : resource' = Overlay(Overlay(resource, A, 0), B, g)
    BY <2>1
  <2> HIDE DEF g
  <2> QED BY <2>2, <1>1 DEF Overlay
<1>4. \A i \in Id : /\ invocations[i].owner \in Module /\ invocations[i].token \in Attempts
                    /\ invocations'[i] = invocations[i]
  BY <1>1, Admitted
<1>5. Id' = Id
  BY <1>1 DEF Id
<1>6. \A k \in Module : token[k] # 0 => token[k] \in Attempts
  BY <1>1
<1> HIDE DEF g, G
<1>7. LifecycleTypeOK'
  <2>1. \A f \in [Module -> R] : f \in [Module -> {0} \cup Attempts']
    BY <1>2
  <2>2. invocations' \in Seq(Invocation) /\ \A i \in Id' : invocations'[i].token \in Attempts'
    BY <1>1, <1>2, <1>4, <1>5, Admitted
  <2>3. /\ token' \in [Module -> {0} \cup Attempts'] /\ graph' \in [Module -> {0} \cup Attempts']
        /\ bound' \in [Module -> {0} \cup Attempts']
    BY <1>1, <2>1
  <2>4. resource' \in [Module -> {0} \cup Attempts']
    BY <1>2, <1>3
  <2> QED BY <1>1, <1>2, <2>2, <2>3, <2>4 DEF LifecycleTypeOK, G
<1>8. Physical'
  BY <1>1 DEF LifecycleInv, Physical
<1>9. Rooted'
  BY <1>1, <1>2, <1>6 DEF LifecycleInv, Rooted
<1>10. Whole'
  <2>1. \A n \in Module : members[n] # {} => token[n] \in Attempts
    BY <1>6 DEF LifecycleInv, Whole
  <2> QED BY <1>1, <1>2, <2>1 DEF LifecycleInv, Whole
<1>11. NoHookForgotten'
  BY <1>1, <1>2, <1>3 DEF LifecycleInv, NoHookForgotten
<1>12. OwnGraph'
  BY <1>1, <1>2, <1>4, <1>5 DEF LifecycleInv, OwnGraph
<1>13. Stopped'
  BY <1>1, <1>4, <1>5 DEF LifecycleInv, Stopped
<1> QED BY <1>7, <1>8, <1>9, <1>10, <1>11, <1>12, <1>13 DEF LifecycleInv

-----------------------------------------------------------------------------
\* Closing.

\* An invocation that owns its generation is not in what an idle module, with
\* a generation of its own, may take down.
LEMMA Idle ==
  ASSUME LifecycleInv, NEW m \in Module, members[m] # {}, Active(m) = {}, NEW i \in Id,
         invocations[i].phase # "retired",
         generations[invocations[i].token].by = invocations[i].owner
  PROVE  invocations[i].owner \notin members[m]
<1> DEFINE o == invocations[i].owner
           t == invocations[i].token
<1> SUFFICES ASSUME o \in members[m] PROVE FALSE
  OBVIOUS
<1>1. o \in Module /\ t \in Attempts /\ t # 0
  BY Admitted DEF LifecycleInv, Attempts
<1>2. graph[o] = t
  BY DEF LifecycleInv, OwnGraph
<1>3. token[o] = t
  BY <1>1, <1>2 DEF LifecycleInv, Physical
<1>4. o \in Subtree(m) /\ token[o] = token[m] /\ generations[token[m]].by = m
  BY DEF LifecycleInv, Whole
<1>5. o = m
  BY <1>3, <1>4
<1> QED BY <1>5 DEF Active

LEMMA GraphFailureKeeps ==
  ASSUME LifecycleInv, NEW m \in Module, CloseFailsInGraph(m)
  PROVE  LifecycleInv'
<1>1. /\ LifecycleTypeOK /\ phase \in [Module -> Phases] /\ graph \in [Module -> {0} \cup Attempts]
      /\ members \in [Module -> SUBSET Module]
      /\ UNCHANGED <<token, members, bound, resource, generations, invocations>>
  BY DEF LifecycleInv, LifecycleTypeOK, CloseFailsInGraph
<1>2. Active(m) = {}
  BY DEF CloseFailsInGraph, CanClose
<1>3. PICK A \in SUBSET members[m] : A # {} /\ graph' = Overlay(graph, A, 0)
  BY DEF CloseFailsInGraph
<1>4. /\ A \subseteq members[m] /\ members[m] # {} /\ members[m] \subseteq Module
  BY <1>1, <1>3
<1>5. /\ graph' \in [Module -> {0} \cup Attempts]
      /\ \A k \in A : graph'[k] = 0 /\ \A n \in Module \ A : graph'[n] = graph[n]
      /\ phase' \in [Module -> Phases] /\ phase' = [phase EXCEPT ![m] = "closing"]
      /\ \A k \in Module : phase'[k] = "ready" => phase[k] = "ready"
  BY <1>1, <1>3, <1>4 DEF CloseFailsInGraph, Overlay, Phases
<1>6. Attempts' = Attempts /\ Id' = Id
  BY <1>1 DEF Attempts, Id
<1>7. LifecycleTypeOK'
  BY <1>1, <1>5, <1>6 DEF LifecycleTypeOK
<1>8. Physical'
  BY <1>1, <1>3, <1>4, <1>5 DEF LifecycleInv, Physical, Overlay
<1>9. Rooted' /\ Whole' /\ NoHookForgotten'
  BY <1>1 DEF LifecycleInv, Rooted, Whole, NoHookForgotten
<1>10. OwnGraph'
  <2>1. \A i \in Id : invocations[i].phase # "retired"
            /\ generations[invocations[i].token].by = invocations[i].owner =>
              invocations[i].owner \in Module \ A
    BY <1>1, <1>2, <1>4, Idle, Admitted
  <2> QED BY <1>1, <1>3, <1>6, <2>1 DEF LifecycleInv, OwnGraph, Overlay
<1>11. Stopped'
  <2>1. \A i \in Id : invocations[i].owner \in Module
    BY <1>1, Admitted
  <2> QED BY <1>1, <1>5, <1>6, <2>1 DEF LifecycleInv, Stopped
<1> QED BY <1>7, <1>8, <1>9, <1>10, <1>11 DEF LifecycleInv


LEMMA HookFailureKeeps ==
  ASSUME LifecycleInv, NEW m \in Module, CloseFailsInHook(m)
  PROVE  LifecycleInv'
<1> DEFINE S == members[m]
<1>1. /\ LifecycleTypeOK /\ phase \in [Module -> Phases] /\ graph \in [Module -> {0} \cup Attempts]
      /\ resource \in [Module -> {0} \cup Attempts] /\ members \in [Module -> SUBSET Module]
      /\ UNCHANGED <<token, members, bound, generations, invocations>>
  BY DEF LifecycleInv, LifecycleTypeOK, CloseFailsInHook
<1>2. Active(m) = {} /\ S # {} /\ S \subseteq Module
  BY <1>1 DEF CloseFailsInHook, CanClose
<1>3. /\ graph' \in [Module -> {0} \cup Attempts] /\ phase' \in [Module -> Phases]
      /\ \A k \in S : graph'[k] = 0 /\ phase'[k] = "poisoned"
      /\ \A k \in Module \ S : graph'[k] = graph[k] /\ phase'[k] = phase[k]
  BY <1>1, <1>2 DEF CloseFailsInHook, Overlay, Phases
<1>4. /\ resource' \in [Module -> {0} \cup Attempts]
      /\ \A k \in Module : resource'[k] \in {0, resource[k]}
  BY <1>1 DEF CloseFailsInHook, Overlay
<1>5. Attempts' = Attempts /\ Id' = Id
  BY <1>1 DEF Attempts, Id
<1>6. \A i \in Id : invocations[i].owner \in Module
  BY <1>1, Admitted
<1>7. \A i \in Id : invocations[i].phase # "retired"
          /\ generations[invocations[i].token].by = invocations[i].owner =>
            invocations[i].owner \in Module \ S
  BY <1>2, <1>6, Idle
<1> HIDE DEF S
<1>8. LifecycleTypeOK'
  BY <1>1, <1>3, <1>4, <1>5 DEF LifecycleTypeOK
<1>9. Physical'
  BY <1>1, <1>3 DEF LifecycleInv, Physical
<1>10. Rooted' /\ Whole'
  BY <1>1 DEF LifecycleInv, Rooted, Whole
<1>11. NoHookForgotten'
  BY <1>1, <1>4 DEF LifecycleInv, NoHookForgotten
<1>12. OwnGraph'
  BY <1>1, <1>3, <1>5, <1>7 DEF LifecycleInv, OwnGraph
<1>13. Stopped'
  BY <1>1, <1>3, <1>5, <1>6 DEF LifecycleInv, Stopped
<1> QED BY <1>8, <1>9, <1>10, <1>11, <1>12, <1>13 DEF LifecycleInv

LEMMA CloseDoneKeeps == ASSUME LifecycleInv, NEW m \in Module, CloseDone(m) PROVE LifecycleInv'
<1> DEFINE S == members[m]
           R == {0} \cup Attempts
<1>1. /\ LifecycleTypeOK /\ phase \in [Module -> Phases] /\ members \in [Module -> SUBSET Module]
      /\ token \in [Module -> R] /\ graph \in [Module -> R]
      /\ bound \in [Module -> R] /\ resource \in [Module -> R]
      /\ UNCHANGED <<generations, invocations>>
  BY DEF LifecycleInv, LifecycleTypeOK, CloseDone
<1>2. Active(m) = {} /\ S # {} /\ S \subseteq Module
  BY <1>1 DEF CloseDone, CanClose
<1>3. /\ token' = Overlay(token, S, 0) /\ graph' = Overlay(graph, S, 0)
      /\ bound' = Overlay(bound, S, 0) /\ resource' = Overlay(resource, S, 0)
      /\ phase' = Overlay(phase, S, "closed") /\ members' = [members EXCEPT ![m] = {}]
  BY DEF CloseDone, HooksReleased, Detached
<1> HIDE DEF S
<1>4. /\ \A k \in S : /\ token'[k] = 0 /\ graph'[k] = 0 /\ bound'[k] = 0
                      /\ resource'[k] = 0 /\ phase'[k] = "closed"
      /\ \A k \in Module \ S : /\ token'[k] = token[k] /\ graph'[k] = graph[k]
                               /\ bound'[k] = bound[k] /\ resource'[k] = resource[k]
                               /\ phase'[k] = phase[k]
  BY <1>2, <1>3 DEF Overlay
<1>5. members'[m] = {} /\ \A k \in Module : k # m => members'[k] = members[k]
  BY <1>1, <1>3
<1>6. \A i \in Id : invocations[i].owner \in Module
  BY <1>1, Admitted
<1>7. \A i \in Id : invocations[i].phase # "retired"
          /\ generations[invocations[i].token].by = invocations[i].owner =>
            invocations[i].owner \in Module \ S
  BY <1>2, <1>6, Idle DEF S
<1>8. /\ S = Subtree(m) /\ m \in S /\ token[m] # 0 /\ generations[token[m]].by = m
      /\ \A k \in S : token[k] = token[m]
  BY <1>2, Subtrees DEF LifecycleInv, Whole, S
<1>9. Attempts' = Attempts /\ Id' = Id
  BY <1>1 DEF Attempts, Id
<1>10. LifecycleTypeOK'
  <2>1. /\ token' \in [Module -> R] /\ graph' \in [Module -> R]
        /\ bound' \in [Module -> R] /\ resource' \in [Module -> R]
    BY <1>1, <1>3 DEF Overlay
  <2>2. phase' \in [Module -> Phases]
    BY <1>1, <1>3 DEF Overlay, Phases
  <2>3. members' \in [Module -> SUBSET Module]
    BY <1>1, <1>3
  <2> QED BY <1>1, <1>9, <2>1, <2>2, <2>3 DEF LifecycleTypeOK
<1>11. Physical'
  BY <1>4 DEF LifecycleInv, Physical
<1>12. Rooted'
  <2> SUFFICES ASSUME NEW k \in Module, token'[k] # 0
               PROVE  LET n == generations[token'[k]].by
                      IN  k \in Subtree(n) /\ token'[n] = token'[k] /\ members'[n] # {}
    BY <1>1 DEF Rooted, Subtree
  <2> DEFINE n == generations[token[k]].by
  <2>1. k \notin S /\ token'[k] = token[k]
    BY <1>4
  <2>2. k \in Subtree(n) /\ token[n] = token[k] /\ members[n] # {}
    BY <2>1 DEF LifecycleInv, Rooted
  <2>3. n \in Module
    BY <1>1, <2>1, Activators
  <2>4. n \notin S
    BY <1>8, <2>1, <2>2
  <2> QED BY <1>4, <1>5, <1>8, <2>1, <2>2, <2>3, <2>4
<1>13. Whole'
  <2> SUFFICES ASSUME NEW n \in Module, members'[n] # {}
               PROVE  /\ members'[n] = Subtree(n) /\ token'[n] # 0
                      /\ generations[token'[n]].by = n
                      /\ \A k \in Subtree(n) : token'[k] = token'[n]
    BY <1>1 DEF Whole, Subtree
  <2>1. n # m /\ members'[n] = members[n] /\ members[n] # {}
    BY <1>5
  <2>2. /\ members[n] = Subtree(n) /\ token[n] # 0 /\ generations[token[n]].by = n
        /\ \A k \in Subtree(n) : token[k] = token[n]
    BY <2>1 DEF LifecycleInv, Whole
  <2>3. n \in Subtree(n) /\ \A k \in Subtree(n) : k \in Module /\ k \notin S
    BY <1>8, <2>1, <2>2, Subtrees
  <2> QED BY <1>4, <2>1, <2>2, <2>3
<1>14. NoHookForgotten'
  BY <1>1, <1>4 DEF LifecycleInv, NoHookForgotten
<1>15. OwnGraph'
  BY <1>1, <1>4, <1>7, <1>9 DEF LifecycleInv, OwnGraph
<1>16. Stopped'
  BY <1>1, <1>4, <1>6, <1>9 DEF LifecycleInv, Stopped
<1> QED BY <1>10, <1>11, <1>12, <1>13, <1>14, <1>15, <1>16 DEF LifecycleInv

-----------------------------------------------------------------------------
\* The results.

LEMMA InitOK == LifecycleInit => LifecycleInv
<1> SUFFICES ASSUME LifecycleInit PROVE LifecycleInv
  OBVIOUS
<1>1. /\ generations = <<>> /\ invocations = <<>> /\ Id = {} /\ Attempts = {}
  BY DEF LifecycleInit, Id, Attempts
<1>2. LifecycleTypeOK
  BY <1>1 DEF LifecycleInit, LifecycleTypeOK, Phases
<1>3. Physical /\ Rooted /\ Whole /\ NoHookForgotten
  BY DEF LifecycleInit, Physical, Rooted, Whole, NoHookForgotten
<1>4. OwnGraph /\ Stopped
  BY <1>1 DEF OwnGraph, Stopped
<1> QED BY <1>2, <1>3, <1>4 DEF LifecycleInv

LEMMA StepOK == LifecycleInv /\ [LifecycleNext]_lifecycle => LifecycleInv'
<1> SUFFICES ASSUME LifecycleInv, [LifecycleNext]_lifecycle PROVE LifecycleInv'
  OBVIOUS
<1>1. ASSUME NEW m \in Module, Activate(m) \/ ActivateFails(m) \/ Invoke(m) PROVE LifecycleInv'
  BY <1>1, ActivateKeeps, ActivateFailsKeeps, InvokeKeeps
<1>2. ASSUME NEW m \in Module,
             \/ CloseCreated(m) \/ CloseMember(m) \/ CloseFailsInGraph(m)
             \/ CloseFailsInHook(m) \/ CloseDone(m)
      PROVE  LifecycleInv'
  BY <1>2, CloseCreatedKeeps, CloseMemberKeeps, GraphFailureKeeps, HookFailureKeeps,
     CloseDoneKeeps
<1>3. ASSUME NEW i \in Id, ShadowReplay(i) \/ Replay(i) \/ Retire(i) PROVE LifecycleInv'
  BY <1>3, InvocationKeeps
<1>4. CASE UNCHANGED lifecycle
  BY <1>4 DEF lifecycle, tree, physical, LifecycleInv, LifecycleTypeOK, Physical, Rooted, Whole, NoHookForgotten,
     OwnGraph, Stopped, Id, Attempts
<1> QED BY <1>1, <1>2, <1>3, <1>4 DEF LifecycleNext

THEOREM LifecycleInductive == LifecycleSpec => []LifecycleInv
BY InitOK, StepOK, PTL DEF LifecycleSpec


LEMMA WholeEnough == LifecycleInv => GenerationWhole
<1> SUFFICES ASSUME LifecycleInv, NEW t \in Attempts
             PROVE  LET m == generations[t].by
                    IN  \/ Holders(t) = {} /\ \A k \in Module : token[k] # t
                        \/ /\ token[m] = t /\ members[m] = Subtree(m)
                           /\ Holders(t) = members[m]
                           /\ \A k \in members[m] : token[k] = t /\ bound[k] = t
  BY DEF GenerationWhole, Attempts
<1> DEFINE m == generations[t].by
<1>1. LifecycleTypeOK /\ t # 0 /\ m \in Module
  BY Activators DEF LifecycleInv, Attempts
<1>2. \A k \in Module : (graph[k] = t \/ bound[k] = t) => token[k] = t
  BY <1>1 DEF LifecycleInv, Physical
<1>3. \A k \in Module : token[k] = t => k \in Subtree(m) /\ token[m] = t /\ members[m] # {}
  BY <1>1 DEF LifecycleInv, Rooted
<1>4. CASE \A k \in Module : token[k] # t
  BY <1>2, <1>4 DEF Holders
<1>5. CASE \E k \in Module : token[k] = t
  <2>1. token[m] = t /\ members[m] # {}
    BY <1>3, <1>5
  <2>2. members[m] = Subtree(m) /\ \A k \in Subtree(m) : token[k] = t
    BY <1>1, <2>1 DEF LifecycleInv, Whole
  <2>3. Subtree(m) \subseteq Module
    BY <1>1, Subtrees
  <2>4. \A k \in Subtree(m) : bound[k] = t
    BY <2>2, <2>3 DEF LifecycleInv, Physical
  <2>5. Holders(t) = Subtree(m)
    BY <1>2, <1>3, <2>3, <2>4 DEF Holders
  <2> QED BY <2>1, <2>2, <2>4, <2>5
<1> QED BY <1>4, <1>5

\* However activations fail and closes are tried again, a generation is held by
\* all its modules or by none (activate, _close in live_module.py).
THEOREM WholeGenerations == LifecycleSpec => []GenerationWhole
BY LifecycleInductive, WholeEnough, PTL

\* A release hook that raised is run again before its module gives up the
\* generation (_close in live_module.py).
THEOREM HooksRun == LifecycleSpec => []NoHookForgotten
<1>1. LifecycleInv => NoHookForgotten
  BY DEF LifecycleInv
<1> QED BY <1>1, LifecycleInductive, PTL

LEMMA OwnEnough == LifecycleInv => OwnGeneration
<1> SUFFICES ASSUME LifecycleInv, NEW i \in Id, invocations[i].phase # "retired",
                    generations[invocations[i].token].by = invocations[i].owner
             PROVE  /\ graph[invocations[i].owner] = invocations[i].token
                    /\ \A k \in members[invocations[i].owner] : bound[k] = invocations[i].token
  BY DEF OwnGeneration
<1> DEFINE o == invocations[i].owner
           t == invocations[i].token
<1>1. o \in Module /\ t # 0 /\ members \in [Module -> SUBSET Module]
  BY Admitted DEF LifecycleInv, LifecycleTypeOK, Attempts
<1>2. graph[o] = t
  BY DEF LifecycleInv, OwnGraph
<1>3. token[o] = t
  BY <1>1, <1>2 DEF LifecycleInv, Physical
<1>4. \A k \in members[o] : k \in Module /\ token[k] = t
  BY <1>1, <1>3 DEF LifecycleInv, Whole
<1>5. \A k \in members[o] : bound[k] = t
  BY <1>4 DEF LifecycleInv, Physical
<1> QED BY <1>2, <1>5

\* An invocation of the module that activated its generation keeps its graph
\* and its state until it retires (LiveInvocation in invocation.py).
THEOREM OwnGenerationKept == LifecycleSpec => []OwnGeneration
BY LifecycleInductive, OwnEnough, PTL

LEMMA StopEnough ==
  LifecycleInv /\ [LifecycleNext]_lifecycle =>
    [\A m \in Module :
       Len(invocations') > Len(invocations) /\ invocations'[Len(invocations')].owner = m =>
         ~ \E i \in Id :
             /\ invocations[i].failed
             /\ invocations[i].owner = m
             /\ invocations[i].token = token[m]]_lifecycle
<1> SUFFICES ASSUME LifecycleInv, LifecycleNext, NEW m \in Module,
                    Len(invocations') > Len(invocations),
                    invocations'[Len(invocations')].owner = m,
                    NEW i \in Id, invocations[i].failed,
                    invocations[i].owner = m, invocations[i].token = token[m]
             PROVE  FALSE
  BY DEF lifecycle
<1>1. invocations \in Seq(Invocation) /\ Len(invocations) \in Nat
  BY DEF LifecycleInv, LifecycleTypeOK
<1>2. \A n \in Module :
        \/ ~ (\/ Activate(n) \/ ActivateFails(n) \/ CloseCreated(n) \/ CloseMember(n)
              \/ CloseFailsInGraph(n) \/ CloseFailsInHook(n) \/ CloseDone(n))
        \/ invocations' = invocations
  BY DEF Activate, ActivateFails, CloseCreated, CloseMember, CloseFailsInGraph,
     CloseFailsInHook, CloseDone
<1>3. ASSUME NEW j \in Id, ShadowReplay(j) \/ Replay(j) \/ Retire(j)
      PROVE  Len(invocations') = Len(invocations)
  BY <1>1, <1>3 DEF ShadowReplay, Replay, Retire, Moved, Abort
<1>4. PICK n \in Module : Invoke(n)
  BY <1>1, <1>2, <1>3 DEF LifecycleNext
<1>5. n = m
  <2> DEFINE v == [owner |-> n, token |-> token[n], phase |-> "bound", failed |-> FALSE]
  <2>1. v.owner = n /\ invocations' = Append(invocations, v)
    BY <1>4 DEF Invoke
  <2> HIDE DEF v
  <2>2. invocations'[Len(invocations')] = v
    BY <1>1, <2>1
  <2> QED BY <2>1, <2>2
<1>6. phase[m] # "ready"
  BY DEF LifecycleInv, Stopped
<1> QED BY <1>4, <1>5, <1>6 DEF Invoke

\* A module whose invocation failed admits none in the same generation
\* (_poison_after_failed_invocation and _admit in live_module.py).
THEOREM FailedModuleStops == LifecycleSpec => FailStop
BY LifecycleInductive, StopEnough, PTL DEF FailStop, LifecycleSpec


=============================================================================
