----------------------------- MODULE PrefillRing -----------------------------
(***************************************************************************)
(* The grants of one scheduling attempt (models/qwen35/                    *)
(* prefill_round_robin.py, PrefillRoundRobin.plan): decodes are reserved   *)
(* first, the rest of the token budget goes round a ring of prefills whose *)
(* first place rotates once per attempt, whatever the attempt achieved.    *)
(*                                                                         *)
(* A prefill row is [demand, eligible, new, least], a function of its key; *)
(* `least` is the minimum grant, below which the row gets nothing.         *)
(***************************************************************************)
EXTENDS Integers, Sequences, FiniteSetsExt, Functions, Containers

\* Keys that left are dropped, newcomers join at the end in their order.
Members(ring, keys) ==
  Only(ring, Range(keys)) \o Only(keys, Range(keys) \ Range(ring))

\* Decodes take what they demand, in order, while the budget lasts.
ReserveDecode(acc, d) ==
  LET grant == Min({d.demand, acc.budget})
  IN  [acc EXCEPT !.grants = Put(@, d.key, grant), !.budget = @ - grant]

\* One place of the ring.
ServePlace(acc, key, row) ==
  LET grant == Min({row.demand, acc.budget}) IN
  IF ~row.eligible \/ (row.new /\ acc.slots = 0) \/ grant < row.least THEN acc
  ELSE [acc EXCEPT !.grants = Put(@, key, grant), !.budget = @ - grant,
                   !.slots = @ - (IF row.new THEN 1 ELSE 0)]

\* What the decodes leave of the budget, and the grants they have.
Reserved(budget, decodes, slots) ==
  LET reserved[i \in 0 .. Len(decodes)] ==
        IF i = 0 THEN [grants |-> <<>>, budget |-> budget, slots |-> slots]
        ELSE ReserveDecode(reserved[i - 1], decodes[i])
  IN  reserved[Len(decodes)]

\* The grants of this attempt.
Grants(ring, budget, decodes, rows, slots) ==
  LET served[i \in 0 .. Len(ring)] ==
        IF i = 0 THEN Reserved(budget, decodes, slots)
        ELSE ServePlace(served[i - 1], ring[i], rows[ring[i]])
  IN  served[Len(ring)].grants

\* Faulty Rotated: a ring that stays at its head.
RotatedNever(ring) == ring

\* The next attempt starts one place further, served or not.
Rotated(ring) == IF ring = <<>> THEN ring ELSE Append(Tail(ring), Head(ring))
=============================================================================
