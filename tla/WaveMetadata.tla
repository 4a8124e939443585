---------------------------- MODULE WaveMetadata ----------------------------
(***************************************************************************)
(* What the banked publication of step metadata promises the model runner: *)
(* it submits waves, and each of them, in order, computes with exactly the *)
(* metadata that was built for it.  Nothing of banks, streams or events    *)
(* can be seen.                                                            *)
(***************************************************************************)
EXTENDS Integers, Sequences

VARIABLES
  submitted,  \* waves handed to the device
  read        \* per finished wave, the waves whose metadata it read

vars == <<submitted, read>>

Init == submitted = 0 /\ read = <<>>

Submit == submitted' = submitted + 1 /\ UNCHANGED read

Finish ==
  /\ Len(read) < submitted
  /\ read' = Append(read, {Len(read) + 1})
  /\ UNCHANGED submitted

Next == Submit \/ Finish

Spec == Init /\ [][Next]_vars /\ WF_vars(Finish)

=============================================================================
