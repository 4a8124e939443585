----------------------------- MODULE MCHostState -----------------------------
(***************************************************************************)
(* Two requests over two selections of blocks, and a budget that holds     *)
(* either payload but not both.                                            *)
(***************************************************************************)
EXTENDS HostState

CONSTANTS a, b

MCKey == {a, b}
MCBytesOf == [k \in MCKey |-> IF k = a THEN 2 ELSE 3]
=============================================================================
