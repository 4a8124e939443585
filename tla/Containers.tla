----------------------------- MODULE Containers -----------------------------
(***************************************************************************)
(* What the schedulers of the production route do with Python's lists and  *)
(* dicts: filter, sort, remove, and set an entry.  They are functions and  *)
(* not the folds of the libraries, so that theorems reach them.            *)
(***************************************************************************)
EXTENDS Integers, Sequences, FiniteSets, Functions

\* sorted(I), for numbers.
Ascending(I) ==
  [n \in 1 .. Cardinality(I) |->
     CHOOSE i \in I : Cardinality({j \in I : j < i}) = n - 1]

\* [x for x in s if x in S]
Only(s, S) ==
  LET at == Ascending({i \in DOMAIN s : s[i] \in S})
  IN  [n \in DOMAIN at |-> s[at[n]]]

\* The list without x.
Without(s, x) == Only(s, Range(s) \ {x})

\* d[k] = v
Put(d, k, v) == [x \in DOMAIN d \cup {k} |-> IF x = k THEN v ELSE d[x]]
=============================================================================
