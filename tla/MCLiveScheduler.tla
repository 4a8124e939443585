--------------------------- MODULE MCLiveScheduler ---------------------------
(***************************************************************************)
(* A small serving host: two resident seats, both of which may run, three  *)
(* pages of two tokens, three requests whose horizons do not fit together. *)
(***************************************************************************)
EXTENDS LiveScheduler

CONSTANTS a, b

\* The next token depends on the last token and on the length, so that an
\* anchor of a shorter or of another history is the wrong one.
MCGreedy(s) ==
  IF Len(s) % 3 = 0 THEN a ELSE IF Last(s) = a THEN b ELSE a

\* One that speculates and fills the pool alone, a salted one whose prompt
\* takes a wide prefill, and one that stops early and leaves a seat that is hot
\* for the first.
MCQuestion ==
  {[prompt |-> <<a, b>>, count |-> 4, stops |-> {}, cache_salt |-> NoSalt],
   [prompt |-> <<a, b, a, a, b>>, count |-> 1, stops |-> {}, cache_salt |-> "tenant"],
   [prompt |-> <<a>>, count |-> 3, stops |-> {b}, cache_salt |-> NoSalt]}

\* Requests for a host that runs three of them in three pages.  Each short one
\* outgrows its page with its last token, so that the newest is preempted with
\* output to save, runs again beside an older one, and is preempted again; the
\* long one speculates and needs the whole pool, so that two of them fight.
MCContending ==
  {[prompt |-> <<a>>, count |-> 2, stops |-> {}, cache_salt |-> NoSalt],
   [prompt |-> <<a, b>>, count |-> 4, stops |-> {}, cache_salt |-> NoSalt]}
=============================================================================
