--------------------------- MODULE MCSeatScheduler ---------------------------
(***************************************************************************)
(* Two seats for two running requests and pages for not quite both.  The   *)
(* second request continues the first one's conversation, exactly as long  *)
(* as that conversation can become: one token is missing after the hit.    *)
(***************************************************************************)
EXTENDS SeatScheduler

CONSTANTS a, b, c, x, y

MCPrompt ==
  (a :> <<x, x>>) @@ (b :> <<x, x, x, x, x>>) @@ (c :> <<x, x, y, x, x, x, x, x, x, x>>)

MCMaxTokens == (a :> 3) @@ (b :> 1) @@ (c :> 1)

MCArrivals == <<a, c, b>>

MCSaltOf == [r \in Request |-> "none"]
=============================================================================
