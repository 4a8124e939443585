------------------------- MODULE MCResidentLeasing -------------------------
\* A small instance of ResidentLeasing: prompts that extend one another, that
\* differ in the first token, and fewer pages than the seats could fill.
EXTENDS ResidentLeasing

CONSTANTS a, b, none, salted, p1, p2, p3

MCPages == {p1, p2, p3}
MCTokens == {a, b}
MCSalts == {none, salted}
MCRequests ==
  {[prompt |-> <<a, a>>, cache_salt |-> none],
   [prompt |-> <<b>>, cache_salt |-> none],
   [prompt |-> <<a>>, cache_salt |-> salted]}
MCRuns == {<<a>>}
MCLengths == {1, 3}

PageSymmetry == Permutations(MCPages)

=============================================================================
