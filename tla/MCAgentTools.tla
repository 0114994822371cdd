----------------------------- MODULE MCAgentTools -----------------------------
EXTENDS AgentTools, TLC

CONSTANTS d1, c1, c2

\* The section of the first edition has a chunk of its own and one below a
\* subheading; that of the second is one chunk, which the subheading lists again.
Sections == <<"s1" :> [own |-> <<1>>, below |-> <<2>>],
              "s1" :> [own |-> <<1>>, below |-> <<1>>]>>

OneWord == <<1, 1>>

CallSymmetry == Permutations({c1, c2})
=============================================================================
