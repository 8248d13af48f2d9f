---------------------------- MODULE MCMinSession ----------------------------
\* Model-checking instance of MinSession.
EXTENDS MinSession, TLC

\* The elements of these sets are interchangeable.
Symmetry ==
    Permutations(Clients) \cup Permutations(Requests)
        \cup Permutations(Names) \cup Permutations(Values)

\* The contents of a core that nothing points to are never read.
LiveView ==
    <<made, table, requestVars, clientVars, revoked, written, raceVars,
      [k \in Live \ {None} |-> <<cvalue[k], data[k], owner[k]>>]>>
=============================================================================
