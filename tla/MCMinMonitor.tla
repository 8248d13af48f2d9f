----------------------------- MODULE MCMinMonitor -----------------------------
\* Model-checking instance of MinMonitor.
EXTENDS MinMonitor, TLC

\* The callers are interchangeable, and so are the names.
Symmetry == Permutations(Callers) \cup Permutations(Names)

\* Since when the status is up, as long as a property asks for it: until two
\* callers meet.
Since(s) ==
    IF met[s] \/ ~(up[s] \/ \E p \in Callers : pc[p] = "store" /\ svc[p] = s)
    THEN None ELSE goodAt[s]

\* Of a caller, what it or a property will read again: a clock value until
\* ReadLast, the outcome of a probe until the operation is over, and of an
\* operation that is over the answer of the filter or the answer down.
CallerView(p) ==
    IF pc[p] = "idle" /\ op[p] # "filter" /\ res[p] # "down" THEN <<"idle">>
    ELSE <<pc[p], op[p], svc[p], ran[p], res[p], sawDown[p],
           IF pc[p] = "last" THEN seen[p] ELSE 0,
           IF pc[p] = "idle" THEN "none" ELSE probe[p]>>

CurrentView ==
    <<serviceVars, worldVars, [p \in Callers |-> CallerView(p)],
      met, [s \in Services |-> Since(s)]>>
=============================================================================
