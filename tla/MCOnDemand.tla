------------------------------ MODULE MCOnDemand ------------------------------
\* Model-checking instance of OnDemand.
EXTENDS OnDemand

\* Of a caller, what it or a property will read again: between requests the
\* page it was given and the parts that ran for it, in FilterRequest the clock
\* and the probe up to where they are tested.
CallerView(p) ==
    IF pc[p] = "idle" THEN <<"idle", IF res[p] = "503" THEN done[p] ELSE {0}>>
    ELSE <<pc[p], op[p], svc[p],
           IF pc[p] = "last" THEN seen[p] ELSE 0,
           IF pc[p] \in {"up", "clock", "last", "stamp", "store", "always"}
           THEN probe[p] ELSE "none",
           part[p], done[p]>>

\* lastChecked is read after up was found set, and set before up is.
LastView(s) ==
    IF up[s] \/ \E p \in Callers : pc[p] \in {"clock", "last", "store"}
    THEN lastChecked[s] ELSE 0

\* The histories of MinMonitor and DelayTrigger are for their own properties,
\* the table of names is not used by services of a pipeline.
CurrentView ==
    <<up, alive, now, [s \in Services |-> LastView(s)], [p \in Callers |-> CallerView(p)],
      c, cpc, [p \in Callers |-> IF cpc[p] = "send" THEN target[p] ELSE None], calls,
      wpc, armed, [w \in Workers |-> IF armed[w] THEN left[w] ELSE 0], full, fired, raced>>
=============================================================================
