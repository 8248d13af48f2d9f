-------------------------------- MODULE Loading --------------------------------
(***************************************************************************)
(* What a load promises (ServerFromReader, config/config.go:142-246): one  *)
(* loader at a time, and whether it gets a server or an error is decided   *)
(* by its own configuration alone, not by the order of the map, nor by     *)
(* what other loads left behind or how they ended.  No registry, no stack, *)
(* no program counter.                                                     *)
(***************************************************************************)
CONSTANTS
    Loaders,         \* goroutines that load
    Configs,         \* the configurations they may be given
    Sound,           \* those without any fault
    Circular,        \* those in which references form a cycle
    None

VARIABLES
    config,          \* what each loader was given
    holder,          \* the loader whose load is going on
    verdict          \* what each has got

Init ==
    /\ config \in [Loaders -> Configs]
    /\ holder = None
    /\ verdict = [l \in Loaders |-> "pending"]

Begin(l) ==
    /\ holder = None /\ verdict[l] = "pending"
    /\ holder' = l
    /\ UNCHANGED <<config, verdict>>

\* The load is over, and the next one may begin.
End(l, v) ==
    /\ holder = l /\ verdict[l] = "pending"
    /\ holder' = None
    /\ verdict' = [verdict EXCEPT ![l] = v]
    /\ UNCHANGED config

Serve(l) == config[l] \in Sound /\ End(l, "server")
Refuse(l) == config[l] \notin Sound /\ End(l, "error")

\* The program ends, which only a cycle can bring about.
Crash(l) ==
    /\ holder = l /\ config[l] \in Circular
    /\ verdict' = [k \in Loaders |-> "crash"]
    /\ UNCHANGED <<config, holder>>

Next == \E l \in Loaders : Begin(l) \/ Serve(l) \/ Refuse(l) \/ Crash(l)

Spec == Init /\ [][Next]_<<config, holder, verdict>>

=============================================================================
