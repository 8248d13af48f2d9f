------------------------------ MODULE Debouncer ------------------------------
(***************************************************************************)
(* What the comment on DelayTrigger promises of each goroutine started by  *)
(* Trigger() (trigger/delay.go:10-27): requests postpone one firing, which *)
(* comes only after they have been quiet for Delay, and only if there was  *)
(* one since the last firing.  No timer, no channel, no program counter.   *)
(***************************************************************************)
EXTENDS Naturals

CONSTANTS
    Workers,         \* the debouncers
    Delay            \* ticks that the requests to one must be quiet for

VARIABLES
    quiet,           \* ticks since the last request to each, Delay at most
    waiting          \* whether one was made since its last firing

Init ==
    /\ quiet = [w \in Workers |-> 0]
    /\ waiting = [w \in Workers |-> FALSE]

Request(w) ==
    /\ quiet' = [quiet EXCEPT ![w] = 0]
    /\ waiting' = [waiting EXCEPT ![w] = TRUE]

Fire(w) ==
    /\ waiting[w] /\ quiet[w] = Delay
    /\ waiting' = [waiting EXCEPT ![w] = FALSE]
    /\ UNCHANGED quiet

Tick ==
    /\ quiet' = [w \in Workers |-> IF quiet[w] < Delay THEN quiet[w] + 1 ELSE quiet[w]]
    /\ UNCHANGED waiting

Next == Tick \/ \E w \in Workers : Request(w) \/ Fire(w)

Spec == Init /\ [][Next]_<<quiet, waiting>>

=============================================================================
