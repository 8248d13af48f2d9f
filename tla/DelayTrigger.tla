----------------------------- MODULE DelayTrigger -----------------------------
(***************************************************************************)
(* DelayTrigger of trigger/delay.go.  Trigger() is called from the         *)
(* goroutines of concurrent requests; the first call starts a goroutine    *)
(* that owns a timer, later calls hand a token to it over an unbuffered    *)
(* channel and it restarts the timer.                                      *)
(*                                                                         *)
(* A goroutine and the channel made for it are one element of Workers, the *)
(* call that sent on or made the channel one of Callers.  Nothing guards   *)
(* dt.c, so its test and its assignment are two steps.  A step may take    *)
(* any time: Tick is always possible while the clock can tell a difference *)
(* and an expired timer may deliver late.                                  *)
(***************************************************************************)
EXTENDS Naturals

CONSTANTS
    Callers,   \* goroutines that call Trigger()
    Workers,   \* goroutines that run delaytrigger(), with their channels
    Delay,     \* DelayTrigger.Delay, in ticks
    MaxCalls,  \* bound: calls made by each caller
    None       \* the nil channel

ASSUME DelayAssumption == Delay \in Nat /\ MaxCalls \in Nat /\ None \notin Workers

VARIABLES
    c,         \* DelayTrigger.c
    cpc,       \* where each caller is in Trigger()
    target,    \* the channel a caller is sending on
    calls,     \* calls each caller has made
    wpc,       \* where each worker is in delaytrigger()
    armed,     \* the worker's timer runs
    left,      \* ticks until it expires
    full,      \* tmr.C holds a tick that was not received
    quiet,     \* history: ticks since the worker last accepted a request
    owed,      \* history: it has accepted one since it last fired
    fired,     \* history: it has fired
    raced      \* history: two calls were between the test and the assignment of dt.c

callerVars  == <<c, cpc, target, calls>>
timerVars   == <<armed, left, full>>
historyVars == <<quiet, owed, fired, raced>>
vars        == <<callerVars, wpc, timerVars, historyVars>>

TypeOK ==
    /\ c \in Workers \cup {None}
    /\ cpc \in [Callers -> {"idle", "make", "send"}]
    /\ target \in [Callers -> Workers \cup {None}]
    /\ calls \in [Callers -> 0..MaxCalls]
    /\ wpc \in [Workers -> {"off", "start", "select", "stop", "drain", "reset", "fire"}]
    /\ armed \in [Workers -> BOOLEAN]
    /\ left \in [Workers -> 0..Delay]
    /\ full \in [Workers -> BOOLEAN]
    /\ quiet \in [Workers -> 0..Delay]
    /\ owed \in [Workers -> BOOLEAN]
    /\ fired \in [Workers -> BOOLEAN]
    /\ raced \in BOOLEAN

Init ==
    /\ c = None
    /\ cpc = [p \in Callers |-> "idle"]
    /\ target = [p \in Callers |-> None]
    /\ calls = [p \in Callers |-> 0]
    /\ wpc = [w \in Workers |-> "off"]
    /\ armed = [w \in Workers |-> FALSE]
    /\ left = [w \in Workers |-> 0]
    /\ full = [w \in Workers |-> FALSE]
    /\ quiet = [w \in Workers |-> 0]
    /\ owed = [w \in Workers |-> FALSE]
    /\ fired = [w \in Workers |-> FALSE]
    /\ raced = FALSE

-----------------------------------------------------------------------------
\* Trigger(): the test of dt.c.  If it is set, its value is the operand of
\* the send that follows (nothing separates the two, so dt.c is loaded once).
Call(p) ==
    /\ cpc[p] = "idle" /\ calls[p] < MaxCalls
    /\ calls' = [calls EXCEPT ![p] = @ + 1]
    /\ cpc' = [cpc EXCEPT ![p] = IF c = None THEN "make" ELSE "send"]
    /\ target' = [target EXCEPT ![p] = c]
    /\ raced' = (raced \/ (c = None /\ \E q \in Callers : cpc[q] = "make"))
    /\ UNCHANGED <<c, wpc, timerVars, quiet, owed, fired>>

\* Variant for a mutation check: the channel goes to a new local variable.
MakeLocal(p, w) ==
    /\ cpc[p] = "make" /\ wpc[w] = "off"
    /\ wpc' = [wpc EXCEPT ![w] = "start"]
    /\ cpc' = [cpc EXCEPT ![p] = "idle"]
    /\ quiet' = [quiet EXCEPT ![w] = 0]
    /\ owed' = [owed EXCEPT ![w] = TRUE]
    /\ UNCHANGED <<c, target, calls, timerVars, fired, raced>>

\* Trigger(): a channel is made and stored, the goroutine is started.
Make(p, w) ==
    /\ cpc[p] = "make" /\ wpc[w] = "off"
    /\ c' = w
    /\ wpc' = [wpc EXCEPT ![w] = "start"]
    /\ cpc' = [cpc EXCEPT ![p] = "idle"]
    /\ quiet' = [quiet EXCEPT ![w] = 0]
    /\ owed' = [owed EXCEPT ![w] = TRUE]
    /\ UNCHANGED <<target, calls, timerVars, fired, raced>>

\* delaytrigger: time.NewTimer(dla).
NewTimer(w) ==
    /\ wpc[w] = "start"
    /\ armed' = [armed EXCEPT ![w] = TRUE]
    /\ left' = [left EXCEPT ![w] = Delay]
    /\ wpc' = [wpc EXCEPT ![w] = "select"]
    /\ UNCHANGED <<callerVars, full, historyVars>>

\* The send in Trigger() and the first case of the select: both sides meet.
Receive(p, w) ==
    /\ cpc[p] = "send" /\ target[p] = w /\ wpc[w] = "select"
    /\ cpc' = [cpc EXCEPT ![p] = "idle"]
    /\ wpc' = [wpc EXCEPT ![w] = "stop"]
    /\ quiet' = [quiet EXCEPT ![w] = 0]
    /\ owed' = [owed EXCEPT ![w] = TRUE]
    /\ UNCHANGED <<c, target, calls, timerVars, fired, raced>>

\* Variant for a mutation check: a tick is awaited whatever tmr.Stop() says.
StopThenDrain(w) ==
    /\ wpc[w] = "stop"
    /\ wpc' = [wpc EXCEPT ![w] = "drain"]
    /\ armed' = [armed EXCEPT ![w] = FALSE]
    /\ UNCHANGED <<callerVars, left, full, historyVars>>

\* Variant for a mutation check: a tick already sent is left in the channel.
StopOnly(w) ==
    /\ wpc[w] = "stop"
    /\ wpc' = [wpc EXCEPT ![w] = "reset"]
    /\ armed' = [armed EXCEPT ![w] = FALSE]
    /\ UNCHANGED <<callerVars, left, full, historyVars>>

\* tmr.Stop() is false when the timer does not run, whether or not its tick
\* was received.
Stop(w) ==
    /\ wpc[w] = "stop"
    /\ wpc' = [wpc EXCEPT ![w] = IF armed[w] THEN "reset" ELSE "drain"]
    /\ armed' = [armed EXCEPT ![w] = FALSE]
    /\ UNCHANGED <<callerVars, left, full, historyVars>>

\* <-tmr.C: waits for a tick.
Drain(w) ==
    /\ wpc[w] = "drain" /\ full[w]
    /\ full' = [full EXCEPT ![w] = FALSE]
    /\ wpc' = [wpc EXCEPT ![w] = "reset"]
    /\ UNCHANGED <<callerVars, armed, left, historyVars>>

\* Variant for a mutation check: the timer is not restarted.
ResetForgotten(w) ==
    /\ wpc[w] = "reset"
    /\ wpc' = [wpc EXCEPT ![w] = "select"]
    /\ UNCHANGED <<callerVars, timerVars, historyVars>>

\* Variant for a mutation check: one tick too many.
ResetLonger(w) ==
    /\ wpc[w] = "reset"
    /\ armed' = [armed EXCEPT ![w] = TRUE]
    /\ left' = [left EXCEPT ![w] = Delay + 1]
    /\ wpc' = [wpc EXCEPT ![w] = "select"]
    /\ UNCHANGED <<callerVars, full, historyVars>>

\* tmr.Reset(dla).  The channel is never closed, so ok is always true.
Reset(w) ==
    /\ wpc[w] = "reset"
    /\ armed' = [armed EXCEPT ![w] = TRUE]
    /\ left' = [left EXCEPT ![w] = Delay]
    /\ wpc' = [wpc EXCEPT ![w] = "select"]
    /\ UNCHANGED <<callerVars, full, historyVars>>

\* The second case of the select: the delayed trigger is called.
Fire(w) ==
    /\ wpc[w] = "select" /\ full[w]
    /\ full' = [full EXCEPT ![w] = FALSE]
    /\ wpc' = [wpc EXCEPT ![w] = "fire"]
    /\ owed' = [owed EXCEPT ![w] = FALSE]
    /\ fired' = [fired EXCEPT ![w] = TRUE]
    /\ UNCHANGED <<callerVars, armed, left, quiet, raced>>

\* Variant for a mutation check: the goroutine returns after the first firing.
FiredEnds(w) ==
    /\ wpc[w] = "fire"
    /\ armed' = [armed EXCEPT ![w] = FALSE]
    /\ wpc' = [wpc EXCEPT ![w] = "off"]
    /\ UNCHANGED <<callerVars, left, full, historyVars>>

\* The delayed trigger returns (its error is only logged), tmr.Stop().
Fired(w) ==
    /\ wpc[w] = "fire"
    /\ armed' = [armed EXCEPT ![w] = FALSE]
    /\ wpc' = [wpc EXCEPT ![w] = "select"]
    /\ UNCHANGED <<callerVars, left, full, historyVars>>

\* The runtime: an expired timer puts its one tick into the channel.
Expire(w) ==
    /\ armed[w] /\ left[w] = 0
    /\ armed' = [armed EXCEPT ![w] = FALSE]
    /\ full' = [full EXCEPT ![w] = TRUE]
    /\ UNCHANGED <<callerVars, wpc, left, historyVars>>

Less(n) == IF n = 0 THEN 0 ELSE n - 1

\* Time passes.  Times beyond Delay are not told apart.
Tick ==
    /\ left' = [w \in Workers |-> IF armed[w] THEN Less(left[w]) ELSE left[w]]
    /\ quiet' = [w \in Workers |-> IF quiet[w] < Delay THEN quiet[w] + 1 ELSE quiet[w]]
    /\ UNCHANGED <<callerVars, wpc, armed, full, owed, fired, raced>>

Work(w) ==
    NewTimer(w) \/ Stop(w) \/ Drain(w) \/ Reset(w) \/ Fire(w) \/ Fired(w)

Next ==
    \/ \E p \in Callers : Call(p)
    \/ \E p \in Callers, w \in Workers : Make(p, w)
    \/ \E p \in Callers, w \in Workers : Receive(p, w)
    \/ \E w \in Workers : Work(w) \/ Expire(w)
    \/ Tick

Spec == Init /\ [][Next]_vars

\* Goroutines that can run do run, and the clock and the timers work.  No
\* caller is obliged to call.
Fairness ==
    /\ \A p \in Callers : WF_vars(\E w \in Workers : Make(p, w))
    /\ \A w \in Workers :
          WF_vars(Work(w)) /\ WF_vars(\E p \in Callers : Receive(p, w)) /\ WF_vars(Expire(w))
    /\ WF_vars(Tick)

FairSpec == Spec /\ Fairness

-----------------------------------------------------------------------------
\* A request that a worker accepted has not been answered by a firing: the
\* timer runs, its tick is on its way, or the worker is about to set it.
Waiting(w) ==
    armed[w] \/ full[w] \/ wpc[w] \in {"start", "stop", "drain", "reset"}

Deb == INSTANCE Debouncer WITH waiting <- [w \in Workers |-> Waiting(w)]

\* Debounces: each goroutine with its timer is a debouncer: it calls the
\* delayed trigger no sooner than Delay after the last request it accepted (a
\* tick of the timer as it was set before that request is never taken for the
\* new one, delay.go:84-90), and once for all the requests before that.
Debounces == Deb!Spec

\* RequestsFire: a request accepted by a worker that has not fired before
\* leads to a call of the delayed trigger, after this or a later request.
RequestsFire == \A w \in Workers : (wpc[w] # "off") ~> fired[w]

\* StuckOnlyAfterFiring: a worker waits for a tick that nothing will send
\* (delay.go:85) only if it has fired before.
StuckOnlyAfterFiring ==
    \A w \in Workers : (wpc[w] = "drain" /\ ~full[w]) => fired[w]

\* QuietOfAll: "delays the execution of another trigger for at least a
\* minimum amount of time after the most recent request" (delay.go:11-12),
\* whichever goroutine made that request; unless two first requests met
\* between the test and the assignment of dt.c (delay.go:112-114), which leaves
\* two timers running.
QuietOfAll ==
    [][\A w \in Workers : (~raced /\ wpc[w] # "fire" /\ wpc'[w] = "fire") =>
          \A v \in Workers : wpc[v] # "off" => quiet[v] = Delay]_vars

\* EveryRequestFires: after every request, not only the first ones, the
\* delayed trigger is called in the end, as "a screen saver, which will start
\* after a certain period has elapsed" (delay.go:13).
EveryRequestFires == \A w \in Workers : owed[w] ~> ~owed[w]

=============================================================================
