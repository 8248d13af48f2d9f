------------------------------- MODULE OnDemand -------------------------------
(***************************************************************************)
(* A service on demand, what pullcord is for: a MinMonitorredService whose *)
(* OnUp is a DelayTrigger, which will stop the service, and whose OnDown   *)
(* is a CompoundTrigger, which starts it.  The handlers of MinMonitor are  *)
(* external there; here those two are the real ones:                       *)
(*                                                                         *)
(*   request -> FilterRequest of monitor/minmonitor.go                     *)
(*      up:   OnUp.Trigger()    DelayTrigger, in the goroutine of the      *)
(*                              request, which waits for the timer's one   *)
(*      down: OnDown.Trigger()  CompoundTrigger, which calls its parts     *)
(*                                                                         *)
(* The commands (the parts, the delayed trigger) are external: they take   *)
(* any time, and what they do to the service is Fail or Recover, some time *)
(* after or never.                                                         *)
(***************************************************************************)
EXTENDS MinMonitor, Sequences

CONSTANTS
    Workers,      \* goroutines of the DelayTrigger
    Delay,        \* DelayTrigger.Delay
    MaxRequests,  \* bound: requests of a caller that find the service up ...
    Once,         \* ... and the callers that have only one
    Parts         \* how many triggers CompoundTrigger.Triggers has

ASSUME SystemAssumption ==
    /\ Delay \in Nat /\ MaxRequests \in Nat /\ Parts \in Nat
    /\ None \notin Workers

VARIABLES
    c, cpc, target, calls, wpc, armed, left, full,   \* the DelayTrigger
    quiet, owed, fired, raced,                       \* and its histories
    part,    \* how many parts the loop of CompoundTrigger.Trigger() is past
    done     \* history: the parts that ran without error, in each request

Dly == INSTANCE DelayTrigger WITH MaxCalls <- MaxRequests

delayVars == <<c, cpc, target, calls, wpc, armed, left, full, quiet, owed, fired, raced>>
compoundVars == <<part, done>>
systemVars == <<vars, delayVars, compoundVars>>

SystemTypeOK ==
    /\ TypeOK
    /\ Dly!TypeOK
    /\ part \in [Callers -> 0..Parts]
    /\ done \in [Callers -> SUBSET (1..Parts)]

\* The service and its triggers are put together by a program, with the
\* constructor: from a configuration, the service has no filter to forward a
\* request with (minmonitor.go:57-138) and the compound trigger starts with nil
\* entries, which it calls first (compound.go:35).
SystemInit ==
    /\ Init /\ wanted = [s \in Services |-> {"OnDown", "OnUp"}]
    /\ built = [s \in Services |-> "constructor"]
    /\ Dly!Init
    /\ part = [p \in Callers |-> 0]
    /\ done = [p \in Callers |-> {}]

-----------------------------------------------------------------------------
\* A request arrives.
Request(p, s) ==
    /\ calls[p] < IF p \in Once THEN 1 ELSE MaxRequests
    /\ FilterRequest(p, s)
    /\ part' = [part EXCEPT ![p] = 0]
    /\ done' = [done EXCEPT ![p] = {}]
    /\ UNCHANGED delayVars

\* What FilterRequest does besides OnUp and OnDown.
Monitor(p) ==
    /\ \/ ReadUp(p) \/ ReadClock(p) \/ ReadLast(p) \/ Dial(p) \/ Stamp(p) \/ Store(p)
       \/ Always(p) \/ Proxy(p) \/ NotReady(p)
    /\ UNCHANGED <<delayVars, compoundVars>>

\* OnUp.Trigger(): DelayTrigger.Trigger() is entered ...
Delayed(p) ==
    /\ pc[p] = "onup" /\ Dly!Call(p)
    /\ UNCHANGED <<vars, compoundVars>>

\* ... and returns, always without an error.
OnUpReturns(p) ==
    /\ OnUp(p) /\ pc'[p] = "proxy"
    /\ UNCHANGED compoundVars

MakeWorker(p, w) == Dly!Make(p, w) /\ OnUpReturns(p)
HandOver(p, w) == Dly!Receive(p, w) /\ OnUpReturns(p)

\* OnDown.Trigger(), the loop of CompoundTrigger.Trigger(): a part runs ...
PartRuns(p) ==
    /\ pc[p] = "ondown" /\ part[p] < Parts
    /\ part' = [part EXCEPT ![p] = @ + 1]
    /\ done' = [done EXCEPT ![p] = @ \cup {part[p] + 1}]
    /\ UNCHANGED <<vars, delayVars>>

\* Variant for a mutation check: an error does not end the loop.
PartFailsGoesOn(p) ==
    /\ pc[p] = "ondown" /\ part[p] < Parts
    /\ part' = [part EXCEPT ![p] = @ + 1]
    /\ UNCHANGED <<vars, delayVars, done>>

\* ... or fails, which ends the loop with its error ...
PartFails(p) ==
    /\ part[p] < Parts
    /\ OnDown(p) /\ pc'[p] = "idle"
    /\ UNCHANGED <<delayVars, compoundVars>>

\* ... and the loop is through.
CompoundReturns(p) ==
    /\ part[p] = Parts
    /\ OnDown(p) /\ pc'[p] = "notready"
    /\ UNCHANGED <<delayVars, compoundVars>>

\* The goroutine of the DelayTrigger and its timer.
Worker(w) ==
    /\ Dly!Work(w) \/ Dly!Expire(w)
    /\ UNCHANGED <<vars, compoundVars>>

\* One time for all.  The monitor's clock stops at its bound, later times are
\* not told apart.
Time ==
    /\ Dly!Tick
    /\ Tick \/ (now = MaxTime /\ UNCHANGED vars)
    /\ UNCHANGED compoundVars

Environment(s) ==
    /\ Fail(s) \/ Recover(s)
    /\ UNCHANGED <<delayVars, compoundVars>>

Serve(p) ==
    \/ Monitor(p)
    \/ Delayed(p) \/ \E w \in Workers : MakeWorker(p, w) \/ HandOver(p, w)
    \/ PartRuns(p) \/ PartFails(p) \/ CompoundReturns(p)

SystemNext ==
    \/ \E p \in Callers : (\E s \in Services : Request(p, s)) \/ Serve(p)
    \/ \E w \in Workers : Worker(w)
    \/ \E s \in Services : Environment(s)
    \/ Time

SystemSpec == SystemInit /\ [][SystemNext]_systemVars

\* Goroutines that can run do run, commands and connections end, the clock and
\* the timers work.  No request has to come.
SystemFairSpec ==
    /\ SystemSpec
    /\ \A p \in Callers : WF_systemVars(Serve(p))
    /\ \A w \in Workers : WF_systemVars(Worker(w))
    /\ WF_systemVars(Time)

-----------------------------------------------------------------------------
\* AllPartsRan: the page that says that "any trigger to start the service has
\* been started successfully" (minmonitor.go:565-566) goes out only after each
\* part of the compound trigger ran without an error during that very request
\* (compound.go:60-67).
AllPartsRan ==
    \A p \in Callers : (FilterDone(p) /\ res[p] = "503") => done[p] = 1..Parts

\* A request that is about to record a status, or has its answer, and is not yet
\* through OnUp.
OnItsWay(p, s) == pc[p] \in {"store", "always", "onup"} /\ svc[p] = s

\* A request that comes now would be answered up from the cache.
CachedUp(s) == up[s] /\ ~Lapsed(lastChecked[s], now)

\* StopIsNoticed: when the command that stops the service is run, the monitor no
\* longer has the service cached as up, so that the next request probes it and
\* has it started again (minmonitor.go:329-345, 434-497), rather than being
\* forwarded to a service that is being stopped; if the grace period is shorter
\* than the delay, as nothing in the code sees to.  Only a request that is on
\* its way between its answer and the hand-over to the delay trigger (delay.go:
\* 112-120) can have renewed the cache since; two first requests that raced
\* are excepted, and the time at which the model's clock stops.
StopIsNoticed ==
    [][\A w \in Workers :
          (/\ wpc[w] # "fire" /\ wpc'[w] = "fire"
           /\ GracePeriod < Delay /\ ~raced /\ now < MaxTime)
          => \A s \in Services : CachedUp(s) => \E p \in Callers : OnItsWay(p, s)]_systemVars

\* A worker waits for a tick that nothing will send.
Hung(w) == wpc[w] = "drain" /\ fired[w]

\* Answered: every request is answered, although it may wait for a command, a
\* timer or the goroutine of the delay trigger; until a worker hangs, which it
\* does only after it has run its command (delay.go:84-94).
Answered ==
    \A p \in Callers : (pc[p] # "idle") ~> (pc[p] = "idle" \/ \E w \in Workers : Hung(w))

=============================================================================
