---------------------------- MODULE OnDemand_proofs ----------------------------
(***************************************************************************)
(* Theorems about OnDemand.  The monitor and the delay trigger in it are   *)
(* those of MinMonitor and DelayTrigger, so that what is proved of them    *)
(* holds of the system.                                                    *)
(***************************************************************************)
EXTENDS OnDemand, MinMonitor_proofs

DlyP == INSTANCE DelayTrigger_proofs WITH MaxCalls <- MaxRequests

\* A step of the system is a step of the monitor or none.
LEMMA MonitorStep == [SystemNext]_systemVars => [Next]_vars
<1> SUFFICES ASSUME [SystemNext]_systemVars, ~UNCHANGED vars PROVE Next
    OBVIOUS
<1>1. ASSUME NEW p \in Callers, NEW s \in Services, Request(p, s) PROVE Next
    BY <1>1 DEF Request, Next, Begin
<1>2. ASSUME NEW p \in Callers, Serve(p) PROVE Next
    <2>1. Step(p)
        BY <1>2 DEF Serve, Monitor, Delayed, MakeWorker, HandOver, OnUpReturns, PartRuns,
                    PartFails, CompoundReturns, Step
    <2> QED
        BY <2>1 DEF Next
<1>3. ASSUME NEW s \in Services, Environment(s) PROVE Next
    BY <1>3 DEF Environment, Next
<1>4. ASSUME Time PROVE Next
    BY <1>4 DEF Time, Next
<1> QED
    BY <1>1, <1>2, <1>3, <1>4 DEF SystemNext, Worker, systemVars

\* SystemIsMonitor: the system implements MinMonitor, whose triggers may take
\* any time and fail (minmonitor.go:434-497).
THEOREM SystemIsMonitor == SystemSpec => Spec
<1>1. SystemInit => Init
    BY DEF SystemInit
<1> QED
    BY <1>1, MonitorStep, PTL DEF SystemSpec, Spec

\* A step of the system is a step of the delay trigger or none.
LEMMA DelayStep == [SystemNext]_systemVars => [Dly!Next]_(Dly!vars)
<1> SUFFICES ASSUME [SystemNext]_systemVars, ~UNCHANGED Dly!vars PROVE Dly!Next
    OBVIOUS
<1>0. UNCHANGED delayVars => UNCHANGED Dly!vars
    BY DEF delayVars, Dly!vars, Dly!callerVars, Dly!timerVars, Dly!historyVars
<1>1. ASSUME NEW p \in Callers, Serve(p) PROVE Dly!Next
    BY <1>0, <1>1 DEF Serve, Monitor, Delayed, MakeWorker, HandOver, PartRuns, PartFails,
                      CompoundReturns, Dly!Next
<1>2. ASSUME NEW w \in Workers, Worker(w) PROVE Dly!Next
    BY <1>2 DEF Worker, Dly!Next
<1>3. ASSUME Time PROVE Dly!Next
    BY <1>3 DEF Time, Dly!Next
<1> QED
    BY <1>0, <1>1, <1>2, <1>3 DEF SystemNext, Request, Environment, systemVars

\* SystemDelays: the system implements DelayTrigger (delay.go:65-95).
THEOREM SystemDelays == SystemSpec => Dly!Spec
<1>1. SystemInit => Dly!Init
    BY DEF SystemInit
<1> QED
    BY <1>1, DelayStep, PTL DEF SystemSpec, Dly!Spec

\* The two instances of DelayTrigger are the same.
LEMMA SameDelay == Dly!Spec => DlyP!Spec
<1>1. Dly!Init => DlyP!Init
    BY DEF Dly!Init, DlyP!Init
<1>2. Dly!vars = DlyP!vars /\ Dly!vars' = DlyP!vars'
    BY DEF Dly!vars, DlyP!vars, Dly!callerVars, DlyP!callerVars, Dly!timerVars,
           DlyP!timerVars, Dly!historyVars, DlyP!historyVars
<1>3. ASSUME NEW w \in Workers, Dly!Work(w) \/ Dly!Expire(w) PROVE DlyP!Next
    <2>1. DlyP!Work(w) \/ DlyP!Expire(w)
        BY <1>3 DEF Dly!Work, Dly!NewTimer, Dly!Stop, Dly!Drain, Dly!Reset, Dly!Fire, Dly!Fired,
                    Dly!Expire, Dly!callerVars, Dly!historyVars,
                    DlyP!Work, DlyP!NewTimer, DlyP!Stop, DlyP!Drain, DlyP!Reset, DlyP!Fire,
                    DlyP!Fired, DlyP!Expire, DlyP!callerVars, DlyP!historyVars
    <2> QED
        BY <2>1 DEF DlyP!Next
<1>4. ASSUME NEW p \in Callers,
             Dly!Call(p) \/ \E w \in Workers : Dly!Make(p, w) \/ Dly!Receive(p, w)
      PROVE  DlyP!Next
    BY <1>4 DEF Dly!Call, Dly!Make, Dly!Receive, Dly!timerVars,
                DlyP!Next, DlyP!Call, DlyP!Make, DlyP!Receive, DlyP!timerVars
<1>5. ASSUME Dly!Tick PROVE DlyP!Next
    BY <1>5 DEF Dly!Tick, Dly!Less, Dly!callerVars,
                DlyP!Next, DlyP!Tick, DlyP!Less, DlyP!callerVars
<1>6. [Dly!Next]_(Dly!vars) => [DlyP!Next]_(DlyP!vars)
    BY <1>2, <1>3, <1>4, <1>5 DEF Dly!Next
<1> QED
    BY <1>1, <1>6, PTL DEF Dly!Spec, DlyP!Spec

-----------------------------------------------------------------------------
(***************************************************************************)
(* What follows for the system from the theorems about its parts.          *)
(***************************************************************************)
\* SystemNoCachedDown: nobody is told that the service is down unless it was,
\* during the request.
THEOREM SystemNoCachedDown == SystemSpec => []DownMeansDown
BY SystemIsMonitor, NoCachedDown, PTL

LEMMA SystemDelayTypes == SystemSpec => []Dly!TypeOK
<1>1. DlyP!Spec => []DlyP!TypeOK
    BY DlyP!TypeCorrect, SystemAssumption DEF SystemAssumption
<1>2. DlyP!TypeOK => Dly!TypeOK
    BY DEF Dly!TypeOK, DlyP!TypeOK
<1> QED
    BY <1>1, <1>2, SystemDelays, SameDelay, PTL

\* SystemStuckLater: in the service on demand, too, the goroutine of the delay
\* trigger comes to wait for a tick that nothing sends (delay.go:85) only after
\* it has run the command that stops the service.
THEOREM SystemStuckLater == SystemSpec => []Dly!StuckOnlyAfterFiring
<1>1. DlyP!Spec => []DlyP!StuckOnlyAfterFiring
    BY DlyP!StuckLater, SystemAssumption DEF SystemAssumption
<1>2. DlyP!StuckOnlyAfterFiring => Dly!StuckOnlyAfterFiring
    BY DEF DlyP!StuckOnlyAfterFiring, Dly!StuckOnlyAfterFiring
<1> QED
    BY <1>1, <1>2, SystemDelays, SameDelay, PTL

\* SystemDebounces: the delay trigger of the service on demand keeps the
\* promise of its comment (delay.go:11-12) among requests that come and go with
\* the monitor's steps between them: it is a debouncer.
THEOREM SystemDebounces == SystemSpec => Dly!Debounces
<1>1. DlyP!Spec => DlyP!Debounces
    BY DlyP!Debouncing, SystemAssumption DEF SystemAssumption
<1>2. DlyP!Debounces => Dly!Debounces
    <2> DEFINE Waits == [w \in Workers |-> Dly!Waiting(w)]
               WaitsP == [w \in Workers |-> DlyP!Waiting(w)]
    <2>1. Waits = WaitsP /\ Waits' = WaitsP'
        BY DEF Dly!Waiting, DlyP!Waiting
    <2>2. DlyP!Deb!Init => Dly!Deb!Init
        BY <2>1 DEF Dly!Deb!Init, DlyP!Deb!Init
    <2>3. [DlyP!Deb!Next]_<<quiet, WaitsP>> => [Dly!Deb!Next]_<<quiet, Waits>>
        BY <2>1 DEF Dly!Deb!Next, Dly!Deb!Tick, Dly!Deb!Request, Dly!Deb!Fire,
                    DlyP!Deb!Next, DlyP!Deb!Tick, DlyP!Deb!Request, DlyP!Deb!Fire
    <2> QED
        BY <2>2, <2>3, PTL DEF Dly!Debounces, DlyP!Debounces, Dly!Deb!Spec, DlyP!Deb!Spec
<1> QED
    BY <1>1, <1>2, SystemDelays, SameDelay, PTL

\* What QuietOfAll says of a step.
Fires(w) == ~raced /\ wpc[w] # "fire" /\ wpc'[w] = "fire"
AllQuiet == \A v \in Workers : wpc[v] # "off" => quiet[v] = Delay

LEMMA SystemQuiet == SystemSpec => [][\A w \in Workers : Fires(w) => AllQuiet]_delayVars
<1>1. DlyP!Spec => DlyP!QuietOfAll
    BY DlyP!QuietFirst, SystemAssumption DEF SystemAssumption
<1>2. [\A w \in Workers : (~raced /\ wpc[w] # "fire" /\ wpc'[w] = "fire") =>
          \A v \in Workers : wpc[v] # "off" => quiet[v] = Delay]_(DlyP!vars)
      => [\A w \in Workers : Fires(w) => AllQuiet]_delayVars
    BY DEF Fires, AllQuiet, delayVars, DlyP!vars, DlyP!callerVars, DlyP!timerVars,
           DlyP!historyVars
<1> QED
    BY <1>1, <1>2, SystemDelays, SameDelay, PTL DEF DlyP!QuietOfAll

-----------------------------------------------------------------------------
(***************************************************************************)
(* The cache and the delay.  A status is recorded up by requests that then *)
(* go through OnUp: StopInv says that while the service is held for up,    *)
(* one of them is still on its way there, or some worker has accepted a    *)
(* request since the status was recorded.  When the worker fires, all of   *)
(* them have been quiet for the delay, and the cache is as old.            *)
(***************************************************************************)
\* A request on its way to OnUp, if what it is about to record is up.
Holds(p, s) ==
    /\ svc[p] = s
    /\ pc[p] = "store" \/ (pc[p] \in {"always", "onup"} /\ AnsweredUp(p))

\* Some worker has accepted a request since the status of s was recorded.
Accepted(s) == \E w \in Workers : wpc[w] # "off" /\ lastChecked[s] + quiet[w] <= now

HeldUp(s) == up[s] => Accepted(s) \/ \E p \in Callers : Holds(p, s)

StopInv ==
    /\ TypeOK /\ Dly!TypeOK
    /\ wanted = [s \in Services |-> {"OnDown", "OnUp"}]
    /\ \A p \in Callers : pc[p] # "idle" => op[p] = "filter" /\ svc[p] \in Services
    /\ \A s \in Services : lastChecked[s] <= now
    /\ now < MaxTime => \A s \in Services : HeldUp(s)

\* What p's steps leave alone for q.
SameWay(q) == pc'[q] = pc[q] /\ op'[q] = op[q] /\ svc'[q] = svc[q] /\ probe'[q] = probe[q]

\* A step of a caller that leaves the delay trigger alone.
LEMMA StopFrame ==
    ASSUME StopInv, TypeOK', Dly!TypeOK', NEW p \in Callers,
           UNCHANGED <<wanted, now, wpc, quiet>>,
           \A q \in Callers \ {p} : SameWay(q),
           pc'[p] # "idle" => op'[p] = "filter" /\ svc'[p] \in Services,
           \A s \in Services : \/ HeldUp(s)' \/ now >= MaxTime
                               \/ /\ up'[s] = up[s] /\ (Holds(p, s) => Holds(p, s)')
                                  /\ lastChecked'[s] = lastChecked[s],
           \A s \in Services : lastChecked'[s] = lastChecked[s] \/ lastChecked'[s] = now
    PROVE  StopInv'
<1> USE DEF StopInv
<1>1. \A q \in Callers : pc'[q] # "idle" => op'[q] = "filter" /\ svc'[q] \in Services
    BY DEF SameWay
<1>2. now \in Nat
    BY MonitorAssumption DEF MonitorAssumption, TypeOK
<1>3. \A s \in Services : lastChecked'[s] <= now'
    BY <1>2
<1>4. ASSUME now' < MaxTime, NEW s \in Services PROVE HeldUp(s)'
    <2>1. now < MaxTime /\ HeldUp(s)
        BY <1>4
    <2>2. CASE up'[s] = up[s] /\ (Holds(p, s) => Holds(p, s)') /\ lastChecked'[s] = lastChecked[s]
        <3>1. \A q \in Callers : Holds(q, s) => Holds(q, s)'
            BY <2>2 DEF Holds, AnsweredUp, SameWay
        <3>2. Accepted(s) => Accepted(s)'
            BY <2>2 DEF Accepted
        <3> QED
            BY <2>1, <2>2, <3>1, <3>2 DEF HeldUp
    <2> QED
        BY <1>2, <1>4, <2>1, <2>2, MonitorAssumption DEF MonitorAssumption
<1> QED
    BY <1>1, <1>3, <1>4

\* The steps of FilterRequest besides OnUp, and OnDown.
LEMMA StopMonitor ==
    ASSUME StopInv, TypeOK', Dly!TypeOK', NEW p \in Callers,
           Monitor(p) \/ PartFails(p) \/ CompoundReturns(p)
    PROVE  StopInv'
<1> DEFINE s == svc[p]
<1> USE DEF StopInv
<1>1. UNCHANGED <<wanted, now, wpc, quiet>>
    BY DEF Monitor, PartFails, CompoundReturns, delayVars, ReadUp, ReadClock, ReadLast, Dial,
           Stamp, Store, Always, OnDown, RunTrigger, Proxy, NotReady, worldVars
<1>2. /\ pc[p] # "idle" /\ op[p] = "filter" /\ s \in Services
      /\ UNCHANGED <<op, svc>>
    BY DEF Monitor, PartFails, CompoundReturns, ReadUp, ReadClock, ReadLast, Dial, Stamp, Store,
           Always, OnDown, RunTrigger, Proxy, NotReady
<1>3. \A q \in Callers \ {p} : SameWay(q)
    <2> USE DEF TypeOK, SameWay, Goto, Return, Answer
    <2>1. CASE \/ ReadUp(p) \/ ReadClock(p) \/ ReadLast(p) \/ Stamp(p) \/ Store(p)
               \/ Proxy(p) \/ NotReady(p)
        BY <2>1 DEF ReadUp, ReadClock, ReadLast, Stamp, Store, Proxy, NotReady
    <2>2. CASE Dial(p)
        BY <2>2 DEF Dial
    <2>3. CASE Always(p) \/ OnDown(p)
        BY <2>3 DEF Always, OnDown, RunTrigger
    <2> QED
        BY <2>1, <2>2, <2>3 DEF Monitor, PartFails, CompoundReturns
<1>4. CASE \/ ReadUp(p) \/ ReadClock(p) \/ ReadLast(p) \/ Dial(p) \/ OnDown(p)
           \/ Proxy(p) \/ NotReady(p)
    <2>1. UNCHANGED <<up, lastChecked>>
        BY <1>4 DEF ReadUp, ReadClock, ReadLast, Dial, OnDown, RunTrigger, Proxy, NotReady,
                    serviceVars
    <2>2. pc[p] \notin {"store", "always", "onup"}
        BY <1>4 DEF ReadUp, ReadClock, ReadLast, Dial, OnDown, Proxy, NotReady
    <2>3. \A t \in Services : ~Holds(p, t)
        BY <2>2 DEF Holds
    <2> QED
        BY <1>1, <1>2, <1>3, <2>1, <2>3, StopFrame
<1>5. CASE Stamp(p)
    <2>1. /\ pc'[p] = "store" /\ up' = up
          /\ lastChecked' = [lastChecked EXCEPT ![s] = now]
        BY <1>5 DEF Stamp, Goto, TypeOK
    <2>2. Holds(p, s)'
        BY <1>2, <2>1 DEF Holds
    <2>3. HeldUp(s)'
        BY <2>2 DEF HeldUp
    <2>4. \A t \in Services \ {s} : up'[t] = up[t] /\ lastChecked'[t] = lastChecked[t] /\ ~Holds(p, t)
        BY <2>1 DEF Holds, TypeOK
    <2>5. \A t \in Services : lastChecked'[t] = lastChecked[t] \/ lastChecked'[t] = now
        BY <2>1 DEF TypeOK
    <2> QED
        BY <1>1, <1>2, <1>3, <2>3, <2>4, <2>5, StopFrame
<1>6. CASE Store(p)
    <2>1. /\ pc[p] = "store" /\ UNCHANGED <<lastChecked, probe>>
          /\ up' = [up EXCEPT ![s] = Good(p)]
        BY <1>6 DEF Store, historyVars
    <2>2. Good(p) => pc'[p] = "always" /\ probe[p] = "up"
        BY <1>2, <1>6 DEF Store, Good, Answer, Goto, Return, TypeOK
    <2>3. Good(p) => Holds(p, s)'
        BY <1>2, <2>1, <2>2 DEF Holds, AnsweredUp
    <2>4. up'[s] <=> Good(p)
        BY <1>2, <2>1 DEF TypeOK
    <2>5. HeldUp(s)'
        BY <1>2, <2>3, <2>4 DEF HeldUp
    <2>6. \A t \in Services \ {s} : up'[t] = up[t] /\ lastChecked'[t] = lastChecked[t] /\ ~Holds(p, t)
        BY <2>1 DEF Holds, TypeOK
    <2> QED
        BY <1>1, <1>2, <1>3, <2>1, <2>5, <2>6, StopFrame
<1>7. CASE Always(p)
    <2>1. Fields(s)["Always"] = None
        BY <1>2 DEF Fields, NewMinMonitorredService, UnmarshalJSON, Wanted
    <2>2. /\ pc[p] = "always" /\ UNCHANGED <<up, lastChecked, probe>>
          /\ pc'[p] = IF AnsweredUp(p) THEN "onup" ELSE "ondown"
        BY <1>7, <2>1 DEF Always, RunTrigger, Goto, serviceVars, TypeOK
    <2>3. \A t \in Services : Holds(p, t) => Holds(p, t)'
        BY <1>2, <2>2 DEF Holds, AnsweredUp
    <2> QED
        BY <1>1, <1>2, <1>3, <2>2, <2>3, StopFrame
<1> QED
    BY <1>4, <1>5, <1>6, <1>7 DEF Monitor, PartFails, CompoundReturns

\* A request is handed over to the delay trigger.
LEMMA StopHandOver ==
    ASSUME StopInv, TypeOK', Dly!TypeOK', NEW p \in Callers, NEW w \in Workers,
           MakeWorker(p, w) \/ HandOver(p, w)
    PROVE  StopInv'
<1> DEFINE s == svc[p]
<1> USE DEF StopInv
<1>1. /\ UNCHANGED <<wanted, now, up, lastChecked, op, svc, probe>>
      /\ pc[p] = "onup" /\ pc'[p] = "proxy"
      /\ \A q \in Callers \ {p} : SameWay(q)
    BY DEF MakeWorker, HandOver, OnUpReturns, OnUp, RunTrigger, Goto, Return, worldVars,
           serviceVars, SameWay, TypeOK
<1>2. /\ wpc'[w] # "off" /\ quiet'[w] = 0
      /\ \A v \in Workers \ {w} : wpc'[v] = wpc[v] /\ quiet'[v] = quiet[v]
    BY DEF MakeWorker, HandOver, Dly!Make, Dly!Receive, Dly!TypeOK
<1>3. \A q \in Callers : pc'[q] # "idle" => op'[q] = "filter" /\ svc'[q] \in Services
    BY <1>1 DEF SameWay
<1>4. ASSUME NEW t \in Services PROVE Accepted(t)'
    <2>1. lastChecked[t] \in Nat /\ lastChecked[t] <= now
        BY MonitorAssumption DEF MonitorAssumption, TypeOK
    <2>2. lastChecked'[t] + quiet'[w] <= now'
        BY <1>1, <1>2, <2>1
    <2> QED
        BY <1>2, <2>2 DEF Accepted
<1> QED
    BY <1>1, <1>3, <1>4 DEF HeldUp

\* Every step.
LEMMA StopStep ==
    ASSUME StopInv, TypeOK', Dly!TypeOK', [SystemNext]_systemVars
    PROVE  StopInv'
<1> USE DEF StopInv
<1>1. ASSUME UNCHANGED <<wanted, now, up, lastChecked, pc, op, svc, probe, quiet>>,
             \A w \in Workers : wpc[w] # "off" => wpc'[w] # "off"
      PROVE  StopInv'
    <2>1. ASSUME NEW s \in Services, HeldUp(s) PROVE HeldUp(s)'
        BY <1>1, <2>1 DEF HeldUp, Accepted, Holds, AnsweredUp
    <2> QED
        BY <1>1, <2>1
<1>2. ASSUME NEW p \in Callers, NEW s \in Services, Request(p, s) PROVE StopInv'
    <2>1. /\ UNCHANGED <<wanted, now, wpc, quiet, up, lastChecked>>
          /\ pc[p] = "idle" /\ pc'[p] = "up" /\ op'[p] = "filter" /\ svc'[p] = s
          /\ \A q \in Callers \ {p} : SameWay(q)
        BY <1>2 DEF Request, FilterRequest, Start, Enter, Entry, delayVars, worldVars, SameWay,
                    TypeOK
    <2>2. \A t \in Services : ~Holds(p, t)
        BY <2>1 DEF Holds
    <2> QED
        BY <2>1, <2>2, StopFrame
<1>3. ASSUME NEW p \in Callers, Serve(p) PROVE StopInv'
    <2>1. CASE Delayed(p) \/ PartRuns(p)
        <3>1. UNCHANGED <<vars, wpc, quiet>>
            BY <2>1 DEF Delayed, PartRuns, Dly!Call, delayVars
        <3> QED
            BY <1>1, <3>1 DEF vars, serviceVars, worldVars, callerVars
    <2> QED
        BY <1>3, <2>1, StopMonitor, StopHandOver DEF Serve
<1>4. ASSUME NEW w \in Workers, Worker(w) PROVE StopInv'
    <2>1. UNCHANGED <<quiet, vars>> /\ \A v \in Workers : wpc[v] # "off" => wpc'[v] # "off"
        BY <1>4 DEF Worker, Dly!Work, Dly!NewTimer, Dly!Stop, Dly!Drain, Dly!Reset, Dly!Fire,
                    Dly!Fired, Dly!Expire, Dly!historyVars, Dly!TypeOK
    <2> QED
        BY <1>1, <2>1 DEF vars, serviceVars, worldVars, callerVars
<1>5. ASSUME NEW s \in Services, Environment(s) PROVE StopInv'
    BY <1>1, <1>5 DEF Environment, Fail, Recover, serviceVars, callerVars, delayVars
<1>6. ASSUME Time PROVE StopInv'
    <2>1. /\ UNCHANGED <<wanted, up, lastChecked, pc, op, svc, probe, wpc>>
          /\ now' = now + 1 \/ (now = MaxTime /\ now' = now)
        BY <1>6 DEF Time, Tick, Dly!Tick, vars, serviceVars, worldVars, callerVars
    <2>2. \A w \in Workers : quiet'[w] = IF quiet[w] < Delay THEN quiet[w] + 1 ELSE quiet[w]
        BY <1>6 DEF Time, Dly!Tick
    <2>3. now \in Nat /\ MaxTime \in Nat /\ \A s \in Services : lastChecked[s] \in Nat
        BY MonitorAssumption DEF MonitorAssumption, TypeOK
    <2>4. \A w \in Workers : quiet[w] \in Nat
        BY SystemAssumption DEF SystemAssumption, Dly!TypeOK
    <2>5. \A s \in Services : lastChecked'[s] <= now'
        BY <2>1, <2>3
    <2>6. ASSUME now' < MaxTime, NEW s \in Services PROVE HeldUp(s)'
        <3>1. now' = now + 1 /\ HeldUp(s)
            BY <2>1, <2>3, <2>6
        <3>2. ASSUME Accepted(s) PROVE Accepted(s)'
            <4>1. PICK w \in Workers : wpc[w] # "off" /\ lastChecked[s] + quiet[w] <= now
                BY <3>2 DEF Accepted
            <4>2. quiet'[w] \in Nat /\ quiet'[w] <= quiet[w] + 1
                BY <2>2, <2>4
            <4>3. lastChecked'[s] + quiet'[w] <= now'
                BY <2>1, <2>3, <2>4, <3>1, <4>1, <4>2
            <4> QED
                BY <2>1, <4>1, <4>3 DEF Accepted
        <3>3. \A p \in Callers : Holds(p, s) => Holds(p, s)'
            BY <2>1 DEF Holds, AnsweredUp
        <3> QED
            BY <2>1, <3>1, <3>2, <3>3 DEF HeldUp
    <2> QED
        BY <2>1, <2>5, <2>6
<1>7. ASSUME UNCHANGED systemVars PROVE StopInv'
    BY <1>1, <1>7 DEF systemVars, vars, serviceVars, worldVars, callerVars, delayVars
<1> QED
    BY <1>2, <1>3, <1>4, <1>5, <1>6, <1>7 DEF SystemNext

LEMMA SystemStop == SystemSpec => []StopInv
<1>1. SystemInit => StopInv
    <2>1. Init => TypeOK
        BY MonitorAssumption DEF MonitorAssumption, Init, TypeOK
    <2>2. DlyP!Init => DlyP!TypeOK
        BY DlyP!TypeInit, SystemAssumption DEF SystemAssumption
    <2>3. Dly!Init => Dly!TypeOK
        BY <2>2 DEF Dly!Init, DlyP!Init, Dly!TypeOK, DlyP!TypeOK
    <2> QED
        BY <2>1, <2>3 DEF SystemInit, Init, StopInv, HeldUp
<1>2. StopInv /\ TypeOK' /\ Dly!TypeOK' /\ [SystemNext]_systemVars => StopInv'
    BY StopStep
<1>3. SystemSpec => []TypeOK
    BY SystemIsMonitor, TypeCorrect, PTL
<1> QED
    BY <1>1, <1>2, <1>3, SystemDelayTypes, PTL DEF SystemSpec

\* StopNoticed: when the command that stops the service is run, the cache no
\* longer says that it is up, unless a request is on its way through OnUp; for
\* every number of callers, services and workers, and all periods and delays.
THEOREM StopNoticed == SystemSpec => StopIsNoticed
<1>1. StopInv /\ [SystemNext]_systemVars
          /\ [\A w \in Workers : Fires(w) => AllQuiet]_delayVars
      => [\A w \in Workers :
            (/\ wpc[w] # "fire" /\ wpc'[w] = "fire"
             /\ GracePeriod < Delay /\ ~raced /\ now < MaxTime)
            => \A s \in Services : CachedUp(s) => \E p \in Callers : OnItsWay(p, s)]_systemVars
    <2> SUFFICES ASSUME StopInv, [\A w \in Workers : Fires(w) => AllQuiet]_delayVars,
                        NEW w \in Workers, Fires(w), GracePeriod < Delay, now < MaxTime,
                        NEW s \in Services, CachedUp(s)
                 PROVE  \E p \in Callers : OnItsWay(p, s)
        BY DEF Fires
    <2>1. AllQuiet
        BY DEF Fires, delayVars
    <2>2. ~Accepted(s)
        <3>1. now \in Nat /\ GracePeriod \in Nat /\ lastChecked[s] \in Nat /\ Delay \in Nat
            BY MonitorAssumption, SystemAssumption
               DEF MonitorAssumption, SystemAssumption, StopInv, TypeOK
        <3>2. now <= lastChecked[s] + GracePeriod
            BY <3>1 DEF CachedUp, Lapsed
        <3>3. \A v \in Workers : wpc[v] # "off" => quiet[v] = Delay
            BY <2>1 DEF AllQuiet
        <3> QED
            BY <3>1, <3>2, <3>3 DEF Accepted
    <2>3. HeldUp(s) /\ up[s]
        BY DEF StopInv, CachedUp
    <2> QED
        BY <2>2, <2>3 DEF HeldUp, Holds, OnItsWay
<1> QED
    BY <1>1, SystemStop, SystemQuiet, PTL DEF SystemSpec, StopIsNoticed

-----------------------------------------------------------------------------
(***************************************************************************)
(* The compound trigger: while the loop runs, the parts that it is past    *)
(* have run without an error, all of them when it is through.              *)
(***************************************************************************)
PartsSoFar(p) ==
    /\ pc[p] \notin {"idle", "ondown", "notready"} => part[p] = 0 /\ done[p] = {}
    /\ pc[p] = "ondown" => done[p] = 1..part[p]
    /\ pc[p] = "notready" => done[p] = 1..Parts
    /\ pc[p] = "idle" /\ res[p] = "503" => done[p] = 1..Parts

PartsInv ==
    /\ TypeOK
    /\ part \in [Callers -> 0..Parts] /\ done \in [Callers -> SUBSET (1..Parts)]
    /\ \A p \in Callers : PartsSoFar(p)

\* A step of one caller that leaves the others alone.
LEMMA PartsFrame ==
    ASSUME PartsInv, TypeOK', NEW p \in Callers, PartsSoFar(p)',
           part' \in [Callers -> 0..Parts], done' \in [Callers -> SUBSET (1..Parts)],
           \A q \in Callers \ {p} : /\ pc'[q] = pc[q] /\ res'[q] = res[q]
                                    /\ part'[q] = part[q] /\ done'[q] = done[q]
    PROVE  PartsInv'
<1>1. ASSUME NEW q \in Callers, q # p PROVE PartsSoFar(q)'
    BY <1>1 DEF PartsInv, PartsSoFar
<1> QED
    BY <1>1 DEF PartsInv

\* The steps of FilterRequest besides OnUp and OnDown.
LEMMA PartsMonitor ==
    ASSUME PartsInv, TypeOK', NEW p \in Callers, Monitor(p)
    PROVE  PartsInv'
<1> USE DEF PartsInv, TypeOK, Goto, Return
<1>1. UNCHANGED <<part, done>>
    BY DEF Monitor, compoundVars
<1>2. \A q \in Callers \ {p} : pc'[q] = pc[q] /\ res'[q] = res[q]
    BY DEF Monitor, ReadUp, ReadClock, ReadLast, Dial, Stamp, Store, Always, RunTrigger,
           Answer, Proxy, NotReady
<1>3. PartsSoFar(p)'
    <2>1. CASE ReadUp(p) \/ ReadClock(p) \/ Dial(p) \/ Stamp(p)
        BY <1>1, <2>1 DEF ReadUp, ReadClock, Dial, Stamp, PartsSoFar
    <2>2. CASE ReadLast(p) \/ Store(p)
        <3>1. /\ pc[p] \in {"last", "store"}
              /\ pc'[p] \in {"dial", "always"} \/ (pc'[p] = "idle" /\ res'[p] # "503")
            BY <2>2 DEF ReadLast, Store, Answer
        <3> QED
            BY <1>1, <3>1 DEF PartsSoFar
    <2>3. CASE Always(p)
        <3>1. /\ pc[p] = "always"
              /\ pc'[p] \in {"onup", "ondown"} \/ (pc'[p] = "idle" /\ res'[p] # "503")
            BY <2>3 DEF Always, RunTrigger
        <3>2. part'[p] = 0 /\ done'[p] = {}
            BY <1>1, <3>1 DEF PartsSoFar
        <3>3. done'[p] = 1..part'[p]
            BY <3>2
        <3> QED
            BY <3>1, <3>2, <3>3, Zenon DEF PartsSoFar
    <2>4. CASE Proxy(p)
        BY <1>1, <2>4 DEF Proxy, PartsSoFar
    <2>5. CASE NotReady(p)
        BY <1>1, <2>5 DEF NotReady, PartsSoFar
    <2> QED
        BY <2>1, <2>2, <2>3, <2>4, <2>5 DEF Monitor
<1> QED
    BY <1>1, <1>2, <1>3, PartsFrame

\* OnDown: the compound trigger.
LEMMA PartsOnDown ==
    ASSUME PartsInv, TypeOK', NEW p \in Callers,
           PartRuns(p) \/ PartFails(p) \/ CompoundReturns(p)
    PROVE  PartsInv'
<1> USE SystemAssumption DEF SystemAssumption, PartsInv, TypeOK
<1>1. CASE PartRuns(p)
    <2>1. /\ pc[p] = "ondown" /\ part[p] < Parts /\ UNCHANGED <<pc, res>>
          /\ part' = [part EXCEPT ![p] = @ + 1]
          /\ done' = [done EXCEPT ![p] = @ \cup {part[p] + 1}]
        BY <1>1 DEF PartRuns, vars, callerVars
    <2>2. done[p] = 1..part[p] /\ part[p] \in 0..Parts
        BY <2>1 DEF PartsSoFar
    <2>3. 1..part[p] \cup {part[p] + 1} = 1..(part[p] + 1) /\ part[p] + 1 \in 0..Parts
        BY <2>1, <2>2
    <2>4. part'[p] = part[p] + 1 /\ done'[p] = 1..(part[p] + 1)
        BY <2>1, <2>2, <2>3
    <2>5. 1..(part[p] + 1) \in SUBSET (1..Parts)
        BY <2>3
    <2>6. part' \in [Callers -> 0..Parts] /\ done' \in [Callers -> SUBSET (1..Parts)]
        BY <2>1, <2>2, <2>3, <2>5
    <2>7. PartsSoFar(p)'
        BY <2>1, <2>4 DEF PartsSoFar
    <2> QED
        BY <2>1, <2>6, <2>7, PartsFrame
<1>2. CASE PartFails(p)
    <2>1. /\ UNCHANGED <<part, done>> /\ pc'[p] = "idle" /\ res'[p] # "503"
          /\ \A q \in Callers \ {p} : pc'[q] = pc[q] /\ res'[q] = res[q]
        BY <1>2 DEF PartFails, OnDown, RunTrigger, Goto, Return, compoundVars
    <2> QED
        BY <2>1, PartsFrame DEF PartsSoFar
<1>3. CASE CompoundReturns(p)
    <2>1. /\ UNCHANGED <<part, done>> /\ pc[p] = "ondown" /\ pc'[p] = "notready"
          /\ part[p] = Parts
          /\ \A q \in Callers \ {p} : pc'[q] = pc[q] /\ res'[q] = res[q]
        BY <1>3 DEF CompoundReturns, OnDown, RunTrigger, Goto, Return, compoundVars
    <2> QED
        BY <2>1, PartsFrame DEF PartsSoFar
<1> QED
    BY <1>1, <1>2, <1>3

\* The other steps.
LEMMA PartsOther ==
    ASSUME PartsInv, TypeOK', [SystemNext]_systemVars,
           ~(\E p \in Callers : \/ Monitor(p) \/ PartRuns(p) \/ PartFails(p)
                                \/ CompoundReturns(p))
    PROVE  PartsInv'
<1> USE SystemAssumption DEF SystemAssumption, PartsInv, TypeOK
<1>1. ASSUME UNCHANGED <<pc, res, part, done>> PROVE PartsInv'
    BY <1>1 DEF PartsSoFar
<1>2. ASSUME NEW p \in Callers, NEW s \in Services, Request(p, s) PROVE PartsInv'
    <2>1. /\ pc'[p] = "up" /\ part'[p] = 0 /\ done'[p] = {}
          /\ part' \in [Callers -> 0..Parts] /\ done' \in [Callers -> SUBSET (1..Parts)]
          /\ \A q \in Callers \ {p} : /\ pc'[q] = pc[q] /\ res'[q] = res[q]
                                      /\ part'[q] = part[q] /\ done'[q] = done[q]
        BY <1>2 DEF Request, FilterRequest, Start, Enter, Entry
    <2> QED
        BY <2>1, PartsFrame DEF PartsSoFar
<1>3. ASSUME NEW p \in Callers, NEW w \in Workers, MakeWorker(p, w) \/ HandOver(p, w)
      PROVE  PartsInv'
    <2>1. /\ UNCHANGED <<part, done>> /\ pc[p] = "onup" /\ pc'[p] = "proxy"
          /\ \A q \in Callers \ {p} : pc'[q] = pc[q] /\ res'[q] = res[q]
        BY <1>3 DEF MakeWorker, HandOver, OnUpReturns, OnUp, RunTrigger, Goto, Return,
                    compoundVars
    <2> QED
        BY <2>1, PartsFrame DEF PartsSoFar
<1>4. ASSUME NEW p \in Callers, Delayed(p) PROVE PartsInv'
    BY <1>1, <1>4 DEF Delayed, vars, callerVars, compoundVars
<1>5. ASSUME (\E w \in Workers : Worker(w)) \/ (\E s \in Services : Environment(s)) \/ Time
      PROVE  PartsInv'
    BY <1>1, <1>5 DEF Worker, Environment, Time, Fail, Recover, Tick, vars, callerVars,
                      compoundVars
<1>6. ASSUME UNCHANGED systemVars PROVE PartsInv'
    BY <1>1, <1>6 DEF systemVars, vars, callerVars, compoundVars
<1> QED
    BY <1>2, <1>3, <1>4, <1>5, <1>6 DEF SystemNext, Serve

LEMMA SystemParts == SystemSpec => []PartsInv
<1>1. SystemInit => PartsInv
    <2>1. Init => TypeOK
        BY MonitorAssumption DEF MonitorAssumption, Init, TypeOK
    <2> QED
        BY <2>1, SystemAssumption
           DEF SystemInit, Init, PartsInv, PartsSoFar, SystemAssumption
<1>2. PartsInv /\ TypeOK' /\ [SystemNext]_systemVars => PartsInv'
    BY PartsMonitor, PartsOnDown, PartsOther
<1>3. SystemSpec => []TypeOK
    BY SystemIsMonitor, TypeCorrect, PTL
<1> QED
    BY <1>1, <1>2, <1>3, PTL DEF SystemSpec

\* SystemAllPartsRan: the page that says that the service has been started goes
\* out only after every part of the compound trigger ran without an error, for
\* every number of callers, services and parts.
THEOREM SystemAllPartsRan == SystemSpec => []AllPartsRan
<1>1. PartsInv => AllPartsRan
    BY DEF PartsInv, PartsSoFar, AllPartsRan, FilterDone
<1> QED
    BY <1>1, SystemParts, PTL

\* SystemTypes: the variables of the system keep their types: those of the
\* monitor and the delay trigger because it implements them, and the loop of the
\* compound trigger never leaves its list.
THEOREM SystemTypes == SystemSpec => []SystemTypeOK
<1>1. PartsInv /\ Dly!TypeOK => SystemTypeOK
    BY DEF PartsInv, SystemTypeOK
<1> QED
    BY <1>1, SystemParts, SystemDelayTypes, PTL

=============================================================================
