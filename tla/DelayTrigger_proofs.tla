------------------------- MODULE DelayTrigger_proofs -------------------------
(***************************************************************************)
(* Theorems about DelayTrigger.                                            *)
(***************************************************************************)
EXTENDS DelayTrigger, TLAPS

\* The initial state has the types.
LEMMA TypeInit == Init => TypeOK
<1> SUFFICES ASSUME Init PROVE TypeOK
    OBVIOUS
<1>1. 0 \in 0..Delay /\ 0 \in 0..MaxCalls
    BY DelayAssumption DEF DelayAssumption
<1> QED
    BY <1>1 DEF Init, TypeOK

\* Every step keeps the types.
LEMMA TypeStep == TypeOK /\ [Next]_vars => TypeOK'
<1> SUFFICES ASSUME TypeOK, [Next]_vars PROVE TypeOK'
    OBVIOUS
<1> USE DelayAssumption DEF DelayAssumption, TypeOK
<1>1. ASSUME NEW p \in Callers, Call(p) PROVE TypeOK'
    BY <1>1 DEF Call, timerVars, historyVars
<1>2. ASSUME NEW p \in Callers, NEW w \in Workers, Make(p, w) PROVE TypeOK'
    BY <1>2 DEF Make, timerVars
<1>3. ASSUME NEW p \in Callers, NEW w \in Workers, Receive(p, w) PROVE TypeOK'
    BY <1>3 DEF Receive, timerVars
<1>4. ASSUME NEW w \in Workers, Work(w) \/ Expire(w) PROVE TypeOK'
    <2>0. Delay \in 0..Delay
        OBVIOUS
    <2>1. CASE NewTimer(w) \/ Reset(w)
        <3>1. left' = [left EXCEPT ![w] = Delay] /\ armed' = [armed EXCEPT ![w] = TRUE]
            BY <2>1 DEF NewTimer, Reset
        <3>2. left' \in [Workers -> 0..Delay] /\ armed' \in [Workers -> BOOLEAN]
            BY <2>0, <3>1
        <3> QED
            BY <2>1, <3>2 DEF NewTimer, Reset, callerVars, historyVars
    <2>2. CASE Stop(w) \/ Drain(w)
        BY <2>2 DEF Stop, Drain, callerVars, historyVars
    <2>3. CASE Fire(w) \/ Fired(w)
        BY <2>3 DEF Fire, Fired, callerVars, historyVars
    <2>4. CASE Expire(w)
        BY <2>4 DEF Expire, callerVars, historyVars
    <2> QED
        BY <1>4, <2>1, <2>2, <2>3, <2>4 DEF Work
<1>5. ASSUME Tick PROVE TypeOK'
    BY <1>5 DEF Tick, Less, callerVars
<1>6. ASSUME UNCHANGED vars PROVE TypeOK'
    BY <1>6 DEF vars, callerVars, timerVars, historyVars
<1> QED
    BY <1>1, <1>2, <1>3, <1>4, <1>5, <1>6 DEF Next

\* TypeCorrect: every variable keeps its type, for every number of callers
\* and workers and every delay.
THEOREM TypeCorrect == Spec => []TypeOK
BY TypeInit, TypeStep, PTL DEF Spec

-----------------------------------------------------------------------------
(***************************************************************************)
(* The timer.  While a worker waits in its select, what its timer has left *)
(* and the quiet time behind it add up to the delay; and when it restarts  *)
(* the timer, no tick of the old setting is left in the channel.           *)
(***************************************************************************)
\* One tick at most: the timer runs, or its tick waits, or neither.
OneTick(w) ==
    /\ ~(armed[w] /\ full[w])
    /\ wpc[w] \in {"off", "start", "reset", "fire"} => ~armed[w] /\ ~full[w]
    /\ wpc[w] = "drain" => ~armed[w]

\* The timer of a waiting worker was set at or after its last request.
OnTime(w) ==
    wpc[w] = "select" =>
        /\ armed[w] => quiet[w] + left[w] >= Delay
        /\ full[w] => quiet[w] = Delay

TimerInv == TypeOK /\ \A w \in Workers : OneTick(w) /\ OnTime(w)

\* The initial state satisfies the timer invariant.
LEMMA TimerInit == Init => TimerInv
BY TypeInit DEF Init, TimerInv, OneTick, OnTime

\* Every step keeps the timer invariant.
LEMMA TimerStep == TimerInv /\ [Next]_vars => TimerInv'
<1> SUFFICES ASSUME TimerInv, [Next]_vars,
                    NEW v \in Workers
             PROVE  OneTick(v)' /\ OnTime(v)'
    BY TypeStep DEF TimerInv
<1>0. OneTick(v) /\ OnTime(v) /\ TypeOK
    BY DEF TimerInv
<1> USE <1>0, DelayAssumption DEF DelayAssumption, TypeOK, OneTick, OnTime
<1>1. ASSUME NEW p \in Callers, Call(p)
      PROVE  OneTick(v)' /\ OnTime(v)'
    BY <1>1 DEF Call, timerVars, historyVars
<1>2. ASSUME NEW p \in Callers, NEW w \in Workers, Make(p, w)
      PROVE  OneTick(v)' /\ OnTime(v)'
    BY <1>2 DEF Make, timerVars
<1>3. ASSUME NEW p \in Callers, NEW w \in Workers, Receive(p, w)
      PROVE  OneTick(v)' /\ OnTime(v)'
    BY <1>3 DEF Receive, timerVars
<1>4. ASSUME NEW w \in Workers, NewTimer(w) \/ Reset(w)
      PROVE  OneTick(v)' /\ OnTime(v)'
    BY <1>4 DEF NewTimer, Reset, callerVars, historyVars
<1>5. ASSUME NEW w \in Workers, Stop(w)
      PROVE  OneTick(v)' /\ OnTime(v)'
    BY <1>5 DEF Stop, callerVars, historyVars
<1>6. ASSUME NEW w \in Workers, Drain(w)
      PROVE  OneTick(v)' /\ OnTime(v)'
    BY <1>6 DEF Drain, callerVars, historyVars
<1>7. ASSUME NEW w \in Workers, Fire(w) \/ Fired(w)
      PROVE  OneTick(v)' /\ OnTime(v)'
    BY <1>7 DEF Fire, Fired, callerVars, historyVars
<1>8. ASSUME NEW w \in Workers, Expire(w)
      PROVE  OneTick(v)' /\ OnTime(v)'
    BY <1>8 DEF Expire, callerVars, historyVars
<1>9. ASSUME Tick
      PROVE  OneTick(v)' /\ OnTime(v)'
    BY <1>9 DEF Tick, Less, callerVars
<1>10. ASSUME UNCHANGED vars
       PROVE  OneTick(v)' /\ OnTime(v)'
    BY <1>10 DEF vars, callerVars, timerVars, historyVars
<1> QED
    BY <1>1, <1>2, <1>3, <1>4, <1>5, <1>6, <1>7, <1>8, <1>9, <1>10 DEF Next, Work

-----------------------------------------------------------------------------
(***************************************************************************)
(* The refinement: Waiting(w) and quiet[w] run a debouncer for w.          *)
(***************************************************************************)
\* The debouncer's second variable, as the refinement maps it.
WaitingOf == [w \in Workers |-> Waiting(w)]

\* Accepting a request, as the first one or as a later one, is a request to
\* the debouncer.
LEMMA AcceptStep ==
    ASSUME TimerInv, NEW p \in Callers, NEW w \in Workers, Make(p, w) \/ Receive(p, w)
    PROVE  Deb!Request(w)
<1>1. quiet' = [quiet EXCEPT ![w] = 0]
    BY DEF Make, Receive
<1>2. Waiting(w)'
    BY DEF Make, Receive, Waiting, TimerInv, TypeOK
<1>3. ASSUME NEW v \in Workers, v # w PROVE Waiting(v)' = Waiting(v)
    BY <1>3 DEF Make, Receive, Waiting, TimerInv, TypeOK, timerVars
<1>4. WaitingOf' = [WaitingOf EXCEPT ![w] = TRUE]
    BY <1>2, <1>3 DEF WaitingOf
<1> QED
    BY <1>1, <1>4 DEF Deb!Request, WaitingOf

\* The call of the delayed trigger is the debouncer's firing.
LEMMA FireStep ==
    ASSUME TimerInv, NEW w \in Workers, Fire(w)
    PROVE  Deb!Fire(w)
<1>1. quiet[w] = Delay /\ UNCHANGED quiet
    BY DEF Fire, TimerInv, OnTime
<1>2. Waiting(w) /\ Waiting(w)' = FALSE
    BY DEF Fire, Waiting, TimerInv, TypeOK, OneTick
<1>3. ASSUME NEW v \in Workers, v # w PROVE Waiting(v)' = Waiting(v)
    BY <1>3 DEF Fire, Waiting, TimerInv, TypeOK
<1>4. WaitingOf' = [WaitingOf EXCEPT ![w] = FALSE]
    BY <1>2, <1>3 DEF WaitingOf
<1> QED
    BY <1>1, <1>2, <1>4 DEF Deb!Fire, WaitingOf

\* Every other step of a worker or its timer leaves the debouncer alone.
LEMMA QuietStep ==
    ASSUME TimerInv, NEW w \in Workers,
           NewTimer(w) \/ Stop(w) \/ Drain(w) \/ Reset(w) \/ Fired(w) \/ Expire(w)
    PROVE  UNCHANGED <<quiet, WaitingOf>>
<1>1. UNCHANGED quiet
    BY DEF NewTimer, Stop, Drain, Reset, Fired, Expire, historyVars
<1>2. ASSUME NEW v \in Workers PROVE Waiting(v)' = Waiting(v)
    <2> USE DEF TimerInv, TypeOK, OneTick, Waiting
    <2>1. CASE NewTimer(w) \/ Reset(w)
        BY <2>1 DEF NewTimer, Reset
    <2>2. CASE Stop(w)
        BY <2>2 DEF Stop
    <2>3. CASE Drain(w)
        BY <2>3 DEF Drain
    <2>4. CASE Fired(w)
        BY <2>4 DEF Fired
    <2>5. CASE Expire(w)
        BY <2>5 DEF Expire
    <2> QED
        BY <2>1, <2>2, <2>3, <2>4, <2>5
<1> QED
    BY <1>1, <1>2 DEF WaitingOf

\* Debouncing: DelayTrigger implements Debouncer (delay.go:84-93), for every
\* number of callers and workers and every delay.
THEOREM Debouncing == Spec => Debounces
<1>1. Init => Deb!Init
    BY DEF Init, Deb!Init, Waiting
<1>2. TimerInv /\ [Next]_vars => [Deb!Next]_<<quiet, WaitingOf>>
    <2> SUFFICES ASSUME TimerInv, [Next]_vars
                 PROVE  Deb!Next \/ UNCHANGED <<quiet, WaitingOf>>
        OBVIOUS
    <2>1. ASSUME NEW p \in Callers, Call(p) PROVE UNCHANGED <<quiet, WaitingOf>>
        BY <2>1 DEF Call, Waiting, WaitingOf, timerVars
    <2>2. ASSUME NEW p \in Callers, NEW w \in Workers, Make(p, w) \/ Receive(p, w)
          PROVE  Deb!Next
        BY <2>2, AcceptStep DEF Deb!Next
    <2>3. ASSUME NEW w \in Workers, Fire(w) PROVE Deb!Next
        BY <2>3, FireStep DEF Deb!Next
    <2>4. ASSUME NEW w \in Workers, Work(w) \/ Expire(w), ~Fire(w)
          PROVE  UNCHANGED <<quiet, WaitingOf>>
        BY <2>4, QuietStep DEF Work
    <2>5. ASSUME Tick PROVE Deb!Tick
        <3>1. ASSUME NEW w \in Workers PROVE Waiting(w)' = Waiting(w)
            BY <2>5 DEF Tick, Waiting
        <3> QED
            BY <2>5, <3>1 DEF Tick, Deb!Tick
    <2>6. ASSUME UNCHANGED vars PROVE UNCHANGED <<quiet, WaitingOf>>
        BY <2>6 DEF vars, timerVars, historyVars, Waiting, WaitingOf
    <2> QED
        BY <2>1, <2>2, <2>3, <2>4, <2>5, <2>6 DEF Next, Deb!Next
<1> QED
    BY <1>1, <1>2, TimerInit, TimerStep, PTL DEF Spec, Debounces, Deb!Spec, WaitingOf

-----------------------------------------------------------------------------
(***************************************************************************)
(* One worker.  Unless two calls met between the test and the assignment   *)
(* of dt.c, only the worker whose channel is in dt.c was ever started.     *)
(***************************************************************************)
OneWorker ==
    ~raced =>
        /\ \A p, q \in Callers : cpc[p] = "make" /\ cpc[q] = "make" => p = q
        /\ \A p \in Callers : cpc[p] = "make" => c = None
        /\ \A w \in Workers : wpc[w] # "off" => w = c

OneInv == TimerInv /\ OneWorker

\* Every step keeps it.
LEMMA OneStep == OneInv /\ [Next]_vars => OneInv'
<1> SUFFICES ASSUME OneInv, [Next]_vars PROVE OneWorker'
    BY TimerStep DEF OneInv
<1> USE DelayAssumption DEF DelayAssumption, OneInv, TimerInv, TypeOK, OneWorker
<1>1. ASSUME NEW p \in Callers, Call(p) PROVE OneWorker'
    BY <1>1 DEF Call
<1>2. ASSUME NEW p \in Callers, NEW w \in Workers, Make(p, w) PROVE OneWorker'
    BY <1>2 DEF Make
<1>3. ASSUME NEW p \in Callers, NEW w \in Workers, Receive(p, w) PROVE OneWorker'
    BY <1>3 DEF Receive
<1>4. ASSUME NEW w \in Workers, Work(w) \/ Expire(w) PROVE OneWorker'
    <2>1. UNCHANGED <<callerVars, raced>>
        BY <1>4 DEF Work, NewTimer, Stop, Drain, Reset, Fire, Fired, Expire, historyVars
    <2>2. \A v \in Workers : wpc'[v] # "off" => wpc[v] # "off"
        BY <1>4 DEF Work, NewTimer, Stop, Drain, Reset, Fire, Fired, Expire
    <2> QED
        BY <2>1, <2>2 DEF callerVars
<1>5. ASSUME Tick \/ UNCHANGED vars PROVE OneWorker'
    BY <1>5 DEF Tick, vars, callerVars, historyVars
<1> QED
    BY <1>1, <1>2, <1>3, <1>4, <1>5 DEF Next

\* QuietFirst: the delayed trigger is called no sooner than Delay after the
\* last request, whoever made it, as long as no two calls met at dt.c
\* (delay.go:112-114), for every number of callers and every delay.
THEOREM QuietFirst == Spec => QuietOfAll
<1> DEFINE Fires(w) == ~raced /\ wpc[w] # "fire" /\ wpc'[w] = "fire"
           Quiet == \A v \in Workers : wpc[v] # "off" => quiet[v] = Delay
<1>1. Init => OneInv
    BY TimerInit DEF Init, OneInv, OneWorker
<1>2. ASSUME OneInv, [Next]_vars, NEW w \in Workers, Fires(w)
      PROVE  Quiet
    <2>1. Fire(w)
        BY <1>2 DEF OneInv, TimerInv, TypeOK, Next, Work, Call, Make, Receive, NewTimer,
                    Stop, Drain, Reset, Fire, Fired, Expire, Tick, vars
    <2>2. quiet[w] = Delay /\ wpc[w] # "off"
        BY <1>2, <2>1 DEF Fire, OneInv, TimerInv, OnTime
    <2> QED
        BY <1>2, <2>2 DEF OneInv, OneWorker
<1>3. OneInv /\ [Next]_vars => [\A w \in Workers : Fires(w) => Quiet]_vars
    BY <1>2
<1> QED
    BY <1>1, <1>3, OneStep, PTL DEF Spec, QuietOfAll

-----------------------------------------------------------------------------
(***************************************************************************)
(* The blocked worker.  Until a worker has fired for the first time, its   *)
(* timer runs or the tick waits in the channel whenever the worker looks   *)
(* at either, so the receive of delay.go:85 finds a tick.                  *)
(***************************************************************************)
FirstRound(w) ==
    ~fired[w] =>
        /\ wpc[w] # "fire"
        /\ wpc[w] \in {"select", "stop"} => armed[w] \/ full[w]
        /\ wpc[w] = "drain" => full[w]

FirstRoundInv == TypeOK /\ \A w \in Workers : FirstRound(w)

\* Every step keeps it.
LEMMA FirstRoundStep == FirstRoundInv /\ [Next]_vars => FirstRoundInv'
<1> SUFFICES ASSUME FirstRoundInv, [Next]_vars, NEW v \in Workers
             PROVE  FirstRound(v)'
    BY TypeStep DEF FirstRoundInv
<1>0. FirstRound(v) /\ TypeOK
    BY DEF FirstRoundInv
<1> USE <1>0 DEF TypeOK, FirstRound
<1>1. ASSUME NEW p \in Callers,
             Call(p) \/ \E w \in Workers : Make(p, w) \/ Receive(p, w)
      PROVE  FirstRound(v)'
    BY <1>1 DEF Call, Make, Receive, timerVars, historyVars
<1>2. ASSUME NEW w \in Workers, NewTimer(w) \/ Reset(w) PROVE FirstRound(v)'
    BY <1>2 DEF NewTimer, Reset, callerVars, historyVars
<1>3. ASSUME NEW w \in Workers, Stop(w) \/ Drain(w) PROVE FirstRound(v)'
    BY <1>3 DEF Stop, Drain, callerVars, historyVars
<1>4. ASSUME NEW w \in Workers, Fire(w) \/ Fired(w) PROVE FirstRound(v)'
    BY <1>4 DEF Fire, Fired, callerVars, historyVars
<1>5. ASSUME NEW w \in Workers, Expire(w) PROVE FirstRound(v)'
    BY <1>5 DEF Expire, callerVars, historyVars
<1>6. ASSUME Tick \/ UNCHANGED vars PROVE FirstRound(v)'
    BY <1>6 DEF Tick, vars, callerVars, timerVars, historyVars
<1> QED
    BY <1>1, <1>2, <1>3, <1>4, <1>5, <1>6 DEF Next, Work

\* StuckLater: a worker that waits for a tick nobody will send has fired
\* before (delay.go:85), for every number of callers and every delay.
THEOREM StuckLater == Spec => []StuckOnlyAfterFiring
<1>1. Init => FirstRoundInv
    BY TypeInit DEF Init, FirstRoundInv, FirstRound
<1>2. FirstRoundInv => StuckOnlyAfterFiring
    BY DEF FirstRoundInv, FirstRound, StuckOnlyAfterFiring
<1> QED
    BY <1>1, <1>2, FirstRoundStep, PTL DEF Spec

=============================================================================
