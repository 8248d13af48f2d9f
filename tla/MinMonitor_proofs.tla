--------------------------- MODULE MinMonitor_proofs ---------------------------
(***************************************************************************)
(* Theorems about MinMonitor.                                              *)
(***************************************************************************)
EXTENDS MinMonitor, TLAPS

\* Every step is a step of one caller, of a service or of the clock.
LEMMA TypeStep == TypeOK /\ [Next]_vars => TypeOK'
<1> SUFFICES ASSUME TypeOK, [Next]_vars PROVE TypeOK'
    OBVIOUS
<1> USE DEF TypeOK
<1>1. ASSUME NEW p \in Callers, Begin(p) PROVE TypeOK'
    <2>1. ASSUME NEW n \in Names, NEW s \in Services, Add(p, n, s) PROVE TypeOK'
        <3>1. CASE Immediately(p, "duplicate") /\ UNCHANGED tableVars
            BY <3>1 DEF Immediately, Return, tableVars, worldVars, historyVars
        <3>2. CASE /\ Enter(p, "add", s, IF made THEN "insert" ELSE "make")
                   /\ adding' = [adding EXCEPT ![p] = n] /\ UNCHANGED <<made, table, met>>
            BY <3>2 DEF Enter, worldVars
        <3> QED
            BY <2>1, <3>1, <3>2 DEF Add, tableVars
    <2>2. ASSUME NEW n \in Names, NEW o \in {"filter", "status", "reprobe", "setup"},
                 ByName(p, o, n)
          PROVE  TypeOK'
        <3>1. CASE table[n] = None /\ Immediately(p, "unknown") /\ UNCHANGED tableVars
            BY <3>1 DEF Immediately, Return, tableVars, worldVars, historyVars
        <3>2. CASE table[n] # None /\ Start(p, o, table[n], Entry(o))
            <4>1. Entry(o) \in {"up", "dial", "stamp"} /\ table[n] \in Services
                BY <3>2 DEF Entry
            <4> QED
                BY <3>2, <4>1 DEF Start, Enter, tableVars, worldVars
        <3> QED
            BY <2>2, <3>1, <3>2 DEF ByName
    <2>3. ASSUME NEW s \in Services, FilterRequest(p, s) PROVE TypeOK'
        BY <2>3 DEF FilterRequest, Entry, Start, Enter, tableVars, worldVars
    <2> QED
        BY <1>1, <2>1, <2>2, <2>3 DEF Begin
<1>2. ASSUME NEW p \in Callers, Step(p) PROVE TypeOK'
    <2>0. CASE MakeTable(p) \/ Insert(p)
        <3>1. CASE MakeTable(p)
            BY <3>1 DEF MakeTable, Goto, worldVars, historyVars
        <3>2. CASE Insert(p)
            <4>1. table' \in [Names -> Services \cup {None}]
                BY <3>2 DEF Insert
            <4> QED
                BY <3>2, <4>1 DEF Insert, Immediately, Return, worldVars, historyVars
        <3> QED
            BY <2>0, <3>1, <3>2
    <2>1. CASE ReadUp(p) \/ ReadClock(p) \/ Dial(p)
        BY <2>1 DEF ReadUp, ReadClock, Dial, Goto, serviceVars, tableVars, worldVars, historyVars
    <2>2. CASE ReadLast(p)
        BY <2>2 DEF ReadLast, Answer, Goto, Return, serviceVars, tableVars, worldVars, historyVars
    <2>3. CASE Stamp(p)
        <3>1. lastChecked' = [lastChecked EXCEPT ![svc[p]] = now]
            BY <2>3 DEF Stamp
        <3>2. goodAt' = [goodAt EXCEPT ![svc[p]] = IF Good(p) THEN now ELSE @]
            BY <2>3 DEF Stamp
        <3>3. lastChecked' \in [Services -> 0..MaxTime]
            BY <3>1
        <3>4. goodAt' \in [Services -> (0..MaxTime) \cup {None}]
            <4>1. CASE Good(p)
                BY <3>2, <4>1
            <4>2. CASE ~Good(p)
                BY <3>2, <4>2
            <4> QED
                BY <4>1, <4>2
        <3> QED
            BY <2>3, <3>3, <3>4 DEF Stamp, Goto, tableVars, worldVars
    <2>4. CASE Store(p)
        <3>1. Good(p) \in BOOLEAN
            BY DEF Good
        <3> QED
            BY <2>4, <3>1 DEF Store, Answer, Goto, Return, tableVars, worldVars, historyVars
    <2>5. CASE Always(p) \/ OnUp(p) \/ OnDown(p)
        <3>1. PICK field \in Roles, next \in {"onup", "ondown", "proxy", "notready"} :
                  RunTrigger(p, field, next)
            BY <2>5 DEF Always, OnUp, OnDown, Roles
        <3>2. Fields(svc[p])[field] \in Roles \cup {None}
            BY DEF Fields, UnmarshalJSON, NewMinMonitorredService, Wanted, Roles
        <3> QED
            BY <3>1, <3>2 DEF RunTrigger, Goto, Return, serviceVars, tableVars, worldVars, historyVars
    <2>6. CASE Proxy(p) \/ NotReady(p)
        BY <2>6 DEF Proxy, NotReady, Return, serviceVars, tableVars, worldVars, historyVars
    <2> QED
        BY <1>2, <2>0, <2>1, <2>2, <2>3, <2>4, <2>5, <2>6 DEF Step
<1>3. ASSUME NEW s \in Services, Fail(s) \/ Recover(s) PROVE TypeOK'
    <2>1. alive' \in [Services -> BOOLEAN]
        BY <1>3 DEF Fail, Recover
    <2>2. sawDown' \in [Callers -> BOOLEAN]
        <3>1. CASE Fail(s)
            <4>1. sawDown' = [p \in Callers |-> sawDown[p] \/ (pc[p] # "idle" /\ svc[p] = s)]
                BY <3>1 DEF Fail
            <4> QED
                BY <4>1, Zenon
        <3>2. CASE Recover(s)
            BY <3>2 DEF Recover, historyVars
        <3> QED
            BY <1>3, <3>1, <3>2
    <2> QED
        BY <1>3, <2>1, <2>2 DEF Fail, Recover, serviceVars, tableVars, callerVars, historyVars
<1>4. ASSUME Tick PROVE TypeOK'
    BY <1>4, MonitorAssumption DEF MonitorAssumption, Tick, serviceVars, tableVars, callerVars, historyVars
<1>5. ASSUME UNCHANGED vars PROVE TypeOK'
    BY <1>5 DEF vars, serviceVars, tableVars, worldVars, callerVars, historyVars
<1> QED
    BY <1>1, <1>2, <1>3, <1>4, <1>5 DEF Next

\* TypeCorrect: every variable keeps its type, for every number of callers
\* and services.
THEOREM TypeCorrect == Spec => []TypeOK
<1>1. Init => TypeOK
    BY MonitorAssumption DEF MonitorAssumption, Init, TypeOK
<1> QED
    BY <1>1, TypeStep, PTL DEF Spec

-----------------------------------------------------------------------------
(***************************************************************************)
(* What each caller has seen.  DownMeansDown is about operations that are  *)
(* over; SawInv says of those under way that a service that is, or was     *)
(* probed as, unreachable has been unreachable since the operation began,  *)
(* so that an answer down can only be given truthfully.                    *)
(***************************************************************************)
\* A caller at work has an operation, an operation has a service, and only
\* FilterRequest goes beyond Status.
AtWork(p) ==
    /\ pc[p] # "idle" => op[p] # "none"
    /\ op[p] # "none" => svc[p] \in Services
    /\ pc[p] \in {"always", "onup", "ondown", "proxy", "notready"} => op[p] = "filter"

\* A caller knows of every reason to answer down.
Saw(p) ==
    /\ (pc[p] # "idle" /\ ~alive[svc[p]]) => sawDown[p]
    /\ (pc[p] # "idle" /\ ~AnsweredUp(p)) => sawDown[p]
    /\ pc[p] \in {"ondown", "notready"} => sawDown[p]
    /\ (pc[p] = "idle" /\ res[p] \in {"down", "503"}) => sawDown[p]

SawInv == TypeOK /\ \A p \in Callers : AtWork(p) /\ Saw(p)

\* What p's steps leave alone for q.
Same(q) ==
    /\ pc'[q] = pc[q] /\ op'[q] = op[q] /\ svc'[q] = svc[q]
    /\ probe'[q] = probe[q] /\ res'[q] = res[q] /\ sawDown'[q] = sawDown[q]

LEMMA SawFrame ==
    ASSUME SawInv, TypeOK', NEW p \in Callers, AtWork(p)', Saw(p)',
           UNCHANGED alive, \A q \in Callers \ {p} : Same(q)
    PROVE  SawInv'
BY DEF SawInv, AtWork, Saw, Same, AnsweredUp

\* The steps that begin an operation.
LEMMA SawBegin ==
    ASSUME SawInv, TypeOK', NEW p \in Callers, Begin(p)
    PROVE  SawInv'
<1> USE DEF SawInv, TypeOK
<1>1. ASSUME Immediately(p, "unknown") \/ Immediately(p, "duplicate") \/ Immediately(p, "ok")
      PROVE  SawInv'
    <2>1. /\ pc'[p] = "idle" /\ op'[p] = "none"
          /\ res'[p] \notin {"down", "503"}
          /\ UNCHANGED alive /\ \A q \in Callers \ {p} : Same(q)
        BY <1>1 DEF Immediately, Return, Same, worldVars, historyVars
    <2>2. AtWork(p)' /\ Saw(p)'
        BY <2>1 DEF AtWork, Saw
    <2> QED
        BY <2>1, <2>2, SawFrame
<1>2. ASSUME NEW o \in {"filter", "status", "reprobe", "setup"}, NEW s \in Services,
             Start(p, o, s, Entry(o))
      PROVE  SawInv'
    <2>1. Entry(o) \in {"up", "dial", "stamp"}
        BY DEF Entry
    <2>2. /\ pc'[p] = Entry(o) /\ op'[p] = o /\ svc'[p] = s /\ probe'[p] = "none"
          /\ sawDown'[p] = ~alive[s]
          /\ UNCHANGED alive /\ \A q \in Callers \ {p} : Same(q)
        BY <1>2 DEF Start, Enter, Same, worldVars
    <2>3. AtWork(p)' /\ Saw(p)'
        BY <2>1, <2>2 DEF AtWork, Saw, AnsweredUp
    <2> QED
        BY <2>2, <2>3, SawFrame
<1>3. ASSUME NEW n \in Names, NEW s \in Services, Add(p, n, s) PROVE SawInv'
    <2>1. ASSUME NEW l \in {"make", "insert"}, Enter(p, "add", s, l) /\ UNCHANGED met
          PROVE  SawInv'
        <3>1. /\ pc'[p] = l /\ op'[p] = "add" /\ svc'[p] = s /\ probe'[p] = "none"
              /\ sawDown'[p] = ~alive[s]
              /\ UNCHANGED alive /\ \A q \in Callers \ {p} : Same(q)
            BY <2>1 DEF Enter, Same, worldVars
        <3>2. AtWork(p)' /\ Saw(p)'
            BY <3>1 DEF AtWork, Saw, AnsweredUp
        <3> QED
            BY <3>1, <3>2, SawFrame
    <2> QED
        BY <1>1, <1>3, <2>1 DEF Add
<1>4. ASSUME NEW n \in Names, NEW o \in {"filter", "status", "reprobe", "setup"},
             ByName(p, o, n)
      PROVE  SawInv'
    BY <1>1, <1>2, <1>4 DEF ByName
<1>5. ASSUME NEW s \in Services, FilterRequest(p, s) PROVE SawInv'
    BY <1>2, <1>5 DEF FilterRequest
<1> QED
    BY <1>3, <1>4, <1>5 DEF Begin

\* The steps within an operation.
LEMMA SawWork ==
    ASSUME SawInv, TypeOK', NEW p \in Callers, Step(p)
    PROVE  SawInv'
<1> USE DEF SawInv, TypeOK
<1>0. ASSUME MakeTable(p) \/ Insert(p) PROVE SawInv'
    <2>1. /\ pc[p] # "idle" /\ UNCHANGED <<alive, probe, sawDown>>
          /\ \/ pc'[p] = "insert" /\ UNCHANGED <<op, svc>>
             \/ pc'[p] = "idle" /\ res'[p] = "ok" /\ op'[p] = "none"
        BY <1>0 DEF MakeTable, Insert, Immediately, Goto, Return, worldVars, historyVars
    <2>2. \A q \in Callers \ {p} : Same(q)
        BY <1>0 DEF MakeTable, Insert, Immediately, Goto, Return, Same, historyVars
    <2>3. AtWork(p)' /\ Saw(p)'
        BY <2>1 DEF AtWork, Saw, AnsweredUp
    <2> QED
        BY <2>1, <2>2, <2>3, SawFrame
<1>1. ASSUME ReadUp(p) \/ ReadClock(p) PROVE SawInv'
    <2>1. /\ pc[p] # "idle" /\ pc'[p] \in {"clock", "last", "dial"}
          /\ UNCHANGED <<alive, op, svc, probe, sawDown>>
          /\ \A q \in Callers \ {p} : Same(q)
        BY <1>1 DEF ReadUp, ReadClock, Goto, Same, worldVars, historyVars
    <2>2. AtWork(p)' /\ Saw(p)'
        BY <2>1 DEF AtWork, Saw, AnsweredUp
    <2> QED
        BY <2>1, <2>2, SawFrame
<1>2. ASSUME ReadLast(p) PROVE SawInv'
    <2>1. /\ pc[p] # "idle" /\ UNCHANGED <<alive, op, svc, probe, sawDown>>
          /\ \/ pc'[p] = "dial"
             \/ pc'[p] = "always" /\ op[p] = "filter"
             \/ pc'[p] = "idle" /\ res'[p] = "up"
        BY <1>2 DEF ReadLast, Answer, Goto, Return, worldVars, historyVars
    <2>2. \A q \in Callers \ {p} : Same(q)
        BY <1>2 DEF ReadLast, Answer, Goto, Return, Same, historyVars
    <2>3. AtWork(p)' /\ Saw(p)'
        BY <2>1 DEF AtWork, Saw, AnsweredUp
    <2> QED
        BY <2>1, <2>2, <2>3, SawFrame
<1>3. ASSUME Dial(p) PROVE SawInv'
    <2>1. PICK outcome \in IF alive[svc[p]] THEN {"up"} ELSE {"refused", "error"} :
              probe' = [probe EXCEPT ![p] = outcome]
        BY <1>3 DEF Dial
    <2>2. /\ pc[p] # "idle" /\ pc'[p] = "stamp"
          /\ UNCHANGED <<alive, op, svc, sawDown>>
          /\ \A q \in Callers \ {p} : Same(q)
        BY <1>3, <2>1 DEF Dial, Goto, Same, worldVars, historyVars
    <2>3. outcome # "up" => ~alive[svc[p]]
        BY <2>1
    <2>4. AtWork(p)' /\ Saw(p)'
        BY <2>1, <2>2, <2>3 DEF AtWork, Saw, AnsweredUp
    <2> QED
        BY <2>2, <2>4, SawFrame
<1>4. ASSUME Stamp(p) PROVE SawInv'
    <2>1. /\ pc[p] # "idle" /\ pc'[p] = "store"
          /\ UNCHANGED <<alive, op, svc, probe, sawDown>>
          /\ \A q \in Callers \ {p} : Same(q)
        BY <1>4 DEF Stamp, Goto, Same, worldVars
    <2>2. AtWork(p)' /\ Saw(p)'
        BY <2>1 DEF AtWork, Saw, AnsweredUp
    <2> QED
        BY <2>1, <2>2, SawFrame
<1>5. ASSUME Store(p) PROVE SawInv'
    <2>1. /\ pc[p] # "idle" /\ UNCHANGED <<alive, op, svc, probe, sawDown>>
          /\ \/ pc'[p] = "always" /\ op[p] = "filter"
             \/ pc'[p] = "idle" /\ res'[p] \notin {"down", "503"}
             \/ pc'[p] = "idle" /\ probe[p] = "refused"
        BY <1>5 DEF Store, Answer, Goto, Return, worldVars, historyVars
    <2>2. \A q \in Callers \ {p} : Same(q)
        BY <1>5 DEF Store, Answer, Goto, Return, Same, historyVars
    <2>3. AtWork(p)' /\ Saw(p)'
        BY <2>1 DEF AtWork, Saw, AnsweredUp
    <2> QED
        BY <2>1, <2>2, <2>3, SawFrame
<1>6. ASSUME Always(p) \/ OnUp(p) \/ OnDown(p) PROVE SawInv'
    <2>1. /\ pc[p] \in {"always", "onup", "ondown"}
          /\ UNCHANGED <<alive, op, svc, probe, sawDown>>
          /\ \/ pc'[p] = "onup" \/ pc'[p] = "proxy"
             \/ pc'[p] = "ondown" /\ ~AnsweredUp(p)
             \/ pc'[p] = "notready" /\ pc[p] = "ondown"
             \/ pc'[p] = "idle" /\ res'[p] = "500"
        BY <1>6 DEF Always, OnUp, OnDown, RunTrigger, Goto, Return, worldVars, historyVars
    <2>2. \A q \in Callers \ {p} : Same(q)
        BY <1>6 DEF Always, OnUp, OnDown, RunTrigger, Goto, Return, Same, historyVars
    <2>3. AtWork(p)' /\ Saw(p)'
        BY <2>1 DEF AtWork, Saw, AnsweredUp
    <2> QED
        BY <2>1, <2>2, <2>3, SawFrame
<1>7. ASSUME Proxy(p) \/ NotReady(p) PROVE SawInv'
    <2>1. /\ pc'[p] = "idle" /\ UNCHANGED <<alive, op, svc, probe, sawDown>>
          /\ \/ res'[p] \in {"forwarded", "panicked"}
             \/ pc[p] = "notready"
          /\ pc[p] # "idle"
        BY <1>7 DEF Proxy, NotReady, Return, worldVars, historyVars
    <2>2. \A q \in Callers \ {p} : Same(q)
        BY <1>7 DEF Proxy, NotReady, Return, Same, historyVars
    <2>3. AtWork(p)' /\ Saw(p)'
        BY <2>1 DEF AtWork, Saw
    <2> QED
        BY <2>1, <2>2, <2>3, SawFrame
<1> QED
    BY <1>0, <1>1, <1>2, <1>3, <1>4, <1>5, <1>6, <1>7 DEF Step

\* The steps of the environment.
LEMMA SawWorld ==
    ASSUME SawInv, TypeOK',
           \/ \E s \in Services : Fail(s) \/ Recover(s)
           \/ Tick
           \/ UNCHANGED vars
    PROVE  SawInv'
<1> USE DEF SawInv, TypeOK
<1>1. ASSUME NEW s \in Services, Fail(s) PROVE SawInv'
    <2>1. /\ UNCHANGED <<pc, op, svc, probe, res>>
          /\ alive' = [alive EXCEPT ![s] = FALSE]
        BY <1>1 DEF Fail, callerVars
    <2>2. sawDown' = [p \in Callers |-> sawDown[p] \/ (pc[p] # "idle" /\ svc[p] = s)]
        BY <1>1 DEF Fail
    <2>3. ASSUME NEW p \in Callers PROVE AtWork(p)' /\ Saw(p)'
        <3>1. sawDown'[p] = (sawDown[p] \/ (pc[p] # "idle" /\ svc[p] = s))
            BY <2>2
        <3>2. svc[p] # s => alive'[svc[p]] = alive[svc[p]]
            BY <2>1
        <3>3. AtWork(p)'
            BY <2>1 DEF AtWork
        <3>4. pc[p] # "idle" => (alive[svc[p]] \/ sawDown[p])
            BY DEF Saw
        <3>5. (pc[p] # "idle" /\ ~alive'[svc[p]]) => sawDown'[p]
            BY <3>1, <3>2, <3>4, Zenon
        <3> QED
            BY <2>1, <3>1, <3>3, <3>5 DEF Saw, AnsweredUp
    <2> QED
        BY <2>3
<1>2. ASSUME NEW s \in Services, Recover(s) PROVE SawInv'
    <2>1. /\ UNCHANGED <<pc, op, svc, probe, res, sawDown>>
          /\ alive' = [alive EXCEPT ![s] = TRUE]
        BY <1>2 DEF Recover, callerVars, historyVars
    <2>2. ASSUME NEW p \in Callers PROVE AtWork(p)' /\ Saw(p)'
        <3>1. AtWork(p)'
            BY <2>1 DEF AtWork
        <3>2. (pc[p] # "idle" /\ ~alive'[svc[p]]) => ~alive[svc[p]]
            BY <2>1 DEF AtWork
        <3> QED
            BY <2>1, <3>1, <3>2 DEF Saw, AnsweredUp
    <2> QED
        BY <2>2
<1>3. ASSUME Tick \/ UNCHANGED vars PROVE SawInv'
    <2>1. UNCHANGED <<alive, pc, op, svc, probe, res, sawDown>>
        BY <1>3 DEF Tick, vars, worldVars, callerVars, historyVars
    <2> QED
        BY <2>1 DEF AtWork, Saw, AnsweredUp
<1> QED
    BY <1>1, <1>2, <1>3

LEMMA SawInvariant == Spec => []SawInv
<1>1. Init => SawInv
    <2>1. Init => TypeOK
        BY MonitorAssumption DEF MonitorAssumption, Init, TypeOK
    <2> QED
        BY <2>1 DEF Init, SawInv, AtWork, Saw
<1>2. SawInv /\ [Next]_vars => SawInv'
    <2> SUFFICES ASSUME SawInv, [Next]_vars PROVE SawInv'
        OBVIOUS
    <2>1. TypeOK'
        BY TypeStep DEF SawInv
    <2> QED
        BY <2>1, SawBegin, SawWork, SawWorld DEF Next
<1> QED
    BY <1>1, <1>2, PTL DEF Spec

\* NoCachedDown: whoever is told that a service is down, or sent the page that
\* it is not ready, could not have reached it at some time during that very
\* operation (minmonitor.go:308-310), for every number of callers.
THEOREM NoCachedDown == Spec => []DownMeansDown
<1>1. SawInv => DownMeansDown
    BY DEF SawInv, Saw, DownMeansDown
<1> QED
    BY <1>1, SawInvariant, PTL

-----------------------------------------------------------------------------
(***************************************************************************)
(* The triggers.  RanInv says at each point of FilterRequest which         *)
(* triggers have run, and of an answered request why it was answered so.   *)
(* It says so of services built by the constructor; one built by           *)
(* UnmarshalJSON has its triggers in other fields.                         *)
(***************************************************************************)
Proper(p) == built[svc[p]] = "constructor"

RanSoFar(p) == Proper(p) =>
    /\ pc[p] \in {"up", "clock", "last", "dial", "stamp", "store", "always"} => ran[p] = {}
    /\ pc[p] \in {"onup", "ondown"} => ran[p] = wanted[svc[p]] \cap {"Always"}
    /\ pc[p] = "proxy" => ran[p] = wanted[svc[p]] \cap {"OnUp", "Always"}
    /\ pc[p] = "notready" => ran[p] = wanted[svc[p]] \cap {"OnDown", "Always"}

AnswerAgrees(p) ==
    (FilterDone(p) /\ Proper(p)) =>
        \/ res[p] = "503" /\ sawDown[p] /\ ran[p] = wanted[svc[p]] \cap {"OnDown", "Always"}
        \/ res[p] = "forwarded" /\ ran[p] = wanted[svc[p]] \cap {"OnUp", "Always"}
        \/ res[p] = "500" /\ (sawDown[p] \/ wanted[svc[p]] \cap {"OnUp", "Always"} # {})

RanInv == \A p \in Callers : RanSoFar(p) /\ AnswerAgrees(p)

\* What p's steps leave alone for q.
SameRun(q) ==
    /\ pc'[q] = pc[q] /\ op'[q] = op[q] /\ svc'[q] = svc[q]
    /\ ran'[q] = ran[q] /\ res'[q] = res[q] /\ sawDown'[q] = sawDown[q]

LEMMA RanFrame ==
    ASSUME RanInv, NEW p \in Callers, RanSoFar(p)', AnswerAgrees(p)',
           UNCHANGED <<wanted, built>>, \A q \in Callers \ {p} : SameRun(q)
    PROVE  RanInv'
BY DEF RanInv, RanSoFar, AnswerAgrees, FilterDone, SameRun, Proper

\* A field of a service holds the trigger that was specified for it, if any.
LEMMA FieldIsWanted ==
    ASSUME NEW s, built[s] = "constructor", NEW role \in Roles
    PROVE  /\ Fields(s)[role] = IF role \in wanted[s] THEN role ELSE None
           /\ Fields(s).passthru
BY DEF Fields, NewMinMonitorredService, Wanted, Roles

\* What running the trigger of a role comes to.
LEMMA TriggerRun ==
    ASSUME SawInv, NEW p \in Callers, NEW role \in Roles, NEW next,
           RunTrigger(p, role, next)
    PROVE  /\ UNCHANGED <<wanted, built, op, svc, sawDown>>
           /\ \A q \in Callers \ {p} : SameRun(q)
           /\ Proper(p) =>
                 \/ /\ pc'[p] = next
                    /\ ran'[p] = ran[p] \cup (wanted[svc[p]] \cap {role})
                 \/ pc'[p] = "idle" /\ res'[p] = "500" /\ role \in wanted[svc[p]]
<1> DEFINE h == Fields(svc[p])[role]
<1> USE DEF SawInv, TypeOK
<1>1. Proper(p) => h = IF role \in wanted[svc[p]] THEN role ELSE None
    BY FieldIsWanted DEF Proper
<1>2. None \notin Roles
    BY MonitorAssumption DEF MonitorAssumption
<1>3. UNCHANGED <<wanted, built, op, svc, sawDown>>
    BY DEF RunTrigger, worldVars, historyVars
<1>4. \A q \in Callers \ {p} : SameRun(q)
    BY DEF RunTrigger, Goto, Return, SameRun, historyVars
<1>5. CASE h = None /\ Goto(p, next) /\ UNCHANGED ran
    BY <1>1, <1>2, <1>3, <1>4, <1>5 DEF Goto
<1>6. CASE h # None /\ Goto(p, next) /\ ran' = [ran EXCEPT ![p] = @ \cup {h}]
    BY <1>1, <1>3, <1>4, <1>6 DEF Goto
<1>7. CASE h # None /\ Return(p, "500") /\ UNCHANGED ran
    BY <1>1, <1>3, <1>4, <1>7 DEF Return
<1> QED
    BY <1>5, <1>6, <1>7 DEF RunTrigger

\* Every step keeps the invariant.
LEMMA RanStep ==
    ASSUME SawInv, RanInv, [Next]_vars
    PROVE  RanInv'
<1> USE DEF SawInv, TypeOK
<1>1. ASSUME NEW p \in Callers, Begin(p) PROVE RanInv'
    <2>1. ASSUME Immediately(p, "unknown") \/ Immediately(p, "duplicate") \/ Immediately(p, "ok")
          PROVE  RanInv'
        <3>1. /\ pc'[p] = "idle" /\ op'[p] = "none" /\ UNCHANGED <<wanted, built>>
              /\ \A q \in Callers \ {p} : SameRun(q)
            BY <2>1 DEF Immediately, Return, SameRun, worldVars, historyVars
        <3>2. RanSoFar(p)' /\ AnswerAgrees(p)'
            BY <3>1 DEF RanSoFar, AnswerAgrees, FilterDone, Proper
        <3> QED
            BY <3>1, <3>2, RanFrame
    <2>2. ASSUME NEW o \in {"filter", "status", "reprobe", "setup"}, NEW s \in Services,
                 Start(p, o, s, Entry(o))
          PROVE  RanInv'
        <3>1. Entry(o) \in {"up", "dial", "stamp"}
            BY DEF Entry
        <3>2. /\ pc'[p] = Entry(o) /\ ran'[p] = {} /\ UNCHANGED <<wanted, built>>
              /\ \A q \in Callers \ {p} : SameRun(q)
            BY <2>2 DEF Start, Enter, SameRun, worldVars
        <3>3. RanSoFar(p)' /\ AnswerAgrees(p)'
            BY <3>1, <3>2 DEF RanSoFar, AnswerAgrees, FilterDone, Proper
        <3> QED
            BY <3>2, <3>3, RanFrame
    <2>3. ASSUME NEW n \in Names, NEW s \in Services, Add(p, n, s) PROVE RanInv'
        <3>1. ASSUME NEW l \in {"make", "insert"}, Enter(p, "add", s, l) PROVE RanInv'
            <4>1. /\ pc'[p] = l /\ UNCHANGED <<wanted, built>>
                  /\ \A q \in Callers \ {p} : SameRun(q)
                BY <3>1 DEF Enter, SameRun, worldVars
            <4>2. RanSoFar(p)' /\ AnswerAgrees(p)'
                BY <4>1 DEF RanSoFar, AnswerAgrees, FilterDone, Proper
            <4> QED
                BY <4>1, <4>2, RanFrame
        <3> QED
            BY <2>1, <2>3, <3>1 DEF Add
    <2>4. ASSUME NEW n \in Names, NEW o \in {"filter", "status", "reprobe", "setup"},
                 ByName(p, o, n)
          PROVE  RanInv'
        BY <2>1, <2>2, <2>4 DEF ByName
    <2>5. ASSUME NEW s \in Services, FilterRequest(p, s) PROVE RanInv'
        BY <2>2, <2>5 DEF FilterRequest
    <2> QED
        BY <1>1, <2>3, <2>4, <2>5 DEF Begin
<1>2. ASSUME NEW p \in Callers, MakeTable(p) \/ Insert(p) PROVE RanInv'
    <2>1. /\ UNCHANGED <<wanted, built>> /\ \A q \in Callers \ {p} : SameRun(q)
          /\ pc'[p] = "insert" \/ (pc'[p] = "idle" /\ op'[p] = "none")
        BY <1>2 DEF MakeTable, Insert, Immediately, Goto, Return, SameRun, worldVars, historyVars
    <2>2. RanSoFar(p)' /\ AnswerAgrees(p)'
        BY <2>1 DEF RanSoFar, AnswerAgrees, FilterDone, Proper
    <2> QED
        BY <2>1, <2>2, RanFrame
<1>3. ASSUME NEW p \in Callers,
             ReadUp(p) \/ ReadClock(p) \/ ReadLast(p) \/ Dial(p) \/ Stamp(p) \/ Store(p)
      PROVE  RanInv'
    <2>1. /\ pc[p] \in {"up", "clock", "last", "dial", "stamp", "store"}
          /\ UNCHANGED <<wanted, built, op, svc, ran, sawDown>>
        BY <1>3 DEF ReadUp, ReadClock, ReadLast, Dial, Stamp, Store, worldVars, historyVars
    <2>2. \A q \in Callers \ {p} : SameRun(q)
        BY <1>3 DEF ReadUp, ReadClock, ReadLast, Dial, Stamp, Store, Answer, Goto, Return,
                    SameRun, historyVars
    <2>3. \/ pc'[p] \in {"up", "clock", "last", "dial", "stamp", "store", "always"}
          \/ pc'[p] = "idle" /\ op[p] # "filter"
          \/ pc'[p] = "idle" /\ res'[p] = "500" /\ probe[p] = "error"
        BY <1>3 DEF ReadUp, ReadClock, ReadLast, Dial, Stamp, Store, Answer, Goto, Return
    <2>4. RanSoFar(p)'
        BY <2>1, <2>3 DEF RanInv, RanSoFar, Proper
    <2>5. AnswerAgrees(p)'
        BY <2>1, <2>3 DEF AnswerAgrees, FilterDone, Saw, AnsweredUp, Proper
    <2> QED
        BY <2>1, <2>2, <2>4, <2>5, RanFrame
<1>4. ASSUME NEW p \in Callers, Always(p) PROVE RanInv'
    <2>1. /\ pc[p] = "always" /\ (Proper(p) => ran[p] = {})
          /\ RunTrigger(p, "Always", IF AnsweredUp(p) THEN "onup" ELSE "ondown")
        BY <1>4 DEF Always, RanInv, RanSoFar
    <2>2. /\ UNCHANGED <<wanted, built, op, svc, sawDown>>
          /\ \A q \in Callers \ {p} : SameRun(q)
          /\ Proper(p) =>
                \/ /\ pc'[p] = IF AnsweredUp(p) THEN "onup" ELSE "ondown"
                   /\ ran'[p] = ran[p] \cup (wanted[svc[p]] \cap {"Always"})
                \/ pc'[p] = "idle" /\ res'[p] = "500" /\ "Always" \in wanted[svc[p]]
        BY <2>1, TriggerRun DEF Roles
    <2>3. RanSoFar(p)' /\ AnswerAgrees(p)'
        BY <2>1, <2>2 DEF RanSoFar, AnswerAgrees, FilterDone, Proper
    <2> QED
        BY <2>2, <2>3, RanFrame
<1>5. ASSUME NEW p \in Callers, OnUp(p) PROVE RanInv'
    <2>1. /\ pc[p] = "onup" /\ (Proper(p) => ran[p] = wanted[svc[p]] \cap {"Always"})
          /\ RunTrigger(p, "OnUp", "proxy")
        BY <1>5 DEF OnUp, RanInv, RanSoFar
    <2>2. /\ UNCHANGED <<wanted, built, op, svc, sawDown>>
          /\ \A q \in Callers \ {p} : SameRun(q)
          /\ Proper(p) =>
                \/ /\ pc'[p] = "proxy"
                   /\ ran'[p] = ran[p] \cup (wanted[svc[p]] \cap {"OnUp"})
                \/ pc'[p] = "idle" /\ res'[p] = "500" /\ "OnUp" \in wanted[svc[p]]
        BY <2>1, TriggerRun DEF Roles
    <2>3. RanSoFar(p)' /\ AnswerAgrees(p)'
        BY <2>1, <2>2 DEF RanSoFar, AnswerAgrees, FilterDone, Proper
    <2> QED
        BY <2>2, <2>3, RanFrame
<1>6. ASSUME NEW p \in Callers, OnDown(p) PROVE RanInv'
    <2>1. /\ pc[p] = "ondown" /\ sawDown[p]
          /\ Proper(p) => ran[p] = wanted[svc[p]] \cap {"Always"}
          /\ RunTrigger(p, "OnDown", "notready")
        BY <1>6 DEF OnDown, RanInv, RanSoFar, Saw
    <2>2. /\ UNCHANGED <<wanted, built, op, svc, sawDown>>
          /\ \A q \in Callers \ {p} : SameRun(q)
          /\ Proper(p) =>
                \/ /\ pc'[p] = "notready"
                   /\ ran'[p] = ran[p] \cup (wanted[svc[p]] \cap {"OnDown"})
                \/ pc'[p] = "idle" /\ res'[p] = "500" /\ "OnDown" \in wanted[svc[p]]
        BY <2>1, TriggerRun DEF Roles
    <2>3. RanSoFar(p)' /\ AnswerAgrees(p)'
        BY <2>1, <2>2 DEF RanSoFar, AnswerAgrees, FilterDone, Proper
    <2> QED
        BY <2>2, <2>3, RanFrame
<1>7. ASSUME NEW p \in Callers, Proxy(p) \/ NotReady(p) PROVE RanInv'
    <2>1. /\ UNCHANGED <<wanted, built, op, svc, ran, sawDown>> /\ pc'[p] = "idle"
          /\ \/ pc[p] = "proxy" /\ (Proper(p) => res'[p] = "forwarded")
             \/ pc[p] = "notready" /\ res'[p] = "503"
        BY <1>7, FieldIsWanted DEF Proxy, NotReady, Return, Roles, Proper, worldVars, historyVars
    <2>2. \A q \in Callers \ {p} : SameRun(q)
        BY <1>7 DEF Proxy, NotReady, Return, SameRun, historyVars
    <2>3. RanSoFar(p)' /\ AnswerAgrees(p)'
        BY <2>1 DEF RanInv, RanSoFar, AnswerAgrees, FilterDone, Saw, Proper
    <2> QED
        BY <2>1, <2>2, <2>3, RanFrame
<1>8. ASSUME \/ \E s \in Services : Fail(s) \/ Recover(s)
             \/ Tick
             \/ UNCHANGED vars
      PROVE  RanInv'
    <2>1. UNCHANGED <<wanted, built, pc, op, svc, ran, res>>
        BY <1>8 DEF Fail, Recover, Tick, vars, worldVars, callerVars
    <2>2. \A p \in Callers : sawDown[p] => sawDown'[p]
        BY <1>8 DEF Fail, Recover, Tick, vars, historyVars
    <2> QED
        BY <2>1, <2>2 DEF RanInv, RanSoFar, AnswerAgrees, FilterDone, Proper
<1> QED
    BY <1>1, <1>3, <1>4, <1>5, <1>6, <1>7, <1>8, <1>2 DEF Next, Step

LEMMA RanInvariant == Spec => []RanInv
<1>1. Init => RanInv
    BY DEF Init, RanInv, RanSoFar, AnswerAgrees, FilterDone
<1>2. SawInv /\ RanInv /\ [Next]_vars => RanInv'
    BY RanStep
<1> QED
    BY <1>1, <1>2, SawInvariant, PTL DEF Spec

\* SpecifiedTriggersRun: of services built by the constructor, exactly the
\* triggers that the answer stands for have run before it is given
\* (minmonitor.go:393-397, 565-566).
THEOREM SpecifiedTriggersRun == Spec => []TriggersRun
<1>1. RanInv => TriggersRun
    BY DEF RanInv, AnswerAgrees, TriggersRun, Proper
<1> QED
    BY <1>1, RanInvariant, PTL

\* UpServed: with a service built by the constructor, a request during which
\* the service was up is forwarded unless a trigger failed
\* (minmonitor.go:394).
THEOREM UpServed == Spec => []UpIsForwarded
<1>1. RanInv => UpIsForwarded
    BY DEF RanInv, AnswerAgrees, UpIsForwarded, FilterDone, Proper
<1> QED
    BY <1>1, RanInvariant, PTL

-----------------------------------------------------------------------------
(***************************************************************************)
(* The cache.  As long as no two callers have met over a service, at most  *)
(* one is checking it, and the times lastChecked and up are about agree    *)
(* whenever one of them is read: FreshInv.                                 *)
(***************************************************************************)
Storing(q, s) == pc[q] = "store" /\ svc[q] = s

\* What is recorded of s as up was found or declared so when it was recorded.
Agree(s) == goodAt[s] = lastChecked[s]

OneChecks(s) == \A p, q \in Callers : Checking(p, s) /\ Checking(q, s) => p = q

FreshAt(s) == ~met[s] =>
    /\ OneChecks(s)
    /\ \A p \in Callers : pc[p] \in {"clock", "last"} /\ svc[p] = s => up[s]
    /\ \A p \in Callers : Storing(p, s) /\ Good(p) => Agree(s)
    /\ up[s] /\ (\A p \in Callers : ~Storing(p, s)) => Agree(s)

FreshInv == \A s \in Services : FreshAt(s)

\* What p's steps leave alone for q, and for service t.
SameCheck(q) ==
    pc'[q] = pc[q] /\ op'[q] = op[q] /\ svc'[q] = svc[q] /\ probe'[q] = probe[q]

SameStatus(t) ==
    /\ up'[t] = up[t] /\ lastChecked'[t] = lastChecked[t]
    /\ goodAt'[t] = goodAt[t] /\ met'[t] = met[t]

LEMMA FreshFrame ==
    ASSUME FreshInv, NEW p \in Callers, NEW s \in Services,
           pc[p] = "idle" \/ svc[p] = s, pc'[p] = "idle" \/ svc'[p] = s,
           \A q \in Callers \ {p} : SameCheck(q),
           \A t \in Services \ {s} : SameStatus(t),
           FreshAt(s)'
    PROVE  FreshInv'
<1> SUFFICES ASSUME NEW t \in Services, t # s PROVE FreshAt(t)'
    BY DEF FreshInv
<1>1. \A q \in Callers : /\ Checking(q, t)' <=> Checking(q, t)
                         /\ Storing(q, t)' <=> Storing(q, t)
                         /\ Storing(q, t) => (Good(q)' <=> Good(q))
    BY DEF Checking, Storing, Good, SameCheck
<1>2. \A q \in Callers : (pc'[q] \in {"clock", "last"} /\ svc'[q] = t)
                           => pc[q] \in {"clock", "last"} /\ svc[q] = t
    BY DEF SameCheck
<1>3. /\ up'[t] = up[t] /\ (Agree(t)' <=> Agree(t)) /\ met'[t] = met[t]
    BY DEF SameStatus, Agree
<1>4. FreshAt(t)
    BY DEF FreshInv
<1> QED
    BY <1>1, <1>2, <1>3, <1>4 DEF FreshAt, OneChecks

\* A step after which nothing is recorded, and p is no nearer to recording.
LEMMA FreshOn ==
    ASSUME FreshInv, SawInv, NEW p \in Callers, pc[p] # "idle",
           \A q \in Callers \ {p} : SameCheck(q),
           svc' = svc, UNCHANGED <<up, lastChecked, goodAt, met>>,
           pc[p] # "store", pc'[p] # "store",
           pc'[p] \in {"clock", "last"} => up[svc[p]],
           pc[p] \in {"up", "clock", "last", "dial", "stamp"}
              \/ pc'[p] \in {"idle", "always", "onup", "ondown", "proxy", "notready"}
    PROVE  FreshInv'
<1> DEFINE s == svc[p]
<1>1. s \in Services
    BY DEF SawInv, AtWork
<1>2. FreshAt(s)
    BY <1>1 DEF FreshInv
<1>3. \A q \in Callers : /\ Checking(q, s)' => Checking(q, s)
                         /\ Storing(q, s)' <=> Storing(q, s)
                         /\ Storing(q, s) => (Good(q)' <=> Good(q))
    BY DEF Checking, Storing, Good, SameCheck
<1>4. \A q \in Callers : (pc'[q] \in {"clock", "last"} /\ svc'[q] = s)
                           => q = p \/ (pc[q] \in {"clock", "last"} /\ svc[q] = s)
    BY DEF SameCheck
<1>5. FreshAt(s)'
    BY <1>2, <1>3, <1>4 DEF FreshAt, OneChecks, Agree
<1>6. \A t \in Services \ {s} : SameStatus(t)
    BY DEF SameStatus
<1> QED
    BY <1>1, <1>5, <1>6, FreshFrame

\* A step of a caller that checks nothing before or after it.
LEMMA FreshApart ==
    ASSUME FreshInv, NEW p \in Callers,
           pc[p] \in {"idle", "make", "insert"}, pc'[p] \in {"idle", "make", "insert"},
           UNCHANGED <<up, lastChecked, goodAt, met>>,
           \A q \in Callers \ {p} : SameCheck(q)
    PROVE  FreshInv'
<1>1. ASSUME NEW s \in Services PROVE FreshAt(s)'
    <2>1. \A q \in Callers : /\ Checking(q, s)' <=> Checking(q, s)
                             /\ Storing(q, s)' <=> Storing(q, s)
                             /\ Storing(q, s) => (Good(q)' <=> Good(q))
        BY DEF Checking, Storing, Good, SameCheck
    <2>2. \A q \in Callers : (pc'[q] \in {"clock", "last"} /\ svc'[q] = s)
                               => pc[q] \in {"clock", "last"} /\ svc[q] = s
        BY DEF SameCheck
    <2>3. FreshAt(s)
        BY DEF FreshInv
    <2> QED
        BY <2>1, <2>2, <2>3 DEF FreshAt, OneChecks, Agree
<1> QED
    BY <1>1 DEF FreshInv

\* The steps that begin an operation.
LEMMA FreshBegin ==
    ASSUME FreshInv, SawInv, NEW p \in Callers, Begin(p)
    PROVE  FreshInv'
<1> USE DEF SawInv, TypeOK
<1>1. ASSUME Immediately(p, "unknown") \/ Immediately(p, "duplicate"), pc[p] = "idle"
      PROVE  FreshInv'
    <2>1. /\ pc'[p] = "idle" /\ UNCHANGED <<up, lastChecked, goodAt, met>>
          /\ \A q \in Callers \ {p} : SameCheck(q)
        BY <1>1 DEF Immediately, Return, SameCheck, historyVars
    <2> QED
        BY <1>1, <2>1, FreshApart
<1>2. ASSUME NEW o \in {"filter", "status", "reprobe", "setup"}, NEW s \in Services,
             Start(p, o, s, Entry(o)), pc[p] = "idle"
      PROVE  FreshInv'
    <2>1. Entry(o) \in {"up", "dial", "stamp"}
        BY DEF Entry
    <2>2. /\ pc'[p] = Entry(o) /\ svc'[p] = s /\ UNCHANGED <<up, lastChecked, goodAt>>
          /\ met' = [met EXCEPT ![s] = @ \/ \E q \in Callers : Checking(q, s)]
          /\ \A q \in Callers \ {p} : SameCheck(q)
        BY <1>2 DEF Start, Enter, SameCheck
    <2>3. ~met'[s] => ~met[s] /\ \A q \in Callers : ~Checking(q, s)
        BY <2>2
    <2>4. \A q \in Callers \ {p} : /\ Checking(q, s)' <=> Checking(q, s)
                                   /\ Storing(q, s)' <=> Storing(q, s)
        BY <2>2 DEF SameCheck, Checking, Storing
    <2>5. \A q \in Callers : pc[q] \in {"clock", "last", "store"} /\ svc[q] = s
                              => Checking(q, s)
        BY DEF Checking
    <2>6. FreshAt(s)
        BY DEF FreshInv
    <2>7. ASSUME ~met'[s] PROVE FreshAt(s)'
        <3>1. \A q \in Callers : ~Storing(q, s)
            BY <2>3, <2>5, <2>7 DEF Storing
        <3>2. up[s] => Agree(s)
            BY <2>3, <2>6, <2>7, <3>1 DEF FreshAt
        <3>3. \A q \in Callers : Checking(q, s)' => q = p
            BY <2>3, <2>4, <2>7
        <3>4. \A q \in Callers : ~(pc'[q] \in {"clock", "last", "store"} /\ svc'[q] = s)
            BY <2>1, <2>2, <2>3, <2>5, <2>7 DEF SameCheck
        <3> QED
            BY <2>2, <3>2, <3>3, <3>4 DEF FreshAt, OneChecks, Storing, Agree
    <2>8. FreshAt(s)'
        BY <2>7 DEF FreshAt
    <2>9. \A t \in Services \ {s} : SameStatus(t)
        BY <2>2 DEF SameStatus
    <2> QED
        BY <1>2, <2>2, <2>8, <2>9, FreshFrame
<1>3. ASSUME NEW n \in Names, NEW s \in Services, Add(p, n, s) PROVE FreshInv'
    <2>1. ASSUME NEW l \in {"make", "insert"}, Enter(p, "add", s, l) /\ UNCHANGED met
          PROVE  FreshInv'
        <3>1. /\ pc'[p] = l /\ UNCHANGED <<up, lastChecked, goodAt, met>>
              /\ \A q \in Callers \ {p} : SameCheck(q)
            BY <2>1 DEF Enter, SameCheck
        <3> QED
            BY <1>3, <3>1, FreshApart DEF Add
    <2> QED
        BY <1>1, <1>3, <2>1 DEF Add
<1>4. ASSUME NEW n \in Names, NEW o \in {"filter", "status", "reprobe", "setup"},
             ByName(p, o, n)
      PROVE  FreshInv'
    BY <1>1, <1>2, <1>4 DEF ByName
<1>5. ASSUME NEW s \in Services, FilterRequest(p, s) PROVE FreshInv'
    BY <1>2, <1>5 DEF FilterRequest
<1> QED
    BY <1>3, <1>4, <1>5 DEF Begin

\* The steps within an operation.
LEMMA FreshWork ==
    ASSUME FreshInv, SawInv, NEW p \in Callers, Step(p)
    PROVE  FreshInv'
<1> DEFINE s == svc[p]
<1> USE DEF SawInv, TypeOK
<1>1. CASE MakeTable(p) \/ Insert(p)
    <2>1. /\ pc[p] \in {"make", "insert"} /\ pc'[p] \in {"insert", "idle"}
          /\ UNCHANGED <<up, lastChecked, goodAt, met>>
          /\ \A q \in Callers \ {p} : SameCheck(q)
        BY <1>1 DEF MakeTable, Insert, Immediately, Goto, Return, SameCheck, historyVars
    <2> QED
        BY <2>1, FreshApart
<1>2. pc[p] # "idle" /\ s \in Services
    BY DEF Step, MakeTable, Insert, ReadUp, ReadClock, ReadLast, Dial, Stamp, Store, Always, OnUp, OnDown, Proxy,
           NotReady, AtWork
<1>3. CASE ReadUp(p) \/ ReadClock(p) \/ ReadLast(p) \/ Dial(p)
    <2>1. \A q \in Callers \ {p} : SameCheck(q)
        BY <1>3 DEF ReadUp, ReadClock, ReadLast, Dial, Answer, Goto, Return, SameCheck
    <2>2. svc' = svc /\ UNCHANGED <<up, lastChecked, goodAt, met>>
        BY <1>3 DEF ReadUp, ReadClock, ReadLast, Dial, serviceVars, historyVars
    <2>3. FreshAt(s)
        BY <1>2 DEF FreshInv
    <2>4. /\ pc[p] \in {"up", "clock", "last", "dial"} /\ pc'[p] # "store"
          /\ pc'[p] = "last" => pc[p] = "clock"
          /\ pc'[p] = "clock" => up[s]
        BY <1>3 DEF ReadUp, ReadClock, ReadLast, Dial, Answer, Goto, Return
    <2>5. CASE ~met[s]
        <3>1. pc'[p] \in {"clock", "last"} => up[s]
            BY <2>3, <2>4, <2>5 DEF FreshAt
        <3> QED
            BY <1>2, <2>1, <2>2, <2>4, <3>1, FreshOn
    <2>6. CASE met[s]
        <3>1. FreshAt(s)'
            BY <2>2, <2>6 DEF FreshAt
        <3>2. \A t \in Services \ {s} : SameStatus(t)
            BY <2>2 DEF SameStatus
        <3> QED
            BY <1>2, <2>1, <2>2, <3>1, <3>2, FreshFrame
    <2> QED
        BY <2>5, <2>6
<1>4. CASE Stamp(p)
    <2>1. \A q \in Callers \ {p} : SameCheck(q)
        BY <1>4 DEF Stamp, Goto, SameCheck
    <2>2. /\ UNCHANGED <<svc, op, probe, up, met>> /\ pc[p] = "stamp" /\ pc'[p] = "store"
          /\ lastChecked' = [lastChecked EXCEPT ![s] = now]
          /\ goodAt' = [goodAt EXCEPT ![s] = IF Good(p) THEN now ELSE @]
        BY <1>4 DEF Stamp, Goto
    <2>3. Good(p)' <=> Good(p)
        BY <2>2 DEF Good
    <2>4. Good(p) => Agree(s)'
        BY <1>2, <2>2 DEF Agree
    <2>5. FreshAt(s)
        BY <1>2 DEF FreshInv
    <2>6. Checking(p, s) /\ Storing(p, s)'
        BY <2>2 DEF Checking, Storing
    <2>7. ASSUME ~met[s] PROVE FreshAt(s)'
        <3>1. \A q \in Callers \ {p} : ~Checking(q, s) /\ ~Checking(q, s)'
            BY <2>1, <2>2, <2>5, <2>6, <2>7 DEF FreshAt, OneChecks, Checking, SameCheck
        <3>2. \A q \in Callers \ {p} : ~Storing(q, s)'
                     /\ ~(pc'[q] \in {"clock", "last"} /\ svc'[q] = s)
            BY <2>2, <3>1 DEF Checking, Storing
        <3> QED
            BY <2>2, <2>3, <2>4, <2>6, <3>1, <3>2 DEF FreshAt, OneChecks
    <2>8. FreshAt(s)'
        BY <2>2, <2>7 DEF FreshAt
    <2>9. \A t \in Services \ {s} : SameStatus(t)
        BY <2>2 DEF SameStatus
    <2> QED
        BY <1>2, <2>1, <2>2, <2>8, <2>9, FreshFrame
<1>5. CASE Store(p)
    <2>1. \A q \in Callers \ {p} : SameCheck(q)
        BY <1>5 DEF Store, Answer, Goto, Return, SameCheck
    <2>2. /\ UNCHANGED <<svc, op, probe, lastChecked, goodAt, met>>
          /\ pc[p] = "store" /\ pc'[p] \in {"idle", "always"}
          /\ up' = [up EXCEPT ![s] = Good(p)]
        BY <1>5 DEF Store, Answer, Goto, Return, historyVars
    <2>3. FreshAt(s)
        BY <1>2 DEF FreshInv
    <2>4. Checking(p, s) /\ Storing(p, s)
        BY <2>2 DEF Checking, Storing
    <2>5. ASSUME ~met[s] PROVE FreshAt(s)'
        <3>1. \A q \in Callers : ~Checking(q, s)'
            BY <2>1, <2>2, <2>3, <2>4, <2>5 DEF FreshAt, OneChecks, Checking, SameCheck
        <3>2. up'[s] => Agree(s)'
            BY <1>2, <2>2, <2>3, <2>4, <2>5 DEF FreshAt, Agree
        <3>3. \A q \in Callers : ~Storing(q, s)'
                                /\ ~(pc'[q] \in {"clock", "last"} /\ svc'[q] = s)
            BY <2>2, <3>1 DEF Checking, Storing
        <3> QED
            BY <2>2, <3>1, <3>2, <3>3 DEF FreshAt, OneChecks
    <2>6. FreshAt(s)'
        BY <2>2, <2>5 DEF FreshAt
    <2>7. \A t \in Services \ {s} : SameStatus(t)
        BY <2>2 DEF SameStatus
    <2> QED
        BY <1>2, <2>1, <2>2, <2>6, <2>7, FreshFrame
<1>6. CASE Always(p) \/ OnUp(p) \/ OnDown(p) \/ Proxy(p) \/ NotReady(p)
    <2>1. \A q \in Callers \ {p} : SameCheck(q)
        BY <1>6 DEF Always, OnUp, OnDown, Proxy, NotReady, RunTrigger, Goto, Return, SameCheck
    <2>2. svc' = svc /\ UNCHANGED <<up, lastChecked, goodAt, met>>
        BY <1>6 DEF Always, OnUp, OnDown, Proxy, NotReady, RunTrigger, serviceVars, historyVars
    <2>3. /\ pc[p] \in {"always", "onup", "ondown", "proxy", "notready"}
          /\ pc'[p] \in {"idle", "onup", "ondown", "proxy", "notready"}
        BY <1>6 DEF Always, OnUp, OnDown, Proxy, NotReady, RunTrigger, Goto, Return
    <2> QED
        BY <1>2, <2>1, <2>2, <2>3, FreshOn
<1> QED
    BY <1>3, <1>4, <1>5, <1>6, <1>1 DEF Step

\* The steps of the environment.
LEMMA FreshWorld ==
    ASSUME FreshInv,
           \/ \E s \in Services : Fail(s) \/ Recover(s)
           \/ Tick
           \/ UNCHANGED vars
    PROVE  FreshInv'
<1>1. UNCHANGED <<up, lastChecked, goodAt, met, pc, op, svc, probe>>
    BY DEF Fail, Recover, Tick, vars, serviceVars, callerVars, historyVars
<1>2. ASSUME NEW s \in Services PROVE FreshAt(s)'
    <2>1. FreshAt(s)
        BY DEF FreshInv
    <2> QED
        BY <1>1, <2>1 DEF FreshAt, OneChecks, Checking, Storing, Good, Agree
<1> QED
    BY <1>2 DEF FreshInv

LEMMA FreshInvariant == Spec => []FreshInv
<1>1. Init => FreshInv
    BY DEF Init, FreshInv, FreshAt, OneChecks, Checking, Storing
<1>2. SawInv /\ FreshInv /\ [Next]_vars => FreshInv'
    BY FreshBegin, FreshWork, FreshWorld DEF Next
<1> QED
    BY <1>1, <1>2, SawInvariant, PTL DEF Spec

\* CachedFresh: of a service whose status no two callers have been checking at
\* once, up is never told from the cache beyond the grace period after the last
\* time it was found or declared up (minmonitor.go:300-308), whatever sequence
\* of probes, failed probes and declarations came before.
THEOREM CachedFresh == Spec => CachedUpAlone
<1>1. SawInv /\ FreshInv /\ [Next]_vars =>
          [\A p \in Callers :
             (pc[p] = "last" /\ pc'[p] \notin {"last", "dial"} /\ ~met[svc[p]]) =>
                 /\ goodAt[svc[p]] # None
                 /\ ~Lapsed(goodAt[svc[p]], seen[p])]_vars
    <2> SUFFICES ASSUME SawInv, FreshInv, Next, NEW p \in Callers,
                        pc[p] = "last", pc'[p] \notin {"last", "dial"}, ~met[svc[p]]
                 PROVE  goodAt[svc[p]] # None /\ ~Lapsed(goodAt[svc[p]], seen[p])
        OBVIOUS
    <2> DEFINE s == svc[p]
    <2> USE DEF SawInv, TypeOK
    <2>1. s \in Services /\ Checking(p, s)
        BY DEF AtWork, Checking
    <2>2. ReadLast(p)
        <3>1. ASSUME NEW q \in Callers, Begin(q) PROVE pc'[p] = pc[p]
            BY <3>1 DEF Begin, Add, ByName, FilterRequest, Start, Enter, Immediately, Return
        <3>2. ASSUME NEW q \in Callers, q # p, Step(q) PROVE pc'[p] = pc[p]
            BY <3>2 DEF Step, MakeTable, Insert, Immediately, ReadUp, ReadClock, ReadLast, Dial, Stamp, Store, Always, OnUp,
                        OnDown, Proxy, NotReady, RunTrigger, Answer, Goto, Return
        <3>3. ASSUME \/ \E t \in Services : Fail(t) \/ Recover(t)
                     \/ Tick
              PROVE  pc' = pc
            BY <3>3 DEF Fail, Recover, Tick, callerVars
        <3>4. Step(p)
            BY <3>1, <3>2, <3>3 DEF Next
        <3> QED
            BY <3>4 DEF Step, MakeTable, Insert, ReadUp, ReadClock, Dial, Stamp, Store, Always, OnUp, OnDown,
                        Proxy, NotReady
    <2>3. ~Lapsed(lastChecked[s], seen[p])
        BY <2>2 DEF ReadLast, Goto
    <2>4. FreshAt(s)
        BY <2>1 DEF FreshInv
    <2>5. \A q \in Callers : Storing(q, s) => Checking(q, s)
        BY DEF Storing, Checking
    <2>6. \A q \in Callers : ~Storing(q, s)
        BY <2>1, <2>4, <2>5 DEF FreshAt, OneChecks, Storing
    <2>7. up[s]
        BY <2>4 DEF FreshAt
    <2>8. goodAt[s] = lastChecked[s]
        BY <2>4, <2>6, <2>7 DEF FreshAt, Agree
    <2>9. goodAt[s] # None
        BY <2>1, <2>8, MonitorAssumption DEF MonitorAssumption
    <2> QED
        BY <2>3, <2>8, <2>9
<1> QED
    BY <1>1, SawInvariant, FreshInvariant, PTL DEF Spec, CachedUpAlone
=============================================================================
