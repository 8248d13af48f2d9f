------------------------------ MODULE MinMonitor ------------------------------
(***************************************************************************)
(* The service monitor of monitor/minmonitor.go: services registered under *)
(* names, their cached up status, and the filter that runs the triggers    *)
(* and forwards a request.                                                 *)
(*                                                                         *)
(* Each caller is a goroutine that performs one operation at a time.  The  *)
(* fields up and lastChecked are read and written without a lock, so every *)
(* access to one of them is a step of its own.  Whether a service can be   *)
(* reached (alive) is the environment's choice; triggers, the proxied      *)
(* service and net.Dial are external and may take any time.                *)
(***************************************************************************)
EXTENDS Naturals, FiniteSets

CONSTANTS
    Callers,      \* goroutines
    Services,     \* MinMonitorredService objects
    Names,        \* names to register services under
    GracePeriod,  \* how long an up status is cached
    MaxTime,      \* bound: the clock stops there
    None

Roles == {"OnDown", "OnUp", "Always"}

ASSUME MonitorAssumption ==
    /\ None \notin Services \cup Roles \cup Nat
    /\ GracePeriod \in Nat /\ MaxTime \in Nat

VARIABLES
    wanted,       \* the triggers that were specified for each service
    built,        \* how it was built: by the constructor or by UnmarshalJSON
    made,         \* MinMonitor.table is not nil
    table,        \* MinMonitor.table
    adding,       \* the name that Add has found free, for each caller in it
    up,           \* MinMonitorredService.up
    lastChecked,  \* MinMonitorredService.lastChecked
    alive,        \* environment: the service accepts connections
    now,          \* the clock
    pc,           \* where each caller is
    op,           \* the operation it performs
    svc,          \* the service it works on
    seen,         \* the clock value Status has read
    probe,        \* the outcome of its own probe
    ran,          \* the roles whose triggers it has run without error
    res,          \* the result of its last operation
    sawDown,      \* history: the service was unreachable during the operation
    goodAt,       \* history: when the service was last found or declared up
    met           \* history: two callers have been checking its status at once

tableVars   == <<made, table, adding>>
serviceVars == <<tableVars, up, lastChecked>>
worldVars   == <<wanted, built, alive, now>>
callerVars  == <<pc, op, svc, seen, probe, ran, res>>
historyVars == <<sawDown, goodAt, met>>
vars        == <<serviceVars, worldVars, callerVars, historyVars>>

TypeOK ==
    /\ wanted \in [Services -> SUBSET Roles]
    /\ built \in [Services -> {"constructor", "config"}]
    /\ made \in BOOLEAN
    /\ table \in [Names -> Services \cup {None}]
    /\ adding \in [Callers -> Names \cup {None}]
    /\ up \in [Services -> BOOLEAN]
    /\ lastChecked \in [Services -> 0..MaxTime]
    /\ alive \in [Services -> BOOLEAN]
    /\ now \in 0..MaxTime
    /\ pc \in [Callers -> {"idle", "make", "insert", "up", "clock", "last", "dial", "stamp",
                           "store", "always", "onup", "ondown", "notready", "proxy"}]
    /\ op \in [Callers -> {"none", "add", "filter", "status", "reprobe", "setup"}]
    /\ svc \in [Callers -> Services \cup {None}]
    /\ seen \in [Callers -> 0..MaxTime]
    /\ probe \in [Callers -> {"none", "up", "refused", "error"}]
    /\ ran \in [Callers -> SUBSET Roles]
    /\ res \in [Callers -> {"none", "ok", "up", "down", "error", "unknown", "duplicate",
                            "forwarded", "503", "500", "panicked"}]
    /\ sawDown \in [Callers -> BOOLEAN]
    /\ goodAt \in [Services -> (0..MaxTime) \cup {None}]
    /\ met \in [Services -> BOOLEAN]

Init ==
    /\ wanted \in [Services -> SUBSET Roles]
    /\ built \in [Services -> {"constructor", "config"}]
    /\ made \in BOOLEAN                        \* by NewMinMonitor, not in a MinMonitor{}
    /\ table = [n \in Names |-> None]
    /\ adding = [p \in Callers |-> None]
    /\ up = [s \in Services |-> FALSE]
    /\ lastChecked = [s \in Services |-> 0]   \* not read before it is set
    /\ alive \in [Services -> BOOLEAN]
    /\ now = 0
    /\ pc = [p \in Callers |-> "idle"]
    /\ op = [p \in Callers |-> "none"]
    /\ svc = [p \in Callers |-> None]
    /\ seen = [p \in Callers |-> 0]
    /\ probe = [p \in Callers |-> "none"]
    /\ ran = [p \in Callers |-> {}]
    /\ res = [p \in Callers |-> "none"]
    /\ sawDown = [p \in Callers |-> FALSE]
    /\ goodAt = [s \in Services |-> None]
    /\ met = [s \in Services |-> FALSE]

-----------------------------------------------------------------------------
(***************************************************************************)
(* How a service is built.  A handler is named by the role it was          *)
(* specified for; each field holds such a handler or None.                 *)
(***************************************************************************)
Wanted(w, role) == IF role \in w THEN role ELSE None

\* Variant for a mutation check: the constructor forgets the passthru filter.
NewWithoutPassthru(w) ==
    [OnDown |-> Wanted(w, "OnDown"), OnUp |-> Wanted(w, "OnUp"),
     Always |-> Wanted(w, "Always"), passthru |-> FALSE]

NewMinMonitorredService(w) ==
    [OnDown |-> Wanted(w, "OnDown"), OnUp |-> Wanted(w, "OnUp"),
     Always |-> Wanted(w, "Always"), passthru |-> TRUE]

\* UnmarshalJSON stores the Always trigger in OnDown and leaves passthru nil.
UnmarshalJSON(w) ==
    [OnDown |-> IF "Always" \in w THEN "Always" ELSE Wanted(w, "OnDown"),
     OnUp |-> Wanted(w, "OnUp"), Always |-> None, passthru |-> FALSE]

Fields(s) ==
    IF built[s] = "constructor" THEN NewMinMonitorredService(wanted[s])
    ELSE UnmarshalJSON(wanted[s])

-----------------------------------------------------------------------------
\* A caller is in Status, Reprobe or SetStatusUp of a service.
Checking(q, s) ==
    pc[q] \in {"up", "clock", "last", "dial", "stamp", "store"} /\ svc[q] = s

\* A caller enters operation o on service s at label l.
Enter(p, o, s, l) ==
    /\ pc' = [pc EXCEPT ![p] = l]
    /\ op' = [op EXCEPT ![p] = o]
    /\ svc' = [svc EXCEPT ![p] = s]
    /\ probe' = [probe EXCEPT ![p] = "none"]
    /\ ran' = [ran EXCEPT ![p] = {}]
    /\ res' = [res EXCEPT ![p] = "none"]
    /\ sawDown' = [sawDown EXCEPT ![p] = ~alive[s]]
    /\ UNCHANGED <<up, lastChecked, worldVars, seen, goodAt>>

\* A caller starts to check or to set the status of s.
Start(p, o, s, l) ==
    /\ Enter(p, o, s, l)
    /\ met' = [met EXCEPT ![s] = @ \/ \E q \in Callers : Checking(q, s)]
    /\ UNCHANGED tableVars

\* A caller returns r.
Return(p, r) ==
    /\ pc' = [pc EXCEPT ![p] = "idle"]
    /\ res' = [res EXCEPT ![p] = r]

\* A caller proceeds to label l.
Goto(p, l) ==
    /\ pc' = [pc EXCEPT ![p] = l]
    /\ UNCHANGED res

\* An operation that is over at once.
Immediately(p, r) ==
    /\ Return(p, r)
    /\ op' = [op EXCEPT ![p] = "none"]
    /\ svc' = [svc EXCEPT ![p] = None]
    /\ UNCHANGED <<up, lastChecked, worldVars, seen, probe, ran, historyVars>>

\* MinMonitor.Add: the name is looked up and the map tested for nil.
Add(p, n, s) ==
    /\ pc[p] = "idle"
    /\ UNCHANGED <<made, table>>
    /\ \/ table[n] # None /\ Immediately(p, "duplicate") /\ UNCHANGED adding
       \/ /\ table[n] = None
          /\ Enter(p, "add", s, IF made THEN "insert" ELSE "make")
          /\ adding' = [adding EXCEPT ![p] = n]
          /\ UNCHANGED met

\* Add: a map is made, in place of one that another caller may have made since.
MakeTable(p) ==
    /\ pc[p] = "make"
    /\ made' = TRUE
    /\ table' = [n \in Names |-> None]
    /\ Goto(p, "insert")
    /\ UNCHANGED <<adding, up, lastChecked, worldVars, op, svc, seen, probe, ran, historyVars>>

\* Add: the service is registered, whatever the map has under the name by now.
Insert(p) ==
    /\ pc[p] = "insert"
    /\ table' = [table EXCEPT ![adding[p]] = svc[p]]
    /\ adding' = [adding EXCEPT ![p] = None]
    /\ Immediately(p, "ok")
    /\ UNCHANGED made

\* The first label of each operation on a service.
Entry(o) == CASE o \in {"filter", "status"} -> "up"
              [] o = "reprobe" -> "dial"
              [] o = "setup" -> "stamp"

\* MinMonitor.Status, Reprobe, SetStatusUp, and NewMinMonitorFilter followed
\* by a request: the name is looked up first.
ByName(p, o, n) ==
    /\ pc[p] = "idle"
    /\ \/ table[n] = None /\ Immediately(p, "unknown") /\ UNCHANGED tableVars
       \/ table[n] # None /\ Start(p, o, table[n], Entry(o))

\* A request reaches a service that is part of a pipeline by itself, as in a
\* configuration.
FilterRequest(p, s) ==
    /\ pc[p] = "idle"
    /\ Start(p, "filter", s, Entry("filter"))

\* Status: an answer is given to the caller of Status, or the filter goes on
\* with it.
Answer(p, r) ==
    \/ op[p] = "filter" /\ r # "error" /\ Goto(p, "always")
    \/ op[p] = "filter" /\ r = "error" /\ Return(p, "500")
    \/ op[p] # "filter" /\ Return(p, r)

\* The grace period that started at time t is over at time c.
Lapsed(t, c) == c > t + GracePeriod

\* Variant for a mutation check: a down status is cached like an up status.
ReadUpCachesDown(p) ==
    /\ pc[p] = "up"
    /\ \/ up[svc[p]] /\ Goto(p, "clock")
       \/ ~up[svc[p]] /\ Lapsed(lastChecked[svc[p]], now) /\ Goto(p, "dial")
       \/ ~up[svc[p]] /\ ~Lapsed(lastChecked[svc[p]], now) /\ Answer(p, "down")
    /\ UNCHANGED <<serviceVars, worldVars, op, svc, seen, probe, ran, historyVars>>

\* Status: svc.up is tested.
ReadUp(p) ==
    /\ pc[p] = "up"
    /\ Goto(p, IF up[svc[p]] THEN "clock" ELSE "dial")
    /\ UNCHANGED <<serviceVars, worldVars, op, svc, seen, probe, ran, historyVars>>

\* Status: time.Now().
ReadClock(p) ==
    /\ pc[p] = "clock"
    /\ seen' = [seen EXCEPT ![p] = now]
    /\ Goto(p, "last")
    /\ UNCHANGED <<serviceVars, worldVars, op, svc, probe, ran, historyVars>>

\* Status: lastChecked is read; within the grace period the answer is up.
ReadLast(p) ==
    /\ pc[p] = "last"
    /\ \/ Lapsed(lastChecked[svc[p]], seen[p]) /\ Goto(p, "dial")
       \/ ~Lapsed(lastChecked[svc[p]], seen[p]) /\ Answer(p, "up")
    /\ UNCHANGED <<serviceVars, worldVars, op, svc, seen, probe, ran, historyVars>>

\* Reprobe: net.Dial returns.  "refused" is a *net.OpError that names an
\* address, which counts as down; any other failure is an error.
Dial(p) ==
    /\ pc[p] = "dial"
    /\ \E outcome \in IF alive[svc[p]] THEN {"up"} ELSE {"refused", "error"} :
          probe' = [probe EXCEPT ![p] = outcome]
    /\ Goto(p, "stamp")
    /\ UNCHANGED <<serviceVars, worldVars, op, svc, seen, ran, historyVars>>

\* What is being recorded says that the service is up.
Good(p) == op[p] = "setup" \/ probe[p] = "up"

\* Variant for a mutation check: the end of the grace period is stored.
StampExpiry(p) ==
    /\ pc[p] = "stamp"
    /\ lastChecked' = [lastChecked EXCEPT ![svc[p]] = now + GracePeriod]
    /\ goodAt' = [goodAt EXCEPT ![svc[p]] = IF Good(p) THEN now ELSE @]
    /\ Goto(p, "store")
    /\ UNCHANGED <<tableVars, up, worldVars, op, svc, seen, probe, ran, sawDown, met>>

\* Reprobe and SetStatusUp: svc.lastChecked = time.Now().
Stamp(p) ==
    /\ pc[p] = "stamp"
    /\ lastChecked' = [lastChecked EXCEPT ![svc[p]] = now]
    /\ goodAt' = [goodAt EXCEPT ![svc[p]] = IF Good(p) THEN now ELSE @]
    /\ Goto(p, "store")
    /\ UNCHANGED <<tableVars, up, worldVars, op, svc, seen, probe, ran, sawDown, met>>

\* Variant for a mutation check: a failed probe leaves an up status alone.
StoreKeepsUp(p) ==
    /\ pc[p] = "store"
    /\ up' = [up EXCEPT ![svc[p]] = @ \/ Good(p)]
    /\ \/ op[p] = "setup" /\ Return(p, "ok")
       \/ op[p] # "setup" /\ probe[p] = "up" /\ Answer(p, "up")
       \/ op[p] # "setup" /\ probe[p] = "refused" /\ Answer(p, "down")
       \/ op[p] # "setup" /\ probe[p] = "error" /\ Answer(p, "error")
    /\ UNCHANGED <<tableVars, lastChecked, worldVars, op, svc, seen, probe, ran, historyVars>>

\* Reprobe and SetStatusUp: svc.up is set.
Store(p) ==
    /\ pc[p] = "store"
    /\ up' = [up EXCEPT ![svc[p]] = Good(p)]
    /\ \/ op[p] = "setup" /\ Return(p, "ok")
       \/ op[p] # "setup" /\ probe[p] = "up" /\ Answer(p, "up")
       \/ op[p] # "setup" /\ probe[p] = "refused" /\ Answer(p, "down")
       \/ op[p] # "setup" /\ probe[p] = "error" /\ Answer(p, "error")
    /\ UNCHANGED <<tableVars, lastChecked, worldVars, op, svc, seen, probe, ran, historyVars>>

\* Variant for a mutation check: the error of a trigger is ignored.
RunTriggerAnyway(p, field, next) ==
    LET h == Fields(svc[p])[field]
    IN  /\ Goto(p, next)
        /\ \/ UNCHANGED ran
           \/ h # None /\ ran' = [ran EXCEPT ![p] = @ \cup {h}]
        /\ UNCHANGED <<serviceVars, worldVars, op, svc, seen, probe, historyVars>>

\* FilterRequest: the trigger in the given field, if any, is run.  If it
\* fails, the answer is an internal server error.
RunTrigger(p, field, next) ==
    LET h == Fields(svc[p])[field]
    IN  /\ \/ h = None /\ Goto(p, next) /\ UNCHANGED ran
           \/ h # None /\ Goto(p, next) /\ ran' = [ran EXCEPT ![p] = @ \cup {h}]
           \/ h # None /\ Return(p, "500") /\ UNCHANGED ran
        /\ UNCHANGED <<serviceVars, worldVars, op, svc, seen, probe, historyVars>>

\* Status has answered up: from the cache or after a successful probe.
AnsweredUp(p) == probe[p] \in {"none", "up"}

Always(p) ==
    /\ pc[p] = "always"
    /\ RunTrigger(p, "Always", IF AnsweredUp(p) THEN "onup" ELSE "ondown")

OnUp(p) == pc[p] = "onup" /\ RunTrigger(p, "OnUp", "proxy")

OnDown(p) == pc[p] = "ondown" /\ RunTrigger(p, "OnDown", "notready")

\* FilterRequest: the request is forwarded; without a passthru filter the
\* nil interface is called.
Proxy(p) ==
    /\ pc[p] = "proxy"
    /\ Return(p, IF Fields(svc[p]).passthru THEN "forwarded" ELSE "panicked")
    /\ UNCHANGED <<serviceVars, worldVars, op, svc, seen, probe, ran, historyVars>>

\* FilterRequest: the page that tells to try again in a few minutes.
NotReady(p) ==
    /\ pc[p] = "notready"
    /\ Return(p, "503")
    /\ UNCHANGED <<serviceVars, worldVars, op, svc, seen, probe, ran, historyVars>>

-----------------------------------------------------------------------------
\* The environment: services go down and come back, time passes.
Fail(s) ==
    /\ alive[s]
    /\ alive' = [alive EXCEPT ![s] = FALSE]
    /\ sawDown' = [p \in Callers |-> sawDown[p] \/ (pc[p] # "idle" /\ svc[p] = s)]
    /\ UNCHANGED <<serviceVars, wanted, built, now, callerVars, goodAt, met>>

Recover(s) ==
    /\ ~alive[s]
    /\ alive' = [alive EXCEPT ![s] = TRUE]
    /\ UNCHANGED <<serviceVars, wanted, built, now, callerVars, historyVars>>

Tick ==
    /\ now < MaxTime
    /\ now' = now + 1
    /\ UNCHANGED <<serviceVars, wanted, built, alive, callerVars, historyVars>>

Begin(p) ==
    \/ \E n \in Names, s \in Services : Add(p, n, s)
    \/ \E n \in Names, o \in {"filter", "status", "reprobe", "setup"} : ByName(p, o, n)
    \/ \E s \in Services : FilterRequest(p, s)

Step(p) ==
    \/ MakeTable(p) \/ Insert(p)
    \/ ReadUp(p) \/ ReadClock(p) \/ ReadLast(p)
    \/ Dial(p) \/ Stamp(p) \/ Store(p)
    \/ Always(p) \/ OnUp(p) \/ OnDown(p)
    \/ Proxy(p) \/ NotReady(p)

Next ==
    \/ \E p \in Callers : Begin(p) \/ Step(p)
    \/ \E s \in Services : Fail(s) \/ Recover(s)
    \/ Tick

Spec == Init /\ [][Next]_vars

-----------------------------------------------------------------------------
\* A request has been answered by the filter.
FilterDone(p) == op[p] = "filter" /\ pc[p] = "idle"

\* DownMeansDown: a service is reported down only if it could not be reached
\* at some time during that very operation: "a down status will never be
\* cached" (minmonitor.go:147, 308-310), whatever other callers probe or set
\* at the same time.
DownMeansDown ==
    \A p \in Callers : (pc[p] = "idle" /\ res[p] \in {"down", "503"}) => sawDown[p]

\* TriggersRun: the page that says that "any trigger to start the service has
\* been started successfully" (minmonitor.go:565-566) goes out only after the
\* OnDown and the Always trigger ran without error, and no other; a request is
\* forwarded only after the OnUp and the Always trigger did
\* (minmonitor.go:393-397).  A service from a configuration is excepted: there
\* Always is stored as OnDown (minmonitor.go:105).
TriggersRun ==
    \A p \in Callers : (FilterDone(p) /\ built[svc[p]] = "constructor") =>
        /\ res[p] = "503" => ran[p] = wanted[svc[p]] \cap {"OnDown", "Always"}
        /\ res[p] = "forwarded" => ran[p] = wanted[svc[p]] \cap {"OnUp", "Always"}

\* UpIsForwarded: a request during which the service was up is forwarded,
\* unless a trigger (OnUp or Always, if specified) failed: "This filter will
\* forward to the service if it is up" (minmonitor.go:394).  A service from a
\* configuration is excepted: there is no filter to forward it with, and the
\* request ends in a panic.
UpIsForwarded ==
    \A p \in Callers : (FilterDone(p) /\ ~sawDown[p] /\ built[svc[p]] = "constructor") =>
        \/ res[p] = "forwarded"
        \/ res[p] = "500" /\ wanted[svc[p]] \cap {"OnUp", "Always"} # {}

\* CachedUpIsRecent: the answer up is given without a probe only within the
\* grace period of a successful probe or of SetStatusUp
\* (minmonitor.go:300-308).
CachedUpIsRecent ==
    [][\A p \in Callers : (pc[p] = "last" /\ pc'[p] \notin {"last", "dial"}) =>
          /\ goodAt[svc[p]] # None
          /\ ~Lapsed(goodAt[svc[p]], seen[p])]_vars

\* CachedUpAlone: the same holds of a service whose status no two callers have
\* ever been checking at once: only the two writes lastChecked and up of one
\* caller between the reads or writes of another (minmonitor.go:237-239,
\* 329-331) make a lapsed status look fresh, and no sequence of probes, failed
\* ones included, does.
CachedUpAlone ==
    [][\A p \in Callers :
          (pc[p] = "last" /\ pc'[p] \notin {"last", "dial"} /\ ~met[svc[p]]) =>
              /\ goodAt[svc[p]] # None
              /\ ~Lapsed(goodAt[svc[p]], seen[p])]_vars

=============================================================================
