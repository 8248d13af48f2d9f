--------------------------- MODULE RateLimitTrigger ---------------------------
(***************************************************************************)
(* RateLimitTrigger of trigger/ratelimit.go.  Trigger() is called from the *)
(* goroutines of concurrent requests, keeps the times of past calls in a   *)
(* list and refuses a call if the list is full.                            *)
(*                                                                         *)
(* Nothing guards the list: every read and every write of                  *)
(* previousTriggers is a step of its own.  A list is a value: that two     *)
(* appends may share an array, and then one overwrites the time of the     *)
(* other, changes no length and is left out.                               *)
(***************************************************************************)
EXTENDS Integers, Sequences

CONSTANTS
    Callers,     \* goroutines that call Trigger()
    MaxAllowed,  \* RateLimitTrigger.MaxAllowed
    Period,      \* RateLimitTrigger.Period, in ticks
    MaxCalls,    \* bound: calls made by each caller
    MaxTime,     \* bound: the clock stops there
    NoList       \* the nil slice

\* The zero time is the year 1, farther from any clock reading than the
\* longest time.Duration, of 292 years: the clock starts after Period.
ZeroTime == 0
Times == ZeroTime..MaxTime

ASSUME RateAssumption ==
    /\ MaxAllowed \in Nat /\ Period \in Nat /\ MaxCalls \in Nat
    /\ MaxTime \in Nat /\ MaxTime > Period
    /\ NoList \notin Seq(Times)

VARIABLES
    list,        \* RateLimitTrigger.previousTriggers
    clock,       \* what time.Now() returns
    pc,          \* where each caller is in Trigger()
    now,         \* its local variable now
    held,        \* the slice it is about to store
    calls,       \* calls it has made
    allowed,     \* history: the times now of the calls that were let through
    overlapped   \* history: two callers were inside Trigger() at once

localVars   == <<now, held, calls>>
historyVars == <<allowed, overlapped>>
vars        == <<list, clock, pc, localVars, historyVars>>

TypeOK ==
    /\ list \in Seq(Times) \cup {NoList}
    /\ clock \in Times
    /\ pc \in [Callers -> {"idle", "nil", "len", "first", "cut", "keep", "full",
                           "make", "append", "store", "call", "panic"}]
    /\ now \in [Callers -> Times]
    /\ held \in [Callers -> Seq(Times)]
    /\ calls \in [Callers -> 0..MaxCalls]
    /\ allowed \in Seq(Times)
    /\ overlapped \in BOOLEAN

\* NewRateLimitTrigger and UnmarshalJSON leave the list nil.
Init ==
    /\ list = NoList
    /\ clock = Period + 1
    /\ pc = [p \in Callers |-> "idle"]
    /\ now = [p \in Callers |-> ZeroTime]
    /\ held = [p \in Callers |-> <<>>]
    /\ calls = [p \in Callers |-> 0]
    /\ allowed = <<>>
    /\ overlapped = FALSE

Inside(q) == pc[q] \notin {"idle", "panic"}
Goto(p, step) == pc' = [pc EXCEPT ![p] = step]
AtGoto(p, from, to) == pc[p] = from /\ Goto(p, to)

-----------------------------------------------------------------------------
\* now := time.Now()
Trigger(p) ==
    /\ calls[p] < MaxCalls
    /\ AtGoto(p, "idle", "nil")
    /\ now' = [now EXCEPT ![p] = clock]
    /\ calls' = [calls EXCEPT ![p] = @ + 1]
    /\ overlapped' = (overlapped \/ \E q \in Callers : Inside(q))
    /\ UNCHANGED <<list, clock, held, allowed>>

\* The test of the list for nil.
IsNil(p) ==
    /\ AtGoto(p, "nil", IF list = NoList THEN "make" ELSE "len")
    /\ UNCHANGED <<list, clock, localVars, historyVars>>

\* Variant for a mutation check: the length is not tested.
HasLengthAnyway(p) ==
    /\ AtGoto(p, "len", "first")
    /\ UNCHANGED <<list, clock, localVars, historyVars>>

\* The loop: the list is not empty ...
HasLength(p) ==
    /\ AtGoto(p, "len", IF list = <<>> THEN "full" ELSE "first")
    /\ UNCHANGED <<list, clock, localVars, historyVars>>

\* now.After(t.Add(Period))
Over(t, n) == n > t + Period

\* Variant for a mutation check: the end of the period no longer counts.
IsOverEarly(p) ==
    /\ AtGoto(p, "first", IF list = <<>> THEN "panic"
                          ELSE IF now[p] >= list[1] + Period THEN "cut" ELSE "full")
    /\ UNCHANGED <<list, clock, localVars, historyVars>>

\* ... and its first time is over.  If another caller has emptied the list in
\* the meantime, the index is out of range.
IsOver(p) ==
    /\ AtGoto(p, "first", IF list = <<>> THEN "panic"
                          ELSE IF Over(list[1], now[p]) THEN "cut" ELSE "full")
    /\ UNCHANGED <<list, clock, localVars, historyVars>>

\* previousTriggers[1:], which is out of range if the list is empty by now.
Cut(p) ==
    /\ AtGoto(p, "cut", IF list = <<>> THEN "panic" ELSE "keep")
    /\ held' = [held EXCEPT ![p] = IF list = <<>> THEN @ ELSE Tail(list)]
    /\ UNCHANGED <<list, clock, now, calls, historyVars>>

\* Variant for a mutation check: one time is dropped and not all that are over.
KeepOnce(p) ==
    /\ AtGoto(p, "keep", "full")
    /\ list' = held[p]
    /\ held' = [held EXCEPT ![p] = <<>>]
    /\ UNCHANGED <<clock, now, calls, historyVars>>

\* Variant for a mutation check: the shortened slice is not assigned.
KeepForgotten(p) ==
    /\ AtGoto(p, "keep", "len")
    /\ held' = [held EXCEPT ![p] = <<>>]
    /\ UNCHANGED <<list, clock, now, calls, historyVars>>

\* The assignment of the shortened slice.
Keep(p) ==
    /\ AtGoto(p, "keep", "len")
    /\ list' = held[p]
    /\ held' = [held EXCEPT ![p] = <<>>]
    /\ UNCHANGED <<clock, now, calls, historyVars>>

\* A full list refuses the call with RateLimitExceededError.
IsFull(p) ==
    /\ AtGoto(p, "full", IF Len(list) >= MaxAllowed THEN "idle" ELSE "append")
    /\ UNCHANGED <<list, clock, localVars, historyVars>>

\* The first call: a list of length, not only of capacity, MaxAllowed.  The
\* limit is not checked.
Make(p) ==
    /\ AtGoto(p, "make", "append")
    /\ list' = [i \in 1..MaxAllowed |-> ZeroTime]
    /\ UNCHANGED <<clock, localVars, historyVars>>

\* Variant for a mutation check: the end of the period is recorded.
AppendEnd(p) ==
    /\ AtGoto(p, "append", "store")
    /\ held' = [held EXCEPT ![p] = Append(list, now[p] + Period)]
    /\ UNCHANGED <<list, clock, now, calls, historyVars>>

\* append(previousTriggers, now) ...
AppendNow(p) ==
    /\ AtGoto(p, "append", "store")
    /\ held' = [held EXCEPT ![p] = Append(list, now[p])]
    /\ UNCHANGED <<list, clock, now, calls, historyVars>>

\* ... and its assignment.
Store(p) ==
    /\ AtGoto(p, "store", "call")
    /\ list' = held[p]
    /\ held' = [held EXCEPT ![p] = <<>>]
    /\ UNCHANGED <<clock, now, calls, historyVars>>

\* GuardedTrigger.Trigger() is called.  It may take any time, but touches
\* nothing here: the caller counts as idle and calls again when it likes.
Guarded(p) ==
    /\ AtGoto(p, "call", "idle")
    /\ allowed' = Append(allowed, now[p])
    /\ UNCHANGED <<list, clock, localVars, overlapped>>

Tick ==
    /\ clock < MaxTime
    /\ clock' = clock + 1
    /\ UNCHANGED <<list, pc, localVars, historyVars>>

Step(p) ==
    \/ IsNil(p) \/ HasLength(p) \/ IsOver(p) \/ Cut(p) \/ Keep(p) \/ IsFull(p)
    \/ Make(p) \/ AppendNow(p) \/ Store(p) \/ Guarded(p)

Next == Tick \/ \E p \in Callers : Trigger(p) \/ Step(p)

Spec == Init /\ [][Next]_vars

\* A goroutine that can run does run.
FairSpec == Spec /\ \A p \in Callers : WF_vars(Step(p))

-----------------------------------------------------------------------------
\* AllowedInWindow: no MaxAllowed + 1 of the calls that were let through lie
\* within one period: the guarded trigger is not "called more than a specified
\* number of times over a specified duration" (ratelimit.go:17-19), going by
\* the times the calls came in.
AllowedInWindow ==
    \A i \in DOMAIN allowed :
        i + MaxAllowed \in DOMAIN allowed => Over(allowed[i], allowed[i + MaxAllowed])

\* WindowLimit: as long as calls have not overlapped, the limit holds.
WindowLimit == ~overlapped => AllowedInWindow

\* RefusedMeansFull: as long as calls have not overlapped, a call is refused
\* (ratelimit.go:100-102) only if MaxAllowed calls were let through within the
\* period before it: neither times that are over nor the zero times the list
\* is made of (ratelimit.go:104) count.
RefusedMeansFull ==
    [][\A p \in Callers : (pc[p] = "full" /\ pc'[p] = "idle" /\ ~overlapped) =>
          LET n == Len(allowed) - MaxAllowed
          IN  n >= 0 /\ (MaxAllowed > 0 => ~Over(allowed[n + 1], now[p]))]_vars

\* PanicsOnlyMeeting: an index out of range, which ends a call in a panic
\* (ratelimit.go:94-97), takes two calls that overlap: by itself the loop
\* tests the length before each use, however many times it drops.
PanicsOnlyMeeting == (\E p \in Callers : pc[p] = "panic") => overlapped

\* CallsEnd: every call gets out of the loop (ratelimit.go:94-98) and ends,
\* however the others shorten and extend the list meanwhile.
CallsEnd == \A p \in Callers : Inside(p) ~> ~Inside(p)

=============================================================================
