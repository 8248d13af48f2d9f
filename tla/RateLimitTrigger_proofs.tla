------------------------ MODULE RateLimitTrigger_proofs ------------------------
(***************************************************************************)
(* Theorems about RateLimitTrigger.                                        *)
(***************************************************************************)
EXTENDS RateLimitTrigger, TLAPS

\* The program counters at which the list has been made.
AfterMake == {"len", "first", "cut", "keep", "full", "append", "store", "call"}

\* The list is never nil again: what makes its operations well-typed.
Made == \A p \in Callers : pc[p] \in AfterMake => list # NoList

LEMMA ZeroList == [i \in 1..MaxAllowed |-> ZeroTime] \in Seq(Times)
BY RateAssumption DEF RateAssumption, Times, ZeroTime

LEMMA TypeStep == TypeOK /\ Made /\ [Next]_vars => TypeOK' /\ Made'
<1> SUFFICES ASSUME TypeOK, Made, [Next]_vars PROVE TypeOK' /\ Made'
    OBVIOUS
<1> USE RateAssumption DEF RateAssumption, TypeOK, Made, AfterMake, AtGoto, Goto
<1>1. ASSUME NEW p \in Callers, Trigger(p) PROVE TypeOK' /\ Made'
    BY <1>1 DEF Trigger, Inside
<1>2. ASSUME NEW p \in Callers, IsNil(p) \/ HasLength(p) \/ IsOver(p) \/ IsFull(p)
      PROVE  TypeOK' /\ Made'
    BY <1>2 DEF IsNil, HasLength, IsOver, IsFull, localVars, historyVars
<1>3. ASSUME NEW p \in Callers, Cut(p) PROVE TypeOK' /\ Made'
    <2>1. list \in Seq(Times)
        BY <1>3 DEF Cut
    <2>2. list # <<>> => Tail(list) \in Seq(Times)
        BY <2>1
    <2> QED
        BY <1>3, <2>2 DEF Cut, historyVars
<1>4. ASSUME NEW p \in Callers, Keep(p) \/ Store(p) PROVE TypeOK' /\ Made'
    <2>1. held[p] \in Seq(Times) /\ <<>> \in Seq(Times)
        OBVIOUS
    <2> QED
        BY <1>4, <2>1 DEF Keep, Store, historyVars
<1>5. ASSUME NEW p \in Callers, Make(p) PROVE TypeOK' /\ Made'
    BY <1>5, ZeroList DEF Make, localVars, historyVars
<1>6. ASSUME NEW p \in Callers, AppendNow(p) PROVE TypeOK' /\ Made'
    <2>1. Append(list, now[p]) \in Seq(Times)
        BY <1>6 DEF AppendNow
    <2> QED
        BY <1>6, <2>1 DEF AppendNow, historyVars
<1>7. ASSUME NEW p \in Callers, Guarded(p) PROVE TypeOK' /\ Made'
    <2>1. Append(allowed, now[p]) \in Seq(Times)
        OBVIOUS
    <2> QED
        BY <1>7, <2>1 DEF Guarded, localVars
<1>8. CASE Tick
    BY <1>8 DEF Tick, localVars, historyVars, Times, ZeroTime
<1>9. CASE UNCHANGED vars
    BY <1>9 DEF vars, localVars, historyVars
<1> QED
    BY <1>1, <1>2, <1>3, <1>4, <1>5, <1>6, <1>7, <1>8, <1>9 DEF Next, Step

LEMMA TypeInit == Init => TypeOK /\ Made
<1>1. <<>> \in Seq(Times)
    OBVIOUS
<1>2. Period + 1 \in Times /\ ZeroTime \in Times
    BY RateAssumption DEF RateAssumption, Times, ZeroTime
<1>3. 0 \in 0..MaxCalls
    BY RateAssumption DEF RateAssumption
<1> QED
    BY <1>1, <1>2, <1>3 DEF Init, TypeOK, Made, AfterMake

LEMMA TypeInvariant == Spec => [](TypeOK /\ Made)
BY TypeInit, TypeStep, PTL DEF Spec

\* TypeCorrect: the variables of the rate limit keep their types, although
\* callers overwrite each other's lists (ratelimit.go:94-107).
THEOREM TypeCorrect == Spec => []TypeOK
BY TypeInvariant, PTL

-----------------------------------------------------------------------------
(***************************************************************************)
(* Panics.  A caller that is alone finds the list as it left it: not empty *)
(* where it has tested that, whatever the limit.                           *)
(***************************************************************************)
ListTested ==
    /\ \A p, q \in Callers : Inside(p) /\ Inside(q) => p = q
    /\ \A p \in Callers : pc[p] \in {"first", "cut"} => list # <<>>
    /\ \A p \in Callers : pc[p] # "panic"

PanicInv == TypeOK /\ (~overlapped => ListTested)

LEMMA PanicStep == TypeOK /\ PanicInv /\ [Next]_vars => (~overlapped => ListTested)'
<1> SUFFICES ASSUME TypeOK, PanicInv, [Next]_vars, ~overlapped' PROVE ListTested'
    OBVIOUS
<1> USE DEF TypeOK, PanicInv, AtGoto, Goto
<1>1. ASSUME NEW p \in Callers, Trigger(p) PROVE ListTested'
    <2>1. ~overlapped /\ \A q \in Callers : ~Inside(q)
        BY <1>1 DEF Trigger
    <2>2. pc' = [pc EXCEPT ![p] = "nil"] /\ list' = list
        BY <1>1 DEF Trigger
    <2> QED
        BY <2>1, <2>2 DEF ListTested, Inside
<1>2. ASSUME NEW p \in Callers, Step(p) PROVE ListTested'
    <2>1. overlapped' = overlapped /\ Inside(p)
        BY <1>2 DEF Step, IsNil, HasLength, IsOver, Cut, Keep, IsFull, Make, AppendNow, Store,
               Guarded, historyVars, Inside
    <2>2. ListTested /\ \A q \in Callers : q # p => ~Inside(q)
        BY <2>1 DEF ListTested
    <2>3. \A q \in Callers : q # p => pc'[q] = pc[q] /\ pc'[q] = "idle"
        BY <1>2, <2>2 DEF Step, IsNil, HasLength, IsOver, Cut, Keep, IsFull, Make, AppendNow,
               Store, Guarded, Inside, ListTested
    <2>4. /\ pc'[p] # "panic"
          /\ pc'[p] \in {"first", "cut"} => list' # <<>>
        BY <1>2, <2>2 DEF Step, IsNil, HasLength, IsOver, Cut, Keep, IsFull, Make, AppendNow,
               Store, Guarded, ListTested, localVars
    <2> QED
        BY <2>3, <2>4 DEF ListTested, Inside
<1>3. CASE Tick \/ UNCHANGED vars
    BY <1>3 DEF Tick, vars, localVars, historyVars, ListTested, Inside
<1> QED
    BY <1>1, <1>2, <1>3 DEF Next

\* PanicsMeeting: a panic takes two overlapping calls, for any number of
\* callers and any limit, zero included.
THEOREM PanicsMeeting == Spec => []PanicsOnlyMeeting
<1>1. Init => PanicInv
    BY TypeInit DEF Init, PanicInv, ListTested, Inside
<1>2. TypeOK' /\ PanicInv /\ [Next]_vars => PanicInv'
    BY PanicStep DEF PanicInv
<1>3. PanicInv => PanicsOnlyMeeting
    BY DEF PanicInv, ListTested, PanicsOnlyMeeting
<1> QED
    BY <1>1, <1>2, <1>3, TypeCorrect, PTL DEF Spec

-----------------------------------------------------------------------------
(***************************************************************************)
(* The list as a window on the calls let through.  Tracks says that list l *)
(* ends with the same times as a and has zero times before them, Gone that *)
(* what l no longer has of a is over at time t.                            *)
(***************************************************************************)
Tracks(l, a) ==
    \A k \in 1..Len(l) :
        LET j == Len(a) - Len(l) + k
        IN  l[k] = IF j >= 1 THEN a[j] ELSE ZeroTime

Gone(l, a, t) == \A i \in 1..Len(a) : i <= Len(a) - Len(l) => Over(a[i], t)

Sorted(a, t) ==
    /\ \A i, j \in 1..Len(a) : i <= j => a[i] <= a[j]
    /\ \A i \in 1..Len(a) : a[i] <= t

\* Calls a, of which no MaxAllowed + 1 lie within one period.
InWindow(a) == \A i \in 1..Len(a) : i + MaxAllowed <= Len(a) => Over(a[i], a[i + MaxAllowed])

\* List l is right for calls a at time t.
Right(l, a, t) == Tracks(l, a) /\ Gone(l, a, t) /\ Sorted(a, t)

\* Where p is alone inside Trigger(): what it knows at each step.
Alone(p) ==
    /\ pc[p] = "make" => list = NoList
    /\ pc[p] \in {"first", "cut", "keep"} => list # <<>>
    /\ pc[p] \in {"cut", "keep"} => Over(list[1], now[p])
    /\ pc[p] = "keep" => held[p] = Tail(list)
    /\ pc[p] = "full" => list = <<>> \/ ~Over(list[1], now[p])
    /\ pc[p] \in {"append", "store", "call"} => InWindow(Append(allowed, now[p]))
    /\ pc[p] = "store" => held[p] = Append(list, now[p])
    /\ pc[p] = "call" => Right(list, Append(allowed, now[p]), now[p])
    /\ (pc[p] # "call" /\ list # NoList) => Right(list, allowed, now[p])

\* What holds as long as calls have not overlapped.
OneAtATime ==
    /\ \A p, q \in Callers : Inside(p) /\ Inside(q) => p = q
    /\ \A p \in Callers : Inside(p) => Alone(p)
    /\ list = NoList => allowed = <<>>
    /\ (\A p \in Callers : ~Inside(p)) => (list # NoList => Right(list, allowed, clock))
    /\ InWindow(allowed)

\* The clock is past Period, and no call comes from the future.
InTime ==
    /\ clock > Period
    /\ \A p \in Callers : Inside(p) => now[p] > Period /\ now[p] <= clock

RateInv == TypeOK /\ Made /\ InTime /\ (~overlapped => OneAtATime)

-----------------------------------------------------------------------------
LEMMA TimesAreNat == Times \subseteq Nat /\ Period \in Nat
BY RateAssumption DEF RateAssumption, Times, ZeroTime

\* Dropping a first time that is over keeps a list right.
LEMMA RightCut ==
    ASSUME NEW l \in Seq(Times), NEW a \in Seq(Times), NEW t \in Times,
           l # <<>>, Right(l, a, t), Over(l[1], t), t > Period
    PROVE  Right(Tail(l), a, t)
<1> DEFINE m == Tail(l)
<1>1. m \in Seq(Times) /\ Len(m) = Len(l) - 1 /\ \A k \in 1..Len(m) : m[k] = l[k + 1]
    OBVIOUS
<1>2. Tracks(m, a)
    BY <1>1 DEF Right, Tracks
<1>3. ASSUME NEW i \in 1..Len(a), i <= Len(a) - Len(m) PROVE Over(a[i], t)
    <2>1. CASE i <= Len(a) - Len(l)
        BY <2>1 DEF Right, Gone
    <2>2. CASE i = Len(a) - Len(l) + 1
        BY <2>2 DEF Right, Tracks
    <2> QED
        BY <1>1, <1>3, <2>1, <2>2
<1> QED
    BY <1>2, <1>3 DEF Right, Gone

\* Recording a call that is let through keeps a list right.
LEMMA RightAppend ==
    ASSUME NEW l \in Seq(Times), NEW a \in Seq(Times), NEW t \in Times, Right(l, a, t)
    PROVE  Right(Append(l, t), Append(a, t), t)
<1> DEFINE m == Append(l, t)
           b == Append(a, t)
<1>1. /\ Len(m) = Len(l) + 1 /\ m[Len(l) + 1] = t
      /\ \A k \in 1..Len(l) : m[k] = l[k]
    OBVIOUS
<1>2. /\ Len(b) = Len(a) + 1 /\ b[Len(a) + 1] = t
      /\ \A k \in 1..Len(a) : b[k] = a[k]
    OBVIOUS
<1>3. Tracks(m, b)
    BY <1>1, <1>2 DEF Right, Tracks
<1>4. Gone(m, b, t)
    BY <1>1, <1>2 DEF Right, Gone
<1>5. Sorted(b, t)
    BY <1>1, <1>2 DEF Right, Sorted, Times
<1> QED
    BY <1>3, <1>4, <1>5 DEF Right

\* As time goes on a list stays right.
LEMMA RightLater ==
    ASSUME NEW l \in Seq(Times), NEW a \in Seq(Times), NEW t \in Times, NEW u \in Times,
           Right(l, a, t), t <= u
    PROVE  Right(l, a, u)
<1>1. t \in Nat /\ u \in Nat /\ Period \in Nat /\ \A i \in 1..Len(a) : a[i] \in Nat
    <2>1. \A i \in 1..Len(a) : a[i] \in Times
        OBVIOUS
    <2> QED
        BY <2>1, TimesAreNat
<1>2. Gone(l, a, u)
    BY <1>1 DEF Right, Gone, Over
<1>3. Sorted(a, u)
    BY <1>1 DEF Right, Sorted
<1> QED
    BY <1>2, <1>3 DEF Right

\* The list as it is made is right as long as no call has been let through.
LEMMA RightZeros == ASSUME NEW t PROVE Right([i \in 1..MaxAllowed |-> ZeroTime], <<>>, t)
BY RateAssumption DEF RateAssumption, Right, Tracks, Gone, Sorted

\* One more call is within the limit if the list is not full.
LEMMA OneMore ==
    ASSUME NEW l \in Seq(Times), NEW a \in Seq(Times), NEW t \in Times,
           Right(l, a, t), InWindow(a), Len(l) < MaxAllowed
    PROVE  InWindow(Append(a, t))
<1> DEFINE b == Append(a, t)
<1>1. /\ Len(b) = Len(a) + 1 /\ b[Len(a) + 1] = t
      /\ \A k \in 1..Len(a) : b[k] = a[k]
    OBVIOUS
<1>2. ASSUME NEW i \in 1..Len(b), i + MaxAllowed <= Len(b)
      PROVE  Over(b[i], b[i + MaxAllowed])
    <2>1. i \in 1..Len(a)
        BY <1>1, <1>2, RateAssumption DEF RateAssumption
    <2>2. CASE i + MaxAllowed <= Len(a)
        BY <1>1, <2>1, <2>2, RateAssumption DEF RateAssumption, InWindow
    <2>3. CASE i + MaxAllowed = Len(a) + 1
        BY <1>1, <2>1, <2>3, RateAssumption DEF RateAssumption, Right, Gone
    <2> QED
        BY <1>1, <1>2, <2>2, <2>3, RateAssumption DEF RateAssumption
<1> QED
    BY <1>2 DEF InWindow

\* The first call is within the limit, unless that is zero.
LEMMA FirstOne ==
    ASSUME NEW t \in Times, MaxAllowed > 0 PROVE InWindow(Append(<<>>, t))
BY RateAssumption DEF RateAssumption, InWindow

\* A full list whose first time is not over stands for MaxAllowed calls.
LEMMA FullMeansFull ==
    ASSUME NEW l \in Seq(Times), NEW a \in Seq(Times), NEW t \in Times, Right(l, a, t),
           t > Period, l = <<>> \/ ~Over(l[1], t), Len(l) >= MaxAllowed
    PROVE  /\ Len(a) - MaxAllowed >= 0
           /\ MaxAllowed > 0 => ~Over(a[Len(a) - MaxAllowed + 1], t)
<1>1. CASE l = <<>>
    <2>1. Len(l) = 0 /\ MaxAllowed = 0
        BY <1>1, RateAssumption DEF RateAssumption
    <2> QED
        BY <2>1
<1>2. CASE l # <<>>
    <2> DEFINE j == Len(a) - Len(l) + 1
    <2>1. 1 \in 1..Len(l) /\ j = Len(a) - Len(l) + 1 /\ j \in Int /\ j <= Len(a)
        BY <1>2
    <2> HIDE DEF j
    <2>2. l[1] = IF j >= 1 THEN a[j] ELSE ZeroTime
        BY <2>1 DEF Right, Tracks
    <2>3. Over(ZeroTime, t)
        BY RateAssumption DEF RateAssumption, Over, ZeroTime, Times
    <2>4. j >= 1 /\ ~Over(a[j], t)
        BY <1>2, <2>2, <2>3
    <2> DEFINE n == Len(a) - MaxAllowed + 1
    <2>5. Len(a) - MaxAllowed >= 0 /\ n >= j /\ (MaxAllowed > 0 => n \in 1..Len(a))
        BY <2>1, <2>4, RateAssumption DEF RateAssumption
    <2>6. ASSUME MaxAllowed > 0 PROVE ~Over(a[n], t)
        <3> HIDE DEF n
        <3>1. j \in 1..Len(a) /\ n \in 1..Len(a) /\ j <= n
            BY <2>1, <2>4, <2>5, <2>6
        <3>2. a[j] <= a[n]
            BY <3>1 DEF Right, Sorted
        <3>3. a[j] \in Times /\ a[n] \in Times
            BY <3>1
        <3>4. a[j] \in Nat /\ a[n] \in Nat /\ t \in Nat /\ Period \in Nat
            BY <3>3, TimesAreNat
        <3> QED
            BY <2>4, <3>2, <3>4 DEF Over
    <2> QED
        BY <2>5, <2>6
<1> QED
    BY <1>1, <1>2

-----------------------------------------------------------------------------
\* A step of p, alone inside Trigger(), concerns p only.
LEMMA StepFrame ==
    ASSUME OneAtATime, TypeOK, NEW p \in Callers, Inside(p),
           NEW s, Goto(p, s), Inside(p)' => Alone(p)',
           ~Inside(p)' => (list' # NoList => Right(list', allowed', clock')),
           list' = NoList => allowed' = <<>>, InWindow(allowed')
    PROVE  OneAtATime'
<1>1. \A q \in Callers : Inside(q)' => q = p
    BY DEF OneAtATime, TypeOK, Inside, Goto
<1> QED
    BY <1>1 DEF OneAtATime

\* The steps of a call after its first.
LEMMA OwnStep ==
    ASSUME RateInv, TypeOK', MaxAllowed > 0, ~overlapped, NEW p \in Callers, Step(p)
    PROVE  OneAtATime'
<1>1. OneAtATime /\ TypeOK /\ Made
    BY DEF RateInv
<1>2. Inside(p)
    BY DEF Step, IsNil, HasLength, IsOver, Cut, Keep, IsFull, Make, AppendNow,
                Store, Guarded, AtGoto, Inside
<1>3. Alone(p) /\ (list = NoList => allowed = <<>>) /\ InWindow(allowed)
    BY <1>1, <1>2 DEF OneAtATime
<1>4. /\ now[p] \in Times /\ clock \in Times /\ allowed \in Seq(Times)
      /\ now[p] > Period /\ now[p] <= clock
      /\ list # NoList => list \in Seq(Times)
    BY <1>1, <1>2 DEF RateInv, InTime, TypeOK
<1> DEFINE Goal(s) ==
        /\ Goto(p, s) /\ pc'[p] = s
        /\ Inside(p)' => Alone(p)'
        /\ ~Inside(p)' => (list' # NoList => Right(list', allowed', clock'))
        /\ list' = NoList => allowed' = <<>>
        /\ InWindow(allowed')
<1>5. ASSUME NEW s, Goal(s) PROVE OneAtATime'
    BY <1>1, <1>2, <1>5, StepFrame
<1>6. ASSUME NEW s, Goto(p, s) PROVE pc'[p] = s
    BY <1>1, <1>6 DEF Goto, TypeOK
<1>7. CASE IsNil(p)
    <2> DEFINE s == IF list = NoList THEN "make" ELSE "len"
    <2>1. pc[p] = "nil" /\ Goto(p, s) /\ UNCHANGED <<list, clock, now, allowed, held>>
        BY <1>7 DEF IsNil, AtGoto, localVars, historyVars
    <2>2. pc'[p] = s
        BY <1>6, <2>1
    <2>3. Alone(p)' /\ Inside(p)'
        BY <1>3, <2>1, <2>2 DEF Alone, Inside
    <2> QED
        BY <1>3, <1>5, <2>1, <2>2, <2>3
<1>8. CASE HasLength(p)
    <2> DEFINE s == IF list = <<>> THEN "full" ELSE "first"
    <2>1. pc[p] = "len" /\ Goto(p, s) /\ UNCHANGED <<list, clock, now, allowed, held>>
        BY <1>8 DEF HasLength, AtGoto, localVars, historyVars
    <2>2. pc'[p] = s
        BY <1>6, <2>1
    <2>3. Alone(p)' /\ Inside(p)'
        BY <1>3, <2>1, <2>2 DEF Alone, Inside
    <2> QED
        BY <1>3, <1>5, <2>1, <2>2, <2>3
<1>9. CASE IsOver(p)
    <2> DEFINE s == IF Over(list[1], now[p]) THEN "cut" ELSE "full"
    <2>1. pc[p] = "first" /\ list # <<>> /\ UNCHANGED <<list, clock, now, allowed, held>>
        BY <1>3, <1>9 DEF IsOver, AtGoto, localVars, historyVars, Alone
    <2>2. Goto(p, s)
        BY <1>9, <2>1 DEF IsOver, AtGoto
    <2>3. pc'[p] = s
        BY <1>6, <2>2
    <2>4. Alone(p)' /\ Inside(p)'
        BY <1>3, <2>1, <2>3 DEF Alone, Inside
    <2> QED
        BY <1>3, <1>5, <2>1, <2>2, <2>3, <2>4
<1>10. CASE Cut(p)
    <2>1. /\ pc[p] = "cut" /\ list # <<>> /\ UNCHANGED <<list, clock, now, allowed>>
          /\ held' = [held EXCEPT ![p] = Tail(list)]
        BY <1>3, <1>10 DEF Cut, AtGoto, historyVars, Alone
    <2>2. Goto(p, "keep") /\ held'[p] = Tail(list)
        BY <1>1, <1>10, <2>1 DEF Cut, AtGoto, TypeOK
    <2>3. pc'[p] = "keep"
        BY <1>6, <2>2
    <2>4. Alone(p)' /\ Inside(p)'
        BY <1>3, <2>1, <2>2, <2>3 DEF Alone, Inside
    <2> QED
        BY <1>3, <1>5, <2>1, <2>2, <2>3, <2>4
<1>11. CASE Keep(p)
    <2>1. /\ pc[p] = "keep" /\ Goto(p, "len") /\ list' = held[p]
          /\ UNCHANGED <<clock, now, allowed>>
        BY <1>11 DEF Keep, AtGoto, historyVars
    <2>2. list # NoList /\ list \in Seq(Times)
        BY <1>1, <1>4, <2>1 DEF Made, AfterMake
    <2>3. Right(Tail(list), allowed, now[p])
        BY <1>3, <1>4, <2>1, <2>2, RightCut DEF Alone
    <2>4. list' = Tail(list) /\ list' \in Seq(Times)
        BY <1>1, <1>3, <2>1 DEF Alone, TypeOK
    <2>5. pc'[p] = "len" /\ list' # NoList
        BY <1>6, <2>1, <2>4, RateAssumption DEF RateAssumption
    <2>6. Alone(p)' /\ Inside(p)'
        BY <2>1, <2>3, <2>4, <2>5 DEF Alone, Inside
    <2> QED
        BY <1>3, <1>5, <2>1, <2>5, <2>6
<1>12. CASE IsFull(p)
    <2> DEFINE s == IF Len(list) >= MaxAllowed THEN "idle" ELSE "append"
    <2>1. pc[p] = "full" /\ Goto(p, s) /\ UNCHANGED <<list, clock, now, allowed, held>>
        BY <1>12 DEF IsFull, AtGoto, localVars, historyVars
    <2>2. pc'[p] = s
        BY <1>6, <2>1
    <2>3. list # NoList /\ list \in Seq(Times)
        BY <1>1, <1>4, <2>1 DEF Made, AfterMake
    <2>4. Right(list, allowed, now[p])
        BY <1>3, <2>1, <2>3 DEF Alone
    <2>5. CASE Len(list) >= MaxAllowed
        <3>1. Right(list, allowed, clock)
            BY <1>4, <2>3, <2>4, RightLater
        <3>2. ~Inside(p)' /\ s = "idle"
            BY <2>2, <2>5 DEF Inside
        <3> QED
            BY <1>3, <1>5, <2>1, <2>2, <3>1, <3>2
    <2>6. CASE Len(list) < MaxAllowed
        <3>1. InWindow(Append(allowed, now[p]))
            BY <1>3, <1>4, <2>3, <2>4, <2>6, OneMore
        <3>2. s = "append"
            BY <2>3, <2>6, RateAssumption DEF RateAssumption
        <3>3. Alone(p)' /\ Inside(p)'
            BY <2>1, <2>2, <2>4, <3>1, <3>2 DEF Alone, Inside
        <3> QED
            BY <1>3, <1>5, <2>1, <2>2, <3>3
    <2> QED
        BY <2>3, <2>5, <2>6, RateAssumption DEF RateAssumption
<1>13. CASE Make(p)
    <2>1. /\ pc[p] = "make" /\ Goto(p, "append") /\ UNCHANGED <<clock, now, allowed>>
          /\ list' = [i \in 1..MaxAllowed |-> ZeroTime]
        BY <1>13 DEF Make, AtGoto, localVars, historyVars
    <2>2. allowed = <<>>
        BY <1>3, <2>1 DEF Alone
    <2>3. Right(list', allowed, now[p])
        BY <2>1, <2>2, RightZeros
    <2>4. InWindow(Append(allowed, now[p]))
        BY <1>4, <2>2, FirstOne
    <2>5. pc'[p] = "append" /\ list' # NoList
        BY <1>6, <2>1, ZeroList, RateAssumption DEF RateAssumption
    <2>6. Alone(p)' /\ Inside(p)'
        BY <2>1, <2>3, <2>4, <2>5 DEF Alone, Inside
    <2> QED
        BY <1>3, <1>5, <2>1, <2>5, <2>6
<1>14. CASE AppendNow(p)
    <2>1. /\ pc[p] = "append" /\ Goto(p, "store") /\ UNCHANGED <<list, clock, now, allowed>>
          /\ held' = [held EXCEPT ![p] = Append(list, now[p])]
        BY <1>14 DEF AppendNow, AtGoto, historyVars
    <2>2. pc'[p] = "store" /\ held'[p] = Append(list, now[p])
        BY <1>1, <1>6, <2>1 DEF TypeOK
    <2>3. Alone(p)' /\ Inside(p)'
        BY <1>3, <2>1, <2>2 DEF Alone, Inside
    <2> QED
        BY <1>3, <1>5, <2>1, <2>2, <2>3
<1>15. CASE Store(p)
    <2>1. /\ pc[p] = "store" /\ Goto(p, "call") /\ list' = held[p]
          /\ UNCHANGED <<clock, now, allowed>>
        BY <1>15 DEF Store, AtGoto, historyVars
    <2>2. list # NoList /\ list \in Seq(Times)
        BY <1>1, <1>4, <2>1 DEF Made, AfterMake
    <2>3. Right(list, allowed, now[p]) /\ list' = Append(list, now[p])
        BY <1>3, <2>1, <2>2 DEF Alone
    <2>4. Right(list', Append(allowed, now[p]), now[p])
        BY <1>4, <2>2, <2>3, RightAppend
    <2>5. list' \in Seq(Times)
        BY <1>1, <2>1 DEF TypeOK
    <2>6. pc'[p] = "call" /\ list' # NoList
        BY <1>6, <2>1, <2>5, RateAssumption DEF RateAssumption
    <2>7. Alone(p)' /\ Inside(p)'
        BY <1>3, <2>1, <2>4, <2>6 DEF Alone, Inside
    <2> QED
        BY <1>3, <1>5, <2>1, <2>6, <2>7
<1>16. CASE Guarded(p)
    <2>1. /\ pc[p] = "call" /\ Goto(p, "idle") /\ allowed' = Append(allowed, now[p])
          /\ UNCHANGED <<list, clock>>
        BY <1>16 DEF Guarded, AtGoto, localVars
    <2>2. list # NoList /\ list \in Seq(Times)
        BY <1>1, <1>4, <2>1 DEF Made, AfterMake
    <2>3. Right(list, allowed', now[p]) /\ InWindow(allowed')
        BY <1>3, <2>1 DEF Alone
    <2>4. allowed' \in Seq(Times)
        BY DEF TypeOK
    <2>5. Right(list, allowed', clock)
        BY <1>4, <2>2, <2>3, <2>4, RightLater
    <2>6. pc'[p] = "idle" /\ ~Inside(p)'
        BY <1>6, <2>1 DEF Inside
    <2> QED
        BY <1>5, <2>1, <2>2, <2>3, <2>5, <2>6
<1> QED
    BY <1>7, <1>8, <1>9, <1>10, <1>11, <1>12, <1>13, <1>14, <1>15, <1>16 DEF Step

\* A call comes in: unless there is one already, it has Trigger() for itself.
LEMMA FirstStep ==
    ASSUME RateInv, NEW p \in Callers, Trigger(p), ~overlapped'
    PROVE  OneAtATime'
<1>1. /\ ~overlapped /\ pc[p] = "idle" /\ pc' = [pc EXCEPT ![p] = "nil"]
      /\ now' = [now EXCEPT ![p] = clock] /\ UNCHANGED <<list, clock, allowed, held>>
      /\ \A q \in Callers : ~Inside(q)
    BY DEF Trigger, AtGoto, Goto
<1>2. OneAtATime /\ TypeOK
    BY <1>1 DEF RateInv
<1>3. pc'[p] = "nil" /\ now'[p] = clock /\ \A q \in Callers : Inside(q)' => q = p
    BY <1>1, <1>2 DEF TypeOK, Inside
<1>4. list # NoList => Right(list, allowed, clock)
    BY <1>1, <1>2 DEF OneAtATime
<1>5. Alone(p)' /\ Inside(p)'
    BY <1>1, <1>3, <1>4 DEF Alone, Inside
<1> QED
    BY <1>1, <1>2, <1>3, <1>5 DEF OneAtATime

\* Time passes.
LEMMA TickStep ==
    ASSUME RateInv, TypeOK', Tick, ~overlapped
    PROVE  OneAtATime'
<1>1. OneAtATime /\ TypeOK
    BY DEF RateInv
<1>2. /\ UNCHANGED <<list, pc, now, held, allowed>> /\ clock' \in Times /\ clock \in Times
      /\ clock <= clock' /\ allowed \in Seq(Times)
    BY <1>1, RateAssumption DEF RateAssumption, Tick, localVars, historyVars, TypeOK, Times
<1>3. ASSUME list # NoList, Right(list, allowed, clock) PROVE Right(list, allowed, clock')
    BY <1>1, <1>2, <1>3, RightLater DEF TypeOK
<1> QED
    BY <1>1, <1>2, <1>3 DEF OneAtATime, Inside, Alone

LEMMA InTimeStep == RateInv /\ TypeOK' /\ [Next]_vars => InTime'
<1> SUFFICES ASSUME RateInv, TypeOK', [Next]_vars PROVE InTime'
    OBVIOUS
<1> USE DEF RateInv, InTime, Inside, TypeOK, AtGoto, Goto
<1>1. ASSUME NEW p \in Callers, Trigger(p) PROVE InTime'
    <2>1. /\ clock' = clock /\ now' = [now EXCEPT ![p] = clock]
          /\ \A q \in Callers \ {p} : pc'[q] = pc[q]
        BY <1>1 DEF Trigger
    <2>2. clock \in Nat /\ clock > Period
        BY RateAssumption DEF RateAssumption, Times, ZeroTime
    <2> QED
        BY <2>1, <2>2, RateAssumption DEF RateAssumption
<1>2. ASSUME NEW p \in Callers, Step(p) PROVE InTime'
    <2>1. Inside(p) /\ UNCHANGED <<clock, now>> /\ \A q \in Callers \ {p} : pc'[q] = pc[q]
        BY <1>2 DEF Step, IsNil, HasLength, IsOver, Cut, Keep, IsFull, Make, AppendNow,
                    Store, Guarded, localVars
    <2> QED
        BY <2>1
<1>3. CASE Tick
    <2>1. clock \in Nat /\ clock' = clock + 1 /\ Period \in Nat /\ UNCHANGED <<pc, now>>
        BY <1>3, RateAssumption DEF RateAssumption, Tick, localVars, Times, ZeroTime
    <2>2. \A q \in Callers : now[q] \in Nat
        BY TimesAreNat
    <2> QED
        BY <2>1, <2>2
<1>4. CASE UNCHANGED vars
    BY <1>4 DEF vars, localVars
<1> QED
    BY <1>1, <1>2, <1>3, <1>4 DEF Next

LEMMA RateStep ==
    ASSUME MaxAllowed > 0
    PROVE  RateInv /\ [Next]_vars => RateInv'
<1> SUFFICES ASSUME RateInv, [Next]_vars PROVE RateInv'
    OBVIOUS
<1>1. TypeOK' /\ Made' /\ InTime'
    BY TypeStep, InTimeStep DEF RateInv
<1>2. ASSUME ~overlapped' PROVE OneAtATime'
    <2>1. ASSUME NEW p \in Callers, Trigger(p) PROVE OneAtATime'
        BY <1>2, <2>1, FirstStep
    <2>2. ASSUME NEW p \in Callers, Step(p) PROVE OneAtATime'
        <3>1. ~overlapped
            BY <1>2, <2>2 DEF Step, IsNil, HasLength, IsOver, Cut, Keep, IsFull, Make,
                              AppendNow, Store, Guarded, historyVars
        <3> QED
            BY <1>1, <2>2, <3>1, OwnStep
    <2>3. CASE Tick
        BY <1>1, <1>2, <2>3, TickStep DEF Tick, historyVars
    <2>4. CASE UNCHANGED vars
        <3>1. UNCHANGED <<list, clock, pc, now, held, allowed, overlapped>>
            BY <2>4 DEF vars, localVars, historyVars
        <3> QED
            BY <1>2, <3>1 DEF RateInv, OneAtATime, Inside, Alone
    <2> QED
        BY <2>1, <2>2, <2>3, <2>4 DEF Next
<1> QED
    BY <1>1, <1>2 DEF RateInv

LEMMA RateInit == Init => RateInv
<1> SUFFICES ASSUME Init PROVE RateInv
    OBVIOUS
<1>1. \A p \in Callers : ~Inside(p)
    BY DEF Init, Inside
<1>2. clock > Period /\ list = NoList /\ allowed = <<>> /\ InWindow(allowed)
    BY RateAssumption DEF RateAssumption, Init, InWindow
<1> QED
    BY <1>1, <1>2, TypeInit DEF RateInv, InTime, OneAtATime

LEMMA RateInvariant == ASSUME MaxAllowed > 0 PROVE Spec => []RateInv
BY RateInit, RateStep, PTL DEF Spec

\* WithinLimit: as long as calls do not overlap, no more than MaxAllowed of
\* them are let through within a period (ratelimit.go:17-19).  With a limit of
\* zero the first call is let through all the same.
THEOREM WithinLimit == ASSUME MaxAllowed > 0 PROVE Spec => []WindowLimit
<1>1. RateInv => WindowLimit
    <2> SUFFICES ASSUME RateInv, ~overlapped PROVE AllowedInWindow
        BY DEF WindowLimit
    <2>1. InWindow(allowed) /\ allowed \in Seq(Times)
        BY DEF RateInv, OneAtATime, TypeOK
    <2> QED
        BY <2>1, RateAssumption DEF RateAssumption, InWindow, AllowedInWindow
<1> QED
    BY <1>1, RateInvariant, PTL

\* RefusedFull: as long as calls do not overlap, a call is refused only if the
\* limit was reached within the period before it (ratelimit.go:94-104).
THEOREM RefusedFull == ASSUME MaxAllowed > 0 PROVE Spec => RefusedMeansFull
<1> DEFINE Full(p) == LET n == Len(allowed) - MaxAllowed
                      IN  n >= 0 /\ (MaxAllowed > 0 => ~Over(allowed[n + 1], now[p]))
           Refuses(p) == pc[p] = "full" /\ pc'[p] = "idle" /\ ~overlapped
<1>1. ASSUME RateInv, [Next]_vars, NEW p \in Callers, Refuses(p) PROVE Full(p)
    <2>1. TypeOK /\ Made /\ OneAtATime /\ Inside(p)
        BY <1>1 DEF RateInv, Inside
    <2>2. list # NoList /\ list \in Seq(Times) /\ Alone(p) /\ allowed \in Seq(Times)
        BY <1>1, <2>1 DEF Made, AfterMake, TypeOK, OneAtATime
    <2>3. Right(list, allowed, now[p]) /\ (list = <<>> \/ ~Over(list[1], now[p]))
        BY <1>1, <2>2 DEF Alone
    <2>4. now[p] \in Times /\ now[p] > Period
        BY <1>1, <2>1 DEF RateInv, InTime, TypeOK
    <2>5. Len(list) >= MaxAllowed
        <3>1. PICK q \in Callers : Trigger(q) \/ Step(q)
            BY <1>1 DEF Next, Tick, vars
        <3>2. pc' # pc /\ q = p
            BY <1>1, <2>1, <3>1 DEF Step, Trigger, IsNil, HasLength, IsOver, Cut, Keep, IsFull,
                       Make, AppendNow, Store, Guarded, AtGoto, Goto, TypeOK
        <3>3. IsFull(p)
            BY <1>1, <3>1, <3>2 DEF Step, Trigger, IsNil, HasLength, IsOver, Cut, Keep, Make,
                       AppendNow, Store, Guarded, AtGoto
        <3> QED
            BY <1>1, <2>1, <3>3 DEF IsFull, AtGoto, Goto, TypeOK
    <2> QED
        BY <2>2, <2>3, <2>4, <2>5, FullMeansFull
<1>2. RateInv /\ [Next]_vars => [\A p \in Callers : Refuses(p) => Full(p)]_vars
    BY <1>1
<1> QED
    BY <1>2, RateInvariant, PTL DEF Spec, RefusedMeansFull

=============================================================================
