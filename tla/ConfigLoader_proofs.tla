------------------------- MODULE ConfigLoader_proofs -------------------------
(***************************************************************************)
(* Theorems about ConfigLoader.                                            *)
(***************************************************************************)
EXTENDS ConfigLoader, FiniteSetTheorems, TLAPS

\* Lengths at the boundary.
LEMMA Lengths ==
    /\ \A n \in Nat : n >= 1 => n = 1 \/ n > 1
    /\ \A n \in Nat : n <= 1 /\ ~(n < 1) => n = 1
OBVIOUS

\* The positions of a list that is not longer than another.
LEMMA Within ==
    ASSUME NEW S, NEW T, NEW s \in Seq(S), NEW t \in Seq(T), Len(s) <= Len(t)
    PROVE  DOMAIN s = 1..Len(s) /\ DOMAIN s \subseteq DOMAIN t
OBVIOUS

\* What a configuration is made of.
LEMMA ConfigFacts ==
    ASSUME NEW cfg \in Configs
    PROVE  /\ cfg.pipeline \in Seq(Names)
           /\ DOMAIN cfg.resources \subseteq Names
           /\ \A n \in DOMAIN cfg.resources :
                 cfg.resources[n] \in Defs /\ WellFormed(cfg.resources[n])
BY ConfigAssumption DEF ConfigAssumption

\* A definition has a list of fields.
LEMMA DefFacts ==
    ASSUME NEW d \in Defs
    PROVE  d.to \in Seq(Names \cup {None}) /\ d.bad \in BOOLEAN
BY DEF Defs

LEMMA FrameFacts ==
    ASSUME NEW f \in Frames
    PROVE  /\ f.name \in Names /\ f.def \in Defs /\ f.got \in Seq(Nat)
           /\ Len(f.got) \in Nat /\ Len(f.def.to) \in Nat
BY DefFacts DEF Frames

\* What giving the innermost resource a value does to the stack.
LEMMA WithGotFacts ==
    ASSUME NEW s \in Seq(Frames), Len(s) >= 1, NEW v \in Nat
    PROVE  /\ WithGot(s, v) \in Seq(Frames)
           /\ Len(WithGot(s, v)) = Len(s)
           /\ \A i \in 1..Len(s) : /\ WithGot(s, v)[i].name = s[i].name
                                  /\ WithGot(s, v)[i].def = s[i].def
           /\ \A i \in 1..Len(s) : i # Len(s) => WithGot(s, v)[i] = s[i]
           /\ WithGot(s, v)[Len(s)].got = Append(s[Len(s)].got, v)
<1> DEFINE f == s[Len(s)]
           g == [f EXCEPT !.got = Append(@, v)]
<1>1. Len(s) \in Nat /\ f \in Frames
    OBVIOUS
<1>3. WithGot(s, v) = [s EXCEPT ![Len(s)] = g]
    BY DEF WithGot
<1> HIDE DEF f
<1>4. f.got \in Seq(Nat) /\ Append(f.got, v) \in Seq(Nat)
    BY <1>1 DEF Frames
<1>2. g \in Frames /\ g.name = f.name /\ g.def = f.def /\ g.got = Append(f.got, v)
    BY <1>1, <1>4 DEF Frames
<1> HIDE DEF g
<1> USE DEF f
<1> QED
    BY <1>1, <1>2, <1>3

\* What taking the innermost resource off does to the stack.
LEMMA OuterFacts ==
    ASSUME NEW s \in Seq(Frames), Len(s) > 1
    PROVE  /\ Outer(s) \in Seq(Frames)
           /\ Len(Outer(s)) = Len(s) - 1
           /\ \A i \in 1..(Len(s) - 1) : Outer(s)[i] = s[i]
BY DEF Outer

-----------------------------------------------------------------------------
(***************************************************************************)
(* The mutex and the stack.  The loader that uses the maps holds the mutex *)
(* and finds its own definitions; the resources on its stack are linked:   *)
(* each is what the next field of the one around it refers to.             *)
(***************************************************************************)
Locked(l) ==
    /\ pc[l] \in {"decode", "range", "build", "pipe"} => holder = l
    /\ Uses(l) => unregisterredResources = Resources(l)

\* The resource f is one of the loader's, and not all of its fields are read.
Own(l, f) ==
    /\ f.name \in DOMAIN Resources(l) /\ f.def = Resources(l)[f.name]
    /\ Len(f.got) <= Len(f.def.to)
Link(f, g) ==
    /\ Known(f.def) /\ Len(f.got) < Len(f.def.to)
    /\ f.def.to[Len(f.got) + 1] = g.name

Linked(l) ==
    pc[l] = "build" =>
        /\ Len(stack[l]) >= 1
        /\ \A i \in 1..Len(stack[l]) : Own(l, stack[l][i])
        /\ \A i \in 1..Len(stack[l]) : i > 1 =>
              Link(stack[l][i - 1], stack[l][i]) /\ registry[stack[l][i].name] = "absent"
        /\ \A n \in Names : registry[n] = "incomplete" <=> n = stack[l][1].name

\* Outside of a resource's turn nothing in the registry is incomplete.
Settled(l) ==
    /\ pc[l] \in {"range", "pipe"} => \A n \in Names : registry[n] # "incomplete"
    /\ Uses(l) => \A n \in Names : registry[n] # "absent" => n \in DOMAIN Resources(l)
    /\ pc[l] = "pipe" => \A n \in DOMAIN Resources(l) : registry[n] # "absent"

StackInv == TypeOK /\ \A l \in Loaders : Locked(l) /\ Linked(l) /\ Settled(l)

\* The steps fall into these kinds.
Failing(l) == \E why \in {"cycle", "missing", "type", "data"} :
    /\ pc[l] \in {"build", "pipe"} /\ Fail(l, why)
Reads(l) == ResolveNull(l) \/ Share(l)
Returns(l) == Referred(l) \/ BuildNull(l) \/ Finish(l)
Pipes(l) == PassOver(l) \/ PushBack(l)

\* Every step of a loader is of one of them.
LEMMA Kinds ==
    ASSUME NEW l \in Loaders, Lock(l) \/ Step(l)
    PROVE  \/ Lock(l) \/ Decode(l) \/ RangeEnds(l) \/ (\E n \in Names : Pick(l, n))
           \/ Reads(l) \/ Build(l) \/ Overflow(l) \/ Returns(l) \/ Failing(l)
           \/ Pipes(l) \/ Close(l)
<1>1. Cycle(l) \/ Missing(l) \/ Reject(l) \/ NoFilter(l) => Failing(l)
    BY DEF Cycle, Missing, Reject, NoFilter, Failing, Reading, Found, AtUpstream
<1> QED
    BY <1>1 DEF Step, Reads, Returns, Pipes

\* What the innermost resource looks like.
LEMMA TopFacts ==
    ASSUME StackInv, NEW l \in Loaders, pc[l] = "build"
    PROVE  /\ holder = l /\ unregisterredResources = Resources(l)
           /\ stack[l] \in Seq(Frames) /\ Len(stack[l]) \in Nat /\ Len(stack[l]) >= 1
           /\ Len(stack[l]) \in 1..Len(stack[l])
           /\ Top(l) \in Frames /\ Own(l, Top(l))
           /\ Top(l).def \in Defs /\ WellFormed(Top(l).def)
           /\ Top(l).got \in Seq(Nat) /\ Top(l).name \in Names
           /\ config[l] \in Configs
           /\ DOMAIN Resources(l) \subseteq Names
<1>1. stack[l] \in Seq(Frames) /\ config[l] \in Configs
    BY DEF StackInv, TypeOK
<1>2. Len(stack[l]) \in Nat /\ Len(stack[l]) >= 1 /\ Len(stack[l]) \in 1..Len(stack[l])
    BY <1>1 DEF StackInv, Linked
<1>3. Top(l) \in Frames /\ Own(l, Top(l))
    BY <1>1, <1>2 DEF StackInv, Linked, Top
<1>4. holder = l /\ unregisterredResources = Resources(l)
    BY DEF StackInv, Locked, Uses
<1>5. Top(l).def \in Defs /\ Top(l).got \in Seq(Nat) /\ Top(l).name \in Names
    BY <1>3 DEF Frames
<1>6. WellFormed(Top(l).def) /\ DOMAIN Resources(l) \subseteq Names
    BY <1>1, <1>3, ConfigFacts DEF Own, Resources
<1> QED
    BY <1>1, <1>2, <1>3, <1>4, <1>5, <1>6

\* The reference being resolved.
LEMMA TargetFacts ==
    ASSUME StackInv, NEW l \in Loaders, Reading(l)
    PROVE  /\ Target(l) \in Names \cup {None}
           /\ Len(Top(l).got) + 1 \in DOMAIN Top(l).def.to
           /\ Refers(config[l], Top(l).name, Target(l))
<1>1. pc[l] = "build" /\ Known(Top(l).def) /\ Len(Top(l).got) < Len(Top(l).def.to)
    BY DEF Reading
<1>2. Top(l).def.to \in Seq(Names \cup {None}) /\ Len(Top(l).got) \in Nat
    BY <1>1, TopFacts, DefFacts
<1>3. Len(Top(l).got) + 1 \in DOMAIN Top(l).def.to
    BY <1>1, <1>2
<1> QED
    BY <1>1, <1>2, <1>3, TopFacts DEF Target, Refers, Own, Resources

\* A new resource under construction.
LEMMA NewFrame ==
    ASSUME StackInv, NEW l \in Loaders, Uses(l), NEW n \in DOMAIN Resources(l)
    PROVE  Frame(n) \in Frames /\ Own(l, Frame(n)) /\ Frame(n).name = n
<1>1. unregisterredResources = Resources(l) /\ config[l] \in Configs
    BY DEF StackInv, Locked, TypeOK
<1>2. n \in Names /\ Resources(l)[n] \in Defs
    BY <1>1, ConfigFacts DEF Resources
<1>3. Len(Resources(l)[n].to) \in Nat /\ Len(<<>>) = 0 /\ <<>> \in Seq(Nat)
    BY <1>2, DefFacts
<1> QED
    BY <1>1, <1>2, <1>3 DEF Frame, Frames, Own

\* A loader that does not use the maps has nothing to keep.
Idle(l) == pc[l] \notin {"decode", "range", "build", "pipe"}
LEMMA IdleInv ==
    ASSUME NEW l \in Loaders, Idle(l) PROVE Locked(l) /\ Linked(l) /\ Settled(l)
BY DEF Idle, Locked, Linked, Settled, Uses

\* The others are idle when one loader has the mutex.
LEMMA OthersIdle ==
    ASSUME StackInv, NEW l \in Loaders, holder \in {l, None}, NEW k \in Loaders, k # l
    PROVE  Idle(k)
BY ConfigAssumption DEF StackInv, TypeOK, Locked, Idle, ConfigAssumption

\* Values are natural numbers.
LEMMA ValueTypes ==
    ASSUME StackInv, NEW l \in Loaders, Reads(l)
    PROVE  \E v \in Nat : Got(l, v)
<1>1. CASE ResolveNull(l)
    BY <1>1 DEF ResolveNull, Nil
<1>2. CASE Share(l)
    <2>1. Target(l) \in Names
        BY <1>2, TargetFacts DEF Share
    <2> QED
        BY <1>2, <2>1 DEF Share, StackInv, TypeOK
<1> QED
    BY <1>1, <1>2 DEF Reads

LEMMA ReturnTypes ==
    ASSUME StackInv, NEW l \in Loaders, Returns(l)
    PROVE  \E v \in Nat :
              /\ Return(l, v) /\ ~Reading(l) /\ pc[l] = "build"
              /\ UNCHANGED <<config, holder, unregisterredResources, upstream, position, error>>
              /\ \/ objects' = objects
                 \/ objects' \in Seq([by : Loaders, name : Names, type : DOMAIN Role,
                                      fields : Seq(Nat)])
<1>1. CASE Referred(l)
    <2>1. Top(l).got \in Seq(Nat) /\ Len(Top(l).got) <= Len(Top(l).def.to)
        BY <1>1, TopFacts DEF Referred, Own
    <2>2. Len(Top(l).def.to) = 1
        BY <1>1, TopFacts DEF Referred, WellFormed
    <2>5. ~(Len(Top(l).got) < Len(Top(l).def.to)) /\ Len(Top(l).got) \in Nat
        BY <1>1, <2>1 DEF Referred, Reading, Known
    <2>3. Len(Top(l).got) = 1
        <3>1. Len(Top(l).got) <= 1 /\ ~(Len(Top(l).got) < 1)
            BY <2>1, <2>2, <2>5, Zenon
        <3> QED
            BY <2>5, <3>1, Lengths, Zenon
    <2>4. Top(l).got[1] \in Nat
        BY <2>1, <2>3
    <2> QED
        BY <1>1, <2>4 DEF Referred
<1>2. CASE BuildNull(l)
    BY <1>2 DEF BuildNull, Nil, Reading, Known, Role
<1>3. CASE Finish(l)
    <2>1. Len(objects) + 1 \in Nat
        BY DEF StackInv, TypeOK
    <2>2. Top(l).got \in Seq(Nat) /\ Top(l).name \in Names /\ Top(l).def.type \in DOMAIN Role
        BY <1>3, TopFacts DEF Finish
    <2>3. [by |-> l, name |-> Top(l).name, type |-> Top(l).def.type, fields |-> Top(l).got]
              \in [by : Loaders, name : Names, type : DOMAIN Role, fields : Seq(Nat)]
        BY <2>2
    <2>4. objects' \in Seq([by : Loaders, name : Names, type : DOMAIN Role, fields : Seq(Nat)])
        BY <1>3, <2>3 DEF Finish, MakeObject, StackInv, TypeOK
    <2> QED
        BY <1>3, <2>1, <2>4 DEF Finish, MakeObject
<1> QED
    BY <1>1, <1>2, <1>3 DEF Returns

\* The initial state.
LEMMA StackInit == Init => StackInv
<1> SUFFICES ASSUME Init PROVE StackInv
    OBVIOUS
<1>1. TypeOK
    BY DEF Init, TypeOK, Nil
<1>2. \A l \in Loaders : Idle(l)
    BY DEF Init, Idle
<1> QED
    BY <1>1, <1>2, IdleInv DEF StackInv

\* Reading a field keeps the links.
LEMMA ReadStep ==
    ASSUME StackInv, NEW l \in Loaders, NEW v \in Nat, Reading(l), Got(l, v)
    PROVE  TypeOK' /\ Locked(l)' /\ Linked(l)' /\ Settled(l)'
<1> DEFINE s == stack[l]
           t == WithGot(s, v)
<1>1. /\ s \in Seq(Frames) /\ Len(s) \in Nat /\ Len(s) >= 1 /\ Len(s) \in 1..Len(s)
      /\ pc[l] = "build" /\ Top(l) = s[Len(s)] /\ Top(l) \in Frames
    BY TopFacts DEF Reading, Top
<1>2. stack' = [stack EXCEPT ![l] = t] /\ stack' \in [Loaders -> Seq(Frames)]
    BY <1>1, WithGotFacts DEF Got, StackInv, TypeOK
<1>3. UNCHANGED <<config, pc, holder, globals, upstream, position, error, objects>>
    BY DEF Got
<1>4. TypeOK'
    BY <1>2, <1>3 DEF TypeOK, StackInv, globals
<1>5. Locked(l)' /\ Settled(l)'
    BY <1>3 DEF StackInv, Locked, Settled, globals, Uses, Resources
<1>6. stack'[l] = t
    BY <1>2 DEF StackInv, TypeOK
<1>7. /\ t \in Seq(Frames) /\ Len(t) = Len(s)
      /\ \A i \in 1..Len(s) : t[i].name = s[i].name /\ t[i].def = s[i].def
      /\ \A i \in 1..Len(s) : i # Len(s) => t[i] = s[i]
      /\ t[Len(s)].got = Append(s[Len(s)].got, v)
    BY <1>1, WithGotFacts
<1>8. Len(t[Len(s)].got) = Len(Top(l).got) + 1 /\ Len(Top(l).got) < Len(Top(l).def.to)
      /\ Len(Top(l).got) \in Nat /\ Len(Top(l).def.to) \in Nat
    BY <1>1, <1>7, FrameFacts DEF Reading
<1> HIDE DEF s, t
<1>9. \A i \in 1..Len(s) : Own(l, s[i])
    BY <1>1 DEF StackInv, Linked, s
<1>10. \A i \in 1..Len(s) : Own(l, t[i])
    BY <1>1, <1>7, <1>8, <1>9 DEF Own
<1>11. \A i \in 1..Len(s) : i > 1 => Link(s[i - 1], s[i]) /\ registry[s[i].name] = "absent"
    BY <1>1 DEF StackInv, Linked, s
<1>12. ASSUME NEW i \in 1..Len(s), i > 1 PROVE Link(t[i - 1], t[i]) /\ registry[t[i].name] = "absent"
    <2>1. i - 1 \in 1..Len(s) /\ i - 1 # Len(s)
        BY <1>1, <1>12
    <2>2. t[i - 1] = s[i - 1] /\ t[i].name = s[i].name
        BY <1>7, <2>1
    <2> QED
        BY <1>11, <1>12, <2>2 DEF Link
<1>13. \A n \in Names : registry[n] = "incomplete" <=> n = t[1].name
    BY <1>1, <1>7 DEF StackInv, Linked, s
<1>14. Linked(l)'
    BY <1>1, <1>3, <1>6, <1>7, <1>10, <1>12, <1>13 DEF Linked, globals, Own, Resources
<1> QED
    BY <1>4, <1>5, <1>14

\* Entering a resource that is referred to keeps the links.
LEMMA BuildStep ==
    ASSUME StackInv, NEW l \in Loaders, Build(l)
    PROVE  TypeOK' /\ Locked(l)' /\ Linked(l)' /\ Settled(l)'
<1> DEFINE s == stack[l]
           f == Frame(Target(l))
           t == Append(s, f)
<1>1. /\ s \in Seq(Frames) /\ Len(s) \in Nat /\ Len(s) >= 1 /\ Len(s) \in 1..Len(s)
      /\ pc[l] = "build" /\ Top(l) = s[Len(s)]
    BY TopFacts DEF Build, Reading, Top
<1>2. f \in Frames /\ Own(l, f) /\ f.name = Target(l)
    BY <1>1, TopFacts, NewFrame DEF Build, Uses
<1>3. UNCHANGED <<config, pc, holder, globals, upstream, position, error, objects>>
    BY DEF Build
<1>4. stack' = [stack EXCEPT ![l] = t] /\ t \in Seq(Frames)
    BY <1>1, <1>2 DEF Build
<1>5. TypeOK' /\ stack'[l] = t
    BY <1>3, <1>4 DEF TypeOK, StackInv, globals
<1>6. Locked(l)' /\ Settled(l)'
    BY <1>3 DEF StackInv, Locked, Settled, globals, Uses, Resources
<1>7. Link(Top(l), f) /\ registry[f.name] = "absent"
    BY <1>2 DEF Build, Reading, Link, Target
<1>8. Len(t) = Len(s) + 1 /\ t[Len(s) + 1] = f /\ \A i \in 1..Len(s) : t[i] = s[i]
    BY <1>1, <1>2
<1> HIDE DEF f, t
<1>9. \A i \in 1..Len(t) : Own(l, t[i])
    BY <1>1, <1>2, <1>8 DEF StackInv, Linked
<1>10. ASSUME NEW i \in 1..Len(t), i > 1
       PROVE  Link(t[i - 1], t[i]) /\ registry[t[i].name] = "absent"
    <2>1. CASE i = Len(s) + 1
        BY <1>1, <1>7, <1>8, <2>1
    <2>2. CASE i # Len(s) + 1
        <3>1. i \in 1..Len(s) /\ i - 1 \in 1..Len(s)
            BY <1>1, <1>8, <1>10, <2>2
        <3> QED
            BY <1>1, <1>8, <1>10, <3>1 DEF StackInv, Linked
    <2> QED
        BY <2>1, <2>2
<1>11. \A n \in Names : registry[n] = "incomplete" <=> n = t[1].name
    BY <1>1, <1>8 DEF StackInv, Linked
<1>12. Linked(l)'
    BY <1>1, <1>3, <1>5, <1>8, <1>9, <1>10, <1>11 DEF Linked, globals, Own, Resources
<1> QED
    BY <1>5, <1>6, <1>12

\* Returning a value to the resource around keeps the links.
LEMMA ReturnStep ==
    ASSUME StackInv, NEW l \in Loaders, NEW v \in Nat, Return(l, v),
           pc[l] = "build", UNCHANGED <<config, holder, unregisterredResources>>
    PROVE  /\ stack' \in [Loaders -> Seq(Frames)] /\ registry' \in [Names -> {"absent", "incomplete", "complete"}]
           /\ value' \in [Names -> Nat] /\ pc' \in [Loaders -> {"start", "decode", "range", "build", "pipe", "done", "failed", "crashed"}]
           /\ Locked(l)' /\ Linked(l)' /\ Settled(l)'
<1> DEFINE s == stack[l]
<1>1. /\ s \in Seq(Frames) /\ Len(s) \in Nat /\ Len(s) >= 1 /\ Len(s) \in 1..Len(s)
      /\ Top(l) = s[Len(s)] /\ Top(l).name \in Names /\ Own(l, Top(l))
    BY TopFacts DEF Top
<1>2. CASE Len(s) = 1
    <2>1. /\ registry' = [registry EXCEPT ![Top(l).name] = "complete"]
          /\ value' = [value EXCEPT ![Top(l).name] = v]
          /\ stack' = [stack EXCEPT ![l] = <<>>]
          /\ pc' = [pc EXCEPT ![l] = "range"]
        BY <1>2 DEF Return, Goto
    <2>2. pc'[l] = "range" /\ Top(l).name \in DOMAIN Resources(l)
        BY <1>1, <2>1 DEF StackInv, TypeOK, Own
    <2>3. stack' \in [Loaders -> Seq(Frames)]
        BY <2>1 DEF StackInv, TypeOK
    <2>4. \A n \in Names : registry[n] = "incomplete" <=> n = Top(l).name
        BY <1>1, <1>2 DEF StackInv, Linked
    <2>5. \A n \in Names : registry[n] # "absent" => n \in DOMAIN Resources(l)
        BY DEF StackInv, Settled, Uses
    <2>6. Locked(l)'
        BY <2>2 DEF StackInv, Locked, Uses, Resources
    <2>7. Settled(l)'
        BY <1>1, <2>1, <2>2, <2>4, <2>5 DEF StackInv, TypeOK, Settled, Uses, Resources
    <2>8. Linked(l)'
        BY <2>2 DEF Linked
    <2>9. registry' \in [Names -> {"absent", "incomplete", "complete"}]
        BY <1>1, <2>1 DEF StackInv, TypeOK
    <2>10. value' \in [Names -> Nat]
        BY <1>1, <2>1 DEF StackInv, TypeOK
    <2> QED
        BY <2>1, <2>3, <2>6, <2>7, <2>8, <2>9, <2>10 DEF StackInv, TypeOK
<1>3. CASE Len(s) > 1
    <2> DEFINE r == Outer(s)
               t == WithGot(r, v)
    <2>1. stack' = [stack EXCEPT ![l] = t] /\ UNCHANGED <<registry, value, pc>>
        BY <1>1, <1>3 DEF Return
    <2>2. r \in Seq(Frames) /\ Len(r) = Len(s) - 1 /\ \A i \in 1..Len(r) : r[i] = s[i]
        BY <1>1, <1>3, OuterFacts
    <2> HIDE DEF r, s
    <2>3. Len(r) >= 1 /\ Len(r) \in Nat /\ Len(r) \in 1..Len(r)
        BY <1>1, <1>3, <2>2
    <2>4. /\ t \in Seq(Frames) /\ Len(t) = Len(r)
          /\ \A i \in 1..Len(r) : t[i].name = r[i].name /\ t[i].def = r[i].def
          /\ \A i \in 1..Len(r) : i # Len(r) => t[i] = r[i]
          /\ t[Len(r)].got = Append(r[Len(r)].got, v)
        BY <2>2, <2>3, WithGotFacts
    <2> HIDE DEF t
    <2>5. stack'[l] = t /\ stack' \in [Loaders -> Seq(Frames)]
        BY <2>1, <2>4 DEF StackInv, TypeOK
    <2>6. \A i \in 1..Len(s) : Own(l, s[i])
        BY <1>1 DEF StackInv, Linked, s
    <2>7. \A i \in 1..Len(s) : i > 1 => Link(s[i - 1], s[i]) /\ registry[s[i].name] = "absent"
        BY <1>1 DEF StackInv, Linked, s
    <2>8. Link(r[Len(r)], s[Len(s)])
        BY <1>1, <1>3, <2>2, <2>3, <2>7
    <2>9. r[Len(r)] \in Frames
        BY <2>2, <2>3
    <2>10. /\ Len(t[Len(r)].got) = Len(r[Len(r)].got) + 1 /\ Len(r[Len(r)].got) \in Nat
           /\ Len(r[Len(r)].def.to) \in Nat
           /\ Len(r[Len(r)].got) < Len(r[Len(r)].def.to)
        BY <2>4, <2>8, <2>9, FrameFacts DEF Link
    <2>11. \A i \in 1..Len(t) : Own(l, t[i])
        <3> TAKE i \in 1..Len(t)
        <3>1. i \in 1..Len(r) /\ i \in 1..Len(s) /\ Own(l, r[i])
            BY <1>1, <2>2, <2>3, <2>4, <2>6
        <3>2. CASE i = Len(r)
            BY <2>4, <2>10, <3>1, <3>2 DEF Own
        <3>3. CASE i # Len(r)
            BY <2>4, <3>1, <3>3
        <3> QED
            BY <3>2, <3>3
    <2>12. \A i \in 1..Len(t) : i > 1 => Link(t[i - 1], t[i]) /\ registry[t[i].name] = "absent"
        <3> SUFFICES ASSUME NEW i \in 1..Len(t), i > 1
                     PROVE  Link(t[i - 1], t[i]) /\ registry[t[i].name] = "absent"
            OBVIOUS
        <3>1. i \in 1..Len(r) /\ i \in 1..Len(s) /\ i - 1 \in 1..Len(r) /\ i - 1 # Len(r)
            BY <1>1, <2>2, <2>3, <2>4
        <3>2. t[i - 1] = r[i - 1] /\ t[i].name = r[i].name
            BY <2>4, <3>1
        <3>3. r[i - 1] = s[i - 1] /\ r[i] = s[i]
            BY <2>2, <3>1
        <3> QED
            BY <2>7, <3>1, <3>2, <3>3 DEF Link
    <2>13. \A n \in Names : registry[n] = "incomplete" <=> n = t[1].name
        BY <1>1, <2>2, <2>3, <2>4 DEF StackInv, Linked, s
    <2>14. Linked(l)'
        BY <1>1, <2>1, <2>3, <2>4, <2>5, <2>11, <2>12, <2>13 DEF Linked, Own, Resources
    <2>15. Locked(l)' /\ Settled(l)'
        BY <2>1 DEF StackInv, Locked, Settled, Uses, Resources
    <2> QED
        BY <2>1, <2>5, <2>14, <2>15 DEF StackInv, TypeOK
<1>4. Len(s) = 1 \/ Len(s) > 1
    BY <1>1, Lengths, Zenon
<1> QED
    BY <1>2, <1>3, <1>4, Zenon

\* The other steps of a loader keep the links.
LEMMA OtherSteps ==
    ASSUME StackInv, NEW l \in Loaders,
           \/ Lock(l) \/ Decode(l) \/ RangeEnds(l) \/ (\E n \in Names : Pick(l, n))
           \/ Failing(l) \/ Pipes(l) \/ Close(l)
    PROVE  TypeOK' /\ Locked(l)' /\ Linked(l)' /\ Settled(l)'
<1> USE DEF StackInv, TypeOK
<1>1. CASE Lock(l)
    <2>1. TypeOK'
        BY <1>1 DEF Lock, Goto, globals
    <2> QED
        BY <1>1, <2>1 DEF Lock, Goto, Locked, Linked, Settled, Uses
<1>2. CASE Decode(l)
    <2>1. /\ registry' = [n \in Names |-> "absent"] /\ value' = [n \in Names |-> Nil]
          /\ UNCHANGED <<config, stack, upstream, position, objects>>
          /\ \/ /\ unregisterredResources' = Resources(l) /\ pc'[l] = "range"
                /\ holder = l /\ UNCHANGED <<holder, error>>
             \/ pc'[l] = "failed"
          /\ holder' \in Loaders \cup {None}
          /\ pc' \in [Loaders -> {"start", "decode", "range", "build", "pipe", "done",
                                  "failed", "crashed"}]
          /\ error' \in [Loaders -> {"none", "decode", "pipeline", "cycle", "missing",
                                     "type", "data"}]
        BY <1>2 DEF Decode, Goto, Locked
    <2>2. value' \in [Names -> Nat]
        BY <2>1 DEF Nil
    <2>3. TypeOK'
        BY <2>1, <2>2
    <2> QED
        BY <2>1, <2>3 DEF Locked, Linked, Settled, Uses, Resources
<1>3. CASE RangeEnds(l)
    <2>1. TypeOK'
        BY <1>3 DEF RangeEnds, Goto, globals
    <2> QED
        BY <1>3, <2>1 DEF RangeEnds, Goto, globals, Locked, Linked, Settled, Uses, Resources
<1>4. ASSUME NEW n \in Names, Pick(l, n)
      PROVE  TypeOK' /\ Locked(l)' /\ Linked(l)' /\ Settled(l)'
    <2> DEFINE f == Frame(n)
    <2>1. f \in Frames /\ Own(l, f) /\ f.name = n
        BY <1>4, NewFrame DEF Pick, Uses
    <2> HIDE DEF f
    <2>2. /\ stack' = [stack EXCEPT ![l] = <<f>>] /\ pc' = [pc EXCEPT ![l] = "build"]
          /\ registry' = [registry EXCEPT ![n] = "incomplete"]
          /\ value' = [value EXCEPT ![n] = Nil]
          /\ UNCHANGED <<config, holder, unregisterredResources, upstream, position, error, objects>>
          /\ pc[l] = "range" /\ n \in DOMAIN Resources(l)
        BY <1>4 DEF Pick, Goto, f
    <2>3. stack'[l] = <<f>> /\ stack' \in [Loaders -> Seq(Frames)] /\ Len(<<f>>) = 1 /\ <<f>>[1] = f
        BY <2>1, <2>2
    <2>4. value' \in [Names -> Nat] /\ registry' \in [Names -> {"absent", "incomplete", "complete"}]
        BY <2>2 DEF Nil
    <2>5. TypeOK'
        BY <2>2, <2>3, <2>4
    <2>6. Locked(l)' /\ Settled(l)'
        BY <2>2 DEF Locked, Settled, Uses, Resources
    <2>7. \A m \in Names : registry'[m] = "incomplete" <=> m = n
        BY <2>2 DEF Settled
    <2>8. Linked(l)'
        BY <2>1, <2>2, <2>3, <2>7 DEF Linked, Own, Resources
    <2> QED
        BY <2>5, <2>6, <2>8
<1>5. CASE Failing(l)
    <2>1. PICK why \in {"cycle", "missing", "type", "data"} : Fail(l, why)
        BY <1>5 DEF Failing
    <2>2. pc'[l] = "failed"
        BY <2>1 DEF Fail, Goto
    <2>3. TypeOK'
        BY <2>1 DEF Fail, Goto, globals
    <2> QED
        BY <2>2, <2>3 DEF Locked, Linked, Settled, Uses
<1>6. CASE Pipes(l)
    <2>1. /\ UNCHANGED <<config, pc, holder, globals, stack, error, objects>>
          /\ position' = [position EXCEPT ![l] = @ + 1]
          /\ pc[l] = "pipe"
        BY <1>6 DEF Pipes, PassOver, PushBack, PipeOn, Found, AtUpstream
    <2>2. position' \in [Loaders -> Nat]
        BY <2>1
    <2>3. upstream' \in [Loaders -> Seq(Nat)]
        <3>1. CASE PassOver(l)
            BY <3>1 DEF PassOver
        <3>2. CASE PushBack(l)
            <4>1. Upstream(l) \in Names
                BY <3>2, ConfigFacts DEF PushBack, Found, AtUpstream, Upstream
            <4>2. Append(upstream[l], value[Upstream(l)]) \in Seq(Nat)
                BY <4>1
            <4> QED
                BY <3>2, <4>2 DEF PushBack
        <3> QED
            BY <1>6, <3>1, <3>2 DEF Pipes
    <2>4. TypeOK'
        BY <2>1, <2>2, <2>3 DEF globals
    <2> QED
        BY <2>1, <2>4 DEF globals, Locked, Linked, Settled, Uses, Resources
<1>7. CASE Close(l)
    <2>1. /\ registry' = [n \in Names |-> "absent"] /\ value' = [n \in Names |-> Nil]
          /\ pc'[l] = "done" /\ holder' = None
          /\ UNCHANGED <<config, unregisterredResources, stack, upstream, position, error, objects>>
          /\ pc' \in [Loaders -> {"start", "decode", "range", "build", "pipe", "done",
                                  "failed", "crashed"}]
        BY <1>7 DEF Close, Goto
    <2>2. value' \in [Names -> Nat]
        BY <2>1 DEF Nil
    <2>3. TypeOK'
        BY <2>1, <2>2
    <2> QED
        BY <2>1, <2>3 DEF Locked, Linked, Settled, Uses
<1> QED
    BY <1>1, <1>2, <1>3, <1>4, <1>5, <1>6, <1>7

\* A step of one loader leaves the others where they are, and idle.
LEMMA OthersStay ==
    ASSUME StackInv, NEW l \in Loaders, Lock(l) \/ Step(l), ~Overflow(l),
           NEW k \in Loaders, k # l
    PROVE  Idle(k) /\ Idle(k)' /\ pc'[k] = pc[k] /\ error'[k] = error[k]
<1>1. holder \in {l, None}
    <2>1. Lock(l) => holder = None
        BY DEF Lock
    <2>2. Step(l) => pc[l] \in {"decode", "range", "build", "pipe"}
        BY DEF Step, Decode, RangeEnds, Pick, ResolveNull, Share, Cycle, Build, Overflow,
               Missing, Referred, BuildNull, Finish, Reject, PassOver, PushBack, NoFilter,
               Close, Reading, Found, AtUpstream
    <2> QED
        BY <2>1, <2>2 DEF StackInv, Locked
<1>2. Idle(k)
    BY <1>1, OthersIdle
<1>3. pc'[k] = pc[k] /\ error'[k] = error[k]
    <2> USE DEF StackInv, TypeOK, Goto
    <2>1. CASE Lock(l) \/ RangeEnds(l) \/ Close(l) \/ \E n \in Names : Pick(l, n)
        BY <2>1 DEF Lock, RangeEnds, Close, Pick
    <2>2. CASE Decode(l)
        BY <2>2 DEF Decode
    <2>3. CASE Reads(l) \/ Build(l) \/ Pipes(l)
        BY <2>3 DEF Reads, Build, Pipes, ResolveNull, Share, Got, PassOver, PushBack, PipeOn
    <2>4. CASE Returns(l)
        <3>1. PICK v \in Nat : Return(l, v) /\ UNCHANGED error
            BY <2>4, ReturnTypes
        <3> QED
            BY <3>1 DEF Return
    <2>5. CASE Failing(l)
        BY <2>5 DEF Failing, Fail
    <2> QED
        BY <2>1, <2>2, <2>3, <2>4, <2>5, Kinds
<1> QED
    BY <1>2, <1>3 DEF Idle

\* Every step keeps the types, the mutex and the links.
LEMMA StackStep == StackInv /\ [Next]_vars => StackInv'
<1>1. ASSUME StackInv, NEW l \in Loaders, Lock(l) \/ Step(l), ~Overflow(l) PROVE StackInv'
    <2>1. TypeOK' /\ Locked(l)' /\ Linked(l)' /\ Settled(l)'
        <3>1. CASE Reads(l)
            BY <1>1, <3>1, ValueTypes, ReadStep DEF Reads, ResolveNull, Share
        <3>2. CASE Build(l)
            BY <1>1, <3>2, BuildStep
        <3>3. CASE Returns(l)
            <4>1. PICK v \in Nat :
                      /\ Return(l, v) /\ ~Reading(l) /\ pc[l] = "build"
                      /\ UNCHANGED <<config, holder, unregisterredResources, upstream,
                                     position, error>>
                      /\ \/ objects' = objects
                         \/ objects' \in Seq([by : Loaders, name : Names, type : DOMAIN Role,
                                              fields : Seq(Nat)])
                BY <1>1, <3>3, ReturnTypes
            <4> QED
                BY <1>1, <4>1, ReturnStep DEF StackInv, TypeOK
        <3> QED
            BY <1>1, <3>1, <3>2, <3>3, Kinds, OtherSteps
    <2>2. ASSUME NEW k \in Loaders, k # l PROVE Idle(k)'
        BY <1>1, <2>2, OthersStay
    <2>3. \A k \in Loaders : Locked(k)' /\ Linked(k)' /\ Settled(k)'
        BY <2>1, <2>2 DEF Idle, Locked, Linked, Settled, Uses
    <2> QED
        BY <2>1, <2>3 DEF StackInv
<1>2. ASSUME StackInv, NEW l \in Loaders, Overflow(l) PROVE StackInv'
    <2>1. TypeOK'
        BY <1>2 DEF Overflow, StackInv, TypeOK, globals
    <2>2. \A k \in Loaders : Idle(k)'
        BY <1>2 DEF Overflow, Idle
    <2> QED
        BY <2>1, <2>2 DEF StackInv, Idle, Locked, Linked, Settled, Uses
<1>3. ASSUME StackInv, UNCHANGED vars PROVE StackInv'
    BY <1>3 DEF vars, globals, StackInv, TypeOK, Locked, Linked, Settled, Uses, Own, Link,
                Resources
<1> QED
    BY <1>1, <1>2, <1>3 DEF Next

\* TypeCorrect: every variable keeps its type, for every set of loaders and
\* configurations.
THEOREM TypeCorrect == Spec => []TypeOK
<1>1. StackInv => TypeOK
    BY DEF StackInv
<1> QED
    BY <1>1, StackInit, StackStep, PTL DEF Spec

-----------------------------------------------------------------------------
(***************************************************************************)
(* Chains of references have at most one end.                              *)
(***************************************************************************)
\* A set of names that contains what its references refer to.
Closed(cfg, S) == \A k \in S : Reference(cfg, k) => cfg.resources[k].to[1] \in S

LEMMA StandsForDef ==
    ASSUME NEW cfg, NEW n, NEW m
    PROVE  StandsFor(cfg, n, m) <=>
              /\ m \in DOMAIN cfg.resources /\ ~Reference(cfg, m)
              /\ \A S \in SUBSET Names : n \in S /\ Closed(cfg, S) => m \in S
BY DEF StandsFor, Closed

\* What is no reference stands for itself.
LEMMA ChainEnds ==
    ASSUME NEW cfg \in Configs, NEW n \in DOMAIN cfg.resources, ~Reference(cfg, n)
    PROVE  StandsFor(cfg, n, n)
BY StandsForDef

\* A reference stands for what it refers to.
LEMMA ChainGoesOn ==
    ASSUME NEW cfg \in Configs, NEW n \in DOMAIN cfg.resources, Reference(cfg, n),
           NEW m, StandsFor(cfg, cfg.resources[n].to[1], m)
    PROVE  StandsFor(cfg, n, m)
BY StandsForDef DEF Closed

\* A name stands for one resource at most.
LEMMA ChainsAreUnique ==
    ASSUME NEW cfg \in Configs, NEW n \in Names, NEW m, NEW o,
           StandsFor(cfg, n, m), StandsFor(cfg, n, o)
    PROVE  m = o
<1> DEFINE S == {k \in Names : StandsFor(cfg, k, m)}
<1>1. m \in Names /\ o \in Names /\ ~Reference(cfg, m) /\ ~Reference(cfg, o)
    BY StandsForDef, ConfigFacts
<1>2. Closed(cfg, S)
    <2> SUFFICES ASSUME NEW k \in S, Reference(cfg, k)
                 PROVE  cfg.resources[k].to[1] \in S
        BY DEF Closed
    <2> DEFINE j == cfg.resources[k].to[1]
    <2>1. j \in Names
        <3>1. /\ cfg.resources[k] \in Defs /\ WellFormed(cfg.resources[k])
              /\ cfg.resources[k].type = "ref" /\ ~cfg.resources[k].bad
            BY ConfigFacts DEF Reference
        <3>2. Len(cfg.resources[k].to) = 1 /\ cfg.resources[k].to[1] # None
            BY <3>1 DEF WellFormed
        <3> QED
            BY <3>1, <3>2, DefFacts
    <2>2. ASSUME NEW T \in SUBSET Names, j \in T, Closed(cfg, T) PROVE m \in T
        <3>1. T \cup {k} \in SUBSET Names /\ k \in T \cup {k}
            OBVIOUS
        <3>2. Closed(cfg, T \cup {k})
            BY <2>2 DEF Closed
        <3>3. m \in T \cup {k}
            BY <3>1, <3>2, StandsForDef
        <3> QED
            BY <1>1, <3>3
    <2>3. StandsFor(cfg, j, m)
        BY <2>2, StandsForDef
    <2> QED
        BY <2>1, <2>3
<1>3. o \in S
    BY <1>2, StandsForDef
<1>4. Closed(cfg, {o})
    BY <1>1 DEF Closed
<1> QED
    BY <1>1, <1>3, <1>4, StandsForDef

-----------------------------------------------------------------------------
(***************************************************************************)
(* Values.  Whatever is in the registry or has been read into a field is   *)
(* an object made by the same loader for what the name stands for, or nil  *)
(* for a null resource.                                                    *)
(***************************************************************************)
ValueFor(objs, cfg, l, v, m) ==
    /\ v = Nil => cfg.resources[m].type \notin DOMAIN Role
    /\ v # Nil => /\ v \in DOMAIN objs /\ objs[v].by = l /\ objs[v].name = m
                  /\ objs[v].type = cfg.resources[m].type
                  /\ cfg.resources[m].type \in DOMAIN Role

Valued(objs, cfg, l, v, n) ==
    \E m \in Names : StandsFor(cfg, n, m) /\ ValueFor(objs, cfg, l, v, m)

FieldValued(objs, cfg, l, v, n) ==
    IF n = None THEN v = Nil ELSE Valued(objs, cfg, l, v, n)

FrameValued(objs, cfg, l, f) ==
    \A j \in 1..Len(f.got) : FieldValued(objs, cfg, l, f.got[j], f.def.to[j])

ValuesOf(l) ==
    /\ pc[l] = "build" =>
          \A i \in 1..Len(stack[l]) : FrameValued(objects, config[l], l, stack[l][i])
    /\ Uses(l) => \A n \in Names :
          registry[n] = "complete" => Valued(objects, config[l], l, value[n], n)

ValuesInv == StackInv /\ MadeAsConfigured /\ \A l \in Loaders : ValuesOf(l)

\* Objects are only added.
Grown(objs, objs2) == \A i \in DOMAIN objs : i \in DOMAIN objs2 /\ objs2[i] = objs[i]

LEMMA ValueKept ==
    ASSUME NEW objs, NEW objs2, Grown(objs, objs2), NEW cfg, NEW l, NEW v, NEW n,
           Valued(objs, cfg, l, v, n)
    PROVE  Valued(objs2, cfg, l, v, n)
BY DEF Grown, Valued, ValueFor

LEMMA FrameKept ==
    ASSUME NEW objs, NEW objs2, Grown(objs, objs2), NEW cfg, NEW l, NEW f,
           FrameValued(objs, cfg, l, f)
    PROVE  FrameValued(objs2, cfg, l, f)
BY ValueKept DEF FrameValued, FieldValued

\* Whoever uses the registry keeps what is in it.
LEMMA RegistryKept ==
    ASSUME ValuesInv, NEW l \in Loaders, Uses(l), config' = config,
           UNCHANGED <<registry, value>>, Grown(objects, objects')
    PROVE  \A n \in Names :
              registry'[n] = "complete" => Valued(objects', config'[l], l, value'[n], n)
<1>1. \A n \in Names : registry[n] = "complete" => Valued(objects, config[l], l, value[n], n)
    BY DEF ValuesInv, ValuesOf
<1>2. ASSUME NEW n \in Names, registry[n] = "complete"
      PROVE  Valued(objects', config[l], l, value[n], n)
    BY <1>1, <1>2, ValueKept
<1> QED
    BY <1>2

LEMMA ObjectsKept ==
    ASSUME ValuesInv, UNCHANGED <<config, objects>>
    PROVE  MadeAsConfigured'
BY DEF ValuesInv, MadeAsConfigured, Resources, Instance

\* A frame that got one more value.
LEMMA FrameGets ==
    ASSUME NEW f \in Frames, NEW g, NEW v \in Nat, NEW objs, NEW cfg, NEW l,
           g.def = f.def, g.got = Append(f.got, v),
           FrameValued(objs, cfg, l, f),
           FieldValued(objs, cfg, l, v, f.def.to[Len(f.got) + 1])
    PROVE  FrameValued(objs, cfg, l, g)
<1> SUFFICES ASSUME NEW j \in 1..Len(g.got)
             PROVE  FieldValued(objs, cfg, l, g.got[j], f.def.to[j])
    BY DEF FrameValued
<1>1. f.got \in Seq(Nat) /\ Len(f.got) \in Nat
    BY FrameFacts
<1>2. CASE j = Len(f.got) + 1
    BY <1>1, <1>2
<1>3. CASE j # Len(f.got) + 1
    <2>1. j \in 1..Len(f.got) /\ g.got[j] = f.got[j]
        BY <1>1, <1>3
    <2> QED
        BY <2>1 DEF FrameValued
<1> QED
    BY <1>2, <1>3

\* A stack whose innermost frame got one more value.
LEMMA StackGets ==
    ASSUME NEW s \in Seq(Frames), Len(s) >= 1, NEW v \in Nat, NEW objs, NEW cfg, NEW l,
           \A i \in 1..Len(s) : FrameValued(objs, cfg, l, s[i]),
           FieldValued(objs, cfg, l, v, s[Len(s)].def.to[Len(s[Len(s)].got) + 1])
    PROVE  \A i \in 1..Len(WithGot(s, v)) : FrameValued(objs, cfg, l, WithGot(s, v)[i])
<1>1. /\ Len(WithGot(s, v)) = Len(s)
      /\ \A i \in 1..Len(s) : /\ WithGot(s, v)[i].name = s[i].name
                             /\ WithGot(s, v)[i].def = s[i].def
      /\ \A i \in 1..Len(s) : i # Len(s) => WithGot(s, v)[i] = s[i]
      /\ WithGot(s, v)[Len(s)].got = Append(s[Len(s)].got, v)
    BY WithGotFacts
<1>2. Len(s) \in 1..Len(s) /\ s[Len(s)] \in Frames
    OBVIOUS
<1> DEFINE t == WithGot(s, v)
<1> HIDE DEF t
<1>3. FrameValued(objs, cfg, l, t[Len(s)])
    BY <1>1, <1>2, FrameGets DEF t
<1> QED
    BY <1>1, <1>3 DEF t

\* What MadeAsConfigured says of an object.
MadeFor(objs, cfg, i) ==
    LET d == cfg.resources[objs[i].name]
    IN  /\ objs[i].type = d.type
        /\ DOMAIN objs[i].fields = DOMAIN d.to
        /\ \A j \in DOMAIN d.to :
              IF d.to[j] = None THEN objs[i].fields[j] = Nil
              ELSE /\ objs[i].fields[j] \in DOMAIN objs
                   /\ objs[objs[i].fields[j]].by = objs[i].by
                   /\ StandsFor(cfg, d.to[j], objs[objs[i].fields[j]].name)

LEMMA MadeForEach ==
    MadeAsConfigured <=> \A i \in DOMAIN objects : MadeFor(objects, config[objects[i].by], i)
BY DEF MadeAsConfigured, MadeFor, Instance, Resources

LEMMA MadeForEachNext ==
    MadeAsConfigured' <=>
        \A i \in DOMAIN objects' : MadeFor(objects', config'[objects'[i].by], i)
BY DEF MadeAsConfigured, MadeFor, Instance, Resources

LEMMA MadeKept ==
    ASSUME NEW objs, NEW objs2, Grown(objs, objs2), NEW cfg, NEW i \in DOMAIN objs,
           MadeFor(objs, cfg, i)
    PROVE  MadeFor(objs2, cfg, i)
BY DEF Grown, MadeFor

\* A field is given the value of what it refers to.
LEMMA ReadValue ==
    ASSUME ValuesInv, NEW l \in Loaders, NEW v \in Nat, Reading(l), Got(l, v),
           FieldValued(objects, config[l], l, v, Target(l))
    PROVE  MadeAsConfigured' /\ ValuesOf(l)'
<1>1. /\ stack[l] \in Seq(Frames) /\ Len(stack[l]) >= 1 /\ pc[l] = "build"
    BY TopFacts DEF ValuesInv, Reading
<1>2. UNCHANGED <<config, pc, registry, value, objects>> /\ Grown(objects, objects')
    BY DEF Got, Grown, globals
<1>3. stack'[l] = WithGot(stack[l], v)
    BY DEF Got, ValuesInv, StackInv, TypeOK
<1>4. \A i \in 1..Len(stack[l]) : FrameValued(objects, config[l], l, stack[l][i])
    BY <1>1 DEF ValuesInv, ValuesOf
<1>5. \A i \in 1..Len(stack'[l]) : FrameValued(objects, config[l], l, stack'[l][i])
    BY <1>1, <1>3, <1>4, StackGets DEF Target, Top
<1> QED
    BY <1>1, <1>2, <1>5, ObjectsKept, RegistryKept DEF ValuesOf, Uses

\* A value is returned for the innermost resource.
LEMMA ReturnValue ==
    ASSUME ValuesInv, NEW l \in Loaders, NEW v \in Nat, pc[l] = "build", Return(l, v),
           config' = config, Grown(objects, objects'),
           Valued(objects', config[l], l, v, Top(l).name)
    PROVE  ValuesOf(l)'
<1> DEFINE s == stack[l]
<1>1. /\ s \in Seq(Frames) /\ Len(s) \in Nat /\ Len(s) >= 1 /\ Len(s) \in 1..Len(s)
      /\ Top(l) = s[Len(s)] /\ Top(l).name \in Names /\ Top(l).name # None
    BY TopFacts, ConfigAssumption DEF ValuesInv, Top, ConfigAssumption
<1>2. \A i \in 1..Len(s) : FrameValued(objects, config[l], l, s[i])
    BY DEF ValuesInv, ValuesOf
<1>3. \A n \in Names :
          registry[n] = "complete" => Valued(objects', config[l], l, value[n], n)
    BY ValueKept DEF ValuesInv, ValuesOf, Uses
<1>4. CASE Len(s) = 1
    <2>1. /\ registry' = [registry EXCEPT ![Top(l).name] = "complete"]
          /\ value' = [value EXCEPT ![Top(l).name] = v]
          /\ pc'[l] = "range"
        BY <1>4 DEF Return, Goto, ValuesInv, StackInv, TypeOK
    <2>2. ASSUME NEW n \in Names, registry'[n] = "complete"
          PROVE  Valued(objects', config'[l], l, value'[n], n)
        <3>1. CASE n = Top(l).name
            <4>1. value'[n] = v
                BY <2>1, <3>1 DEF ValuesInv, StackInv, TypeOK
            <4> QED
                BY <3>1, <4>1
        <3>2. CASE n # Top(l).name
            <4>1. registry[n] = "complete" /\ value'[n] = value[n]
                BY <2>1, <2>2, <3>2 DEF ValuesInv, StackInv, TypeOK
            <4> QED
                BY <1>3, <4>1
        <3> QED
            BY <3>1, <3>2
    <2> QED
        BY <2>1, <2>2 DEF ValuesOf
<1>5. CASE Len(s) > 1
    <2> DEFINE r == Outer(s)
    <2>1. r \in Seq(Frames) /\ Len(r) = Len(s) - 1 /\ \A i \in 1..(Len(s) - 1) : r[i] = s[i]
        BY <1>1, <1>5, OuterFacts
    <2>2. stack' = [stack EXCEPT ![l] = WithGot(r, v)] /\ UNCHANGED <<registry, value, pc>>
        BY <1>1, <1>5 DEF Return
    <2>3. stack'[l] = WithGot(r, v)
        BY <2>2 DEF ValuesInv, StackInv, TypeOK
    <2>4. Link(s[Len(s) - 1], s[Len(s)])
        BY <1>1, <1>5 DEF ValuesInv, StackInv, Linked
    <2> HIDE DEF r
    <2>5. Len(r) >= 1 /\ Len(r) \in Nat /\ r[Len(r)] = s[Len(s) - 1]
        BY <1>1, <1>5, <2>1
    <2>6. r[Len(r)].def.to[Len(r[Len(r)].got) + 1] = Top(l).name
        BY <1>1, <2>4, <2>5 DEF Link
    <2>7. \A i \in 1..Len(r) : FrameValued(objects', config[l], l, r[i])
        <3> TAKE i \in 1..Len(r)
        <3>1. i \in 1..Len(s) /\ r[i] = s[i]
            BY <1>1, <2>1, <2>5
        <3> QED
            BY <1>2, <3>1, FrameKept
    <2>8. \A i \in 1..Len(stack'[l]) : FrameValued(objects', config[l], l, stack'[l][i])
        BY <1>1, <2>1, <2>3, <2>5, <2>6, <2>7, StackGets DEF FieldValued
    <2> QED
        BY <1>3, <2>2, <2>8 DEF ValuesOf, Uses
<1>6. Len(s) = 1 \/ Len(s) > 1
    BY <1>1, Lengths, Zenon
<1> QED
    BY <1>4, <1>5, <1>6, Zenon

\* A reference is done.
LEMMA ReferredValue ==
    ASSUME ValuesInv, NEW l \in Loaders, Referred(l)
    PROVE  MadeAsConfigured' /\ ValuesOf(l)'
<1> DEFINE f == Top(l)
           v == f.got[1]
<1>1. pc[l] = "build" /\ f.def.type = "ref" /\ ~f.def.bad /\ Return(l, v)
      /\ UNCHANGED <<config, objects>>
    BY DEF Referred
<1>2. /\ f.got \in Seq(Nat) /\ Own(l, f) /\ WellFormed(f.def) /\ f.def \in Defs
      /\ config[l] \in Configs /\ f.name \in DOMAIN config[l].resources
    BY <1>1, TopFacts DEF ValuesInv, Own, Resources
<1>3. PICK u \in Nat : Return(l, u) /\ ~Reading(l)
    BY ReturnTypes DEF ValuesInv, Returns
<1>4. Len(f.def.to) = 1 /\ f.def.to[1] # None
    BY <1>1, <1>2 DEF WellFormed
<1>5. Len(f.got) = 1
    <2>1. Len(f.got) <= 1 /\ ~(Len(f.got) < 1) /\ Len(f.got) \in Nat
        BY <1>1, <1>2, <1>3, <1>4 DEF Own, Reading, Known
    <2> QED
        BY <2>1, Lengths, Zenon
<1>6. v \in Nat
    BY <1>2, <1>5
<1>7. FrameValued(objects, config[l], l, f)
    BY <1>1, TopFacts DEF ValuesInv, ValuesOf, Top
<1>8. Valued(objects, config[l], l, v, f.def.to[1])
    <2>1. 1 \in 1..Len(f.got)
        BY <1>5
    <2> QED
        BY <1>4, <1>7, <2>1 DEF FrameValued, FieldValued
<1>9. Reference(config[l], f.name) /\ f.def = config[l].resources[f.name]
    BY <1>1, <1>2 DEF Reference, Own, Resources
<1>10. Valued(objects, config[l], l, v, f.name)
    BY <1>2, <1>8, <1>9, ChainGoesOn DEF Valued
<1>11. Grown(objects, objects') /\ Valued(objects', config[l], l, v, f.name)
    BY <1>1, <1>10 DEF Grown
<1> QED
    BY <1>1, <1>6, <1>11, ReturnValue, ObjectsKept

\* A null resource is done.
LEMMA NullValue ==
    ASSUME ValuesInv, NEW l \in Loaders, BuildNull(l)
    PROVE  MadeAsConfigured' /\ ValuesOf(l)'
<1> DEFINE f == Top(l)
<1>1. pc[l] = "build" /\ f.def.type = "null" /\ Return(l, Nil) /\ UNCHANGED <<config, objects>>
    BY DEF BuildNull
<1>2. /\ Own(l, f) /\ config[l] \in Configs /\ f.name \in Names
      /\ f.name \in DOMAIN config[l].resources /\ f.def = config[l].resources[f.name]
    BY <1>1, TopFacts DEF ValuesInv, Own, Resources
<1>3. StandsFor(config[l], f.name, f.name)
    BY <1>1, <1>2, ChainEnds DEF Reference
<1>4. ValueFor(objects, config[l], l, Nil, f.name)
    BY <1>1, <1>2 DEF ValueFor, Role
<1>5. Grown(objects, objects') /\ Valued(objects', config[l], l, Nil, f.name)
    BY <1>1, <1>2, <1>3, <1>4 DEF Grown, Valued
<1> QED
    BY <1>1, <1>5, ReturnValue, ObjectsKept DEF Nil

\* An object is made.
LEMMA FinishValue ==
    ASSUME ValuesInv, NEW l \in Loaders, Finish(l)
    PROVE  MadeAsConfigured' /\ ValuesOf(l)'
<1> DEFINE f == Top(l)
           o == [by |-> l, name |-> f.name, type |-> f.def.type, fields |-> f.got]
           v == Len(objects) + 1
<1>1. /\ pc[l] = "build" /\ ~Reading(l) /\ f.def.type \in DOMAIN Role /\ FieldsFit(f)
      /\ Return(l, v) /\ config' = config /\ objects' = Append(objects, o)
    BY DEF Finish, MakeObject
<1>2. /\ f.got \in Seq(Nat) /\ Own(l, f) /\ f.def \in Defs /\ f.name \in Names
      /\ config[l] \in Configs /\ f.name \in DOMAIN config[l].resources
      /\ f.def = config[l].resources[f.name]
    BY <1>1, TopFacts DEF ValuesInv, Own, Resources
<1>3. objects \in Seq([by : Loaders, name : Names, type : DOMAIN Role, fields : Seq(Nat)])
    BY DEF ValuesInv, StackInv, TypeOK
<1>4. FrameValued(objects, config[l], l, f)
    BY <1>1, TopFacts DEF ValuesInv, ValuesOf, Top
<1>5. f.def.to \in Seq(Names \cup {None}) /\ Len(f.got) = Len(f.def.to)
    <2>1. f.def.to \in Seq(Names \cup {None}) /\ Len(f.def.to) \in Nat /\ Len(f.got) \in Nat
        BY <1>2, DefFacts
    <2>2. Len(f.got) <= Len(f.def.to) /\ ~(Len(f.got) < Len(f.def.to))
        BY <1>1, <1>2 DEF Own, Reading, Known
    <2> QED
        BY <2>1, <2>2
<1> HIDE DEF f, o
<1>6. /\ v \in Nat /\ v # Nil /\ DOMAIN objects' = 1..v /\ objects'[v] = o
      /\ \A i \in DOMAIN objects : i \in 1..v /\ objects'[i] = objects[i]
      /\ \A i \in 1..v : i \in DOMAIN objects \/ i = v
    BY <1>1, <1>3 DEF Nil
<1>7. Grown(objects, objects')
    BY <1>6 DEF Grown
<1>8. StandsFor(config[l], f.name, f.name)
    BY <1>1, <1>2, ChainEnds DEF Reference, Role
<1>9. ValueFor(objects', config[l], l, v, f.name)
    BY <1>1, <1>2, <1>6 DEF ValueFor, o
<1>10. Valued(objects', config[l], l, v, f.name)
    BY <1>2, <1>8, <1>9 DEF Valued
<1>11. ValuesOf(l)'
    BY <1>1, <1>6, <1>7, <1>10, ReturnValue DEF f
<1>12. ASSUME NEW j \in DOMAIN f.def.to
       PROVE  IF f.def.to[j] = None THEN f.got[j] = Nil
              ELSE /\ f.got[j] \in DOMAIN objects' /\ objects'[f.got[j]].by = l
                   /\ StandsFor(config[l], f.def.to[j], objects'[f.got[j]].name)
    <2>1. j \in DOMAIN f.got /\ j \in 1..Len(f.got)
        <3>1. Len(f.def.to) <= Len(f.got)
            BY <1>2, <1>5
        <3> QED
            BY <1>2, <1>5, <3>1, Within
    <2>2. FieldValued(objects, config[l], l, f.got[j], f.def.to[j])
        BY <1>4, <2>1 DEF FrameValued
    <2>3. f.def.to[j] = None \/ f.got[j] # Nil
        BY <1>1, <2>1 DEF FieldsFit, HasRole
    <2> QED
        BY <1>6, <2>2, <2>3 DEF FieldValued, Valued, ValueFor
<1>13. ASSUME NEW i \in DOMAIN objects' PROVE MadeFor(objects', config[objects'[i].by], i)
    <2>1. CASE i = v
        <3>1. objects'[i] = o /\ o.by = l /\ o.name = f.name /\ o.type = f.def.type
              /\ o.fields = f.got
            BY <1>6, <2>1 DEF o
        <3>2. DOMAIN f.got = DOMAIN f.def.to
            BY <1>2, <1>5
        <3> QED
            BY <1>2, <1>12, <3>1, <3>2 DEF MadeFor
    <2>2. CASE i \in DOMAIN objects
        BY <1>6, <1>7, <2>2, MadeForEach, MadeKept DEF ValuesInv
    <2> QED
        BY <1>6, <1>13, <2>1, <2>2
<1>14. MadeAsConfigured'
    <2>1. \A i \in DOMAIN objects' : MadeFor(objects', config'[objects'[i].by], i)
        BY <1>1, <1>13
    <2> QED
        BY <2>1, MadeForEachNext
<1> QED
    BY <1>11, <1>14

\* No loader that is not at work has values to keep.
LEMMA IdleValues ==
    ASSUME NEW k \in Loaders, Idle(k) PROVE ValuesOf(k)
BY DEF Idle, ValuesOf, Uses

\* The steps that make no object and read no field.
LEMMA OtherValues ==
    ASSUME ValuesInv, NEW l \in Loaders,
           \/ Lock(l) \/ Decode(l) \/ RangeEnds(l) \/ (\E n \in Names : Pick(l, n))
           \/ Build(l) \/ Failing(l) \/ Pipes(l) \/ Close(l)
    PROVE  MadeAsConfigured' /\ ValuesOf(l)'
<1>1. UNCHANGED <<config, objects>> /\ Grown(objects, objects')
    BY DEF Lock, Decode, RangeEnds, Pick, Build, Failing, Fail, Pipes, PassOver, PushBack,
           PipeOn, Close, Grown
<1>2. MadeAsConfigured'
    BY <1>1, ObjectsKept
<1>8. ASSUME Uses(l), UNCHANGED <<registry, value>>
      PROVE  \A n \in Names :
                registry'[n] = "complete" => Valued(objects', config'[l], l, value'[n], n)
    BY <1>1, <1>8, RegistryKept
<1>9. ASSUME pc[l] = "build"
      PROVE  stack[l] \in Seq(Frames) /\ Len(stack[l]) \in Nat
    BY <1>9, TopFacts DEF ValuesInv
<1> USE DEF ValuesInv, StackInv, TypeOK, Goto
<1>3. CASE Lock(l) \/ Failing(l) \/ Close(l)
    <2>1. pc'[l] \in {"decode", "failed", "done"}
        BY <1>3 DEF Lock, Failing, Fail, Close
    <2> QED
        BY <1>2, <2>1 DEF ValuesOf, Uses
<1>4. CASE Decode(l)
    <2>1. pc'[l] \in {"range", "failed"} /\ \A n \in Names : registry'[n] = "absent"
        BY <1>4 DEF Decode
    <2> QED
        BY <1>2, <2>1 DEF ValuesOf, Uses
<1>5. CASE RangeEnds(l) \/ Pipes(l)
    <2>1. Uses(l) /\ UNCHANGED <<registry, value>> /\ pc'[l] = "pipe"
        BY <1>5 DEF RangeEnds, Pipes, PassOver, PushBack, PipeOn, Found, AtUpstream, Uses, globals
    <2> QED
        BY <1>2, <1>8, <2>1 DEF ValuesOf
<1>6. ASSUME NEW n \in Names, Pick(l, n) PROVE ValuesOf(l)'
    <2>1. /\ pc[l] = "range" /\ stack'[l] = <<Frame(n)>>
          /\ registry' = [registry EXCEPT ![n] = "incomplete"]
          /\ value' = [value EXCEPT ![n] = Nil]
        BY <1>6 DEF Pick
    <2>2. ASSUME NEW m \in Names, registry'[m] = "complete"
          PROVE  Valued(objects', config'[l], l, value'[m], m)
        <3>1. m # n /\ registry[m] = "complete" /\ value'[m] = value[m]
            BY <2>1, <2>2
        <3> QED
            BY <1>1, <2>1, <3>1 DEF ValuesOf, Uses
    <2>3. FrameValued(objects', config'[l], l, Frame(n))
        BY DEF FrameValued, Frame
    <2>4. Len(<<Frame(n)>>) = 1 /\ <<Frame(n)>>[1] = Frame(n)
        OBVIOUS
    <2>5. \A i \in 1..Len(stack'[l]) : FrameValued(objects', config'[l], l, stack'[l][i])
        BY <2>1, <2>3, <2>4
    <2> QED
        BY <2>2, <2>5 DEF ValuesOf
<1>7. CASE Build(l)
    <2>1. pc[l] = "build" /\ UNCHANGED <<pc, registry, value>>
        BY <1>7 DEF Build, Reading, globals
    <2>2. stack[l] \in Seq(Frames) /\ Len(stack[l]) \in Nat
        BY <1>9, <2>1
    <2>3. stack'[l] = Append(stack[l], Frame(Target(l)))
        BY <1>7 DEF Build
    <2>4. FrameValued(objects, config[l], l, Frame(Target(l)))
        BY DEF FrameValued, Frame
    <2>5. \A i \in 1..Len(stack[l]) : FrameValued(objects, config[l], l, stack[l][i])
        BY <2>1 DEF ValuesOf
    <2>6. \A i \in 1..Len(stack'[l]) : FrameValued(objects, config[l], l, stack'[l][i])
        <3>1. \A i \in 1..(Len(stack[l]) + 1) : i \in 1..Len(stack[l]) \/ i = Len(stack[l]) + 1
            BY <2>2
        <3> QED
            BY <2>2, <2>3, <2>4, <2>5, <3>1
    <2>7. \A i \in 1..Len(stack'[l]) : FrameValued(objects', config'[l], l, stack'[l][i])
        BY <1>1, <2>6
    <2> QED
        BY <1>2, <1>8, <2>1, <2>7 DEF ValuesOf, Uses
<1> QED
    BY <1>2, <1>3, <1>4, <1>5, <1>6, <1>7

\* Reading a field.
LEMMA ReadsValue ==
    ASSUME ValuesInv, NEW l \in Loaders, Reads(l)
    PROVE  MadeAsConfigured' /\ ValuesOf(l)'
<1>1. CASE ResolveNull(l)
    BY <1>1, ReadValue DEF ResolveNull, FieldValued, Nil
<1>2. CASE Share(l)
    <2> DEFINE v == value[Target(l)]
    <2>1. Reading(l) /\ Target(l) # None /\ registry[Target(l)] = "complete" /\ Got(l, v)
        BY <1>2 DEF Share
    <2>2. Target(l) \in Names
        BY <2>1, TargetFacts DEF ValuesInv
    <2>3. v \in Nat
        BY <2>2 DEF ValuesInv, StackInv, TypeOK
    <2>4. FieldValued(objects, config[l], l, v, Target(l))
        BY <2>1, <2>2 DEF ValuesInv, ValuesOf, Uses, Reading, FieldValued
    <2> QED
        BY <2>1, <2>3, <2>4, ReadValue
<1> QED
    BY <1>1, <1>2 DEF Reads

LEMMA ValuesInit == Init => ValuesInv
<1> SUFFICES ASSUME Init PROVE ValuesInv
    OBVIOUS
<1>1. MadeAsConfigured
    BY DEF Init, MadeAsConfigured
<1>2. \A l \in Loaders : Idle(l)
    BY DEF Init, Idle
<1> QED
    BY <1>1, <1>2, StackInit, IdleValues DEF ValuesInv

LEMMA ValuesStep == ValuesInv /\ [Next]_vars => ValuesInv'
<1>1. ASSUME ValuesInv, [Next]_vars PROVE StackInv'
    BY <1>1, StackStep DEF ValuesInv
<1>2. ASSUME ValuesInv, NEW l \in Loaders, Lock(l) \/ Step(l), ~Overflow(l)
      PROVE  MadeAsConfigured' /\ \A k \in Loaders : ValuesOf(k)'
    <2>1. MadeAsConfigured' /\ ValuesOf(l)'
        BY <1>2, Kinds, OtherValues, ReadsValue, ReferredValue, NullValue, FinishValue
           DEF Returns
    <2>2. ASSUME NEW k \in Loaders, k # l PROVE ValuesOf(k)'
        <3>1. Idle(k)'
            BY <1>2, <2>2, OthersStay DEF ValuesInv
        <3> QED
            BY <3>1 DEF Idle, ValuesOf, Uses
    <2> QED
        BY <2>1, <2>2
<1>3. ASSUME ValuesInv, NEW l \in Loaders, Overflow(l)
      PROVE  MadeAsConfigured' /\ \A k \in Loaders : ValuesOf(k)'
    <2>1. UNCHANGED <<config, objects>> /\ \A k \in Loaders : pc'[k] = "crashed"
        BY <1>3 DEF Overflow
    <2> QED
        BY <1>3, <2>1, ObjectsKept DEF ValuesOf, Uses
<1>4. ASSUME ValuesInv, UNCHANGED vars
      PROVE  MadeAsConfigured' /\ \A k \in Loaders : ValuesOf(k)'
    BY <1>4, ObjectsKept DEF vars, globals, ValuesInv, ValuesOf, Uses
<1> QED
    BY <1>1, <1>2, <1>3, <1>4 DEF Next, ValuesInv

\* Construction: every object is made as configured, for any number of loaders
\* at a time, any configurations and any order in which the map is gone through.
THEOREM Construction == Spec => []MadeAsConfigured
<1>1. ValuesInv => MadeAsConfigured
    BY DEF ValuesInv
<1> QED
    BY <1>1, ValuesInit, ValuesStep, PTL DEF Spec

=============================================================================
