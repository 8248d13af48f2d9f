-------------------------- MODULE ConfigFaults_proofs --------------------------
(***************************************************************************)
(* Theorems about the errors that ConfigLoader reports, and about what it  *)
(* shares.                                                                 *)
(***************************************************************************)
EXTENDS ConfigLoader_proofs

\* A step makes objects only by Finish, and then one.
LEMMA ObjectsGrow ==
    ASSUME StackInv, NEW l \in Loaders, Lock(l) \/ Step(l), ~Finish(l)
    PROVE  objects' = objects
<1>1. Referred(l) \/ BuildNull(l) => objects' = objects
    BY DEF Referred, BuildNull
<1> QED
    BY <1>1, Kinds DEF Lock, Decode, RangeEnds, Pick, Reads, ResolveNull, Share, Got, Build,
           Overflow, Returns, Failing, Fail, Pipes, PassOver, PushBack, PipeOn, Close

\* Configurations are not changed.
LEMMA ConfigStays ==
    ASSUME StackInv, NEW l \in Loaders, Lock(l) \/ Step(l)
    PROVE  config' = config
<1>1. Returns(l) => config' = config
    BY ReturnTypes
<1> QED
    BY <1>1, Kinds DEF Lock, Decode, RangeEnds, Pick, Reads, ResolveNull, Share, Got, Build,
           Overflow, Failing, Fail, Pipes, PassOver, PushBack, PipeOn, Close

-----------------------------------------------------------------------------
(***************************************************************************)
(* Sharing.  The object in the registry is the last one made for its name. *)
(***************************************************************************)
\* No object made by l for n is later than v.
NoLater(objs, l, n, v) ==
    \A i \in DOMAIN objs : objs[i].by = l /\ objs[i].name = n => i <= v

\* What NeverBuiltAgain says of one loader.
SharedBy(l) ==
    Uses(l) => \A n \in Names :
        registry[n] = "complete" /\ Resources(l)[n].type # "ref" =>
            NoLater(objects, l, n, value[n])

LEMMA SharedByEach == NeverBuiltAgain <=> \A l \in Loaders : SharedBy(l)
BY DEF NeverBuiltAgain, SharedBy, NoLater

\* An object that is made is a new one, and for the name on top of the stack.
LEMMA FinishMakes ==
    ASSUME StackInv, NEW l \in Loaders, Finish(l), NEW n \in Names, NEW v \in Nat,
           \/ n # Top(l).name /\ NoLater(objects, l, n, v)
           \/ v = Len(objects) + 1
    PROVE  NoLater(objects', l, n, v)
<1> DEFINE o == [by |-> l, name |-> Top(l).name, type |-> Top(l).def.type,
                 fields |-> Top(l).got]
<1>1. objects \in Seq([by : Loaders, name : Names, type : DOMAIN Role, fields : Seq(Nat)])
    BY DEF StackInv, TypeOK
<1>2. objects' = Append(objects, o)
    BY DEF Finish, MakeObject
<1>3. o.name = Top(l).name
    OBVIOUS
<1> HIDE DEF o
<1>4. /\ Len(objects) \in Nat /\ DOMAIN objects' = 1..(Len(objects) + 1)
      /\ objects'[Len(objects) + 1] = o
      /\ \A i \in 1..Len(objects) : objects'[i] = objects[i]
    BY <1>1, <1>2
<1>5. ASSUME NEW i \in DOMAIN objects', objects'[i].by = l, objects'[i].name = n
      PROVE  i <= v
    <2>1. CASE v = Len(objects) + 1
        BY <1>4, <2>1
    <2>2. CASE n # Top(l).name /\ NoLater(objects, l, n, v)
        <3>1. i # Len(objects) + 1
            BY <1>3, <1>4, <1>5, <2>2
        <3>2. i \in DOMAIN objects /\ objects'[i] = objects[i]
            BY <1>1, <1>4, <3>1
        <3> QED
            BY <1>5, <2>2, <3>2 DEF NoLater
    <2> QED
        BY <2>1, <2>2
<1> QED
    BY <1>5 DEF NoLater

\* Of what is complete in the registry nothing is under construction.
LEMMA TopNotComplete ==
    ASSUME StackInv, NEW l \in Loaders, pc[l] = "build"
    PROVE  registry[Top(l).name] # "complete"
<1>1. /\ stack[l] \in Seq(Frames) /\ Len(stack[l]) \in Nat /\ Len(stack[l]) >= 1
      /\ Len(stack[l]) \in 1..Len(stack[l]) /\ Top(l).name \in Names
    BY TopFacts
<1>2. CASE Len(stack[l]) = 1
    BY <1>1, <1>2 DEF StackInv, Linked, Top
<1>3. CASE Len(stack[l]) > 1
    BY <1>1, <1>3 DEF StackInv, Linked, Top
<1> QED
    BY <1>1, <1>2, <1>3, Lengths, Zenon

\* No object is made for a null resource.
LEMMA NoneForNull ==
    ASSUME ValuesInv, NEW l \in Loaders, NEW n \in Names, Resources(l)[n].type = "null"
    PROVE  NoLater(objects, l, n, Nil)
<1> SUFFICES ASSUME NEW i \in DOMAIN objects, objects[i].by = l, objects[i].name = n
             PROVE  FALSE
    BY DEF NoLater
<1>1. objects[i].type = "null"
    BY DEF ValuesInv, MadeAsConfigured
<1>2. objects[i].type \in DOMAIN Role
    <2> DEFINE made == [by : Loaders, name : Names, type : DOMAIN Role, fields : Seq(Nat)]
    <2>1. objects \in Seq(made)
        BY DEF ValuesInv, StackInv, TypeOK
    <2> HIDE DEF made
    <2>2. objects[i] \in made
        BY <2>1
    <2> QED
        BY <2>2 DEF made
<1> QED
    BY <1>1, <1>2 DEF Role

\* The value returned for the innermost resource is that of its last object.
LEMMA ReturnShares ==
    ASSUME ValuesInv, NEW l \in Loaders, SharedBy(l), pc[l] = "build", NEW v \in Nat,
           Return(l, v), config' = config,
           Resources(l)[Top(l).name].type # "ref" => NoLater(objects', l, Top(l).name, v),
           \A n \in Names : n # Top(l).name /\ NoLater(objects, l, n, value[n])
                                => NoLater(objects', l, n, value[n])
    PROVE  SharedBy(l)'
<1> SUFFICES ASSUME NEW n \in Names, registry'[n] = "complete", Resources(l)[n].type # "ref"
             PROVE  NoLater(objects', l, n, value'[n])
    BY DEF SharedBy, Resources
<1>1. Top(l).name \in Names /\ registry[Top(l).name] # "complete"
    BY TopFacts, TopNotComplete DEF ValuesInv
<1>2. CASE UNCHANGED <<registry, value>>
    <2>1. n # Top(l).name /\ NoLater(objects, l, n, value[n])
        BY <1>1, <1>2 DEF SharedBy, Uses
    <2> QED
        BY <1>2, <2>1
<1>3. CASE /\ registry' = [registry EXCEPT ![Top(l).name] = "complete"]
           /\ value' = [value EXCEPT ![Top(l).name] = v]
    <2>1. CASE n = Top(l).name
        <3>1. value'[n] = v
            BY <1>1, <1>3, <2>1 DEF ValuesInv, StackInv, TypeOK
        <3> QED
            BY <2>1, <3>1
    <2>2. CASE n # Top(l).name
        <3>1. registry[n] = "complete" /\ value'[n] = value[n]
            BY <1>3, <2>2 DEF ValuesInv, StackInv, TypeOK
        <3>2. NoLater(objects, l, n, value[n])
            BY <3>1 DEF SharedBy, Uses
        <3> QED
            BY <2>2, <3>1, <3>2
    <2> QED
        BY <2>1, <2>2
<1> QED
    BY <1>2, <1>3 DEF Return

LEMMA SharedStep ==
    ASSUME ValuesInv, NEW l \in Loaders, Lock(l) \/ Step(l), SharedBy(l)
    PROVE  SharedBy(l)'
<1>1. config' = config
    BY ConfigStays DEF ValuesInv
<1> USE DEF ValuesInv, StackInv, TypeOK
<1>2. CASE Lock(l) \/ Overflow(l) \/ Failing(l) \/ Close(l)
    <2>1. pc'[l] \in {"decode", "crashed", "failed", "done"}
        BY <1>2 DEF Lock, Overflow, Failing, Fail, Close, Goto
    <2> QED
        BY <2>1 DEF SharedBy, Uses
<1>3. CASE Decode(l)
    BY <1>3 DEF Decode, SharedBy
<1>4. CASE RangeEnds(l) \/ Pipes(l) \/ Reads(l) \/ Build(l)
    <2>1. Uses(l) /\ UNCHANGED <<registry, value, objects>>
        BY <1>4 DEF RangeEnds, Pipes, PassOver, PushBack, PipeOn, Found, AtUpstream, Reads, ResolveNull,
               Share, Got, Build, Reading, Uses, globals
    <2> QED
        BY <1>1, <2>1 DEF SharedBy, Resources
<1>5. ASSUME NEW m \in Names, Pick(l, m) PROVE SharedBy(l)'
    <2>1. /\ registry' = [registry EXCEPT ![m] = "incomplete"]
          /\ value' = [value EXCEPT ![m] = Nil]
          /\ UNCHANGED objects /\ Uses(l)
        BY <1>5 DEF Pick, Uses
    <2>2. ASSUME NEW n \in Names, registry'[n] = "complete"
          PROVE  registry[n] = "complete" /\ value'[n] = value[n]
        BY <2>1, <2>2
    <2> QED
        BY <1>1, <2>1, <2>2 DEF SharedBy, Resources
<1>6. CASE Referred(l)
    <2>1. pc[l] = "build" /\ objects' = objects /\ Top(l).def.type = "ref"
        BY <1>6 DEF Referred
    <2>2. Resources(l)[Top(l).name].type = "ref"
        BY <2>1, TopFacts DEF Own
    <2>3. PICK v \in Nat : Return(l, v)
        BY <1>6, ReturnTypes DEF Returns
    <2> QED
        BY <1>1, <2>1, <2>2, <2>3, ReturnShares
<1>7. CASE BuildNull(l)
    <2>1. pc[l] = "build" /\ objects' = objects /\ Top(l).def.type = "null" /\ Return(l, Nil)
        BY <1>7 DEF BuildNull
    <2>2. Resources(l)[Top(l).name].type = "null" /\ Top(l).name \in Names
        BY <2>1, TopFacts DEF Own
    <2>3. NoLater(objects', l, Top(l).name, Nil)
        BY <2>1, <2>2, NoneForNull
    <2> QED
        BY <1>1, <2>1, <2>3, ReturnShares DEF Nil
<1>8. CASE Finish(l)
    <2>1. pc[l] = "build" /\ Return(l, Len(objects) + 1) /\ Len(objects) + 1 \in Nat
        BY <1>8 DEF Finish, MakeObject
    <2>2. Top(l).name \in Names
        BY <2>1, TopFacts
    <2>3. NoLater(objects', l, Top(l).name, Len(objects) + 1)
        BY <1>8, <2>1, <2>2, FinishMakes
    <2>4. \A n \in Names : value[n] \in Nat
        OBVIOUS
    <2>5. \A n \in Names : n # Top(l).name /\ NoLater(objects, l, n, value[n])
                               => NoLater(objects', l, n, value[n])
        BY <1>8, <2>4, FinishMakes
    <2> QED
        BY <1>1, <2>1, <2>3, <2>5, ReturnShares
<1> QED
    BY <1>2, <1>3, <1>4, <1>5, <1>6, <1>7, <1>8, Kinds DEF Returns

\* SharedOnce: once a resource is in the registry no other instance of it is
\* made, for any configurations, loaders and order of the map.
THEOREM SharedOnce == Spec => []NeverBuiltAgain
<1> DEFINE Inv == ValuesInv /\ NeverBuiltAgain
<1>1. Init => Inv
    BY ValuesInit DEF Init, NeverBuiltAgain, Uses
<1>2. Inv /\ [Next]_vars => Inv'
    <2> SUFFICES ASSUME Inv, [Next]_vars PROVE NeverBuiltAgain'
        BY ValuesStep
    <2>1. ASSUME NEW l \in Loaders, Lock(l) \/ Step(l), NEW k \in Loaders PROVE SharedBy(k)'
        <3>1. CASE k = l
            BY <2>1, <3>1, SharedStep, SharedByEach
        <3>2. CASE k # l /\ ~Overflow(l)
            <4>1. Idle(k)'
                BY <2>1, <3>2, OthersStay DEF ValuesInv
            <4> QED
                BY <4>1 DEF Idle, SharedBy, Uses
        <3>3. CASE Overflow(l)
            BY <3>3 DEF Overflow, SharedBy, Uses
        <3> QED
            BY <3>1, <3>2, <3>3
    <2>2. CASE \E l \in Loaders : Lock(l) \/ Step(l)
        BY <2>1, <2>2 DEF NeverBuiltAgain, SharedBy, NoLater
    <2>3. CASE UNCHANGED vars
        BY <2>3 DEF vars, globals, NeverBuiltAgain, Uses, Resources
    <2> QED
        BY <2>2, <2>3 DEF Next
<1> QED
    BY <1>1, <1>2, PTL DEF Spec

-----------------------------------------------------------------------------
(***************************************************************************)
(* Reasons.  A resource on the stack refers to the next one, so that a     *)
(* resource found under construction, or a stack with more resources than  *)
(* there are names, is a cycle; what is in a field or in the registry      *)
(* plays the role of what the name stands for.                             *)
(***************************************************************************)
LEMMA StackRefers ==
    ASSUME StackInv, NEW l \in Loaders, pc[l] = "build", NEW i \in 1..Len(stack[l])
    PROVE  /\ stack[l][i].name \in DOMAIN config[l].resources
           /\ i # Len(stack[l]) => /\ i + 1 \in 1..Len(stack[l])
                                   /\ Refers(config[l], stack[l][i].name, stack[l][i + 1].name)
<1> DEFINE f == stack[l][i]
<1>1. stack[l] \in Seq(Frames) /\ Len(stack[l]) \in Nat
    BY TopFacts
<1>2. f \in Frames /\ Own(l, f)
    BY <1>1 DEF StackInv, Linked
<1>3. f.def.to \in Seq(Names \cup {None}) /\ Len(f.got) \in Nat /\ Len(f.def.to) \in Nat
    BY <1>2, DefFacts, FrameFacts
<1>4. ASSUME i # Len(stack[l])
      PROVE  i + 1 \in 1..Len(stack[l]) /\ Refers(config[l], f.name, stack[l][i + 1].name)
    <2>1. i + 1 \in 1..Len(stack[l]) /\ i + 1 > 1 /\ (i + 1) - 1 = i
        BY <1>1, <1>4
    <2>2. Link(f, stack[l][i + 1])
        BY <2>1 DEF StackInv, Linked
    <2> DEFINE g == stack[l][i + 1]
    <2> HIDE DEF f, g
    <2>3. Len(f.got) + 1 \in DOMAIN f.def.to
        BY <1>3, <2>2 DEF Link, g
    <2>4. Refers(config[l], f.name, g.name)
        BY <1>2, <2>2, <2>3 DEF Link, Own, Refers, Resources, g
    <2> QED
        BY <2>1, <2>4 DEF g
<1> QED
    BY <1>2, <1>4 DEF Own, Resources

\* A part of the stack whose last resource refers to the first is a cycle.
LEMMA LoopIsCycle ==
    ASSUME StackInv, NEW l \in Loaders, pc[l] = "build",
           NEW a \in 1..Len(stack[l]), NEW b \in 1..Len(stack[l]), a <= b,
           Refers(config[l], stack[l][b].name, stack[l][a].name)
    PROVE  Cyclic(config[l])
<1> DEFINE N(i) == stack[l][i].name
           S == {N(i) : i \in a..b}
<1>1. Len(stack[l]) \in Nat /\ a \in Nat /\ b \in Nat /\ b <= Len(stack[l]) /\ a >= 1
    BY TopFacts
<1>2. \A i \in a..b : i \in 1..Len(stack[l])
    BY <1>1
<1>3. S \in SUBSET (DOMAIN config[l].resources)
    BY <1>2, StackRefers
<1>4. N(a) \in S
    BY <1>1
<1>5. ASSUME NEW i \in a..b PROVE \E m \in S : Refers(config[l], N(i), m)
    <2>1. CASE i = b
        BY <1>4, <2>1
    <2>2. CASE i # b
        <3>1. i + 1 \in a..b /\ i \in 1..Len(stack[l]) /\ i # Len(stack[l])
            BY <1>1, <2>2
        <3>2. Refers(config[l], N(i), N(i + 1))
            BY <3>1, StackRefers
        <3> QED
            BY <3>1, <3>2
    <2> QED
        BY <2>1, <2>2
<1>6. \A n \in S : \E m \in S : Refers(config[l], n, m)
    BY <1>5
<1> QED
    BY <1>3, <1>4, <1>6 DEF Cyclic

LEMMA CycleIsCyclic ==
    ASSUME StackInv, NEW l \in Loaders, Cycle(l)
    PROVE  Cyclic(config[l])
<1>1. pc[l] = "build" /\ Reading(l) /\ Target(l) # None /\ registry[Target(l)] = "incomplete"
    BY DEF Cycle, Reading
<1>2. Target(l) \in Names /\ Refers(config[l], Top(l).name, Target(l))
    BY <1>1, TargetFacts
<1>3. Len(stack[l]) \in Nat /\ Len(stack[l]) >= 1 /\ Len(stack[l]) \in 1..Len(stack[l])
    BY <1>1, TopFacts
<1>4. Target(l) = stack[l][1].name
    BY <1>1, <1>2 DEF StackInv, Linked
<1>5. 1 \in 1..Len(stack[l]) /\ 1 <= Len(stack[l])
    BY <1>3
<1>6. Refers(config[l], stack[l][Len(stack[l])].name, stack[l][1].name)
    BY <1>2, <1>4 DEF Top
<1> QED
    BY <1>1, <1>3, <1>5, <1>6, LoopIsCycle

\* There are fewer names than the stack can be deep.
LEMMA OverflowIsCyclic ==
    ASSUME StackInv, NEW l \in Loaders, Overflow(l)
    PROVE  Cyclic(config[l])
<1> DEFINE top == Len(stack[l])
           names == [i \in 1..top |-> stack[l][i].name]
<1>1. pc[l] = "build" /\ Reading(l) /\ top >= MaxDepth
    BY DEF Overflow, Reading
<1>2. stack[l] \in Seq(Frames) /\ top \in Nat /\ top \in 1..top
    BY <1>1, TopFacts
<1>3. names \in [1..top -> Names]
    <2>1. \A i \in 1..top : stack[l][i] \in Frames
        BY <1>2
    <2> QED
        BY <2>1 DEF Frames
<1>4. IsFiniteSet(Names) /\ MaxDepth \in Nat /\ MaxDepth > Cardinality(Names)
    BY ConfigAssumption DEF ConfigAssumption
<1>5. IsFiniteSet(1..top) /\ Cardinality(1..top) = top
    <2> HIDE DEF top
    <2>1. 1 \in Int /\ top \in Int
        BY <1>2
    <2>2. /\ IsFiniteSet(1..top)
          /\ Cardinality(1..top) = IF 1 > top THEN 0 ELSE top - 1 + 1
        BY ONLY <2>1, FS_Interval, Zenon
    <2>3. (IF 1 > top THEN 0 ELSE top - 1 + 1) = top
        BY <1>2
    <2> QED
        BY <2>2, <2>3
<1>6. Cardinality(Names) \in Nat
    BY <1>4, FS_CardinalityType
<1>7. Cardinality(Names) < Cardinality(1..top)
    BY <1>1, <1>2, <1>4, <1>5, <1>6
<1> HIDE DEF names, top
<1>8. PICK i \in 1..top, j \in 1..top : i # j /\ names[i] = names[j]
    BY <1>3, <1>4, <1>5, <1>7, FS_PigeonHole
<1>9. ASSUME NEW a \in 1..top, NEW b \in 1..top, a < b, names[a] = names[b]
      PROVE  Cyclic(config[l])
    <2>1. b - 1 \in 1..top /\ a <= b - 1 /\ b - 1 # top /\ (b - 1) + 1 = b
        BY <1>2, <1>9
    <2>2. Refers(config[l], stack[l][b - 1].name, stack[l][b].name)
        BY <1>1, <2>1, StackRefers DEF top
    <2>3. stack[l][a].name = stack[l][b].name
        BY <1>9 DEF names
    <2> QED
        BY <1>1, <2>1, <2>2, <2>3, LoopIsCycle DEF top
<1>10. i < j \/ j < i
    BY <1>2, <1>8
<1> QED
    BY <1>8, <1>9, <1>10

\* A value plays the role of what its name stands for.
LEMMA ValuePlays ==
    ASSUME NEW l \in Loaders, NEW cfg \in Configs, NEW n \in Names, NEW v, NEW role,
           Valued(objects, cfg, l, v, n)
    PROVE  HasRole(v, role) <=> Plays(cfg, n, role)
<1>1. PICK m \in Names : StandsFor(cfg, n, m) /\ ValueFor(objects, cfg, l, v, m)
    BY DEF Valued
<1>2. Plays(cfg, n, role) <=> cfg.resources[m].type \in DOMAIN Role
                              /\ Role[cfg.resources[m].type] = role
    BY <1>1, ChainsAreUnique DEF Plays
<1>3. HasRole(v, role) <=> cfg.resources[m].type \in DOMAIN Role
                           /\ Role[cfg.resources[m].type] = role
    BY <1>1 DEF ValueFor, HasRole
<1> QED
    BY <1>2, <1>3

\* The reason for an error.
Reason(cfg, why) ==
    /\ why = "decode" => ~cfg.decodes
    /\ why = "pipeline" => cfg.decodes /\ cfg.pipeline = <<>>
    /\ why = "cycle" => Cyclic(cfg)
    /\ why = "missing" => Dangling(cfg)
    /\ why = "type" => Mistyped(cfg)
    /\ why = "data" => Spoiled(cfg)

\* The resource on top of the stack is one of the configuration.
LEMMA TopDefined ==
    ASSUME StackInv, NEW l \in Loaders, pc[l] = "build"
    PROVE  /\ config[l] \in Configs
           /\ Top(l).name \in DOMAIN config[l].resources
           /\ config[l].resources[Top(l).name] = Top(l).def
BY TopFacts DEF Own, Resources

LEMMA MissingDangles ==
    ASSUME StackInv, NEW l \in Loaders, Missing(l)
    PROVE  Dangling(config[l])
<1>1. pc[l] = "build" /\ Reading(l) /\ Target(l) # None
      /\ Target(l) \notin DOMAIN unregisterredResources
    BY DEF Missing, Reading
<1>2. Target(l) \in Names /\ Refers(config[l], Top(l).name, Target(l))
    BY <1>1, TargetFacts
<1>3. Target(l) \notin DOMAIN config[l].resources
    BY <1>1, TopFacts DEF Resources
<1> QED
    BY <1>1, <1>2, <1>3, TopDefined DEF Dangling

\* A field with a value of the wrong type refers to a resource of the wrong type.
LEMMA MisfitMistyped ==
    ASSUME ValuesInv, NEW l \in Loaders, pc[l] = "build", ~Reading(l),
           Top(l).def.type \in DOMAIN Role, ~FieldsFit(Top(l))
    PROVE  Mistyped(config[l])
<1> DEFINE f == Top(l)
<1>1. /\ f.name \in DOMAIN config[l].resources /\ config[l].resources[f.name] = f.def
      /\ config[l] \in Configs
    BY TopDefined DEF ValuesInv
<1>2. f.def.to \in Seq(Names \cup {None}) /\ f.got \in Seq(Nat) /\ Own(l, f)
    BY TopFacts, DefFacts DEF ValuesInv
<1>3. FrameValued(objects, config[l], l, f)
    BY TopFacts DEF ValuesInv, ValuesOf, Top
<1> HIDE DEF f
<1>4. PICK i \in DOMAIN f.got : /\ ~(f.def.type = "minmonitorredservice" /\ f.def.to[i] = None)
                                /\ ~HasRole(f.got[i], Wanted(f.def.type, i))
    BY DEF FieldsFit, f
<1>5. i \in DOMAIN f.def.to /\ i \in 1..Len(f.got)
    <2>1. Len(f.got) <= Len(f.def.to)
        BY <1>2 DEF Own
    <2> QED
        BY <1>2, <1>4, <2>1, Within
<1>6. CASE f.def.to[i] = None
    BY <1>1, <1>4, <1>5, <1>6 DEF Mistyped, f
<1>7. CASE f.def.to[i] # None
    <2>1. f.def.to[i] \in Names
        BY <1>2, <1>5, <1>7
    <2>2. Valued(objects, config[l], l, f.got[i], f.def.to[i])
        BY <1>3, <1>5, <1>7 DEF FrameValued, FieldValued
    <2>3. ~Plays(config[l], f.def.to[i], Wanted(f.def.type, i))
        BY <1>1, <1>4, <2>1, <2>2, ValuePlays
    <2> QED
        BY <1>1, <1>5, <1>7, <2>3 DEF Mistyped, f
<1> QED
    BY <1>6, <1>7

LEMMA RejectReasons ==
    ASSUME ValuesInv, NEW l \in Loaders, Reject(l)
    PROVE  \E why : Fail(l, why) /\ Reason(config[l], why)
<1>1. pc[l] = "build" /\ ~Reading(l)
    BY DEF Reject
<1>2. /\ Top(l).name \in DOMAIN config[l].resources
      /\ config[l].resources[Top(l).name] = Top(l).def
    BY <1>1, TopDefined DEF ValuesInv
<1>3. CASE Top(l).def.type = "unknown" /\ Fail(l, "type")
    BY <1>2, <1>3 DEF Reason, Mistyped
<1>4. CASE Top(l).def.type \in DOMAIN Role /\ ~FieldsFit(Top(l)) /\ Fail(l, "type")
    BY <1>1, <1>4, MisfitMistyped DEF Reason
<1>5. CASE Known(Top(l).def) /\ Top(l).def.bad /\ Fail(l, "data")
    BY <1>2, <1>5 DEF Reason, Spoiled
<1> QED
    BY <1>3, <1>4, <1>5 DEF Reject

LEMMA NoFilterReasons ==
    ASSUME ValuesInv, NEW l \in Loaders, NoFilter(l)
    PROVE  \E why : Fail(l, why) /\ Reason(config[l], why)
<1> DEFINE i == position[l] + 1
           n == Upstream(l)
<1>1. pc[l] = "pipe" /\ position[l] < Len(config[l].pipeline)
    BY DEF NoFilter, Found, AtUpstream
<1>2. config[l] \in Configs /\ position[l] \in Nat /\ config[l].pipeline \in Seq(Names)
    BY ConfigFacts DEF ValuesInv, StackInv, TypeOK
<1>3. i \in DOMAIN config[l].pipeline /\ n = config[l].pipeline[i] /\ n \in Names
    BY <1>1, <1>2 DEF Upstream
<1> HIDE DEF i, n
<1>4. CASE registry[n] = "absent" /\ Fail(l, "missing")
    <2>1. n \notin DOMAIN config[l].resources
        BY <1>1, <1>4 DEF ValuesInv, StackInv, Settled, Resources
    <2> QED
        BY <1>3, <1>4, <2>1 DEF Reason, Dangling
<1>5. CASE /\ registry[n] # "absent" /\ Fail(l, "type")
           /\ \A role \in {"router", "filter"} : ~HasRole(value[n], role)
    <2>1. registry[n] = "complete"
        BY <1>1, <1>3, <1>5 DEF ValuesInv, StackInv, TypeOK, Settled
    <2>2. Valued(objects, config[l], l, value[n], n)
        BY <1>1, <1>3, <2>1 DEF ValuesInv, ValuesOf, Uses
    <2>3. \A role \in {"router", "filter"} : ~Plays(config[l], n, role)
        BY <1>2, <1>3, <1>5, <2>2, ValuePlays
    <2> QED
        BY <1>3, <1>5, <2>3 DEF Reason, Mistyped
<1> QED
    BY <1>4, <1>5 DEF NoFilter, Found, AtUpstream, n

\* Every error that a step reports has its reason.
LEMMA ErrorStep ==
    ASSUME ValuesInv, NEW l \in Loaders, Lock(l) \/ Step(l)
    PROVE  error'[l] = error[l] \/ Reason(config[l], error'[l])
<1>1. CASE Cycle(l) \/ Missing(l) \/ Reject(l) \/ NoFilter(l)
    <2>1. \E why : Fail(l, why) /\ Reason(config[l], why)
        BY <1>1, CycleIsCyclic, MissingDangles, RejectReasons, NoFilterReasons
           DEF Cycle, Missing, Reason, ValuesInv
    <2> QED
        BY <2>1 DEF Fail, ValuesInv, StackInv, TypeOK
<1>2. CASE Decode(l)
    BY <1>2 DEF Decode, Reason, ValuesInv, StackInv, TypeOK
<1>3. CASE ~(Cycle(l) \/ Missing(l) \/ Reject(l) \/ NoFilter(l) \/ Decode(l))
    BY <1>3 DEF Lock, Step, RangeEnds, Pick, ResolveNull, Share, Got, Build, Overflow, Referred,
           BuildNull, Finish, MakeObject, PassOver, PushBack, PipeOn, Close
<1> QED
    BY <1>1, <1>2, <1>3

\* The program ends only by Overflow.
LEMMA CrashStep ==
    ASSUME StackInv, NEW l \in Loaders, Lock(l) \/ Step(l), ~Overflow(l),
           NEW k \in Loaders, pc'[k] = "crashed", holder' = k
    PROVE  pc[k] = "crashed" /\ holder = k
<1>1. pc'[l] # "crashed"
    <2> USE DEF StackInv, TypeOK, Goto
    <2>1. CASE Lock(l) \/ Decode(l) \/ RangeEnds(l) \/ Close(l) \/ \E n \in Names : Pick(l, n)
        BY <2>1 DEF Lock, Decode, RangeEnds, Close, Pick
    <2>2. CASE Reads(l) \/ Build(l) \/ Pipes(l)
        BY <2>2 DEF Reads, Build, Pipes, ResolveNull, Share, Got, PassOver, PushBack, PipeOn,
               Reading, Found, AtUpstream
    <2>3. CASE Returns(l)
        <3>1. PICK v \in Nat : Return(l, v) /\ pc[l] = "build"
            BY <2>3, ReturnTypes
        <3> QED
            BY <3>1 DEF Return
    <2>4. CASE Failing(l)
        BY <2>4 DEF Failing, Fail
    <2> QED
        BY <2>1, <2>2, <2>3, <2>4, Kinds
<1>2. k # l /\ pc[k] = "crashed"
    BY <1>1, OthersStay
<1>3. holder' \in {holder, l, None}
    BY ReturnTypes, Kinds DEF Lock, Decode, RangeEnds, Pick, Reads, ResolveNull, Share, Got,
       Build, Failing, Fail, Pipes, PassOver, PushBack, PipeOn, Close
<1> QED
    BY <1>2, <1>3, ConfigAssumption DEF ConfigAssumption

\* What ErrorsHaveReasons says of one loader.
HasReason(l) ==
    /\ Reason(config[l], error[l])
    /\ pc[l] = "crashed" /\ holder = l => Cyclic(config[l])

LEMMA HasReasonEach == ErrorsHaveReasons <=> \A l \in Loaders : HasReason(l)
BY DEF ErrorsHaveReasons, HasReason, Reason

LEMMA ReasonsStep ==
    ASSUME ValuesInv, ErrorsHaveReasons, NEW l \in Loaders, Lock(l) \/ Step(l),
           NEW k \in Loaders
    PROVE  HasReason(k)'
<1>1. config' = config /\ HasReason(k)
    BY ConfigStays, HasReasonEach DEF ValuesInv
<1>2. CASE Overflow(l)
    <2>1. UNCHANGED <<config, error, holder>> /\ holder = l /\ Cyclic(config[l])
        BY <1>2, OverflowIsCyclic, TopFacts DEF Overflow, Reading, ValuesInv
    <2> QED
        BY <1>1, <2>1 DEF HasReason
<1>3. CASE ~Overflow(l)
    <2>1. error'[k] = error[k] \/ Reason(config[k], error'[k])
        BY <1>3, ErrorStep, OthersStay DEF ValuesInv
    <2>2. pc'[k] = "crashed" /\ holder' = k => pc[k] = "crashed" /\ holder = k
        BY <1>3, CrashStep DEF ValuesInv
    <2> QED
        BY <1>1, <2>1, <2>2 DEF HasReason
<1> QED
    BY <1>2, <1>3

\* Reasoned: every error and every crash has its reason in the configuration,
\* for any configurations, loaders and order of the map.
THEOREM Reasoned == Spec => []ErrorsHaveReasons
<1> DEFINE Inv == ValuesInv /\ ErrorsHaveReasons
<1>1. Init => Inv
    BY ValuesInit DEF Init, ErrorsHaveReasons
<1>2. Inv /\ [Next]_vars => Inv'
    <2> SUFFICES ASSUME Inv, [Next]_vars PROVE ErrorsHaveReasons'
        BY ValuesStep
    <2>1. CASE \E l \in Loaders : Lock(l) \/ Step(l)
        <3>1. \A k \in Loaders : HasReason(k)'
            BY <2>1, ReasonsStep
        <3> QED
            BY <3>1 DEF ErrorsHaveReasons, HasReason, Reason
    <2>2. CASE UNCHANGED vars
        BY <2>2 DEF vars, ErrorsHaveReasons
    <2> QED
        BY <2>1, <2>2 DEF Next
<1> QED
    BY <1>1, <1>2, PTL DEF Spec

-----------------------------------------------------------------------------
(***************************************************************************)
(* Faults.  A resource is grounded if its references lead nowhere but to   *)
(* resources that are; whatever has been built is grounded, and free of    *)
(* faults of its own.                                                      *)
(***************************************************************************)
\* S has every resource that refers to nothing outside of S.
Hereditary(cfg, S) ==
    \A n \in DOMAIN cfg.resources :
        (\A m \in Names : Refers(cfg, n, m) => m \in S) => n \in S
Grounded(cfg, n) == \A S \in SUBSET Names : Hereditary(cfg, S) => n \in S

LEMMA GroundedByReferences ==
    ASSUME NEW cfg \in Configs, NEW n \in DOMAIN cfg.resources,
           \A m \in Names : Refers(cfg, n, m) => Grounded(cfg, m)
    PROVE  Grounded(cfg, n)
BY DEF Grounded, Hereditary

LEMMA GroundedIsDefined ==
    ASSUME NEW cfg \in Configs, NEW n, Grounded(cfg, n)
    PROVE  n \in DOMAIN cfg.resources
<1>1. Hereditary(cfg, DOMAIN cfg.resources)
    BY DEF Hereditary
<1> QED
    BY <1>1, ConfigFacts DEF Grounded

LEMMA GroundedIsAcyclic ==
    ASSUME NEW cfg \in Configs, \A n \in DOMAIN cfg.resources : Grounded(cfg, n)
    PROVE  ~Cyclic(cfg)
<1> SUFFICES ASSUME NEW S \in SUBSET (DOMAIN cfg.resources), S # {},
                    \A n \in S : \E m \in S : Refers(cfg, n, m)
             PROVE  FALSE
    BY DEF Cyclic
<1>1. Hereditary(cfg, Names \ S)
    BY ConfigFacts DEF Hereditary
<1>2. PICK n \in S : TRUE
    OBVIOUS
<1> QED
    BY <1>1, <1>2 DEF Grounded

\* A resource without a fault of its own.
Faultless(cfg, n) ==
    LET d == cfg.resources[n]
    IN  /\ ~(Known(d) /\ d.bad) /\ d.type # "unknown"
        /\ d.type \in DOMAIN Role => \A i \in DOMAIN d.to :
              IF d.to[i] = None THEN d.type = "minmonitorredservice"
              ELSE Plays(cfg, d.to[i], Wanted(d.type, i))

\* An entry of the pipeline without a fault.
Fitting(cfg, i) ==
    /\ cfg.pipeline[i] \in DOMAIN cfg.resources
    /\ \E role \in {"router", "filter"} : Plays(cfg, cfg.pipeline[i], role)

NoFault(cfg) == ~Cyclic(cfg) /\ ~Dangling(cfg) /\ ~Mistyped(cfg) /\ ~Spoiled(cfg)

LEMMA AllInOrder ==
    ASSUME NEW cfg \in Configs,
           \A n \in DOMAIN cfg.resources : Grounded(cfg, n) /\ Faultless(cfg, n),
           \A i \in DOMAIN cfg.pipeline : Fitting(cfg, i)
    PROVE  NoFault(cfg)
<1>1. ~Cyclic(cfg)
    BY GroundedIsAcyclic
<1>2. ASSUME NEW n \in DOMAIN cfg.resources, NEW m \in Names, Refers(cfg, n, m)
      PROVE  m \in DOMAIN cfg.resources
    <2>1. Hereditary(cfg, {k \in DOMAIN cfg.resources :
                             \A j \in Names : Refers(cfg, k, j) => j \in DOMAIN cfg.resources})
        BY DEF Hereditary
    <2>2. n \in {k \in DOMAIN cfg.resources :
                   \A j \in Names : Refers(cfg, k, j) => j \in DOMAIN cfg.resources}
        BY <2>1, ConfigFacts DEF Grounded
    <2> QED
        BY <1>2, <2>2
<1>3. ~Dangling(cfg)
    BY <1>2 DEF Dangling, Fitting
<1>4. ~Mistyped(cfg) /\ ~Spoiled(cfg)
    BY DEF Mistyped, Spoiled, Faultless, Fitting
<1> QED
    BY <1>1, <1>3, <1>4 DEF NoFault

\* What has been read into the fields of f is grounded.
FrameGrounded(cfg, f) ==
    \A j \in 1..Len(f.got) : f.def.to[j] # None => Grounded(cfg, f.def.to[j])

\* The stack keeps this when its innermost resource gets one more value.
LEMMA StackGrounded ==
    ASSUME NEW s \in Seq(Frames), Len(s) >= 1, NEW v \in Nat, NEW cfg, NEW m,
           m = s[Len(s)].def.to[Len(s[Len(s)].got) + 1], m # None => Grounded(cfg, m),
           \A i \in 1..Len(s) : FrameGrounded(cfg, s[i])
    PROVE  \A i \in 1..Len(WithGot(s, v)) : FrameGrounded(cfg, WithGot(s, v)[i])
<1> DEFINE t == WithGot(s, v)
           f == s[Len(s)]
<1>1. /\ Len(t) = Len(s)
      /\ \A i \in 1..Len(s) : t[i].name = s[i].name /\ t[i].def = s[i].def
      /\ \A i \in 1..Len(s) : i # Len(s) => t[i] = s[i]
      /\ t[Len(s)].got = Append(f.got, v)
    BY WithGotFacts
<1>2. Len(s) \in 1..Len(s) /\ f \in Frames
    OBVIOUS
<1> HIDE DEF t, f
<1>3. f.got \in Seq(Nat) /\ Len(f.got) \in Nat /\ FrameGrounded(cfg, f)
    BY <1>2, FrameFacts DEF f
<1>4. FrameGrounded(cfg, t[Len(s)])
    <2>1. t[Len(s)].def = f.def
        BY <1>1, <1>2 DEF f
    <2>2. Len(t[Len(s)].got) = Len(f.got) + 1
        BY <1>1, <1>3
    <2>3. ASSUME NEW j \in 1..(Len(f.got) + 1), f.def.to[j] # None
          PROVE  Grounded(cfg, f.def.to[j])
        <3>1. j \in 1..Len(f.got) \/ j = Len(f.got) + 1
            BY <1>3
        <3> QED
            BY <1>3, <2>3, <3>1 DEF FrameGrounded, f
    <2> QED
        BY <2>1, <2>2, <2>3 DEF FrameGrounded
<1> QED
    BY <1>1, <1>4 DEF t

\* What is known to be in order, by where the loader is.
Checked(l) ==
    /\ Uses(l) => \A n \in Names :
          registry[n] = "complete" => Grounded(config[l], n) /\ Faultless(config[l], n)
    /\ pc[l] = "build" => \A i \in 1..Len(stack[l]) : FrameGrounded(config[l], stack[l][i])
    /\ pc[l] \in {"start", "decode", "range", "build"} => position[l] = 0
    /\ pc[l] = "pipe" => \A i \in 1..position[l] : Fitting(config[l], i)
    /\ pc[l] = "done" => NoFault(config[l])

CheckedInv == ValuesInv /\ \A l \in Loaders : Checked(l)

\* All fields of the innermost resource are read when it returns.
LEMMA TopIsRead ==
    ASSUME StackInv, NEW l \in Loaders, pc[l] = "build", Known(Top(l).def), ~Reading(l)
    PROVE  /\ Top(l).def.to \in Seq(Names \cup {None})
           /\ DOMAIN Top(l).got = DOMAIN Top(l).def.to
           /\ DOMAIN Top(l).def.to = 1..Len(Top(l).got)
<1> DEFINE f == Top(l)
<1>1. /\ f.def.to \in Seq(Names \cup {None}) /\ f.got \in Seq(Nat)
      /\ Len(f.got) \in Nat /\ Len(f.def.to) \in Nat
    BY TopFacts, DefFacts, FrameFacts
<1>2. Len(f.got) <= Len(f.def.to) /\ ~(Len(f.got) < Len(f.def.to))
    BY TopFacts DEF Own, Reading
<1> HIDE DEF f
<1>3. Len(f.got) = Len(f.def.to)
    BY <1>1, <1>2
<1>4. DOMAIN f.got = DOMAIN f.def.to /\ DOMAIN f.def.to = 1..Len(f.got)
    BY <1>1, <1>3, Within
<1> QED
    BY <1>1, <1>4 DEF f

\* A resource that returns is grounded ...
LEMMA ReturnGrounded ==
    ASSUME CheckedInv, NEW l \in Loaders, Returns(l)
    PROVE  Grounded(config[l], Top(l).name)
<1> DEFINE f == Top(l)
<1>1. pc[l] = "build" /\ ~Reading(l)
    BY ReturnTypes DEF CheckedInv, ValuesInv
<1>2. /\ config[l] \in Configs /\ f.name \in DOMAIN config[l].resources
      /\ config[l].resources[f.name] = f.def
    BY <1>1, TopDefined DEF CheckedInv, ValuesInv
<1>3. FrameGrounded(config[l], f)
    BY <1>1, TopFacts DEF CheckedInv, ValuesInv, Checked, Top
<1>4. ASSUME NEW m \in Names, Refers(config[l], f.name, m) PROVE Grounded(config[l], m)
    <2>1. Known(f.def) /\ \E i \in DOMAIN f.def.to : f.def.to[i] = m
        BY <1>2, <1>4 DEF Refers
    <2>2. PICK i \in 1..Len(f.got) : f.def.to[i] = m
        BY <1>1, <2>1, TopIsRead DEF CheckedInv, ValuesInv
    <2>3. m # None
        BY ConfigAssumption DEF ConfigAssumption
    <2> QED
        BY <1>3, <2>2, <2>3 DEF FrameGrounded
<1> QED
    BY <1>2, <1>4, GroundedByReferences

\* ... and without a fault.
LEMMA ReturnFaultless ==
    ASSUME CheckedInv, NEW l \in Loaders, Returns(l)
    PROVE  Faultless(config[l], Top(l).name)
<1> DEFINE f == Top(l)
<1>1. pc[l] = "build" /\ ~Reading(l)
    BY ReturnTypes DEF CheckedInv, ValuesInv
<1>2. config[l] \in Configs /\ config[l].resources[f.name] = f.def
    BY <1>1, TopDefined DEF CheckedInv, ValuesInv
<1>3. CASE BuildNull(l) \/ Referred(l)
    <2>1. \/ f.def.type = "null"
          \/ f.def.type = "ref" /\ ~f.def.bad
        BY <1>3 DEF BuildNull, Referred
    <2>2. f.def.type \notin DOMAIN Role /\ f.def.type # "unknown"
        BY <2>1 DEF Role
    <2>3. ~(Known(f.def) /\ f.def.bad)
        BY <2>1, <2>2 DEF Known
    <2> HIDE DEF f
    <2> QED
        BY <1>2, <2>2, <2>3 DEF Faultless, f
<1>4. CASE Finish(l)
    <2>1. f.def.type \in DOMAIN Role /\ ~f.def.bad /\ FieldsFit(f) /\ Known(f.def)
        BY <1>4 DEF Finish, Known
    <2>2. /\ f.def.to \in Seq(Names \cup {None}) /\ DOMAIN f.got = DOMAIN f.def.to
          /\ DOMAIN f.def.to = 1..Len(f.got)
        BY <1>1, <2>1, TopIsRead DEF CheckedInv, ValuesInv
    <2>3. FrameValued(objects, config[l], l, f)
        BY <1>1, TopFacts DEF CheckedInv, ValuesInv, ValuesOf, Top
    <2> HIDE DEF f
    <2>4. ASSUME NEW i \in DOMAIN f.def.to
          PROVE  IF f.def.to[i] = None THEN f.def.type = "minmonitorredservice"
                 ELSE Plays(config[l], f.def.to[i], Wanted(f.def.type, i))
        <3>1. \/ f.def.type = "minmonitorredservice" /\ f.def.to[i] = None
              \/ HasRole(f.got[i], Wanted(f.def.type, i))
            BY <2>1, <2>2 DEF FieldsFit
        <3>2. FieldValued(objects, config[l], l, f.got[i], f.def.to[i])
            BY <2>2, <2>3 DEF FrameValued
        <3>3. CASE f.def.to[i] = None
            BY <3>1, <3>2, <3>3 DEF FieldValued, HasRole
        <3>4. CASE f.def.to[i] # None
            <4>1. f.def.to[i] \in Names
                BY <2>2, <3>4
            <4> QED
                BY <1>2, <3>1, <3>2, <3>4, <4>1, ValuePlays DEF FieldValued
        <3> QED
            BY <3>3, <3>4
    <2>5. f.def.type # "unknown"
        BY <2>1 DEF Role
    <2> QED
        BY <1>2, <2>1, <2>4, <2>5 DEF Faultless, f
<1> QED
    BY <1>3, <1>4 DEF Returns

LEMMA ReturnChecked ==
    ASSUME CheckedInv, NEW l \in Loaders, Returns(l)
    PROVE  Checked(l)'
<1> DEFINE s == stack[l]
<1>1. PICK v \in Nat : /\ Return(l, v) /\ pc[l] = "build" /\ UNCHANGED position
                       /\ config' = config
    BY ReturnTypes DEF CheckedInv, ValuesInv
<1>2. /\ s \in Seq(Frames) /\ Len(s) \in Nat /\ Len(s) >= 1 /\ Top(l) = s[Len(s)]
      /\ Top(l).name \in Names
    BY <1>1, TopFacts DEF CheckedInv, ValuesInv, Top
<1>3. Grounded(config[l], Top(l).name) /\ Faultless(config[l], Top(l).name)
    BY ReturnGrounded, ReturnFaultless
<1>4. \A n \in Names :
          registry[n] = "complete" => Grounded(config[l], n) /\ Faultless(config[l], n)
    BY <1>1 DEF CheckedInv, Checked, Uses
<1>5. position[l] = 0
    BY <1>1 DEF CheckedInv, Checked
<1>6. CASE Len(s) = 1
    <2>1. pc'[l] = "range" /\ registry' = [registry EXCEPT ![Top(l).name] = "complete"]
        BY <1>1, <1>6 DEF Return, Goto, CheckedInv, ValuesInv, StackInv, TypeOK
    <2>2. ASSUME NEW n \in Names, registry'[n] = "complete"
          PROVE  Grounded(config[l], n) /\ Faultless(config[l], n)
        <3>1. n = Top(l).name \/ registry[n] = "complete"
            BY <2>1, <2>2 DEF CheckedInv, ValuesInv, StackInv, TypeOK
        <3> QED
            BY <1>3, <1>4, <3>1
    <2> QED
        BY <1>1, <1>5, <2>1, <2>2 DEF Checked
<1>7. CASE Len(s) > 1
    <2> DEFINE r == Outer(s)
    <2>1. r \in Seq(Frames) /\ Len(r) = Len(s) - 1 /\ \A i \in 1..(Len(s) - 1) : r[i] = s[i]
        BY <1>2, <1>7, OuterFacts
    <2>2. stack' = [stack EXCEPT ![l] = WithGot(r, v)] /\ UNCHANGED <<registry, value, pc>>
        BY <1>1, <1>2, <1>7 DEF Return
    <2>3. stack'[l] = WithGot(r, v)
        BY <2>2 DEF CheckedInv, ValuesInv, StackInv, TypeOK
    <2>4. Link(s[Len(s) - 1], s[Len(s)])
        BY <1>1, <1>2, <1>7 DEF CheckedInv, ValuesInv, StackInv, Linked
    <2>5. \A i \in 1..Len(s) : FrameGrounded(config[l], s[i])
        BY <1>1 DEF CheckedInv, Checked
    <2> HIDE DEF r, s
    <2>6. Len(r) >= 1 /\ Len(r) \in Nat /\ r[Len(r)] = s[Len(s) - 1]
        BY <1>2, <1>7, <2>1
    <2>7. Top(l).name = r[Len(r)].def.to[Len(r[Len(r)].got) + 1]
        BY <1>2, <2>4, <2>6 DEF Link
    <2>8. \A i \in 1..Len(r) : FrameGrounded(config[l], r[i])
        <3> TAKE i \in 1..Len(r)
        <3>1. i \in 1..Len(s) /\ r[i] = s[i]
            BY <1>2, <2>1, <2>6
        <3> QED
            BY <2>5, <3>1
    <2>9. \A i \in 1..Len(WithGot(r, v)) : FrameGrounded(config[l], WithGot(r, v)[i])
        BY <1>3, <2>1, <2>6, <2>7, <2>8, StackGrounded
    <2> QED
        BY <1>1, <1>4, <1>5, <2>2, <2>3, <2>9 DEF Checked, Uses
<1>8. Len(s) = 1 \/ Len(s) > 1
    BY <1>2, Lengths, Zenon
<1> QED
    BY <1>6, <1>7, <1>8, Zenon

\* A field is read.
LEMMA ReadChecked ==
    ASSUME CheckedInv, NEW l \in Loaders, Reads(l)
    PROVE  Checked(l)'
<1>1. Reading(l) /\ pc[l] = "build" /\ \E v \in Nat : Got(l, v)
    BY ValueTypes DEF CheckedInv, ValuesInv, Reads, ResolveNull, Share, Reading
<1>2. PICK v \in Nat : Got(l, v)
    BY <1>1
<1>3. UNCHANGED <<config, pc, registry, position>> /\ stack'[l] = WithGot(stack[l], v)
    BY <1>2 DEF Got, globals, CheckedInv, ValuesInv, StackInv, TypeOK
<1>4. Target(l) # None => Grounded(config[l], Target(l))
    <2>1. CASE ResolveNull(l)
        BY <2>1 DEF ResolveNull
    <2>2. CASE Share(l)
        <3>1. Target(l) \in Names \cup {None} /\ registry[Target(l)] = "complete"
            BY <1>1, <2>2, TargetFacts DEF CheckedInv, ValuesInv, Share
        <3> QED
            BY <1>1, <3>1 DEF CheckedInv, Checked, Uses
    <2> QED
        BY <2>1, <2>2 DEF Reads
<1>5. /\ stack[l] \in Seq(Frames) /\ Len(stack[l]) >= 1
      /\ \A i \in 1..Len(stack[l]) : FrameGrounded(config[l], stack[l][i])
    BY <1>1, TopFacts DEF CheckedInv, ValuesInv, Checked
<1>6. Target(l) = stack[l][Len(stack[l])].def.to[Len(stack[l][Len(stack[l])].got) + 1]
    BY DEF Target, Top
<1>7. \A i \in 1..Len(stack'[l]) : FrameGrounded(config[l], stack'[l][i])
    BY <1>3, <1>4, <1>5, <1>6, StackGrounded
<1> QED
    BY <1>1, <1>3, <1>7 DEF CheckedInv, Checked, Uses

\* A resource enters the stack with nothing read.
LEMMA EnterChecked ==
    ASSUME CheckedInv, NEW l \in Loaders, Build(l) \/ \E n \in Names : Pick(l, n)
    PROVE  Checked(l)'
<1>1. \A n : FrameGrounded(config[l], Frame(n))
    BY DEF FrameGrounded, Frame
<1>2. position[l] = 0 /\ Uses(l) /\ UNCHANGED <<config, position>>
    BY DEF Build, Reading, Pick, CheckedInv, Checked, Uses
<1>3. CASE Build(l)
    <2>1. pc[l] = "build" /\ UNCHANGED <<pc, registry>>
        BY <1>3 DEF Build, Reading, globals
    <2>2. stack'[l] = Append(stack[l], Frame(Target(l)))
        BY <1>3 DEF Build, CheckedInv, ValuesInv, StackInv, TypeOK
    <2>3. /\ stack[l] \in Seq(Frames) /\ Len(stack[l]) \in Nat
          /\ \A i \in 1..Len(stack[l]) : FrameGrounded(config[l], stack[l][i])
        BY <2>1, TopFacts DEF CheckedInv, ValuesInv, Checked
    <2>4. \A i \in 1..Len(stack'[l]) : FrameGrounded(config[l], stack'[l][i])
        <3>1. \A i \in 1..(Len(stack[l]) + 1) : i \in 1..Len(stack[l]) \/ i = Len(stack[l]) + 1
            BY <2>3
        <3> QED
            BY <1>1, <2>2, <2>3, <3>1
    <2> QED
        BY <1>2, <2>1, <2>4 DEF CheckedInv, Checked, Uses
<1>4. ASSUME NEW m \in Names, Pick(l, m) PROVE Checked(l)'
    <2>1. /\ pc'[l] = "build" /\ registry' = [registry EXCEPT ![m] = "incomplete"]
          /\ stack'[l] = <<Frame(m)>>
        BY <1>4 DEF Pick, Goto, CheckedInv, ValuesInv, StackInv, TypeOK
    <2>2. \A n \in Names : registry'[n] = "complete" => registry[n] = "complete"
        BY <2>1 DEF CheckedInv, ValuesInv, StackInv, TypeOK
    <2>3. \A i \in 1..Len(stack'[l]) : FrameGrounded(config[l], stack'[l][i])
        <3>1. Len(<<Frame(m)>>) = 1 /\ <<Frame(m)>>[1] = Frame(m)
            OBVIOUS
        <3> QED
            BY <1>1, <2>1, <3>1
    <2> QED
        BY <1>2, <2>1, <2>2, <2>3 DEF CheckedInv, Checked
<1> QED
    BY <1>3, <1>4

\* An entry of the pipeline is dealt with.
LEMMA PipeChecked ==
    ASSUME CheckedInv, NEW l \in Loaders, Pipes(l)
    PROVE  Checked(l)'
<1> DEFINE n == Upstream(l)
           p == position[l] + 1
<1>1. /\ pc[l] = "pipe" /\ position[l] < Len(config[l].pipeline) /\ registry[n] # "absent"
      /\ \E role \in {"router", "filter"} : HasRole(value[n], role)
      /\ UNCHANGED <<config, pc, registry>> /\ position' = [position EXCEPT ![l] = @ + 1]
    BY DEF Pipes, PassOver, PushBack, PipeOn, Found, AtUpstream, globals
<1>2. config[l] \in Configs /\ position[l] \in Nat /\ config[l].pipeline \in Seq(Names)
    BY ConfigFacts DEF CheckedInv, ValuesInv, StackInv, TypeOK
<1>3. n = config[l].pipeline[p] /\ n \in Names
    <2>1. p \in 1..Len(config[l].pipeline)
        BY <1>1, <1>2
    <2> QED
        BY <1>2, <2>1 DEF Upstream
<1>4. position'[l] = p
    BY <1>1 DEF CheckedInv, ValuesInv, StackInv, TypeOK
<1>5. \A i \in 1..p : i \in 1..position[l] \/ i = p
    BY <1>2
<1> HIDE DEF n, p
<1>6. registry[n] = "complete" /\ n \in DOMAIN config[l].resources
    BY <1>1, <1>3 DEF CheckedInv, ValuesInv, StackInv, TypeOK, Settled, Resources, Uses
<1>7. Valued(objects, config[l], l, value[n], n)
    BY <1>1, <1>3, <1>6 DEF CheckedInv, ValuesInv, ValuesOf, Uses
<1>8. Fitting(config[l], p)
    BY <1>1, <1>2, <1>3, <1>6, <1>7, ValuePlays DEF Fitting
<1>9. \A i \in 1..position'[l] : Fitting(config[l], i)
    BY <1>1, <1>4, <1>5, <1>8 DEF CheckedInv, Checked
<1> QED
    BY <1>1, <1>9 DEF CheckedInv, Checked, Uses

\* The server is made.
LEMMA CloseChecked ==
    ASSUME CheckedInv, NEW l \in Loaders, Close(l)
    PROVE  Checked(l)'
<1>1. /\ pc[l] = "pipe" /\ position[l] = Len(config[l].pipeline) /\ pc'[l] = "done"
      /\ config' = config
    BY DEF Close, Goto, CheckedInv, ValuesInv, StackInv, TypeOK
<1>2. config[l] \in Configs /\ config[l].pipeline \in Seq(Names)
      /\ DOMAIN config[l].resources \subseteq Names
    BY ConfigFacts DEF CheckedInv, ValuesInv, StackInv, TypeOK
<1>3. \A n \in DOMAIN config[l].resources : registry[n] = "complete"
    BY <1>1, <1>2 DEF CheckedInv, ValuesInv, StackInv, TypeOK, Settled, Resources
<1>4. \A n \in DOMAIN config[l].resources : Grounded(config[l], n) /\ Faultless(config[l], n)
    BY <1>1, <1>2, <1>3 DEF CheckedInv, Checked, Uses
<1>5. \A i \in DOMAIN config[l].pipeline : Fitting(config[l], i)
    <2>1. \A i \in 1..position[l] : Fitting(config[l], i)
        BY <1>1 DEF CheckedInv, Checked
    <2>2. DOMAIN config[l].pipeline = 1..position[l]
        BY <1>1, <1>2
    <2> QED
        BY <2>1, <2>2
<1>6. NoFault(config[l])
    BY <1>2, <1>4, <1>5, AllInOrder
<1> QED
    BY <1>1, <1>6 DEF Checked, Uses

\* The other steps.
LEMMA OtherChecked ==
    ASSUME CheckedInv, NEW l \in Loaders,
           Lock(l) \/ Decode(l) \/ RangeEnds(l) \/ Overflow(l) \/ Failing(l)
    PROVE  Checked(l)'
<1> USE DEF CheckedInv, ValuesInv, StackInv, TypeOK, Goto
<1>1. CASE Lock(l)
    BY <1>1 DEF Lock, Checked, Uses
<1>2. CASE Decode(l)
    BY <1>2 DEF Decode, Checked, Uses
<1>3. CASE RangeEnds(l)
    <2>1. /\ pc[l] = "range" /\ pc'[l] = "pipe" /\ UNCHANGED <<config, registry, position>>
        BY <1>3 DEF RangeEnds, globals
    <2>2. \A i \in 1..position[l] : FALSE
        BY <2>1 DEF Checked
    <2> QED
        BY <2>1, <2>2 DEF Checked, Uses
<1>4. CASE Overflow(l) \/ Failing(l)
    <2>1. pc'[l] \in {"crashed", "failed"}
        BY <1>4 DEF Overflow, Failing, Fail
    <2> QED
        BY <2>1 DEF Checked, Uses
<1> QED
    BY <1>1, <1>2, <1>3, <1>4

\* A loader that waits, or is through, stays as it is.
LEMMA IdleChecked ==
    ASSUME CheckedInv, NEW l \in Loaders, Lock(l) \/ Step(l), NEW k \in Loaders, k # l
    PROVE  Checked(k)'
<1>1. config' = config
    BY ConfigStays DEF CheckedInv, ValuesInv
<1>2. CASE Overflow(l)
    <2>1. pc'[k] = "crashed"
        BY <1>2 DEF Overflow
    <2> QED
        BY <2>1 DEF Checked, Uses
<1>3. CASE ~Overflow(l)
    <2>1. Idle(k) /\ Idle(k)' /\ pc'[k] = pc[k]
        BY <1>3, OthersStay DEF CheckedInv, ValuesInv
    <2>2. position'[k] = position[k]
        BY <1>3, ReturnTypes, Kinds DEF Lock, Decode, RangeEnds, Pick, Reads, ResolveNull,
           Share, Got, Build, Failing, Fail, Pipes, PassOver, PushBack, PipeOn, Close,
           CheckedInv, ValuesInv, StackInv, TypeOK
    <2> QED
        BY <1>1, <2>1, <2>2 DEF CheckedInv, Checked, Idle, Uses
<1> QED
    BY <1>2, <1>3

LEMMA CheckedInit == Init => CheckedInv
BY ValuesInit DEF Init, CheckedInv, Checked, Uses

LEMMA CheckedStep == CheckedInv /\ [Next]_vars => CheckedInv'
<1> SUFFICES ASSUME CheckedInv, [Next]_vars PROVE \A l \in Loaders : Checked(l)'
    BY ValuesStep DEF CheckedInv
<1>1. ASSUME NEW l \in Loaders, Lock(l) \/ Step(l), NEW k \in Loaders PROVE Checked(k)'
    <2>1. Checked(l)'
        BY <1>1, Kinds, ReturnChecked, ReadChecked, EnterChecked, PipeChecked, CloseChecked,
           OtherChecked DEF CheckedInv, ValuesInv
    <2> QED
        BY <1>1, <2>1, IdleChecked
<1>2. CASE UNCHANGED vars
    BY <1>2 DEF vars, globals, CheckedInv, Checked, Uses
<1> QED
    BY <1>1, <1>2 DEF Next

\* FaultsFound: a server is made only from a configuration without a fault, for
\* any configurations, loaders and order of the map.
THEOREM FaultsFound == Spec => []FaultsAreFound
<1>1. CheckedInv => FaultsAreFound
    BY DEF CheckedInv, Checked, NoFault, FaultsAreFound
<1> QED
    BY <1>1, CheckedInit, CheckedStep, PTL DEF Spec

-----------------------------------------------------------------------------
(***************************************************************************)
(* The pipeline.  What has been appended are the filters among the entries *)
(* dealt with, in their order.                                             *)
(***************************************************************************)
\* v is an object of l for what n stands for.
Made(objs, cfg, l, v, n) ==
    v \in DOMAIN objs /\ objs[v].by = l /\ StandsFor(cfg, n, objs[v].name)

\* at says where in the pipeline the first p entries' filters come from.
Places(objs, cfg, l, up, p, at) ==
    /\ at \in [1..Len(up) -> 1..p]
    /\ \A i, j \in 1..Len(up) : i < j => at[i] < at[j]
    /\ \A q \in 1..p :
          Plays(cfg, cfg.pipeline[q], "filter") => \E i \in 1..Len(up) : at[i] = q
    /\ \A i \in 1..Len(up) :
          Plays(cfg, cfg.pipeline[at[i]], "filter") /\ Made(objs, cfg, l, up[i], cfg.pipeline[at[i]])

Placed(objs, cfg, l, up, p) == \E at : Places(objs, cfg, l, up, p, at)

LEMMA PlacedKept ==
    ASSUME NEW objs, NEW objs2, Grown(objs, objs2), NEW cfg, NEW l, NEW up, NEW p,
           Placed(objs, cfg, l, up, p)
    PROVE  Placed(objs2, cfg, l, up, p)
<1>1. PICK at : Places(objs, cfg, l, up, p, at)
    BY DEF Placed
<1>2. \A v, n : Made(objs, cfg, l, v, n) => Made(objs2, cfg, l, v, n)
    BY DEF Made, Grown
<1>3. Places(objs2, cfg, l, up, p, at)
    BY <1>1, <1>2 DEF Places
<1> QED
    BY <1>3 DEF Placed

\* Nothing is placed at first.
LEMMA NonePlaced ==
    ASSUME NEW objs, NEW cfg, NEW l
    PROVE  Placed(objs, cfg, l, <<>>, 0)
<1> DEFINE at == [i \in 1..0 |-> 0]
<1>1. Len(<<>>) = 0 /\ \A i \in 1..0 : FALSE
    OBVIOUS
<1>2. Places(objs, cfg, l, <<>>, 0, at)
    BY <1>1 DEF Places
<1> QED
    BY <1>2 DEF Placed

\* An entry that is no filter.
LEMMA RouterPlaced ==
    ASSUME NEW objs, NEW cfg, NEW l, NEW up \in Seq(Nat), NEW p \in Nat,
           Placed(objs, cfg, l, up, p), ~Plays(cfg, cfg.pipeline[p + 1], "filter")
    PROVE  Placed(objs, cfg, l, up, p + 1)
<1>1. PICK at : Places(objs, cfg, l, up, p, at)
    BY DEF Placed
<1>2. \A q \in 1..(p + 1) : q \in 1..p \/ q = p + 1
    OBVIOUS
<1>3. 1..p \subseteq 1..(p + 1)
    OBVIOUS
<1>4. at \in [1..Len(up) -> 1..(p + 1)]
    BY <1>1, <1>3 DEF Places
<1>5. Places(objs, cfg, l, up, p + 1, at)
    BY <1>1, <1>2, <1>4 DEF Places
<1> QED
    BY <1>5 DEF Placed

\* A filter is appended.
LEMMA FilterPlaced ==
    ASSUME NEW objs, NEW cfg, NEW l, NEW up \in Seq(Nat), NEW p \in Nat, NEW v \in Nat,
           Placed(objs, cfg, l, up, p), Plays(cfg, cfg.pipeline[p + 1], "filter"),
           Made(objs, cfg, l, v, cfg.pipeline[p + 1])
    PROVE  Placed(objs, cfg, l, Append(up, v), p + 1)
<1> DEFINE n == Len(up)
           longer == Append(up, v)
<1>1. PICK at : Places(objs, cfg, l, up, p, at)
    BY DEF Placed
<1> DEFINE to == [i \in 1..(n + 1) |-> IF i = n + 1 THEN p + 1 ELSE at[i]]
<1>2. n \in Nat /\ Len(longer) = n + 1 /\ longer[n + 1] = v
      /\ \A i \in 1..n : longer[i] = up[i]
    OBVIOUS
<1> HIDE DEF n, longer
<1>3. at \in [1..n -> 1..p]
    BY <1>1 DEF Places, n
<1>4. /\ to[n + 1] = p + 1
      /\ \A i \in 1..n : to[i] = at[i] /\ at[i] \in 1..p
      /\ \A i \in 1..(n + 1) : i \in 1..n \/ i = n + 1
    BY <1>2, <1>3
<1>5. to \in [1..(n + 1) -> 1..(p + 1)]
    <2>1. 1..p \subseteq 1..(p + 1) /\ p + 1 \in 1..(p + 1)
        OBVIOUS
    <2> QED
        BY <1>4, <2>1
<1> HIDE DEF to
<1>6. ASSUME NEW i \in 1..(n + 1), NEW j \in 1..(n + 1), i < j PROVE to[i] < to[j]
    <2>1. i \in 1..n
        BY <1>2, <1>6
    <2>2. CASE j = n + 1
        <3>1. \A q \in 1..p : q < p + 1
            OBVIOUS
        <3>2. to[i] \in 1..p /\ to[j] = p + 1
            BY <1>4, <2>1, <2>2
        <3> QED
            BY <3>1, <3>2
    <2>3. CASE j \in 1..n
        BY <1>1, <1>4, <1>6, <2>1, <2>3 DEF Places, n
    <2> QED
        BY <1>4, <2>2, <2>3
<1>7. ASSUME NEW q \in 1..(p + 1), Plays(cfg, cfg.pipeline[q], "filter")
      PROVE  \E i \in 1..(n + 1) : to[i] = q
    <2>1. n + 1 \in 1..(n + 1) /\ 1..n \subseteq 1..(n + 1)
        BY <1>2
    <2>2. CASE q = p + 1
        BY <1>4, <2>1, <2>2
    <2>3. CASE q \in 1..p
        <3>1. PICK i \in 1..n : at[i] = q
            BY <1>1, <1>7, <2>3 DEF Places, n
        <3> QED
            BY <1>4, <2>1, <3>1
    <2>4. q = p + 1 \/ q \in 1..p
        OBVIOUS
    <2> QED
        BY <2>2, <2>3, <2>4
<1>8. ASSUME NEW i \in 1..(n + 1)
      PROVE  /\ Plays(cfg, cfg.pipeline[to[i]], "filter")
             /\ Made(objs, cfg, l, longer[i], cfg.pipeline[to[i]])
    <2>1. CASE i = n + 1
        BY <1>2, <1>4, <2>1
    <2>2. CASE i \in 1..n
        BY <1>1, <1>2, <1>4, <2>2 DEF Places, n
    <2> QED
        BY <1>4, <2>1, <2>2
<1>9. Places(objs, cfg, l, longer, p + 1, to)
    BY <1>2, <1>5, <1>6, <1>7, <1>8 DEF Places
<1> QED
    BY <1>9 DEF Placed, longer

\* The pipeline of a loader, by where it is.
PipelineOf(l) ==
    /\ pc[l] \in {"start", "decode", "range", "build"} => position[l] = 0 /\ upstream[l] = <<>>
    /\ pc[l] \in {"pipe", "done"} =>
          Placed(objects, config[l], l, upstream[l], position[l])
    /\ pc[l] = "done" => position[l] = Len(config[l].pipeline)

PipelineInv == ValuesInv /\ \A l \in Loaders : PipelineOf(l)

LEMMA PipelinePipes ==
    ASSUME PipelineInv, NEW l \in Loaders, Pipes(l)
    PROVE  PipelineOf(l)'
<1> DEFINE p == position[l]
           n == Upstream(l)
           v == value[n]
<1>1. /\ pc[l] = "pipe" /\ p < Len(config[l].pipeline) /\ registry[n] # "absent"
      /\ UNCHANGED <<config, pc, objects>> /\ position' = [position EXCEPT ![l] = @ + 1]
    BY DEF Pipes, PassOver, PushBack, PipeOn, Found, AtUpstream
<1>2. /\ config[l] \in Configs /\ p \in Nat /\ upstream[l] \in Seq(Nat)
      /\ config[l].pipeline \in Seq(Names)
    BY ConfigFacts DEF PipelineInv, ValuesInv, StackInv, TypeOK
<1>3. n = config[l].pipeline[p + 1] /\ n \in Names
    <2>1. p + 1 \in 1..Len(config[l].pipeline)
        BY <1>1, <1>2
    <2> QED
        BY <1>2, <2>1 DEF Upstream
<1>4. position'[l] = p + 1 /\ Placed(objects, config[l], l, upstream[l], p)
    BY <1>1 DEF PipelineInv, PipelineOf, ValuesInv, StackInv, TypeOK
<1>5. registry[n] = "complete" /\ v \in Nat
    BY <1>1, <1>3 DEF PipelineInv, ValuesInv, StackInv, TypeOK, Settled
<1>6. Valued(objects, config[l], l, v, n)
    BY <1>1, <1>3, <1>5 DEF PipelineInv, ValuesInv, ValuesOf, Uses
<1>7. CASE PassOver(l)
    <2>1. HasRole(v, "router") /\ upstream' = upstream
        BY <1>7 DEF PassOver
    <2>2. ~HasRole(v, "filter")
        BY <2>1 DEF HasRole
    <2>3. ~Plays(config[l], n, "filter")
        BY <1>2, <1>3, <1>6, <2>2, ValuePlays
    <2>4. Placed(objects, config[l], l, upstream[l], p + 1)
        BY <1>2, <1>3, <1>4, <2>3, RouterPlaced
    <2> QED
        BY <1>1, <1>4, <2>1, <2>4 DEF PipelineOf
<1>8. CASE PushBack(l)
    <2>1. HasRole(v, "filter") /\ upstream'[l] = Append(upstream[l], v)
        BY <1>8 DEF PushBack, PipelineInv, ValuesInv, StackInv, TypeOK
    <2>2. Plays(config[l], n, "filter")
        BY <1>2, <1>3, <1>6, <2>1, ValuePlays
    <2>3. v # Nil
        BY <2>1 DEF HasRole
    <2>4. Made(objects, config[l], l, v, n)
        BY <1>6, <2>3 DEF Valued, ValueFor, Made
    <2>5. Placed(objects, config[l], l, Append(upstream[l], v), p + 1)
        BY <1>2, <1>3, <1>4, <1>5, <2>2, <2>4, FilterPlaced
    <2> QED
        BY <1>1, <1>4, <2>1, <2>5 DEF PipelineOf
<1> QED
    BY <1>7, <1>8 DEF Pipes

\* Objects are only added, by any step.
LEMMA StepGrows ==
    ASSUME StackInv, NEW l \in Loaders, Lock(l) \/ Step(l)
    PROVE  Grown(objects, objects')
<1>1. CASE ~Finish(l)
    BY <1>1, ObjectsGrow DEF Grown
<1>2. CASE Finish(l)
    <2> DEFINE made == [by : Loaders, name : Names, type : DOMAIN Role, fields : Seq(Nat)]
    <2>1. objects \in Seq(made)
        BY DEF StackInv, TypeOK
    <2> HIDE DEF made
    <2>2. PICK o : objects' = Append(objects, o)
        BY <1>2 DEF Finish, MakeObject
    <2> QED
        BY <2>1, <2>2 DEF Grown
<1> QED
    BY <1>1, <1>2

\* A step of l does nothing to the server of another.
LEMMA PipelineStays ==
    ASSUME StackInv, NEW l \in Loaders, Lock(l) \/ Step(l), NEW k \in Loaders,
           k # l \/ ~Pipes(l)
    PROVE  position'[k] = position[k] /\ upstream'[k] = upstream[k]
<1>1. Pipes(l) /\ k # l => position'[k] = position[k] /\ upstream'[k] = upstream[k]
    BY DEF Pipes, PassOver, PushBack, PipeOn, StackInv, TypeOK
<1>2. ~Pipes(l) => position' = position /\ upstream' = upstream
    BY ReturnTypes, Kinds DEF Lock, Decode, RangeEnds, Pick, Reads, ResolveNull, Share, Got,
       Build, Overflow, Failing, Fail, Close
<1> QED
    BY <1>1, <1>2

\* The other steps of the loader itself.
LEMMA PipelineOthers ==
    ASSUME PipelineInv, NEW l \in Loaders, Lock(l) \/ Step(l), ~Pipes(l)
    PROVE  PipelineOf(l)'
<1>1. position'[l] = position[l] /\ upstream'[l] = upstream[l] /\ config' = config
    BY PipelineStays, ConfigStays DEF PipelineInv, ValuesInv
<1> USE DEF PipelineInv, ValuesInv, StackInv, TypeOK, Goto
<1>2. CASE Lock(l) \/ Decode(l) \/ (\E n \in Names : Pick(l, n)) \/ Reads(l) \/ Build(l)
    <2>1. /\ pc[l] \in {"start", "decode", "range", "build"}
          /\ pc'[l] \in {"decode", "range", "build", "failed"}
        BY <1>2 DEF Lock, Decode, Pick, Reads, ResolveNull, Share, Got, Build, Reading
    <2> QED
        BY <1>1, <2>1 DEF PipelineOf
<1>3. CASE Returns(l)
    <2>1. PICK v \in Nat : Return(l, v) /\ pc[l] = "build"
        BY <1>3, ReturnTypes
    <2>2. pc'[l] \in {"range", "build"}
        BY <2>1 DEF Return
    <2> QED
        BY <1>1, <2>1, <2>2 DEF PipelineOf
<1>4. CASE RangeEnds(l)
    <2>1. pc[l] = "range" /\ pc'[l] = "pipe" /\ objects' = objects
        BY <1>4 DEF RangeEnds
    <2>2. position[l] = 0 /\ upstream[l] = <<>>
        BY <2>1 DEF PipelineOf
    <2> QED
        BY <1>1, <2>1, <2>2, NonePlaced DEF PipelineOf
<1>5. CASE Close(l)
    <2>1. /\ pc[l] = "pipe" /\ pc'[l] = "done" /\ objects' = objects
          /\ position[l] = Len(config[l].pipeline)
        BY <1>5 DEF Close
    <2> QED
        BY <1>1, <2>1 DEF PipelineOf
<1>6. CASE Overflow(l) \/ Failing(l)
    <2>1. pc'[l] \in {"crashed", "failed"}
        BY <1>6 DEF Overflow, Failing, Fail
    <2> QED
        BY <2>1 DEF PipelineOf
<1> QED
    BY <1>2, <1>3, <1>4, <1>5, <1>6, Kinds

LEMMA PipelineStep == PipelineInv /\ [Next]_vars => PipelineInv'
<1> SUFFICES ASSUME PipelineInv, [Next]_vars PROVE \A l \in Loaders : PipelineOf(l)'
    BY ValuesStep DEF PipelineInv
<1>1. ASSUME NEW l \in Loaders, Lock(l) \/ Step(l), NEW k \in Loaders PROVE PipelineOf(k)'
    <2>1. CASE k = l
        BY <1>1, <2>1, PipelinePipes, PipelineOthers
    <2>2. CASE Overflow(l)
        <3>1. pc'[k] = "crashed"
            BY <2>2 DEF Overflow
        <3> QED
            BY <3>1 DEF PipelineOf
    <2>3. CASE k # l /\ ~Overflow(l)
        <3>1. pc'[k] = pc[k]
            BY <1>1, <2>3, OthersStay DEF PipelineInv, ValuesInv
        <3>2. /\ position'[k] = position[k] /\ upstream'[k] = upstream[k] /\ config' = config
              /\ Grown(objects, objects')
            BY <1>1, <2>3, PipelineStays, ConfigStays, StepGrows DEF PipelineInv, ValuesInv
        <3> QED
            BY <3>1, <3>2, PlacedKept DEF PipelineInv, PipelineOf
    <2> QED
        BY <2>1, <2>2, <2>3
<1>2. CASE UNCHANGED vars
    BY <1>2 DEF vars, PipelineInv, PipelineOf
<1> QED
    BY <1>1, <1>2 DEF Next

LEMMA PipelineInit == Init => PipelineInv
BY ValuesInit DEF Init, PipelineInv, PipelineOf

\* InOrder: a server has an instance of each filter that its pipeline names, in
\* that order, for any configurations, loaders and order of the map.
THEOREM InOrder == Spec => []PipelineInOrder
<1>1. PipelineInv => PipelineInOrder
    <2> SUFFICES ASSUME PipelineInv, NEW l \in Loaders, pc[l] = "done"
                 PROVE  LET pipeline == config[l].pipeline
                        IN  \E at \in [DOMAIN upstream[l] -> DOMAIN pipeline] :
                               /\ \A i, j \in DOMAIN at : i < j => at[i] < at[j]
                               /\ \A p \in DOMAIN pipeline :
                                     Plays(config[l], pipeline[p], "filter")
                                         => \E i \in DOMAIN at : at[i] = p
                               /\ \A i \in DOMAIN at :
                                     /\ Plays(config[l], pipeline[at[i]], "filter")
                                     /\ Instance(l, upstream[l][i], pipeline[at[i]])
        BY DEF PipelineInOrder
    <2>1. PICK at : Places(objects, config[l], l, upstream[l], position[l], at)
        BY DEF PipelineInv, PipelineOf, Placed
    <2>2. /\ position[l] = Len(config[l].pipeline) /\ upstream[l] \in Seq(Nat)
          /\ config[l].pipeline \in Seq(Names)
        BY ConfigFacts DEF PipelineInv, PipelineOf, ValuesInv, StackInv, TypeOK
    <2>3. /\ DOMAIN upstream[l] = 1..Len(upstream[l])
          /\ DOMAIN config[l].pipeline = 1..position[l]
        BY <2>2
    <2>4. at \in [DOMAIN upstream[l] -> DOMAIN config[l].pipeline]
          /\ DOMAIN at = 1..Len(upstream[l])
        BY <2>1, <2>3 DEF Places
    <2>5. \A i \in DOMAIN at : /\ Plays(config[l], config[l].pipeline[at[i]], "filter")
                               /\ Instance(l, upstream[l][i], config[l].pipeline[at[i]])
        BY <2>1, <2>4 DEF Places, Made, Instance
    <2>6. /\ \A i, j \in DOMAIN at : i < j => at[i] < at[j]
          /\ \A p \in DOMAIN config[l].pipeline :
                Plays(config[l], config[l].pipeline[p], "filter") => \E i \in DOMAIN at : at[i] = p
        BY <2>1, <2>3, <2>4 DEF Places
    <2> QED
        BY <2>4, <2>5, <2>6
<1> QED
    BY <1>1, PipelineInit, PipelineStep, PTL DEF Spec

-----------------------------------------------------------------------------
(***************************************************************************)
(* Loads.  With all faults found and none without reason, the outcome is   *)
(* that of Loading; Decode has tested what comes before the resources.     *)
(***************************************************************************)
Given(l) == Uses(l) => config[l].decodes /\ config[l].pipeline # <<>>

GivenInv == CheckedInv /\ \A l \in Loaders : Given(l)

\* A loader comes to use the maps only by Decode.
LEMMA UsesSince ==
    ASSUME StackInv, NEW l \in Loaders, Lock(l) \/ Step(l), Uses(l)'
    PROVE  Uses(l) \/ (Decode(l) /\ config[l].decodes /\ config[l].pipeline # <<>>)
<1> USE DEF StackInv, TypeOK, Goto
<1>1. CASE Lock(l)
    BY <1>1 DEF Lock, Uses
<1>2. CASE Decode(l)
    BY <1>2 DEF Decode, Uses
<1>3. CASE ~Lock(l) /\ ~Decode(l)
    <2>1. pc[l] \in {"range", "build", "pipe"}
        BY <1>3 DEF Step, RangeEnds, Pick, ResolveNull, Share, Cycle, Build, Overflow,
               Missing, Referred, BuildNull, Finish, Reject, PassOver, PushBack, NoFilter,
               Close, Reading, Found, AtUpstream
    <2> QED
        BY <2>1 DEF Uses
<1> QED
    BY <1>1, <1>2, <1>3

LEMMA GivenInit == Init => GivenInv
BY CheckedInit DEF Init, GivenInv, Given, Uses

LEMMA GivenStep == GivenInv /\ [Next]_vars => GivenInv'
<1> SUFFICES ASSUME GivenInv, [Next]_vars PROVE \A l \in Loaders : Given(l)'
    BY CheckedStep DEF GivenInv
<1> USE DEF GivenInv, CheckedInv, ValuesInv
<1>1. ASSUME NEW l \in Loaders, Lock(l) \/ Step(l), NEW k \in Loaders PROVE Given(k)'
    <2>1. config' = config
        BY <1>1, ConfigStays
    <2>2. CASE k = l
        BY <1>1, <2>1, <2>2, UsesSince DEF Given
    <2>3. CASE Overflow(l)
        BY <2>3 DEF Overflow, Given, Uses
    <2>4. CASE k # l /\ ~Overflow(l)
        BY <1>1, <2>4, OthersStay DEF Given, Uses, Idle
    <2> QED
        BY <2>2, <2>3, <2>4
<1>2. CASE UNCHANGED vars
    BY <1>2 DEF vars, Given, Uses
<1> QED
    BY <1>1, <1>2 DEF Next

Verdicts == [l \in Loaders |-> Verdict(l)]

\* A loader that has the mutex gives it back and is through.
LEMMA EndsAs ==
    ASSUME StackInv, NEW l \in Loaders, pc[l] \in {"decode", "range", "build", "pipe"},
           holder' = None, config' = config, NEW step \in {"done", "failed"}, Goto(l, step)
    PROVE  Load!End(l, IF step = "done" THEN "server" ELSE "error")
<1>1. holder = l
    BY DEF StackInv, Locked
<1>2. pc' = [pc EXCEPT ![l] = step] /\ DOMAIN pc = Loaders
    BY DEF Goto, StackInv, TypeOK
<1>3. Verdict(l) = "pending" /\ Verdict(l)' = IF step = "done" THEN "server" ELSE "error"
    BY <1>2 DEF Verdict
<1>4. \A k \in Loaders : k # l => Verdict(k)' = Verdict(k)
    BY <1>2 DEF Verdict
<1> QED
    BY <1>1, <1>3, <1>4 DEF Load!End

LEMMA FailRefuses ==
    ASSUME ValuesInv, NEW l \in Loaders, Cycle(l) \/ Missing(l) \/ Reject(l) \/ NoFilter(l)
    PROVE  Load!Refuse(l)
<1>1. PICK why \in {"cycle", "missing", "type", "data"} :
          pc[l] \in {"build", "pipe"} /\ Fail(l, why)
    BY DEF Cycle, Missing, Reject, NoFilter, Reading, Found, AtUpstream
<1>2. error'[l] = why
    BY <1>1 DEF Fail, ValuesInv, StackInv, TypeOK
<1>3. Reason(config[l], why)
    <2>1. \E v : Fail(l, v) /\ Reason(config[l], v)
        BY CycleIsCyclic, MissingDangles, RejectReasons, NoFilterReasons
           DEF Cycle, Missing, Reason, ValuesInv
    <2> QED
        BY <1>2, <2>1 DEF Fail, ValuesInv, StackInv, TypeOK
<1>4. config[l] \notin SoundOnes
    BY <1>1, <1>3 DEF Reason, SoundOnes, Flawless
<1>5. Load!End(l, "error")
    BY <1>1, EndsAs DEF Fail, ValuesInv
<1> QED
    BY <1>4, <1>5 DEF Load!Refuse

LEMMA CloseServes ==
    ASSUME GivenInv, NEW l \in Loaders, Close(l)
    PROVE  Load!Serve(l)
<1>1. pc[l] = "pipe" /\ pc'[l] = "done" /\ config' = config /\ config[l] \in Configs
    BY DEF Close, Goto, GivenInv, CheckedInv, ValuesInv, StackInv, TypeOK
<1>2. Checked(l)'
    BY CloseChecked DEF GivenInv
<1>3. NoFault(config[l])
    BY <1>1, <1>2 DEF Checked
<1>4. config[l] \in SoundOnes
    BY <1>1, <1>3 DEF SoundOnes, Flawless, NoFault, GivenInv, Given, Uses
<1>5. Load!End(l, "server")
    BY <1>1, EndsAs DEF Close, GivenInv, CheckedInv, ValuesInv
<1> QED
    BY <1>4, <1>5 DEF Load!Serve

\* The steps in between are none of Loading.
LEMMA InBetween ==
    ASSUME StackInv, NEW l \in Loaders,
           \/ RangeEnds(l) \/ (\E n \in Names : Pick(l, n)) \/ Reads(l) \/ Build(l)
           \/ Returns(l) \/ Pipes(l)
    PROVE  UNCHANGED <<config, holder, Verdicts>>
<1> DEFINE within == {"range", "build", "pipe"}
<1>1. /\ config' = config /\ holder' = holder
      /\ \/ pc' = pc
         \/ \E step \in within : pc[l] \in within /\ pc' = [pc EXCEPT ![l] = step]
    <2>1. CASE Returns(l)
        <3>1. PICK v \in Nat : /\ Return(l, v) /\ pc[l] = "build"
                               /\ config' = config /\ holder' = holder
            BY <2>1, ReturnTypes
        <3> QED
            BY <3>1 DEF Return, Goto
    <2>2. CASE ~Returns(l)
        BY <2>2 DEF RangeEnds, Pick, Reads, ResolveNull, Share, Got, Build, Pipes, PassOver,
               PushBack, PipeOn, Goto
    <2> QED
        BY <2>1, <2>2
<1>2. \A k \in Loaders : Verdict(k)' = Verdict(k)
    BY <1>1 DEF Verdict, StackInv, TypeOK
<1> QED
    BY <1>1, <1>2 DEF Verdicts

LEMMA LoadStep ==
    ASSUME GivenInv, NEW l \in Loaders, Lock(l) \/ Step(l)
    PROVE  Load!Next \/ UNCHANGED <<config, holder, Verdicts>>
<1>0. StackInv /\ ValuesInv
    BY DEF GivenInv, CheckedInv, ValuesInv
<1>1. CASE Lock(l)
    <2>1. pc' = [pc EXCEPT ![l] = "decode"] /\ DOMAIN pc = Loaders /\ pc[l] = "start"
        BY <1>0, <1>1 DEF Lock, Goto, StackInv, TypeOK
    <2>2. Verdict(l) = "pending" /\ \A k \in Loaders : Verdict(k)' = Verdict(k)
        BY <2>1 DEF Verdict
    <2>3. Load!Begin(l)
        BY <1>1, <2>2 DEF Lock, Load!Begin
    <2> QED
        BY <2>3 DEF Load!Next
<1>2. CASE Decode(l) /\ config[l].decodes /\ config[l].pipeline # <<>>
    <2>1. /\ pc' = [pc EXCEPT ![l] = "range"] /\ DOMAIN pc = Loaders /\ pc[l] = "decode"
          /\ UNCHANGED <<config, holder>>
        BY <1>0, <1>2 DEF Decode, Goto, StackInv, TypeOK
    <2>2. \A k \in Loaders : Verdict(k)' = Verdict(k)
        BY <2>1 DEF Verdict
    <2> QED
        BY <2>1, <2>2 DEF Verdicts
<1>3. CASE Decode(l) /\ (~config[l].decodes \/ config[l].pipeline = <<>>)
    <2>1. config[l] \notin SoundOnes
        BY <1>3 DEF SoundOnes, Flawless
    <2>2. Load!End(l, "error")
        BY <1>0, <1>3, EndsAs DEF Decode
    <2> QED
        BY <2>1, <2>2 DEF Load!Refuse, Load!Next
<1>4. CASE Cycle(l) \/ Missing(l) \/ Reject(l) \/ NoFilter(l)
    BY <1>0, <1>4, FailRefuses DEF Load!Next
<1>5. CASE Close(l)
    BY <1>5, CloseServes DEF Load!Next
<1>6. CASE Overflow(l)
    <2>1. /\ config[l] \in CircularOnes /\ holder = l
          /\ UNCHANGED <<config, holder>> /\ pc' = [k \in Loaders |-> "crashed"]
        BY <1>0, <1>6, OverflowIsCyclic, TopFacts DEF Overflow, Reading, CircularOnes
    <2>2. \A k \in Loaders : Verdict(k)' = "crash"
        BY <2>1 DEF Verdict
    <2>3. Load!Crash(l)
        BY <2>1, <2>2 DEF Load!Crash
    <2> QED
        BY <2>3 DEF Load!Next
<1>7. CASE \/ RangeEnds(l) \/ (\E n \in Names : Pick(l, n)) \/ Reads(l) \/ Build(l)
           \/ Returns(l) \/ Pipes(l)
    BY <1>0, <1>7, InBetween
<1> QED
    BY <1>1, <1>2, <1>3, <1>4, <1>5, <1>6, <1>7 DEF Step, Reads, Returns, Pipes

\* LoadsAsPromised: ConfigLoader implements Loading, for any configurations,
\* loaders and order of the map: a load gets a server exactly if its own
\* configuration has no fault.
THEOREM LoadsAsPromised == Spec => Loads
<1>1. Init => Load!Init
    <2> SUFFICES ASSUME Init PROVE Load!Init
        OBVIOUS
    <2>1. \A l \in Loaders : Verdict(l) = "pending"
        BY DEF Init, Verdict
    <2> QED
        BY <2>1 DEF Init, Load!Init
<1>2. GivenInv /\ [Next]_vars => [Load!Next]_<<config, holder, Verdicts>>
    <2> SUFFICES ASSUME GivenInv, [Next]_vars
                 PROVE  Load!Next \/ UNCHANGED <<config, holder, Verdicts>>
        OBVIOUS
    <2>1. CASE UNCHANGED vars
        BY <2>1 DEF vars, Verdicts, Verdict
    <2> QED
        BY <2>1, LoadStep DEF Next
<1> QED
    BY <1>1, <1>2, GivenInit, GivenStep, PTL DEF Spec, Loads, Load!Spec, Verdicts

=============================================================================
