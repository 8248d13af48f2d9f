----------------------------- MODULE ConfigLoader -----------------------------
(***************************************************************************)
(* ServerFromReader of config/config.go, with Resource.UnmarshalJSON and   *)
(* the UnmarshalJSON of the resource types as far as they deal with other  *)
(* resources.  Loaders are goroutines that each build a server; the maps   *)
(* they use are globals behind registrationMutex.                          *)
(*                                                                         *)
(* The recursion is a stack of resources under construction.  A resource   *)
(* defined in place, inside another one, is nobody else's and adds nothing *)
(* but its own references: a configuration here has named resources only.  *)
(***************************************************************************)
EXTENDS Naturals, Sequences, FiniteSets

CONSTANTS
    Loaders,   \* goroutines that call ServerFromReader
    Names,     \* names of resources
    Configs,   \* the configurations they may be given
    MaxDepth,  \* bound: the Go runtime ends the program if the stack grows larger
    None       \* a field that is null or left out

\* The interface that each registered type implements.
Role == [minsessionhandler |-> "session", inmempwdstore |-> "checker",
         cookiemaskfilter |-> "filter", loginhandler |-> "filter",
         passthrufilter |-> "filter", landingfilter |-> "filter",
         standardresponse |-> "filter", minmonitorredservice |-> "filter",
         shelltrigger |-> "trigger", compoundtrigger |-> "trigger",
         delaytrigger |-> "trigger", ratelimittrigger |-> "trigger",
         exactpathrouter |-> "router"]

\* The interfaces that the UnmarshalJSON of a type wants of its fields; the
\* lists may have any length.
CookiemaskFields == <<"session", "filter">>
LoginFields == <<"checker", "filter">>
MonitorFields == <<"trigger", "trigger", "trigger">>
DelayFields == <<"trigger">>
RateLimitFields == <<"trigger">>
Wants == [cookiemaskfilter |-> CookiemaskFields, loginhandler |-> LoginFields,
          minmonitorredservice |-> MonitorFields, delaytrigger |-> DelayFields,
          ratelimittrigger |-> RateLimitFields]
Lists == [compoundtrigger |-> "trigger", exactpathrouter |-> "filter"]

Wanted(type, i) == IF type \in DOMAIN Lists THEN Lists[type] ELSE Wants[type][i]

\* A definition: its type (null, ref, one of the above, or one that is not
\* registered), the names its fields refer to, and whether the rest of its
\* data is bad (a number for a string, a duration that does not parse) or no
\* data is given, which json.Unmarshal refuses for every type.
Defs == [type : DOMAIN Role \cup {"null", "ref", "unknown"},
         to : Seq(Names \cup {None}), bad : BOOLEAN]

\* A reference names one resource, and every field of a type is accounted for.
WellFormed(d) ==
    /\ d.type = "ref" => IF d.bad THEN d.to = <<>> ELSE Len(d.to) = 1 /\ d.to[1] # None
    /\ d.type \in DOMAIN Wants => Len(d.to) = Len(Wants[d.type])
    /\ d.type \notin DOMAIN Wants \cup DOMAIN Lists \cup {"ref"} => d.to = <<>>

ASSUME ConfigAssumption ==
    /\ None \notin Names \cup Loaders
    /\ IsFiniteSet(Names)
    /\ MaxDepth \in Nat /\ MaxDepth > Cardinality(Names)
    /\ \A cfg \in Configs :
          /\ cfg.decodes \in BOOLEAN
          /\ cfg.pipeline \in Seq(Names)
          /\ DOMAIN cfg.resources \subseteq Names
          /\ \A n \in DOMAIN cfg.resources :
             cfg.resources[n] \in Defs /\ WellFormed(cfg.resources[n])

Nil == 0       \* the nil interface; an object is a position in objects

VARIABLES
    config,       \* what each loader was given
    pc,           \* where each loader is
    holder,       \* the loader that holds registrationMutex
    registry,     \* for each name: not present, incomplete, or complete
    value,        \* for each name: Unmarshaled of its entry in the registry
    unregisterredResources,
    stack,        \* each loader's resources under construction, innermost last
    upstream,     \* the pipeline of each loader's server
    position,     \* how much of config.Pipeline it has dealt with
    error,        \* why it failed
    objects       \* every object made, in order: by whom, for what, with which fields

globals == <<registry, value, unregisterredResources>>
vars == <<config, pc, holder, globals, stack, upstream, position, error, objects>>

Frames == [name : Names, def : Defs, got : Seq(Nat)]

TypeOK ==
    /\ config \in [Loaders -> Configs]
    /\ pc \in [Loaders -> {"start", "decode", "range", "build", "pipe", "done", "failed",
                           "crashed"}]
    /\ holder \in Loaders \cup {None}
    /\ registry \in [Names -> {"absent", "incomplete", "complete"}]
    /\ value \in [Names -> Nat]
    /\ stack \in [Loaders -> Seq(Frames)]
    /\ upstream \in [Loaders -> Seq(Nat)]
    /\ position \in [Loaders -> Nat]
    /\ error \in [Loaders -> {"none", "decode", "pipeline", "cycle", "missing", "type", "data"}]
    /\ objects \in Seq([by : Loaders, name : Names, type : DOMAIN Role, fields : Seq(Nat)])

Init ==
    /\ config \in [Loaders -> Configs]
    /\ pc = [l \in Loaders |-> "start"]
    /\ holder = None
    /\ registry = [n \in Names |-> "absent"]
    /\ value = [n \in Names |-> Nil]
    /\ unregisterredResources = <<>>
    /\ stack = [l \in Loaders |-> <<>>]
    /\ upstream = [l \in Loaders |-> <<>>]
    /\ position = [l \in Loaders |-> 0]
    /\ error = [l \in Loaders |-> "none"]
    /\ objects = <<>>

-----------------------------------------------------------------------------
Resources(l) == config[l].resources
Top(l) == stack[l][Len(stack[l])]
Goto(l, step) == pc' = [pc EXCEPT ![l] = step]

\* Variant for a mutation check: an error returns without unlocking.
FailLocked(l, why) ==
    /\ Goto(l, "failed")
    /\ error' = [error EXCEPT ![l] = why]
    /\ UNCHANGED <<config, holder, globals, stack, upstream, position, objects>>

\* Every return with an error unlocks the mutex and leaves the maps alone.
Fail(l, why) ==
    /\ Goto(l, "failed")
    /\ error' = [error EXCEPT ![l] = why]
    /\ holder' = None
    /\ UNCHANGED <<config, globals, stack, upstream, position, objects>>

\* Variant for a mutation check: the mutex is not waited for.
LockAnyway(l) ==
    /\ pc[l] = "start"
    /\ holder' = l
    /\ Goto(l, "decode")
    /\ UNCHANGED <<config, globals, stack, upstream, position, error, objects>>

Lock(l) ==
    /\ pc[l] = "start" /\ holder = None
    /\ holder' = l
    /\ Goto(l, "decode")
    /\ UNCHANGED <<config, globals, stack, upstream, position, error, objects>>

\* Variant for a mutation check: the registry of the last load is used on.
DecodeStale(l) ==
    /\ pc[l] = "decode"
    /\ \/ /\ config[l].decodes /\ config[l].pipeline # <<>>
          /\ unregisterredResources' = Resources(l)
          /\ Goto(l, "range")
          /\ UNCHANGED <<holder, error>>
       \/ /\ ~config[l].decodes \/ config[l].pipeline = <<>>
          /\ Goto(l, "failed")
          /\ error' = [error EXCEPT ![l] = IF config[l].decodes THEN "pipeline" ELSE "decode"]
          /\ holder' = None
          /\ UNCHANGED unregisterredResources
    /\ UNCHANGED <<config, registry, value, stack, upstream, position, objects>>

\* A new registry; the configuration is decoded.
Decode(l) ==
    /\ pc[l] = "decode"
    /\ registry' = [n \in Names |-> "absent"]
    /\ value' = [n \in Names |-> Nil]
    /\ \/ /\ config[l].decodes /\ config[l].pipeline # <<>>
          /\ unregisterredResources' = Resources(l)
          /\ Goto(l, "range")
          /\ UNCHANGED <<holder, error>>
       \/ /\ ~config[l].decodes \/ config[l].pipeline = <<>>
          /\ Goto(l, "failed")
          /\ error' = [error EXCEPT ![l] = IF config[l].decodes THEN "pipeline" ELSE "decode"]
          /\ holder' = None
          /\ UNCHANGED unregisterredResources
    /\ UNCHANGED <<config, stack, upstream, position, objects>>

\* unmarshalByName: what is under construction for name n.
Frame(n) == [name |-> n, def |-> unregisterredResources[n], got |-> <<>>]

\* The loop over config.Resources takes a name that is not in the registry, in
\* the order of the map, which is any.
Pick(l, n) ==
    /\ pc[l] = "range"
    /\ n \in DOMAIN Resources(l) /\ registry[n] = "absent"
    /\ registry' = [registry EXCEPT ![n] = "incomplete"]
    /\ value' = [value EXCEPT ![n] = Nil]
    /\ stack' = [stack EXCEPT ![l] = <<Frame(n)>>]
    /\ Goto(l, "build")
    /\ UNCHANGED <<config, holder, unregisterredResources, upstream, position, error, objects>>

RangeEnds(l) ==
    /\ pc[l] = "range"
    /\ \A n \in DOMAIN Resources(l) : registry[n] # "absent"
    /\ Goto(l, "pipe")
    /\ UNCHANGED <<config, holder, globals, stack, upstream, position, error, objects>>

-----------------------------------------------------------------------------
(***************************************************************************)
(* Resource.UnmarshalJSON of the innermost resource under construction.    *)
(***************************************************************************)
\* The innermost resource has got the value of its next field.
WithGot(s, v) == [s EXCEPT ![Len(s)].got = Append(@, v)]
Outer(s) == SubSeq(s, 1, Len(s) - 1)

\* Variant for a mutation check: complete is not set.
ReturnUnmarked(l, v) ==
    \/ /\ Len(stack[l]) = 1
       /\ value' = [value EXCEPT ![Top(l).name] = v]
       /\ stack' = [stack EXCEPT ![l] = <<>>]
       /\ Goto(l, "range")
       /\ UNCHANGED registry
    \/ /\ Len(stack[l]) > 1
       /\ stack' = [stack EXCEPT ![l] = WithGot(Outer(@), v)]
       /\ UNCHANGED <<registry, value, pc>>

\* The value v is returned for it: the entry in the registry becomes complete,
\* or the field of the resource around it is set.
Return(l, v) ==
    \/ /\ Len(stack[l]) = 1
       /\ registry' = [registry EXCEPT ![Top(l).name] = "complete"]
       /\ value' = [value EXCEPT ![Top(l).name] = v]
       /\ stack' = [stack EXCEPT ![l] = <<>>]
       /\ Goto(l, "range")
    \/ /\ Len(stack[l]) > 1
       /\ stack' = [stack EXCEPT ![l] = WithGot(Outer(@), v)]
       /\ UNCHANGED <<registry, value, pc>>

Known(d) == d.type \in DOMAIN Role \cup {"ref"}

\* The next reference to resolve.
Reading(l) ==
    pc[l] = "build" /\ Known(Top(l).def) /\ Len(Top(l).got) < Len(Top(l).def.to)
Target(l) == Top(l).def.to[Len(Top(l).got) + 1]

Got(l, v) ==
    /\ stack' = [stack EXCEPT ![l] = WithGot(@, v)]
    /\ UNCHANGED <<config, pc, holder, globals, upstream, position, error, objects>>

\* A field that is null.
ResolveNull(l) ==
    /\ Reading(l) /\ Target(l) = None
    /\ Got(l, Nil)

\* A reference to a complete resource shares it.
Share(l) ==
    /\ Reading(l) /\ Target(l) # None /\ registry[Target(l)] = "complete"
    /\ Got(l, value[Target(l)])

\* A reference to the resource whose turn it is.
Cycle(l) ==
    /\ Reading(l) /\ Target(l) # None /\ registry[Target(l)] = "incomplete"
    /\ Fail(l, "cycle")

\* Variant for a mutation check: the registry is asked for cycles only.
BuildAlways(l) ==
    /\ Reading(l) /\ Target(l) # None /\ registry[Target(l)] # "incomplete"
    /\ Target(l) \in DOMAIN unregisterredResources
    /\ Len(stack[l]) < MaxDepth
    /\ stack' = [stack EXCEPT ![l] = Append(@, Frame(Target(l)))]
    /\ UNCHANGED <<config, pc, holder, globals, upstream, position, error, objects>>

\* A reference to a resource whose turn has not come: it is built for this
\* reference alone and not entered into the registry.
Build(l) ==
    /\ Reading(l) /\ Target(l) # None /\ registry[Target(l)] = "absent"
    /\ Target(l) \in DOMAIN unregisterredResources
    /\ Len(stack[l]) < MaxDepth
    /\ stack' = [stack EXCEPT ![l] = Append(@, Frame(Target(l)))]
    /\ UNCHANGED <<config, pc, holder, globals, upstream, position, error, objects>>

\* The stack overflows, which no Go program survives; the mutex stays locked.
Overflow(l) ==
    /\ Reading(l) /\ Target(l) # None /\ registry[Target(l)] = "absent"
    /\ Target(l) \in DOMAIN unregisterredResources
    /\ Len(stack[l]) >= MaxDepth
    /\ pc' = [k \in Loaders |-> "crashed"]
    /\ UNCHANGED <<config, holder, globals, stack, upstream, position, error, objects>>

\* "No resource specified with name".
Missing(l) ==
    /\ Reading(l) /\ Target(l) # None /\ registry[Target(l)] = "absent"
    /\ Target(l) \notin DOMAIN unregisterredResources
    /\ Fail(l, "missing")

\* The resource around a reference has the value of what it refers to.
Referred(l) ==
    /\ pc[l] = "build" /\ ~Reading(l) /\ Top(l).def.type = "ref"
    /\ ~Top(l).def.bad
    /\ Return(l, Top(l).got[1])
    /\ UNCHANGED <<config, holder, unregisterredResources, upstream, position, error, objects>>

BuildNull(l) ==
    /\ pc[l] = "build" /\ Top(l).def.type = "null"
    /\ Return(l, Nil)
    /\ UNCHANGED <<config, holder, unregisterredResources, upstream, position, error, objects>>

HasRole(v, role) == v # Nil /\ Role[objects[v].type] = role

\* The type switches on the fields.  A monitor may do without its triggers.
FieldsFit(f) ==
    \A i \in DOMAIN f.got :
        \/ f.def.type = "minmonitorredservice" /\ f.def.to[i] = None
        \/ HasRole(f.got[i], Wanted(f.def.type, i))

\* All fields are read: the object is made.
MakeObject(l) ==
    /\ objects' = Append(objects, [by |-> l, name |-> Top(l).name,
                                   type |-> Top(l).def.type, fields |-> Top(l).got])
    /\ Return(l, Len(objects) + 1)
    /\ UNCHANGED <<config, holder, unregisterredResources, upstream, position, error>>

\* Variant for a mutation check: the fields' types are not looked at.
FinishUnchecked(l) ==
    /\ pc[l] = "build" /\ ~Reading(l) /\ Top(l).def.type \in DOMAIN Role
    /\ ~Top(l).def.bad
    /\ MakeObject(l)

\* Variant for a mutation check: the type is not looked up.
FinishUnregistered(l) ==
    /\ pc[l] = "build" /\ ~Reading(l) /\ Top(l).def.type \notin {"null", "ref"}
    /\ FieldsFit(Top(l)) /\ ~Top(l).def.bad
    /\ MakeObject(l)

Finish(l) ==
    /\ pc[l] = "build" /\ ~Reading(l) /\ Top(l).def.type \in DOMAIN Role
    /\ FieldsFit(Top(l)) /\ ~Top(l).def.bad
    /\ MakeObject(l)

\* The type is not registered, a field has the wrong one, or data is bad.
Reject(l) ==
    /\ pc[l] = "build" /\ ~Reading(l)
    /\ \/ Top(l).def.type = "unknown" /\ Fail(l, "type")
       \/ Top(l).def.type \in DOMAIN Role /\ ~FieldsFit(Top(l)) /\ Fail(l, "type")
       \/ Known(Top(l).def) /\ Top(l).def.bad /\ Fail(l, "data")

-----------------------------------------------------------------------------
\* The loop over config.Pipeline.
Upstream(l) == config[l].pipeline[position[l] + 1]
AtUpstream(l) == pc[l] = "pipe" /\ position[l] < Len(config[l].pipeline)
Found(l) == AtUpstream(l) /\ registry[Upstream(l)] # "absent"
PipeOn(l) ==
    /\ position' = [position EXCEPT ![l] = @ + 1]
    /\ UNCHANGED <<config, pc, holder, globals, stack, error, objects>>

\* A router gets an empty case of the type switch ...
PassOver(l) ==
    /\ Found(l) /\ HasRole(value[Upstream(l)], "router")
    /\ PipeOn(l) /\ UNCHANGED upstream

\* Variant for a mutation check: the list is filled from the other end.
PushFront(l) ==
    /\ Found(l) /\ HasRole(value[Upstream(l)], "filter")
    /\ upstream' = [upstream EXCEPT ![l] = <<value[Upstream(l)]>> \o @]
    /\ PipeOn(l)

\* ... a filter is appended ...
PushBack(l) ==
    /\ Found(l) /\ HasRole(value[Upstream(l)], "filter")
    /\ upstream' = [upstream EXCEPT ![l] = Append(@, value[Upstream(l)])]
    /\ PipeOn(l)

\* ... and what is missing or anything else is an error.
NoFilter(l) ==
    \/ AtUpstream(l) /\ ~Found(l) /\ Fail(l, "missing")
    \/ /\ Found(l)
       /\ \A role \in {"router", "filter"} : ~HasRole(value[Upstream(l)], role)
       /\ Fail(l, "type")

\* The server is made; the registry is nil and the mutex unlocked.
Close(l) ==
    /\ pc[l] = "pipe" /\ position[l] = Len(config[l].pipeline)
    /\ registry' = [n \in Names |-> "absent"]
    /\ value' = [n \in Names |-> Nil]
    /\ holder' = None
    /\ Goto(l, "done")
    /\ UNCHANGED <<config, unregisterredResources, stack, upstream, position, error, objects>>

Step(l) ==
    \/ Decode(l) \/ RangeEnds(l) \/ \E n \in Names : Pick(l, n)
    \/ ResolveNull(l) \/ Share(l) \/ Cycle(l) \/ Build(l) \/ Overflow(l) \/ Missing(l)
    \/ Referred(l) \/ BuildNull(l) \/ Finish(l) \/ Reject(l)
    \/ PassOver(l) \/ PushBack(l) \/ NoFilter(l) \/ Close(l)

Next == \E l \in Loaders : Lock(l) \/ Step(l)

Spec == Init /\ [][Next]_vars

\* Goroutines that can run do run.  Each loader locks the mutex once, so that
\* it is free for good when the others are through.
FairSpec == Spec /\ \A l \in Loaders : WF_vars(Lock(l) \/ Step(l))

-----------------------------------------------------------------------------
(***************************************************************************)
(* What is right about a configuration, without a word about how it is     *)
(* read.                                                                   *)
(***************************************************************************)
\* Resource n refers to m.
Refers(cfg, n, m) ==
    LET d == cfg.resources[n] IN Known(d) /\ \E i \in DOMAIN d.to : d.to[i] = m

Cyclic(cfg) ==
    \E S \in SUBSET (DOMAIN cfg.resources) :
        S # {} /\ \A n \in S : \E m \in S : Refers(cfg, n, m)

Dangling(cfg) ==
    \/ \E i \in DOMAIN cfg.pipeline : cfg.pipeline[i] \notin DOMAIN cfg.resources
    \/ \E n \in DOMAIN cfg.resources, m \in Names :
          m \notin DOMAIN cfg.resources /\ Refers(cfg, n, m)

Reference(cfg, n) ==
    n \in DOMAIN cfg.resources /\ cfg.resources[n].type = "ref" /\ ~cfg.resources[n].bad

\* m is at the end of the chain of references that starts at n.
StandsFor(cfg, n, m) ==
    /\ m \in DOMAIN cfg.resources /\ ~Reference(cfg, m)
    /\ \A S \in SUBSET Names :
          /\ n \in S
          /\ \A k \in S : Reference(cfg, k) => cfg.resources[k].to[1] \in S
          => m \in S

Plays(cfg, n, role) ==
    \E m \in Names : /\ StandsFor(cfg, n, m)
                     /\ cfg.resources[m].type \in DOMAIN Role
                     /\ Role[cfg.resources[m].type] = role

Mistyped(cfg) ==
    \/ \E i \in DOMAIN cfg.pipeline :
          \A role \in {"router", "filter"} : ~Plays(cfg, cfg.pipeline[i], role)
    \/ \E n \in DOMAIN cfg.resources : LET d == cfg.resources[n] IN
          \/ d.type = "unknown"
          \/ /\ d.type \in DOMAIN Role
             /\ \E i \in DOMAIN d.to :
                   IF d.to[i] = None THEN d.type # "minmonitorredservice"
                   ELSE ~Plays(cfg, d.to[i], Wanted(d.type, i))

Spoiled(cfg) ==
    \E n \in DOMAIN cfg.resources : Known(cfg.resources[n]) /\ cfg.resources[n].bad

\* ErrorsHaveReasons: a loader fails only for a reason that is in its own
\* configuration, whatever the order of the map and whoever loads at the same
\* time: "already under construction" only with a cycle (config.go:91-101),
\* a stack overflow too, and so on for the other errors.
ErrorsHaveReasons ==
    \A l \in Loaders : LET cfg == config[l] IN
        /\ error[l] = "decode" => ~cfg.decodes
        /\ error[l] = "pipeline" => cfg.decodes /\ cfg.pipeline = <<>>
        /\ error[l] = "cycle" => Cyclic(cfg)
        /\ pc[l] = "crashed" /\ holder = l => Cyclic(cfg)
        /\ error[l] = "missing" => Dangling(cfg)
        /\ error[l] = "type" => Mistyped(cfg)
        /\ error[l] = "data" => Spoiled(cfg)

\* FaultsAreFound: a server is made only from a configuration without fault,
\* even if the faulty resource is in nobody's way (config.go:178-196).
FaultsAreFound ==
    \A l \in Loaders : pc[l] = "done" =>
        /\ ~Cyclic(config[l]) /\ ~Dangling(config[l])
        /\ ~Mistyped(config[l]) /\ ~Spoiled(config[l])

\* Without any fault.
Flawless(cfg) ==
    /\ cfg.decodes /\ cfg.pipeline # <<>>
    /\ ~Cyclic(cfg) /\ ~Dangling(cfg) /\ ~Mistyped(cfg) /\ ~Spoiled(cfg)

SoundOnes == {cfg \in Configs : Flawless(cfg)}
CircularOnes == {cfg \in Configs : Cyclic(cfg)}

\* What l has got.
Verdict(l) ==
    IF pc[l] = "done" THEN "server"
    ELSE IF pc[l] = "failed" THEN "error"
    ELSE IF pc[l] = "crashed" THEN "crash" ELSE "pending"

Load == INSTANCE Loading WITH Sound <- SoundOnes, Circular <- CircularOnes,
                              verdict <- [l \in Loaders |-> Verdict(l)]

\* Loads: ServerFromReader implements Loading: loads exclude each other, and
\* each gets a server exactly if its own configuration has no fault, and an
\* error otherwise, or a crash if references form a cycle (config.go:142-246).
Loads == Load!Spec

\* v is an object that l made for the resource that n stands for.
Instance(l, v, n) ==
    v \in DOMAIN objects /\ objects[v].by = l /\ StandsFor(config[l], n, objects[v].name)

\* MadeAsConfigured: every object a loader makes has the type of its
\* definition and holds, field by field, instances of what the definition
\* refers to, made by the same loader, whatever the order of the map and
\* whoever loads at the same time (config.go:84-105, 108-125).
MadeAsConfigured ==
    \A i \in DOMAIN objects :
        LET l == objects[i].by
            d == Resources(l)[objects[i].name]
        IN  /\ objects[i].type = d.type
            /\ DOMAIN objects[i].fields = DOMAIN d.to
            /\ \A j \in DOMAIN d.to :
                  IF d.to[j] = None THEN objects[i].fields[j] = Nil
                  ELSE Instance(l, objects[i].fields[j], d.to[j])

\* PipelineInOrder: the server's pipeline has an instance of each filter that
\* is named, in that order (config.go:201-238); a router is passed over.
PipelineInOrder ==
    \A l \in Loaders : pc[l] = "done" =>
        LET pipeline == config[l].pipeline
        IN  \E at \in [DOMAIN upstream[l] -> DOMAIN pipeline] :
               /\ \A i, j \in DOMAIN at : i < j => at[i] < at[j]
               /\ \A p \in DOMAIN pipeline :
                     Plays(config[l], pipeline[p], "filter") => \E i \in DOMAIN at : at[i] = p
               /\ \A i \in DOMAIN at :
                     /\ Plays(config[l], pipeline[at[i]], "filter")
                     /\ Instance(l, upstream[l][i], pipeline[at[i]])

\* The loader l uses the registry.
Uses(l) == pc[l] \in {"range", "build", "pipe"}

\* NeverBuiltAgain: once the loop has entered a resource into the registry, no
\* other instance of it is made, so that all references that are resolved from
\* then on share it (config.go:84-88, 176-186).
NeverBuiltAgain ==
    \A l \in Loaders, n \in Names :
        (Uses(l) /\ registry[n] = "complete" /\ Resources(l)[n].type # "ref") =>
            \A i \in DOMAIN objects :
                objects[i].by = l /\ objects[i].name = n => i <= value[n]

\* LoadsEnd: every load ends, with a server, an error or a crash; in
\* particular the mutex is given back on every path (config.go:142-246).
LoadsEnd == \A l \in Loaders : pc[l] = "start" ~> pc[l] \in {"done", "failed", "crashed"}

\* CyclesAreFound: a cyclic configuration makes ServerFromReader fail with an
\* error; it "should fail when a self-referrential Resource is present in the
\* config" (config_test.go:591-594), and must not end the program.
CyclesAreFound == \A l \in Loaders : pc[l] # "crashed"

\* What the methods of a loaded object call without a test for nil.
\* CompoundTrigger.UnmarshalJSON makes the slice with its full length and then
\* appends; MinMonitorredService.UnmarshalJSON leaves passthru alone.
Called(o) ==
    CASE o.type = "compoundtrigger" -> [i \in DOMAIN o.fields |-> Nil] \o o.fields
      [] o.type = "minmonitorredservice" -> <<Nil>>
      [] OTHER -> o.fields

\* HandlersAreThere: whatever a loaded object calls is there:
\* CompoundTrigger "allows more than one trigger to be fired off at a time"
\* (compound.go:10-11), a monitor "will forward to the service if it is up"
\* (minmonitor.go:394).
HandlersAreThere ==
    \A i \in DOMAIN objects : \A j \in DOMAIN Called(objects[i]) : Called(objects[i])[j] # Nil

=============================================================================
