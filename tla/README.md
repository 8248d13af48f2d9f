# Pullcord: TLA+ models and proofs

Pullcord is a reverse proxy in Go that authenticates users and starts the web
applications behind it on demand. It is a pipeline of falcore request filters.
falcore serves every request in a goroutine of its own, the filters share
state through pointers, and apart from one mutex in the configuration loader
nothing in the code takes a lock. The hard part of the program is therefore
what concurrent requests do to each other's sessions, triggers and service
status, and that is what the modules here are about.

All paths below are relative to the repository's `src/`.

## Inventory

| Part | State | Operations | Interacts with |
|------|-------|------------|----------------|
| Session store, `authentication/minsession.go` | table from cookie names to sessions; per session a cookie value and a map of data | `GetSession`, `CookieMask`, `genCookie`, `GetValue(s)`, `SetValue` | called by the cookie mask once per request; its sessions are read and written by every filter behind it |
| Cookie mask, `authentication/cookiemask.go` | none | `FilterRequest` | session store; puts the session into the request's context for the filters behind it; attaches `Set-Cookie` headers |
| Login handler, `authentication/login_handler.go` | two keys of the session: the flag `authenticated-<id>` and the last XSRF token `xsrf-<id>` | `FilterRequest` | session, password checker, the filter downstream of it |
| Password store, `authentication/inmempwdstore.go` | table from identifiers to PBKDF2 hashes, never changed after loading | `GetPbkdf2Hash`, `Check`, `CheckPassword` | asked by the login handler |
| Service monitor, `monitor/minmonitor.go` | services by name; per service `up`, `lastChecked`, and the filters and triggers it was built with | `Add`, `Status`, `Reprobe`, `SetStatusUp`, `FilterRequest` | network probes; triggers `OnDown`, `OnUp`, `Always`; pass-through proxy |
| Delay trigger, `trigger/delay.go` | a channel to a goroutine with a timer | `Trigger` | called from requests by the monitor; calls the delayed trigger |
| Rate limit trigger, `trigger/ratelimit.go` | the times of past calls | `Trigger` | called from requests; calls the guarded trigger |
| Compound trigger, `trigger/compound.go` | list of triggers | `Trigger` | calls its parts in order, the first error ends the loop |
| Configuration loader, `config/config.go` | registry of resource types; and, behind `registrationMutex`, registries of named resources and of their JSON | `ServerFromReader`, `Resource.UnmarshalJSON`, `unmarshalByName` | calls the `UnmarshalJSON` of every resource type, which calls it for its own fields |
| Shell and SQS trigger, proxy, path router, fixed pages | none that changes after loading | | leaves of the pipeline; resources to the loader |
| Conditional filter, logging, test helper | none | | |

A service on demand is what the parts make together: a monitor whose `OnDown`
trigger starts the service and whose `OnUp` trigger is a delay trigger that
will stop it when nobody has used it for a while.

What is hard, and what makes each part correct:

- *Sessions.* Requests of one client share a session, requests of different
  clients share the table; a client may send any mixture of valid, revoked,
  tampered and foreign cookies. No session value may ever reach another
  client, a revoked cookie may never be accepted again, and stored sessions
  may be deleted but, short of two races that are named, neither replaced nor
  robbed of data.
- *Login.* The handler reads and writes the session several times per request.
  Nobody may get past it without a right password of their own, for this very
  handler, and no form may be accepted with somebody else's token.
- *Delay trigger.* Calls race with each other and with the timer. The trigger
  must not fire within the delay after the last call, must fire in the end,
  and must never leave a caller waiting for ever.
- *Rate limit.* The list of past calls is read and written without a lock. No
  period may see more calls than allowed, and none may be refused without need.
- *Monitor.* Probes take time, several callers probe at once, `up` and
  `lastChecked` are separate unlocked writes. Down must never come from a
  cache, a cached up must be recent, and the answer to a request must match
  the triggers that have run.
- *Service on demand.* The stopping of the service races with requests that are
  on their way to it; a request may wait for the goroutine of a timer that is
  busy stopping the service. The monitor must notice that the service is being
  stopped before it forwards to it again, and every request must be answered.
- *Configuration loader.* A recursion through JSON over global maps, in the
  order of a Go map, which is any. Whatever the order, the same configurations
  must be accepted, every error must have its reason in the configuration,
  objects must be wired as configured and shared where they are registered, and
  a failed load must leave nothing to the next one, least of all the mutex.

## Modules

| Module | Stands for | Built on |
|--------|-----------|----------|
| `MinSession` | `minsession.go` and the frame of `cookiemask.go` | |
| `PwdStore` | `inmempwdstore.go`, as operators | |
| `LoginHandler` | `login_handler.go` behind the cookie mask | EXTENDS `MinSession`, instantiates `PwdStore` |
| `Debouncer` | what the comment in `delay.go` promises | |
| `DelayTrigger` | `delay.go` | instantiates `Debouncer`, which it implements |
| `RateLimitTrigger` | `ratelimit.go` | |
| `MinMonitor` | `minmonitor.go` | |
| `OnDemand` | `minmonitor.go`, `delay.go` and `compound.go` together | EXTENDS `MinMonitor`, instantiates `DelayTrigger`; implements both |
| `Loading` | what a load promises | |
| `ConfigLoader` | `config.go` and the `UnmarshalJSON` methods of all resource types | instantiates `Loading`, which it implements |
| `MinSession_proofs`, `LoginHandler_proofs`, `DelayTrigger_proofs`, `RateLimitTrigger_proofs`, `MinMonitor_proofs`, `OnDemand_proofs`, `ConfigLoader_proofs` | theorems about the module they name | `LoginHandler_proofs` EXTENDS `MinSession_proofs`; `OnDemand_proofs` EXTENDS `MinMonitor_proofs` and instantiates `DelayTrigger_proofs` |
| `ConfigFaults_proofs` | more theorems about `ConfigLoader`: errors, sharing, the pipeline | EXTENDS `ConfigLoader_proofs` |
| `MCMinSession`, `MCLoginHandler`, `MCDelayTrigger`, `MCRateLimit`, `MCMinMonitor`, `MCOnDemand`, `MCConfigLoader` | symmetry, views, configurations and other constants for TLC | |

Operators whose comment says *variant for a mutation check* are not part of any
specification. Each is a definition as a plausible bug would have it, and shows
that some property would notice that bug.

### MinSession

`table` is `MinSessionHandler.table`; an element of `Cores` is a
`minSessionCore`, whose fields are `cvalue` and `data`. A `MinSession` object
belongs to one request and its core is final once `CookieMask` has returned, so
the table maps names to cores. A core nobody points to may be reused, as the
garbage collector does.

A request goes through `GetSession` (`phase` becomes `"mask"`), one of
`MaskValid`, `MaskInvalid`, `MaskForward` for each cookie, one of `DrawCookie`,
`GenCookieFails`, `KeepCookie` at the end of `CookieMask`, any number of
`SetValue` by the filters behind it (`phase` is `"app"`), and `Respond`. Between
any two of these steps other requests take theirs.

Two pairs of steps are apart because nothing in the code holds them together.
`DrawCookie` is `genCookie`, which looks the new name up in the table
(`authentication/minsession.go:124`); `StoreCookie` stores the session under it
without looking again (`authentication/minsession.go:338-339`), so that of two
requests that have drawn the same free name (`clash`) the second replaces the
first. `GetSession` tests the table for nil and `MakeTable` makes one
(`authentication/minsession.go:72-76`), so that of the first requests to a
handler from a configuration (`made` is false in `Init`) two may make a table
each (`raced`), and the sessions stored in the one are lost. Both are behaviours
of the model; `clash` and `raced` are history, and the properties that they break
name them as their only exceptions.

A request whose new cookie cannot be made (`GenCookieFails`) ends in phase
`"panicked"`: `CookieMask` logs the failure of the random number generator and
then dereferences the nil cookie (`authentication/minsession.go:334`).
`jar` holds every cookie a client was ever given: clients need not obey the
request to drop one. `owner`, `revoked`, `written`, `raced` and `clash` are
history variables that no action of the program reads.

Two properties say what clients have of all this. `GivenCookiesWork`: a cookie
that was given to a client leads to a session of that client until it is
revoked, the two races excepted. `SessionIsolation`: nothing in it comes from
anybody else, races or not.

### LoginHandler

Extends the steps of `MinSession` by a program counter `lpc` per request. The
reads and writes of the session are steps of their own: `CheckAuth` (the flag),
`CheckXsrf` (the token), `CheckPassword`, `Grant` (sets the flag), `ServePage`
(draws, stores and shows a token), and the early returns `MissingField`,
`CheckerFails` and `TokenFails`. A form may carry any token ever served to
anybody. The history variables are `known` (tokens shown to a client) and
`loggedIn` (right passwords given). `GateHolds` says that nobody is let in
without a password, `LoginLasts` that nobody is thrown out: whoever is logged in
with a cookie stays so until the cookie is revoked, whatever is merged into the
session, rejected next to it or set in it by another handler; the two races of
the session store are excepted.

### DelayTrigger and Debouncer

A goroutine `delaytrigger` with its channel and timer is one of `Workers`.
`Call` tests `dt.c`, `Make` assigns it and starts the goroutine, `Receive` is
the rendezvous of the unbuffered channel. `NewTimer`, `Stop`, `Drain`, `Reset`,
`Fire` and `Fired` are the steps of the goroutine, `Expire` is the runtime
putting a tick into the timer's channel of capacity one. `quiet`, `owed`,
`fired` and `raced` (two calls met between the test and the assignment of
`dt.c`) are history.

`Debouncer` is the promise without timers, channels and program counters:
requests postpone one firing until they have been quiet for `Delay`. The
refinement mapping takes a worker to be waiting while its timer runs, while its
tick is in the channel and while the worker is about to set the timer.

### RateLimitTrigger

`list` is `previousTriggers`, a caller's program counter says where it is in
`Trigger()`, which it enters with `now` read from the clock. `IsNil`,
`HasLength`, `IsOver` and `IsFull` are the conditions, each a read of the list;
`Cut` and `Keep` read and assign in the pruning loop, `AppendNow` and `Store` at
the end, `Make` assigns the first list, of `MaxAllowed` zero times. An index
into a list that another caller has emptied ends in `"panic"`. `allowed` is the
history of the calls let through, `overlapped` says whether two callers have
ever been inside `Trigger()` at once; the guarded trigger runs outside of it.
`PanicsOnlyMeeting` says that the loop by itself never indexes an empty list.

### MinMonitor

Each caller performs one operation at a time. `Add` looks the name up and tests
the map for nil, `MakeTable` makes the map and `Insert` writes into it, again
without a lock: two concurrent registrations of one name both succeed
(`monitor/minmonitor.go:175`, `201`), and nobody promises otherwise. `ReadUp`, `ReadClock` and
`ReadLast` are the condition of `Status` in order of evaluation, `Dial`,
`Stamp` and `Store` are `Reprobe` (the last two also `SetStatusUp`), `Always`,
`OnUp`, `OnDown`, `Proxy` and `NotReady` the rest of `FilterRequest`. `Fields`
says what the fields of a service hold, depending on whether the constructor
built it or `UnmarshalJSON` did, which `built` says and `Init` leaves open.
`Fail` and `Recover` belong to the service being monitored. `goodAt` (the last
success) and `met` are history: `met` is set for a service once a caller
has started to check or set its status while another was doing so (`Checking`).

### OnDemand

The handlers of `MinMonitor` are external: they take any time and fail or not.
Here `OnUp` is a `DelayTrigger` and `OnDown` a `CompoundTrigger`. `Delayed` is
the entry of `DelayTrigger.Trigger()` from within a request, `MakeWorker` and
`HandOver` are its two ways to return; in between the request waits. `PartRuns`,
`PartFails` and `CompoundReturns` are the loop of `CompoundTrigger.Trigger()`.
`Time` is one clock for the monitor's grace period and the trigger's delay. The
commands themselves remain external: what they do to the service is `Fail` and
`Recover`, at any time. `done` (the parts that ran in a request) is history. The
service and its triggers are built by the constructors: from a configuration
neither works (finding 5), and a program that puts them together is what is left.

`StopIsNoticed` relates the parts. A request that finds the service up renews
the monitor's cache and then hands over to the delay trigger, which puts the stop
off. When the stop comes, the delay has passed since the last hand-over, so that a
shorter grace period has lapsed, too: the next request probes and has the service
started again. The exceptions are in the property and are behaviours of the
model: a request that has its answer and has not come through `OnUp` yet
(`OnItsWay`), and two racing first calls of the delay trigger. It does not say
that a service in use is not stopped: a request that waits for the delay
trigger's goroutine, or is being proxied, has it stopped under it.

### ConfigLoader

Loaders are goroutines in `ServerFromReader`. `Lock` to `Close` are its course
under `registrationMutex` (`holder`): `Decode`, the loop over the resources
(`Pick` in any order, `RangeEnds`), the loop over the pipeline (`PushBack`,
`PassOver`, `NoFilter`), and the return. `registry` with `value` and
`unregisterredResources` are the globals; they are not reset by a failing load,
as in the code.

`Resource.UnmarshalJSON` calls the type's `UnmarshalJSON`, which calls it again
for its fields. The recursion is `stack`, a sequence of resources under
construction, each with its definition and the values its fields have `got` so
far. The next field's reference is resolved by `ResolveNull`, `Share` (the
registered object), `Cycle` (registered but incomplete), `Missing` or `Build`,
which pushes the resource it refers to without registering it
(`config/config.go:105`), and `Overflow` where the Go runtime gives up.
`Referred`, `BuildNull` and `Finish` return a value to the field around, or to
the registry; `Finish` makes the object. `Reject` has the errors of the type
switches (`FieldsFit`) and of bad data. Types are abstracted to the interface
they implement (`Role`) and the interfaces their `UnmarshalJSON` wants of its
fields (`Wants`, `Lists`); data other than references is good or bad.

The second half of the module says of a configuration, without a word about how
it is read, whether it is `Cyclic`, `Dangling`, `Mistyped` or `Spoiled`, and what
a name stands for at the end of a chain of references. The properties compare
what the loader does with that.

`Loading` is what a load amounts to: one loader at a time, whose server or error
depends on its own configuration alone, whatever the order of the map and
whatever earlier loads left behind; the program may crash, but only over a
cycle. It has no registry, no stack and no program counter. The refinement
mapping takes the mutex for the right to load, the configurations without any of
the faults for the sound ones (`Flawless`: it decodes, has a pipeline, and is
neither cyclic, dangling, mistyped nor spoiled), and the end of the return
statement for the verdict.

### Assumptions

- Memory is sequentially consistent and single reads and writes of fields and
  maps are atomic. Torn pointers and the fault the Go runtime may raise on
  concurrent map writes are not modelled.
- One iteration of `CookieMask`'s loop is one step, and so are `time.Now()` and
  the assignment of its result to `lastChecked`. `genCookie` is one step: its
  lookup decides when the name counts as drawn.
- Random values (128 bytes) and tokens (64 bytes) do not repeat. Cookie names (32
  bytes) do: a name may be drawn again after its session was deleted, which the
  code provides for, and by two requests at once, which it does not. Nobody
  guesses them.
- PBKDF2 gives different keys for different passwords.
- The client of a request is not known to the program: it only occurs in
  history variables and in what a client can send.
- Behind a cookie mask only login handlers touch their two keys.
- A resource that is defined in place, inside another one, belongs to that one
  alone; the loader's configurations have named resources only. The fields of a
  definition are decoded one after the other.
- The stack holds more resources than a configuration has names (`MaxDepth`).
- `RegisterResourceType` is called from `init` functions only, so that the type
  registry is constant when the first configuration is loaded.

## Runs

| Run | Bounds | Shows |
|-----|--------|-------|
| `MCMinSession` | 2 clients, 2 requests at a time, 2 names, 2 values, 1 key, 2 cookies per request, a wrong value | types; `SessionIsolation`, `RevokedStaysRevoked`, `SessionsAreDistinct`, `GivenCookiesWork`, `StoredSessionIsStable`, `StoredDataIsKept` |
| `MCMinSessionReplaced` | 1 client, 1 request | `RejectedCookieIsReplaced` is violated (finding) |
| `MCLoginHandler` | 2 clients, 2 requests at a time, 1 handler, 2 tokens, 2 names, 2 values, 2 cookies per request, a wrong value, constraint `Bounds` | types; `GateHolds`, `XsrfIsOwn`, `LoginLasts` |
| `MCDelayTrigger` | 2 callers with 3 calls each, 2 workers, delay 2, fair | types; `StuckOnlyAfterFiring`, `QuietOfAll`, `RequestsFire`, and the refinement `Debounces` |
| `MCDelayTriggerAgain` | 1 caller, fair | `EveryRequestFires` is violated (finding) |
| `MCRateLimit` | 2 callers with 2 calls each, limit 2, period 1, times 2 to 4, fair | types; `WindowLimit`, `RefusedMeansFull`, `PanicsOnlyMeeting`, `CallsEnd` |
| `MCMinMonitor` | 2 callers, 1 service of either kind with any of the three triggers, times 0 to 2, grace period 1 | types; `DownMeansDown`, `TriggersRun`, `UpIsForwarded`, `CachedUpAlone` |
| `MCMinMonitorTwo` | 2 callers, times 0 to 3 | `CachedUpIsRecent` is violated (finding) |
| `MCOnDemand` | 2 callers with 2 and 1 requests that find the service up (and any number that do not), 1 service, 2 workers, 2 parts, delay 1, grace period 0, times 0 to 2, fair | types; `AllPartsRan`, `StopIsNoticed`, `Answered` |
| `MCConfigLoader` | 2 loaders, each with any of 19 configurations of up to 4 names, stack of 5, fair | types; `ErrorsHaveReasons`, `FaultsAreFound`, `MadeAsConfigured`, `PipelineInOrder`, `NeverBuiltAgain`, `LoadsEnd`, and the refinement `Loads` |
| `MCConfigCycle` | 1 loader, the 3 cyclic configurations | `CyclesAreFound` is violated (finding) |
| `MCConfigNil` | 1 loader, the 2 configurations with a service or a compound trigger | `HandlersAreThere` is violated (finding) |

Why the bounds are enough to be interesting. Sessions: two clients give the
other whose session must not be reached; two names and two cookies allow a
client with two sessions that are merged, a good cookie followed by a bad one,
and a name drawn again; two concurrent requests allow one to delete what the
other is using. The empty cookie value is treated like the wrong one, as every
stored session has a value. Four cores are one more than can be live when a new
one is needed. With two requests both races of the store happen: both find no
table, both draw one name. Login: a second client, whose token and password do
not count; two cookies and a wrong value in one request, so that sessions with
data are merged and one is deleted next to another that is in use. The
constraint `Bounds` of `MCLoginHandler` keeps the run in reach: a request with
two cookies is masked while the other one may be anywhere in the login handler,
but not while that one is masked too (`MCMinSession` has both at once); cookies
of other applications and requests that have panicked have nothing to do with
the handler; and a behaviour in which the first requests raced for the table
ends, as `LoginLasts` says nothing of it from then on. There is one login
handler; the theorems `Gate` and `Lasts` are about any number of them.
Delay trigger: two callers and two workers allow the race for the channel, and
three calls each a request after the first firing. Rate limit: four calls over
three ticks are a full list, a refusal, and a call after the period is over; two
callers overlap in every way from the first call on. Monitor: the clock must be
able to pass the grace period once after a probe. On demand: with a delay of one
tick a request can come before, at and after the moment the timer expires;
requests that find the service down are not bounded, they leave nothing behind.
A grace period of 0 lapses with the next tick, before the delay of 1 can have
passed, as `StopIsNoticed` asks.
Configurations: five are right (two masks that share a session store and mask
one another, chains of references, a router, a service with and without
triggers, a compound trigger) and fourteen wrong, each in its own way: a cycle of
one, of two, entered from outside; an undefined name in a field and in the
pipeline; a wrong interface, a null or a session store in the pipeline, a field
left out, an unregistered type, bad data, no data, no pipeline, no JSON. Two loaders find
what the other has left in the globals, in both orders.

Clients, requests, names, values and tokens are interchangeable, so the larger
safety runs use symmetry; views leave out the contents of cores that nothing
points to, the addresses of cores (`MCLoginHandler`) and values that are not
read again. The runs with a finite pool of
names and tokens stop when it is used up, the rate limit's when its calls are,
and a load ends, so deadlock is not checked there; the other runs check it.

### Fairness

`FairSpec` of `DelayTrigger` has weak fairness for each goroutine's next step,
for the rendezvous with each worker, for the timers and for the clock: Go's
scheduler runs what can run and its timers expire. No caller is obliged to
call, and which of several waiting callers is served is open. `RequestsFire`
rests on the bounded number of calls: requests that never cease would put the
firing off for ever, as the trigger is meant to. The delayed trigger is assumed
to return. `FairSpec` of `RateLimitTrigger` has weak fairness
for the next step of each caller inside `Trigger()`, for the same reason.

`SystemFairSpec` of `OnDemand` has weak fairness for the next step of each
request that is being served, of each worker (with its timer) and for the clock.
Nothing is assumed of the service and no request has to come. Commands and
connections end, as an exit status or the network's timeouts make them; a
command that never does leaves its request unanswered in the code too.

`FairSpec` of `ConfigLoader` has weak fairness for each loader's next step,
`Lock` included. Weak fairness is enough for the mutex: each loader takes it
once and gives it back, so that it is free for good for the last one.

## Findings

Five runs end with the violation of something the repository says of itself:

1. `MCDelayTriggerAgain`: a request after the trigger has fired blocks the
   goroutine for ever on its drained timer channel (`trigger/delay.go:84-86`).
   `StuckOnlyAfterFiring` shows that this is the only way to get there. In
   `OnDemand` it leaves later requests for the service unanswered, which is why
   `Answered` speaks of the time before.
2. `MCMinMonitorTwo`: a reader between the two writes of a failed probe takes a
   lapsed up status for a fresh one (`monitor/minmonitor.go:237-239`).
   `CachedUpAlone` shows that only overlapping checks do that: as long as no two
   callers have been checking a service at once, a cached up is recent.
3. `MCMinSessionReplaced`: a good cookie followed by a bad one of its name
   leaves the request with a session that is in no table
   (`authentication/minsession.go:267`).
4. `MCConfigCycle`: only the resource whose turn it is in the loop over the map
   is marked as under construction. A cycle that is entered from a resource
   outside of it is not found, the stack overflows and the program ends
   (`config/config.go:105`). `ErrorsHaveReasons` shows that only cycles do that.
5. `MCConfigNil`: the slice of a compound trigger is made with its full length
   and then appended to, so that its first entries are nil
   (`trigger/compound.go:35`); a configured monitor has no filter to forward
   with (`monitor/minmonitor.go:113-117`).

### Known limits

Further places where the code does less than one might think. They are plain
from the code, modelled as they are, and excepted in the properties named:

- `UnmarshalJSON` of a service stores the `Always` trigger as `OnDown`
  (`monitor/minmonitor.go:105`) and leaves `passthru` nil, so that a request that
  is to be forwarded ends in a panic (`monitor/minmonitor.go:515`). `TriggersRun`
  and `UpIsForwarded` speak of services built by the constructor.
- Two racing first calls make two timers (`trigger/delay.go:112`), which
  `QuietOfAll` and `StopIsNoticed` except by `raced`, and two lists of past
  calls (`trigger/ratelimit.go:104`), which `WindowLimit` and `RefusedMeansFull`
  except by `overlapped`. A call that overlaps with another may also find the
  list emptied between its two reads and end in a panic
  (`trigger/ratelimit.go:94-97`); `PanicsOnlyMeeting` says that no other does.
- Two requests that draw one cookie name, and two first requests to a handler
  that has no table yet, cost one of them its session
  (`authentication/minsession.go:124`, `73`); the properties except `clash` and
  `raced`. The former takes two equal draws of 32 random bytes, the latter two
  requests right after the start of a configured program.
- Two concurrent registrations of one name both succeed
  (`monitor/minmonitor.go:201`); no property depends on it.
- A router in the pipeline is passed over although the log says it was added
  (`config/config.go:215-238`); `PipelineInOrder` speaks of the filters.
- A resource that is referred to before its turn in the map's order is built
  twice (`config/config.go:105`): the earlier user has an instance of its own.
  `NeverBuiltAgain` says how far this goes.

## Proofs

TLAPS proves the following for all values of the constants that satisfy the
named assumptions (`MinSessionAssumption`, `LoginAssumption`,
`DelayAssumption`, `RateAssumption`, `MonitorAssumption`, `SystemAssumption`,
`ConfigAssumption`: sentinels differ from values, bounds are numbers, the keys
are those of the login handlers, configurations are well formed and have
finitely many names).

*Session store* (`MinSession_proofs`). `TypeCorrect` proves `TypeOK`.
`SessionIsolation` is not inductive: it speaks only of requests past the mask,
while the mixing it excludes would happen in the mask. The strengthening
`IsolationInv` says that a running request works on a core its own client's
request allocated (`RequestsOwn`), that the cookie of every stored core has been
drawn (`StoredIsDrawn`) and so has every cookie a client can send
(`KnownIsDrawn`), that only the owner of a core can know its cookie
(`OwnersKnow`), and that the data in a core was written by its owner
(`DataIsOwn`), and that nobody but its request knows a cookie that is drawn and
not stored yet (`FreshIsSecret`). Theorem `Isolated` follows. `TableInv` adds what
relates names, cores and values in the table: a session without a cookie is
reached by its own request only (`FreshIsPrivate`), and no value is in use twice
or again after its deletion. `Revoked`, `Distinct` and `Kept` follow.

`Stable` needs to know all the ways in which a session can lose its place.
`RaceInv` says that a request that is about to store a session is the only one to
do so under that name, which is still free, unless the name is in `clash`
(`ClashIsKnown`: the lookup was good when it was made, and whoever stores under
the name afterwards had to draw it before); and that a request that is about to
make the table is the only one, and nothing is stored yet, unless two have met
(`RaceIsKnown`). `CookiesWork` proves `GivenCookiesWork`, which is not inductive
for want of the cookies that are still on their way out: `GivenInv` says it also
of those in the responses being prepared (`Given`), and needs that the owner of a
core is the client whose request works on it.

*Login handler* (`LoginHandler_proofs`). Lemma `UsesSessions` carries the
theorems about the store over to the login handlers that use it. With
`IsolationInv` it gives `Gate`: the flag a request reads was written by its own
client, and `Grant` is the only step that writes it. That a checker's verdict
can be relied on is lemma `OnlyRightPasses`, about the password store's
operators. `Xsrf` is proved the same way from the token. `LoginTypes` is the
type invariant. `Lasts` proves `LoginLasts` step by step: a good cookie that the
step does not revoke leads to the same core after it (`StaysGood`), which loses
nothing (`StaysThere`, from which also `Kept` follows), and nothing but the flag
is ever where the flag is (`FlagsAreTrue`).

*Delay trigger* (`DelayTrigger_proofs`). `TypeCorrect`, and `Debouncing`, that
the trigger implements `Debouncer`: every step maps to a request, a firing, a
tick or a stutter. It rests on `TimerInv`, which ties the remaining time of a
timer to the time since the last accepted request and says that a tick in the
channel of a worker that waits in its select is one of the current timer; that
is what the mapped `Fire` needs. `QuietFirst` proves `QuietOfAll` with
`OneInv`: as long as no two first calls have raced, the only worker ever started
is the one whose channel is in `dt.c`. `StuckLater` proves
`StuckOnlyAfterFiring` by `FirstRoundInv`: until its first firing the timer of a
worker runs, or its tick waits in the channel, whenever the worker looks at
either.

*Rate limit* (`RateLimitTrigger_proofs`). `TypeCorrect` holds for callers that
overlap in any way; it needs `Made`, that the list is never nil again.
`WithinLimit` and `RefusedFull` prove `WindowLimit` and `RefusedMeansFull` for
every positive limit. Their invariant `RateInv` says that, as long as calls have
not overlapped, at most one caller is inside `Trigger()`, the list ends with the
latest calls let through in their order with zero times before them (`Tracks`),
and every call the list no longer has is over for the caller inside (`Gone`).
`PanicsMeeting` proves `PanicsOnlyMeeting` for every limit, zero included, by
`PanicInv`: a caller that is alone and past the test of the length has a list
that is not empty (`ListTested`).
The hypothesis `MaxAllowed > 0` is needed: the first call makes the list
without looking at the limit, so a limit of zero lets it through
(`trigger/ratelimit.go:103-107`).

*Service monitor* (`MinMonitor_proofs`). `TypeCorrect`, and two arguments about
what one operation carries from step to step. `SawInv` says that a caller whose
service is unreachable, or was found to be so by its probe, knows of a moment
during its own operation at which it was; it gives `NoCachedDown` for
`DownMeansDown`, whatever the other callers do to `up` and `lastChecked` in the
meantime. `RanInv` says which triggers have run at each program counter, and
what an answered request has been through; it gives `SpecifiedTriggersRun` and
`UpServed`, for `TriggersRun` and `UpIsForwarded`. `CachedFresh` proves
`CachedUpAlone` by `FreshInv`: as long as a service is not `met`, whoever is
checking it is alone with it; outside of a check its status up means that
`lastChecked` is the time of a success, and inside one what the caller has read
so far still stands.

*Service on demand* (`OnDemand_proofs`). `SystemIsMonitor` and `SystemDelays`
prove that the composition implements `MinMonitor` with arbitrary triggers and
`DelayTrigger` with arbitrary callers: each of its steps is a step of the one, of
the other, or of both. What is proved of the parts then holds of the system
(`SystemNoCachedDown`; `QuietFirst` through the instance `DlyP`). `StopNoticed`
proves `StopIsNoticed`. Its invariant `StopInv` says that for as long as a
service is held for up, a request that found it so is still on its way to `OnUp`,
or some worker has accepted a request since the status was recorded (`HeldUp`).
When a worker fires, `QuietFirst` says that the delay has passed since every
request accepted, so the status is as old. `SystemAllPartsRan` follows from
`PartsInv`: the loop is past exactly the parts that ran. `SystemTypes` collects
the types of both parts and of what the composition adds. `SystemStuckLater`
carries `StuckOnlyAfterFiring` over to the system, whose property `Answered`
rests on it, and `SystemDebounces` the refinement of `Debouncer`.

*Configuration loader* (`ConfigLoader_proofs`, `ConfigFaults_proofs`), for any
configurations, any number of loaders and any order of the maps.

- `TypeCorrect`, with `StackInv`: whoever uses the maps holds the mutex, and each
  resource on the stack is the target of the next reference of the one around
  it. That others are idle meanwhile (`OthersStay`) reduces the rest to one
  loader.
- `Construction` (`MadeAsConfigured`), by `ValuesInv`: whatever is in the
  registry or in a field is an object of the same loader for what the name
  stands for, which is unique (`ChainsAreUnique`).
- `SharedOnce` (`NeverBuiltAgain`): the object in the registry is the last one
  made for its name.
- `Reasoned` (`ErrorsHaveReasons`): the links of the stack make a resource that
  is found under construction a cycle, and by counting names also a stack that
  is higher than there are names.
- `FaultsFound` (`FaultsAreFound`): whatever has been built is `Grounded`, in the
  least set of resources that refer only into it, and `Faultless`; after the
  loop this is every resource, and no cycle is grounded.
- `InOrder` (`PipelineInOrder`), by `PipelineInv`: an increasing map from what has
  been appended to the entries dealt with.
- `LoadsAsPromised` (`Loads`): every step of the loader is a step of `Loading` or
  none. A load that fails has a reason in its configuration, one that succeeds
  has none of the faults, and only a cycle overflows the stack; the invariants
  behind `Reasoned` and `FaultsFound` say so at the very step that ends the load.

Only model-checked: the liveness properties `RequestsFire`, `CallsEnd`,
`Answered` and `LoadsEnd`, as fairness and ENABLED are beyond the prover. The
properties of the violated runs are not theorems, of course. Every safety
property of a passing run is proved, the type invariants included, and so are
the refinements that runs or theorems state (`Debounces`, `Loads`, `OnDemand` of
its parts).

## Not modelled

- Shell and SQS triggers, the proxy and logging: input and output. To the
  monitor and the triggers a command is external; to the loader these are
  resources without references.
- Conditional filter, and the serving of requests by the path router, the
  landing page and the standard responses: no state, each is a function of the
  request. Their `UnmarshalJSON` is in `ConfigLoader`.
- The decoding of password entries (Base64, lengths, iterations) and failures
  of the random number generator in `GetPbkdf2Hash`: they only keep an entry
  from being made. A null in place of an entry is loaded as a nil hash and
  panics at login (`authentication/inmempwdstore.go:183`); the table of
  `PwdStore` has no such entries.
- Resources defined in place; the text of JSON.
- The rate limit as a part of `OnDemand`: it has its own module.
- `config/util/validator.go`: supports the tests.

## Plan

Done: all of the modules above and their proofs. What could be added:

1. A password table with null entries, and a login that panics on one.
2. The whole pipeline as loaded: cookie mask, login handler and monitor in one
   module, with the answer to each request. The parts share no state but the
   session, so that little would be shown that the parts do not.
3. Resources defined in place, with the sharing between them and named ones.
