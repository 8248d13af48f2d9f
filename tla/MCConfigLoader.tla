---------------------------- MODULE MCConfigLoader ----------------------------
\* Model-checking instance of ConfigLoader: the configurations.
EXTENDS ConfigLoader

CONSTANTS ra, rb, rc, rd

Def(type, to) == [type |-> type, to |-> to, bad |-> FALSE]
Bad(type) == [type |-> type, to |-> <<>>, bad |-> TRUE]
Config(resources, pipeline) ==
    [decodes |-> TRUE, resources |-> resources, pipeline |-> pipeline]
Only(n, def) == [m \in {n} |-> def]
Two(n, def1, m, def2) == [k \in {n, m} |-> IF k = n THEN def1 ELSE def2]
And(r, n, def) == [k \in DOMAIN r \cup {n} |-> IF k = n THEN def ELSE r[k]]

Filter == Def("landingfilter", <<>>)
Store == Def("minsessionhandler", <<>>)
Mask(s, f) == Def("cookiemaskfilter", <<s, f>>)
Shell == Def("shelltrigger", <<>>)

\* Two masks share a session store; one masks the other.
Shared == Config(And(And(Two(ra, Mask(rc, rb), rb, Mask(rc, rd)), rc, Store), rd, Filter),
                 <<ra, rb>>)
\* References to references, and a router, which is no filter.
Chained == Config(And(Two(ra, Def("ref", <<rb>>), rb, Def("ref", <<rc>>)), rc, Filter),
                  <<ra, rb>>)
Routed == Config(And(Two(ra, Filter, rb, Def("exactpathrouter", <<rc, ra>>)),
                     rc, Def("ref", <<ra>>)), <<rb, rc>>)
\* A service with and without triggers.
Service == Config(And(And(Two(ra, Def("minmonitorredservice", <<rb, rc, None>>),
                              rb, Def("ratelimittrigger", <<rd>>)),
                          rc, Def("delaytrigger", <<rd>>)), rd, Shell), <<ra>>)
\* A trigger made of two others.
Compound == Config(And(Two(ra, Filter, rb, Def("compoundtrigger", <<rc, rc>>)), rc, Shell),
                   <<ra>>)
\* Cycles: of one, of two, and entered from outside.
Self == Config(Only(ra, Def("ref", <<ra>>)), <<ra>>)
Pair == Config(And(Two(ra, Mask(rc, rb), rb, Mask(rc, ra)), rc, Store), <<ra>>)
Entered == Config(Two(ra, Def("ref", <<rb>>), rb, Def("delaytrigger", <<rb>>)), <<ra>>)
\* Other faults.
Undefined == Config(Two(ra, Mask(rc, rb), rb, Filter), <<rb>>)
NoSuchPipe == Config(Only(ra, Filter), <<rb>>)
WrongRole == Config(And(Two(ra, Mask(rb, rc), rb, Filter), rc, Store), <<rb>>)
NoFilterPipe == Config(Two(ra, Store, rb, Filter), <<rb, ra>>)
NullPipe == Config(Only(ra, Def("null", <<>>)), <<ra>>)
LeftOut == Config(Two(ra, Def("loginhandler", <<None, rb>>), rb, Filter), <<ra>>)
Unregistered == Config(Two(ra, Def("unknown", <<>>), rb, Filter), <<rb>>)
BadData == Config(Two(ra, Bad("ref"), rb, Filter), <<rb>>)
NoData == Config(Two(ra, Bad("landingfilter"), rb, Filter), <<rb>>)
NoPipe == Config(Only(ra, Filter), <<>>)
Malformed == [decodes |-> FALSE, resources |-> <<>>, pipeline |-> <<ra>>]

Good == {Shared, Chained, Routed, Service, Compound}
Faulty == {Self, Pair, Entered, Undefined, NoSuchPipe, WrongRole, NoFilterPipe, NullPipe,
           LeftOut, Unregistered, BadData, NoData, NoPipe, Malformed}
MCConfigs == Good \cup Faulty
CyclicConfigs == {Self, Pair, Entered}
TriggerConfigs == {Service, Compound}
=============================================================================
