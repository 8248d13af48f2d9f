------------------------------ MODULE MinSession ------------------------------
(***************************************************************************)
(* The session store of authentication/minsession.go together with the     *)
(* filter that drives it (authentication/cookiemask.go).                   *)
(*                                                                         *)
(* Every HTTP request runs CookiemaskFilter.FilterRequest in a goroutine   *)
(* of its own: it gets an empty session, masks the cookies one by one      *)
(* against the shared table, lets the filters behind it read and write the *)
(* session and finally attaches the Set-Cookie headers.  Nothing in the    *)
(* code takes a lock, so the steps of concurrent requests interleave.      *)
(*                                                                         *)
(* A minSessionCore is an element of Cores (a heap address); a core that   *)
(* neither the table nor a running request points to may be reused, as the *)
(* garbage collector does.  A MinSession object belongs to one request,    *)
(* its CookieMask is called once, and its core never changes after that    *)
(* call, so table maps a name directly to the core of the session stored   *)
(* under it.                                                               *)
(***************************************************************************)
EXTENDS Naturals, Sequences, FiniteSets

CONSTANTS
    Clients,     \* the browsers
    Requests,    \* slots for requests being served at the same time
    Cores,       \* heap addresses of minSessionCore objects
    Names,       \* cookie names that match the handler's regular expression
    Values,      \* what the random number generator can draw as a value
    Keys,        \* keys of the session data
    Data,        \* values of the session data
    MaxCookies,  \* bound: cookies sent with one request
    None,        \* no core, no datum; as a cookie value, the empty string
    Tampered,    \* values a client may send that the generator never draws
    Foreign      \* a cookie name that does not match the regular expression

ASSUME MinSessionAssumption ==
    /\ None \notin Clients /\ None \notin Cores
    /\ None \notin Values  /\ None \notin Data
    /\ Tampered \cap Values = {}
    /\ Foreign \notin Names
    /\ MaxCookies \in Nat

VARIABLES
    made,        \* MinSessionHandler.table is not nil
    table,       \* MinSessionHandler.table
    cvalue,      \* minSessionCore.cvalue of each core
    data,        \* minSessionCore.data of each core
    phase,       \* where each request is in CookiemaskFilter.FilterRequest
    client,      \* who sent the request
    todo,        \* the incoming cookies CookieMask has yet to look at
    sesh,        \* sesh.core of the request's session
    needed,      \* new_cookie_needed
    fresh,       \* new_cookie: drawn, but nothing is stored under it yet
    setCookies,  \* the cookies to add to the response
    jar,         \* the cookies each client has ever received
    drawn,       \* the values drawn so far
    owner,       \* history: the client whose request allocated a core
    revoked,     \* history: the cookies whose session was deleted
    written,     \* history: the session values each client's requests set
    raced,       \* history: two requests have found the table nil
    clash        \* history: the names drawn by a request while another one that
                 \* had drawn the same name had not stored its session yet

storeVars   == <<made, table, cvalue, data>>
requestVars == <<phase, client, todo, sesh, needed, fresh, setCookies>>
clientVars  == <<jar, drawn>>
raceVars    == <<raced, clash>>
historyVars == <<owner, revoked, written, raceVars>>
vars        == <<storeVars, requestVars, clientVars, historyVars>>

Cookie == [name : Names \cup {Foreign}, value : Values \cup Tampered \cup {None}]

EmptyData == [key \in Keys |-> None]

TypeOK ==
    /\ made \in BOOLEAN
    /\ table \in [Names -> Cores \cup {None}]
    /\ cvalue \in [Cores -> Values \cup {None}]
    /\ data \in [Cores -> [Keys -> Data \cup {None}]]
    /\ phase \in [Requests -> {"idle", "make", "mask", "store", "app", "panicked"}]
    /\ client \in [Requests -> Clients \cup {None}]
    /\ todo \in [Requests -> Seq(Cookie)]
    /\ sesh \in [Requests -> Cores \cup {None}]
    /\ needed \in [Requests -> BOOLEAN]
    /\ fresh \in [Requests -> Cookie \cup {None}]
    /\ setCookies \in [Requests -> SUBSET Cookie]
    /\ jar \in [Clients -> SUBSET Cookie]
    /\ drawn \in SUBSET Values
    /\ owner \in [Cores -> Clients \cup {None}]
    /\ revoked \in SUBSET Cookie
    /\ written \in SUBSET (Clients \X Keys \X Data)
    /\ raced \in BOOLEAN
    /\ clash \in SUBSET Names

\* A handler from NewMinSessionHandler has a table, a configured one has not.
Init ==
    /\ made \in BOOLEAN
    /\ table = [n \in Names |-> None]
    /\ cvalue = [k \in Cores |-> None]
    /\ data = [k \in Cores |-> EmptyData]
    /\ phase = [r \in Requests |-> "idle"]
    /\ client = [r \in Requests |-> None]
    /\ todo = [r \in Requests |-> <<>>]
    /\ sesh = [r \in Requests |-> None]
    /\ needed = [r \in Requests |-> FALSE]
    /\ fresh = [r \in Requests |-> None]
    /\ setCookies = [r \in Requests |-> {}]
    /\ jar = [c \in Clients |-> {}]
    /\ drawn = {}
    /\ owner = [k \in Cores |-> None]
    /\ revoked = {}
    /\ written = {}
    /\ raced = FALSE
    /\ clash = {}

-----------------------------------------------------------------------------
\* The cores that the table or a running request still points to.
Live == {table[n] : n \in Names} \cup {sesh[r] : r \in Requests}

\* The address the allocator hands out next.
NewCore == CHOOSE k \in Cores : k \notin Live

\* What a client can send: any cookie it was given (also one the server has
\* since asked it to drop), a cookie with one of our names and a wrong value
\* (the empty string if None \in Tampered), and cookies of other applications.
Presentable(c) ==
    jar[c] \cup [name : Names, value : Tampered]
           \cup {[name |-> Foreign, value |-> None]}

\* GetSession: a request arrives and is given an empty session.  If it finds
\* the table nil, it goes on to make one.
GetSession(r, c, cookies) ==
    /\ phase[r] = "idle"
    /\ Cores \ Live # {}
    /\ sesh' = [sesh EXCEPT ![r] = NewCore]
    /\ cvalue' = [cvalue EXCEPT ![NewCore] = None]
    /\ data' = [data EXCEPT ![NewCore] = EmptyData]
    /\ owner' = [owner EXCEPT ![NewCore] = c]
    /\ phase' = [phase EXCEPT ![r] = IF made THEN "mask" ELSE "make"]
    /\ raced' = (raced \/ (~made /\ \E q \in Requests : phase[q] = "make"))
    /\ client' = [client EXCEPT ![r] = c]
    /\ todo' = [todo EXCEPT ![r] = cookies]
    /\ needed' = [needed EXCEPT ![r] = TRUE]
    /\ setCookies' = [setCookies EXCEPT ![r] = {}]
    /\ UNCHANGED <<made, table, fresh, jar, drawn, revoked, written, clash>>

\* assureTableInitialized: the request that found no table makes an empty one,
\* whatever others that found none have made and stored meanwhile.
MakeTable(r) ==
    /\ phase[r] = "make"
    /\ made' = TRUE
    /\ table' = [n \in Names |-> None]
    /\ phase' = [phase EXCEPT ![r] = "mask"]
    /\ UNCHANGED <<cvalue, data, client, todo, sesh, needed, fresh, setCookies,
                   clientVars, historyVars>>

\* Variant for a mutation check: the value of the cookie is not compared.
MatchesByName(cookie) ==
    cookie.name \in Names /\ table[cookie.name] # None

\* The cookie names a stored session and carries its value.
Matches(cookie) ==
    /\ cookie.name \in Names
    /\ table[cookie.name] # None
    /\ cookie.value # None
    /\ cookie.value = cvalue[table[cookie.name]]

\* Variant for a mutation check: the stored data is replaced, not overlaid.
OverlayReplaces(d1, d2) == d1

\* d2 overlaid with the entries present in d1.
Overlay(d1, d2) == [key \in Keys |-> IF d1[key] # None THEN d1[key] ELSE d2[key]]

\* Variant for a mutation check: a new cookie is made although one was valid.
MaskValidStillNeeds(r) ==
    /\ phase[r] = "mask" /\ todo[r] # <<>>
    /\ Matches(Head(todo[r]))
    /\ LET k == table[Head(todo[r]).name]
       IN  /\ data' = [data EXCEPT ![k] = Overlay(data[sesh[r]], @)]
           /\ sesh' = [sesh EXCEPT ![r] = k]
    /\ todo' = [todo EXCEPT ![r] = Tail(@)]
    /\ UNCHANGED <<made, table, cvalue, phase, client, needed, fresh, setCookies,
                   clientVars, historyVars>>

\* One iteration of CookieMask's loop, a valid cookie: the values of the
\* request's session are copied into the stored one, which then replaces it.
MaskValid(r) ==
    /\ phase[r] = "mask" /\ todo[r] # <<>>
    /\ Matches(Head(todo[r]))
    /\ LET k == table[Head(todo[r]).name]
       IN  /\ data' = [data EXCEPT ![k] = Overlay(data[sesh[r]], @)]
           /\ sesh' = [sesh EXCEPT ![r] = k]
    /\ needed' = [needed EXCEPT ![r] = FALSE]
    /\ todo' = [todo EXCEPT ![r] = Tail(@)]
    /\ UNCHANGED <<made, table, cvalue, phase, client, fresh, setCookies,
                   clientVars, historyVars>>

\* Variant for a mutation check: the rejected session stays in the table.
MaskInvalidKeeps(r) ==
    /\ phase[r] = "mask" /\ todo[r] # <<>>
    /\ LET cookie == Head(todo[r])
       IN  /\ cookie.name \in Names
           /\ ~Matches(cookie)
           /\ revoked' =
                IF table[cookie.name] = None THEN revoked
                ELSE revoked \cup {[name  |-> cookie.name,
                                    value |-> cvalue[table[cookie.name]]]}
    /\ todo' = [todo EXCEPT ![r] = Tail(@)]
    /\ UNCHANGED <<storeVars, phase, client, sesh, needed, fresh, setCookies,
                   clientVars, owner, written, raceVars>>

\* Variant for a mutation check: every session the request touches goes.
MaskInvalidDestroys(r) ==
    /\ phase[r] = "mask" /\ todo[r] # <<>>
    /\ LET cookie == Head(todo[r])
       IN  /\ cookie.name \in Names
           /\ ~Matches(cookie)
           /\ table' = [n \in Names |->
                IF n = cookie.name \/ table[n] = sesh[r] THEN None ELSE table[n]]
           /\ revoked' =
                IF table[cookie.name] = None THEN revoked
                ELSE revoked \cup {[name  |-> cookie.name,
                                    value |-> cvalue[table[cookie.name]]]}
    /\ todo' = [todo EXCEPT ![r] = Tail(@)]
    /\ UNCHANGED <<made, cvalue, data, phase, client, sesh, needed, fresh, setCookies,
                   clientVars, owner, written, raceVars>>

\* One iteration, a cookie of ours that is wrong: a session stored under that
\* name is deleted.  The response asks the client to drop the cookie, which
\* it may or may not do (jar keeps it).
MaskInvalid(r) ==
    /\ phase[r] = "mask" /\ todo[r] # <<>>
    /\ LET cookie == Head(todo[r])
       IN  /\ cookie.name \in Names
           /\ ~Matches(cookie)
           /\ table' = [table EXCEPT ![cookie.name] = None]
           /\ revoked' =
                IF table[cookie.name] = None THEN revoked
                ELSE revoked \cup {[name  |-> cookie.name,
                                    value |-> cvalue[table[cookie.name]]]}
    /\ todo' = [todo EXCEPT ![r] = Tail(@)]
    /\ UNCHANGED <<made, cvalue, data, phase, client, sesh, needed, fresh, setCookies,
                   clientVars, owner, written, raceVars>>

\* One iteration, a cookie of another application: it is only forwarded.
MaskForward(r) ==
    /\ phase[r] = "mask" /\ todo[r] # <<>>
    /\ Head(todo[r]).name \notin Names
    /\ todo' = [todo EXCEPT ![r] = Tail(@)]
    /\ UNCHANGED <<storeVars, phase, client, sesh, needed, fresh, setCookies,
                   clientVars, historyVars>>

\* Variant for a mutation check: a failure to draw the value goes unnoticed.
GenCookieEmpty ==
    {ck \in [name : Names, value : {None}] : table[ck.name] = None}

\* Variant for a mutation check: a name in use is not drawn again.
GenCookieCollides == {ck \in [name : Names, value : Values] : ck.value \notin drawn}

\* What genCookie can return: names are drawn until one is not in the table,
\* then a value is drawn.  Values are 128 random bytes: a value is never drawn
\* twice.  The finite pools Names and Values bound the model: a request that
\* finds them exhausted waits, which 2^256 names and 2^1024 values never make
\* it do.
GenCookie ==
    {ck \in [name : Names, value : Values] :
        table[ck.name] = None /\ ck.value \notin drawn}

\* End of CookieMask, no valid cookie was seen: genCookie finds a free name.
DrawCookie(r) ==
    /\ phase[r] = "mask" /\ todo[r] = <<>> /\ needed[r]
    /\ \E ck \in GenCookie :
          /\ fresh' = [fresh EXCEPT ![r] = ck]
          /\ drawn' = drawn \cup {ck.value}
          /\ clash' = clash \cup
                {n \in {ck.name} : \E q \in Requests :
                    phase[q] = "store" /\ fresh[q].name = n}
    /\ phase' = [phase EXCEPT ![r] = "store"]
    /\ UNCHANGED <<storeVars, client, todo, sesh, needed, setCookies, jar,
                   owner, revoked, written, raced>>

\* The session is stored under the new cookie; the table is not asked again.
StoreCookie(r) ==
    /\ phase[r] = "store"
    /\ setCookies' = [setCookies EXCEPT ![r] = @ \cup {fresh[r]}]
    /\ cvalue' = [cvalue EXCEPT ![sesh[r]] = fresh[r].value]
    /\ table' = [table EXCEPT ![fresh[r].name] = sesh[r]]
    /\ fresh' = [fresh EXCEPT ![r] = None]
    /\ phase' = [phase EXCEPT ![r] = "app"]
    /\ UNCHANGED <<made, data, client, todo, sesh, needed, clientVars, historyVars>>

\* End of CookieMask, the random number generator fails: genCookie returns a
\* nil cookie, which CookieMask logs and then dereferences.
GenCookieFails(r) ==
    /\ phase[r] = "mask" /\ todo[r] = <<>> /\ needed[r]
    /\ phase' = [phase EXCEPT ![r] = "panicked"]
    /\ UNCHANGED <<storeVars, client, todo, sesh, needed, fresh, setCookies,
                   clientVars, historyVars>>

\* End of CookieMask, a valid cookie was seen.
KeepCookie(r) ==
    /\ phase[r] = "mask" /\ todo[r] = <<>> /\ ~needed[r]
    /\ phase' = [phase EXCEPT ![r] = "app"]
    /\ UNCHANGED <<storeVars, client, todo, sesh, needed, fresh, setCookies,
                   clientVars, historyVars>>

\* A filter behind the cookie mask reads a value: None is
\* NoSuchSessionValueError.
GetValue(r, key) == data[sesh[r]][key]

\* A filter behind the cookie mask sets a value in the request's session.
SetValue(r, key, value) ==
    /\ phase[r] = "app"
    /\ data' = [data EXCEPT ![sesh[r]][key] = value]
    /\ written' = written \cup {<<client[r], key, value>>}
    /\ UNCHANGED <<made, table, cvalue, requestVars, clientVars, owner, revoked, raceVars>>

\* The masked filter has returned: the cookies go out with the response.
Respond(r) ==
    /\ phase[r] = "app"
    /\ jar' = [jar EXCEPT ![client[r]] = @ \cup setCookies[r]]
    /\ phase' = [phase EXCEPT ![r] = "idle"]
    /\ client' = [client EXCEPT ![r] = None]
    /\ sesh' = [sesh EXCEPT ![r] = None]
    /\ needed' = [needed EXCEPT ![r] = FALSE]
    /\ setCookies' = [setCookies EXCEPT ![r] = {}]
    /\ UNCHANGED <<storeVars, todo, fresh, drawn, historyVars>>

\* The sequences of at most MaxCookies cookies client c can send.
CookieLists(c) ==
    UNION {[1..n -> Presentable(c)] : n \in 0..MaxCookies}

\* The steps the cookie mask takes before the filters behind it get control.
Mask(r) ==
    \/ MakeTable(r)
    \/ MaskValid(r)
    \/ MaskInvalid(r)
    \/ MaskForward(r)
    \/ DrawCookie(r)
    \/ StoreCookie(r)
    \/ GenCookieFails(r)
    \/ KeepCookie(r)

Next ==
    \E r \in Requests :
        \/ \E c \in Clients : \E cookies \in CookieLists(c) :
              GetSession(r, c, cookies)
        \/ Mask(r)
        \/ \E key \in Keys, value \in Data : SetValue(r, key, value)
        \/ Respond(r)

Spec == Init /\ [][Next]_vars

-----------------------------------------------------------------------------
\* SessionIsolation: whatever a filter can read in the session of a request
\* was put there by a request of the same client, however cookies are mixed,
\* tampered with, merged (minsession.go:242-252) or handled concurrently.
SessionIsolation ==
    \A r \in Requests : phase[r] = "app" =>
        \A key \in Keys : GetValue(r, key) # None =>
            <<client[r], key, GetValue(r, key)>> \in written

\* RevokedStaysRevoked: once a bad cookie has made CookieMask delete a session
\* (minsession.go:267), the cookie of that session is never accepted again,
\* not even after its name is drawn anew for another session.
RevokedStaysRevoked == \A cookie \in revoked : ~Matches(cookie)

\* StoredSessionIsStable: a stored session keeps its name and its cookie until
\* its cookie is revoked, with two exceptions and no third: a name that two
\* requests draw before either has stored its session, the lookup
\* (minsession.go:124) and the store (minsession.go:338-339) being apart, and
\* the first requests to a configured handler, two of which find no table and
\* make one each (minsession.go:72-76).
StoredSessionIsStable ==
    [][\A n \in Names : table[n] # None =>
          \/ table'[n] = table[n] /\ cvalue'[table[n]] = cvalue[table[n]]
          \/ [name |-> n, value |-> cvalue[table[n]]] \in revoked'
          \/ n \in clash \/ raced]_vars

\* StoredDataIsKept: no step removes a value from the data of a stored
\* session (merging two established sessions included, minsession.go:242-252),
\* whether it is still stored afterwards or not.
StoredDataIsKept ==
    [][\A n \in Names : \A key \in Keys :
          (table[n] # None /\ data[table[n]][key] # None) =>
              data'[table[n]][key] # None]_vars

\* SessionsAreDistinct: two cookie names never lead to the same session, so
\* that deleting one (minsession.go:267) cannot leave the session reachable.
SessionsAreDistinct ==
    \A m, n \in Names : (m # n /\ table[m] # None) => table[m] # table[n]

\* GivenCookiesWork: a cookie that a client was given leads to a session of
\* that client for as long as nobody makes CookieMask delete it by a wrong
\* value (minsession.go:267); what other requests do at the same time, merge
\* or store under new names never takes it away (minsession.go:242-255,
\* 338-339), unless they drew the same name at the same time
\* (minsession.go:124) or the first requests raced for the table
\* (minsession.go:72-76).
GivenCookiesWork ==
    \A c \in Clients : \A ck \in jar[c] :
        \/ Matches(ck) /\ owner[table[ck.name]] = c
        \/ ck \in revoked
        \/ ck.name \in clash \/ raced

\* RejectedCookieIsReplaced: a request that has been through CookieMask has a
\* session the client can come back to: a rejected cookie "was rejected and
\* replaced by another good cookie" (minsession_test.go:164).  Stated of
\* requests served one at a time.
RejectedCookieIsReplaced ==
    \A r \in Requests : phase[r] = "app" =>
        \E n \in Names : table[n] = sesh[r]

=============================================================================
