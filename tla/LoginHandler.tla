----------------------------- MODULE LoginHandler -----------------------------
(***************************************************************************)
(* The login handler of authentication/login_handler.go behind the cookie  *)
(* mask: the session of the request (module MinSession) keeps the XSRF     *)
(* token that was served last and the flag that the client has logged in,  *)
(* under keys of their own for each login handler.                         *)
(*                                                                         *)
(* Every access to the session is a step, so the requests of one client    *)
(* that share a session interleave between them.                           *)
(***************************************************************************)
EXTENDS MinSession

CONSTANTS
    LoginIds,   \* identifiers of the login handlers
    Tokens,     \* what the random number generator can draw as a token
    Authd,      \* the value true
    Users,      \* identifiers with an entry in the password store
    Strangers,  \* identifiers without one
    Passwords,
    PasswordOf, \* the password each user's hash was made from
    Salt        \* the salt of the hashes

Store == INSTANCE PwdStore

\* The identifier of the handler is part of the keys it uses.
AuthKey(h) == <<"authenticated", h>>
XsrfKey(h) == <<"xsrf", h>>

ASSUME LoginAssumption ==
    /\ Keys = {AuthKey(h) : h \in LoginIds} \cup {XsrfKey(h) : h \in LoginIds}
    /\ Data = Tokens \cup {Authd}
    /\ Authd \notin Tokens
    /\ Users \cap Strangers = {}
    /\ PasswordOf \in [Users -> Passwords]

VARIABLES
    lpc,        \* where each request is in LoginHandler.FilterRequest
    handler,    \* the login handler it goes to
    received,   \* the XSRF token of its form; None if there is not exactly one
    page,       \* the token in the login page it is answered with
    minted,     \* the tokens drawn so far
    known,      \* history: the tokens served to each client
    loggedIn    \* history: who has given a right password to which handler

loginVars == <<lpc, handler, received, page, minted, known, loggedIn>>
allVars   == <<vars, loginVars>>

LoginTypeOK ==
    /\ lpc \in [Requests -> {"none", "auth", "xsrf", "password", "grant", "page",
                             "down", "done"}]
    /\ handler \in [Requests -> LoginIds \cup {None}]
    /\ received \in [Requests -> Tokens \cup {None}]
    /\ page \in [Requests -> Tokens \cup {None}]
    /\ minted \in SUBSET Tokens
    /\ known \in [Clients -> SUBSET Tokens]
    /\ loggedIn \in SUBSET (Clients \X LoginIds)

LoginInit ==
    /\ Init
    /\ lpc = [r \in Requests |-> "none"]
    /\ handler = [r \in Requests |-> None]
    /\ received = [r \in Requests |-> None]
    /\ page = [r \in Requests |-> None]
    /\ minted = {}
    /\ known = [c \in Clients |-> {}]
    /\ loggedIn = {}

-----------------------------------------------------------------------------
\* The tokens a form can carry: any that was ever served, to whomever.
Served == UNION {known[c] : c \in Clients}

\* A request for what is behind login handler h arrives at the cookie mask.
Arrive(r, c, cookies, h, token) ==
    /\ GetSession(r, c, cookies)
    /\ lpc' = [lpc EXCEPT ![r] = "auth"]
    /\ handler' = [handler EXCEPT ![r] = h]
    /\ received' = [received EXCEPT ![r] = token]
    /\ page' = [page EXCEPT ![r] = None]
    /\ UNCHANGED <<minted, known, loggedIn>>

\* The cookie mask works on the request.
MaskStep(r) == Mask(r) /\ UNCHANGED loginVars

\* The login handler has control at label l and goes on to label m.
At(r, l) == phase[r] = "app" /\ lpc[r] = l
Goto(r, m) == lpc' = [lpc EXCEPT ![r] = m]

\* The flag is read.  A value other than true, which is never stored, would
\* be an internal server error.
CheckAuth(r) ==
    LET authd == GetValue(r, AuthKey(handler[r]))
    IN  /\ At(r, "auth")
        /\ \/ authd = Authd /\ Goto(r, "down")
           \/ authd = None /\ Goto(r, "xsrf")
           \/ authd \notin {Authd, None} /\ Goto(r, "done")
        /\ UNCHANGED <<vars, handler, received, page, minted, known, loggedIn>>

\* Variant for a mutation check: any token in the form will do.
CheckXsrfPresence(r) ==
    LET stored == GetValue(r, XsrfKey(handler[r]))
    IN  /\ At(r, "xsrf")
        /\ \/ stored # None /\ received[r] # None /\ Goto(r, "password")
           \/ (stored = None \/ received[r] = None) /\ Goto(r, "page")
        /\ UNCHANGED <<vars, handler, received, page, minted, known, loggedIn>>

\* The stored token is compared with the token of the form.
CheckXsrf(r) ==
    LET stored == GetValue(r, XsrfKey(handler[r]))
    IN  /\ At(r, "xsrf")
        /\ \/ stored # None /\ received[r] = stored /\ Goto(r, "password")
           \/ (stored = None \/ received[r] # stored) /\ Goto(r, "page")
        /\ UNCHANGED <<vars, handler, received, page, minted, known, loggedIn>>

\* The table of the password store.
PwdTable ==
    [u \in Users |-> Store!GetPbkdf2Hash(PasswordOf[u], Store!Pbkdf2MinIterations, Salt)]

\* The form has not exactly one user name and one password.
MissingField(r) ==
    /\ At(r, "password")
    /\ Goto(r, "page")
    /\ UNCHANGED <<vars, handler, received, page, minted, known, loggedIn>>

\* p is the password that the hash of user u was made from.
Right(u, p) == u \in Users /\ p = PasswordOf[u]

\* The password checker is asked.
CheckPassword(r) ==
    /\ At(r, "password")
    /\ \E u \in Users \cup Strangers, p \in Passwords :
          /\ \/ Store!CheckPassword(PwdTable, u, p) = "nil" /\ Goto(r, "grant")
             \/ Store!CheckPassword(PwdTable, u, p) # "nil" /\ Goto(r, "page")
          /\ loggedIn' = loggedIn \cup
                (IF Right(u, p) THEN {<<client[r], handler[r]>>} ELSE {})
    /\ UNCHANGED <<vars, handler, received, page, minted, known>>

\* Another password checker than this store may fail in a way of its own:
\* internal server error.
CheckerFails(r) ==
    /\ At(r, "password")
    /\ Goto(r, "done")
    /\ UNCHANGED <<vars, handler, received, page, minted, known, loggedIn>>

\* The flag is set, the request goes downstream.
Grant(r) ==
    /\ At(r, "grant")
    /\ SetValue(r, AuthKey(handler[r]), Authd)
    /\ Goto(r, "down")
    /\ UNCHANGED <<handler, received, page, minted, known, loggedIn>>

\* The downstream filter answers.
Downstream(r) ==
    /\ At(r, "down")
    /\ Goto(r, "done")
    /\ UNCHANGED <<vars, handler, received, page, minted, known, loggedIn>>

\* A new token is drawn, stored and put into the login page.  Tokens are 64
\* random bytes: none is drawn twice, and the finite pool Tokens bounds the
\* model.
ServePage(r) ==
    /\ At(r, "page")
    /\ \E t \in Tokens \ minted :
          /\ SetValue(r, XsrfKey(handler[r]), t)
          /\ minted' = minted \cup {t}
          /\ page' = [page EXCEPT ![r] = t]
    /\ Goto(r, "done")
    /\ UNCHANGED <<handler, received, known, loggedIn>>

\* Variant for a mutation check: an empty token is served.
TokenFailsServesEmpty(r) ==
    /\ At(r, "page")
    /\ Goto(r, "done")
    /\ minted' = minted \cup {None}
    /\ UNCHANGED <<vars, handler, received, page, known, loggedIn>>

\* The random number generator fails: internal server error.
TokenFails(r) ==
    /\ At(r, "page")
    /\ Goto(r, "done")
    /\ UNCHANGED <<vars, handler, received, page, minted, known, loggedIn>>

\* The response goes out through the cookie mask.
Answer(r) ==
    /\ lpc[r] = "done"
    /\ Respond(r)
    /\ known' = [known EXCEPT ![client[r]] = @ \cup ({page[r]} \ {None})]
    /\ Goto(r, "none")
    /\ handler' = [handler EXCEPT ![r] = None]
    /\ received' = [received EXCEPT ![r] = None]
    /\ page' = [page EXCEPT ![r] = None]
    /\ UNCHANGED <<minted, loggedIn>>

LoginStep(r) ==
    \/ CheckAuth(r) \/ CheckXsrf(r)
    \/ MissingField(r) \/ CheckPassword(r) \/ CheckerFails(r)
    \/ Grant(r) \/ Downstream(r)
    \/ ServePage(r) \/ TokenFails(r)
    \/ Answer(r)

LoginNext ==
    \E r \in Requests :
        \/ \E c \in Clients, h \in LoginIds, token \in Served \cup {None} :
              \E cookies \in CookieLists(c) : Arrive(r, c, cookies, h, token)
        \/ MaskStep(r)
        \/ LoginStep(r)

LoginSpec == LoginInit /\ [][LoginNext]_allVars

-----------------------------------------------------------------------------
\* GateHolds: a request is passed downstream only if its client has given
\* this very login handler a right password, now or before, however the
\* requests and sessions of other clients and handlers interleave
\* (login_handler.go:109-112, 185-200).
GateHolds ==
    \A r \in Requests : At(r, "down") => <<client[r], handler[r]>> \in loggedIn

\* A request with cookie ck would be passed downstream by login handler h.
LoggedIn(ck, h) == Matches(ck) /\ data[table[ck.name]][AuthKey(h)] = Authd

\* XsrfIsOwn: a form is accepted only with a token that was served to the
\* client that sends it, even if it carries a token of another client
\* (login_handler.go:144-153).
XsrfIsOwn ==
    \A r \in Requests : At(r, "password") \/ At(r, "grant") =>
        received[r] \in known[client[r]]

\* LoginLasts: a client that has logged in stays logged in, with the very
\* cookie it did so with, for as long as nobody makes CookieMask delete that
\* cookie: neither other requests that merge their sessions into it
\* (minsession.go:242-252) or are rejected next to it (minsession.go:267), nor
\* new tokens in the session (login_handler.go:220) take the flag away.  Two requests that draw one name at once and first requests
\* that race for the table do (minsession.go:124, 72-76).
LoginLasts ==
    [][\A ck \in Cookie, h \in LoginIds :
          LoggedIn(ck, h) =>
              \/ LoggedIn(ck, h)'
              \/ ck \in revoked'
              \/ ck.name \in clash \/ raced]_allVars
=============================================================================
