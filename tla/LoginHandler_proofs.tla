------------------------- MODULE LoginHandler_proofs -------------------------
(***************************************************************************)
(* Theorems about LoginHandler.  They build on those about MinSession,     *)
(* whose steps the login handlers take (UsesSessions): what is found in    *)
(* the session of a request was written by requests of its client.         *)
(***************************************************************************)
EXTENDS LoginHandler, MinSession_proofs

\* A request on its way through a login handler has one.
HandlerKnown == \A r \in Requests : lpc[r] # "none" => handler[r] \in LoginIds

LoginTypeInv == TypeInv /\ LoginTypeOK /\ HandlerKnown

\* A step of the login handlers is a step of the session store or none.
LEMMA LoginStepIsSessionStep ==
    ASSUME LoginTypeInv, [LoginNext]_allVars
    PROVE  [Next]_vars
<1>1. ASSUME NEW r \in Requests, NEW c \in Clients, NEW h \in LoginIds,
             NEW token \in Served \cup {None}, NEW cookies \in CookieLists(c),
             Arrive(r, c, cookies, h, token)
      PROVE  Next
    BY <1>1 DEF Arrive, Next
<1>2. ASSUME NEW r \in Requests, MaskStep(r) PROVE Next
    BY <1>2 DEF MaskStep, Next
<1>3. ASSUME NEW r \in Requests, Grant(r) PROVE Next
    <2>1. AuthKey(handler[r]) \in Keys /\ Authd \in Data
        BY <1>3, LoginAssumption
        DEF LoginAssumption, Grant, At, LoginTypeInv, HandlerKnown
    <2> QED
        BY <1>3, <2>1 DEF Grant, Next
<1>4. ASSUME NEW r \in Requests, ServePage(r) PROVE Next
    <2>1. XsrfKey(handler[r]) \in Keys /\ Tokens \subseteq Data
        BY <1>4, LoginAssumption
        DEF LoginAssumption, ServePage, At, LoginTypeInv, HandlerKnown
    <2> QED
        BY <1>4, <2>1 DEF ServePage, Next
<1>5. ASSUME NEW r \in Requests, Answer(r) PROVE Next
    BY <1>5 DEF Answer, Next
<1>6. ASSUME NEW r \in Requests, LoginStep(r), ~Grant(r), ~ServePage(r), ~Answer(r)
      PROVE  UNCHANGED vars
    BY <1>6 DEF LoginStep, CheckAuth, CheckXsrf, MissingField, CheckPassword,
                CheckerFails, Downstream, TokenFails
<1>7. ASSUME UNCHANGED allVars PROVE UNCHANGED vars
    BY <1>7 DEF allVars
<1> QED
    BY <1>1, <1>2, <1>3, <1>4, <1>5, <1>6, <1>7 DEF LoginNext

\* The initial state has the types.
LEMMA LoginTypeInit == LoginInit => LoginTypeInv
BY TypeInit DEF LoginInit, LoginTypeInv, LoginTypeOK, HandlerKnown

\* Every step keeps the types.
LEMMA LoginTypeStep == LoginTypeInv /\ [LoginNext]_allVars => LoginTypeInv'
<1> SUFFICES ASSUME LoginTypeInv, [LoginNext]_allVars PROVE LoginTypeInv'
    OBVIOUS
<1> DEFINE Typed == LoginTypeOK /\ HandlerKnown
<1>0. TypeInv'
    BY LoginStepIsSessionStep, TypeStep DEF LoginTypeInv
<1> USE DEF LoginTypeInv, LoginTypeOK, HandlerKnown
<1>1. ASSUME NEW r \in Requests, NEW c \in Clients, NEW h \in LoginIds,
             NEW token \in Served \cup {None}, NEW cookies \in CookieLists(c),
             Arrive(r, c, cookies, h, token)
      PROVE  Typed'
    <2>1. token \in Tokens \cup {None}
        BY DEF Served
    <2> QED
        BY <1>1, <2>1 DEF Arrive
<1>2. ASSUME NEW r \in Requests, MaskStep(r) PROVE Typed'
    BY <1>2 DEF MaskStep, loginVars
<1>3. ASSUME NEW r \in Requests, CheckAuth(r) \/ CheckXsrf(r) PROVE Typed'
    BY <1>3 DEF CheckAuth, CheckXsrf, At, Goto
<1>4. ASSUME NEW r \in Requests, MissingField(r) \/ CheckerFails(r) \/ TokenFails(r)
      PROVE  Typed'
    BY <1>4 DEF MissingField, CheckerFails, TokenFails, At, Goto
<1>5. ASSUME NEW r \in Requests, CheckPassword(r) PROVE Typed'
    <2>1. client[r] \in Clients /\ handler[r] \in LoginIds
        BY <1>5 DEF CheckPassword, At, TypeInv, RequestsHaveSessions
    <2> QED
        BY <1>5, <2>1 DEF CheckPassword, At, Goto
<1>6. ASSUME NEW r \in Requests, Grant(r) \/ Downstream(r) PROVE Typed'
    BY <1>6 DEF Grant, Downstream, At, Goto
<1>7. ASSUME NEW r \in Requests, ServePage(r) PROVE Typed'
    BY <1>7 DEF ServePage, At, Goto
<1>8. ASSUME NEW r \in Requests, Answer(r) PROVE Typed'
    BY <1>8 DEF Answer, Goto
<1>9. ASSUME UNCHANGED allVars PROVE Typed'
    BY <1>9 DEF allVars, loginVars
<1> QED
    BY <1>0, <1>1, <1>2, <1>3, <1>4, <1>5, <1>6, <1>7, <1>8, <1>9 DEF LoginNext, LoginStep

\* The types hold throughout.
LEMMA LoginTypeInvariant == LoginSpec => []LoginTypeInv
BY LoginTypeInit, LoginTypeStep, PTL DEF LoginSpec

\* LoginTypes: every variable of the login handlers keeps its type, for every
\* number of clients, requests and handlers.
THEOREM LoginTypes == LoginSpec => []LoginTypeOK
<1>1. LoginTypeInv => LoginTypeOK
    BY DEF LoginTypeInv
<1> QED
    BY <1>1, LoginTypeInvariant, PTL

\* Whatever the login handlers do with the sessions, the session store allows.
LEMMA UsesSessions == LoginSpec => Spec
<1>1. LoginInit => Init
    BY DEF LoginInit
<1>2. LoginTypeInv /\ [LoginNext]_allVars => [Next]_vars
    BY LoginStepIsSessionStep
<1> QED
    BY <1>1, <1>2, LoginTypeInvariant, PTL DEF LoginSpec, Spec

\* So what is true of the sessions in general is true of them here.
LEMMA LoginIsolation == LoginSpec => []IsolationInv
BY UsesSessions, IsolationInvariant, PTL

-----------------------------------------------------------------------------
(***************************************************************************)
(* The gate.  Only a request whose client has given a right password gets  *)
(* to set the flag (Granting), so whoever has a flag written has given one *)
(* (FlagMeansLogin); and the flag a request finds was written by its own   *)
(* client, which is isolation.                                             *)
(***************************************************************************)
\* A request that the mask works on has not entered the login handler yet.
MaskedFirst ==
    \A r \in Requests : phase[r] \in {"make", "mask", "store"} => lpc[r] = "auth"

\* A request about to set the flag, or past it, is of a client logged in.
Granting ==
    \A r \in Requests : lpc[r] \in {"grant", "down"} =>
        <<client[r], handler[r]>> \in loggedIn

\* Whose requests set the flag has logged in.
FlagMeansLogin ==
    \A c \in Clients, h \in LoginIds :
        <<c, AuthKey(h), Authd>> \in written => <<c, h>> \in loggedIn

GateInv == MaskedFirst /\ Granting /\ FlagMeansLogin

\* What a request finds in its session was written for its client.
LEMMA FoundIsOwn ==
    ASSUME IsolationInv, NEW r \in Requests, phase[r] = "app",
           NEW key \in Keys, GetValue(r, key) # None
    PROVE  client[r] \in Clients /\ <<client[r], key, GetValue(r, key)>> \in written
BY DEF IsolationInv, TypeInv, RequestsHaveSessions, RequestsOwn, DataIsOwn, GetValue

\* Neither the mask nor an arriving request moves another request about.
LEMMA MaskMoves ==
    ASSUME LoginTypeInv, NEW r \in Requests, Mask(r)
    PROVE  /\ phase[r] \in {"make", "mask", "store"}
           /\ \A q \in Requests : phase'[q] \in {"make", "mask", "store"} =>
                 phase[q] \in {"make", "mask", "store"}
           /\ UNCHANGED <<client, written>>
BY DEF LoginTypeInv, TypeInv, TypeOK, Mask, MakeTable, MaskValid, MaskInvalid,
       MaskForward, DrawCookie, StoreCookie, GenCookieFails, KeepCookie, historyVars

\* The password store accepts nothing but the password the hash was made from
\* (inmempwdstore.go:159-185).
LEMMA OnlyRightPasses ==
    ASSUME NEW u \in Users \cup Strangers, NEW p \in Passwords,
           Store!CheckPassword(PwdTable, u, p) = "nil"
    PROVE  Right(u, p)
<1>1. u \in Users /\ Store!Check(PwdTable[u], p) = "nil"
    BY DEF Store!CheckPassword, PwdTable
<1>2. PwdTable[u] = Store!GetPbkdf2Hash(PasswordOf[u], Store!Pbkdf2MinIterations, Salt)
    BY <1>1 DEF PwdTable
<1>3. p = PasswordOf[u]
    BY <1>1, <1>2 DEF Store!Check, Store!Key, Store!GetPbkdf2Hash
<1> QED
    BY <1>1, <1>3 DEF Right

\* Every step keeps the gate invariant.
LEMMA GateStep ==
    ASSUME LoginTypeInv, IsolationInv, GateInv, [LoginNext]_allVars
    PROVE  GateInv'
<1> USE DEF GateInv, MaskedFirst, Granting, FlagMeansLogin, LoginTypeInv, LoginTypeOK
<1>1. ASSUME NEW r \in Requests, NEW c \in Clients, NEW h \in LoginIds,
             NEW token \in Served \cup {None}, NEW cookies \in CookieLists(c),
             Arrive(r, c, cookies, h, token)
      PROVE  GateInv'
    BY <1>1 DEF Arrive, GetSession, TypeInv, TypeOK
<1>2. ASSUME NEW r \in Requests, MaskStep(r) PROVE GateInv'
    BY <1>2, MaskMoves DEF MaskStep, loginVars
<1>3. ASSUME NEW r \in Requests, CheckAuth(r) PROVE GateInv'
    <2>1. UNCHANGED <<vars, handler, loggedIn>>
        BY <1>3 DEF CheckAuth
    <2>2. UNCHANGED <<phase, client, written>>
        BY <2>1 DEF vars, requestVars, historyVars
    <2>3. phase[r] = "app" /\ lpc[r] = "auth"
        BY <1>3 DEF CheckAuth, At
    <2>4. lpc'[r] = "down" => <<client[r], handler[r]>> \in loggedIn
        <3> SUFFICES ASSUME lpc'[r] = "down" PROVE <<client[r], handler[r]>> \in loggedIn
            OBVIOUS
        <3>1. GetValue(r, AuthKey(handler[r])) = Authd
            BY <1>3 DEF CheckAuth, Goto
        <3>2. handler[r] \in LoginIds /\ AuthKey(handler[r]) \in Keys /\ Authd # None
            BY <2>3, LoginAssumption, MinSessionAssumption
            DEF LoginAssumption, MinSessionAssumption, HandlerKnown
        <3>3. client[r] \in Clients /\ <<client[r], AuthKey(handler[r]), Authd>> \in written
            BY <2>3, <3>1, <3>2, FoundIsOwn
        <3> QED
            BY <3>2, <3>3
    <2>5. lpc'[r] \in {"down", "xsrf", "done"} /\ \A q \in Requests \ {r} : lpc'[q] = lpc[q]
        BY <1>3 DEF CheckAuth, Goto
    <2> QED
        BY <2>1, <2>2, <2>3, <2>4, <2>5
<1>4. ASSUME NEW r \in Requests,
             CheckXsrf(r) \/ MissingField(r) \/ CheckerFails(r) \/ Downstream(r) \/ TokenFails(r)
      PROVE  GateInv'
    <2>1. UNCHANGED <<phase, client, written, handler, loggedIn>>
        BY <1>4 DEF CheckXsrf, MissingField, CheckerFails, Downstream, TokenFails,
                    vars, requestVars, historyVars
    <2>2. /\ phase[r] = "app"
          /\ lpc'[r] \in {"password", "page", "done"}
          /\ \A q \in Requests \ {r} : lpc'[q] = lpc[q]
        BY <1>4 DEF CheckXsrf, MissingField, CheckerFails, Downstream, TokenFails, At, Goto
    <2> QED
        BY <2>1, <2>2
<1>5. ASSUME NEW r \in Requests, CheckPassword(r) PROVE GateInv'
    <2>1. UNCHANGED <<phase, client, written, handler>>
        BY <1>5 DEF CheckPassword, vars, requestVars, historyVars
    <2>2. PICK u \in Users \cup Strangers, p \in Passwords :
              /\ \/ Store!CheckPassword(PwdTable, u, p) = "nil" /\ Goto(r, "grant")
                 \/ Store!CheckPassword(PwdTable, u, p) # "nil" /\ Goto(r, "page")
              /\ loggedIn' = loggedIn \cup
                    (IF Right(u, p) THEN {<<client[r], handler[r]>>} ELSE {})
        BY <1>5 DEF CheckPassword
    <2>3. /\ phase[r] = "app"
          /\ \A q \in Requests \ {r} : lpc'[q] = lpc[q]
          /\ loggedIn \subseteq loggedIn'
        BY <1>5, <2>2 DEF CheckPassword, At, Goto
    <2>4. ASSUME lpc'[r] \in {"grant", "down"}
          PROVE  <<client[r], handler[r]>> \in loggedIn'
        <3>1. Store!CheckPassword(PwdTable, u, p) = "nil"
            BY <2>2, <2>4 DEF Goto
        <3> QED
            BY <2>2, <3>1, OnlyRightPasses
    <2> QED
        BY <2>1, <2>3, <2>4
<1>6. ASSUME NEW r \in Requests, Grant(r) PROVE GateInv'
    <2>1. /\ UNCHANGED <<phase, client, handler, loggedIn>>
          /\ written' = written \cup {<<client[r], AuthKey(handler[r]), Authd>>}
        BY <1>6 DEF Grant, SetValue, requestVars
    <2>2. /\ phase[r] = "app" /\ lpc[r] = "grant" /\ lpc'[r] = "down"
          /\ \A q \in Requests \ {r} : lpc'[q] = lpc[q]
        BY <1>6 DEF Grant, At, Goto
    <2>3. \A g, h : AuthKey(g) = AuthKey(h) => g = h
        BY DEF AuthKey
    <2> QED
        BY <2>1, <2>2, <2>3
<1>7. ASSUME NEW r \in Requests, ServePage(r) PROVE GateInv'
    <2>1. PICK t \in Tokens : written' = written \cup {<<client[r], XsrfKey(handler[r]), t>>}
        BY <1>7 DEF ServePage, SetValue
    <2>2. UNCHANGED <<phase, client, handler, loggedIn>>
        BY <1>7 DEF ServePage, SetValue, requestVars
    <2>3. /\ phase[r] = "app" /\ lpc'[r] = "done"
          /\ \A q \in Requests \ {r} : lpc'[q] = lpc[q]
        BY <1>7 DEF ServePage, At, Goto
    <2>4. t # Authd
        BY LoginAssumption DEF LoginAssumption
    <2> QED
        BY <2>1, <2>2, <2>3, <2>4
<1>8. ASSUME NEW r \in Requests, Answer(r) PROVE GateInv'
    BY <1>8 DEF Answer, Goto, Respond, TypeInv, TypeOK, historyVars
<1>9. ASSUME UNCHANGED allVars PROVE GateInv'
    BY <1>9 DEF allVars, loginVars, vars, requestVars, historyVars
<1> QED
    BY <1>1, <1>2, <1>3, <1>4, <1>5, <1>6, <1>7, <1>8, <1>9 DEF LoginNext, LoginStep

\* Gate: nothing is passed downstream (login_handler.go:112, 200) for a client
\* that has not given the handler a right password, for every number of
\* clients, concurrent requests and handlers.
THEOREM Gate == LoginSpec => []GateHolds
<1>1. LoginInit => GateInv
    BY DEF LoginInit, Init, GateInv, MaskedFirst, Granting, FlagMeansLogin
<1>2. LoginTypeInv /\ IsolationInv /\ GateInv /\ [LoginNext]_allVars => GateInv'
    BY GateStep
<1>3. GateInv => GateHolds
    BY DEF GateInv, Granting, GateHolds, At
<1> QED
    BY <1>1, <1>2, <1>3, LoginTypeInvariant, LoginIsolation, PTL DEF LoginSpec

-----------------------------------------------------------------------------
(***************************************************************************)
(* The XSRF token.  A token was drawn for one client (OneMinter), is known *)
(* only after it was written for the client that knows it, and the stored  *)
(* token it is compared with was written for the client of the request:    *)
(* so if they agree, the client is the one the token was served to.        *)
(***************************************************************************)
\* Tokens in sessions were drawn.
WrittenIsMinted ==
    \A c \in Clients, key \in Keys, t \in Tokens :
        <<c, key, t>> \in written => t \in minted

\* No token is written for two clients.
OneMinter ==
    \A c, d \in Clients, key, key2 \in Keys, t \in Tokens :
        (<<c, key, t>> \in written /\ <<d, key2, t>> \in written) => c = d

\* The token of a page to be served was written for the client it goes to.
PageIsWritten ==
    \A r \in Requests : page[r] # None =>
        \E key \in Keys : <<client[r], key, page[r]>> \in written

\* So was every token that was served.
KnownIsWritten ==
    \A c \in Clients : \A t \in known[c] :
        \E key \in Keys : <<c, key, t>> \in written

\* A form carries a token that was served to somebody.
ReceivedIsServed == \A r \in Requests : received[r] # None => received[r] \in Served

\* An accepted form carries a token served to its client.
AcceptedIsKnown ==
    \A r \in Requests : lpc[r] \in {"password", "grant"} =>
        received[r] \in known[client[r]]

XsrfInv ==
    /\ WrittenIsMinted /\ OneMinter
    /\ PageIsWritten /\ KnownIsWritten
    /\ ReceivedIsServed /\ AcceptedIsKnown

\* What steps that write no value and serve no page have in common.
LEMMA XsrfUnchanged ==
    ASSUME LoginTypeInv, XsrfInv, NEW r \in Requests,
           UNCHANGED <<client, written, minted, known, page, received>>,
           \A q \in Requests \ {r} : lpc'[q] = lpc[q],
           lpc'[r] \in {"password", "grant"} => received[r] \in known[client[r]]
    PROVE  XsrfInv'
<1>1. WrittenIsMinted' /\ OneMinter'
    BY DEF XsrfInv, WrittenIsMinted, OneMinter
<1>2. PageIsWritten' /\ KnownIsWritten'
    BY DEF XsrfInv, PageIsWritten, KnownIsWritten
<1>3. ReceivedIsServed'
    BY DEF XsrfInv, ReceivedIsServed, Served
<1>4. AcceptedIsKnown'
    BY DEF XsrfInv, AcceptedIsKnown
<1> QED
    BY <1>1, <1>2, <1>3, <1>4 DEF XsrfInv

\* Every step keeps the token invariant.
LEMMA XsrfStep ==
    ASSUME LoginTypeInv, IsolationInv, XsrfInv, [LoginNext]_allVars
    PROVE  XsrfInv'
<1>1. ASSUME NEW r \in Requests, NEW c \in Clients, NEW h \in LoginIds,
             NEW token \in Served \cup {None}, NEW cookies \in CookieLists(c),
             Arrive(r, c, cookies, h, token)
      PROVE  XsrfInv'
    <2>1. UNCHANGED <<written, minted, known>> /\ client' = [client EXCEPT ![r] = c]
        BY <1>1 DEF Arrive, GetSession
    <2>2. /\ lpc' = [lpc EXCEPT ![r] = "auth"]
          /\ received' = [received EXCEPT ![r] = token]
          /\ page' = [page EXCEPT ![r] = None]
        BY <1>1 DEF Arrive
    <2>3. Served' = Served
        BY <2>1 DEF Served
    <2> USE DEF LoginTypeInv, LoginTypeOK, TypeInv, TypeOK, XsrfInv
    <2>4. PageIsWritten' /\ AcceptedIsKnown'
        BY <2>1, <2>2 DEF PageIsWritten, AcceptedIsKnown
    <2>5. ReceivedIsServed'
        BY <2>2, <2>3 DEF ReceivedIsServed
    <2> QED
        BY <2>1, <2>4, <2>5 DEF WrittenIsMinted, OneMinter, KnownIsWritten
<1>2. ASSUME NEW r \in Requests, MaskStep(r) PROVE XsrfInv'
    <2>1. UNCHANGED <<client, written, minted, known, page, received, lpc>>
        BY <1>2, MaskMoves DEF MaskStep, loginVars
    <2> QED
        BY <2>1, XsrfUnchanged DEF XsrfInv, AcceptedIsKnown
<1>3. ASSUME NEW r \in Requests, CheckXsrf(r) PROVE XsrfInv'
    <2>1. UNCHANGED <<client, written, minted, known, page, received>>
        BY <1>3 DEF CheckXsrf, vars, requestVars, historyVars
    <2>2. \A q \in Requests \ {r} : lpc'[q] = lpc[q]
        BY <1>3 DEF CheckXsrf, Goto, LoginTypeInv, LoginTypeOK
    <2>3. ASSUME lpc'[r] \in {"password", "grant"} PROVE received[r] \in known[client[r]]
        <3> DEFINE t == received[r]
        <3>1. phase[r] = "app" /\ handler[r] \in LoginIds
            BY <1>3 DEF CheckXsrf, At, LoginTypeInv, HandlerKnown
        <3>2. t # None /\ GetValue(r, XsrfKey(handler[r])) = t
            BY <1>3, <2>3 DEF CheckXsrf, Goto, At, LoginTypeInv, LoginTypeOK
        <3>3. XsrfKey(handler[r]) \in Keys
            BY <3>1, LoginAssumption DEF LoginAssumption
        <3>4. client[r] \in Clients /\ <<client[r], XsrfKey(handler[r]), t>> \in written
            BY <3>1, <3>2, <3>3, FoundIsOwn
        <3>5. PICK d \in Clients : t \in known[d]
            BY <3>2 DEF XsrfInv, ReceivedIsServed, Served
        <3>6. PICK key \in Keys : <<d, key, t>> \in written
            BY <3>5 DEF XsrfInv, KnownIsWritten
        <3>7. t \in Tokens
            BY <3>2 DEF LoginTypeInv, LoginTypeOK
        <3>8. d = client[r]
            BY <3>3, <3>4, <3>6, <3>7 DEF XsrfInv, OneMinter
        <3> QED
            BY <3>5, <3>8
    <2> QED
        BY <2>1, <2>2, <2>3, XsrfUnchanged
<1>4. ASSUME NEW r \in Requests,
             CheckAuth(r) \/ MissingField(r) \/ CheckerFails(r) \/ Downstream(r) \/ TokenFails(r)
      PROVE  XsrfInv'
    <2>1. UNCHANGED <<client, written, minted, known, page, received>>
        BY <1>4 DEF CheckAuth, MissingField, CheckerFails, Downstream, TokenFails,
                    vars, requestVars, historyVars
    <2>2. /\ lpc'[r] \notin {"password", "grant"}
          /\ \A q \in Requests \ {r} : lpc'[q] = lpc[q]
        BY <1>4 DEF CheckAuth, MissingField, CheckerFails, Downstream, TokenFails, At, Goto,
                    LoginTypeInv, LoginTypeOK
    <2> QED
        BY <2>1, <2>2, XsrfUnchanged
<1>5. ASSUME NEW r \in Requests, CheckPassword(r) PROVE XsrfInv'
    <2>1. UNCHANGED <<client, written, minted, known, page, received>>
        BY <1>5 DEF CheckPassword, vars, requestVars, historyVars
    <2>2. lpc[r] = "password" /\ \A q \in Requests \ {r} : lpc'[q] = lpc[q]
        BY <1>5 DEF CheckPassword, At, Goto, LoginTypeInv, LoginTypeOK
    <2> QED
        BY <2>1, <2>2, XsrfUnchanged DEF XsrfInv, AcceptedIsKnown
<1>6. ASSUME NEW r \in Requests, Grant(r) PROVE XsrfInv'
    <2>1. /\ UNCHANGED <<client, minted, known, page, received>>
          /\ written' = written \cup {<<client[r], AuthKey(handler[r]), Authd>>}
        BY <1>6 DEF Grant, SetValue, requestVars
    <2>2. lpc'[r] = "down" /\ \A q \in Requests \ {r} : lpc'[q] = lpc[q]
        BY <1>6 DEF Grant, Goto, LoginTypeInv, LoginTypeOK
    <2>3. Authd \notin Tokens /\ Served' = Served
        BY <2>1, LoginAssumption DEF LoginAssumption, Served
    <2>4. WrittenIsMinted' /\ OneMinter'
        BY <2>1, <2>3 DEF XsrfInv, WrittenIsMinted, OneMinter
    <2>5. PageIsWritten' /\ KnownIsWritten'
        BY <2>1 DEF XsrfInv, PageIsWritten, KnownIsWritten
    <2>6. ReceivedIsServed' /\ AcceptedIsKnown'
        BY <2>1, <2>2, <2>3 DEF XsrfInv, ReceivedIsServed, AcceptedIsKnown
    <2> QED
        BY <2>4, <2>5, <2>6 DEF XsrfInv
<1>7. ASSUME NEW r \in Requests, ServePage(r) PROVE XsrfInv'
    <2>1. PICK t \in Tokens \ minted :
              /\ SetValue(r, XsrfKey(handler[r]), t)
              /\ minted' = minted \cup {t}
              /\ page' = [page EXCEPT ![r] = t]
        BY <1>7 DEF ServePage
    <2>2. /\ UNCHANGED <<client, known, received>>
          /\ written' = written \cup {<<client[r], XsrfKey(handler[r]), t>>}
        BY <1>7, <2>1 DEF ServePage, SetValue, requestVars
    <2>3. lpc'[r] = "done" /\ \A q \in Requests \ {r} : lpc'[q] = lpc[q]
        BY <1>7 DEF ServePage, Goto, LoginTypeInv, LoginTypeOK
    <2>4. XsrfKey(handler[r]) \in Keys
        BY <1>7, LoginAssumption
        DEF LoginAssumption, ServePage, At, LoginTypeInv, HandlerKnown
    <2>5. WrittenIsMinted' /\ OneMinter'
        BY <2>1, <2>2 DEF XsrfInv, WrittenIsMinted, OneMinter
    <2>6. PageIsWritten' /\ KnownIsWritten'
        BY <2>1, <2>2, <2>4
        DEF XsrfInv, PageIsWritten, KnownIsWritten, LoginTypeInv, LoginTypeOK
    <2>7. ReceivedIsServed' /\ AcceptedIsKnown'
        BY <2>2, <2>3 DEF XsrfInv, ReceivedIsServed, AcceptedIsKnown, Served
    <2> QED
        BY <2>5, <2>6, <2>7 DEF XsrfInv
<1>8. ASSUME NEW r \in Requests, Answer(r) PROVE XsrfInv'
    <2>1. /\ UNCHANGED <<written, minted>>
          /\ known' = [known EXCEPT ![client[r]] = @ \cup ({page[r]} \ {None})]
          /\ client' = [client EXCEPT ![r] = None]
          /\ page' = [page EXCEPT ![r] = None]
          /\ received' = [received EXCEPT ![r] = None]
          /\ lpc' = [lpc EXCEPT ![r] = "none"]
        BY <1>8 DEF Answer, Goto, Respond, historyVars
    <2>2. client[r] \in Clients
        BY <1>8 DEF Answer, Respond, LoginTypeInv, TypeInv, RequestsHaveSessions
    <2> USE DEF LoginTypeInv, LoginTypeOK, TypeInv, TypeOK
    <2>3. \A c \in Clients : known[c] \subseteq known'[c]
        BY <2>1, <2>2
    <2>4. \A c \in Clients : \A t \in known'[c] :
              t \in known[c] \/ (c = client[r] /\ t = page[r] /\ page[r] # None)
        BY <2>1, <2>2
    <2>5. KnownIsWritten'
        BY <2>1, <2>4 DEF XsrfInv, KnownIsWritten, PageIsWritten
    <2>6. \A q \in Requests \ {r} :
              /\ client'[q] = client[q] /\ page'[q] = page[q]
              /\ received'[q] = received[q] /\ lpc'[q] = lpc[q]
        BY <2>1
    <2>7. client'[r] = None /\ page'[r] = None /\ received'[r] = None /\ lpc'[r] = "none"
        BY <2>1
    <2>8. PageIsWritten'
        BY <2>1, <2>6, <2>7 DEF XsrfInv, PageIsWritten
    <2>9. ReceivedIsServed'
        <3>1. Served \subseteq Served'
            BY <2>3 DEF Served
        <3> QED
            BY <2>6, <2>7, <3>1 DEF XsrfInv, ReceivedIsServed
    <2>10. AcceptedIsKnown'
        <3> SUFFICES ASSUME NEW q \in Requests, lpc'[q] \in {"password", "grant"}
                     PROVE  received'[q] \in known'[client'[q]]
            BY DEF AcceptedIsKnown
        <3>1. q # r /\ received[q] \in known[client[q]]
            BY <2>6, <2>7 DEF XsrfInv, AcceptedIsKnown
        <3>2. CASE client[q] \in Clients
            BY <2>3, <2>6, <3>1, <3>2
        <3>3. CASE client[q] \notin Clients
            BY <2>1, <2>2, <2>6, <3>1, <3>3
        <3> QED
            BY <3>2, <3>3
    <2> QED
        BY <2>1, <2>5, <2>8, <2>9, <2>10 DEF XsrfInv, WrittenIsMinted, OneMinter
<1>9. ASSUME UNCHANGED allVars PROVE XsrfInv'
    BY <1>9 DEF allVars, loginVars, vars, requestVars, historyVars, XsrfInv, WrittenIsMinted,
                OneMinter, PageIsWritten, KnownIsWritten, ReceivedIsServed, AcceptedIsKnown, Served
<1> QED
    BY <1>1, <1>2, <1>3, <1>4, <1>5, <1>6, <1>7, <1>8, <1>9 DEF LoginNext, LoginStep

\* Xsrf: a login form is only accepted (login_handler.go:148-153) with a token
\* that was served to the very client that sends it.
THEOREM Xsrf == LoginSpec => []XsrfIsOwn
<1>1. LoginInit => XsrfInv
    BY DEF LoginInit, Init, XsrfInv, WrittenIsMinted, OneMinter, PageIsWritten,
           KnownIsWritten, ReceivedIsServed, AcceptedIsKnown
<1>2. LoginTypeInv /\ IsolationInv /\ XsrfInv /\ [LoginNext]_allVars => XsrfInv'
    BY XsrfStep
<1>3. XsrfInv => XsrfIsOwn
    BY DEF XsrfInv, AcceptedIsKnown, XsrfIsOwn, At
<1> QED
    BY <1>1, <1>2, <1>3, LoginTypeInvariant, LoginIsolation, PTL DEF LoginSpec

-----------------------------------------------------------------------------
(***************************************************************************)
(* Staying logged in.  A cookie that is good before a step, not revoked by *)
(* it and in no race leads to the same core after it (StaysGood), and no   *)
(* step writes anything but the flag where the flag is (FlagsAreTrue).     *)
(***************************************************************************)
\* Under the key of a flag there is the flag or nothing.
FlagsAreTrue ==
    \A k \in Cores, h \in LoginIds : data[k][AuthKey(h)] \in {Authd, None}

LEMMA KeysDiffer ==
    /\ \A h \in LoginIds : AuthKey(h) \in Keys /\ XsrfKey(h) \in Keys
    /\ \A g, h : AuthKey(g) # XsrfKey(h)
BY LoginAssumption DEF LoginAssumption, AuthKey, XsrfKey

\* A step of the mask only moves what sessions hold under each key.
LEMMA MaskKeepsFlags ==
    ASSUME TypeInv, FlagsAreTrue, NEW r \in Requests, Mask(r)
    PROVE  FlagsAreTrue'
<1> USE DEF TypeInv, TypeOK, FlagsAreTrue
<1>1. CASE MaskValid(r)
    <2> DEFINE k == table[Head(todo[r]).name]
    <2>1. k \in Cores /\ data' = [data EXCEPT ![k] = Overlay(data[sesh[r]], data[k])]
        BY <1>1 DEF MaskValid, Matches
    <2>2. sesh[r] \in Cores
        BY <1>1 DEF MaskValid, RequestsHaveSessions
    <2> HIDE DEF k
    <2>3. \A h \in LoginIds : data'[k][AuthKey(h)] \in {Authd, None}
        BY <2>1, <2>2, KeysDiffer DEF Overlay
    <2>4. \A j \in Cores \ {k} : data'[j] = data[j]
        BY <2>1
    <2> QED
        BY <2>3, <2>4
<1>2. CASE UNCHANGED data
    BY <1>2
<1> QED
    BY <1>1, <1>2 DEF Mask, MakeTable, MaskInvalid, MaskForward, DrawCookie, StoreCookie,
                      GenCookieFails, KeepCookie, storeVars

\* Every step keeps the flags true.
LEMMA FlagsStep ==
    ASSUME LoginTypeInv, FlagsAreTrue, [LoginNext]_allVars
    PROVE  FlagsAreTrue'
<1> USE DEF LoginTypeInv, TypeInv, TypeOK
<1>1. ASSUME NEW r \in Requests, NEW c \in Clients, NEW h \in LoginIds,
             NEW token \in Served \cup {None}, NEW cookies \in CookieLists(c),
             Arrive(r, c, cookies, h, token)
      PROVE  FlagsAreTrue'
    <2>1. data' = [data EXCEPT ![NewCore] = EmptyData]
        BY <1>1 DEF Arrive, GetSession
    <2>2. \A h2 \in LoginIds : EmptyData[AuthKey(h2)] = None
        BY KeysDiffer DEF EmptyData
    <2> QED
        BY <2>1, <2>2 DEF FlagsAreTrue
<1>2. ASSUME NEW r \in Requests, MaskStep(r) PROVE FlagsAreTrue'
    BY <1>2, MaskKeepsFlags DEF MaskStep
<1>3. ASSUME NEW r \in Requests, Grant(r) PROVE FlagsAreTrue'
    <2>1. data' = [data EXCEPT ![sesh[r]][AuthKey(handler[r])] = Authd]
        BY <1>3 DEF Grant, SetValue
    <2> QED
        BY <2>1, KeysDiffer DEF FlagsAreTrue
<1>4. ASSUME NEW r \in Requests, ServePage(r) PROVE FlagsAreTrue'
    <2>1. PICK t \in Tokens : data' = [data EXCEPT ![sesh[r]][XsrfKey(handler[r])] = t]
        BY <1>4 DEF ServePage, SetValue
    <2>2. \A k \in Cores, h \in LoginIds : data'[k][AuthKey(h)] = data[k][AuthKey(h)]
        BY <2>1, KeysDiffer
    <2> QED
        BY <2>2 DEF FlagsAreTrue
<1>5. CASE UNCHANGED data
    BY <1>5 DEF FlagsAreTrue
<1> QED
    BY <1>1, <1>2, <1>3, <1>4, <1>5
    DEF LoginNext, LoginStep, CheckAuth, CheckXsrf, MissingField, CheckPassword,
        CheckerFails, Downstream, TokenFails, Answer, Respond, allVars, vars, storeVars

\* A cookie that was good, is not revoked and is in no race stays good, for the
\* same core.
LEMMA StaysGood ==
    ASSUME TableInv, RaceInv, [Next]_vars, NEW ck \in Cookie, Matches(ck),
           ck \notin revoked', ck.name \notin clash, ~raced
    PROVE  Matches(ck)' /\ table'[ck.name] = table[ck.name]
<1>1. ck.name \in Names /\ table[ck.name] # None /\ ck.value = cvalue[table[ck.name]]
    BY DEF Matches
<1>2. ck = [name |-> ck.name, value |-> cvalue[table[ck.name]]]
    BY <1>1 DEF Cookie
<1>3. table'[ck.name] = table[ck.name] /\ cvalue'[table[ck.name]] = cvalue[table[ck.name]]
    BY <1>1, <1>2, StoredStays
<1> QED
    BY <1>3 DEF Matches

\* Lasts: who is logged in with a cookie stays logged in with it until it is
\* revoked or lost in a race, for any number of clients, concurrent requests
\* and handlers.
THEOREM Lasts == LoginSpec => LoginLasts
<1> DEFINE Stays ==
        \A ck \in Cookie, h \in LoginIds :
            LoggedIn(ck, h) =>
                \/ LoggedIn(ck, h)'
                \/ ck \in revoked'
                \/ ck.name \in clash \/ raced
<1>1. LoginInit => FlagsAreTrue
    BY KeysDiffer DEF LoginInit, Init, EmptyData, FlagsAreTrue
<1>2. LoginTypeInv /\ FlagsAreTrue /\ [LoginNext]_allVars => FlagsAreTrue'
    BY FlagsStep
<1>3. LoginSpec => [](TableInv /\ RaceInv)
    BY UsesSessions, RaceInvariant, PTL
<1>4. ASSUME LoginTypeInv, TableInv, RaceInv, FlagsAreTrue', [LoginNext]_allVars PROVE [Stays]_allVars
    <2> SUFFICES ASSUME NEW ck \in Cookie, NEW h \in LoginIds,
                        LoggedIn(ck, h), ck \notin revoked',
                        ck.name \notin clash, ~raced
                 PROVE  LoggedIn(ck, h)'
        OBVIOUS
    <2> DEFINE k == table[ck.name]
    <2>1. [Next]_vars
        BY <1>4, LoginStepIsSessionStep
    <2>2. Matches(ck) /\ ck.name \in Names /\ k \in Cores /\ k # None /\ data[k][AuthKey(h)] = Authd
        BY <1>4 DEF LoggedIn, Matches, TableInv, TypeInv, TypeOK
    <2>3. Matches(ck)' /\ table'[ck.name] = k
        BY <1>4, <2>1, <2>2, StaysGood
    <2>4. AuthKey(h) \in Keys /\ Authd # None
        BY KeysDiffer, LoginAssumption, MinSessionAssumption DEF LoginAssumption, MinSessionAssumption
    <2>5. data'[k][AuthKey(h)] # None
        BY <1>4, <2>1, <2>2, <2>4, StaysThere
    <2>6. data'[k][AuthKey(h)] = Authd
        BY <1>4, <2>2, <2>5 DEF FlagsAreTrue
    <2> QED
        BY <2>3, <2>6 DEF LoggedIn
<1> QED
    BY <1>1, <1>2, <1>3, <1>4, LoginTypeInvariant, PTL DEF LoginSpec, LoginLasts

=============================================================================
