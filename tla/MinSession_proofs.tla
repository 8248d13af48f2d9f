-------------------------- MODULE MinSession_proofs --------------------------
(***************************************************************************)
(* Theorems about MinSession.                                              *)
(***************************************************************************)
EXTENDS MinSession, SequenceTheorems, TLAPS

-----------------------------------------------------------------------------
(***************************************************************************)
(* Types.  TypeOK lets the session of a request be None, which is what it  *)
(* is between requests; that a request being served has one, and one that  *)
(* is about to store its session a cookie of its own, is the strengthening *)
(* under which the types are preserved.                                    *)
(***************************************************************************)
RequestsHaveSessions ==
    \A r \in Requests : phase[r] # "idle" =>
        client[r] \in Clients /\ sesh[r] \in Cores

\* A cookie nothing is stored under yet has a drawn value, and no other such
\* cookie has the same.
FreshIsDrawn ==
    \A r \in Requests : phase[r] = "store" =>
        /\ fresh[r] \in [name : Names, value : Values]
        /\ fresh[r].value \in drawn
        /\ \A q \in Requests \ {r} :
              phase[q] = "store" => fresh[q].value # fresh[r].value

TypeInv == TypeOK /\ RequestsHaveSessions /\ FreshIsDrawn

\* What a client can send is a sequence of cookies.
LEMMA CookieListsType ==
    ASSUME TypeOK, NEW c \in Clients, NEW cookies \in CookieLists(c)
    PROVE  cookies \in Seq(Cookie)
<1>1. Presentable(c) \subseteq Cookie
    BY DEF TypeOK, Presentable, Cookie
<1>2. PICK n \in 0..MaxCookies : cookies \in [1..n -> Presentable(c)]
    BY DEF CookieLists
<1>3. n \in Nat
    BY <1>2, MinSessionAssumption DEF MinSessionAssumption
<1>4. cookies \in [1..n -> Cookie]
    BY <1>1, <1>2
<1> QED
    BY <1>3, <1>4, SeqDef

\* The allocator hands out a core that nothing points to.
LEMMA NewCoreIsFree ==
    ASSUME Cores \ Live # {}
    PROVE  NewCore \in Cores /\ NewCore \notin Live
BY DEF NewCore

\* The initial state has the types.
LEMMA TypeInit == Init => TypeInv
<1> SUFFICES ASSUME Init PROVE TypeInv
    OBVIOUS
<1>1. <<>> \in Seq(Cookie)
    BY EmptySeq
<1> QED
    BY <1>1 DEF Init, TypeInv, TypeOK, RequestsHaveSessions, FreshIsDrawn, EmptyData

\* Every step keeps the types.
LEMMA TypeStep == TypeInv /\ [Next]_vars => TypeInv'
<1> SUFFICES ASSUME TypeInv, [Next]_vars PROVE TypeInv'
    OBVIOUS
<1> USE DEF TypeInv, TypeOK, RequestsHaveSessions, FreshIsDrawn
<1>1. ASSUME NEW r \in Requests, NEW c \in Clients,
             NEW cookies \in CookieLists(c), GetSession(r, c, cookies)
      PROVE  TypeInv'
    <2>1. cookies \in Seq(Cookie)
        BY CookieListsType
    <2>2. NewCore \in Cores
        BY <1>1, NewCoreIsFree DEF GetSession
    <2> QED
        BY <1>1, <2>1, <2>2 DEF GetSession, EmptyData
<1>2. ASSUME NEW r \in Requests, MaskValid(r)
      PROVE  TypeInv'
    <2>1. Tail(todo[r]) \in Seq(Cookie)
        BY <1>2, HeadTailProperties DEF MaskValid
    <2> DEFINE k == table[Head(todo[r]).name]
    <2>2. k \in Cores /\ sesh[r] \in Cores
        BY <1>2 DEF MaskValid, Matches
    <2>3. Overlay(data[sesh[r]], data[k]) \in [Keys -> Data \cup {None}]
        BY <2>2 DEF Overlay
    <2> QED
        BY <1>2, <2>1, <2>2, <2>3 DEF MaskValid, clientVars, historyVars, raceVars
<1>3. ASSUME NEW r \in Requests, MaskInvalid(r)
      PROVE  TypeInv'
    <2>1. Tail(todo[r]) \in Seq(Cookie) /\ Head(todo[r]).name \in Names
        BY <1>3, HeadTailProperties DEF MaskInvalid
    <2>2. revoked' \in SUBSET Cookie
        <3> DEFINE n == Head(todo[r]).name
        <3>1. CASE table[n] = None
            BY <1>3, <3>1 DEF MaskInvalid
        <3>2. CASE table[n] # None
            <4>1. [name |-> n, value |-> cvalue[table[n]]] \in Cookie
                BY <2>1, <3>2 DEF Cookie
            <4> QED
                BY <1>3, <3>2, <4>1 DEF MaskInvalid
        <3> QED
            BY <3>1, <3>2
    <2> QED
        BY <1>3, <2>1, <2>2 DEF MaskInvalid, clientVars, raceVars
<1>4. ASSUME NEW r \in Requests, MaskForward(r)
      PROVE  TypeInv'
    <2>1. Tail(todo[r]) \in Seq(Cookie)
        BY <1>4, HeadTailProperties DEF MaskForward
    <2> QED
        BY <1>4, <2>1 DEF MaskForward, storeVars, clientVars, historyVars, raceVars
<1>5. ASSUME NEW r \in Requests, DrawCookie(r)
      PROVE  TypeInv'
    <2>1. PICK ck \in GenCookie :
              /\ fresh' = [fresh EXCEPT ![r] = ck]
              /\ drawn' = drawn \cup {ck.value}
              /\ clash' = clash \cup {n \in {ck.name} : \E q \in Requests :
                                phase[q] = "store" /\ fresh[q].name = n}
        BY <1>5 DEF DrawCookie
    <2>2. /\ ck \in [name : Names, value : Values] /\ ck \in Cookie
          /\ ck.name \in Names /\ ck.value \in Values \ drawn
        BY <2>1 DEF GenCookie, Cookie
    <2>3. /\ phase[r] = "mask" /\ phase' = [phase EXCEPT ![r] = "store"]
          /\ UNCHANGED <<storeVars, client, todo, sesh, needed, setCookies, jar,
                          owner, revoked, written, raced>>
        BY <1>5 DEF DrawCookie
    <2>4. TypeOK'
        BY <2>1, <2>2, <2>3 DEF storeVars
    <2>5. FreshIsDrawn'
        BY <2>1, <2>2, <2>3
    <2>6. RequestsHaveSessions'
        BY <2>3
    <2> QED
        BY <2>4, <2>5, <2>6
<1>6. ASSUME NEW r \in Requests, StoreCookie(r)
      PROVE  TypeInv'
    <2>1. /\ phase[r] = "store" /\ sesh[r] \in Cores /\ fresh[r] \in Cookie
          /\ fresh[r].name \in Names /\ fresh[r].value \in Values
        BY <1>6 DEF StoreCookie, Cookie
    <2> QED
        BY <1>6, <2>1 DEF StoreCookie, clientVars, historyVars, raceVars
<1>7. ASSUME NEW r \in Requests, MakeTable(r)
      PROVE  TypeInv'
    BY <1>7 DEF MakeTable, clientVars, historyVars, raceVars
<1>8. ASSUME NEW r \in Requests, GenCookieFails(r) \/ KeepCookie(r)
      PROVE  TypeInv'
    BY <1>8 DEF GenCookieFails, KeepCookie, storeVars, clientVars, historyVars, raceVars
<1>9. ASSUME NEW r \in Requests, NEW key \in Keys, NEW value \in Data,
             SetValue(r, key, value)
      PROVE  TypeInv'
    <2>1. sesh[r] \in Cores /\ client[r] \in Clients
        BY <1>9 DEF SetValue
    <2>2. data' \in [Cores -> [Keys -> Data \cup {None}]]
        BY <1>9, <2>1 DEF SetValue
    <2> QED
        BY <1>9, <2>1, <2>2 DEF SetValue, requestVars, clientVars, raceVars
<1>10. ASSUME NEW r \in Requests, Respond(r)
      PROVE  TypeInv'
    BY <1>10 DEF Respond, storeVars, historyVars, raceVars
<1>11. ASSUME UNCHANGED vars
      PROVE  TypeInv'
    BY <1>11 DEF vars, storeVars, requestVars, clientVars, historyVars, raceVars
<1> QED
    BY <1>1, <1>2, <1>3, <1>4, <1>5, <1>6, <1>7, <1>8, <1>9, <1>10, <1>11 DEF Next, Mask

\* TypeCorrect: every variable keeps its type, for every number of clients,
\* of concurrent requests and of cookies in a request.
THEOREM TypeCorrect == Spec => []TypeOK
<1>1. Init => TypeInv
    BY TypeInit
<1>2. TypeInv /\ [Next]_vars => TypeInv'
    BY TypeStep
<1>3. TypeInv => TypeOK
    BY DEF TypeInv
<1> QED
    BY <1>1, <1>2, <1>3, PTL DEF Spec

-----------------------------------------------------------------------------
(***************************************************************************)
(* Isolation.  SessionIsolation speaks of the requests being served only.  *)
(* It becomes inductive by following the cookies: the value of a stored    *)
(* session is known to nobody but the client the session belongs to        *)
(* (OwnersKnow), which needs that whatever anybody knows was drawn before  *)
(* the values still to come (KnownIsDrawn), and that a value that is drawn *)
(* but not stored yet is known to nobody (FreshIsSecret).                  *)
(***************************************************************************)
\* A request being served works on a core of its own client.
RequestsOwn ==
    \A r \in Requests : phase[r] # "idle" => owner[sesh[r]] = client[r]

\* The cookies of client c: those it holds, has just sent, or is being sent.
InHand(c, ck) ==
    \/ ck \in jar[c]
    \/ \E r \in Requests : client[r] = c /\ ck \in setCookies[r]
    \/ \E r \in Requests : client[r] = c /\ \E i \in 1..Len(todo[r]) : ck = todo[r][i]

\* The drawn values are values, and stored sessions have one of them.
StoredIsDrawn == \A n \in Names : table[n] # None => cvalue[table[n]] \in drawn

\* What a client has in hand does not predict a value still to be drawn.
KnownIsDrawn ==
    \A c \in Clients, ck \in Cookie :
        (InHand(c, ck) /\ ck.value \in Values) => ck.value \in drawn

\* The value of a stored session is known to nobody but its owner.
OwnersKnow ==
    \A c \in Clients, ck \in Cookie, n \in Names :
        (InHand(c, ck) /\ table[n] # None /\ ck.value = cvalue[table[n]])
            => owner[table[n]] = c

\* Nobody has seen the value of a cookie nothing is stored under yet, and no
\* stored session has it.
FreshIsSecret ==
    \A r \in Requests : phase[r] = "store" =>
        /\ \A n \in Names : table[n] # None => cvalue[table[n]] # fresh[r].value
        /\ \A c \in Clients, ck \in Cookie : InHand(c, ck) => ck.value # fresh[r].value

\* What a core holds was written by requests of its owner.
DataIsOwn ==
    \A k \in Cores, key \in Keys :
        data[k][key] # None => <<owner[k], key, data[k][key]>> \in written

IsolationInv ==
    /\ TypeInv /\ RequestsOwn /\ StoredIsDrawn /\ KnownIsDrawn /\ OwnersKnow
    /\ FreshIsSecret /\ DataIsOwn

\* Working off a list of cookies puts no new cookie in anybody's hands.
LEMMA TailInHand ==
    ASSUME TypeInv, NEW r \in Requests, todo[r] # <<>>,
           todo' = [todo EXCEPT ![r] = Tail(@)],
           UNCHANGED <<jar, client, setCookies>>,
           NEW c \in Clients, NEW ck \in Cookie, InHand(c, ck)'
    PROVE  InHand(c, ck)
<1> USE DEF TypeInv, TypeOK
<1>1. CASE ck \in jar'[c] \/ \E q \in Requests : client'[q] = c /\ ck \in setCookies'[q]
    BY <1>1 DEF InHand
<1>2. ASSUME NEW q \in Requests, client'[q] = c,
             NEW i \in 1..Len(todo'[q]), ck = todo'[q][i]
      PROVE  InHand(c, ck)
    <2>1. CASE q # r
        BY <1>2, <2>1 DEF InHand
    <2>2. CASE q = r
        <3>1. /\ Len(todo[r]) \in Nat
              /\ Len(Tail(todo[r])) = Len(todo[r]) - 1
              /\ \A j \in 1..Len(Tail(todo[r])) : Tail(todo[r])[j] = todo[r][j+1]
            BY HeadTailProperties, LenProperties
        <3>2. i \in 1..(Len(todo[r]) - 1) /\ ck = todo[r][i+1]
            BY <1>2, <2>2, <3>1
        <3>3. i + 1 \in 1..Len(todo[r])
            BY <3>1, <3>2
        <3> QED
            BY <1>2, <2>2, <3>2, <3>3 DEF InHand
    <2> QED
        BY <2>1, <2>2
<1> QED
    BY <1>1, <1>2 DEF InHand

\* The cookie a request looks at is in its client's hands.
LEMMA HeadInHand ==
    ASSUME TypeInv, NEW r \in Requests, todo[r] # <<>>
    PROVE  Head(todo[r]) \in Cookie /\ InHand(client[r], Head(todo[r]))
<1>1. /\ Len(todo[r]) \in Nat \ {0}
      /\ Head(todo[r]) \in Cookie
    BY EmptySeq, HeadTailProperties DEF TypeInv, TypeOK
<1>2. Head(todo[r]) = todo[r][1] /\ 1 \in 1..Len(todo[r])
    BY <1>1
<1> QED
    BY <1>1, <1>2 DEF InHand

\* An arriving request gives its client nothing it could not send before.
LEMMA ArrivalInHand ==
    ASSUME TypeInv, NEW r \in Requests, NEW d \in Clients,
           NEW cookies \in CookieLists(d), GetSession(r, d, cookies),
           NEW c \in Clients, NEW ck \in Cookie, InHand(c, ck)',
           ck.value \in Values
    PROVE  InHand(c, ck)
<1> USE DEF TypeInv, TypeOK
<1>1. CASE ck \in jar'[c]
    BY <1>1 DEF InHand, GetSession
<1>2. ASSUME NEW q \in Requests, client'[q] = c, ck \in setCookies'[q]
      PROVE  InHand(c, ck)
    BY <1>2 DEF InHand, GetSession
<1>3. ASSUME NEW q \in Requests, client'[q] = c,
             NEW i \in 1..Len(todo'[q]), ck = todo'[q][i]
      PROVE  InHand(c, ck)
    <2>1. CASE q # r
        BY <1>3, <2>1 DEF InHand, GetSession
    <2>2. CASE q = r
        <3>1. d = c /\ todo'[q] = cookies
            BY <1>3, <2>2 DEF GetSession
        <3>2. PICK n \in 0..MaxCookies : cookies \in [1..n -> Presentable(c)]
            BY <3>1 DEF CookieLists
        <3>3. n \in Nat
            BY <3>2, MinSessionAssumption DEF MinSessionAssumption
        <3>4. cookies \in Seq(Presentable(c))
            <4> HIDE DEF TypeInv, TypeOK
            <4> QED
                BY <3>2, <3>3, SeqDef
        <3>5. ck \in Presentable(c)
            BY <1>3, <3>1, <3>4, ElementOfSeq
        <3>6. ck \in jar[c]
            BY <3>5, MinSessionAssumption DEF Presentable, MinSessionAssumption
        <3> QED
            BY <3>6 DEF InHand
    <2> QED
        BY <2>1, <2>2
<1> QED
    BY <1>1, <1>2, <1>3 DEF InHand

\* Every step keeps the isolation invariant.
LEMMA IsolationStep == IsolationInv /\ [Next]_vars => IsolationInv'
<1> SUFFICES ASSUME IsolationInv, [Next]_vars PROVE IsolationInv'
    OBVIOUS
<1>0. TypeInv /\ TypeInv'
    BY TypeStep DEF IsolationInv
<1> USE <1>0 DEF IsolationInv
<1>1. ASSUME NEW r \in Requests, NEW c \in Clients,
             NEW cookies \in CookieLists(c), GetSession(r, c, cookies)
      PROVE  IsolationInv'
    <2>1. NewCore \in Cores /\ NewCore \notin Live
        BY <1>1, NewCoreIsFree DEF GetSession
    <2>2. \A n \in Names : table[n] # NewCore
        BY <2>1 DEF Live
    <2>3. \A q \in Requests : sesh[q] # NewCore
        BY <2>1 DEF Live
    <2>4. \A n \in Names : table[n] # None =>
              /\ table[n] \in Cores
              /\ cvalue'[table[n]] = cvalue[table[n]]
              /\ owner'[table[n]] = owner[table[n]]
        BY <1>1, <2>1, <2>2 DEF GetSession, TypeInv, TypeOK
    <2>5. RequestsOwn'
        BY <1>1, <2>1, <2>3 DEF RequestsOwn, GetSession, TypeInv, TypeOK, RequestsHaveSessions
    <2>6. StoredIsDrawn'
        BY <1>1, <2>4 DEF StoredIsDrawn, GetSession
    <2>7. KnownIsDrawn'
        BY <1>1, ArrivalInHand DEF KnownIsDrawn, GetSession
    <2>8. OwnersKnow'
        <3>1. \A n \in Names : table[n] # None => cvalue[table[n]] \in Values
            BY DEF StoredIsDrawn, TypeInv, TypeOK
        <3>2. table' = table
            BY <1>1 DEF GetSession
        <3> QED
            BY <1>1, <2>4, <3>1, <3>2, ArrivalInHand DEF OwnersKnow
    <2>9. DataIsOwn'
        <3>1. \A k \in Cores \ {NewCore} : data'[k] = data[k] /\ owner'[k] = owner[k]
            BY <1>1 DEF GetSession, TypeInv, TypeOK
        <3>2. \A key \in Keys : data'[NewCore][key] = None
            BY <1>1, <2>1 DEF GetSession, EmptyData, TypeInv, TypeOK
        <3>3. written' = written
            BY <1>1 DEF GetSession
        <3> QED
            BY <3>1, <3>2, <3>3 DEF DataIsOwn
    <2>10. FreshIsSecret'
        <3>1. /\ UNCHANGED <<table, fresh>>
              /\ \A q \in Requests : phase'[q] = "store" => phase[q] = "store"
            BY <1>1 DEF GetSession, TypeInv, TypeOK
        <3>2. \A q \in Requests : phase[q] = "store" => fresh[q].value \in Values
            BY DEF TypeInv, FreshIsDrawn
        <3>3. \A d \in Clients, ck \in Cookie :
                  (InHand(d, ck)' /\ ck.value \in Values) => InHand(d, ck)
            BY <1>1, ArrivalInHand
        <3> QED
            BY <2>4, <3>1, <3>2, <3>3 DEF FreshIsSecret
    <2> QED
        BY <2>5, <2>6, <2>7, <2>8, <2>9, <2>10
<1>2. ASSUME NEW r \in Requests, MaskValid(r)
      PROVE  IsolationInv'
    <2> DEFINE k == table[Head(todo[r]).name]
    <2>1. /\ Head(todo[r]) \in Cookie /\ Head(todo[r]).name \in Names
          /\ k \in Cores /\ Head(todo[r]).value = cvalue[k] /\ k # None
        BY <1>2, HeadInHand DEF MaskValid, Matches, TypeInv, TypeOK
    <2>2. client[r] \in Clients /\ sesh[r] \in Cores /\ owner[sesh[r]] = client[r]
        BY <1>2 DEF MaskValid, RequestsOwn, TypeInv, RequestsHaveSessions
    <2>3. owner[k] = client[r]
        <3>1. InHand(client[r], Head(todo[r]))
            BY <1>2, HeadInHand DEF MaskValid
        <3> QED
            BY <2>1, <2>2, <3>1 DEF OwnersKnow
    <2>4. UNCHANGED <<table, cvalue, client, owner, drawn, written, jar, setCookies, phase, fresh>>
        BY <1>2 DEF MaskValid, clientVars, historyVars
    <2>5. \A c \in Clients, ck \in Cookie : InHand(c, ck)' => InHand(c, ck)
        BY <1>2, <2>4, TailInHand DEF MaskValid
    <2>6. RequestsOwn'
        BY <1>2, <2>3, <2>4 DEF MaskValid, RequestsOwn, TypeInv, TypeOK
    <2>7. StoredIsDrawn' /\ KnownIsDrawn' /\ OwnersKnow' /\ FreshIsSecret'
        BY <2>4, <2>5 DEF StoredIsDrawn, KnownIsDrawn, OwnersKnow, FreshIsSecret
    <2>8. DataIsOwn'
        <3>1. data' = [data EXCEPT ![k] = Overlay(data[sesh[r]], data[k])]
            BY <1>2 DEF MaskValid
        <3>2. \A j \in Cores \ {k} : data'[j] = data[j]
            BY <3>1 DEF TypeInv, TypeOK
        <3>3. \A key \in Keys : data'[k][key] \in {data[sesh[r]][key], data[k][key]}
            BY <2>1, <3>1 DEF Overlay, TypeInv, TypeOK
        <3> SUFFICES ASSUME NEW j \in Cores, NEW key \in Keys, data'[j][key] # None
                     PROVE  <<owner[j], key, data'[j][key]>> \in written
            BY <2>4 DEF DataIsOwn
        <3>4. CASE j # k
            BY <3>2, <3>4 DEF DataIsOwn
        <3>5. CASE j = k
            <4>1. data[sesh[r]][key] # None =>
                      <<client[r], key, data[sesh[r]][key]>> \in written
                BY <2>2 DEF DataIsOwn
            <4>2. data[k][key] # None => <<client[r], key, data[k][key]>> \in written
                BY <2>1, <2>3 DEF DataIsOwn
            <4> HIDE DEF k
            <4> QED
                BY <2>3, <3>3, <3>5, <4>1, <4>2
        <3> QED
            BY <3>4, <3>5
    <2> QED
        BY <2>6, <2>7, <2>8
<1>3. ASSUME NEW r \in Requests, MaskInvalid(r) \/ MaskForward(r)
      PROVE  IsolationInv'
    <2>1. UNCHANGED <<cvalue, data, client, sesh, owner, drawn, written, jar, setCookies,
                      phase, fresh>>
        BY <1>3 DEF MaskInvalid, MaskForward, storeVars, clientVars, historyVars
    <2>2. \A n \in Names : table'[n] # None => table'[n] = table[n]
        BY <1>3 DEF MaskInvalid, MaskForward, storeVars, TypeInv, TypeOK
    <2>3. \A c \in Clients, ck \in Cookie : InHand(c, ck)' => InHand(c, ck)
        BY <1>3, <2>1, TailInHand DEF MaskInvalid, MaskForward
    <2> QED
        BY <2>1, <2>2, <2>3
        DEF RequestsOwn, StoredIsDrawn, KnownIsDrawn, OwnersKnow, FreshIsSecret, DataIsOwn
<1>4. ASSUME NEW r \in Requests, DrawCookie(r)
      PROVE  IsolationInv'
    <2>1. PICK new \in GenCookie :
              /\ fresh' = [fresh EXCEPT ![r] = new]
              /\ drawn' = drawn \cup {new.value}
        BY <1>4 DEF DrawCookie
    <2>2. new.value \notin drawn /\ new.value \in Values
        BY <2>1 DEF GenCookie
    <2>3. /\ phase[r] = "mask" /\ phase' = [phase EXCEPT ![r] = "store"]
          /\ UNCHANGED <<table, cvalue, data, client, todo, sesh, setCookies, jar,
                          owner, written>>
        BY <1>4 DEF DrawCookie, storeVars
    <2>4. \A c \in Clients, ck \in Cookie : InHand(c, ck)' => InHand(c, ck)
        BY <2>3 DEF InHand
    <2>5. RequestsOwn'
        BY <2>3 DEF RequestsOwn, TypeInv, TypeOK
    <2>6. StoredIsDrawn' /\ KnownIsDrawn' /\ OwnersKnow' /\ DataIsOwn'
        BY <2>1, <2>3, <2>4 DEF StoredIsDrawn, KnownIsDrawn, OwnersKnow, DataIsOwn
    <2>7. FreshIsSecret'
        <3> SUFFICES ASSUME NEW q \in Requests, phase'[q] = "store"
                     PROVE  /\ \A n \in Names : table[n] # None =>
                                  cvalue[table[n]] # fresh'[q].value
                            /\ \A c \in Clients, ck \in Cookie : InHand(c, ck) =>
                                  ck.value # fresh'[q].value
            BY <2>3, <2>4 DEF FreshIsSecret
        <3>1. CASE q = r
            <4>1. fresh'[q] = new
                BY <2>1, <3>1 DEF TypeInv, TypeOK
            <4> QED
                BY <2>2, <4>1 DEF StoredIsDrawn, KnownIsDrawn
        <3>2. CASE q # r
            <4>1. fresh'[q] = fresh[q] /\ phase[q] = "store"
                BY <2>1, <2>3, <3>2 DEF TypeInv, TypeOK
            <4> QED
                BY <4>1 DEF FreshIsSecret
        <3> QED
            BY <3>1, <3>2
    <2> QED
        BY <2>5, <2>6, <2>7
<1>5. ASSUME NEW r \in Requests, StoreCookie(r)
      PROVE  IsolationInv'
    <2> DEFINE new == fresh[r]
    <2>1. /\ phase[r] = "store"
          /\ setCookies' = [setCookies EXCEPT ![r] = @ \cup {new}]
          /\ cvalue' = [cvalue EXCEPT ![sesh[r]] = new.value]
          /\ table' = [table EXCEPT ![new.name] = sesh[r]]
          /\ drawn' = drawn
        BY <1>5 DEF StoreCookie, clientVars
    <2>2. new.name \in Names /\ new.value \in Values /\ new.value \in drawn /\ new \in Cookie
        BY <2>1 DEF TypeInv, FreshIsDrawn, Cookie
    <2>0. /\ \A n \in Names : table[n] # None => cvalue[table[n]] # new.value
          /\ \A c \in Clients, ck \in Cookie : InHand(c, ck) => ck.value # new.value
        BY <2>1 DEF FreshIsSecret
    <2> HIDE DEF new
    <2>3. client[r] \in Clients /\ sesh[r] \in Cores /\ owner[sesh[r]] = client[r]
        BY <1>5 DEF StoreCookie, RequestsOwn, TypeInv, RequestsHaveSessions
    <2>4. UNCHANGED <<data, client, todo, sesh, jar, owner, written>>
        BY <1>5 DEF StoreCookie, clientVars, historyVars
    <2>5. \A c \in Clients, ck \in Cookie :
              InHand(c, ck)' => InHand(c, ck) \/ (c = client[r] /\ ck = new)
        BY <2>1, <2>4 DEF InHand, TypeInv, TypeOK
    <2>6. \A n \in Names : table'[n] # None =>
              \/ table'[n] = sesh[r] /\ cvalue'[table'[n]] = new.value
              \/ /\ table'[n] = table[n] /\ table[n] \in Cores
                 /\ cvalue'[table'[n]] = cvalue[table[n]]
        BY <2>1, <2>2, <2>3 DEF TypeInv, TypeOK
    <2>7. RequestsOwn'
        BY <1>5, <2>1, <2>4 DEF StoreCookie, RequestsOwn, TypeInv, TypeOK
    <2>8. StoredIsDrawn'
        BY <2>1, <2>2, <2>6 DEF StoredIsDrawn
    <2>9. KnownIsDrawn'
        BY <2>1, <2>2, <2>5 DEF KnownIsDrawn
    <2>10. OwnersKnow'
        <3> SUFFICES ASSUME NEW c \in Clients, NEW ck \in Cookie, NEW n \in Names,
                            InHand(c, ck)', table'[n] # None,
                            ck.value = cvalue'[table'[n]]
                     PROVE  owner'[table'[n]] = c
            BY DEF OwnersKnow
        <3>1. CASE table'[n] = sesh[r] /\ cvalue'[table'[n]] = new.value
            <4>1. ~InHand(c, ck)
                BY <2>0, <3>1
            <4> QED
                BY <2>3, <2>4, <2>5, <3>1, <4>1
        <3>2. CASE /\ table'[n] = table[n] /\ table[n] \in Cores
                   /\ cvalue'[table'[n]] = cvalue[table[n]]
            <4>1. table[n] # None /\ cvalue[table[n]] # new.value
                BY <2>0, <3>2
            <4>2. ck # new
                BY <3>2, <4>1
            <4> QED
                BY <2>4, <2>5, <3>2, <4>1, <4>2 DEF OwnersKnow
        <3> QED
            BY <2>6, <3>1, <3>2
    <2>11. DataIsOwn'
        BY <2>4 DEF DataIsOwn
    <2>12. FreshIsSecret'
        <3> SUFFICES ASSUME NEW q \in Requests, phase'[q] = "store"
                     PROVE  /\ \A n \in Names : table'[n] # None =>
                                  cvalue'[table'[n]] # fresh'[q].value
                            /\ \A c \in Clients, ck \in Cookie : InHand(c, ck)' =>
                                  ck.value # fresh'[q].value
            BY DEF FreshIsSecret
        <3>1. q # r /\ phase[q] = "store" /\ fresh'[q] = fresh[q]
            BY <1>5 DEF StoreCookie, TypeInv, TypeOK
        <3>2. fresh[q].value # new.value
            BY <2>1, <3>1 DEF new, TypeInv, FreshIsDrawn
        <3>3. /\ \A n \in Names : table[n] # None => cvalue[table[n]] # fresh[q].value
              /\ \A c \in Clients, ck \in Cookie : InHand(c, ck) => ck.value # fresh[q].value
            BY <3>1 DEF FreshIsSecret
        <3>4. \A n \in Names : table'[n] # None => cvalue'[table'[n]] # fresh[q].value
            <4> TAKE n \in Names
            <4>1. CASE table'[n] = sesh[r] /\ cvalue'[table'[n]] = new.value
                BY <3>2, <4>1
            <4>2. CASE /\ table'[n] = table[n] /\ table[n] \in Cores
                       /\ cvalue'[table'[n]] = cvalue[table[n]]
                BY <3>3, <4>2
            <4> QED
                BY <2>6, <4>1, <4>2
        <3> QED
            BY <2>5, <3>1, <3>2, <3>3, <3>4
    <2> QED
        BY <2>7, <2>8, <2>9, <2>10, <2>11, <2>12
<1>6. ASSUME NEW r \in Requests, MakeTable(r)
      PROVE  IsolationInv'
    <2>1. UNCHANGED <<cvalue, data, client, todo, sesh, owner, drawn, written, jar,
                      setCookies, fresh>>
        BY <1>6 DEF MakeTable, clientVars, historyVars
    <2>2. /\ \A n \in Names : table'[n] = None
          /\ \A q \in Requests : phase'[q] # "idle" => phase[q] # "idle"
          /\ \A q \in Requests : phase'[q] = "store" => phase[q] = "store"
        BY <1>6 DEF MakeTable, TypeInv, TypeOK
    <2>3. \A c \in Clients, ck \in Cookie : InHand(c, ck)' => InHand(c, ck)
        BY <2>1 DEF InHand
    <2> QED
        BY <2>1, <2>2, <2>3
        DEF RequestsOwn, StoredIsDrawn, KnownIsDrawn, OwnersKnow, FreshIsSecret, DataIsOwn
<1>7. ASSUME NEW r \in Requests, GenCookieFails(r) \/ KeepCookie(r)
      PROVE  IsolationInv'
    <2>1. UNCHANGED <<table, cvalue, data, client, todo, sesh, fresh, setCookies,
                      jar, drawn, owner, written>>
        BY <1>7 DEF GenCookieFails, KeepCookie, storeVars, clientVars, historyVars
    <2>2. /\ \A q \in Requests : phase'[q] # "idle" => phase[q] # "idle"
          /\ \A q \in Requests : phase'[q] = "store" => phase[q] = "store"
        BY <1>7 DEF GenCookieFails, KeepCookie, TypeInv, TypeOK
    <2>3. \A c \in Clients, ck \in Cookie : InHand(c, ck)' => InHand(c, ck)
        BY <2>1 DEF InHand
    <2> QED
        BY <2>1, <2>2, <2>3
        DEF RequestsOwn, StoredIsDrawn, KnownIsDrawn, OwnersKnow, FreshIsSecret, DataIsOwn
<1>8. ASSUME NEW r \in Requests, NEW key \in Keys, NEW value \in Data,
             SetValue(r, key, value)
      PROVE  IsolationInv'
    <2>1. /\ UNCHANGED <<table, cvalue, phase, client, todo, sesh, fresh, setCookies,
                         jar, drawn, owner>>
          /\ written' = written \cup {<<client[r], key, value>>}
          /\ data' = [data EXCEPT ![sesh[r]][key] = value]
        BY <1>8 DEF SetValue, requestVars, clientVars
    <2>2. sesh[r] \in Cores /\ owner[sesh[r]] = client[r]
        BY <1>8 DEF SetValue, RequestsOwn, TypeInv, RequestsHaveSessions
    <2>3. \A c \in Clients, ck \in Cookie : InHand(c, ck)' => InHand(c, ck)
        BY <2>1 DEF InHand
    <2>4. DataIsOwn'
        <3>1. \A k \in Cores, j \in Keys :
                  \/ data'[k][j] = data[k][j]
                  \/ k = sesh[r] /\ j = key /\ data'[k][j] = value
            BY <2>1, <2>2 DEF TypeInv, TypeOK
        <3> QED
            BY <2>1, <2>2, <3>1 DEF DataIsOwn
    <2> QED
        BY <2>1, <2>3, <2>4
        DEF RequestsOwn, StoredIsDrawn, KnownIsDrawn, OwnersKnow, FreshIsSecret
<1>9. ASSUME NEW r \in Requests, Respond(r)
      PROVE  IsolationInv'
    <2>1. UNCHANGED <<table, cvalue, data, todo, fresh, drawn, owner, written>>
        BY <1>9 DEF Respond, storeVars, historyVars
    <2>2. client[r] \in Clients
        BY <1>9 DEF Respond, TypeInv, RequestsHaveSessions
    <2>3. \A c \in Clients, ck \in Cookie : InHand(c, ck)' => InHand(c, ck)
        <3> SUFFICES ASSUME NEW c \in Clients, NEW ck \in Cookie, InHand(c, ck)'
                     PROVE  InHand(c, ck)
            OBVIOUS
        <3>1. jar'[c] \subseteq IF c = client[r] THEN jar[c] \cup setCookies[r] ELSE jar[c]
            BY <1>9, <2>2 DEF Respond, TypeInv, TypeOK
        <3>2. \A q \in Requests : client'[q] = c =>
                  client[q] = c /\ setCookies'[q] = setCookies[q]
            BY <1>9, MinSessionAssumption DEF Respond, TypeInv, TypeOK, MinSessionAssumption
        <3> QED
            BY <2>1, <3>1, <3>2 DEF InHand
    <2>4. RequestsOwn' /\ FreshIsSecret'
        BY <1>9, <2>1, <2>3 DEF Respond, RequestsOwn, FreshIsSecret, TypeInv, TypeOK
    <2> QED
        BY <2>1, <2>3, <2>4
        DEF StoredIsDrawn, KnownIsDrawn, OwnersKnow, DataIsOwn
<1>10. ASSUME UNCHANGED vars
      PROVE  IsolationInv'
    <2>1. \A c \in Clients, ck \in Cookie : InHand(c, ck)' => InHand(c, ck)
        BY <1>10 DEF InHand, vars, requestVars, clientVars
    <2> QED
        BY <1>10, <2>1
        DEF RequestsOwn, StoredIsDrawn, KnownIsDrawn, OwnersKnow, FreshIsSecret, DataIsOwn,
            vars, storeVars, requestVars, clientVars, historyVars
<1> QED
    BY <1>1, <1>2, <1>3, <1>4, <1>5, <1>6, <1>7, <1>8, <1>9, <1>10 DEF Next, Mask

\* The initial state satisfies the isolation invariant.
LEMMA IsolationInit == Init => IsolationInv
<1> SUFFICES ASSUME Init PROVE IsolationInv
    OBVIOUS
<1>1. TypeInv
    BY TypeInit
<1>2. \A c \in Clients, ck \in Cookie : ~InHand(c, ck)
    <2>1. \A r \in Requests : 1..Len(todo[r]) = {}
        BY DEF Init
    <2> QED
        BY <2>1 DEF Init, InHand
<1> QED
    BY <1>1, <1>2
    DEF Init, IsolationInv, RequestsOwn, StoredIsDrawn, KnownIsDrawn, OwnersKnow,
        FreshIsSecret, DataIsOwn, EmptyData

\* The isolation invariant holds throughout.
LEMMA IsolationInvariant == Spec => []IsolationInv
<1>1. Init => IsolationInv
    BY IsolationInit
<1>2. IsolationInv /\ [Next]_vars => IsolationInv'
    BY IsolationStep
<1> QED
    BY <1>1, <1>2, PTL DEF Spec

\* Isolated: however the cookies of concurrent requests are mixed, tampered
\* with or merged (minsession.go:218-293), whatever a filter reads in the
\* session of a request was written by a request of the same client.
THEOREM Isolated == Spec => []SessionIsolation
<1>1. IsolationInv => SessionIsolation
    BY DEF IsolationInv, TypeInv, RequestsHaveSessions, RequestsOwn, DataIsOwn,
           SessionIsolation, GetValue
<1> QED
    BY <1>1, IsolationInvariant, PTL

-----------------------------------------------------------------------------
(***************************************************************************)
(* Revocation and stability of the table.  What both rest on: the session  *)
(* of a request that still needs a cookie is nobody else's yet, so giving  *)
(* it a value and a name changes no stored session; and a value is drawn   *)
(* once, so a value that was revoked is no stored session's any more, nor  *)
(* one that is about to be stored.                                         *)
(***************************************************************************)
\* A session still without cookie is reached by its own request only.
FreshIsPrivate ==
    \A r \in Requests :
        (phase[r] = "store" \/ (phase[r] \in {"make", "mask"} /\ needed[r])) =>
        /\ \A n \in Names : table[n] # sesh[r]
        /\ \A q \in Requests \ {r} : sesh[q] # sesh[r]

\* A value that is drawn but not stored yet is no stored or deleted session's.
FreshIsNew ==
    \A r \in Requests : phase[r] = "store" =>
        /\ \A n \in Names : table[n] # None => cvalue[table[n]] # fresh[r].value
        /\ \A ck \in revoked : ck.value # fresh[r].value

\* No two stored sessions have the same value.
ValuesAreDistinct ==
    \A m, n \in Names :
        (table[m] # None /\ table[n] # None /\ cvalue[table[m]] = cvalue[table[n]])
            => m = n

\* The value of a deleted session was drawn and is no stored session's.
RevokedIsDead ==
    \A ck \in revoked :
        /\ ck.value \in drawn
        /\ \A n \in Names : table[n] # None => cvalue[table[n]] # ck.value

TableInv ==
    /\ TypeInv /\ StoredIsDrawn /\ FreshIsPrivate /\ FreshIsNew
    /\ ValuesAreDistinct /\ RevokedIsDead

\* An arriving request changes nothing the table points to.
LEMMA ArrivalIsPrivate ==
    ASSUME TypeInv, NEW r \in Requests, NEW c \in Clients,
           NEW cookies \in CookieLists(c), GetSession(r, c, cookies)
    PROVE  /\ NewCore \in Cores
           /\ \A n \in Names : table[n] # NewCore
           /\ \A q \in Requests : sesh[q] # NewCore
           /\ \A n \in Names : table[n] # None =>
                 /\ cvalue'[table[n]] = cvalue[table[n]]
                 /\ data'[table[n]] = data[table[n]]
<1>1. NewCore \in Cores /\ NewCore \notin Live
    BY NewCoreIsFree DEF GetSession
<1>2. \A n \in Names : table[n] # NewCore
    BY <1>1 DEF Live
<1>3. \A q \in Requests : sesh[q] # NewCore
    BY <1>1 DEF Live
<1> QED
    BY <1>1, <1>2, <1>3 DEF GetSession, TypeInv, TypeOK

\* Storing a session changes what is under its name, and no other session.
LEMMA StoreIsPrivate ==
    ASSUME TableInv, NEW r \in Requests, StoreCookie(r)
    PROVE  /\ phase[r] = "store"
           /\ fresh[r].name \in Names /\ fresh[r].value \in drawn
           /\ sesh[r] \in Cores /\ cvalue'[sesh[r]] = fresh[r].value
           /\ table'[fresh[r].name] = sesh[r]
           /\ \A n \in Names \ {fresh[r].name} : table'[n] = table[n]
           /\ \A n \in Names : table[n] # None =>
                 table[n] # sesh[r] /\ cvalue'[table[n]] = cvalue[table[n]]
<1> USE DEF TableInv, TypeInv, TypeOK
<1>1. /\ phase[r] = "store"
      /\ cvalue' = [cvalue EXCEPT ![sesh[r]] = fresh[r].value]
      /\ table' = [table EXCEPT ![fresh[r].name] = sesh[r]]
    BY DEF StoreCookie
<1>2. fresh[r].name \in Names /\ fresh[r].value \in drawn
    BY <1>1 DEF FreshIsDrawn
<1>3. sesh[r] \in Cores /\ \A n \in Names : table[n] # sesh[r]
    BY <1>1 DEF FreshIsPrivate, RequestsHaveSessions
<1> QED
    BY <1>1, <1>2, <1>3

\* Every step keeps the table invariant.
LEMMA TableStep == TableInv /\ [Next]_vars => TableInv'
<1> SUFFICES ASSUME TableInv, [Next]_vars PROVE TableInv'
    OBVIOUS
<1>0. TypeInv /\ TypeInv'
    BY TypeStep DEF TableInv
<1> USE <1>0 DEF TableInv
<1>1. ASSUME NEW r \in Requests, NEW c \in Clients,
             NEW cookies \in CookieLists(c), GetSession(r, c, cookies)
      PROVE  TableInv'
    <2>1. /\ NewCore \in Cores
          /\ \A n \in Names : table[n] # NewCore
          /\ \A q \in Requests : sesh[q] # NewCore
          /\ \A n \in Names : table[n] # None => cvalue'[table[n]] = cvalue[table[n]]
        BY <1>1, ArrivalIsPrivate
    <2>2. UNCHANGED <<table, drawn, revoked>>
        BY <1>1 DEF GetSession
    <2>3. FreshIsPrivate'
        BY <1>1, <2>1, <2>2 DEF FreshIsPrivate, GetSession, TypeInv, TypeOK
    <2>4. StoredIsDrawn' /\ ValuesAreDistinct' /\ RevokedIsDead'
        BY <2>1, <2>2 DEF StoredIsDrawn, ValuesAreDistinct, RevokedIsDead
    <2>5. FreshIsNew'
        BY <1>1, <2>1, <2>2 DEF FreshIsNew, GetSession, TypeInv, TypeOK
    <2> QED
        BY <2>3, <2>4, <2>5
<1>2. ASSUME NEW r \in Requests, MaskValid(r)
      PROVE  TableInv'
    <2>1. UNCHANGED <<table, cvalue, drawn, revoked, phase, fresh>>
        BY <1>2 DEF MaskValid, clientVars, historyVars
    <2>2. Head(todo[r]).name \in Names
        BY <1>2 DEF MaskValid, Matches
    <2>3. FreshIsPrivate'
        BY <1>2, <2>1, <2>2 DEF FreshIsPrivate, MaskValid, TypeInv, TypeOK
    <2> QED
        BY <2>1, <2>3 DEF StoredIsDrawn, FreshIsNew, ValuesAreDistinct, RevokedIsDead
<1>3. ASSUME NEW r \in Requests, MaskInvalid(r)
      PROVE  TableInv'
    <2> DEFINE m == Head(todo[r]).name
    <2>1. UNCHANGED <<cvalue, phase, sesh, needed, fresh, drawn>>
        BY <1>3 DEF MaskInvalid, clientVars
    <2>2. m \in Names /\ table' = [table EXCEPT ![m] = None]
        BY <1>3 DEF MaskInvalid
    <2>3. \A n \in Names : table'[n] # None => n # m /\ table'[n] = table[n]
        BY <2>2 DEF TypeInv, TypeOK
    <2>4. FreshIsPrivate'
        <3>1. \A q \in Requests : phase[q] # "idle" => sesh[q] # None
            BY MinSessionAssumption
            DEF MinSessionAssumption, TypeInv, RequestsHaveSessions
        <3> QED
            BY <2>1, <2>3, <3>1 DEF FreshIsPrivate
    <2>5. StoredIsDrawn' /\ ValuesAreDistinct'
        BY <2>1, <2>3 DEF StoredIsDrawn, ValuesAreDistinct
    <2>6. RevokedIsDead'
        <3>1. CASE table[m] = None
            BY <1>3, <2>1, <2>3, <3>1 DEF RevokedIsDead, MaskInvalid
        <3>2. CASE table[m] # None
            <4>1. revoked' = revoked \cup {[name |-> m, value |-> cvalue[table[m]]]}
                BY <1>3, <3>2 DEF MaskInvalid
            <4>2. cvalue[table[m]] \in drawn
                BY <2>2, <3>2 DEF StoredIsDrawn
            <4>3. \A n \in Names : table'[n] # None =>
                      cvalue[table'[n]] # cvalue[table[m]]
                BY <2>2, <2>3, <3>2 DEF ValuesAreDistinct
            <4> QED
                BY <2>1, <2>3, <4>1, <4>2, <4>3 DEF RevokedIsDead
        <3> QED
            BY <3>1, <3>2
    <2>7. FreshIsNew'
        <3>1. \A ck \in revoked' \ revoked : table[m] # None /\ ck.value = cvalue[table[m]]
            BY <1>3 DEF MaskInvalid
        <3> QED
            BY <2>1, <2>2, <2>3, <3>1 DEF FreshIsNew
    <2> QED
        BY <2>4, <2>5, <2>6, <2>7
<1>4. ASSUME NEW r \in Requests, DrawCookie(r)
      PROVE  TableInv'
    <2>1. PICK new \in GenCookie :
              /\ fresh' = [fresh EXCEPT ![r] = new]
              /\ drawn' = drawn \cup {new.value}
        BY <1>4 DEF DrawCookie
    <2>2. new.value \notin drawn
        BY <2>1 DEF GenCookie
    <2>3. /\ phase[r] = "mask" /\ needed[r] /\ phase' = [phase EXCEPT ![r] = "store"]
          /\ UNCHANGED <<table, cvalue, sesh, needed, revoked>>
        BY <1>4 DEF DrawCookie, storeVars
    <2>4. FreshIsPrivate'
        BY <2>3 DEF FreshIsPrivate, TypeInv, TypeOK
    <2>5. FreshIsNew'
        <3>1. /\ \A n \in Names : table[n] # None => cvalue[table[n]] # new.value
              /\ \A ck \in revoked : ck.value # new.value
            BY <2>2 DEF StoredIsDrawn, RevokedIsDead
        <3>2. fresh'[r] = new /\ \A q \in Requests \ {r} : fresh'[q] = fresh[q]
            BY <2>1 DEF TypeInv, TypeOK
        <3>3. \A q \in Requests \ {r} : phase'[q] = "store" => phase[q] = "store"
            BY <2>3 DEF TypeInv, TypeOK
        <3> QED
            BY <2>3, <3>1, <3>2, <3>3 DEF FreshIsNew
    <2> QED
        BY <2>1, <2>3, <2>4, <2>5 DEF StoredIsDrawn, ValuesAreDistinct, RevokedIsDead
<1>5. ASSUME NEW r \in Requests, StoreCookie(r)
      PROVE  TableInv'
    <2>1. /\ phase[r] = "store"
          /\ fresh[r].name \in Names /\ fresh[r].value \in drawn
          /\ sesh[r] \in Cores /\ cvalue'[sesh[r]] = fresh[r].value
          /\ table'[fresh[r].name] = sesh[r]
          /\ \A n \in Names \ {fresh[r].name} : table'[n] = table[n]
          /\ \A n \in Names : table[n] # None =>
                table[n] # sesh[r] /\ cvalue'[table[n]] = cvalue[table[n]]
        BY <1>5, StoreIsPrivate
    <2>2. UNCHANGED <<sesh, needed, drawn, revoked>>
        BY <1>5 DEF StoreCookie, clientVars, historyVars
    <2>3. /\ \A q \in Requests \ {r} : phase'[q] = phase[q] /\ fresh'[q] = fresh[q]
          /\ phase'[r] = "app"
        BY <1>5 DEF StoreCookie, TypeInv, TypeOK
    <2>4. /\ \A n \in Names : table[n] # None => cvalue[table[n]] # fresh[r].value
          /\ \A ck \in revoked : ck.value # fresh[r].value
        BY <2>1 DEF FreshIsNew
    <2>5. StoredIsDrawn'
        BY <2>1, <2>2 DEF StoredIsDrawn
    <2>6. FreshIsPrivate'
        BY <2>1, <2>2, <2>3 DEF FreshIsPrivate
    <2>7. FreshIsNew'
        <3>1. \A q \in Requests \ {r} : phase[q] = "store" => fresh[q].value # fresh[r].value
            BY <2>1 DEF TypeInv, FreshIsDrawn
        <3> QED
            BY <2>1, <2>2, <2>3, <3>1 DEF FreshIsNew
    <2>8. ValuesAreDistinct'
        BY <2>1, <2>4 DEF ValuesAreDistinct
    <2>10. RevokedIsDead'
        BY <2>1, <2>2, <2>4 DEF RevokedIsDead
    <2> QED
        BY <2>5, <2>6, <2>7, <2>8, <2>10
<1>6. ASSUME NEW r \in Requests, MakeTable(r)
      PROVE  TableInv'
    <2>1. UNCHANGED <<cvalue, sesh, needed, fresh, drawn, revoked>>
        BY <1>6 DEF MakeTable, clientVars, historyVars
    <2>2. /\ phase[r] = "make" /\ phase' = [phase EXCEPT ![r] = "mask"]
          /\ \A n \in Names : table'[n] = None
        BY <1>6 DEF MakeTable
    <2>3. FreshIsPrivate'
        <3>1. \A q \in Requests : phase[q] # "idle" => sesh[q] # None
            BY MinSessionAssumption
            DEF MinSessionAssumption, TypeInv, RequestsHaveSessions
        <3> QED
            BY <2>1, <2>2, <3>1 DEF FreshIsPrivate, TypeInv, TypeOK
    <2>4. FreshIsNew'
        BY <2>1, <2>2 DEF FreshIsNew, TypeInv, TypeOK
    <2> QED
        BY <2>1, <2>2, <2>3, <2>4 DEF StoredIsDrawn, ValuesAreDistinct, RevokedIsDead
<1>7. ASSUME NEW r \in Requests,
             MaskForward(r) \/ GenCookieFails(r) \/ KeepCookie(r)
      PROVE  TableInv'
    <2>1. UNCHANGED <<table, cvalue, sesh, needed, fresh, drawn, revoked>>
        BY <1>7 DEF MaskForward, GenCookieFails, KeepCookie,
                    storeVars, clientVars, historyVars
    <2>2. \A q \in Requests : phase'[q] \in {"make", "mask", "store"} => phase'[q] = phase[q]
        BY <1>7 DEF MaskForward, GenCookieFails, KeepCookie, TypeInv, TypeOK
    <2> QED
        BY <2>1, <2>2 DEF StoredIsDrawn, FreshIsPrivate, FreshIsNew, ValuesAreDistinct, RevokedIsDead
<1>8. ASSUME NEW r \in Requests, NEW key \in Keys, NEW value \in Data,
             SetValue(r, key, value)
      PROVE  TableInv'
    BY <1>8 DEF SetValue, requestVars, clientVars,
                StoredIsDrawn, FreshIsPrivate, FreshIsNew, ValuesAreDistinct, RevokedIsDead
<1>9. ASSUME NEW r \in Requests, Respond(r)
      PROVE  TableInv'
    <2>1. UNCHANGED <<table, cvalue, fresh, drawn, revoked>>
        BY <1>9 DEF Respond, storeVars, historyVars
    <2>2. FreshIsPrivate' /\ FreshIsNew'
        BY <1>9, <2>1, MinSessionAssumption
        DEF Respond, FreshIsPrivate, FreshIsNew, MinSessionAssumption,
            TypeInv, TypeOK, RequestsHaveSessions
    <2> QED
        BY <2>1, <2>2 DEF StoredIsDrawn, ValuesAreDistinct, RevokedIsDead
<1>10. ASSUME UNCHANGED vars
      PROVE  TableInv'
    BY <1>10 DEF vars, storeVars, requestVars, clientVars, historyVars,
                StoredIsDrawn, FreshIsPrivate, FreshIsNew, ValuesAreDistinct, RevokedIsDead
<1> QED
    BY <1>1, <1>2, <1>3, <1>4, <1>5, <1>6, <1>7, <1>8, <1>9, <1>10 DEF Next, Mask

\* The initial state satisfies the table invariant.
LEMMA TableInit == Init => TableInv
BY TypeInit
DEF Init, TableInv, StoredIsDrawn, FreshIsPrivate, FreshIsNew, ValuesAreDistinct,
    RevokedIsDead

\* The table invariant holds throughout.
LEMMA TableInvariant == Spec => []TableInv
<1>1. Init => TableInv
    BY TableInit
<1>2. TableInv /\ [Next]_vars => TableInv'
    BY TableStep
<1> QED
    BY <1>1, <1>2, PTL DEF Spec

\* Revoked: once CookieMask has deleted a session (minsession.go:267), its
\* cookie is never accepted again.
THEOREM Revoked == Spec => []RevokedStaysRevoked
<1>1. TableInv => RevokedStaysRevoked
    BY DEF TableInv, RevokedIsDead, RevokedStaysRevoked, Matches
<1> QED
    BY <1>1, TableInvariant, PTL

\* Distinct: two cookie names never lead to the same session.
THEOREM Distinct == Spec => []SessionsAreDistinct
<1>1. TableInv => SessionsAreDistinct
    BY DEF TableInv, ValuesAreDistinct, SessionsAreDistinct
<1> QED
    BY <1>1, TableInvariant, PTL

-----------------------------------------------------------------------------
(***************************************************************************)
(* Races.  A session can lose its place in the table without being revoked *)
(* in two ways only: another request stores its session under the same     *)
(* name, and then both have drawn the name before either had stored        *)
(* anything under it (ClashIsKnown); or another request puts an empty      *)
(* table in the place of the one there is, and then both have found none   *)
(* (RaceIsKnown).                                                          *)
(***************************************************************************)
\* A request about to store its session does so under a free name, and is the
\* only one to, except where names clash.
ClashIsKnown ==
    \A r \in Requests : (phase[r] = "store" /\ fresh[r].name \notin clash) =>
        /\ table[fresh[r].name] = None
        /\ \A q \in Requests \ {r} :
              phase[q] = "store" => fresh[q].name # fresh[r].name

\* While there is no table, nothing is stored and no request is further than
\* finding that out; a request about to make the table is the only one and the
\* first, except after a race.
RaceIsKnown ==
    /\ ~made =>
        /\ \A n \in Names : table[n] = None
        /\ \A r \in Requests : phase[r] \in {"idle", "make"}
    /\ \A r \in Requests : (phase[r] = "make" /\ ~raced) =>
        /\ ~made
        /\ \A q \in Requests \ {r} : phase[q] # "make"

RaceInv == ClashIsKnown /\ RaceIsKnown

LEMMA RaceInit == Init => RaceInv
BY DEF Init, RaceInv, ClashIsKnown, RaceIsKnown

\* Every step keeps the race invariant.
LEMMA RaceStep == TableInv /\ RaceInv /\ [Next]_vars => RaceInv'
<1> SUFFICES ASSUME TableInv, RaceInv, [Next]_vars PROVE RaceInv'
    OBVIOUS
<1> USE DEF TableInv, RaceInv, ClashIsKnown, RaceIsKnown, TypeInv, TypeOK
<1>1. ASSUME NEW r \in Requests, NEW c \in Clients,
             NEW cookies \in CookieLists(c), GetSession(r, c, cookies)
      PROVE  RaceInv'
    <2>1. /\ UNCHANGED <<made, table, fresh, clash>>
          /\ raced' = (raced \/ (~made /\ \E q \in Requests : phase[q] = "make"))
          /\ phase' = [phase EXCEPT ![r] = IF made THEN "mask" ELSE "make"]
        BY <1>1 DEF GetSession
    <2>2. ClashIsKnown'
        BY <2>1
    <2>3. RaceIsKnown'
        BY <2>1
    <2> QED
        BY <2>2, <2>3
<1>2. ASSUME NEW r \in Requests, MakeTable(r) PROVE RaceInv'
    <2>1. /\ phase[r] = "make" /\ made' = TRUE /\ \A n \in Names : table'[n] = None
          /\ phase' = [phase EXCEPT ![r] = "mask"]
          /\ UNCHANGED <<fresh, raced, clash>>
        BY <1>2 DEF MakeTable, historyVars, raceVars
    <2>2. \A q \in Requests : phase[q] = "store" => fresh[q].name \in Names
        BY DEF FreshIsDrawn
    <2>3. ClashIsKnown'
        BY <2>1, <2>2
    <2>4. RaceIsKnown'
        BY <2>1
    <2> QED
        BY <2>3, <2>4
<1>3. ASSUME NEW r \in Requests, MaskInvalid(r) PROVE RaceInv'
    <2>1. /\ table' = [table EXCEPT ![Head(todo[r]).name] = None]
          /\ UNCHANGED <<made, phase, fresh, raced, clash>>
        BY <1>3 DEF MaskInvalid, raceVars
    <2> QED
        BY <2>1
<1>4. ASSUME NEW r \in Requests, DrawCookie(r) PROVE RaceInv'
    <2>1. PICK new \in GenCookie :
              /\ fresh' = [fresh EXCEPT ![r] = new]
              /\ clash' = clash \cup {n \in {new.name} : \E q \in Requests :
                                phase[q] = "store" /\ fresh[q].name = n}
        BY <1>4 DEF DrawCookie
    <2>2. table[new.name] = None
        BY <2>1 DEF GenCookie
    <2>3. /\ phase[r] = "mask" /\ phase' = [phase EXCEPT ![r] = "store"]
          /\ UNCHANGED <<made, table, raced>>
        BY <1>4 DEF DrawCookie, storeVars
    <2>4. ClashIsKnown'
        <3> SUFFICES ASSUME NEW p \in Requests, phase'[p] = "store", fresh'[p].name \notin clash'
                     PROVE  /\ table[fresh'[p].name] = None
                            /\ \A q \in Requests \ {p} :
                                  phase'[q] = "store" => fresh'[q].name # fresh'[p].name
            BY <2>3
        <3>1. fresh'[r] = new /\ phase'[r] = "store"
            BY <2>1, <2>3
        <3>2. \A q \in Requests \ {r} : fresh'[q] = fresh[q] /\ phase'[q] = phase[q]
            BY <2>1, <2>3
        <3>3. CASE p = r
            <4>1. \A q \in Requests : phase[q] = "store" => fresh[q].name # new.name
                BY <2>1, <3>1, <3>3
            <4> QED
                BY <2>2, <3>1, <3>2, <3>3, <4>1
        <3>4. CASE p # r
            <4>1. phase[p] = "store" /\ fresh[p].name \notin clash
                BY <2>1, <3>2, <3>4
            <4>2. fresh[p].name # new.name
                BY <2>1, <3>2, <3>4, <4>1
            <4>3. /\ table[fresh[p].name] = None
                  /\ \A q \in Requests \ {p} :
                        phase[q] = "store" => fresh[q].name # fresh[p].name
                BY <4>1
            <4> HIDE DEF TableInv, RaceInv, ClashIsKnown, RaceIsKnown, TypeInv, TypeOK
            <4> QED
                BY <3>1, <3>2, <3>4, <4>2, <4>3
        <3> QED
            BY <3>3, <3>4
    <2>5. RaceIsKnown'
        BY <2>3
    <2> QED
        BY <2>4, <2>5
<1>5. ASSUME NEW r \in Requests, StoreCookie(r) PROVE RaceInv'
    <2>1. /\ phase[r] = "store" /\ phase' = [phase EXCEPT ![r] = "app"]
          /\ table' = [table EXCEPT ![fresh[r].name] = sesh[r]]
          /\ fresh' = [fresh EXCEPT ![r] = None]
          /\ UNCHANGED <<made, raced, clash>>
        BY <1>5 DEF StoreCookie, historyVars, raceVars
    <2>2. ClashIsKnown'
        <3> SUFFICES ASSUME NEW p \in Requests, phase'[p] = "store", fresh'[p].name \notin clash
                     PROVE  /\ table'[fresh'[p].name] = None
                            /\ \A q \in Requests \ {p} :
                                  phase'[q] = "store" => fresh'[q].name # fresh'[p].name
            BY <2>1
        <3>1. /\ p # r /\ phase[p] = "store" /\ fresh'[p] = fresh[p]
              /\ \A q \in Requests \ {r} : fresh'[q] = fresh[q] /\ phase'[q] = phase[q]
              /\ phase'[r] = "app"
            BY <2>1
        <3>2. /\ table[fresh[p].name] = None
              /\ \A q \in Requests \ {p} :
                    phase[q] = "store" => fresh[q].name # fresh[p].name
            BY <3>1
        <3>3. table'[fresh[p].name] = table[fresh[p].name]
            BY <2>1, <3>1, <3>2 DEF FreshIsDrawn
        <3> QED
            BY <3>1, <3>2, <3>3
    <2>3. RaceIsKnown'
        BY <2>1
    <2> QED
        BY <2>2, <2>3
<1>6. ASSUME NEW r \in Requests, GenCookieFails(r) \/ KeepCookie(r) PROVE RaceInv'
    <2>1. /\ phase[r] = "mask" /\ phase'[r] \in {"panicked", "app"}
          /\ \A q \in Requests \ {r} : phase'[q] = phase[q]
          /\ UNCHANGED <<made, table, fresh, raced, clash>>
        BY <1>6 DEF GenCookieFails, KeepCookie, storeVars, historyVars, raceVars
    <2> QED
        BY <2>1
<1>7. ASSUME NEW r \in Requests, Respond(r) PROVE RaceInv'
    <2>1. /\ phase' = [phase EXCEPT ![r] = "idle"]
          /\ UNCHANGED <<made, table, fresh, raced, clash>>
        BY <1>7 DEF Respond, storeVars, historyVars, raceVars
    <2> QED
        BY <2>1
<1>8. CASE UNCHANGED <<made, table, phase, fresh, raced, clash>>
    BY <1>8
<1> QED
    BY <1>1, <1>2, <1>3, <1>4, <1>5, <1>6, <1>7, <1>8
    DEF Next, Mask, MaskValid, MaskForward, SetValue,
        vars, storeVars, requestVars, historyVars, raceVars

\* The race invariant holds throughout.
LEMMA RaceInvariant == Spec => [](TableInv /\ RaceInv)
<1>1. Init => RaceInv
    BY RaceInit
<1>2. TableInv /\ RaceInv /\ [Next]_vars => RaceInv'
    BY RaceStep
<1> QED
    BY <1>1, <1>2, TableInvariant, PTL DEF Spec

\* What a step can do to a stored session: leave it under its name with its
\* cookie, revoke it, or be part of a race.
LEMMA StoredStays ==
    ASSUME TableInv, RaceInv, [Next]_vars, NEW n \in Names, table[n] # None
    PROVE  \/ table'[n] = table[n] /\ cvalue'[table[n]] = cvalue[table[n]]
           \/ [name |-> n, value |-> cvalue[table[n]]] \in revoked'
           \/ n \in clash \/ raced
<1> DEFINE Same == table'[n] = table[n] /\ cvalue'[table[n]] = cvalue[table[n]]
<1>1. ASSUME NEW r \in Requests, NEW c \in Clients,
             NEW cookies \in CookieLists(c), GetSession(r, c, cookies)
      PROVE  Same
    <2>1. cvalue'[table[n]] = cvalue[table[n]]
        BY <1>1, ArrivalIsPrivate DEF TableInv
    <2> QED
        BY <1>1, <2>1 DEF GetSession
<1>2. ASSUME NEW r \in Requests, MakeTable(r)
      PROVE  raced
    <2>1. made /\ phase[r] = "make"
        BY <1>2 DEF MakeTable, RaceInv, RaceIsKnown, TableInv, TypeInv, TypeOK
    <2> QED
        BY <2>1 DEF RaceInv, RaceIsKnown
<1>3. ASSUME NEW r \in Requests, MaskInvalid(r)
      PROVE  Same \/ [name |-> n, value |-> cvalue[table[n]]] \in revoked'
    <2> DEFINE m == Head(todo[r]).name
    <2>1. /\ cvalue' = cvalue
          /\ table' = [table EXCEPT ![m] = None]
          /\ revoked' = IF table[m] = None THEN revoked
                        ELSE revoked \cup {[name |-> m, value |-> cvalue[table[m]]]}
        BY <1>3 DEF MaskInvalid
    <2> HIDE DEF m
    <2>2. CASE n = m
        BY <2>1, <2>2
    <2>3. CASE n # m
        BY <2>1, <2>3 DEF TableInv, TypeInv, TypeOK
    <2> QED
        BY <2>2, <2>3
<1>4. ASSUME NEW r \in Requests, StoreCookie(r)
      PROVE  Same \/ n \in clash
    <2>1. /\ phase[r] = "store"
          /\ \A m \in Names \ {fresh[r].name} : table'[m] = table[m]
          /\ cvalue'[table[n]] = cvalue[table[n]]
        BY <1>4, StoreIsPrivate
    <2> QED
        BY <2>1 DEF RaceInv, ClashIsKnown
<1>5. CASE UNCHANGED <<table, cvalue>>
    BY <1>5
<1> QED
    BY <1>1, <1>2, <1>3, <1>4, <1>5
    DEF Next, Mask, MaskValid, MaskForward, DrawCookie, GenCookieFails, KeepCookie,
        SetValue, Respond, vars, storeVars

\* Stable: a session stays stored under its name with its cookie until it is
\* revoked, but for two requests that drew the same name (minsession.go:124,
\* 338-339) or made a table each (minsession.go:72-76).
THEOREM Stable == Spec => StoredSessionIsStable
<1> DEFINE Keeps ==
        \A n \in Names : table[n] # None =>
            \/ table'[n] = table[n] /\ cvalue'[table[n]] = cvalue[table[n]]
            \/ [name |-> n, value |-> cvalue[table[n]]] \in revoked'
            \/ n \in clash \/ raced
<1>1. ASSUME TableInv, RaceInv, [Next]_vars PROVE Keeps
    BY <1>1, StoredStays
<1>2. ASSUME TableInv, RaceInv, [Next]_vars PROVE [Keeps]_vars
    BY <1>1, <1>2
<1> QED
    BY <1>2, RaceInvariant, PTL DEF Spec, StoredSessionIsStable

\* What is in a session that is stored is not taken out of it.
LEMMA StaysThere ==
    ASSUME TableInv, [Next]_vars, NEW n \in Names, NEW key \in Keys,
           table[n] # None, data[table[n]][key] # None
    PROVE  data'[table[n]][key] # None
<1> USE DEF TableInv, TypeInv, TypeOK
<1>1. ASSUME NEW r \in Requests, NEW c \in Clients,
             NEW cookies \in CookieLists(c), GetSession(r, c, cookies)
      PROVE  data'[table[n]] = data[table[n]]
    BY <1>1, ArrivalIsPrivate
<1>2. ASSUME NEW r \in Requests, MaskValid(r)
      PROVE  data'[table[n]][key] # None
    <2> DEFINE k == table[Head(todo[r]).name]
    <2>1. k \in Cores /\ data' = [data EXCEPT ![k] = Overlay(data[sesh[r]], data[k])]
        BY <1>2 DEF MaskValid, Matches
    <2> HIDE DEF k
    <2> QED
        BY <2>1 DEF Overlay
<1>3. ASSUME NEW r \in Requests, NEW key2 \in Keys, NEW value \in Data, SetValue(r, key2, value)
      PROVE  data'[table[n]][key] # None
    <2>1. data' = [data EXCEPT ![sesh[r]][key2] = value] /\ value # None
        BY <1>3, MinSessionAssumption DEF SetValue, MinSessionAssumption
    <2> QED
        BY <2>1
<1>4. CASE UNCHANGED data
    BY <1>4
<1> QED
    BY <1>1, <1>2, <1>3, <1>4
    DEF Next, Mask, MakeTable, MaskInvalid, MaskForward, DrawCookie, StoreCookie,
        GenCookieFails, KeepCookie, Respond, vars, storeVars

\* Kept: no step takes a value away from a stored session, merging two of
\* them (minsession.go:242-252) included.
THEOREM Kept == Spec => StoredDataIsKept
<1> DEFINE Keeps ==
        \A n \in Names : \A key \in Keys :
            (table[n] # None /\ data[table[n]][key] # None) =>
                data'[table[n]][key] # None
<1>1. ASSUME TableInv, [Next]_vars PROVE Keeps
    BY <1>1, StaysThere
<1>2. ASSUME TableInv, [Next]_vars PROVE [Keeps]_vars
    BY <1>1, <1>2
<1> QED
    BY <1>2, TableInvariant, PTL DEF Spec, StoredDataIsKept

-----------------------------------------------------------------------------
(***************************************************************************)
(* Cookies that work.  What a client was given, and what a request is      *)
(* about to give it, leads to a session of the client, was revoked or was  *)
(* lost in a race.                                                         *)
(***************************************************************************)
Given(c, ck) ==
    ck \in jar[c] \/ \E r \in Requests : client[r] = c /\ ck \in setCookies[r]

Works(c, ck) ==
    \/ Matches(ck) /\ owner[table[ck.name]] = c
    \/ ck \in revoked
    \/ ck.name \in clash \/ raced

GivenWork == \A c \in Clients, ck \in Cookie : Given(c, ck) => Works(c, ck)

GivenInv == TableInv /\ RaceInv /\ RequestsOwn /\ GivenWork

LEMMA GivenInit == Init => GivenInv
BY TableInit, RaceInit DEF Init, GivenInv, RequestsOwn, GivenWork, Given

\* No step changes who a stored session belongs to or forgets a revocation or
\* a race.
LEMMA OwnersStay ==
    ASSUME TypeInv, [Next]_vars
    PROVE  /\ \A n \in Names : table[n] # None => owner'[table[n]] = owner[table[n]]
           /\ revoked \subseteq revoked' /\ clash \subseteq clash' /\ (raced => raced')
<1>1. ASSUME NEW r \in Requests, NEW c \in Clients,
             NEW cookies \in CookieLists(c), GetSession(r, c, cookies)
      PROVE  /\ \A n \in Names : table[n] # None => owner'[table[n]] = owner[table[n]]
             /\ UNCHANGED <<revoked, clash>> /\ (raced => raced')
    <2>1. NewCore \in Cores /\ \A n \in Names : table[n] # NewCore
        BY <1>1, ArrivalIsPrivate
    <2> QED
        BY <1>1, <2>1 DEF GetSession, TypeInv, TypeOK
<1>2. ASSUME NEW r \in Requests, MaskInvalid(r)
      PROVE  UNCHANGED <<owner, raceVars>> /\ revoked \subseteq revoked'
    BY <1>2 DEF MaskInvalid
<1>3. ASSUME NEW r \in Requests, DrawCookie(r)
      PROVE  UNCHANGED <<owner, revoked, raced>> /\ clash \subseteq clash'
    BY <1>3 DEF DrawCookie
<1>4. CASE UNCHANGED <<owner, revoked, raceVars>>
    BY <1>4 DEF raceVars
<1> QED
    BY <1>1, <1>2, <1>3, <1>4
    DEF Next, Mask, MakeTable, MaskValid, MaskForward, StoreCookie, GenCookieFails,
        KeepCookie, SetValue, Respond, vars, historyVars, raceVars

\* A cookie that works goes on working.
LEMMA StillWorks ==
    ASSUME TableInv, RaceInv, [Next]_vars,
           NEW c \in Clients, NEW ck \in Cookie, Works(c, ck)
    PROVE  Works(c, ck)'
<1>1. CASE ck \in revoked \/ ck.name \in clash \/ raced
    BY <1>1, OwnersStay DEF Works, TableInv
<1>2. CASE Matches(ck) /\ owner[table[ck.name]] = c
    <2>1. ck.name \in Names /\ table[ck.name] # None /\ ck.value = cvalue[table[ck.name]]
        BY <1>2 DEF Matches
    <2>2. ck = [name |-> ck.name, value |-> cvalue[table[ck.name]]]
        BY <2>1 DEF Cookie
    <2>3. \/ table'[ck.name] = table[ck.name] /\ cvalue'[table[ck.name]] = cvalue[table[ck.name]]
          \/ ck \in revoked'
          \/ ck.name \in clash \/ raced
        BY <2>1, <2>2, StoredStays
    <2>4. /\ owner'[table[ck.name]] = c
          /\ clash \subseteq clash' /\ (raced => raced')
        BY <1>2, <2>1, OwnersStay DEF TableInv
    <2> QED
        BY <1>2, <2>3, <2>4 DEF Works, Matches
<1> QED
    BY <1>1, <1>2 DEF Works

\* A request gives its client a cookie by storing its session under it.
LEMMA GivenByStore ==
    ASSUME TypeInv, [Next]_vars, NEW c \in Clients, NEW ck \in Cookie,
           Given(c, ck)', ~Given(c, ck)
    PROVE  \E r \in Requests : StoreCookie(r) /\ client[r] = c /\ ck = fresh[r]
<1> USE DEF TypeInv, TypeOK, Given
<1>1. ASSUME NEW r \in Requests, NEW d \in Clients,
             NEW cookies \in CookieLists(d), GetSession(r, d, cookies)
      PROVE  FALSE
    BY <1>1 DEF GetSession
<1>2. ASSUME NEW r \in Requests, StoreCookie(r)
      PROVE  client[r] = c /\ ck = fresh[r]
    BY <1>2 DEF StoreCookie, clientVars
<1>3. ASSUME NEW r \in Requests, Respond(r)
      PROVE  FALSE
    BY <1>3 DEF Respond
<1>4. ~UNCHANGED <<jar, client, setCookies>>
    OBVIOUS
<1> QED
    BY <1>1, <1>2, <1>3, <1>4
    DEF Next, Mask, MakeTable, MaskValid, MaskInvalid, MaskForward, DrawCookie,
        GenCookieFails, KeepCookie, SetValue, vars, requestVars, clientVars

\* Every step keeps the cookies working.
LEMMA GivenStep == GivenInv /\ [Next]_vars => GivenWork'
<1> SUFFICES ASSUME GivenInv, [Next]_vars, NEW c \in Clients, NEW ck \in Cookie,
                    Given(c, ck)'
             PROVE  Works(c, ck)'
    BY DEF GivenWork
<1>1. CASE Given(c, ck)
    BY <1>1, StillWorks DEF GivenInv, GivenWork
<1>2. CASE ~Given(c, ck)
    <2>1. PICK r \in Requests : StoreCookie(r) /\ client[r] = c /\ ck = fresh[r]
        BY <1>2, GivenByStore DEF GivenInv, TableInv
    <2>2. /\ phase[r] = "store" /\ ck.name \in Names /\ sesh[r] \in Cores
          /\ table'[ck.name] = sesh[r] /\ cvalue'[sesh[r]] = ck.value
        BY <2>1, StoreIsPrivate DEF GivenInv
    <2>3. owner'[sesh[r]] = c
        BY <2>1, <2>2 DEF StoreCookie, historyVars, GivenInv, RequestsOwn
    <2>4. ck.value # None /\ sesh[r] # None
        BY <2>1, <2>2, MinSessionAssumption
        DEF MinSessionAssumption, GivenInv, TableInv, TypeInv, FreshIsDrawn
    <2> QED
        BY <2>2, <2>3, <2>4 DEF Works, Matches
<1> QED
    BY <1>1, <1>2

\* CookiesWork: a cookie that was given out works until it is revoked or lost
\* in a race, for any number of clients and of concurrent requests.
THEOREM CookiesWork == Spec => []GivenCookiesWork
<1>1. GivenInv => GivenCookiesWork
    BY DEF GivenInv, TableInv, TypeInv, TypeOK, GivenWork, Given, Works, GivenCookiesWork
<1>2. GivenInv /\ IsolationInv' /\ TableInv' /\ RaceInv' /\ [Next]_vars => GivenInv'
    BY GivenStep DEF GivenInv, IsolationInv
<1> QED
    BY <1>1, <1>2, GivenInit, IsolationInvariant, RaceInvariant, PTL DEF Spec

=============================================================================
