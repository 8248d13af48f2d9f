---------------------------- MODULE MCLoginHandler ----------------------------
\* Model-checking instance of LoginHandler.
EXTENDS LoginHandler, TLC

\* The session keys and values that the login handlers use.
MCKeys == {AuthKey(h) : h \in LoginIds} \cup {XsrfKey(h) : h \in LoginIds}
MCData == Tokens \cup {Authd}

\* Every user has the same one of the passwords.
MCPasswordOf == [u \in Users |-> CHOOSE p \in Passwords : TRUE]

Symmetry ==
    Permutations(Clients) \cup Permutations(Requests) \cup Permutations(Names)
        \cup Permutations(Values) \cup Permutations(Tokens)

\* Bound: a request with two cookies is masked while others are with the login
\* handler, but not while they are masked.  Cookies of other applications and
\* requests that have panicked take no part, and LoginLasts claims nothing once
\* the first requests have raced for the table.
Bounds ==
    /\ \A r, q \in Requests :
          r # q /\ Len(todo[r]) = 2 => phase[q] \in {"idle", "app"}
    /\ \A r \in Requests :
          /\ phase[r] # "panicked"
          /\ \A i \in DOMAIN todo[r] : todo[r][i].name # Foreign
    /\ ~raced

\* Who points to a core and what it contains; its address does not matter.
CoreView(k) ==
    <<{n \in Names : table[n] = k}, {q \in Requests : sesh[q] = k}, cvalue[k], data[k]>>

\* Of a request being served, what it or a property will read again.
RequestView(r) ==
    IF phase[r] = "idle" THEN <<"idle">>
    ELSE <<phase[r], client[r], todo[r], fresh[r], setCookies[r], lpc[r], page[r],
           CoreView(sesh[r]),
           phase[r] \in {"make", "mask"} /\ needed[r],
           IF lpc[r] = "done" THEN None ELSE handler[r],
           IF lpc[r] \in {"page", "down", "done"} THEN None ELSE received[r]>>

LiveView ==
    <<made, [n \in {m \in Names : table[m] # None} |-> CoreView(table[n])],
      [r \in Requests |-> RequestView(r)],
      clientVars, minted, known, loggedIn, revoked, raceVars>>
=============================================================================
