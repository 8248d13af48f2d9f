------------------------------- MODULE PwdStore -------------------------------
(***************************************************************************)
(* The password store of authentication/inmempwdstore.go, as functions of  *)
(* its table: a function from identifiers to records of hash, salt and     *)
(* iteration count.                                                        *)
(***************************************************************************)
EXTENDS Naturals

Pbkdf2MinIterations == 4096

\* Iterations is a uint16.
MaxIterations == 2^16 - 1

\* PBKDF2: different passwords, salts or iteration counts give different keys.
Key(password, salt, iterations) == <<password, salt, iterations>>

\* GetPbkdf2Hash, with the salt that was drawn.
GetPbkdf2Hash(password, iterations, salt) ==
    [hash |-> Key(password, salt, iterations), salt |-> salt, iterations |-> iterations]

\* What GetPbkdf2Hash and Pbkdf2Hash.UnmarshalJSON let into a table.
Acceptable(iterations) == iterations \in Pbkdf2MinIterations..MaxIterations

\* Pbkdf2Hash.Check.
Check(h, password) ==
    IF h.hash = Key(password, h.salt, h.iterations) THEN "nil" ELSE "BadPasswordError"

\* Variant for a mutation check: an unknown identifier is not an error.
CheckPasswordOpen(table, id, password) ==
    IF id \in DOMAIN table THEN Check(table[id], password) ELSE "nil"

\* InMemPwdStore.CheckPassword.
CheckPassword(table, id, password) ==
    IF id \in DOMAIN table THEN Check(table[id], password) ELSE "NoSuchIdentifierError"
=============================================================================
