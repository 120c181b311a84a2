---------------------------- MODULE MCTokenAuth ----------------------------
(* Small instances of TokenAuth for TLC. *)
EXTENDS TokenAuthSessions, TLC

CONSTANTS t1, t2, admin, ana, old, new

OneThread  == {t1}
TwoThreads == {t1, t2}
MCEmails   == {admin, ana}
OnePassword == {old}
MCPasswords == {old, new}

\* Threads are interchangeable.
Symmetry == Permutations(TwoThreads)
=============================================================================
