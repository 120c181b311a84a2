------------------------------ MODULE Sessions ------------------------------
(***************************************************************************)
(* What the token authentication of the API promises, without requests in  *)
(* progress: a token opens a session of one user and once only, sessions   *)
(* end for good, and a request is served as the owner of an open session.  *)
(***************************************************************************)
EXTENDS Naturals

CONSTANTS
    Threads,    \* request threads of the server
    OnePerUser  \* whether a user has one session at most

NoUser == 0

VARIABLES
    open,       \* sessions, each the token that opened it and the user it is of
    ended,      \* sessions that were open
    serving     \* [thread -> the user its request is served as, or NoUser]

vars == <<open, ended, serving>>

Init == /\ open = {}
        /\ ended = {}
        /\ serving = [t \in Threads |-> NoUser]

\* A login, a refresh or a registration opens a session with a new token.
Open(s) ==
    /\ \A o \in open \cup ended : o.value # s.value
    /\ OnePerUser => \A o \in open : o.user # s.user
    /\ open' = open \cup {s}
    /\ UNCHANGED <<ended, serving>>

\* A logout, or a login before it opens its own, ends sessions of one user.
Close(S) ==
    /\ \A o, s \in S : o.user = s.user
    /\ open' = open \ S
    /\ ended' = ended \cup S
    /\ UNCHANGED serving

\* The filter lets a request with an open token through, as its owner.
Admit(t, s) ==
    /\ serving[t] = NoUser
    /\ serving' = [serving EXCEPT ![t] = s.user]
    /\ UNCHANGED <<open, ended>>

Release(t) ==
    /\ serving[t] # NoUser
    /\ serving' = [serving EXCEPT ![t] = NoUser]
    /\ UNCHANGED <<open, ended>>

\* There is no bound on tokens: the one that a step opens is known by its result.
Next ==
    \/ \E s \in open' : Open(s)
    \/ \E S \in SUBSET open : Close(S)
    \/ \E t \in Threads : Release(t) \/ \E s \in open : Admit(t, s)

Spec == Init /\ [][Next]_vars
=============================================================================
