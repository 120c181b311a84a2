------------------------- MODULE TokenAuthSessions -------------------------
(***************************************************************************)
(* The interleaved requests of TokenAuth implement the sessions that       *)
(* Sessions describes.                                                     *)
(***************************************************************************)
EXTENDS TokenAuth

RowsOf(ids) == {tokens[i] : i \in ids}

OpenRows  == RowsOf(DOMAIN tokens \ revoked)
EndedRows == RowsOf(revoked)
ServedAs  == [t \in Threads |-> IF pc[t] \in {"served", "change"} THEN user[t] ELSE 0]

Abstract == INSTANCE Sessions WITH OnePerUser <- FALSE, open <- OpenRows,
                                   ended <- EndedRows, serving <- ServedAs

\* Whatever the interleaving of logins, refreshes, registrations, logouts and
\* filtered requests, a stored token opens a session that no other request has
\* had, ends for good together with sessions of its owner only, and lets requests
\* through as its owner while it is open (AuthenticationService, LogoutService
\* and JwtAuthenticationFilter, each a sequence of separate transactions).
RefinesSessions == Abstract!Spec

Single == INSTANCE Sessions WITH OnePerUser <- TRUE, open <- OpenRows,
                                 ended <- EndedRows, serving <- ServedAs

\* While no two requests issue tokens of one user at a time, the user has one
\* session: the others have ended before a login opens its own.
RefinesSingle == Single!Spec
=============================================================================
