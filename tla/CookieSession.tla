----------------------------- MODULE CookieSession -----------------------------
(***************************************************************************)
(* The session cookie of one browser (src/flask/sessions.py, the session   *)
(* of src/flask/ctx.py, the flashed messages of src/flask/helpers.py).     *)
(* Requests overlap, answers arrive in any order or not at all, the secret *)
(* key is rotated and cookies age.                                         *)
(***************************************************************************)
EXTENDS Naturals, Sequences, FiniteSets

CONSTANTS
    Reqs,       \* requests of the browser
    Users,      \* values stored in the session
    Categories, \* categories of flashed messages
    MaxKey,     \* bound on the secret keys used one after the other
    Lifetime,   \* permanent_session_lifetime, in ticks
    MaxTime,    \* bound on the clock
    MaxOps      \* bound on the session operations of a view

ASSUME BoundAssumption == MaxKey \in Nat \ {0} /\ MaxTime \in Nat /\ Lifetime \in Nat

NoCookie == [key |-> 0]
NoKey    == 0

VARIABLES
    refresh,    \* SESSION_REFRESH_EACH_REQUEST
    secret, fallbacks,  \* SECRET_KEY and SECRET_KEY_FALLBACKS
    now,
    jar,        \* the browser's cookie
    req,        \* [Reqs -> stage, cookie sent, session, answer]
    flashed,    \* history: messages flashed in answers the browser has received
    shown,      \* history: <<message, request that displayed it>>
    filtered,   \* history: <<message, request that pulled it and left it out>>
    disturbed   \* history: requests overlapped, or an answer, a cookie or messages were lost

server == <<refresh, secret, fallbacks, now>>
vars   == <<server, jar, req, flashed, shown, filtered, disturbed>>

\* A session is a dict: the keys it has, and modified and accessed.
Keys    == {"user", "_flashes", "_permanent"}
Nothing == [k \in {} |-> {}]
Put(d, k, v)  == [x \in DOMAIN d \cup {k} |-> IF x = k THEN v ELSE d[x]]
Without(d, k) == [x \in DOMAIN d \ {k} |-> d[x]]
permanent(d)  == "_permanent" \in DOMAIN d /\ d["_permanent"]
Flashes(d)    == IF "_flashes" \in DOMAIN d THEN d["_flashes"] ELSE <<>>
Elems(s)      == {s[i] : i \in DOMAIN s}

Idle == [pc |-> "idle", cookie |-> NoCookie, data |-> Nothing, null |-> FALSE,
         modified |-> FALSE, accessed |-> FALSE, cached |-> <<>>, pulled |-> FALSE,
         ops |-> 0, wrote |-> FALSE, used |-> FALSE, set |-> "none", vary |-> FALSE,
         out |-> NoCookie, posted |-> {}]

Init ==
    /\ refresh \in BOOLEAN
    /\ secret \in {NoKey, 1} /\ fallbacks = {}
    /\ now = 0
    /\ jar = NoCookie
    /\ req = [r \in Reqs |-> Idle]
    /\ flashed = {} /\ shown = {} /\ filtered = {} /\ disturbed = FALSE

Upd(r, rec) == req' = [req EXCEPT ![r] = rec]
Active(r)   == req[r].pc \notin {"idle", "done"}

-----------------------------------------------------------------------------
(* get_signing_serializer: the last key signs, any of them verifies. *)

OldestKey == IF fallbacks = {} THEN secret                       \* fault: keys reversed
             ELSE CHOOSE k \in fallbacks : \A l \in fallbacks : k <= l
SigningKey == secret
Verifies(c) == c.key \in fallbacks \cup {secret} /\ now - c.at <= Lifetime

\* The browser attaches its cookie.
Send(r) ==
    /\ req[r].pc = "idle"
    /\ Upd(r, [Idle EXCEPT !.pc = "sent", !.cookie = jar])
    /\ disturbed' = (disturbed \/ \E q \in Reqs : Active(q))
    /\ UNCHANGED <<server, jar, flashed, shown, filtered>>

\* AppContext._get_session: open_session or a null session.
open_session(r) ==
    /\ req[r].pc = "sent"
    /\ LET c == req[r].cookie IN
       Upd(r, [req[r] EXCEPT !.pc = "view", !.null = (secret = NoKey),
                             !.data = IF c # NoCookie /\ secret # NoKey /\ Verifies(c)
                                      THEN c.data ELSE Nothing])
    /\ UNCHANGED <<server, jar, flashed, shown, filtered, disturbed>>

-----------------------------------------------------------------------------
(* What a view does with the session.  Each operation goes through the      *)
(* `session` proxy, which sets accessed; a null session refuses changes.    *)

Touch(r, s) ==
    /\ req[r].pc = "view" /\ req[r].ops < MaxOps
    /\ Upd(r, [s EXCEPT !.ops = @ + 1, !.accessed = TRUE, !.used = TRUE])
    /\ UNCHANGED <<server, jar, flashed>>

Changed(r, data) == [req[r] EXCEPT !.data = data, !.modified = TRUE, !.wrote = TRUE]

\* The exception a null session raises ends the view; nothing is saved.
Fails(r) ==
    /\ req[r].pc = "view" /\ req[r].null
    /\ Upd(r, [req[r] EXCEPT !.pc = "answer"])
    /\ UNCHANGED <<server, jar, flashed, shown, filtered, disturbed>>

Read(r) == Touch(r, req[r]) /\ UNCHANGED <<shown, filtered, disturbed>>

Store(r, u) ==
    /\ ~req[r].null
    /\ Touch(r, Changed(r, Put(req[r].data, "user", u)))
    /\ UNCHANGED <<shown, filtered, disturbed>>

SetPermanent(r, b) ==
    /\ ~req[r].null
    /\ Touch(r, Changed(r, Put(req[r].data, "_permanent", b)))
    /\ UNCHANGED <<shown, filtered, disturbed>>

Clear(r) ==
    /\ ~req[r].null
    /\ Touch(r, Changed(r, Nothing))
    /\ disturbed' = (disturbed \/ Flashes(req[r].data) # <<>>)
    /\ UNCHANGED <<shown, filtered>>

\* A message: who flashed it, at which of its operations, and its category.
Message(r, c) == <<r, req[r].ops, c>>

flash(r, c) ==
    /\ ~req[r].null
    /\ LET s == Changed(r, Put(req[r].data, "_flashes",
                               Append(Flashes(req[r].data), Message(r, c))))
       IN Touch(r, [s EXCEPT !.posted = @ \cup {Message(r, c)}])
    /\ UNCHANGED <<shown, filtered, disturbed>>

\* What a call with this category_filter returns of the messages M; an empty
\* filter, the default, is none.
Matching(M, filter) == {m \in M : filter = {} \/ m[3] \in filter}

Returns(r, M, filter) ==
    /\ shown' = shown \cup {<<m, r>> : m \in Matching(M, filter)}
    /\ filtered' = filtered \cup {<<m, r>> : m \in M \ Matching(M, filter)}

\* Fault: the messages stay in the session.
FlashesStay(r, filter) ==
    LET s == [req[r] EXCEPT !.cached = Flashes(req[r].data), !.pulled = TRUE]
    IN Touch(r, s) /\ Returns(r, Elems(s.cached), filter) /\ UNCHANGED disturbed

\* All are pulled from the session once in a request, then from
\* app_ctx._flashes; those that do not match the filter are gone unseen unless
\* another call of the request asks for them.
get_flashed_messages(r, filter) ==
    LET d == req[r].data
        s == IF req[r].pulled THEN req[r]
             ELSE IF "_flashes" \in DOMAIN d
             THEN [Changed(r, Without(d, "_flashes")) EXCEPT !.cached = Flashes(d), !.pulled = TRUE]
             ELSE [req[r] EXCEPT !.pulled = TRUE]
    IN Touch(r, s) /\ Returns(r, Elems(s.cached), filter) /\ UNCHANGED disturbed

-----------------------------------------------------------------------------
(* process_response and save_session *)

AlwaysSet(s) == s.accessed                       \* fault: reading is enough
should_set_cookie(s) == s.modified \/ (permanent(s.data) /\ refresh)

\* `under` is history: the current key when the cookie was written.
Signed(data) == [key |-> SigningKey, at |-> now, data |-> data, under |-> secret]

\* Fault: a session that became empty is left alone.
SaveNonEmpty(r) ==
    /\ req[r].pc = "view"
    /\ LET s == req[r]
           set == ~s.null /\ s.data # Nothing /\ should_set_cookie(s)
       IN Upd(r, [s EXCEPT !.pc = "answer", !.set = IF set THEN "cookie" ELSE "none",
                           !.out = IF set THEN Signed(s.data) ELSE NoCookie,
                           !.vary = ~s.null /\ (s.accessed \/ set)])
    /\ UNCHANGED <<server, jar, flashed, shown, filtered, disturbed>>

\* Fault: Vary is set with the cookie only.
SaveVarySet(r) ==
    /\ req[r].pc = "view"
    /\ LET s == req[r]
           empty == s.data = Nothing
           set == IF s.null THEN "none"
                  ELSE IF empty THEN (IF s.modified THEN "delete" ELSE "none")
                  ELSE IF should_set_cookie(s) THEN "cookie" ELSE "none"
       IN Upd(r, [s EXCEPT !.pc = "answer", !.set = set, !.vary = set # "none",
                           !.out = IF set = "cookie" THEN Signed(s.data) ELSE NoCookie])
    /\ UNCHANGED <<server, jar, flashed, shown, filtered, disturbed>>

save_session(r) ==
    /\ req[r].pc = "view"
    /\ LET s == req[r]
           empty == s.data = Nothing
           set == IF s.null THEN "none"
                  ELSE IF empty THEN (IF s.modified THEN "delete" ELSE "none")
                  ELSE IF should_set_cookie(s) THEN "cookie" ELSE "none"
       IN Upd(r, [s EXCEPT !.pc = "answer", !.set = set,
                           !.out = IF set = "cookie" THEN Signed(s.data) ELSE NoCookie,
                           !.vary = ~s.null /\ (s.accessed \/ set # "none")])
    /\ UNCHANGED <<server, jar, flashed, shown, filtered, disturbed>>

-----------------------------------------------------------------------------
(* The browser and the administrator *)

Deliver(r) ==
    /\ req[r].pc = "answer"
    /\ jar' = IF req[r].set = "none" THEN jar ELSE req[r].out
    /\ Upd(r, [req[r] EXCEPT !.pc = "done"])
    /\ flashed' = flashed \cup req[r].posted
    /\ UNCHANGED <<server, shown, filtered, disturbed>>

\* The connection breaks.
Lose(r) ==
    /\ Active(r)
    /\ Upd(r, [req[r] EXCEPT !.pc = "done"])
    /\ disturbed' = TRUE
    /\ UNCHANGED <<server, jar, flashed, shown, filtered>>

\* get_expiration_time: a session that is not permanent ends with the browser.
CloseBrowser ==
    /\ jar # NoCookie /\ ~permanent(jar.data) /\ jar' = NoCookie /\ disturbed' = TRUE
    /\ UNCHANGED <<server, req, flashed, shown, filtered>>

Tick ==
    /\ now < MaxTime /\ now' = now + 1
    /\ disturbed' = (disturbed \/ now = Lifetime)
    /\ UNCHANGED <<refresh, secret, fallbacks, jar, req, flashed, shown, filtered>>

RotateKey ==
    /\ secret \in 1..(MaxKey - 1)
    /\ secret' = secret + 1 /\ fallbacks' = fallbacks \cup {secret}
    /\ UNCHANGED <<refresh, now, jar, req, flashed, shown, filtered, disturbed>>

DropFallbacks ==
    /\ fallbacks # {} /\ fallbacks' = {} /\ disturbed' = TRUE
    /\ UNCHANGED <<refresh, secret, now, jar, req, flashed, shown, filtered>>

View(r) ==
    \/ Read(r) \/ Clear(r) \/ Fails(r)
    \/ \E c \in Categories : flash(r, c)
    \/ \E filter \in SUBSET Categories : get_flashed_messages(r, filter)
    \/ \E u \in Users : Store(r, u)
    \/ \E b \in BOOLEAN : SetPermanent(r, b)

Next ==
    \/ \E r \in Reqs : Send(r) \/ open_session(r) \/ View(r) \/ save_session(r)
                     \/ Deliver(r) \/ Lose(r)
    \/ CloseBrowser \/ Tick \/ RotateKey \/ DropFallbacks

Spec == Init /\ [][Next]_vars

-----------------------------------------------------------------------------
(* Properties *)

TypeOK ==
    /\ refresh \in BOOLEAN /\ secret \in 0..MaxKey /\ fallbacks \subseteq 1..MaxKey
    /\ now \in 0..MaxTime
    /\ jar # NoCookie => jar.key \in 1..MaxKey /\ jar.at <= now /\ jar.data # Nothing
    /\ \A r \in Reqs :
          /\ req[r].pc \in {"idle", "sent", "view", "answer", "done"}
          /\ DOMAIN req[r].data \subseteq Keys
          /\ req[r].set \in {"none", "cookie", "delete"}
          /\ req[r].null => ~req[r].modified /\ req[r].data = Nothing
    /\ disturbed \in BOOLEAN

\* An answer that depends on the session, or changes the cookie, says so to caches.
VaryWhenUsed ==
    \A r \in Reqs : req[r].pc = "answer" /\ ~req[r].null =>
        (req[r].used \/ req[r].set # "none" => req[r].vary)

\* A request whose view changed nothing never overwrites what another request
\* stored meanwhile, unless a permanent session is refreshed with every answer.
ReadersKeepWrites ==
    [][\A r \in Reqs : Deliver(r) /\ ~req[r].wrote /\ ~(refresh /\ permanent(req[r].data))
                          => jar' = jar]_vars

\* What a view stored, removed or cleared is what the browser has once it gets
\* the answer, a deleted session included.
WritesReachBrowser ==
    [][\A r \in Reqs : Deliver(r) /\ req[r].wrote =>
           IF req[r].data = Nothing THEN jar' = NoCookie
           ELSE jar' # NoCookie /\ jar'.data = req[r].data]_vars

\* Among requests one after the other, one only pulls a flashed message: it
\* displays it, or leaves it out because it asked for other categories.  The
\* message stays with the browser until one does.
FlashOnce ==
    ~disturbed =>
        /\ \A p, q \in shown \cup filtered : p[1] = q[1] => p = q
        /\ \A m \in flashed : \/ \E p \in shown \cup filtered : p[1] = m
                              \/ jar # NoCookie /\ m \in Elems(Flashes(jar.data))

\* A session whose cookie was written after the last rotation of the secret key
\* is still opened when the fallback keys have been dropped.
SurvivesDrop ==
    [][\A r \in Reqs : LET c == req[r].cookie IN
          open_session(r) /\ c # NoCookie /\ c.under = secret /\ now - c.at <= Lifetime
              => req'[r].data = c.data]_vars
===============================================================================
