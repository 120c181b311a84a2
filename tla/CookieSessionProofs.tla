-------------------------- MODULE CookieSessionProofs --------------------------
(***************************************************************************)
(* Proofs about CookieSession for any requests, users, keys and bounds,    *)
(* and about what is written of a session's values and read of it, for any *)
(* depth of the values and any tags that an application registers.         *)
(***************************************************************************)
EXTENDS SessionValues, Induction, SequenceTheorems, TLAPS

Fields == {"pc", "cookie", "data", "null", "modified", "accessed", "cached", "pulled", "ops",
           "wrote", "used", "set", "vary", "out", "posted"}

\* A cookie was signed with the key that was current, for a session with keys.
Genuine(c) ==
    c # NoCookie =>
        /\ c.key \in 1..MaxKey /\ c.under = c.key
        /\ c.at \in Nat /\ c.at <= now
        /\ c.data # Nothing /\ DOMAIN c.data \subseteq Keys

ServerOK ==
    /\ refresh \in BOOLEAN /\ secret \in 0..MaxKey /\ fallbacks \subseteq 1..MaxKey
    /\ now \in 0..MaxTime

\* What modified and accessed tell save_session, and what a null session is.
Tracked(s) ==
    /\ s.modified => s.wrote
    /\ s.wrote => s.modified
    /\ s.used => s.accessed
    /\ s.null => s.data = Nothing
    /\ s.null => ~s.modified
    /\ s.pc = "sent" => ~s.modified
    /\ s.pc = "view" /\ ~s.null => secret # NoKey
    /\ s.pc \in {"sent", "view"} => s.set = "none"

\* The answer save_session leaves agrees with what the view did.
Answered(s) ==
    s.pc = "answer" =>
        /\ s.wrote /\ s.data = Nothing => s.set = "delete" /\ s.out = NoCookie
        /\ s.wrote /\ s.data # Nothing => s.set = "cookie" /\ s.out # NoCookie
                                          /\ s.out.data = s.data
        /\ s.set # "none" => s.wrote \/ (refresh /\ permanent(s.data))
        /\ ~s.null /\ (s.used \/ s.set # "none") => s.vary

RecordOK(s) ==
    /\ DOMAIN s = Fields
    /\ s.pc \in {"idle", "sent", "view", "answer", "done"}
    /\ s.set \in {"none", "cookie", "delete"}
    /\ DOMAIN s.data \subseteq Keys
    /\ Genuine(s.cookie) /\ Genuine(s.out)
    /\ Tracked(s) /\ Answered(s)

IInv ==
    /\ ServerOK
    /\ Genuine(jar)
    /\ disturbed \in BOOLEAN
    /\ DOMAIN req = Reqs
    /\ \A r \in Reqs : RecordOK(req[r])

-----------------------------------------------------------------------------
(* The dictionaries of the session. *)

LEMMA NothingKeys == DOMAIN Nothing = {}
BY DEF Nothing

LEMMA PutKeys ==
    ASSUME NEW d, DOMAIN d \subseteq Keys, NEW k \in Keys, NEW v
    PROVE  DOMAIN Put(d, k, v) \subseteq Keys /\ Put(d, k, v) # Nothing
<1>1. DOMAIN Put(d, k, v) = DOMAIN d \cup {k}
  BY DEF Put
<1> QED
  BY <1>1, NothingKeys

LEMMA WithoutKeys ==
    ASSUME NEW d, DOMAIN d \subseteq Keys, NEW k
    PROVE  DOMAIN Without(d, k) \subseteq Keys
BY DEF Without

\* A request that has not begun.
LEMMA IdleFields ==
    /\ DOMAIN Idle = Fields
    /\ Idle.data = Nothing /\ Idle.set = "none" /\ Idle.out = NoCookie
    /\ ~Idle.modified /\ ~Idle.wrote /\ ~Idle.used /\ ~Idle.null
    /\ Idle.pc = "idle" /\ Idle.cookie = NoCookie
BY DEF Idle, Fields

LEMMA IdleOK == ASSUME ServerOK PROVE RecordOK(Idle)
BY IdleFields, NothingKeys DEF RecordOK, Tracked, Answered, Genuine

-----------------------------------------------------------------------------
(* A step of one request. *)

\* A step that gives one request a good record, and the jar a genuine cookie.
LEMMA StepKeeps ==
    ASSUME IInv, NEW r \in Reqs, NEW s, RecordOK(s), Upd(r, s), UNCHANGED server,
           Genuine(jar'), disturbed' \in BOOLEAN
    PROVE  IInv'
<1>1. ServerOK' /\ Genuine(jar)'
  BY DEF IInv, ServerOK, server, Genuine
<1>2. DOMAIN req' = Reqs
  BY DEF IInv, Upd
<1>3. ASSUME NEW q \in Reqs PROVE RecordOK(req[q])'
  <2>1. req'[q] = IF q = r THEN s ELSE req[q]
    BY DEF IInv, Upd
  <2>2. RecordOK(req'[q])
    BY <2>1 DEF IInv
  <2> QED
    BY <2>2 DEF server, RecordOK, Genuine, Tracked, Answered
<1> QED
  BY <1>1, <1>2, <1>3 DEF IInv

\* What an operation of the view may make of the session.
LEMMA TouchKeeps ==
    ASSUME IInv, NEW r \in Reqs, NEW s, RecordOK(s), s.pc = "view", Touch(r, s),
           disturbed' \in BOOLEAN
    PROVE  IInv'
<1> DEFINE t == [s EXCEPT !.ops = @ + 1, !.accessed = TRUE, !.used = TRUE]
<1>1. /\ DOMAIN t = Fields
      /\ t.pc = "view" /\ t.accessed /\ t.data = s.data /\ t.null = s.null
      /\ t.set = s.set /\ t.cookie = s.cookie /\ t.out = s.out
      /\ t.modified = s.modified /\ t.wrote = s.wrote
  BY DEF RecordOK, Fields
<1>2. RecordOK(t)
  BY <1>1 DEF RecordOK, Tracked, Answered
<1>3. Upd(r, t) /\ UNCHANGED server /\ jar' = jar
  BY DEF Touch
<1>4. Genuine(jar')
  BY <1>3 DEF IInv
<1> QED
  BY <1>2, <1>3, <1>4, StepKeeps

\* A change of a session that is not a null session.
LEMMA ChangedOK ==
    ASSUME IInv, NEW r \in Reqs, req[r].pc = "view", ~req[r].null,
           NEW d, DOMAIN d \subseteq Keys
    PROVE  RecordOK(Changed(r, d)) /\ Changed(r, d).pc = "view"
<1> DEFINE s == req[r]
           t == Changed(r, d)
<1>1. RecordOK(s)
  BY DEF IInv
<1>2. /\ DOMAIN t = Fields
      /\ t.pc = "view" /\ t.modified /\ t.wrote /\ t.data = d /\ t.null = s.null
      /\ t.set = s.set /\ t.cookie = s.cookie /\ t.out = s.out
      /\ t.used = s.used /\ t.accessed = s.accessed
  BY <1>1 DEF RecordOK, Fields, Changed
<1>3. RecordOK(t)
  BY <1>1, <1>2 DEF RecordOK, Tracked, Answered
<1> QED
  BY <1>2, <1>3

-----------------------------------------------------------------------------
(* Every action keeps the invariant. *)

LEMMA InitInv == Init => IInv
<1> SUFFICES ASSUME Init PROVE IInv
  OBVIOUS
<1>1. ServerOK
  BY BoundAssumption DEF Init, ServerOK, NoKey
<1>2. \A r \in Reqs : req[r] = Idle
  BY DEF Init
<1> QED
  BY <1>1, <1>2, IdleOK DEF Init, IInv, Genuine

LEMMA SendKeeps == ASSUME IInv, NEW r \in Reqs, Send(r) PROVE IInv'
<1> DEFINE s == [Idle EXCEPT !.pc = "sent", !.cookie = jar]
<1>1. /\ DOMAIN s = Fields /\ s.pc = "sent" /\ s.cookie = jar
      /\ s.data = Nothing /\ s.set = "none" /\ s.out = NoCookie
      /\ ~s.modified /\ ~s.wrote /\ ~s.used /\ ~s.null
  BY IdleFields DEF Fields
<1>2. RecordOK(s)
  BY <1>1, NothingKeys DEF RecordOK, Tracked, Answered, IInv, Genuine
<1>3. Upd(r, s) /\ UNCHANGED server /\ jar' = jar /\ disturbed' \in BOOLEAN
  BY DEF Send
<1> QED
  BY <1>2, <1>3, StepKeeps DEF IInv

LEMMA OpenKeeps == ASSUME IInv, NEW r \in Reqs, open_session(r) PROVE IInv'
<1> DEFINE s == req[r]
           d == IF s.cookie # NoCookie /\ secret # NoKey /\ Verifies(s.cookie)
                THEN s.cookie.data ELSE Nothing
           t == [s EXCEPT !.pc = "view", !.null = (secret = NoKey), !.data = d]
<1>1. RecordOK(s) /\ s.pc = "sent"
  BY DEF IInv, open_session
<1>2. /\ DOMAIN t = Fields /\ t.pc = "view" /\ t.data = d
      /\ t.null = (secret = NoKey)
      /\ t.cookie = s.cookie /\ t.out = s.out /\ t.set = s.set
      /\ t.modified = s.modified /\ t.wrote = s.wrote
      /\ t.used = s.used /\ t.accessed = s.accessed
  BY <1>1 DEF RecordOK, Fields
<1>3. DOMAIN d \subseteq Keys /\ (secret = NoKey => d = Nothing)
  BY <1>1, NothingKeys DEF RecordOK, Genuine
<1>4. RecordOK(t)
  BY <1>1, <1>2, <1>3 DEF RecordOK, Tracked, Answered
<1>5. Upd(r, t) /\ UNCHANGED server /\ jar' = jar /\ disturbed' = disturbed
  BY DEF open_session
<1> QED
  BY <1>4, <1>5, StepKeeps DEF IInv

\* What the views of one request do.
LEMMA ViewKeeps == ASSUME IInv, NEW r \in Reqs, View(r) PROVE IInv'
<1> DEFINE s == req[r]
           d == s.data
<1>0. RecordOK(s) /\ DOMAIN d \subseteq Keys
  BY DEF IInv, RecordOK
<1>1. CASE Read(r)
  <2>1. Touch(r, s) /\ s.pc = "view" /\ disturbed' \in BOOLEAN
    BY <1>1 DEF Read, Touch, IInv
  <2> QED
    BY <2>1, <1>0, TouchKeeps
<1>2. CASE Clear(r)
  <2>1. /\ Touch(r, Changed(r, Nothing)) /\ s.pc = "view" /\ ~s.null
        /\ disturbed' \in BOOLEAN
    BY <1>2 DEF Clear, Touch, IInv
  <2> QED
    BY <2>1, ChangedOK, NothingKeys, TouchKeeps
<1>3. CASE \E x \in Categories : flash(r, x)
  <2> PICK x \in Categories : flash(r, x)
    BY <1>3
  <2> DEFINE e == Put(d, "_flashes", Append(Flashes(d), Message(r, x)))
             c == Changed(r, e)
             t == [c EXCEPT !.posted = @ \cup {Message(r, x)}]
  <2>1. Touch(r, t) /\ s.pc = "view" /\ ~s.null /\ disturbed' \in BOOLEAN
    BY <1>3 DEF flash, Touch, IInv
  <2>2. DOMAIN e \subseteq Keys
    BY <1>0, PutKeys DEF Keys
  <2>3. RecordOK(c) /\ c.pc = "view"
    BY <2>1, <2>2, ChangedOK
  <2>4. /\ DOMAIN t = Fields
        /\ t.pc = c.pc /\ t.data = c.data /\ t.null = c.null /\ t.set = c.set
        /\ t.cookie = c.cookie /\ t.out = c.out /\ t.modified = c.modified
        /\ t.wrote = c.wrote /\ t.used = c.used /\ t.accessed = c.accessed
    BY <2>3 DEF RecordOK, Fields
  <2>5. RecordOK(t) /\ t.pc = "view"
    BY <2>3, <2>4 DEF RecordOK, Tracked, Answered
  <2> QED
    BY <2>1, <2>5, TouchKeeps
<1>4. CASE \E filter \in SUBSET Categories : get_flashed_messages(r, filter)
  <2> PICK filter \in SUBSET Categories : get_flashed_messages(r, filter)
    BY <1>4
  <2> DEFINE c == Changed(r, Without(d, "_flashes"))
             t == [c EXCEPT !.cached = Flashes(d), !.pulled = TRUE]
             u == [s EXCEPT !.pulled = TRUE]
  <2>1. s.pc = "view" /\ disturbed' \in BOOLEAN
    BY <1>4 DEF get_flashed_messages, Touch, IInv
  <2>2. \/ Touch(r, s)
        \/ "_flashes" \in DOMAIN d /\ Touch(r, t)
        \/ Touch(r, u)
    BY <1>4 DEF get_flashed_messages
  <2>3. CASE Touch(r, s)
    BY <2>1, <2>3, <1>0, TouchKeeps
  <2>4. CASE "_flashes" \in DOMAIN d /\ Touch(r, t)
    <3>1. ~s.null
      BY <1>0, <2>4, NothingKeys DEF RecordOK, Tracked
    <3>2. RecordOK(c) /\ c.pc = "view"
      BY <3>1, <2>1, <1>0, WithoutKeys, ChangedOK
    <3>3. /\ DOMAIN t = Fields
          /\ t.pc = c.pc /\ t.data = c.data /\ t.null = c.null /\ t.set = c.set
          /\ t.cookie = c.cookie /\ t.out = c.out /\ t.modified = c.modified
          /\ t.wrote = c.wrote /\ t.used = c.used /\ t.accessed = c.accessed
      BY <3>2 DEF RecordOK, Fields
    <3>4. RecordOK(t) /\ t.pc = "view"
      BY <3>2, <3>3 DEF RecordOK, Tracked, Answered
    <3> QED
      BY <2>1, <2>4, <3>4, TouchKeeps
  <2>5. CASE Touch(r, u)
    <3>1. /\ DOMAIN u = Fields
          /\ u.pc = s.pc /\ u.data = s.data /\ u.null = s.null /\ u.set = s.set
          /\ u.cookie = s.cookie /\ u.out = s.out /\ u.modified = s.modified
          /\ u.wrote = s.wrote /\ u.used = s.used /\ u.accessed = s.accessed
      BY <1>0 DEF RecordOK, Fields
    <3>2. RecordOK(u) /\ u.pc = "view"
      BY <1>0, <2>1, <3>1 DEF RecordOK, Tracked, Answered
    <3> QED
      BY <2>1, <2>5, <3>2, TouchKeeps
  <2> QED
    BY <2>2, <2>3, <2>4, <2>5
<1>5. CASE Fails(r)
  <2> DEFINE t == [s EXCEPT !.pc = "answer"]
  <2>1. /\ s.pc = "view" /\ s.null /\ Upd(r, t)
        /\ UNCHANGED server /\ jar' = jar /\ disturbed' = disturbed
    BY <1>5 DEF Fails
  <2>2. /\ DOMAIN t = Fields
        /\ t.pc = "answer" /\ t.data = s.data /\ t.null = s.null /\ t.set = s.set
        /\ t.cookie = s.cookie /\ t.out = s.out /\ t.modified = s.modified
        /\ t.wrote = s.wrote /\ t.used = s.used /\ t.accessed = s.accessed
    BY <1>0 DEF RecordOK, Fields
  <2>3. ~t.wrote /\ t.set = "none" /\ t.null
    BY <1>0, <2>1, <2>2 DEF RecordOK, Tracked
  <2>4. RecordOK(t)
    BY <1>0, <2>2, <2>3 DEF RecordOK, Tracked, Answered
  <2> QED
    BY <2>1, <2>4, StepKeeps DEF IInv
<1>6. CASE \E u \in Users : Store(r, u)
  <2> PICK u \in Users : Store(r, u)
    BY <1>6
  <2>1. /\ Touch(r, Changed(r, Put(d, "user", u))) /\ s.pc = "view" /\ ~s.null
        /\ disturbed' \in BOOLEAN
    BY DEF Store, Touch, IInv
  <2>2. DOMAIN Put(d, "user", u) \subseteq Keys
    BY <1>0, PutKeys DEF Keys
  <2> QED
    BY <2>1, <2>2, ChangedOK, TouchKeeps
<1>7. CASE \E b \in BOOLEAN : SetPermanent(r, b)
  <2> PICK b \in BOOLEAN : SetPermanent(r, b)
    BY <1>7
  <2>1. /\ Touch(r, Changed(r, Put(d, "_permanent", b))) /\ s.pc = "view" /\ ~s.null
        /\ disturbed' \in BOOLEAN
    BY DEF SetPermanent, Touch, IInv
  <2>2. DOMAIN Put(d, "_permanent", b) \subseteq Keys
    BY <1>0, PutKeys DEF Keys
  <2> QED
    BY <2>1, <2>2, ChangedOK, TouchKeeps
<1> QED
  BY <1>1, <1>2, <1>3, <1>4, <1>5, <1>6, <1>7 DEF View

\* The cookie that is signed while there is a key.
LEMMA SignedGenuine ==
    ASSUME ServerOK, secret # NoKey, NEW d, DOMAIN d \subseteq Keys, d # Nothing
    PROVE  /\ Genuine(Signed(d)) /\ Signed(d) # NoCookie /\ Signed(d).data = d
<1>1. /\ Signed(d).key = secret /\ Signed(d).under = secret
      /\ Signed(d).at = now /\ Signed(d).data = d
  BY DEF Signed, SigningKey
<1>2. secret \in 1..MaxKey /\ now \in Nat /\ now <= now
  BY BoundAssumption DEF ServerOK, NoKey
<1>3. Signed(d) # NoCookie
  BY <1>1, <1>2 DEF NoCookie
<1> QED
  BY <1>1, <1>2, <1>3 DEF Genuine

LEMMA SaveKeeps == ASSUME IInv, NEW r \in Reqs, save_session(r) PROVE IInv'
<1> DEFINE s == req[r]
           empty == s.data = Nothing
           set == IF s.null THEN "none"
                  ELSE IF empty THEN (IF s.modified THEN "delete" ELSE "none")
                  ELSE IF should_set_cookie(s) THEN "cookie" ELSE "none"
           out == IF set = "cookie" THEN Signed(s.data) ELSE NoCookie
           vary == ~s.null /\ (s.accessed \/ set # "none")
           t == [s EXCEPT !.pc = "answer", !.set = set, !.out = out, !.vary = vary]
<1>1. RecordOK(s) /\ s.pc = "view" /\ Upd(r, t) /\ UNCHANGED server
      /\ jar' = jar /\ disturbed' = disturbed
  BY DEF IInv, save_session
<1>2. /\ DOMAIN t = Fields /\ t.pc = "answer" /\ t.set = set /\ t.out = out /\ t.vary = vary
      /\ t.data = s.data /\ t.null = s.null /\ t.cookie = s.cookie
      /\ t.modified = s.modified /\ t.wrote = s.wrote
      /\ t.used = s.used /\ t.accessed = s.accessed
  BY <1>1 DEF RecordOK, Fields
<1>3. set = "cookie" => /\ Genuine(Signed(s.data)) /\ Signed(s.data) # NoCookie
                        /\ Signed(s.data).data = s.data
  <2>1. set = "cookie" => ~s.null /\ s.data # Nothing
    OBVIOUS
  <2>2. ~s.null => secret # NoKey
    BY <1>1 DEF RecordOK, Tracked
  <2> QED
    BY <2>1, <2>2, <1>1, SignedGenuine DEF RecordOK, IInv
<1>4. Genuine(out)
  BY <1>3 DEF Genuine
<1>5. Tracked(t)
  BY <1>1, <1>2 DEF RecordOK, Tracked
<1>6. Answered(t)
  <2>1. s.wrote => s.modified /\ ~s.null
    BY <1>1 DEF RecordOK, Tracked
  <2>2. s.wrote /\ empty => set = "delete"
    BY <2>1
  <2>3. s.wrote /\ ~empty => set = "cookie"
    BY <2>1 DEF should_set_cookie
  <2>4. set # "none" => s.wrote \/ (refresh /\ permanent(s.data))
    BY <1>1 DEF should_set_cookie, RecordOK, Tracked
  <2>5. s.used => s.accessed
    BY <1>1 DEF RecordOK, Tracked
  <2> QED
    BY <1>2, <1>3, <2>2, <2>3, <2>4, <2>5 DEF Answered
<1>7. RecordOK(t)
  BY <1>1, <1>2, <1>4, <1>5, <1>6 DEF RecordOK
<1> QED
  BY <1>1, <1>7, StepKeeps DEF IInv

\* The end of a request, whether its answer arrives or not.
LEMMA EndOK ==
    ASSUME IInv, NEW r \in Reqs
    PROVE  RecordOK([req[r] EXCEPT !.pc = "done"])
<1> DEFINE s == req[r]
           t == [s EXCEPT !.pc = "done"]
<1>1. RecordOK(s)
  BY DEF IInv
<1>2. /\ DOMAIN t = Fields
      /\ t.pc = "done" /\ t.data = s.data /\ t.null = s.null /\ t.set = s.set
      /\ t.cookie = s.cookie /\ t.out = s.out /\ t.modified = s.modified
      /\ t.wrote = s.wrote /\ t.used = s.used /\ t.accessed = s.accessed
  BY <1>1 DEF RecordOK, Fields
<1> QED
  BY <1>1, <1>2 DEF RecordOK, Tracked, Answered

LEMMA DeliverKeeps == ASSUME IInv, NEW r \in Reqs, Deliver(r) PROVE IInv'
<1>1. /\ Upd(r, [req[r] EXCEPT !.pc = "done"]) /\ UNCHANGED server
      /\ disturbed' = disturbed
      /\ jar' = IF req[r].set = "none" THEN jar ELSE req[r].out
  BY DEF Deliver
<1>2. Genuine(jar')
  BY <1>1 DEF IInv, RecordOK
<1> QED
  BY <1>1, <1>2, EndOK, StepKeeps DEF IInv

LEMMA LoseKeeps == ASSUME IInv, NEW r \in Reqs, Lose(r) PROVE IInv'
<1>1. /\ Upd(r, [req[r] EXCEPT !.pc = "done"]) /\ UNCHANGED server
      /\ jar' = jar /\ disturbed' = TRUE
  BY DEF Lose
<1> QED
  BY <1>1, EndOK, StepKeeps DEF IInv

\* What the clock and the administrator change does not spoil a record.
LEMMA ServerKeeps ==
    ASSUME IInv, ServerOK', refresh' = refresh, now <= now', secret # NoKey => secret' # NoKey,
           UNCHANGED <<jar, req>>, disturbed' \in BOOLEAN
    PROVE  IInv'
<1>1. \A c : Genuine(c) => Genuine(c)'
  BY BoundAssumption DEF Genuine, IInv, ServerOK
<1>2. ASSUME NEW r \in Reqs PROVE RecordOK(req[r])'
  <2>1. RecordOK(req[r]) /\ req'[r] = req[r]
    BY DEF IInv
  <2>2. Genuine(req[r].cookie)' /\ Genuine(req[r].out)'
    BY <2>1, <1>1 DEF RecordOK
  <2> QED
    BY <2>1, <2>2 DEF RecordOK, Tracked, Answered
<1>3. Genuine(jar)'
  BY <1>1 DEF IInv
<1> QED
  BY <1>2, <1>3 DEF IInv

LEMMA NextKeeps == IInv /\ [Next]_vars => IInv'
<1> SUFFICES ASSUME IInv, [Next]_vars PROVE IInv'
  OBVIOUS
<1>0. ServerOK
  BY DEF IInv
<1>1. ASSUME NEW r \in Reqs,
             \/ Send(r) \/ open_session(r) \/ View(r) \/ save_session(r)
             \/ Deliver(r) \/ Lose(r)
      PROVE  IInv'
  BY <1>1, SendKeeps, OpenKeeps, ViewKeeps, SaveKeeps, DeliverKeeps, LoseKeeps
<1>2. CASE CloseBrowser
  BY <1>2, BoundAssumption DEF CloseBrowser, IInv, ServerOK, server, Genuine,
     RecordOK, Tracked, Answered
<1>3. CASE Tick
  <2>1. ServerOK' /\ now <= now' /\ secret' = secret /\ refresh' = refresh
    BY <1>3, <1>0, BoundAssumption DEF Tick, ServerOK
  <2> QED
    BY <2>1, <1>3, ServerKeeps DEF Tick
<1>4. CASE RotateKey
  <2>1. /\ ServerOK' /\ now <= now' /\ secret' # NoKey /\ refresh' = refresh
        /\ disturbed' \in BOOLEAN
    BY <1>4, <1>0, BoundAssumption DEF RotateKey, ServerOK, NoKey, IInv
  <2> QED
    BY <2>1, <1>4, ServerKeeps DEF RotateKey
<1>5. CASE DropFallbacks
  <2>1. ServerOK' /\ now <= now' /\ secret' = secret /\ refresh' = refresh
    BY <1>5, <1>0, BoundAssumption DEF DropFallbacks, ServerOK
  <2> QED
    BY <2>1, <1>5, ServerKeeps DEF DropFallbacks
<1>6. CASE UNCHANGED vars
  <2>1. ServerOK' /\ now <= now' /\ secret' = secret /\ refresh' = refresh
        /\ disturbed' \in BOOLEAN
    BY <1>6, <1>0, BoundAssumption DEF vars, server, ServerOK, IInv
  <2> QED
    BY <2>1, <1>6, ServerKeeps DEF vars
<1> QED
  BY <1>1, <1>2, <1>3, <1>4, <1>5, <1>6 DEF Next

-----------------------------------------------------------------------------
(* The theorems. *)

\* The invariant holds whatever the order of requests, answers, lost answers,
\* rotations of the key and ticks.
THEOREM Invariant == Spec => []IInv
<1> QED
  BY InitInv, NextKeeps, PTL DEF Spec

\* The types of the state; a null session is empty and never saved.
THEOREM TypeCorrect == Spec => []TypeOK
<1>1. IInv => TypeOK
  BY BoundAssumption DEF IInv, TypeOK, ServerOK, Genuine, RecordOK, Tracked
<1> QED
  BY Invariant, <1>1, PTL

\* Every answer that depends on the session, or changes the cookie, has Vary.
THEOREM VaryAlways == Spec => []VaryWhenUsed
<1>1. IInv => VaryWhenUsed
  BY DEF IInv, VaryWhenUsed, RecordOK, Answered
<1> QED
  BY Invariant, <1>1, PTL

\* The answer of a request that changed nothing leaves the browser's cookie.
THEOREM ReadersKeep == Spec => ReadersKeepWrites
<1>1. ASSUME IInv, [Next]_vars, NEW r \in Reqs, Deliver(r), ~req[r].wrote,
             ~(refresh /\ permanent(req[r].data))
      PROVE  jar' = jar
  <2>1. req[r].set = "none"
    BY <1>1 DEF IInv, RecordOK, Answered, Deliver
  <2> QED
    BY <2>1, <1>1 DEF Deliver
<1>2. IInv /\ [Next]_vars =>
        [\A r \in Reqs : Deliver(r) /\ ~req[r].wrote /\ ~(refresh /\ permanent(req[r].data))
             => jar' = jar]_vars
  BY <1>1
<1> QED
  BY Invariant, <1>2, PTL DEF Spec, ReadersKeepWrites

\* The browser ends with the session the view left, deleted or stored.
THEOREM WritesReach == Spec => WritesReachBrowser
<1>1. ASSUME IInv, NEW r \in Reqs, Deliver(r), req[r].wrote
      PROVE  IF req[r].data = Nothing THEN jar' = NoCookie
             ELSE jar' # NoCookie /\ jar'.data = req[r].data
  <2>1. RecordOK(req[r]) /\ req[r].pc = "answer"
    BY <1>1 DEF IInv, Deliver
  <2>2. req[r].set # "none" => jar' = req[r].out
    BY <1>1 DEF Deliver
  <2> QED
    BY <2>1, <2>2, <1>1 DEF RecordOK, Answered
<1>2. IInv /\ [Next]_vars =>
        [\A r \in Reqs : Deliver(r) /\ req[r].wrote =>
             IF req[r].data = Nothing THEN jar' = NoCookie
             ELSE jar' # NoCookie /\ jar'.data = req[r].data]_vars
  BY <1>1
<1> QED
  BY Invariant, <1>2, PTL DEF Spec, WritesReachBrowser

\* Dropping the fallback keys loses no session signed since the last rotation.
THEOREM DropSurvived == Spec => SurvivesDrop
<1>1. ASSUME IInv, NEW r \in Reqs, open_session(r), req[r].cookie # NoCookie,
             req[r].cookie.under = secret, now - req[r].cookie.at <= Lifetime
      PROVE  req'[r].data = req[r].cookie.data
  <2> DEFINE s == req[r]
             d == IF s.cookie # NoCookie /\ secret # NoKey /\ Verifies(s.cookie)
                  THEN s.cookie.data ELSE Nothing
             t == [s EXCEPT !.pc = "view", !.null = (secret = NoKey), !.data = d]
  <2>1. RecordOK(s) /\ DOMAIN req = Reqs /\ Upd(r, t)
    BY <1>1 DEF IInv, open_session
  <2>2. s.cookie.key = secret /\ secret # NoKey
    BY <2>1, <1>1, BoundAssumption DEF RecordOK, Genuine, NoKey
  <2>3. Verifies(s.cookie)
    BY <2>2, <1>1 DEF Verifies
  <2>4. t.data = s.cookie.data
    BY <2>1, <2>2, <2>3, <1>1 DEF RecordOK, Fields
  <2> QED
    BY <2>1, <2>4 DEF Upd
<1>2. IInv /\ [Next]_vars =>
        [\A r \in Reqs : LET c == req[r].cookie IN
             open_session(r) /\ c # NoCookie /\ c.under = secret /\ now - c.at <= Lifetime
                 => req'[r].data = c.data]_vars
  BY <1>1
<1> QED
  BY Invariant, <1>2, PTL DEF Spec, SurvivesDrop

-----------------------------------------------------------------------------
(* Flashed messages, while requests come one after the other: each is in    *)
(* the browser's cookie, in the session of the one request that runs, or    *)
(* pulled.                                                                 *)

\* A message is named by the request that flashed it, its place there and its
\* category.
Messages == Reqs \X Nat \X Categories
Msgs(d)  == Elems(Flashes(d))
HeldBy(c) == IF c = NoCookie THEN {} ELSE Msgs(c.data)
ToldBy(S) == {p[1] : p \in S}
Carried == HeldBy(jar)
Pulled  == shown \cup filtered
Told == ToldBy(Pulled)

\* Messages that were flashed by operations before those that R, the records
\* of the requests, has still to come.
PastIn(M, R) == M \subseteq Messages /\ \A m \in M : m[2] < R[m[1]].ops

DataIn(d, R)   == Flashes(d) \in Seq(Messages) /\ PastIn(Msgs(d), R)
CookieIn(c, R) == c # NoCookie => DataIn(c.data, R)

\* The answer says what became of the session, whatever the view did.
StageOf(s) ==
    /\ s.pc = "idle" => s.ops = 0
    /\ s.pc = "answer" =>
          IF s.set = "none" THEN ~s.modified
          ELSE IF s.data = Nothing THEN s.out = NoCookie
          ELSE s.out # NoCookie /\ s.out.data = s.data

DatedIn(s, R) ==
    /\ s.ops \in Nat
    /\ DataIn(s.data, R) /\ PastIn(Elems(s.cached), R)
    /\ CookieIn(s.cookie, R) /\ CookieIn(s.out, R)

Keyless(s, k) == k = NoKey => s.out = NoCookie

\* Whatever is lost or overlaps, all messages anywhere were flashed before.
Dated ==
    /\ PastIn(Told, req)
    /\ CookieIn(jar, req)
    /\ secret = NoKey => jar = NoCookie
    /\ \A r \in Reqs : DatedIn(req[r], req) /\ StageOf(req[r]) /\ Keyless(req[r], secret)

Signers       == fallbacks \cup {secret}
Current(c, K) == c # NoCookie => c.key \in K
Opened(r)     == req[r].pc \in {"view", "answer"}

\* The session of request r, with record s, has what the browser has in its
\* cookie c and what was flashed, but for the messages of S, which were pulled.
TurnOf(s, r, c, S) ==
    /\ s.pc = "sent" => s.cookie = c /\ s.posted = {} /\ s.cached = <<>>
    /\ s.pc \in {"view", "answer"} =>
          /\ HeldBy(c) \cup s.posted \subseteq Msgs(s.data) \cup ToldBy(S)
          /\ Msgs(s.data) \cap ToldBy(S) = {}
          /\ ~s.modified => Msgs(s.data) = HeldBy(c) /\ s.posted = {}
          /\ \A m \in Elems(s.cached) : <<m, r>> \in S

Alone == \A p, q \in Reqs : Active(p) /\ Active(q) => p = q
Once  == \A p, q \in Pulled : p[1] = q[1] => p = q
Fresh == Current(jar, Signers) /\ \A r \in Reqs : Current(req[r].out, Signers)

\* What holds as long as requests come one after the other and nothing is lost.
Quiet ==
    /\ now <= Lifetime
    /\ Fresh
    /\ Alone
    /\ Once
    /\ flashed \subseteq Told \cup Carried
    /\ \A r \in Reqs : TurnOf(req[r], r, jar, Pulled)
    /\ (\A r \in Reqs : ~Opened(r)) => Carried \cap Told = {}

ToldInv == IInv /\ Dated /\ (~disturbed => Quiet)

-----------------------------------------------------------------------------
\* No messages are in an empty session, and none in a request not begun.
LEMMA NothingFlashed == Flashes(Nothing) = <<>> /\ Msgs(Nothing) = {} /\ Elems(<<>>) = {}
BY NothingKeys DEF Flashes, Msgs, Elems

LEMMA IdleMessages ==
    /\ Idle.ops = 0 /\ Idle.cached = <<>> /\ Idle.posted = {}
    /\ \A R : DatedIn(Idle, R)
    /\ StageOf(Idle) /\ \A k : Keyless(Idle, k)
<1>1. Idle.ops = 0 /\ Idle.cached = <<>> /\ Idle.posted = {}
  BY DEF Idle
<1>2. \A R : PastIn({}, R)
  BY DEF PastIn
<1>3. Flashes(Nothing) \in Seq(Messages)
  BY NothingFlashed
<1>4. ASSUME NEW R PROVE DatedIn(Idle, R)
  <2>1. Idle.ops \in Nat
    BY <1>1
  <2>2. DataIn(Idle.data, R)
    BY <1>2, <1>3, NothingFlashed, IdleFields DEF DataIn
  <2>3. PastIn(Elems(Idle.cached), R)
    BY <1>1, <1>2, NothingFlashed
  <2> QED
    BY <2>1, <2>2, <2>3, IdleFields DEF DatedIn, CookieIn
<1> QED
  BY <1>1, <1>4, IdleFields DEF StageOf, Keyless

LEMMA InitTells == Init => ToldInv
<1> SUFFICES ASSUME Init PROVE ToldInv
  OBVIOUS
<1>1. IInv
  BY InitInv
<1>2. \A r \in Reqs : req[r] = Idle
  BY DEF Init
<1>3. /\ jar = NoCookie /\ now = 0 /\ shown = {} /\ filtered = {} /\ flashed = {}
  BY DEF Init
<1>4. Told = {} /\ Carried = {} /\ PastIn(Told, req)
  BY <1>3 DEF Told, Pulled, Carried, ToldBy, HeldBy, PastIn
<1>5. Dated
  BY <1>2, <1>3, <1>4, IdleMessages DEF Dated, CookieIn
<1>6. Alone /\ \A r \in Reqs : TurnOf(req[r], r, jar, Pulled)
  BY <1>2, IdleFields DEF Alone, Active, TurnOf
<1>7. Fresh /\ Once
  BY <1>2, <1>3, IdleFields DEF Fresh, Current, Once, Pulled
<1>8. now <= Lifetime
  BY <1>3, BoundAssumption
<1> QED
  BY <1>1, <1>3, <1>4, <1>5, <1>6, <1>7, <1>8 DEF ToldInv, Quiet

-----------------------------------------------------------------------------
\* A step of one request leaves every other record, and no message gets younger.
LEMMA OthersStay ==
    ASSUME IInv, Dated, NEW r \in Reqs, NEW s, Upd(r, s), s.ops \in Nat, req[r].ops <= s.ops
    PROVE  /\ req'[r] = s /\ \A q \in Reqs \ {r} : req'[q] = req[q]
           /\ \A M : PastIn(M, req) => PastIn(M, req')
<1>1. req'[r] = s /\ \A q \in Reqs \ {r} : req'[q] = req[q]
  BY DEF IInv, Upd
<1>2. \A q \in Reqs : req[q].ops \in Nat /\ req'[q].ops \in Nat /\ req[q].ops <= req'[q].ops
  <2>1. ASSUME NEW q \in Reqs PROVE req[q].ops \in Nat /\ req'[q].ops \in Nat /\ req[q].ops <= req'[q].ops
    <3>1. req[q].ops \in Nat
      BY DEF Dated, DatedIn
    <3>2. CASE q = r
      BY <3>1, <3>2, <1>1
    <3>3. CASE q # r
      BY <3>1, <3>3, <1>1
    <3> QED
      BY <3>2, <3>3
  <2> QED
    BY <2>1
<1>3. ASSUME NEW M, PastIn(M, req) PROVE PastIn(M, req')
  <2>1. ASSUME NEW m \in M PROVE m[2] < req'[m[1]].ops
    <3>1. m[1] \in Reqs /\ m[2] \in Nat /\ m[2] < req[m[1]].ops
      BY <1>3 DEF PastIn, Messages
    <3> QED
      BY <3>1, <1>2
  <2> QED
    BY <1>3, <2>1 DEF PastIn
<1> QED
  BY <1>1, <1>3

\* A step of one request that leaves a good record keeps the messages dated.
LEMMA DatedStep ==
    ASSUME IInv, Dated, NEW r \in Reqs, NEW s, Upd(r, s), UNCHANGED server,
           s.ops \in Nat, req[r].ops <= s.ops,
           DatedIn(s, req'), StageOf(s), Keyless(s, secret),
           PastIn(Told, req) => PastIn(Told', req'),
           jar' = jar \/ (jar' = req[r].out)
    PROVE  Dated'
<1>1. /\ req'[r] = s /\ \A q \in Reqs \ {r} : req'[q] = req[q]
      /\ \A M : PastIn(M, req) => PastIn(M, req')
  BY OthersStay
<1>2. ASSUME NEW d, DataIn(d, req) PROVE DataIn(d, req')
  BY <1>1, <1>2 DEF DataIn
<1>3. ASSUME NEW c, CookieIn(c, req) PROVE CookieIn(c, req')
  BY <1>2, <1>3 DEF CookieIn
<1>4. ASSUME NEW q \in Reqs
      PROVE  DatedIn(req'[q], req') /\ StageOf(req'[q]) /\ Keyless(req'[q], secret')
  <2>1. CASE q = r
    <3>1. secret' = secret
      BY DEF server
    <3> QED
      BY <2>1, <3>1, <1>1
  <2>2. CASE q # r
    <3>1. DatedIn(req[q], req) /\ StageOf(req[q]) /\ Keyless(req[q], secret) /\ req'[q] = req[q]
      BY <2>2, <1>1 DEF Dated
    <3>2. DatedIn(req[q], req')
      BY <3>1, <1>1, <1>2, <1>3 DEF DatedIn
    <3>3. secret' = secret
      BY DEF server
    <3> QED
      BY <3>1, <3>2, <3>3
  <2> QED
    BY <2>1, <2>2
<1>5. CookieIn(jar', req') /\ (secret' = NoKey => jar' = NoCookie)
  <2>1. CookieIn(jar, req) /\ CookieIn(req[r].out, req)
    BY DEF Dated, DatedIn
  <2>2. secret' = NoKey => jar = NoCookie /\ req[r].out = NoCookie
    BY DEF Dated, Keyless, server
  <2> QED
    BY <2>1, <2>2, <1>3
<1>6. PastIn(Told', req')
  BY DEF Dated
<1> QED
  BY <1>4, <1>5, <1>6 DEF Dated, StageOf

\* A step of one request after which everything is still quiet, when the
\* cookie, the clock and the keys stay as they are.
LEMMA QuietStep ==
    ASSUME IInv, Quiet, NEW r \in Reqs, NEW s, Upd(r, s), UNCHANGED server, jar' = jar,
           Pulled \subseteq Pulled', Once', flashed' = flashed,
           Current(s.out, Signers), TurnOf(s, r, jar, Pulled'),
           \A q \in Reqs \ {r} : ~Active(q),
           s.pc \notin {"view", "answer"} => Carried \cap Told' = {}
    PROVE  Quiet'
<1>1. req'[r] = s /\ \A q \in Reqs \ {r} : req'[q] = req[q]
  BY DEF IInv, Upd
<1>2. Alone'
  BY <1>1 DEF Alone, Active
<1>3. Carried' = Carried /\ Told \subseteq Told' /\ Signers' = Signers
  BY DEF Carried, HeldBy, Told, ToldBy, Signers, server
<1>4. Fresh'
  <2>1. Current(jar', Signers')
    BY <1>3 DEF Quiet, Fresh
  <2>2. ASSUME NEW q \in Reqs PROVE Current(req'[q].out, Signers')
    <3>1. CASE q = r
      BY <3>1, <1>1, <1>3
    <3>2. CASE q # r
      BY <3>2, <1>1, <1>3 DEF Quiet, Fresh
    <3> QED
      BY <3>1, <3>2
  <2> QED
    BY <2>1, <2>2 DEF Fresh
<1>5. ASSUME NEW q \in Reqs PROVE TurnOf(req'[q], q, jar', Pulled')
  <2>1. CASE q = r
    BY <2>1, <1>1
  <2>2. CASE q # r
    BY <2>2, <1>1 DEF TurnOf, Active
  <2> QED
    BY <2>1, <2>2
<1>6. (\A q \in Reqs : ~Opened(q))' => (Carried \cap Told = {})'
  BY <1>1, <1>3 DEF Opened
<1>7. now' <= Lifetime /\ flashed' \subseteq Told' \cup Carried'
  BY <1>3 DEF Quiet, server
<1> QED
  BY <1>2, <1>4, <1>5, <1>6, <1>7 DEF Quiet

\* The cookie in the browser can be verified as long as nothing was disturbed.
LEMMA JarVerified == ASSUME IInv, Quiet, jar # NoCookie PROVE Verifies(jar)
<1>1. jar.key \in fallbacks \cup {secret}
  BY DEF Quiet, Fresh, Current, Signers
<1>2. now - jar.at <= Lifetime
  <2>1. now \in Nat /\ jar.at \in Nat /\ now <= Lifetime
    BY BoundAssumption DEF IInv, ServerOK, Genuine, Quiet
  <2> QED
    BY <2>1, BoundAssumption
<1> QED
  BY <1>1, <1>2 DEF Verifies

LEMMA SendTells ==
    ASSUME ToldInv, NEW r \in Reqs, Send(r)
    PROVE  Dated' /\ (~disturbed' => Quiet')
<1> DEFINE s == [Idle EXCEPT !.pc = "sent", !.cookie = jar]
<1>1. /\ s.pc = "sent" /\ s.cookie = jar /\ s.data = Nothing /\ s.out = NoCookie
      /\ s.ops = 0 /\ s.cached = <<>> /\ s.posted = {}
  BY IdleFields, IdleMessages DEF Fields
<1> HIDE DEF s
<1>2. /\ Upd(r, s) /\ UNCHANGED server /\ jar' = jar /\ flashed' = flashed /\ Pulled' = Pulled
      /\ disturbed' = (disturbed \/ \E q \in Reqs : Active(q))
  BY DEF Send, s, Pulled
<1>3. IInv /\ Dated /\ disturbed \in BOOLEAN
  BY DEF ToldInv, IInv
<1>4. Dated'
  <2>1. req[r].ops = 0
    BY <1>3 DEF Send, Dated, StageOf
  <2>2. s.ops \in Nat /\ req[r].ops <= s.ops
    BY <2>1, <1>1
  <2>3. \A M : PastIn(M, req) => PastIn(M, req')
    BY <2>2, <1>2, <1>3, OthersStay
  <2>4. DatedIn(s, req')
    <3>1. CookieIn(jar, req')
      BY <2>3, <1>3 DEF Dated, CookieIn, DataIn
    <3>2. PastIn({}, req')
      BY DEF PastIn
    <3>3. DataIn(s.data, req')
      BY <3>2, <1>1, NothingFlashed DEF DataIn
    <3>4. PastIn(Elems(s.cached), req')
      BY <3>2, <1>1, NothingFlashed
    <3> QED
      BY <2>2, <3>1, <3>3, <3>4, <1>1 DEF DatedIn, CookieIn
  <2>5. PastIn(Told, req) => PastIn(Told', req')
    BY <2>3, <1>2 DEF Told
  <2> QED
    BY <2>2, <2>4, <2>5, <1>1, <1>2, <1>3, DatedStep DEF StageOf, Keyless
<1>5. ASSUME ~disturbed' PROVE Quiet'
  <2>1. Quiet /\ \A q \in Reqs : ~Active(q)
    BY <1>2, <1>3, <1>5 DEF ToldInv
  <2>2. TurnOf(s, r, jar, Pulled')
    BY <1>1 DEF TurnOf
  <2>3. Carried \cap Told' = {}
    BY <2>1, <1>2 DEF Quiet, Opened, Active, Told
  <2>4. Once' /\ Current(s.out, Signers)
    BY <2>1, <1>1, <1>2 DEF Quiet, Once, Current
  <2> QED
    BY <2>1, <2>2, <2>3, <2>4, <1>2, <1>3, QuietStep
<1> QED
  BY <1>4, <1>5

\* A record that keeps what it knew of messages keeps its dates.
LEMMA SameDates ==
    ASSUME ToldInv, NEW r \in Reqs, NEW s, Upd(r, s), s.ops = req[r].ops,
           Elems(s.cached) = Elems(req[r].cached), s.cookie = req[r].cookie,
           DataIn(s.data, req), CookieIn(s.out, req)
    PROVE  /\ s.ops \in Nat /\ req[r].ops <= s.ops /\ DatedIn(s, req')
           /\ \A M : PastIn(M, req) => PastIn(M, req')
<1>0. DatedIn(req[r], req) /\ IInv /\ Dated
  BY DEF ToldInv, Dated
<1>1. s.ops \in Nat /\ req[r].ops <= s.ops
  BY <1>0 DEF DatedIn
<1>2. \A M : PastIn(M, req) => PastIn(M, req')
  BY <1>0, <1>1, OthersStay
<1>3. \A d : DataIn(d, req) => DataIn(d, req')
  BY <1>2 DEF DataIn
<1>4. \A c : CookieIn(c, req) => CookieIn(c, req')
  BY <1>3 DEF CookieIn
<1>5. DatedIn(s, req')
  BY <1>0, <1>1, <1>2, <1>3, <1>4 DEF DatedIn
<1> QED
  BY <1>1, <1>2, <1>5

\* While nothing was disturbed, the other requests rest when one steps.
LEMMA OthersRest ==
    ASSUME ToldInv, ~disturbed, NEW r \in Reqs, Active(r)
    PROVE  Quiet /\ \A q \in Reqs \ {r} : ~Active(q)
BY DEF ToldInv, Quiet, Alone

LEMMA OpenTells ==
    ASSUME ToldInv, NEW r \in Reqs, open_session(r)
    PROVE  Dated' /\ (~disturbed' => Quiet')
<1> DEFINE o == req[r]
           d == IF o.cookie # NoCookie /\ secret # NoKey /\ Verifies(o.cookie)
                THEN o.cookie.data ELSE Nothing
           s == [o EXCEPT !.pc = "view", !.null = (secret = NoKey), !.data = d]
<1>0. IInv /\ Dated /\ RecordOK(o) /\ o.pc = "sent"
  BY DEF ToldInv, IInv, open_session
<1>1. /\ s.pc = "view" /\ s.data = d /\ s.cookie = o.cookie /\ s.out = o.out
      /\ s.ops = o.ops /\ s.cached = o.cached /\ s.posted = o.posted /\ s.modified = o.modified
  BY <1>0 DEF RecordOK, Fields
<1>2. /\ Upd(r, s) /\ UNCHANGED server /\ jar' = jar /\ flashed' = flashed /\ Pulled' = Pulled
      /\ disturbed' = disturbed
  BY DEF open_session, Pulled
<1>3. DataIn(d, req) /\ CookieIn(o.out, req)
  <2>1. DatedIn(o, req)
    BY <1>0 DEF Dated
  <2>2. DataIn(Nothing, req)
    BY NothingFlashed DEF DataIn, PastIn
  <2> QED
    BY <2>1, <2>2 DEF DatedIn, CookieIn
<1>4. Dated'
  <2> HIDE DEF s
  <2>1. /\ s.ops \in Nat /\ o.ops <= s.ops /\ DatedIn(s, req')
        /\ \A M : PastIn(M, req) => PastIn(M, req')
    BY <1>1, <1>2, <1>3, SameDates
  <2>2. PastIn(Told, req) => PastIn(Told', req')
    BY <2>1, <1>2 DEF Told
  <2>3. Keyless(s, secret) /\ StageOf(s)
    BY <1>0, <1>1 DEF Dated, Keyless, StageOf
  <2> QED
    BY <2>1, <2>2, <2>3, <1>0, <1>2, DatedStep
<1>5. ASSUME ~disturbed' PROVE Quiet'
  <2>1. Quiet /\ \A q \in Reqs \ {r} : ~Active(q)
    BY <1>2, <1>5, <1>0, OthersRest DEF Active
  <2>2. o.cookie = jar /\ o.posted = {} /\ o.cached = <<>> /\ ~o.modified
    BY <2>1, <1>0 DEF Quiet, TurnOf, RecordOK, Tracked
  <2>3. Carried \cap Told = {}
    <3>1. \A q \in Reqs : ~Opened(q)
      BY <2>1, <1>0 DEF Opened, Active
    <3> QED
      BY <2>1, <3>1 DEF Quiet
  <2>4. Msgs(d) = Carried
    <3>1. CASE jar = NoCookie
      BY <3>1, <2>2, NothingFlashed DEF Carried, HeldBy
    <3>2. CASE jar # NoCookie
      <4>1. Verifies(jar) /\ secret # NoKey
        BY <3>2, <2>1, <1>0, JarVerified DEF Dated
      <4> QED
        BY <4>1, <3>2, <2>2 DEF Carried, HeldBy
    <3> QED
      BY <3>1, <3>2
  <2>5. TurnOf(s, r, jar, Pulled')
    <3> HIDE DEF s, d
    <3>1. HeldBy(jar) = Carried /\ ToldBy(Pulled') = Told
      BY <1>2 DEF Carried, Told
    <3> QED
      BY <3>1, <2>2, <2>3, <2>4, <1>1, NothingFlashed DEF TurnOf
  <2>6. Current(s.out, Signers)
    BY <2>1, <1>1 DEF Quiet, Fresh
  <2>7. Once' /\ Pulled \subseteq Pulled'
    BY <2>1, <1>2 DEF Quiet, Once
  <2> HIDE DEF s
  <2> QED
    BY <2>1, <2>5, <2>6, <2>7, <1>0, <1>1, <1>2, QuietStep
<1> QED
  BY <1>4, <1>5

\* A null session has nothing to save, and leaves the browser's cookie.
LEMMA FailsTells ==
    ASSUME ToldInv, NEW r \in Reqs, Fails(r)
    PROVE  Dated' /\ (~disturbed' => Quiet')
<1> DEFINE o == req[r]
           s == [o EXCEPT !.pc = "answer"]
<1>0. IInv /\ Dated /\ RecordOK(o) /\ o.pc = "view" /\ o.null
  BY DEF ToldInv, IInv, Fails
<1>1. /\ s.pc = "answer" /\ s.data = o.data /\ s.cookie = o.cookie /\ s.out = o.out
      /\ s.ops = o.ops /\ s.cached = o.cached /\ s.posted = o.posted
      /\ s.modified = o.modified /\ s.set = o.set
  BY <1>0 DEF RecordOK, Fields
<1>2. /\ Upd(r, s) /\ UNCHANGED server /\ jar' = jar /\ flashed' = flashed /\ Pulled' = Pulled
      /\ disturbed' = disturbed
  BY DEF Fails, Pulled
<1>3. DataIn(o.data, req) /\ CookieIn(o.out, req)
  BY <1>0 DEF Dated, DatedIn
<1> HIDE DEF s
<1>4. Dated'
  <2>1. /\ s.ops \in Nat /\ o.ops <= s.ops /\ DatedIn(s, req')
        /\ \A M : PastIn(M, req) => PastIn(M, req')
    BY <1>1, <1>2, <1>3, SameDates
  <2>2. PastIn(Told, req) => PastIn(Told', req')
    BY <2>1, <1>2 DEF Told
  <2>3. Keyless(s, secret) /\ StageOf(s)
    BY <1>0, <1>1 DEF Dated, Keyless, StageOf, RecordOK, Tracked
  <2> QED
    BY <2>1, <2>2, <2>3, <1>0, <1>2, DatedStep
<1>5. ASSUME ~disturbed' PROVE Quiet'
  <2>1. Quiet /\ \A q \in Reqs \ {r} : ~Active(q)
    BY <1>2, <1>5, <1>0, OthersRest DEF Active
  <2>2. TurnOf(s, r, jar, Pulled')
    BY <2>1, <1>0, <1>1, <1>2 DEF Quiet, TurnOf
  <2>3. Current(s.out, Signers) /\ Once' /\ Pulled \subseteq Pulled'
    BY <2>1, <1>1, <1>2 DEF Quiet, Fresh, Once
  <2> QED
    BY <2>1, <2>2, <2>3, <1>0, <1>1, <1>2, QuietStep
<1> QED
  BY <1>4, <1>5

LEMMA SaveTells ==
    ASSUME ToldInv, NEW r \in Reqs, save_session(r)
    PROVE  Dated' /\ (~disturbed' => Quiet')
<1> DEFINE o == req[r]
           empty == o.data = Nothing
           set == IF o.null THEN "none"
                  ELSE IF empty THEN (IF o.modified THEN "delete" ELSE "none")
                  ELSE IF should_set_cookie(o) THEN "cookie" ELSE "none"
           out == IF set = "cookie" THEN Signed(o.data) ELSE NoCookie
           vary == ~o.null /\ (o.accessed \/ set # "none")
           s == [o EXCEPT !.pc = "answer", !.set = set, !.out = out, !.vary = vary]
<1>0. IInv /\ Dated /\ ServerOK /\ RecordOK(o) /\ o.pc = "view"
  BY DEF ToldInv, IInv, save_session
<1>1. /\ s.pc = "answer" /\ s.data = o.data /\ s.cookie = o.cookie /\ s.out = out
      /\ s.ops = o.ops /\ s.cached = o.cached /\ s.posted = o.posted
      /\ s.modified = o.modified /\ s.set = set
  BY <1>0 DEF RecordOK, Fields
<1>2. /\ Upd(r, s) /\ UNCHANGED server /\ jar' = jar /\ flashed' = flashed /\ Pulled' = Pulled
      /\ disturbed' = disturbed
  BY DEF save_session, Pulled
<1>3. set = "cookie" => /\ ~empty /\ secret # NoKey
                        /\ Signed(o.data) # NoCookie /\ Signed(o.data).data = o.data
                        /\ Signed(o.data).key = secret
  <2>1. set = "cookie" => ~o.null /\ ~empty
    OBVIOUS
  <2>2. ~o.null => secret # NoKey
    BY <1>0 DEF RecordOK, Tracked
  <2>3. Signed(o.data).key = secret
    BY DEF Signed, SigningKey
  <2> QED
    BY <2>1, <2>2, <2>3, <1>0, SignedGenuine DEF RecordOK
<1>4. DataIn(o.data, req) /\ CookieIn(out, req)
  BY <1>0, <1>3 DEF Dated, DatedIn, CookieIn
<1>5. StageOf(s) /\ Keyless(s, secret)
  <2>1. set = "none" => ~o.modified
    BY <1>0 DEF RecordOK, Tracked, should_set_cookie
  <2>2. set = "delete" => empty
    OBVIOUS
  <2>3. set \in {"none", "delete", "cookie"}
    OBVIOUS
  <2> HIDE DEF s, set
  <2> QED
    BY <2>1, <2>2, <2>3, <1>1, <1>3 DEF StageOf, Keyless
<1>6. Current(out, Signers)
  BY <1>3 DEF Current, Signers
<1> HIDE DEF s, out, set
<1>7. Dated'
  <2>1. /\ s.ops \in Nat /\ o.ops <= s.ops /\ DatedIn(s, req')
        /\ \A M : PastIn(M, req) => PastIn(M, req')
    BY <1>1, <1>2, <1>4, SameDates
  <2>2. PastIn(Told, req) => PastIn(Told', req')
    BY <2>1, <1>2 DEF Told
  <2> QED
    BY <2>1, <2>2, <1>0, <1>2, <1>5, DatedStep
<1>8. ASSUME ~disturbed' PROVE Quiet'
  <2>1. Quiet /\ \A q \in Reqs \ {r} : ~Active(q)
    BY <1>2, <1>8, <1>0, OthersRest DEF Active
  <2>2. TurnOf(s, r, jar, Pulled')
    BY <2>1, <1>0, <1>1, <1>2 DEF Quiet, TurnOf
  <2>3. Current(s.out, Signers) /\ Once' /\ Pulled \subseteq Pulled'
    BY <2>1, <1>1, <1>2, <1>6 DEF Quiet, Once
  <2> QED
    BY <2>1, <2>2, <2>3, <1>0, <1>1, <1>2, QuietStep
<1> QED
  BY <1>7, <1>8

LEMMA ToldMore ==
    ASSUME NEW S, NEW N, NEW r, NEW T,
           \A p : p \in T <=> p \in S \/ \E m \in N : p = <<m, r>>
    PROVE  ToldBy(T) = ToldBy(S) \cup N
<1>1. ASSUME NEW x \in ToldBy(T) PROVE x \in ToldBy(S) \cup N
  <2>1. PICK p \in T : x = p[1]
    BY DEF ToldBy
  <2>2. CASE p \in S
    BY <2>1, <2>2 DEF ToldBy
  <2>3. CASE \E m \in N : p = <<m, r>>
    BY <2>1, <2>3
  <2> QED
    BY <2>1, <2>2, <2>3
<1>2. ASSUME NEW x \in ToldBy(S) PROVE x \in ToldBy(T)
  BY <1>2 DEF ToldBy
<1>3. ASSUME NEW x \in N PROVE x \in ToldBy(T)
  <2>1. <<x, r>> \in T /\ <<x, r>>[1] = x
    BY <1>3
  <2> QED
    BY <2>1 DEF ToldBy
<1> QED
  BY <1>1, <1>2, <1>3

\* What a call pulls, it displays or leaves out.
LEMMA ReturnsAll ==
    ASSUME NEW r, NEW M, NEW filter, Returns(r, M, filter)
    PROVE  Pulled' = Pulled \cup {<<m, r>> : m \in M}
<1>1. Matching(M, filter) \subseteq M
  BY DEF Matching
<1>2. {<<m, r>> : m \in M} = {<<m, r>> : m \in Matching(M, filter)}
                              \cup {<<m, r>> : m \in M \ Matching(M, filter)}
  BY <1>1
<1> QED
  BY <1>2 DEF Returns, Pulled

LEMMA NoneFlashed == \A r : {} \subseteq {Message(r, x) : x \in Categories}
OBVIOUS

\* An operation of the view that pulls the messages N, which were in the
\* session or had been pulled before, and loses none.
LEMMA ViewStep ==
    ASSUME ToldInv, NEW r \in Reqs, NEW s, NEW N, NEW P, Touch(r, s),
           P \subseteq {Message(r, x) : x \in Categories},
           DOMAIN s = Fields, s.pc = "view", s.ops = req[r].ops,
           s.cookie = req[r].cookie, s.out = req[r].out,
           Flashes(s.data) \in Seq(Messages),
           Msgs(s.data) \subseteq Msgs(req[r].data) \cup P,
           Elems(s.cached) \subseteq Elems(req[r].cached) \cup N,
           N \subseteq Elems(req[r].cached) \cup Msgs(req[r].data),
           Msgs(s.data) \cap N \subseteq Elems(req[r].cached),
           Pulled' = Pulled \cup {<<m, r>> : m \in N},
           disturbed => disturbed',
           ~s.modified => /\ ~req[r].modified /\ s.posted = req[r].posted
                          /\ Msgs(s.data) = Msgs(req[r].data),
           s.posted \subseteq req[r].posted \cup Msgs(s.data),
           ~disturbed' => Msgs(req[r].data) \subseteq Msgs(s.data) \cup N
    PROVE  Dated' /\ (~disturbed' => Quiet')
<1> DEFINE o == req[r]
           t == [s EXCEPT !.ops = @ + 1, !.accessed = TRUE, !.used = TRUE]
<1>0. IInv /\ Dated /\ RecordOK(o) /\ o.pc = "view"
  BY DEF ToldInv, IInv, Touch
<1>1. /\ t.pc = "view" /\ t.data = s.data /\ t.cookie = o.cookie /\ t.out = o.out
      /\ t.ops = o.ops + 1 /\ t.cached = s.cached /\ t.posted = s.posted
      /\ t.modified = s.modified
  BY DEF Fields
<1>2. Upd(r, t) /\ UNCHANGED server /\ jar' = jar /\ flashed' = flashed
  BY DEF Touch
<1> HIDE DEF t
<1>3. o.ops \in Nat /\ t.ops \in Nat /\ o.ops <= t.ops /\ o.ops < t.ops
  <2>1. o.ops \in Nat
    BY <1>0 DEF Dated, DatedIn
  <2> QED
    BY <2>1, <1>1
<1>4. /\ req'[r] = t
      /\ \A M : PastIn(M, req) => PastIn(M, req')
  BY <1>0, <1>2, <1>3, OthersStay
<1>5. /\ PastIn(Msgs(o.data), req') /\ PastIn(Elems(o.cached), req') /\ PastIn(Told, req')
      /\ PastIn(P, req')
  <2>1. PastIn(Msgs(o.data), req) /\ PastIn(Elems(o.cached), req) /\ PastIn(Told, req)
    BY <1>0 DEF Dated, DatedIn, DataIn
  <2>2. \A y \in P : \E x \in Categories : y = <<r, o.ops, x>>
    BY DEF Message
  <2>3. ASSUME NEW x \in Categories, NEW y, y = <<r, o.ops, x>>
        PROVE  y \in Messages /\ y[1] = r /\ y[2] = o.ops
    BY <2>3, <1>3 DEF Messages
  <2>4. PastIn(P, req')
    BY <2>2, <2>3, <1>3, <1>4 DEF PastIn
  <2> QED
    BY <2>1, <2>4, <1>4
<1>6. /\ PastIn(Msgs(s.data), req') /\ PastIn(N, req') /\ PastIn(Elems(s.cached), req')
  BY <1>5 DEF PastIn
<1>7. Told' = Told \cup N
  <2>1. \A p : p \in Pulled' <=> p \in Pulled \/ \E m \in N : p = <<m, r>>
    OBVIOUS
  <2>2. ToldBy(Pulled') = ToldBy(Pulled) \cup N
    BY ONLY <2>1, ToldMore
  <2> QED
    BY <2>2 DEF Told
<1>8. Dated'
  <2>1. DatedIn(t, req')
    <3>1. DataIn(t.data, req')
      BY <1>1, <1>6 DEF DataIn
    <3>2. CookieIn(t.cookie, req') /\ CookieIn(t.out, req')
      <4>1. CookieIn(o.cookie, req) /\ CookieIn(o.out, req)
        BY <1>0 DEF Dated, DatedIn
      <4> QED
        BY <4>1, <1>1, <1>4 DEF CookieIn, DataIn
    <3> QED
      BY <3>1, <3>2, <1>1, <1>3, <1>6 DEF DatedIn
  <2>2. PastIn(Told', req')
    BY <1>5, <1>6, <1>7 DEF PastIn
  <2>3. StageOf(t) /\ Keyless(t, secret)
    BY <1>0, <1>1 DEF Dated, Keyless, StageOf
  <2> QED
    BY <2>1, <2>2, <2>3, <1>0, <1>2, <1>3, DatedStep
<1>9. ASSUME ~disturbed' PROVE Quiet'
  <2>1. Quiet /\ \A q \in Reqs \ {r} : ~Active(q)
    BY <1>9, <1>0, OthersRest DEF Active
  <2>2. TurnOf(o, r, jar, Pulled)
    BY <2>1 DEF Quiet
  <2>3. /\ Carried \cup o.posted \subseteq Msgs(o.data) \cup Told
        /\ Msgs(o.data) \cap Told = {}
        /\ ~o.modified => Msgs(o.data) = Carried /\ o.posted = {}
        /\ \A m \in Elems(o.cached) : <<m, r>> \in Pulled
    BY <2>2, <1>0 DEF TurnOf, Carried, Told
  <2>4. P \cap Told = {}
    <3>1. PastIn(Told, req) /\ o.ops \in Nat
      BY <1>0, <1>3 DEF Dated
    <3>2. ASSUME NEW x, NEW y, y = <<r, o.ops, x>> PROVE y[1] = r /\ y[2] = o.ops
      BY <3>2
    <3>3. \A y \in P : \E x \in Categories : y = <<r, o.ops, x>>
      BY DEF Message
    <3>4. \A y \in P : y[1] = r /\ y[2] = o.ops
      BY <3>2, <3>3
    <3> QED
      BY <3>1, <3>4 DEF PastIn
  <2>5. Elems(o.cached) \subseteq Told
    <3>1. ASSUME NEW m \in Elems(o.cached) PROVE m \in Told
      <4>1. <<m, r>> \in Pulled /\ <<m, r>>[1] = m
        BY <2>3
      <4> QED
        BY <4>1 DEF Told, ToldBy
    <3> QED
      BY <3>1
  <2>6. Msgs(s.data) \cap (Told \cup N) = {}
    BY <2>3, <2>4, <2>5
  <2>7. Carried \cup s.posted \subseteq Msgs(s.data) \cup (Told \cup N)
    BY <1>9, <2>3
  <2>8. ~s.modified => Msgs(s.data) = Carried /\ s.posted = {}
    BY <2>3
  <2>9. \A m \in Elems(s.cached) : <<m, r>> \in Pulled'
    BY <2>3
  <2>10. TurnOf(t, r, jar, Pulled')
    <3>1. ToldBy(Pulled') = Told \cup N /\ HeldBy(jar) = Carried
      BY <1>7 DEF Told, Carried
    <3> QED
      BY <3>1, <2>6, <2>7, <2>8, <2>9, <1>1 DEF TurnOf
  <2>11. Once'
    <3>1. ASSUME NEW p \in Pulled', NEW q \in Pulled', p[1] = q[1] PROVE p = q
      <4>1. \A m \in N : m \in Told => <<m, r>> \in Pulled
        BY <2>3
      <4>2. p \in Pulled \/ \E m \in N \ Told : p = <<m, r>>
        BY <4>1
      <4>3. q \in Pulled \/ \E m \in N \ Told : q = <<m, r>>
        BY <4>1
      <4>4. CASE p \in Pulled /\ q \in Pulled
        BY <4>4, <3>1, <2>1 DEF Quiet, Once
      <4>5. CASE p \in Pulled /\ q \notin Pulled
        <5>1. p[1] \in Told
          BY <4>5 DEF Told, ToldBy
        <5> QED
          BY <5>1, <4>3, <4>5, <3>1
      <4>6. CASE p \notin Pulled /\ q \in Pulled
        <5>1. q[1] \in Told
          BY <4>6 DEF Told, ToldBy
        <5> QED
          BY <5>1, <4>2, <4>6, <3>1
      <4>7. CASE p \notin Pulled /\ q \notin Pulled
        BY <4>2, <4>3, <4>7, <3>1
      <4> QED
        BY <4>4, <4>5, <4>6, <4>7
    <3> QED
      BY <3>1 DEF Once
  <2>12. Current(t.out, Signers) /\ Pulled \subseteq Pulled'
    BY <2>1, <1>1 DEF Quiet, Fresh
  <2> QED
    BY <2>1, <2>10, <2>11, <2>12, <1>0, <1>1, <1>2, QuietStep
<1> QED
  BY <1>8, <1>9

\* The messages of the dictionaries the operations make.
LEMMA PutFlashes == ASSUME NEW d, NEW v PROVE Flashes(Put(d, "_flashes", v)) = v
BY DEF Flashes, Put

LEMMA PutOther ==
    ASSUME NEW d, NEW k, k # "_flashes", NEW v
    PROVE  Flashes(Put(d, k, v)) = Flashes(d)
BY DEF Flashes, Put

LEMMA AppendElems ==
    ASSUME NEW T, NEW q \in Seq(T), NEW m \in T
    PROVE  Append(q, m) \in Seq(T) /\ Elems(Append(q, m)) = Elems(q) \cup {m}
<1>1. /\ Append(q, m) \in Seq(T) /\ Len(Append(q, m)) = Len(q) + 1 /\ Len(q) \in Nat
      /\ \A i \in 1..Len(q) : Append(q, m)[i] = q[i]
      /\ Append(q, m)[Len(q) + 1] = m
  OBVIOUS
<1>2. DOMAIN q = 1..Len(q) /\ DOMAIN Append(q, m) = 1..(Len(q) + 1)
  BY <1>1
<1>3. 1..(Len(q) + 1) = (1..Len(q)) \cup {Len(q) + 1}
  BY <1>1
<1> HIDE DEF Elems
<1>4. Elems(Append(q, m)) = {Append(q, m)[i] : i \in (1..Len(q)) \cup {Len(q) + 1}}
  BY <1>2, <1>3 DEF Elems
<1>5. Elems(q) = {q[i] : i \in 1..Len(q)}
  BY <1>2 DEF Elems
<1> QED
  BY <1>1, <1>4, <1>5

\* An operation that changes the session, but not its messages.
LEMMA ChangeTells ==
    ASSUME ToldInv, NEW r \in Reqs, NEW e, Flashes(e) = Flashes(req[r].data),
           Touch(r, Changed(r, e)), UNCHANGED <<shown, filtered, disturbed>>
    PROVE  Dated' /\ (~disturbed' => Quiet')
<1> DEFINE o == req[r]
           s == Changed(r, e)
<1>0. Dated /\ RecordOK(o) /\ o.pc = "view" /\ Flashes(o.data) \in Seq(Messages)
  BY DEF ToldInv, IInv, Touch, Dated, DatedIn, DataIn
<1>1. /\ DOMAIN s = Fields /\ s.pc = "view" /\ s.ops = o.ops /\ s.cookie = o.cookie
      /\ s.out = o.out /\ s.data = e /\ s.cached = o.cached /\ s.posted = o.posted
      /\ s.modified
  BY <1>0 DEF RecordOK, Fields, Changed
<1>2. Msgs(s.data) = Msgs(o.data) /\ Flashes(s.data) \in Seq(Messages)
  BY <1>0, <1>1 DEF Msgs
<1>3. Touch(r, s) /\ Pulled' = Pulled \cup {<<m, r>> : m \in {}}
  BY DEF Pulled
<1>4. disturbed => disturbed'
  OBVIOUS
<1> HIDE DEF s
<1> QED
  BY <1>1, <1>2, <1>3, <1>4, NoneFlashed, ViewStep

LEMMA ViewTells ==
    ASSUME ToldInv, NEW r \in Reqs, View(r)
    PROVE  Dated' /\ (~disturbed' => Quiet')
<1> DEFINE o == req[r]
           d == o.data
<1>0. /\ Dated /\ RecordOK(o) /\ Flashes(d) \in Seq(Messages) /\ DOMAIN o = Fields
  BY DEF ToldInv, IInv, Dated, DatedIn, DataIn, RecordOK
<1>1. CASE Read(r)
  <2>1. Touch(r, o) /\ o.pc = "view" /\ UNCHANGED <<shown, filtered, disturbed>>
    BY <1>1 DEF Read, Touch
  <2>2. Pulled' = Pulled \cup {<<m, r>> : m \in {}}
    BY <2>1 DEF Pulled
  <2> QED
    BY <1>0, <2>1, <2>2, NoneFlashed, ViewStep
<1>2. CASE Clear(r)
  <2> DEFINE s == Changed(r, Nothing)
  <2>1. /\ Touch(r, s) /\ o.pc = "view" /\ UNCHANGED <<shown, filtered>>
        /\ disturbed' = (disturbed \/ Flashes(d) # <<>>)
    BY <1>2 DEF Clear, Touch
  <2>2. /\ DOMAIN s = Fields /\ s.pc = "view" /\ s.ops = o.ops /\ s.cookie = o.cookie
        /\ s.out = o.out /\ s.data = Nothing /\ s.cached = o.cached /\ s.posted = o.posted
        /\ s.modified
    BY <1>0, <2>1 DEF RecordOK, Fields, Changed
  <2>3. Msgs(s.data) = {} /\ Flashes(s.data) \in Seq(Messages)
    BY <2>2, NothingFlashed
  <2>4. ~disturbed' => Msgs(d) = {}
    BY <2>1, NothingFlashed DEF Msgs
  <2>5. Pulled' = Pulled \cup {<<m, r>> : m \in {}}
    BY <2>1 DEF Pulled
  <2>6. disturbed => disturbed'
    BY <2>1
  <2> HIDE DEF s
  <2> QED
    BY <2>1, <2>2, <2>3, <2>4, <2>5, <2>6, NoneFlashed, ViewStep
<1>3. CASE \E x \in Categories : flash(r, x)
  <2> PICK x \in Categories : flash(r, x)
    BY <1>3
  <2> DEFINE e == Put(d, "_flashes", Append(Flashes(d), Message(r, x)))
             c == Changed(r, e)
             s == [c EXCEPT !.posted = @ \cup {Message(r, x)}]
  <2>1. /\ Touch(r, s) /\ o.pc = "view" /\ UNCHANGED <<shown, filtered, disturbed>>
    BY DEF flash, Touch
  <2>2. /\ DOMAIN s = Fields /\ s.pc = "view" /\ s.ops = o.ops /\ s.cookie = o.cookie
        /\ s.out = o.out /\ s.data = e /\ s.cached = o.cached
        /\ s.posted = o.posted \cup {Message(r, x)} /\ s.modified
    BY <1>0, <2>1 DEF RecordOK, Fields, Changed
  <2>3. Message(r, x) \in Messages
    BY <1>0 DEF Dated, DatedIn, Message, Messages
  <2>4. Flashes(e) \in Seq(Messages) /\ Msgs(e) = Msgs(d) \cup {Message(r, x)}
    <3>1. Flashes(e) = Append(Flashes(d), Message(r, x))
      BY PutFlashes
    <3>2. /\ Append(Flashes(d), Message(r, x)) \in Seq(Messages)
          /\ Elems(Append(Flashes(d), Message(r, x))) = Elems(Flashes(d)) \cup {Message(r, x)}
      BY <1>0, <2>3, AppendElems
    <3> HIDE DEF e
    <3> QED
      BY <3>1, <3>2 DEF Msgs
  <2>5. Pulled' = Pulled \cup {<<m, r>> : m \in {}}
    BY <2>1 DEF Pulled
  <2>6. {Message(r, x)} \subseteq {Message(r, y) : y \in Categories}
    OBVIOUS
  <2> HIDE DEF s, e
  <2> QED
    BY <2>1, <2>2, <2>4, <2>5, ViewStep
<1>4. CASE \E filter \in SUBSET Categories : get_flashed_messages(r, filter)
  <2> PICK filter \in SUBSET Categories : get_flashed_messages(r, filter)
    BY <1>4
  <2>0. o.pc = "view" /\ disturbed' = disturbed
    BY DEF get_flashed_messages, Touch
  <2>1. CASE o.pulled
    <3>1. Touch(r, o) /\ Pulled' = Pulled \cup {<<m, r>> : m \in Elems(o.cached)}
      BY <2>1, ReturnsAll DEF get_flashed_messages
    <3> QED
      BY <1>0, <2>0, <3>1, NoneFlashed, ViewStep
  <2>2. CASE ~o.pulled /\ "_flashes" \in DOMAIN d
    <3> DEFINE c == Changed(r, Without(d, "_flashes"))
               s == [c EXCEPT !.cached = Flashes(d), !.pulled = TRUE]
    <3>1. /\ DOMAIN s = Fields /\ s.pc = "view" /\ s.ops = o.ops /\ s.cookie = o.cookie
          /\ s.out = o.out /\ s.data = Without(d, "_flashes") /\ s.cached = Flashes(d)
          /\ s.posted = o.posted /\ s.modified
      BY <1>0, <2>0 DEF RecordOK, Fields, Changed
    <3>2. Touch(r, s) /\ Pulled' = Pulled \cup {<<m, r>> : m \in Elems(s.cached)}
      BY <2>2, ReturnsAll DEF get_flashed_messages
    <3>3. Flashes(s.data) = <<>> /\ Msgs(s.data) = {} /\ Elems(s.cached) = Msgs(d)
      BY <3>1, NothingFlashed DEF Flashes, Without, Msgs
    <3>4. Flashes(s.data) \in Seq(Messages)
      <4>1. <<>> \in Seq(Messages)
        OBVIOUS
      <4> QED
        BY <4>1, <3>3
    <3> HIDE DEF s
    <3> QED
      BY <2>0, <3>1, <3>2, <3>3, <3>4, NoneFlashed, ViewStep
  <2>3. CASE ~o.pulled /\ "_flashes" \notin DOMAIN d
    <3> DEFINE s == [o EXCEPT !.pulled = TRUE]
    <3>1. /\ DOMAIN s = Fields /\ s.pc = "view" /\ s.ops = o.ops /\ s.cookie = o.cookie
          /\ s.out = o.out /\ s.data = d /\ s.cached = o.cached
          /\ s.posted = o.posted /\ s.modified = o.modified
      BY <1>0, <2>0 DEF RecordOK, Fields
    <3>2. Touch(r, s) /\ Pulled' = Pulled \cup {<<m, r>> : m \in Elems(s.cached)}
      BY <2>3, ReturnsAll DEF get_flashed_messages
    <3>3. Msgs(d) = {}
      BY <2>3, NothingFlashed DEF Msgs, Flashes
    <3> HIDE DEF s
    <3> QED
      BY <1>0, <2>0, <3>1, <3>2, <3>3, NoneFlashed, ViewStep
  <2> QED
    BY <2>1, <2>2, <2>3
<1>5. CASE Fails(r)
  BY <1>5, FailsTells
<1>6. CASE \E u \in Users : Store(r, u)
  <2> PICK u \in Users : Store(r, u)
    BY <1>6
  <2>1. Flashes(Put(d, "user", u)) = Flashes(d)
    BY PutOther
  <2> QED
    BY <2>1, ChangeTells DEF Store
<1>7. CASE \E b \in BOOLEAN : SetPermanent(r, b)
  <2> PICK b \in BOOLEAN : SetPermanent(r, b)
    BY <1>7
  <2>1. Flashes(Put(d, "_permanent", b)) = Flashes(d)
    BY PutOther
  <2> QED
    BY <2>1, ChangeTells DEF SetPermanent
<1> QED
  BY <1>1, <1>2, <1>3, <1>4, <1>5, <1>6, <1>7 DEF View

LEMMA DeliverTells ==
    ASSUME ToldInv, NEW r \in Reqs, Deliver(r)
    PROVE  Dated' /\ (~disturbed' => Quiet')
<1> DEFINE o == req[r]
           s == [o EXCEPT !.pc = "done"]
<1>0. IInv /\ Dated /\ RecordOK(o) /\ o.pc = "answer" /\ StageOf(o)
  BY DEF ToldInv, IInv, Deliver, Dated
<1>1. /\ s.pc = "done" /\ s.data = o.data /\ s.cookie = o.cookie /\ s.out = o.out
      /\ s.ops = o.ops /\ s.cached = o.cached
  BY <1>0 DEF RecordOK, Fields
<1>2. /\ Upd(r, s) /\ UNCHANGED server /\ Pulled' = Pulled /\ disturbed' = disturbed
      /\ jar' = IF o.set = "none" THEN jar ELSE o.out
      /\ flashed' = flashed \cup o.posted
  BY DEF Deliver, Pulled
<1>3. DataIn(o.data, req) /\ CookieIn(o.out, req)
  BY <1>0 DEF Dated, DatedIn
<1> HIDE DEF s
<1>4. Dated'
  <2>1. /\ s.ops \in Nat /\ o.ops <= s.ops /\ DatedIn(s, req')
        /\ \A M : PastIn(M, req) => PastIn(M, req')
    BY <1>1, <1>2, <1>3, SameDates
  <2>2. PastIn(Told, req) => PastIn(Told', req')
    BY <2>1, <1>2 DEF Told
  <2>3. Keyless(s, secret) /\ StageOf(s)
    BY <1>0, <1>1 DEF Dated, Keyless, StageOf
  <2>4. jar' = jar \/ jar' = o.out
    BY <1>2
  <2> QED
    BY <2>1, <2>2, <2>3, <2>4, <1>0, <1>2, DatedStep
<1>5. ASSUME ~disturbed' PROVE Quiet'
  <2>1. Quiet /\ \A q \in Reqs \ {r} : ~Active(q)
    BY <1>2, <1>5, <1>0, OthersRest DEF Active
  <2>2. req'[r] = s /\ \A q \in Reqs \ {r} : req'[q] = req[q]
    BY <1>0, <1>2 DEF IInv, Upd
  <2>3. /\ Carried \cup o.posted \subseteq Msgs(o.data) \cup Told
        /\ Msgs(o.data) \cap Told = {}
        /\ ~o.modified => Msgs(o.data) = Carried
    BY <2>1, <1>0 DEF Quiet, TurnOf, Carried, Told
  <2>4. HeldBy(jar') = Msgs(o.data)
    <3>1. CASE o.set = "none"
      BY <3>1, <2>3, <1>0, <1>2 DEF StageOf, Carried
    <3>2. CASE o.set # "none" /\ o.data = Nothing
      <4>1. jar' = NoCookie
        BY <3>2, <1>0, <1>2 DEF StageOf
      <4> QED
        BY <4>1, <3>2, NothingFlashed DEF HeldBy
    <3>3. CASE o.set # "none" /\ o.data # Nothing
      <4>1. jar' = o.out /\ o.out # NoCookie /\ o.out.data = o.data
        BY <3>3, <1>0, <1>2 DEF StageOf
      <4> QED
        BY <4>1 DEF HeldBy
    <3> QED
      BY <3>1, <3>2, <3>3
  <2>5. Carried' = Msgs(o.data) /\ Told' = Told /\ Signers' = Signers
    BY <2>4, <1>2 DEF Carried, Told, Signers, server
  <2>6. flashed' \subseteq Told' \cup Carried' /\ (Carried \cap Told = {})'
    BY <2>1, <2>3, <2>5, <1>2 DEF Quiet
  <2>7. Fresh'
    <3>1. Current(jar', Signers)
      BY <2>1, <1>2 DEF Quiet, Fresh
    <3>2. ASSUME NEW q \in Reqs PROVE Current(req'[q].out, Signers)
      BY <2>1, <2>2, <1>1 DEF Quiet, Fresh
    <3> QED
      BY <3>1, <3>2, <2>5 DEF Fresh
  <2>8. \A q \in Reqs : ~Active(q)'
    BY <2>1, <2>2, <1>1 DEF Active
  <2>9. Alone' /\ \A q \in Reqs : TurnOf(req'[q], q, jar', Pulled')
    BY <2>8 DEF Alone, Active, TurnOf
  <2>10. now' <= Lifetime /\ Once'
    BY <2>1, <1>2 DEF Quiet, Once, server
  <2> QED
    BY <2>6, <2>7, <2>9, <2>10 DEF Quiet
<1> QED
  BY <1>4, <1>5

LEMMA LoseTells ==
    ASSUME ToldInv, NEW r \in Reqs, Lose(r)
    PROVE  Dated' /\ disturbed'
<1> DEFINE o == req[r]
           s == [o EXCEPT !.pc = "done"]
<1>0. IInv /\ Dated /\ RecordOK(o)
  BY DEF ToldInv, IInv
<1>1. /\ s.pc = "done" /\ s.data = o.data /\ s.cookie = o.cookie /\ s.out = o.out
      /\ s.ops = o.ops /\ s.cached = o.cached
  BY <1>0 DEF RecordOK, Fields
<1>2. Upd(r, s) /\ UNCHANGED server /\ Pulled' = Pulled /\ disturbed' = TRUE /\ jar' = jar
  BY DEF Lose, Pulled
<1>3. DataIn(o.data, req) /\ CookieIn(o.out, req)
  BY <1>0 DEF Dated, DatedIn
<1> HIDE DEF s
<1>4. /\ s.ops \in Nat /\ o.ops <= s.ops /\ DatedIn(s, req')
      /\ \A M : PastIn(M, req) => PastIn(M, req')
  BY <1>1, <1>2, <1>3, SameDates
<1>5. PastIn(Told, req) => PastIn(Told', req')
  BY <1>4, <1>2 DEF Told
<1>6. Keyless(s, secret) /\ StageOf(s)
  BY <1>0, <1>1 DEF Dated, Keyless, StageOf
<1>7. Dated'
  BY <1>4, <1>5, <1>6, <1>0, <1>2, DatedStep
<1> QED
  BY <1>2, <1>7

\* The clock, the administrator and the user leave every message where it is.
LEMMA ElsewhereTells ==
    ASSUME ToldInv, UNCHANGED <<req, flashed, shown, filtered>>, jar' = jar \/ jar' = NoCookie,
           secret' = NoKey => secret = NoKey,
           disturbed => disturbed',
           ~disturbed' => now' <= Lifetime /\ jar' = jar /\ Signers \subseteq Signers'
    PROVE  Dated' /\ (~disturbed' => Quiet')
<1>0. Pulled' = Pulled
  BY DEF Pulled
<1>1. Dated'
  <2>1. Told' = Told /\ req' = req
    BY <1>0 DEF Told
  <2>2. PastIn(Told', req') /\ CookieIn(jar', req')
    BY <2>1 DEF ToldInv, Dated, CookieIn
  <2>3. secret' = NoKey => jar' = NoCookie
    BY DEF ToldInv, Dated
  <2>4. \A r \in Reqs : DatedIn(req'[r], req') /\ StageOf(req'[r]) /\ Keyless(req'[r], secret')
    BY <2>1 DEF ToldInv, Dated, Keyless
  <2> QED
    BY <2>2, <2>3, <2>4 DEF Dated
<1>2. ASSUME ~disturbed' PROVE Quiet'
  <2>1. Quiet /\ now' <= Lifetime /\ jar' = jar /\ Signers \subseteq Signers'
    BY <1>2 DEF ToldInv
  <2>2. Carried' = Carried /\ Told' = Told
    BY <1>0, <2>1 DEF Carried, Told
  <2>3. Fresh'
    BY <2>1 DEF Quiet, Fresh, Current
  <2>4. Alone' /\ Once' /\ flashed' \subseteq Told' \cup Carried'
    BY <1>0, <2>1, <2>2 DEF Quiet, Alone, Active, Once
  <2>5. \A r \in Reqs : TurnOf(req'[r], r, jar', Pulled')
    BY <1>0, <2>1 DEF Quiet
  <2>6. (\A r \in Reqs : ~Opened(r))' => (Carried \cap Told = {})'
    BY <2>1, <2>2 DEF Quiet, Opened
  <2> QED
    BY <2>1, <2>3, <2>4, <2>5, <2>6 DEF Quiet
<1> QED
  BY <1>1, <1>2

LEMMA NextTells == ToldInv /\ [Next]_vars => ToldInv'
<1> SUFFICES ASSUME ToldInv, [Next]_vars PROVE ToldInv'
  OBVIOUS
<1>0. IInv /\ ServerOK /\ IInv'
  BY NextKeeps DEF ToldInv, IInv
<1> SUFFICES Dated' /\ (~disturbed' => Quiet')
  BY <1>0 DEF ToldInv
<1>1. ASSUME NEW r \in Reqs,
             \/ Send(r) \/ open_session(r) \/ View(r) \/ save_session(r)
             \/ Deliver(r) \/ Lose(r)
      PROVE  Dated' /\ (~disturbed' => Quiet')
  BY <1>1, SendTells, OpenTells, ViewTells, SaveTells, DeliverTells, LoseTells
<1>2. CASE CloseBrowser
  <2>1. UNCHANGED <<req, flashed, shown, filtered>> /\ jar' = NoCookie /\ secret' = secret /\ disturbed' = TRUE
    BY <1>2 DEF CloseBrowser, server
  <2> QED
    BY <2>1, ElsewhereTells
<1>3. CASE Tick
  <2>1. /\ UNCHANGED <<req, flashed, shown, filtered>> /\ jar' = jar /\ secret' = secret
        /\ now' = now + 1 /\ disturbed' = (disturbed \/ now = Lifetime)
        /\ Signers' = Signers
    BY <1>3 DEF Tick, Signers
  <2>2. ~disturbed' => now' <= Lifetime
    <3>1. ~disturbed' => now <= Lifetime /\ now # Lifetime
      BY <2>1 DEF ToldInv, Quiet
    <3>2. now \in Nat /\ Lifetime \in Nat
      BY <1>0, BoundAssumption DEF ServerOK
    <3> QED
      BY <2>1, <3>1, <3>2
  <2>3. disturbed => disturbed'
    BY <2>1
  <2> QED
    BY <2>1, <2>2, <2>3, ElsewhereTells
<1>4. CASE RotateKey
  <2>1. /\ UNCHANGED <<req, flashed, shown, filtered>> /\ jar' = jar /\ disturbed' = disturbed
        /\ now' = now /\ secret \in 1..(MaxKey - 1) /\ secret' = secret + 1
        /\ fallbacks' = fallbacks \cup {secret}
    BY <1>4 DEF RotateKey
  <2>2. secret' # NoKey
    BY <2>1, BoundAssumption DEF NoKey
  <2>3. Signers \subseteq Signers'
    BY <2>1 DEF Signers
  <2>4. ~disturbed' => now' <= Lifetime
    BY <2>1 DEF ToldInv, Quiet
  <2>5. disturbed => disturbed'
    BY <2>1
  <2> QED
    BY <2>1, <2>2, <2>3, <2>4, <2>5, ElsewhereTells
<1>5. CASE DropFallbacks
  <2>1. UNCHANGED <<req, flashed, shown, filtered>> /\ jar' = jar /\ secret' = secret /\ disturbed' = TRUE
    BY <1>5 DEF DropFallbacks
  <2> QED
    BY <2>1, ElsewhereTells
<1>6. CASE UNCHANGED vars
  <2>1. /\ UNCHANGED <<req, flashed, shown, filtered>> /\ jar' = jar /\ secret' = secret
        /\ disturbed' = disturbed /\ now' = now /\ Signers' = Signers
    BY <1>6 DEF vars, server, Signers
  <2>2. ~disturbed' => now' <= Lifetime
    BY <2>1 DEF ToldInv, Quiet
  <2>3. disturbed => disturbed'
    BY <2>1
  <2> QED
    BY <2>1, <2>2, <2>3, ElsewhereTells
<1> QED
  BY <1>1, <1>2, <1>3, <1>4, <1>5, <1>6 DEF Next

\* As long as nothing is lost and requests do not overlap, a flashed message
\* is pulled by one request only, which displays it or leaves it out by its
\* filter of categories, and stays with the browser until then.
THEOREM FlashedOnce == Spec => []FlashOnce
<1>1. ToldInv => FlashOnce
  <2> SUFFICES ASSUME ToldInv, ~disturbed PROVE FlashOnce
    BY DEF FlashOnce
  <2>1. Once /\ flashed \subseteq Told \cup Carried
    BY DEF ToldInv, Quiet
  <2>2. ASSUME NEW m \in flashed
        PROVE  \/ \E p \in shown \cup filtered : p[1] = m
               \/ jar # NoCookie /\ m \in Elems(Flashes(jar.data))
    BY <2>1 DEF Told, Pulled, ToldBy, Carried, HeldBy, Msgs
  <2> QED
    BY <2>1, <2>2 DEF FlashOnce, Once, Pulled
<1> QED
  BY InitTells, NextTells, <1>1, PTL DEF Spec

-----------------------------------------------------------------------------
(* The levels of values, and the recursive functions over them. *)

\* The depths of values.
Depths == 0..TagDepth
L(n)   == Levels(Types)[n]

LEMMA DepthsAre ==
    /\ TagDepth \in Nat /\ 0 \in Depths /\ TagDepth \in Depths
    /\ \A n \in Depths : n \in Nat /\ (n = 0 \/ n \in 1..TagDepth)
    /\ \A n \in 1..TagDepth : n \in Depths /\ n # 0 /\ n - 1 \in Depths
BY DepthAssumption DEF TagDepth, Depths

\* The recursive function of Levels exists.
LEMMA LevelsAre ==
    ASSUME NEW T
    PROVE  /\ Levels(T)[0] = Leaves
           /\ \A n \in 1..TagDepth : Levels(T)[n] = Leaves \cup Around(T, Levels(T)[n - 1])
<1> DEFINE R(f, k) == [n \in 0..k |-> IF n = 0 THEN Leaves ELSE Leaves \cup Around(T, f[n - 1])]
           E == {k \in Depths : \E f : f = R(f, k)}
<1>1. 0 \in E
  <2> DEFINE f == [n \in 0..0 |-> Leaves]
  <2>1. f = R(f, 0)
    OBVIOUS
  <2> HIDE DEF f, R
  <2> QED
    BY <2>1, DepthsAre
<1>2. ASSUME NEW k \in 1..TagDepth, k - 1 \in E PROVE k \in E
  <2>1. PICK g : g = R(g, k - 1)
    BY <1>2
  <2> DEFINE h == [n \in 0..k |-> IF n = k THEN Leaves \cup Around(T, g[k - 1]) ELSE g[n]]
  <2>2. k \in Nat /\ k # 0 /\ k \in Depths
    BY DepthsAre
  <2>3. \A n \in 0..(k - 1) : h[n] = g[n]
    BY <2>2
  <2>4. \A n \in 0..(k - 1) : g[n] = IF n = 0 THEN Leaves ELSE Leaves \cup Around(T, g[n - 1])
    BY <2>1
  <2>5. h[k] = Leaves \cup Around(T, h[k - 1])
    BY <2>2, <2>3
  <2>6. \A n \in 0..k : h[n] = IF n = 0 THEN Leaves ELSE Leaves \cup Around(T, h[n - 1])
    <3>1. \A n \in 0..(k - 1) : n = 0 \/ n - 1 \in 0..(k - 1)
      BY <2>2
    <3>2. \A n \in 0..k : n = k \/ n \in 0..(k - 1)
      BY <2>2
    <3> HIDE DEF h
    <3> QED
      BY <2>2, <2>3, <2>4, <2>5, <3>1, <3>2
  <2>7. h = R(h, k)
    <3>1. h = [n \in 0..k |-> h[n]]
      OBVIOUS
    <3> HIDE DEF h
    <3> QED
      BY <2>6, <3>1
  <2> HIDE DEF h, R
  <2> QED
    BY <2>2, <2>7
<1>3. TagDepth \in E
  <2> HIDE DEF E
  <2>1. \A i \in 0..TagDepth : i \in E
    BY <1>1, <1>2, DepthsAre, UpTo
  <2> QED
    BY <2>1, DepthsAre DEF Depths
<1>4. Levels(T) = R(Levels(T), TagDepth)
  <2> DEFINE g == CHOOSE f : f = R(f, TagDepth)
  <2>1. \E f : f = R(f, TagDepth)
    BY <1>3
  <2>2. g = R(g, TagDepth)
    <3> HIDE DEF R
    <3> QED
      BY <2>1
  <2>3. Levels(T) = g
    BY DEF Levels
  <2> HIDE DEF g
  <2> QED
    BY <2>2, <2>3
<1>5. \A n \in 0..TagDepth :
          Levels(T)[n] = IF n = 0 THEN Leaves ELSE Leaves \cup Around(T, Levels(T)[n - 1])
  BY <1>4
<1> QED
  BY <1>5, DepthsAre DEF Depths

\* More types or more depth give more values.
LEMMA AroundGrows ==
    ASSUME NEW T, NEW U, NEW X, NEW Y, T \subseteq U, X \subseteq Y
    PROVE  Around(T, X) \subseteq Around(U, Y)
<1>1. Seq([k : Leaves, v : X]) \subseteq Seq([k : Leaves, v : Y])
  <2>1. [k : Leaves, v : X] \subseteq [k : Leaves, v : Y]
    OBVIOUS
  <2> QED
    BY <2>1, SeqMonotonic, Zenon
<1> QED
  BY <1>1, Zenon DEF Around

LEMMA LevelsGrow ==
    ASSUME NEW T, NEW U, T \subseteq U
    PROVE  /\ \A n \in Depths : Leaves \subseteq Levels(T)[n] /\ Levels(T)[n] \subseteq Levels(U)[n]
           /\ \A n \in 1..TagDepth : Levels(T)[n - 1] \subseteq Levels(T)[n]
<1>1. \A n \in Depths : Leaves \subseteq Levels(T)[n]
  BY LevelsAre, DepthsAre, Zenon
<1>2. \A n \in Depths : Levels(T)[n] \subseteq Levels(U)[n]
  <2> DEFINE E == {n \in Depths : Levels(T)[n] \subseteq Levels(U)[n]}
  <2>1. 0 \in E
    BY LevelsAre, DepthsAre
  <2>2. ASSUME NEW n \in 1..TagDepth, n - 1 \in E PROVE n \in E
    <3>1. Around(T, Levels(T)[n - 1]) \subseteq Around(U, Levels(U)[n - 1])
      BY <2>2, AroundGrows
    <3>2. /\ Levels(T)[n] = Leaves \cup Around(T, Levels(T)[n - 1])
          /\ Levels(U)[n] = Leaves \cup Around(U, Levels(U)[n - 1])
      BY LevelsAre
    <3> QED
      BY <3>1, <3>2, DepthsAre
  <2>3. \A n \in 0..TagDepth : n \in E
    <3> HIDE DEF E
    <3> QED
      BY <2>1, <2>2, DepthsAre, UpTo
  <2> QED
    BY <2>3 DEF Depths
<1>3. \A n \in 1..TagDepth : Levels(T)[n - 1] \subseteq Levels(T)[n]
  <2> DEFINE E == {n \in Depths : n = 0 \/ Levels(T)[n - 1] \subseteq Levels(T)[n]}
  <2>1. 0 \in E
    BY DepthsAre
  <2>2. ASSUME NEW n \in 1..TagDepth, n - 1 \in E PROVE n \in E
    <3>1. Levels(T)[n] = Leaves \cup Around(T, Levels(T)[n - 1])
      BY LevelsAre
    <3>2. CASE n - 1 = 0
      <4>1. Levels(T)[n - 1] = Leaves
        BY <3>2, LevelsAre
      <4> QED
        BY <3>1, <4>1, DepthsAre
    <3>3. CASE n - 1 # 0
      <4>1. n - 1 \in 1..TagDepth
        BY <3>3, DepthsAre
      <4>2. Levels(T)[n - 1] = Leaves \cup Around(T, Levels(T)[(n - 1) - 1])
        BY <4>1, LevelsAre
      <4>3. Around(T, Levels(T)[(n - 1) - 1]) \subseteq Around(T, Levels(T)[n - 1])
        BY <2>2, <3>3, AroundGrows
      <4> QED
        BY <3>1, <4>2, <4>3, DepthsAre
    <3> QED
      BY <3>2, <3>3
  <2>3. \A n \in 0..TagDepth : n \in E
    <3> HIDE DEF E
    <3> QED
      BY <2>1, <2>2, DepthsAre, UpTo
  <2> QED
    BY <2>3, DepthsAre DEF Depths
<1> QED
  BY <1>1, <1>2, <1>3

\* What a value is made of lies one level deeper.
LEMMA ItemsBelow ==
    ASSUME NEW T, NEW n \in Depths, NEW v \in Levels(T)[n]
    PROVE  /\ v \in Leaves \/ (n # 0 /\ v \in Around(T, Levels(T)[n - 1]))
           /\ v.s \in Seq([k : Leaves, v : Levels(T)[n - 1]])
           /\ \A i \in DOMAIN v.s : /\ n # 0 /\ v.s[i].v \in Levels(T)[n - 1]
                                    /\ v.s[i].k \in Leaves
<1>1. v \in Leaves \/ (n # 0 /\ v \in Around(T, Levels(T)[n - 1]))
  BY LevelsAre, DepthsAre
<1>2. CASE v \in Leaves
  <2>1. v.s = <<>>
    BY <1>2 DEF Leaves
  <2> QED
    BY <1>1, <2>1
<1>3. CASE n # 0 /\ v \in Around(T, Levels(T)[n - 1])
  <2>1. v.s \in Seq([k : Leaves, v : Levels(T)[n - 1]])
    BY <1>3 DEF Around
  <2>2. \A i \in DOMAIN v.s : v.s[i] \in [k : Leaves, v : Levels(T)[n - 1]]
    BY <2>1, LenProperties, ElementOfSeq
  <2> QED
    BY <1>1, <1>3, <2>1, <2>2
<1> QED
  BY <1>1, <1>2, <1>3

\* The recursive functions over values exist, level by level, and satisfy their equations.
LEMMA TagIs ==
    ASSUME NEW S
    PROVE  \A v \in Value : tag(S)[v] = Tagged(S, v, [i \in DOMAIN v.s |-> tag(S)[v.s[i].v]])
<1> DEFINE R(f, n) == [v \in L(n) |-> Tagged(S, v, [i \in DOMAIN v.s |-> f[v.s[i].v]])]
           E == {n \in Depths : \E f : f = R(f, n)}
<1>1. 0 \in E
  <2> DEFINE f == [v \in L(0) |-> Tagged(S, v, <<>>)]
  <2>1. ASSUME NEW v \in L(0) PROVE [i \in DOMAIN v.s |-> f[v.s[i].v]] = <<>>
    <3>1. v.s = <<>>
      BY <2>1, LevelsAre DEF L, Leaves
    <3> HIDE DEF f
    <3> QED
      BY <3>1
  <2>2. \A v \in L(0) : f[v] = Tagged(S, v, [i \in DOMAIN v.s |-> f[v.s[i].v]])
    BY <2>1
  <2>3. f = R(f, 0)
    <3>1. f = [v \in L(0) |-> f[v]]
      OBVIOUS
    <3> HIDE DEF f
    <3> QED
      BY <2>2, <3>1
  <2> HIDE DEF f, R
  <2> QED
    BY <2>3, DepthsAre
<1>2. ASSUME NEW n \in 1..TagDepth, n - 1 \in E PROVE n \in E
  <2>1. PICK g : g = R(g, n - 1)
    BY <1>2
  <2> DEFINE h == R(g, n)
  <2>2. /\ n \in Depths /\ n - 1 \in Depths
        /\ L(n - 1) \subseteq L(n)
    BY DepthsAre, LevelsGrow DEF L
  <2>3. \A v \in L(n - 1) : g[v] = Tagged(S, v, [i \in DOMAIN v.s |-> g[v.s[i].v]])
    BY <2>1
  <2>4. \A v \in L(n) : h[v] = Tagged(S, v, [i \in DOMAIN v.s |-> g[v.s[i].v]])
    OBVIOUS
  <2>5. h = [v \in L(n) |-> h[v]]
    OBVIOUS
  <2> HIDE DEF h
  <2>6. \A v \in L(n - 1) : h[v] = g[v]
    BY <2>2, <2>3, <2>4
  <2>7. ASSUME NEW v \in L(n)
        PROVE  [i \in DOMAIN v.s |-> g[v.s[i].v]] = [i \in DOMAIN v.s |-> h[v.s[i].v]]
    <3>1. \A i \in DOMAIN v.s : v.s[i].v \in L(n - 1)
      BY <2>2, ItemsBelow DEF L
    <3> QED
      BY <2>6, <3>1
  <2>8. \A v \in L(n) : h[v] = Tagged(S, v, [i \in DOMAIN v.s |-> h[v.s[i].v]])
    BY <2>4, <2>7
  <2>9. h = R(h, n)
    BY <2>5, <2>8
  <2> HIDE DEF R
  <2> QED
    BY <2>2, <2>9
<1>3. TagDepth \in E
  <2> HIDE DEF E
  <2>1. \A i \in 0..TagDepth : i \in E
    BY <1>1, <1>2, DepthsAre, UpTo
  <2> QED
    BY <2>1, DepthsAre DEF Depths
<1>4. tag(S) = R(tag(S), TagDepth)
  <2> DEFINE g == CHOOSE f : f = R(f, TagDepth)
  <2>1. \E f : f = R(f, TagDepth)
    BY <1>3
  <2>2. g = R(g, TagDepth)
    <3> HIDE DEF R
    <3> QED
      BY <2>1
  <2>3. tag(S) = g
    BY DEF tag, Value, L
  <2> HIDE DEF g
  <2> QED
    BY <2>2, <2>3
<1> QED
  BY <1>4 DEF Value, L

\* The same for what JSON makes of a value.
LEMMA JsonIs ==
    \A v \in Value : Json[v] = Jsoned(v, [i \in DOMAIN v.s |-> Json[v.s[i].v]])
<1> DEFINE R(f, n) == [v \in L(n) |-> Jsoned(v, [i \in DOMAIN v.s |-> f[v.s[i].v]])]
           E == {n \in Depths : \E f : f = R(f, n)}
<1>1. 0 \in E
  <2> DEFINE f == [v \in L(0) |-> Jsoned(v, <<>>)]
  <2>1. ASSUME NEW v \in L(0) PROVE [i \in DOMAIN v.s |-> f[v.s[i].v]] = <<>>
    <3>1. v.s = <<>>
      BY <2>1, LevelsAre DEF L, Leaves
    <3> HIDE DEF f
    <3> QED
      BY <3>1
  <2>2. \A v \in L(0) : f[v] = Jsoned(v, [i \in DOMAIN v.s |-> f[v.s[i].v]])
    BY <2>1
  <2>3. f = R(f, 0)
    <3>1. f = [v \in L(0) |-> f[v]]
      OBVIOUS
    <3> HIDE DEF f
    <3> QED
      BY <2>2, <3>1
  <2> HIDE DEF f, R
  <2> QED
    BY <2>3, DepthsAre
<1>2. ASSUME NEW n \in 1..TagDepth, n - 1 \in E PROVE n \in E
  <2>1. PICK g : g = R(g, n - 1)
    BY <1>2
  <2> DEFINE h == R(g, n)
  <2>2. /\ n \in Depths /\ n - 1 \in Depths
        /\ L(n - 1) \subseteq L(n)
    BY DepthsAre, LevelsGrow DEF L
  <2>3. \A v \in L(n - 1) : g[v] = Jsoned(v, [i \in DOMAIN v.s |-> g[v.s[i].v]])
    BY <2>1
  <2>4. \A v \in L(n) : h[v] = Jsoned(v, [i \in DOMAIN v.s |-> g[v.s[i].v]])
    OBVIOUS
  <2>5. h = [v \in L(n) |-> h[v]]
    OBVIOUS
  <2> HIDE DEF h
  <2>6. \A v \in L(n - 1) : h[v] = g[v]
    BY <2>2, <2>3, <2>4
  <2>7. ASSUME NEW v \in L(n)
        PROVE  [i \in DOMAIN v.s |-> g[v.s[i].v]] = [i \in DOMAIN v.s |-> h[v.s[i].v]]
    <3>1. \A i \in DOMAIN v.s : v.s[i].v \in L(n - 1)
      BY <2>2, ItemsBelow DEF L
    <3> QED
      BY <2>6, <3>1
  <2>8. \A v \in L(n) : h[v] = Jsoned(v, [i \in DOMAIN v.s |-> h[v.s[i].v]])
    BY <2>4, <2>7
  <2>9. h = R(h, n)
    BY <2>5, <2>8
  <2> HIDE DEF R
  <2> QED
    BY <2>2, <2>9
<1>3. TagDepth \in E
  <2> HIDE DEF E
  <2>1. \A i \in 0..TagDepth : i \in E
    BY <1>1, <1>2, DepthsAre, UpTo
  <2> QED
    BY <2>1, DepthsAre DEF Depths
<1>4. Json = R(Json, TagDepth)
  <2> DEFINE g == CHOOSE f : f = R(f, TagDepth)
  <2>1. \E f : f = R(f, TagDepth)
    BY <1>3
  <2>2. g = R(g, TagDepth)
    <3> HIDE DEF R
    <3> QED
      BY <2>1
  <2>3. Json = g
    BY DEF Json, Value, L
  <2> HIDE DEF g
  <2> QED
    BY <2>2, <2>3
<1> QED
  BY <1>4 DEF Value, L

\* The same for the reading of what JSON made.
LEMMA ScanIs ==
    ASSUME NEW S
    PROVE  \A v \in Value : _untag_scan(S)[v] = Scanned(S, v, [i \in DOMAIN v.s |-> _untag_scan(S)[v.s[i].v]])
<1> DEFINE R(f, n) == [v \in L(n) |-> Scanned(S, v, [i \in DOMAIN v.s |-> f[v.s[i].v]])]
           E == {n \in Depths : \E f : f = R(f, n)}
<1>1. 0 \in E
  <2> DEFINE f == [v \in L(0) |-> Scanned(S, v, <<>>)]
  <2>1. ASSUME NEW v \in L(0) PROVE [i \in DOMAIN v.s |-> f[v.s[i].v]] = <<>>
    <3>1. v.s = <<>>
      BY <2>1, LevelsAre DEF L, Leaves
    <3> HIDE DEF f
    <3> QED
      BY <3>1
  <2>2. \A v \in L(0) : f[v] = Scanned(S, v, [i \in DOMAIN v.s |-> f[v.s[i].v]])
    BY <2>1
  <2>3. f = R(f, 0)
    <3>1. f = [v \in L(0) |-> f[v]]
      OBVIOUS
    <3> HIDE DEF f
    <3> QED
      BY <2>2, <3>1
  <2> HIDE DEF f, R
  <2> QED
    BY <2>3, DepthsAre
<1>2. ASSUME NEW n \in 1..TagDepth, n - 1 \in E PROVE n \in E
  <2>1. PICK g : g = R(g, n - 1)
    BY <1>2
  <2> DEFINE h == R(g, n)
  <2>2. /\ n \in Depths /\ n - 1 \in Depths
        /\ L(n - 1) \subseteq L(n)
    BY DepthsAre, LevelsGrow DEF L
  <2>3. \A v \in L(n - 1) : g[v] = Scanned(S, v, [i \in DOMAIN v.s |-> g[v.s[i].v]])
    BY <2>1
  <2>4. \A v \in L(n) : h[v] = Scanned(S, v, [i \in DOMAIN v.s |-> g[v.s[i].v]])
    OBVIOUS
  <2>5. h = [v \in L(n) |-> h[v]]
    OBVIOUS
  <2> HIDE DEF h
  <2>6. \A v \in L(n - 1) : h[v] = g[v]
    BY <2>2, <2>3, <2>4
  <2>7. ASSUME NEW v \in L(n)
        PROVE  [i \in DOMAIN v.s |-> g[v.s[i].v]] = [i \in DOMAIN v.s |-> h[v.s[i].v]]
    <3>1. \A i \in DOMAIN v.s : v.s[i].v \in L(n - 1)
      BY <2>2, ItemsBelow DEF L
    <3> QED
      BY <2>6, <3>1
  <2>8. \A v \in L(n) : h[v] = Scanned(S, v, [i \in DOMAIN v.s |-> h[v.s[i].v]])
    BY <2>4, <2>7
  <2>9. h = R(h, n)
    BY <2>5, <2>8
  <2> HIDE DEF R
  <2> QED
    BY <2>2, <2>9
<1>3. TagDepth \in E
  <2> HIDE DEF E
  <2>1. \A i \in 0..TagDepth : i \in E
    BY <1>1, <1>2, DepthsAre, UpTo
  <2> QED
    BY <2>1, DepthsAre DEF Depths
<1>4. _untag_scan(S) = R(_untag_scan(S), TagDepth)
  <2> DEFINE g == CHOOSE f : f = R(f, TagDepth)
  <2>1. \E f : f = R(f, TagDepth)
    BY <1>3
  <2>2. g = R(g, TagDepth)
    <3> HIDE DEF R
    <3> QED
      BY <2>1
  <2>3. _untag_scan(S) = g
    BY DEF _untag_scan, Value, L
  <2> HIDE DEF g
  <2> QED
    BY <2>2, <2>3
<1> QED
  BY <1>4 DEF Value, L

\* The same for what should be read.
LEMMA KeptIs ==
    ASSUME NEW S
    PROVE  \A v \in Value : Kept(S)[v] = Remains(S, v, [i \in DOMAIN v.s |-> Kept(S)[v.s[i].v]])
<1> DEFINE R(f, n) == [v \in L(n) |-> Remains(S, v, [i \in DOMAIN v.s |-> f[v.s[i].v]])]
           E == {n \in Depths : \E f : f = R(f, n)}
<1>1. 0 \in E
  <2> DEFINE f == [v \in L(0) |-> Remains(S, v, <<>>)]
  <2>1. ASSUME NEW v \in L(0) PROVE [i \in DOMAIN v.s |-> f[v.s[i].v]] = <<>>
    <3>1. v.s = <<>>
      BY <2>1, LevelsAre DEF L, Leaves
    <3> HIDE DEF f
    <3> QED
      BY <3>1
  <2>2. \A v \in L(0) : f[v] = Remains(S, v, [i \in DOMAIN v.s |-> f[v.s[i].v]])
    BY <2>1
  <2>3. f = R(f, 0)
    <3>1. f = [v \in L(0) |-> f[v]]
      OBVIOUS
    <3> HIDE DEF f
    <3> QED
      BY <2>2, <3>1
  <2> HIDE DEF f, R
  <2> QED
    BY <2>3, DepthsAre
<1>2. ASSUME NEW n \in 1..TagDepth, n - 1 \in E PROVE n \in E
  <2>1. PICK g : g = R(g, n - 1)
    BY <1>2
  <2> DEFINE h == R(g, n)
  <2>2. /\ n \in Depths /\ n - 1 \in Depths
        /\ L(n - 1) \subseteq L(n)
    BY DepthsAre, LevelsGrow DEF L
  <2>3. \A v \in L(n - 1) : g[v] = Remains(S, v, [i \in DOMAIN v.s |-> g[v.s[i].v]])
    BY <2>1
  <2>4. \A v \in L(n) : h[v] = Remains(S, v, [i \in DOMAIN v.s |-> g[v.s[i].v]])
    OBVIOUS
  <2>5. h = [v \in L(n) |-> h[v]]
    OBVIOUS
  <2> HIDE DEF h
  <2>6. \A v \in L(n - 1) : h[v] = g[v]
    BY <2>2, <2>3, <2>4
  <2>7. ASSUME NEW v \in L(n)
        PROVE  [i \in DOMAIN v.s |-> g[v.s[i].v]] = [i \in DOMAIN v.s |-> h[v.s[i].v]]
    <3>1. \A i \in DOMAIN v.s : v.s[i].v \in L(n - 1)
      BY <2>2, ItemsBelow DEF L
    <3> QED
      BY <2>6, <3>1
  <2>8. \A v \in L(n) : h[v] = Remains(S, v, [i \in DOMAIN v.s |-> h[v.s[i].v]])
    BY <2>4, <2>7
  <2>9. h = R(h, n)
    BY <2>5, <2>8
  <2> HIDE DEF R
  <2> QED
    BY <2>2, <2>9
<1>3. TagDepth \in E
  <2> HIDE DEF E
  <2>1. \A i \in 0..TagDepth : i \in E
    BY <1>1, <1>2, DepthsAre, UpTo
  <2> QED
    BY <2>1, DepthsAre DEF Depths
<1>4. Kept(S) = R(Kept(S), TagDepth)
  <2> DEFINE g == CHOOSE f : f = R(f, TagDepth)
  <2>1. \E f : f = R(f, TagDepth)
    BY <1>3
  <2>2. g = R(g, TagDepth)
    <3> HIDE DEF R
    <3> QED
      BY <2>1
  <2>3. Kept(S) = g
    BY DEF Kept, Value, L
  <2> HIDE DEF g
  <2> QED
    BY <2>2, <2>3
<1> QED
  BY <1>4 DEF Value, L

-----------------------------------------------------------------------------
(* The tag classes and the serializer that they make. *)

\* What registrations leave of a serializer, one after the other.
LEMMA RegisteredIs ==
    ASSUME NEW S, NEW rs, Len(rs) \in Nat
    PROVE  \E f : /\ f[0] = S /\ Registered(S, rs) = f[Len(rs)]
                  /\ \A i \in 1..Len(rs) : f[i] = register(f[i - 1], rs[i])
<1>1. PICK n \in Nat : n = Len(rs)
  OBVIOUS
<1> DEFINE R(f, k) == [i \in 0..k |-> IF i = 0 THEN S ELSE register(f[i - 1], rs[i])]
           E == {k \in 0..n : \E f : f = R(f, k)}
<1>2. 0 \in E
  <2> DEFINE f == [i \in 0..0 |-> S]
  <2>1. f = R(f, 0)
    OBVIOUS
  <2> HIDE DEF f, R
  <2> QED
    BY <2>1
<1>3. ASSUME NEW k \in 1..n, k - 1 \in E PROVE k \in E
  <2>1. PICK g : g = R(g, k - 1)
    BY <1>3
  <2> DEFINE h == [i \in 0..k |-> IF i = k THEN register(g[k - 1], rs[k]) ELSE g[i]]
  <2>2. k \in Nat /\ k # 0 /\ k \in 0..n
    OBVIOUS
  <2>3. \A i \in 0..(k - 1) : h[i] = g[i]
    BY <2>2
  <2>4. \A i \in 0..(k - 1) : g[i] = IF i = 0 THEN S ELSE register(g[i - 1], rs[i])
    BY <2>1
  <2>5. h[k] = register(h[k - 1], rs[k])
    BY <2>2, <2>3
  <2>6. \A i \in 0..k : h[i] = IF i = 0 THEN S ELSE register(h[i - 1], rs[i])
    <3>1. \A i \in 0..(k - 1) : i = 0 \/ i - 1 \in 0..(k - 1)
      BY <2>2
    <3>2. \A i \in 0..k : i = k \/ i \in 0..(k - 1)
      BY <2>2
    <3> HIDE DEF h
    <3> QED
      BY <2>2, <2>3, <2>4, <2>5, <3>1, <3>2
  <2>7. h = R(h, k)
    <3>1. h = [i \in 0..k |-> h[i]]
      OBVIOUS
    <3> HIDE DEF h
    <3> QED
      BY <2>6, <3>1
  <2> HIDE DEF h, R
  <2> QED
    BY <2>2, <2>7
<1>4. n \in E
  <2> HIDE DEF E
  <2>1. \A i \in 0..n : i \in E
    BY <1>2, <1>3, UpTo
  <2> QED
    BY <2>1
<1> DEFINE g == CHOOSE f : f = R(f, n)
<1>5. g = R(g, n)
  <2>1. \E f : f = R(f, n)
    BY <1>4
  <2> HIDE DEF R
  <2> QED
    BY <2>1
<1>6. Registered(S, rs) = g[n]
  BY <1>1 DEF Registered
<1> HIDE DEF g
<1>7. \A i \in 0..n : g[i] = IF i = 0 THEN S ELSE register(g[i - 1], rs[i])
  BY <1>5
<1>8. g[0] = S /\ \A i \in 1..n : g[i] = register(g[i - 1], rs[i])
  BY <1>7
<1> QED
  BY <1>1, <1>6, <1>8

Classes == {"TagDict", "PassDict", "TagTuple", "PassList", "TagBytes", "TagMarkup", "TagUUID",
            "TagDateTime", "TagOrderedDict", "TagFoo", "TagISO"}
Defaults == Classes \ {"TagOrderedDict", "TagFoo", "TagISO"}

LEMMA KeysAre ==
    /\ DOMAIN KeyOf = Classes /\ <<>> \in TagKeys
    /\ KeyOf["TagDict"] = <<" di">> /\ KeyOf["PassDict"] = <<>> /\ KeyOf["TagTuple"] = <<" t">>
    /\ KeyOf["PassList"] = <<>> /\ KeyOf["TagBytes"] = <<" b">> /\ KeyOf["TagMarkup"] = <<" m">>
    /\ KeyOf["TagUUID"] = <<" u">> /\ KeyOf["TagDateTime"] = <<" d">>
    /\ KeyOf["TagOrderedDict"] = <<" od">> /\ KeyOf["TagFoo"] = <<" f">> /\ KeyOf["TagISO"] = <<" d">>
<1>1. DOMAIN KeyOf = Classes /\ KeyOf["PassDict"] = <<>>
  BY DEF KeyOf, Classes
<1>2. <<>> \in TagKeys
  BY <1>1 DEF TagKeys, Classes
<1> QED
  BY <1>1, <1>2 DEF KeyOf

\* Two classes have the same key only when they add none, or are those of dates.
LEMMA KeysDiffer ==
    ASSUME NEW c \in Classes, NEW d \in Classes, KeyOf[c] = KeyOf[d]
    PROVE  c = d \/ KeyOf[c] = <<>> \/ (c \in {"TagDateTime", "TagISO"} /\ d \in {"TagDateTime", "TagISO"})
<1>1. /\ KeyOf["TagDict"][1] = " di" /\ KeyOf["TagTuple"][1] = " t" /\ KeyOf["TagBytes"][1] = " b"
      /\ KeyOf["TagMarkup"][1] = " m" /\ KeyOf["TagUUID"][1] = " u" /\ KeyOf["TagDateTime"][1] = " d"
      /\ KeyOf["TagOrderedDict"][1] = " od" /\ KeyOf["TagFoo"][1] = " f" /\ KeyOf["TagISO"][1] = " d"
  <2>1. \A x, k : k = <<x>> => k[1] = x
    OBVIOUS
  <2> QED
    BY <2>1, KeysAre, Zenon
<1>2. KeyOf[c][1] = KeyOf[d][1]
  OBVIOUS
<1>3. CASE c \in {"PassDict", "PassList"} \/ d \in {"PassDict", "PassList"}
  BY <1>3, KeysAre
<1>4. CASE c \notin {"PassDict", "PassList"} /\ d \notin {"PassDict", "PassList"}
  <2>1. ASSUME NEW e \in Classes \ {"PassDict", "PassList"}
        PROVE  e \in {"TagDict", "TagTuple", "TagBytes", "TagMarkup", "TagUUID", "TagDateTime",
                      "TagOrderedDict", "TagFoo", "TagISO"}
    BY DEF Classes
  <2>2. c \in Classes \ {"PassDict", "PassList"} /\ d \in Classes \ {"PassDict", "PassList"}
    BY <1>4
  <2> QED
    BY <1>1, <1>2, <2>1, <2>2
<1> QED
  BY <1>3, <1>4

LEMMA KeysShort ==
    ASSUME NEW k \in TagKeys
    PROVE  k \in Seq(Pieces) /\ Len(k) < 2
<1>1. PICK c \in Classes : k = KeyOf[c]
  BY KeysAre DEF TagKeys
<1>2. <<>> \in Seq(Pieces) /\ Len(<<>>) < 2
  BY EmptySeq
<1>3. \A x \in Pieces : <<x>> \in Seq(Pieces) /\ Len(<<x>>) < 2
  OBVIOUS
<1>4. k = <<>> \/ \E x \in Pieces : k = <<x>>
  BY <1>1, KeysAre, TextAssumption DEF Classes
<1> QED
  BY <1>2, <1>3, <1>4

LEMMA DefaultsAre ==
    /\ Len(default_tags) = 8 /\ DOMAIN default_tags = 1..8
    /\ \A i \in 1..8 : default_tags[i] \in Defaults
    /\ \A c \in Defaults : \E i \in 1..8 : default_tags[i] = c
    /\ \A i \in 1..8 : \A j \in 1..8 : default_tags[i] = default_tags[j] => i = j
    /\ default_tags[1] = "TagDict" /\ default_tags[2] = "PassDict"
<1>1. Len(default_tags) = 8 /\ DOMAIN default_tags = 1..8
  BY DEF default_tags
<1>2. /\ default_tags[1] = "TagDict" /\ default_tags[2] = "PassDict" /\ default_tags[3] = "TagTuple"
      /\ default_tags[4] = "PassList" /\ default_tags[5] = "TagBytes" /\ default_tags[6] = "TagMarkup"
      /\ default_tags[7] = "TagUUID" /\ default_tags[8] = "TagDateTime"
  BY DEF default_tags
<1>3. \A i \in 1..8 : i = 1 \/ i = 2 \/ i = 3 \/ i = 4 \/ i = 5 \/ i = 6 \/ i = 7 \/ i = 8
  OBVIOUS
<1>4. 1 \in 1..8 /\ 2 \in 1..8 /\ 3 \in 1..8 /\ 4 \in 1..8 /\ 5 \in 1..8 /\ 6 \in 1..8 /\ 7 \in 1..8 /\ 8 \in 1..8
  OBVIOUS
<1> QED
  BY <1>1, <1>2, <1>3, <1>4 DEF Defaults, Classes

\* The tags that a serializer has under a key are those of that key.
TagsOK(S) ==
    /\ DOMAIN S.tags \subseteq TagKeys \ {<<>>}
    /\ \A k \in DOMAIN S.tags : S.tags[k] \in Classes /\ KeyOf[S.tags[k]] = k
    /\ \A i \in DOMAIN S.order : KeyOf[S.order[i]] # <<>> => KeyOf[S.order[i]] \in DOMAIN S.tags

\* The classes are tried in an order in which the default ones keep theirs.
OrderOK(S) ==
    /\ S.order \in Seq(Classes)
    /\ \A c \in Defaults : \E i \in DOMAIN S.order : S.order[i] = c
    /\ \A i \in DOMAIN S.order : S.order[i] = "PassDict" =>
           \E j \in DOMAIN S.order : j < i /\ S.order[j] = "TagDict"

\* An OrderedDict is tried before both classes for a dict, or after.
DictsOK(S) ==
    \A i, j, k \in DOMAIN S.order :
        S.order[i] = "TagOrderedDict" /\ S.order[j] = "PassDict" /\ S.order[k] = "TagDict" /\ i < j => i < k

\* The class of dates that is tried first is the one that reads them.
DatesOK(S) ==
    /\ \A i \in DOMAIN S.order : S.order[i] = "TagISO" =>
           /\ S.tags[<<" d">>] = "TagISO"
           /\ \A j \in DOMAIN S.order : S.order[j] = "TagDateTime" => i < j
    /\ S.tags[<<" d">>] = "TagISO" => \E i \in DOMAIN S.order : S.order[i] = "TagISO"

Good(S) == TagsOK(S) /\ OrderOK(S) /\ DictsOK(S) /\ DatesOK(S)

\* What registering some of the default classes gives.
Begun(S, n) ==
    /\ S.order \in Seq(Classes) /\ Len(S.order) = n
    /\ \A j \in 1..n : S.order[j] = default_tags[j]
    /\ DOMAIN S.tags \subseteq TagKeys \ {<<>>}
    /\ \A k \in DOMAIN S.tags : /\ KeyOf[S.tags[k]] = k
                                /\ \E j \in 1..n : S.tags[k] = default_tags[j]
    /\ \A j \in 1..n : KeyOf[default_tags[j]] # <<>> => KeyOf[default_tags[j]] \in DOMAIN S.tags

LEMMA BegunStep ==
    ASSUME NEW S, NEW n \in 1..8, Begun(S, n - 1)
    PROVE  Begun(register(S, Appended(default_tags[n])), n)
<1>1. PICK c : c = default_tags[n]
  OBVIOUS
<1>2. c \in Defaults /\ c \in Classes /\ n \in Nat /\ n # 0
  BY <1>1, DefaultsAre DEF Defaults
<1>3. PICK r : r = Appended(c)
  OBVIOUS
<1>4. r.cls = c /\ r.force = FALSE /\ r.front = FALSE
  BY <1>3 DEF Appended
<1>5. ASSUME NEW j \in 1..(n - 1), KeyOf[default_tags[j]] = KeyOf[c] PROVE KeyOf[c] = <<>>
  <2>1. j \in 1..8 /\ j # n /\ default_tags[j] \in Defaults
    BY <1>2, DefaultsAre
  <2>2. default_tags[j] # c
    BY <1>1, <2>1, DefaultsAre
  <2> QED
    BY <1>2, <1>5, <2>1, <2>2, KeysDiffer DEF Defaults
<1>6. ~Refuses(S, r)
  <2>1. SUFFICES ASSUME KeyOf[c] # <<>>, KeyOf[c] \in DOMAIN S.tags PROVE FALSE
    BY <1>4 DEF Refuses
  <2> QED
    BY <2>1, <1>5 DEF Begun
<1>7. PICK U : U = register(S, r)
  OBVIOUS
<1>8. U.tags = WithTag(S, r) /\ U.order = Append(S.order, c)
  BY <1>4, <1>6, <1>7 DEF register
<1>9. /\ U.order \in Seq(Classes) /\ Len(U.order) = n
      /\ \A j \in 1..n : U.order[j] = default_tags[j]
  <2>1. S.order \in Seq(Classes) /\ Len(S.order) = n - 1 /\ \A j \in 1..(n - 1) : S.order[j] = default_tags[j]
    BY DEF Begun
  <2>2. U.order \in Seq(Classes) /\ Len(U.order) = n /\ U.order[n] = c
    BY <1>2, <1>8, <2>1
  <2>3. \A j \in 1..(n - 1) : U.order[j] = S.order[j]
    BY <1>2, <1>8, <2>1
  <2>4. \A j \in 1..n : j = n \/ j \in 1..(n - 1)
    BY <1>2
  <2> QED
    BY <1>1, <2>1, <2>2, <2>3, <2>4
<1>10. PICK K : K = KeyOf[c]
  OBVIOUS
<1>11. K \in TagKeys
  BY <1>2, <1>10, KeysAre DEF TagKeys
<1>12. \A j \in 1..(n - 1) : j \in 1..n
  BY <1>2
<1>13. n \in 1..n /\ \A j \in 1..n : j = n \/ j \in 1..(n - 1)
  BY <1>2
<1>14. CASE K = <<>>
  <2>1. U.tags = S.tags
    BY <1>4, <1>8, <1>10, <1>14 DEF WithTag
  <2>2. \A k \in DOMAIN U.tags : \E j \in 1..n : U.tags[k] = default_tags[j]
    BY <2>1, <1>12 DEF Begun
  <2>3. \A j \in 1..n : KeyOf[default_tags[j]] # <<>> => KeyOf[default_tags[j]] \in DOMAIN U.tags
    BY <2>1, <1>1, <1>10, <1>13, <1>14 DEF Begun
  <2> QED
    BY <1>1, <1>3, <1>7, <1>9, <2>1, <2>2, <2>3, Zenon DEF Begun
<1>15. CASE K # <<>>
  <2>1. U.tags = [k \in DOMAIN S.tags \cup {K} |-> IF k = K THEN c ELSE S.tags[k]]
    BY <1>4, <1>8, <1>10, <1>15 DEF WithTag
  <2>2. DOMAIN U.tags = DOMAIN S.tags \cup {K}
    BY <2>1
  <2>3. U.tags[K] = c /\ \A k \in DOMAIN S.tags : k # K => U.tags[k] = S.tags[k]
    BY <2>1
  <2>4. DOMAIN U.tags \subseteq TagKeys \ {<<>>}
    BY <2>2, <1>11, <1>15 DEF Begun
  <2>5. \A k \in DOMAIN U.tags : /\ KeyOf[U.tags[k]] = k
                                 /\ \E j \in 1..n : U.tags[k] = default_tags[j]
    BY <2>2, <2>3, <1>1, <1>10, <1>12, <1>13 DEF Begun
  <2>6. \A j \in 1..n : KeyOf[default_tags[j]] # <<>> => KeyOf[default_tags[j]] \in DOMAIN U.tags
    BY <2>2, <1>1, <1>10, <1>13 DEF Begun
  <2> QED
    BY <1>1, <1>3, <1>7, <1>9, <2>4, <2>5, <2>6 DEF Begun
<1> QED
  BY <1>14, <1>15

LEMMA InitialGood == Good(Initial)
<1>1. PICK none : none = [tags |-> <<>>, order |-> <<>>]
  OBVIOUS
<1>2. PICK calls : calls = [i \in DOMAIN default_tags |-> Appended(default_tags[i])]
  OBVIOUS
<1>3. Len(calls) = 8 /\ \A i \in 1..8 : calls[i] = Appended(default_tags[i])
  <2>1. DOMAIN calls = 1..8 /\ \A i \in 1..8 : calls[i] = Appended(default_tags[i])
    BY <1>2, DefaultsAre
  <2> QED
    BY <1>2, <2>1, DefaultsAre
<1>4. PICK f : /\ f[0] = none /\ Registered(none, calls) = f[8]
               /\ \A i \in 1..8 : f[i] = register(f[i - 1], calls[i])
  <2>1. \E f : /\ f[0] = none /\ Registered(none, calls) = f[Len(calls)]
               /\ \A i \in 1..Len(calls) : f[i] = register(f[i - 1], calls[i])
    <3>1. Len(calls) \in Nat
      BY <1>3
    <3> QED
      BY <3>1, RegisteredIs
  <2> QED
    BY <1>3, <2>1
<1>5. Initial = f[8]
  BY <1>1, <1>2, <1>4 DEF Initial
<1>6. Begun(f[8], 8)
  <2> DEFINE E == {n \in 0..8 : Begun(f[n], n)}
  <2>1. 0 \in E
    <3>1. none.tags = <<>> /\ none.order = <<>> /\ 1..0 = {}
      BY <1>1
    <3>2. none.order \in Seq(Classes) /\ Len(none.order) = 0 /\ DOMAIN none.tags = {}
      BY <3>1, EmptySeq
    <3>3. Begun(f[0], 0)
      BY <1>4, <3>1, <3>2 DEF Begun
    <3> QED
      BY <3>3
  <2>2. ASSUME NEW n \in 1..8, n - 1 \in E PROVE n \in E
    BY <2>2, <1>3, <1>4, BegunStep
  <2>3. \A n \in 0..8 : n \in E
    <3> HIDE DEF E
    <3> QED
      BY <2>1, <2>2, UpTo
  <2>4. 8 \in E
    BY <2>3
  <2> QED
    BY <2>4
<1>7. PICK U : U = Initial
  OBVIOUS
<1>8. Begun(U, 8)
  BY <1>5, <1>6, <1>7
<1>9. /\ U.order \in Seq(Classes) /\ DOMAIN U.order = 1..8
      /\ \A j \in 1..8 : U.order[j] = default_tags[j]
  BY <1>8, LenProperties DEF Begun
<1>10. \A j \in 1..8 : U.order[j] \in Defaults
  BY <1>9, DefaultsAre
<1>11. "TagISO" \notin Defaults /\ "TagOrderedDict" \notin Defaults /\ \A c \in Defaults : c \in Classes
  BY DEF Defaults
<1>12. \A k \in DOMAIN U.tags : U.tags[k] \in Defaults
  BY <1>8, DefaultsAre DEF Begun
<1>13. TagsOK(U)
  BY <1>8, <1>9, <1>11, <1>12, Zenon DEF TagsOK, Begun
<1>14. OrderOK(U)
  <2>1. \A i \in 1..8 : U.order[i] = "PassDict" => i = 2
    BY <1>9, DefaultsAre
  <2>2. 1 \in 1..8 /\ 1 < 2 /\ U.order[1] = "TagDict"
    BY <1>9, DefaultsAre
  <2> QED
    BY <1>9, <2>1, <2>2, DefaultsAre DEF OrderOK
<1>15. DictsOK(U)
  BY <1>9, <1>10, <1>11 DEF DictsOK
<1>16. DatesOK(U)
  <2>1. <<" d">> \in DOMAIN U.tags
    <3>1. PICK i \in 1..8 : default_tags[i] = "TagDateTime"
      <4>1. "TagDateTime" \in Defaults
        BY DEF Defaults, Classes
      <4> QED
        BY <4>1, DefaultsAre
    <3>2. KeyOf["TagDateTime"] # <<>>
      <4>1. \A x : <<x>> # <<>>
        OBVIOUS
      <4> QED
        BY <4>1, KeysAre
    <3> QED
      BY <3>1, <3>2, <1>8, KeysAre DEF Begun
  <2>2. U.tags[<<" d">>] # "TagISO"
    BY <2>1, <1>11, <1>12
  <2> QED
    BY <2>2, <1>9, <1>10, <1>11 DEF DatesOK
<1> QED
  BY <1>7, <1>13, <1>14, <1>15, <1>16 DEF Good

OwnClasses == {"TagOrderedDict", "TagFoo", "TagISO"}

\* Where the classes are after one more was put in front or at the end.
LEMMA InFront ==
    ASSUME NEW o \in Seq(Classes), NEW c \in Classes
    PROVE  /\ <<c>> \o o \in Seq(Classes) /\ DOMAIN (<<c>> \o o) = 1..(Len(o) + 1)
           /\ DOMAIN o = 1..Len(o) /\ Len(o) \in Nat
           /\ (<<c>> \o o)[1] = c
           /\ \A i \in 1..Len(o) : i + 1 \in 1..(Len(o) + 1) /\ (<<c>> \o o)[i + 1] = o[i]
           /\ \A i \in 1..(Len(o) + 1) : i = 1 \/ (i - 1 \in 1..Len(o) /\ (<<c>> \o o)[i] = o[i - 1])
<1>1. <<c>> \in Seq(Classes) /\ Len(<<c>>) = 1 /\ <<c>>[1] = c
  OBVIOUS
<1>2. Len(o) \in Nat /\ DOMAIN o = 1..Len(o)
  BY LenProperties
<1>3. /\ <<c>> \o o \in Seq(Classes) /\ Len(<<c>> \o o) = 1 + Len(o)
      /\ \A i \in 1..(1 + Len(o)) : (<<c>> \o o)[i] = IF i <= 1 THEN <<c>>[i] ELSE o[i - 1]
  BY <1>1, ConcatProperties
<1>4. DOMAIN (<<c>> \o o) = 1..(1 + Len(o))
  BY <1>3, LenProperties
<1> QED
  BY <1>1, <1>2, <1>3, <1>4

LEMMA AtEnd ==
    ASSUME NEW o \in Seq(Classes), NEW c \in Classes
    PROVE  /\ Append(o, c) \in Seq(Classes) /\ DOMAIN Append(o, c) = 1..(Len(o) + 1)
           /\ DOMAIN o = 1..Len(o) /\ Len(o) \in Nat
           /\ Append(o, c)[Len(o) + 1] = c /\ Len(o) + 1 \in 1..(Len(o) + 1)
           /\ \A i \in 1..Len(o) : i \in 1..(Len(o) + 1) /\ i < Len(o) + 1 /\ Append(o, c)[i] = o[i]
           /\ \A i \in 1..(Len(o) + 1) : i = Len(o) + 1 \/ (i \in 1..Len(o) /\ Append(o, c)[i] = o[i])
OBVIOUS

\* A class of the application keeps the order, wherever it goes; one for dates
\* goes in front.
LEMMA OrderKept ==
    ASSUME NEW S, NEW U, NEW c \in OwnClasses, OrderOK(S), DictsOK(S),
           \/ U.order = <<c>> \o S.order
           \/ U.order = Append(S.order, c) /\ c # "TagISO"
    PROVE  OrderOK(U) /\ DictsOK(U)
<1>1. PICK o \in Seq(Classes) : o = S.order
  BY DEF OrderOK
<1>2. c \in Classes /\ c # "TagDict" /\ c # "PassDict" /\ c \notin Defaults
  BY DEF OwnClasses, Classes, Defaults
<1>3. DOMAIN o = 1..Len(o) /\ Len(o) \in Nat
  BY LenProperties
<1>4. \A d \in Defaults : \E i \in 1..Len(o) : o[i] = d
  BY <1>1, <1>3 DEF OrderOK
<1>5. \A i \in 1..Len(o) : o[i] = "PassDict" => \E j \in 1..Len(o) : j < i /\ o[j] = "TagDict"
  BY <1>1, <1>3 DEF OrderOK
<1>6. \A i, j, k \in 1..Len(o) :
          o[i] = "TagOrderedDict" /\ o[j] = "PassDict" /\ o[k] = "TagDict" /\ i < j => i < k
  BY <1>1, <1>3 DEF DictsOK
<1>7. PICK p : p = U.order
  OBVIOUS
<1>8. CASE U.order = <<c>> \o S.order
  <2>1. /\ p \in Seq(Classes) /\ DOMAIN p = 1..(Len(o) + 1) /\ p[1] = c
        /\ \A i \in 1..Len(o) : i + 1 \in 1..(Len(o) + 1) /\ p[i + 1] = o[i]
        /\ \A i \in 1..(Len(o) + 1) : i = 1 \/ (i - 1 \in 1..Len(o) /\ p[i] = o[i - 1])
    BY <1>1, <1>2, <1>7, <1>8, InFront
  <2>2. \A d \in Defaults : \E i \in 1..(Len(o) + 1) : p[i] = d
    BY <1>4, <2>1
  <2>3. ASSUME NEW i \in 1..(Len(o) + 1), p[i] = "PassDict"
        PROVE  \E j \in 1..(Len(o) + 1) : j < i /\ p[j] = "TagDict"
    <3>1. i - 1 \in 1..Len(o) /\ o[i - 1] = "PassDict"
      BY <1>2, <2>1, <2>3
    <3>2. PICK j \in 1..Len(o) : j < i - 1 /\ o[j] = "TagDict"
      BY <1>5, <3>1
    <3>3. j + 1 \in 1..(Len(o) + 1) /\ p[j + 1] = "TagDict" /\ j + 1 < i
      BY <2>1, <3>1, <3>2
    <3> QED
      BY <3>3
  <2>4. ASSUME NEW i \in 1..(Len(o) + 1), NEW j \in 1..(Len(o) + 1), NEW k \in 1..(Len(o) + 1),
               p[i] = "TagOrderedDict", p[j] = "PassDict", p[k] = "TagDict", i < j
        PROVE  i < k
    <3>1. j - 1 \in 1..Len(o) /\ k - 1 \in 1..Len(o) /\ o[j - 1] = "PassDict" /\ o[k - 1] = "TagDict"
      BY <1>2, <2>1, <2>4
    <3>2. CASE i = 1
      BY <1>3, <3>1, <3>2
    <3>3. CASE i # 1
      <4>1. i - 1 \in 1..Len(o) /\ o[i - 1] = "TagOrderedDict" /\ i - 1 < j - 1
        BY <2>1, <2>4, <3>1, <3>3
      <4>2. i - 1 < k - 1
        BY <1>6, <3>1, <4>1
      <4> QED
        BY <3>1, <4>2
    <3> QED
      BY <3>2, <3>3
  <2>5. OrderOK(U)
    BY <1>7, <2>1, <2>2, <2>3 DEF OrderOK
  <2>6. DictsOK(U)
    BY <1>7, <2>1, <2>4 DEF DictsOK
  <2> QED
    BY <2>5, <2>6
<1>9. CASE U.order = Append(S.order, c)
  <2>1. /\ p \in Seq(Classes) /\ DOMAIN p = 1..(Len(o) + 1) /\ p[Len(o) + 1] = c
        /\ \A i \in 1..Len(o) : i \in 1..(Len(o) + 1) /\ p[i] = o[i]
        /\ \A i \in 1..(Len(o) + 1) : i = Len(o) + 1 \/ (i \in 1..Len(o) /\ p[i] = o[i])
    BY <1>1, <1>2, <1>7, <1>9, AtEnd
  <2>2. \A d \in Defaults : \E i \in 1..(Len(o) + 1) : p[i] = d
    BY <1>4, <2>1
  <2>3. ASSUME NEW i \in 1..(Len(o) + 1), p[i] = "PassDict"
        PROVE  \E j \in 1..(Len(o) + 1) : j < i /\ p[j] = "TagDict"
    <3>1. i \in 1..Len(o) /\ o[i] = "PassDict"
      BY <1>2, <2>1, <2>3
    <3>2. PICK j \in 1..Len(o) : j < i /\ o[j] = "TagDict"
      BY <1>5, <3>1
    <3> QED
      BY <2>1, <3>2
  <2>4. ASSUME NEW i \in 1..(Len(o) + 1), NEW j \in 1..(Len(o) + 1), NEW k \in 1..(Len(o) + 1),
               p[i] = "TagOrderedDict", p[j] = "PassDict", p[k] = "TagDict", i < j
        PROVE  i < k
    <3>1. j \in 1..Len(o) /\ k \in 1..Len(o) /\ o[j] = "PassDict" /\ o[k] = "TagDict"
      BY <1>2, <2>1, <2>4
    <3>2. i \in 1..Len(o) /\ o[i] = "TagOrderedDict"
      BY <1>3, <2>1, <2>4, <3>1
    <3> QED
      BY <1>6, <2>4, <3>1, <3>2
  <2>5. OrderOK(U)
    BY <1>7, <2>1, <2>2, <2>3 DEF OrderOK
  <2>6. DictsOK(U)
    BY <1>7, <2>1, <2>4 DEF DictsOK
  <2> QED
    BY <2>5, <2>6
<1> QED
  BY <1>8, <1>9

\* The key of a class that is registered leads to it.
LEMMA TagsKept ==
    ASSUME NEW S, NEW U, NEW c \in OwnClasses, TagsOK(S), OrderOK(S),
           \E r : r.cls = c /\ U.tags = WithTag(S, r),
           U.order = <<c>> \o S.order \/ U.order = Append(S.order, c)
    PROVE  /\ TagsOK(U) /\ U.tags[KeyOf[c]] = c
           /\ \A k \in DOMAIN S.tags : k # KeyOf[c] => U.tags[k] = S.tags[k]
<1>1. PICK K : K = KeyOf[c]
  OBVIOUS
<1>2. c \in Classes /\ K # <<>> /\ K \in TagKeys
  <2>1. \A x : <<x>> # <<>>
    OBVIOUS
  <2> QED
    BY <1>1, <2>1, KeysAre DEF OwnClasses, Classes, TagKeys
<1>3. U.tags = [k \in DOMAIN S.tags \cup {K} |-> IF k = K THEN c ELSE S.tags[k]]
  BY <1>1, <1>2 DEF WithTag
<1>4. /\ DOMAIN U.tags = DOMAIN S.tags \cup {K} /\ U.tags[K] = c
      /\ \A k \in DOMAIN S.tags : k # K => U.tags[k] = S.tags[k]
  BY <1>3
<1>5. \A k \in DOMAIN U.tags : U.tags[k] \in Classes /\ KeyOf[U.tags[k]] = k
  BY <1>1, <1>2, <1>4 DEF TagsOK
<1>6. ASSUME NEW i \in DOMAIN U.order PROVE U.order[i] = c \/ \E j \in DOMAIN S.order : U.order[i] = S.order[j]
  <2>1. PICK o \in Seq(Classes) : o = S.order
    BY DEF OrderOK
  <2>2. CASE U.order = <<c>> \o o
    <3>1. i \in 1..(Len(o) + 1)
      BY <1>2, <1>6, <2>2, InFront
    <3>2. i = 1 \/ (i - 1 \in DOMAIN o /\ U.order[i] = o[i - 1])
      BY <1>2, <2>2, <3>1, InFront
    <3> QED
      BY <1>2, <2>1, <2>2, <3>2, InFront
  <2>3. CASE U.order = Append(o, c)
    <3>1. i \in 1..(Len(o) + 1)
      BY <1>2, <1>6, <2>3, AtEnd
    <3>2. i = Len(o) + 1 \/ (i \in DOMAIN o /\ U.order[i] = o[i])
      BY <1>2, <2>3, <3>1, AtEnd
    <3> QED
      BY <1>2, <2>1, <2>3, <3>2, AtEnd
  <2> QED
    BY <1>1, <2>1, <2>2, <2>3
<1>7. \A i \in DOMAIN U.order : KeyOf[U.order[i]] # <<>> => KeyOf[U.order[i]] \in DOMAIN U.tags
  BY <1>1, <1>4, <1>6 DEF TagsOK
<1>8. DOMAIN U.tags \subseteq TagKeys \ {<<>>}
  BY <1>2, <1>4 DEF TagsOK
<1> QED
  BY <1>1, <1>4, <1>5, <1>7, <1>8 DEF TagsOK

LEMMA DateKey == ASSUME NEW S, TagsOK(S), OrderOK(S) PROVE <<" d">> \in DOMAIN S.tags
<1>1. PICK i \in DOMAIN S.order : S.order[i] = "TagDateTime"
  <2>1. "TagDateTime" \in Defaults
    BY DEF Defaults, Classes
  <2> QED
    BY <2>1 DEF OrderOK
<1>2. KeyOf["TagDateTime"] # <<>>
  <2>1. \A x : <<x>> # <<>>
    OBVIOUS
  <2> QED
    BY <2>1, KeysAre
<1> QED
  BY <1>1, <1>2, KeysAre DEF TagsOK

\* Dates are still read by the class that writes them.
LEMMA DatesKept ==
    ASSUME NEW S, NEW U, NEW c \in OwnClasses, TagsOK(S), OrderOK(S), DatesOK(S),
           U.tags[KeyOf[c]] = c,
           \A k \in DOMAIN S.tags : k # KeyOf[c] => U.tags[k] = S.tags[k],
           \/ U.order = <<c>> \o S.order
           \/ U.order = Append(S.order, c) /\ c # "TagISO"
    PROVE  DatesOK(U)
<1>1. PICK o \in Seq(Classes) : o = S.order
  BY DEF OrderOK
<1>2. c \in Classes /\ c # "TagDateTime"
  BY DEF OwnClasses, Classes
<1>3. DOMAIN o = 1..Len(o) /\ Len(o) \in Nat
  BY LenProperties
<1>4. PICK p : p = U.order
  OBVIOUS
<1>5. PICK T : T = U.tags[<<" d">>]
  OBVIOUS
<1>6. T = IF c = "TagISO" THEN "TagISO" ELSE S.tags[<<" d">>]
  <2>1. CASE c = "TagISO"
    BY <1>5, <2>1, KeysAre
  <2>2. CASE c # "TagISO"
    <3>1. \A x, y : <<x>> = <<y>> => x = y
      OBVIOUS
    <3>2. KeyOf[c] # <<" d">>
      <4>1. c = "TagOrderedDict" \/ c = "TagFoo"
        BY <2>2 DEF OwnClasses
      <4>2. KeyOf["TagOrderedDict"] # <<" d">> /\ KeyOf["TagFoo"] # <<" d">>
        <5>1. " od" # " d" /\ " f" # " d"
          OBVIOUS
        <5> QED
          BY <3>1, <5>1, KeysAre, Zenon
      <4> QED
        BY <4>1, <4>2
    <3> QED
      BY <1>5, <2>2, <3>2, DateKey
  <2> QED
    BY <2>1, <2>2
<1>7. /\ \A i \in 1..Len(o) : o[i] = "TagISO" =>
             /\ S.tags[<<" d">>] = "TagISO"
             /\ \A j \in 1..Len(o) : o[j] = "TagDateTime" => i < j
      /\ S.tags[<<" d">>] = "TagISO" => \E i \in 1..Len(o) : o[i] = "TagISO"
  BY <1>1, <1>3 DEF DatesOK
<1>8. CASE U.order = <<c>> \o S.order
  <2>1. /\ DOMAIN p = 1..(Len(o) + 1) /\ p[1] = c
        /\ \A i \in 1..Len(o) : i + 1 \in 1..(Len(o) + 1) /\ p[i + 1] = o[i]
        /\ \A i \in 1..(Len(o) + 1) : i = 1 \/ (i - 1 \in 1..Len(o) /\ p[i] = o[i - 1])
    BY <1>1, <1>2, <1>4, <1>8, InFront
  <2>2. ASSUME NEW i \in 1..(Len(o) + 1), p[i] = "TagISO"
        PROVE  /\ T = "TagISO"
               /\ \A j \in 1..(Len(o) + 1) : p[j] = "TagDateTime" => i < j
    <3>1. ASSUME NEW j \in 1..(Len(o) + 1), p[j] = "TagDateTime"
          PROVE  j \in Nat /\ j > 1 /\ j - 1 \in 1..Len(o) /\ o[j - 1] = "TagDateTime"
      BY <1>2, <1>3, <2>1, <3>1
    <3>2. CASE i = 1
      BY <1>6, <2>1, <2>2, <3>1, <3>2
    <3>3. CASE i # 1
      <4>1. i - 1 \in 1..Len(o) /\ o[i - 1] = "TagISO"
        BY <2>1, <2>2, <3>3
      <4>2. T = "TagISO"
        BY <1>6, <1>7, <4>1
      <4>3. \A j \in 1..(Len(o) + 1) : p[j] = "TagDateTime" => i - 1 < j - 1
        BY <1>7, <3>1, <4>1
      <4> QED
        BY <4>2, <4>3
    <3> QED
      BY <3>2, <3>3
  <2>3. T = "TagISO" => \E i \in 1..(Len(o) + 1) : p[i] = "TagISO"
    <3>1. CASE c = "TagISO"
      <4>1. 1 \in 1..(Len(o) + 1)
        BY <1>3
      <4> QED
        BY <2>1, <3>1, <4>1
    <3>2. CASE c # "TagISO"
      BY <1>6, <1>7, <2>1, <3>2
    <3> QED
      BY <3>1, <3>2
  <2> QED
    BY <1>4, <1>5, <2>1, <2>2, <2>3 DEF DatesOK
<1>9. CASE U.order = Append(S.order, c) /\ c # "TagISO"
  <2>1. /\ DOMAIN p = 1..(Len(o) + 1) /\ p[Len(o) + 1] = c
        /\ \A i \in 1..Len(o) : i \in 1..(Len(o) + 1) /\ p[i] = o[i]
        /\ \A i \in 1..(Len(o) + 1) : i = Len(o) + 1 \/ (i \in 1..Len(o) /\ p[i] = o[i])
    BY <1>1, <1>2, <1>4, <1>9, AtEnd
  <2>2. ASSUME NEW i \in 1..(Len(o) + 1), p[i] = "TagISO"
        PROVE  /\ T = "TagISO"
               /\ \A j \in 1..(Len(o) + 1) : p[j] = "TagDateTime" => i < j
    <3>1. i \in 1..Len(o) /\ o[i] = "TagISO"
      BY <1>9, <2>1, <2>2
    <3>2. T = "TagISO"
      BY <1>6, <1>7, <1>9, <3>1
    <3>3. \A j \in 1..(Len(o) + 1) : p[j] = "TagDateTime" => j \in 1..Len(o) /\ o[j] = "TagDateTime"
      BY <1>2, <2>1
    <3> QED
      BY <1>7, <3>1, <3>2, <3>3
  <2>3. T = "TagISO" => \E i \in 1..(Len(o) + 1) : p[i] = "TagISO"
    BY <1>6, <1>7, <1>9, <2>1
  <2> QED
    BY <1>4, <1>5, <2>1, <2>2, <2>3 DEF DatesOK
<1> QED
  BY <1>8, <1>9

LEMMA GoodStep ==
    ASSUME NEW old, Good(old), NEW call \in Registration
    PROVE  Good(register(old, call))
<1>1. CASE Refuses(old, call)
  BY <1>1 DEF register
<1>2. CASE ~Refuses(old, call)
  <2>1. PICK new : new = register(old, call)
    OBVIOUS
  <2>2. new.tags = WithTag(old, call) /\ new.order = IF call.front THEN <<call.cls>> \o old.order ELSE Append(old.order, call.cls)
    BY <1>2, <2>1 DEF register
  <2>3. PICK c : c = call.cls
    OBVIOUS
  <2>4. c \in OwnClasses /\ (call.force => call.front) /\ call.force \in BOOLEAN /\ call.front \in BOOLEAN
    BY <2>3 DEF Registration, OwnClasses
  <2>5. TagsOK(old) /\ OrderOK(old) /\ DictsOK(old) /\ DatesOK(old)
    BY DEF Good
  <2>6. c = "TagISO" => call.front
    <3>1. SUFFICES ASSUME c = "TagISO" PROVE call.force
      BY <2>4
    <3>2. KeyOf[c] \in DOMAIN old.tags /\ KeyOf[c] # <<>>
      <4>1. \A x : <<x>> # <<>>
        OBVIOUS
      <4> QED
        BY <2>5, <3>1, <4>1, DateKey, KeysAre
    <3> QED
      BY <1>2, <2>3, <3>2 DEF Refuses
  <2>7. new.order = <<c>> \o old.order \/ (new.order = Append(old.order, c) /\ c # "TagISO")
    BY <2>2, <2>3, <2>6
  <2>8. OrderOK(new) /\ DictsOK(new)
    BY <2>4, <2>5, <2>7, OrderKept
  <2>9. /\ TagsOK(new) /\ new.tags[KeyOf[c]] = c
        /\ \A k \in DOMAIN old.tags : k # KeyOf[c] => new.tags[k] = old.tags[k]
    <3>1. \E x : x.cls = c /\ new.tags = WithTag(old, x)
      BY <2>2, <2>3
    <3> QED
      BY <2>4, <2>5, <2>7, <3>1, TagsKept
  <2>10. DatesOK(new)
    BY <2>4, <2>5, <2>7, <2>9, DatesKept
  <2> QED
    BY <2>1, <2>8, <2>9, <2>10 DEF Good
<1> QED
  BY <1>1, <1>2

\* Whatever an application registers, the serializer stays good.
LEMMA SerializerGood ==
    ASSUME NEW calls \in Seq(Registration)
    PROVE  Good(Serializer(calls))
<1>1. Len(calls) \in Nat
  BY LenProperties
<1>2. PICK f : /\ f[0] = Initial /\ Registered(Initial, calls) = f[Len(calls)]
               /\ \A i \in 1..Len(calls) : f[i] = register(f[i - 1], calls[i])
  BY <1>1, RegisteredIs
<1>3. \A i \in 1..Len(calls) : calls[i] \in Registration
  BY ElementOfSeq
<1> DEFINE E == {i \in 0..Len(calls) : Good(f[i])}
<1>4. 0 \in E
  BY <1>1, <1>2, InitialGood
<1>5. ASSUME NEW i \in 1..Len(calls), i - 1 \in E PROVE i \in E
  <2>1. Good(f[i - 1]) /\ calls[i] \in Registration /\ f[i] = register(f[i - 1], calls[i])
    BY <1>2, <1>3, <1>5
  <2>2. Good(f[i])
    BY <2>1, GoodStep
  <2> QED
    BY <1>1, <2>2
<1>6. \A i \in 0..Len(calls) : i \in E
  <2> HIDE DEF E
  <2> QED
    BY <1>1, <1>4, <1>5, UpTo
<1>7. Good(f[Len(calls)])
  BY <1>1, <1>6
<1> QED
  BY <1>2, <1>7 DEF Serializer

-----------------------------------------------------------------------------
(* Which class takes a value, and that the same class reads it. *)

LEMMA Least ==
    ASSUME NEW H, H \subseteq Nat, H # {}
    PROVE  \E i \in H : \A j \in H : i <= j
<1>1. SUFFICES ASSUME \A i \in H : \E j \in H : j < i PROVE FALSE
  OBVIOUS
<1> DEFINE E == {n \in Nat : \A j \in H : n <= j}
<1>2. 0 \in E
  OBVIOUS
<1>3. ASSUME NEW n \in Nat, n \in E PROVE n + 1 \in E
  <2>1. n \notin H
    BY <1>1, <1>3
  <2>2. \A j \in H : j \in Nat /\ n <= j /\ n # j
    BY <1>3, <2>1
  <2> QED
    BY <2>2
<1>4. Nat \subseteq E
  <2> HIDE DEF E
  <2> QED
    BY <1>2, <1>3, SetInduction
<1>5. PICK h \in H : h \in Nat
  OBVIOUS
<1>6. h + 1 \in E
  BY <1>4, <1>5
<1> QED
  BY <1>5, <1>6

LEMMA FirstHit ==
    ASSUME NEW S, NEW v, OrderOK(S), Hits(S, v) # {}
    PROVE  \E i \in Hits(S, v) : First(S, v) = S.order[i] /\ \A j \in Hits(S, v) : i <= j
<1>1. PICK H : H = Hits(S, v)
  OBVIOUS
<1>2. H \subseteq Nat
  <2>1. DOMAIN S.order \subseteq Nat
    BY LenProperties DEF OrderOK
  <2> QED
    BY <1>1, <2>1 DEF Hits
<1>3. \E i \in H : \A j \in H : i <= j
  BY <1>1, <1>2, Least
<1> DEFINE h == CHOOSE i \in H : \A j \in H : i <= j
<1>4. h \in H /\ \A j \in H : h <= j
  BY <1>3
<1>5. First(S, v) = S.order[h]
  BY <1>1 DEF First
<1> HIDE DEF h
<1> QED
  BY <1>1, <1>4, <1>5

\* Which classes recognise which types.
LEMMA InstancesAre ==
    /\ Instances["TagDict"] = {"dict", "odict"} /\ Instances["PassDict"] = {"dict", "odict"}
    /\ Instances["TagTuple"] = {"tuple"} /\ Instances["PassList"] = {"list"}
    /\ Instances["TagBytes"] = {"bytes"} /\ Instances["TagMarkup"] = {"Markup", "html"}
    /\ Instances["TagUUID"] = {"UUID"} /\ Instances["TagDateTime"] = {"datetime"}
    /\ Instances["TagOrderedDict"] = {"odict"} /\ Instances["TagFoo"] = {"Foo"}
    /\ Instances["TagISO"] = {"datetime"}
BY DEF Instances

Looks(S, v) == Len(v.s) = 1 /\ v.s[1].k.t = "str" /\ v.s[1].k.a \in DOMAIN S.tags

LEMMA Checks ==
    ASSUME NEW S, NEW v, NEW c \in Classes
    PROVE  /\ check(S, c, v) => v.t \in Instances[c]
           /\ check(S, "TagDict", v) <=> v.t \in {"dict", "odict"} /\ Looks(S, v)
           /\ c # "TagDict" /\ v.t \in Instances[c] => check(S, c, v)
BY InstancesAre, Zenon DEF check, Looks

LEMMA HitsAre ==
    ASSUME NEW S, NEW v, OrderOK(S)
    PROVE  \A i \in DOMAIN S.order :
               /\ S.order[i] \in Classes
               /\ i \in Hits(S, v) <=> /\ v.t \in Instances[S.order[i]]
                                       /\ S.order[i] = "TagDict" => Looks(S, v)
<1>1. \A i \in DOMAIN S.order : S.order[i] \in Classes
  BY LenProperties, ElementOfSeq DEF OrderOK
<1>2. ASSUME NEW c \in Classes
      PROVE  check(S, c, v) <=> v.t \in Instances[c] /\ (c = "TagDict" => Looks(S, v))
  BY <1>2, Checks, InstancesAre
<1> QED
  BY <1>1, <1>2 DEF Hits

\* What is not tagged.
LEMMA NoHit ==
    ASSUME NEW S, NEW v, OrderOK(S), v.t \in {"str", "int", "none", "Decimal", "dataclass"}
    PROVE  Hits(S, v) = {}
<1>1. \A c \in Classes : v.t \notin Instances[c]
  BY InstancesAre DEF Classes
<1> QED
  BY <1>1, HitsAre DEF Hits

\* The one class of a type takes its values.
OnlyClass == [tuple |-> "TagTuple", list |-> "PassList", bytes |-> "TagBytes", Markup |-> "TagMarkup",
              html |-> "TagMarkup", UUID |-> "TagUUID", Foo |-> "TagFoo"]

LEMMA OnlyHit ==
    ASSUME NEW S, NEW v, OrderOK(S), v.t \in DOMAIN OnlyClass,
           v.t = "Foo" => \E i \in DOMAIN S.order : S.order[i] = "TagFoo"
    PROVE  Hits(S, v) # {} /\ First(S, v) = OnlyClass[v.t]
<1>1. PICK c : c = OnlyClass[v.t]
  OBVIOUS
<1>2. /\ c \in Classes /\ c # "TagDict" /\ v.t \in Instances[c]
      /\ \A d \in Classes : v.t \in Instances[d] => d = c
      /\ v.t # "Foo" => c \in Defaults
  BY <1>1, InstancesAre DEF OnlyClass, Classes, Defaults
<1>3. \E i \in DOMAIN S.order : S.order[i] = c
  <2>1. CASE v.t = "Foo"
    BY <1>1, <2>1 DEF OnlyClass
  <2>2. CASE v.t # "Foo"
    BY <1>2, <2>2 DEF OrderOK
  <2> QED
    BY <2>1, <2>2
<1>4. Hits(S, v) # {}
  BY <1>2, <1>3, HitsAre
<1>5. \A i \in Hits(S, v) : S.order[i] = c
  <2>1. \A i \in Hits(S, v) : i \in DOMAIN S.order
    BY DEF Hits
  <2> QED
    BY <1>2, <2>1, HitsAre
<1>6. PICK i \in Hits(S, v) : First(S, v) = S.order[i]
  BY <1>4, FirstHit
<1> QED
  BY <1>1, <1>4, <1>5, <1>6

DictClass(S, v) == IF Looks(S, v) THEN "TagDict" ELSE "PassDict"

LEMMA DictHit ==
    ASSUME NEW S, NEW v, Good(S), v.t = "dict"
    PROVE  Hits(S, v) # {} /\ First(S, v) = DictClass(S, v)
<1>1. OrderOK(S)
  BY DEF Good
<1>2. \A c \in Classes : v.t \in Instances[c] <=> c \in {"TagDict", "PassDict"}
  BY InstancesAre DEF Classes
<1>3. "TagDict" \in Defaults /\ "PassDict" \in Defaults /\ "TagDict" \in Classes /\ "PassDict" \in Classes
  BY DEF Defaults, Classes
<1>4. \A i \in DOMAIN S.order :
          i \in Hits(S, v) <=> S.order[i] = "PassDict" \/ (S.order[i] = "TagDict" /\ Looks(S, v))
  BY <1>1, <1>2, <1>3, HitsAre
<1>5. Hits(S, v) # {}
  BY <1>1, <1>3, <1>4 DEF OrderOK
<1>6. PICK i \in Hits(S, v) : First(S, v) = S.order[i] /\ \A j \in Hits(S, v) : i <= j
  BY <1>1, <1>5, FirstHit
<1>7. i \in DOMAIN S.order
  BY DEF Hits
<1>8. CASE ~Looks(S, v)
  BY <1>4, <1>5, <1>6, <1>7, <1>8 DEF DictClass
<1>9. CASE Looks(S, v)
  <2>1. ASSUME S.order[i] = "PassDict" PROVE FALSE
    <3>1. PICK j \in DOMAIN S.order : j < i /\ S.order[j] = "TagDict"
      BY <1>1, <1>7, <2>1 DEF OrderOK
    <3>2. j \in Hits(S, v)
      BY <1>4, <1>9, <3>1
    <3>3. DOMAIN S.order \subseteq Nat
      BY <1>1, LenProperties DEF OrderOK
    <3> QED
      BY <1>6, <1>7, <3>1, <3>2, <3>3
  <2> QED
    BY <1>4, <1>5, <1>6, <1>7, <1>9, <2>1 DEF DictClass
<1> QED
  BY <1>8, <1>9

LEMMA OrderedHit ==
    ASSUME NEW S, NEW v, Good(S), v.t = "odict"
    PROVE  /\ Hits(S, v) # {}
           /\ First(S, v) = IF Precedes(S, "TagOrderedDict", "PassDict") THEN "TagOrderedDict"
                            ELSE DictClass(S, v)
<1>1. OrderOK(S) /\ DictsOK(S)
  BY DEF Good
<1>2. \A c \in Classes : v.t \in Instances[c] <=> c \in {"TagDict", "PassDict", "TagOrderedDict"}
  BY InstancesAre DEF Classes
<1>3. "PassDict" \in Defaults /\ "TagDict" \in Classes /\ "PassDict" \in Classes /\ "TagOrderedDict" \in Classes
  BY DEF Defaults, Classes
<1>4. \A i \in DOMAIN S.order :
          i \in Hits(S, v) <=> S.order[i] \in {"PassDict", "TagOrderedDict"} \/ (S.order[i] = "TagDict" /\ Looks(S, v))
  BY <1>1, <1>2, <1>3, HitsAre
<1>5. PICK p \in DOMAIN S.order : S.order[p] = "PassDict"
  BY <1>1, <1>3 DEF OrderOK
<1>6. PICK i \in Hits(S, v) : First(S, v) = S.order[i] /\ \A j \in Hits(S, v) : i <= j
  BY <1>1, <1>4, <1>5, FirstHit
<1>7. i \in DOMAIN S.order /\ DOMAIN S.order \subseteq Nat
  BY <1>1, LenProperties DEF Hits, OrderOK
<1>8. Hits(S, v) # {}
  BY <1>6
<1>9. CASE Precedes(S, "TagOrderedDict", "PassDict")
  <2>1. PICK o \in DOMAIN S.order : /\ S.order[o] = "TagOrderedDict"
                                    /\ \A j \in DOMAIN S.order : S.order[j] = "PassDict" => o < j
    BY <1>9 DEF Precedes
  <2>2. o \in Hits(S, v) /\ i <= o /\ i \in Nat /\ o \in Nat
    BY <1>4, <1>6, <1>7, <2>1
  <2>3. S.order[i] # "PassDict"
    BY <1>7, <2>1, <2>2
  <2>4. S.order[i] # "TagDict"
    <3>1. ASSUME S.order[i] = "TagDict" PROVE o < i
      BY <1>1, <1>5, <1>7, <2>1, <3>1 DEF DictsOK
    <3> QED
      BY <2>2, <3>1
  <2> QED
    BY <1>4, <1>6, <1>7, <1>8, <1>9, <2>3, <2>4
<1>10. CASE ~Precedes(S, "TagOrderedDict", "PassDict")
  <2>1. S.order[i] # "TagOrderedDict"
    <3>1. ASSUME S.order[i] = "TagOrderedDict" PROVE FALSE
      <4>1. ASSUME NEW j \in DOMAIN S.order, S.order[j] = "PassDict" PROVE i < j
        <5>1. j \in Hits(S, v) /\ j # i /\ i \in Nat /\ j \in Nat
          BY <1>4, <1>7, <3>1, <4>1
        <5> QED
          BY <1>6, <5>1
      <4> QED
        BY <1>7, <1>10, <3>1, <4>1 DEF Precedes
    <3> QED
      BY <3>1
  <2>2. CASE ~Looks(S, v)
    BY <1>4, <1>6, <1>7, <1>8, <1>10, <2>1, <2>2 DEF DictClass
  <2>3. CASE Looks(S, v)
    <3>1. ASSUME S.order[i] = "PassDict" PROVE FALSE
      <4>1. PICK j \in DOMAIN S.order : j < i /\ S.order[j] = "TagDict"
        BY <1>1, <1>7, <3>1 DEF OrderOK
      <4>2. j \in Hits(S, v) /\ i \in Nat /\ j \in Nat
        BY <1>4, <1>7, <2>3, <4>1
      <4> QED
        BY <1>6, <4>1, <4>2
    <3> QED
      BY <1>4, <1>6, <1>7, <1>8, <1>10, <2>1, <2>3, <3>1 DEF DictClass
  <2> QED
    BY <2>2, <2>3
<1> QED
  BY <1>9, <1>10

DateClass(S) == IF Precedes(S, "TagISO", "TagDateTime") THEN "TagISO" ELSE "TagDateTime"

LEMMA DateHit ==
    ASSUME NEW S, NEW v, Good(S), v.t = "datetime"
    PROVE  /\ Hits(S, v) # {} /\ First(S, v) = DateClass(S)
           /\ S.tags[<<" d">>] = DateClass(S)
<1>1. OrderOK(S) /\ DatesOK(S) /\ TagsOK(S)
  BY DEF Good
<1>2. \A c \in Classes : v.t \in Instances[c] <=> c \in {"TagISO", "TagDateTime"}
  BY InstancesAre DEF Classes
<1>3. "TagDateTime" \in Defaults /\ "TagDateTime" \in Classes /\ "TagISO" \in Classes
  BY DEF Defaults, Classes
<1>4. \A i \in DOMAIN S.order : i \in Hits(S, v) <=> S.order[i] \in {"TagISO", "TagDateTime"}
  BY <1>1, <1>2, <1>3, HitsAre
<1>5. PICK p \in DOMAIN S.order : S.order[p] = "TagDateTime"
  BY <1>1, <1>3 DEF OrderOK
<1>6. PICK i \in Hits(S, v) : First(S, v) = S.order[i] /\ \A j \in Hits(S, v) : i <= j
  BY <1>1, <1>4, <1>5, FirstHit
<1>7. i \in DOMAIN S.order /\ DOMAIN S.order \subseteq Nat
  BY <1>1, LenProperties DEF Hits, OrderOK
<1>8. Hits(S, v) # {}
  BY <1>6
<1>9. CASE \E o \in DOMAIN S.order : S.order[o] = "TagISO"
  <2>1. PICK o \in DOMAIN S.order : S.order[o] = "TagISO"
    BY <1>9
  <2>2. S.tags[<<" d">>] = "TagISO" /\ \A j \in DOMAIN S.order : S.order[j] = "TagDateTime" => o < j
    BY <1>1, <2>1 DEF DatesOK
  <2>3. DateClass(S) = "TagISO"
    BY <2>1, <2>2 DEF Precedes, DateClass
  <2>4. o \in Hits(S, v) /\ i <= o /\ i \in Nat /\ o \in Nat
    BY <1>4, <1>6, <1>7, <2>1
  <2>5. S.order[i] # "TagDateTime"
    <3>1. ASSUME S.order[i] = "TagDateTime" PROVE o < i
      BY <1>7, <2>2, <3>1
    <3> QED
      BY <2>4, <3>1
  <2> QED
    BY <1>4, <1>6, <1>7, <1>8, <2>2, <2>3, <2>5
<1>10. CASE ~\E o \in DOMAIN S.order : S.order[o] = "TagISO"
  <2>1. DateClass(S) = "TagDateTime"
    BY <1>10 DEF Precedes, DateClass
  <2>2. S.tags[<<" d">>] # "TagISO"
    BY <1>1, <1>10 DEF DatesOK
  <2>3. S.tags[<<" d">>] = "TagDateTime"
    <3>1. PICK c \in Classes : c = S.tags[<<" d">>] /\ KeyOf[c] = <<" d">>
      BY <1>1, DateKey DEF TagsOK
    <3>2. KeyOf["TagISO"] = KeyOf[c] /\ KeyOf[c] # <<>>
      <4>1. \A x : <<x>> # <<>>
        OBVIOUS
      <4> QED
        BY <3>1, <4>1, KeysAre
    <3>3. c \in {"TagDateTime", "TagISO"}
      BY <1>3, <3>1, <3>2, KeysDiffer
    <3> QED
      BY <2>2, <3>1, <3>3
  <2> QED
    BY <1>4, <1>6, <1>7, <1>8, <1>10, <2>1, <2>3
<1> QED
  BY <1>9, <1>10

\* The class that writes a value is the one that reads it.
LEMMA Reads ==
    ASSUME NEW S, NEW c \in Classes, Good(S), KeyOf[c] # <<>>, c \notin {"TagDateTime", "TagISO"},
           \E i \in DOMAIN S.order : S.order[i] = c
    PROVE  KeyOf[c] \in DOMAIN S.tags /\ S.tags[KeyOf[c]] = c
<1>1. TagsOK(S)
  BY DEF Good
<1>2. KeyOf[c] \in DOMAIN S.tags
  BY <1>1 DEF TagsOK
<1>3. S.tags[KeyOf[c]] \in Classes /\ KeyOf[S.tags[KeyOf[c]]] = KeyOf[c]
  BY <1>1, <1>2 DEF TagsOK
<1>4. S.tags[KeyOf[c]] = c
  BY <1>3, KeysDiffer
<1> QED
  BY <1>2, <1>4

-----------------------------------------------------------------------------
(* Values of each level, and what JSON makes of them. *)

Items(X) == [k : Leaves, v : X]

LEMMA MapSeq ==
    ASSUME NEW A, NEW s \in Seq(A), NEW B, NEW f, f = [i \in DOMAIN s |-> f[i]],
           \A i \in DOMAIN s : f[i] \in B
    PROVE  f \in Seq(B) /\ Len(f) = Len(s) /\ DOMAIN f = DOMAIN s
<1>1. PICK n \in Nat : n = Len(s) /\ DOMAIN s = 1..n
  BY LenProperties
<1>2. f \in [1..n -> B]
  BY <1>1
<1>3. f \in Seq(B) /\ DOMAIN f = 1..n
  BY <1>2, SeqDef
<1>4. Len(f) = n
  BY <1>1, <1>3, LenProperties
<1> QED
  BY <1>1, <1>3, <1>4

LEMMA Deeper ==
    ASSUME NEW m \in Depths, NEW n \in Depths, m <= n
    PROVE  L(m) \subseteq L(n) /\ L(n) \subseteq Value
<1>1. ASSUME NEW a \in Depths, NEW b \in Depths, a <= b PROVE L(a) \subseteq L(b)
  <2> DEFINE E == {i \in Depths : a <= i => L(a) \subseteq L(i)}
  <2>1. 0 \in E
    BY DepthsAre
  <2>2. ASSUME NEW i \in 1..TagDepth, i - 1 \in E PROVE i \in E
    <3>1. i \in Depths /\ i - 1 \in Depths /\ L(i - 1) \subseteq L(i)
      BY DepthsAre, LevelsGrow DEF L
    <3>2. CASE a = i
      BY <3>1, <3>2
    <3>3. CASE a # i
      <4>1. a <= i => a <= i - 1
        BY <3>1, <3>3, DepthsAre
      <4> QED
        BY <2>2, <3>1, <4>1
    <3> QED
      BY <3>2, <3>3
  <2>3. \A i \in 0..TagDepth : i \in E
    <3> HIDE DEF E
    <3> QED
      BY <2>1, <2>2, DepthsAre, UpTo
  <2> QED
    BY <1>1, <2>3 DEF Depths
<1>2. n <= TagDepth
  BY DepthsAre DEF Depths
<1> QED
  BY <1>1, <1>2, DepthsAre DEF Value, L

LEMMA Inside ==
    ASSUME NEW n \in Depths
    PROVE  L(n) \subseteq Value
<1>1. n <= n
  BY DepthsAre
<1> QED
  BY <1>1, Deeper

LEMMA LeafIn ==
    ASSUME NEW n \in Depths
    PROVE  Leaves \subseteq L(n)
BY LevelsGrow DEF L

LEMMA StrIn == ASSUME NEW a \in Seq(Pieces) PROVE Str(a) \in Leaves /\ Str(a) = Val("str", a, <<>>)
BY DEF Str, Val, Leaves, Scalars

\* Lists and dicts of values are values one level higher.
LEMMA ListIn ==
    ASSUME NEW n \in 1..TagDepth, NEW s \in Seq(Items(L(n - 1))), \A i \in DOMAIN s : s[i].k = Unkeyed
    PROVE  Val("list", <<>>, s) \in L(n)
<1>1. PICK w : w = Val("list", <<>>, s)
  OBVIOUS
<1>2. w.t = "list" /\ w.a = <<>> /\ w.s = s /\ w = [t |-> "list", a |-> <<>>, s |-> s]
  BY <1>1 DEF Val
<1>3. w \in [t : Types, a : {<<>>}, s : Seq([k : Leaves, v : L(n - 1)])]
  BY <1>2 DEF Types, Lists, Items
<1>4. Composed(w)
  BY <1>2 DEF Composed, Lists, Maps
<1>5. w \in Around(Types, L(n - 1))
  BY <1>3, <1>4 DEF Around
<1> QED
  BY <1>1, <1>5, LevelsAre DEF L

LEMMA DictIn ==
    ASSUME NEW n \in 1..TagDepth, NEW s \in Seq(Items(L(n - 1))), Keyed(s)
    PROVE  Val("dict", <<>>, s) \in L(n)
<1>1. PICK w : w = Val("dict", <<>>, s)
  OBVIOUS
<1>2. w.t = "dict" /\ w.a = <<>> /\ w.s = s /\ w = [t |-> "dict", a |-> <<>>, s |-> s]
  BY <1>1 DEF Val
<1>3. w \in [t : Types, a : {<<>>}, s : Seq([k : Leaves, v : L(n - 1)])]
  BY <1>2 DEF Types, Maps, Items
<1>4. Composed(w)
  BY <1>2 DEF Composed, Lists, Maps
<1>5. w \in Around(Types, L(n - 1))
  BY <1>3, <1>4 DEF Around
<1> QED
  BY <1>1, <1>5, LevelsAre DEF L

\* A dict of one item with text as its key.
One(a, x) == Val("dict", <<>>, << Item(Str(a), x) >>)

LEMMA OneIn ==
    ASSUME NEW n \in 1..TagDepth, NEW x \in L(n - 1), NEW a \in Seq(Pieces)
    PROVE  One(a, x) \in L(n)
<1>1. PICK it : it = Item(Str(a), x)
  OBVIOUS
<1>2. it \in Items(L(n - 1)) /\ it.k = Str(a) /\ it.v = x
  BY <1>1, StrIn DEF Item, Items
<1>3. <<it>> \in Seq(Items(L(n - 1))) /\ DOMAIN <<it>> = {1} /\ <<it>>[1] = it
  BY <1>2
<1>4. IsKey(it.k)
  BY <1>2, StrIn DEF IsKey, Val
<1>5. Keyed(<<it>>)
  BY <1>3, <1>4 DEF Keyed
<1> QED
  BY <1>1, <1>3, <1>5, DictIn DEF One

Simple == {"str", "int", "none", "Decimal", "bytes", "Markup", "html", "UUID"}

\* What a value looks like, by its type.
LEMMA Shapes ==
    ASSUME NEW T, T \subseteq Types, NEW n \in Depths, NEW v \in Levels(T)[n]
    PROVE  /\ v = Val(v.t, v.a, v.s) /\ v = [t |-> v.t, a |-> v.a, s |-> v.s]
           /\ v.t \in Simple \/ v.t = "datetime" \/ v.t \in T
           /\ v.t \in Simple => v.s = <<>> /\ v.a \in Seq(Pieces) /\ v \in Leaves
           /\ v.t = "datetime" => v.s = <<>> /\ v.a \in Pieces \X Pieces /\ v \in Leaves
           /\ v.t \in Types => /\ n \in 1..TagDepth /\ v.a = <<>> /\ v.t \in T /\ Composed(v)
                               /\ v.s \in Seq(Items(Levels(T)[n - 1]))
<1>1. "datetime" \notin Simple /\ "datetime" \notin Types /\ \A t \in Simple : t \notin Types
  BY DEF Simple, Types, Lists, Maps
<1>2. CASE v \in Leaves
  <2>1. v = [t |-> v.t, a |-> v.a, s |-> v.s] /\ v.s = <<>>
    BY <1>2 DEF Leaves
  <2>2. \/ v.t \in Simple /\ v.a \in Seq(Pieces)
        \/ v.t = "datetime" /\ v.a \in Pieces \X Pieces
    BY <1>2 DEF Leaves, Scalars, Simple
  <2> QED
    BY <1>1, <1>2, <2>1, <2>2 DEF Val
<1>3. CASE n # 0 /\ v \in Around(T, Levels(T)[n - 1])
  <2>1. v \in [t : T, a : {<<>>}, s : Seq(Items(Levels(T)[n - 1]))] /\ Composed(v)
    BY <1>3 DEF Around, Items
  <2>2. v = [t |-> v.t, a |-> v.a, s |-> v.s] /\ v.t \in T /\ v.a = <<>>
        /\ v.s \in Seq(Items(Levels(T)[n - 1]))
    BY <2>1
  <2>3. v.t \in Types
    BY <2>2
  <2> QED
    BY <1>1, <1>3, <2>1, <2>2, <2>3, DepthsAre DEF Val
<1> QED
  BY <1>2, <1>3, ItemsBelow

LEMMA ItemsSeq ==
    ASSUME NEW X, NEW s \in Seq(Items(X))
    PROVE  \A i \in DOMAIN s : s[i].v \in X /\ s[i].k \in Leaves
<1>1. \A i \in DOMAIN s : s[i] \in Items(X)
  BY LenProperties, ElementOfSeq
<1> QED
  BY <1>1 DEF Items

LEMMA KeyText ==
    ASSUME NEW k \in Leaves, IsKey(k)
    PROVE  k.a \in Seq(Pieces) /\ Str(k.a) \in Leaves /\ (k.t = "str" => Str(k.a) = k)
           /\ k.s = <<>> /\ k.t \in {"str", "int", "none"} /\ k = Val(k.t, k.a, k.s)
<1>1. k.t \in {"str", "int", "none"}
  BY DEF IsKey
<1>2. k.a \in Seq(Pieces) /\ k = [t |-> k.t, a |-> k.a, s |-> <<>>] /\ k.s = <<>>
  BY <1>1 DEF Leaves
<1>3. k.t = "str" => Str(k.a) = k
  BY <1>2 DEF Str, Val
<1> QED
  BY <1>1, <1>2, <1>3, StrIn DEF Val

\* The keys of a dict as JSON writes them.
AsText(s, r) == [i \in DOMAIN s |-> Item(Str(s[i].k.a), r[i])]

LEMMA TextKeyed ==
    ASSUME NEW X, NEW s \in Seq(Items(X)), Keyed(s), NEW Y, NEW r, \A i \in DOMAIN s : r[i] \in Y
    PROVE  /\ AsText(s, r) \in Seq(Items(Y)) /\ Keyed(AsText(s, r)) /\ Len(AsText(s, r)) = Len(s)
           /\ DOMAIN AsText(s, r) = DOMAIN s
           /\ \A i \in DOMAIN s : /\ AsText(s, r)[i] = Item(Str(s[i].k.a), r[i])
                                  /\ AsText(s, r)[i].k = Str(s[i].k.a) /\ AsText(s, r)[i].v = r[i]
<1>1. PICK q : q = AsText(s, r)
  OBVIOUS
<1>2. \A i \in DOMAIN s : s[i] \in Items(X)
  BY LenProperties, ElementOfSeq
<1>3. \A i \in DOMAIN s : s[i].k \in Leaves /\ IsKey(s[i].k)
  BY <1>2 DEF Keyed, Items
<1>4. \A i \in DOMAIN s : s[i].k.a \in Seq(Pieces) /\ Str(s[i].k.a) \in Leaves
  BY <1>3, KeyText
<1>5. DOMAIN q = DOMAIN s /\ \A i \in DOMAIN s : q[i] = Item(Str(s[i].k.a), r[i])
  BY <1>1 DEF AsText
<1>6. \A i \in DOMAIN s : q[i] \in Items(Y) /\ q[i].k = Str(s[i].k.a) /\ q[i].v = r[i]
  BY <1>4, <1>5 DEF Item, Items
<1>7. q = [i \in DOMAIN s |-> q[i]]
  BY <1>1, <1>5 DEF AsText
<1>8. q \in Seq(Items(Y)) /\ Len(q) = Len(s)
  BY <1>6, <1>7, MapSeq
<1>9. \A i \in DOMAIN s : IsKey(q[i].k) /\ q[i].k.t = "str" /\ q[i].k.a = s[i].k.a
  <2>1. \A a : IsKey(Str(a)) /\ Str(a).t = "str" /\ Str(a).a = a
    BY DEF IsKey, Str, Val
  <2> QED
    BY <1>6, <2>1
<1>10. \A i \in DOMAIN s, j \in DOMAIN s : s[i].k.t = s[j].k.t /\ (s[i].k.a = s[j].k.a => i = j)
  BY DEF Keyed
<1>11. Keyed(q)
  BY <1>5, <1>9, <1>10 DEF Keyed
<1> QED
  BY <1>1, <1>5, <1>6, <1>8, <1>11

LEMMA WithSeq ==
    ASSUME NEW X, NEW s \in Seq(Items(X)), NEW Y, NEW r, \A i \in DOMAIN s : r[i] \in Y
    PROVE  /\ With(s, r) \in Seq(Items(Y)) /\ Len(With(s, r)) = Len(s) /\ DOMAIN With(s, r) = DOMAIN s
           /\ \A i \in DOMAIN s : /\ With(s, r)[i] = Item(s[i].k, r[i])
                                  /\ With(s, r)[i].k = s[i].k /\ With(s, r)[i].v = r[i]
           /\ Keyed(s) => Keyed(With(s, r))
<1>1. PICK q : q = With(s, r)
  OBVIOUS
<1>2. \A i \in DOMAIN s : s[i].k \in Leaves
  <2>1. \A i \in DOMAIN s : s[i] \in Items(X)
    BY LenProperties, ElementOfSeq
  <2> QED
    BY <2>1 DEF Items
<1>3. DOMAIN q = DOMAIN s /\ \A i \in DOMAIN s : q[i] = Item(s[i].k, r[i])
  BY <1>1 DEF With
<1>4. \A i \in DOMAIN s : q[i] \in Items(Y) /\ q[i].k = s[i].k /\ q[i].v = r[i]
  BY <1>2, <1>3 DEF Item, Items
<1>5. q = [i \in DOMAIN s |-> q[i]]
  BY <1>1, <1>3 DEF With
<1>6. q \in Seq(Items(Y)) /\ Len(q) = Len(s)
  BY <1>4, <1>5, MapSeq
<1>7. Keyed(s) => Keyed(q)
  BY <1>3, <1>4 DEF Keyed
<1> QED
  BY <1>1, <1>3, <1>4, <1>6, <1>7

LEMMA PiecesAre ==
    /\ "__" \in Pieces /\ "b64" \in Pieces /\ "hex" \in Pieces /\ "http" \in Pieces
    /\ "iso" \in Pieces /\ "str" \in Pieces /\ "0" \in Pieces
    /\ \A x \in Pieces : \A y \in Pieces : <<x, y>> \in Seq(Pieces)
<1>1. \A x \in Pieces : \A y \in Pieces : <<x, y>> \in Seq(Pieces)
  OBVIOUS
<1> QED
  BY <1>1, TextAssumption

\* What JSON writes, by type.
LEMMA JsonedIs ==
    ASSUME NEW v, NEW r
    PROVE  /\ v.t \in Lists => Jsoned(v, r) = Val("list", <<>>, With(v.s, r))
           /\ v.t \in Maps => Jsoned(v, r) = Val("dict", <<>>, AsText(v.s, r))
           /\ v.t \in {"Decimal", "Markup", "html"} => Jsoned(v, r) = Str(v.a)
           /\ v.t = "UUID" => Jsoned(v, r) = Str(Append(v.a, "str"))
           /\ v.t = "datetime" => Jsoned(v, r) = Str(<<v.a[1], "http">>)
           /\ v.t \notin Lists \cup Maps \cup {"Decimal", "Markup", "html", "UUID", "datetime"} =>
                  Jsoned(v, r) = v
<1>1. /\ v.t \in Lists => v.t \notin Maps \cup {"Decimal", "Markup", "html", "UUID", "datetime"}
      /\ v.t \in Maps => v.t \notin {"Decimal", "Markup", "html", "UUID", "datetime"}
  BY DEF Lists, Maps
<1> QED
  BY <1>1 DEF Jsoned, AsText

\* JSON makes of a value one of the same depth.
LEMMA JsonIn == \A n \in Depths : \A v \in L(n) : Json[v] \in L(n)
<1> DEFINE E == {n \in Depths : \A v \in L(n) : Json[v] \in L(n)}
<1>1. ASSUME NEW n \in Depths, NEW v \in L(n), n # 0 => \A w \in L(n - 1) : Json[w] \in L(n - 1)
      PROVE  Json[v] \in L(n)
  <2>1. v \in Value /\ v \in Levels(Types)[n]
    <3>1. L(n) \subseteq Value
      BY <1>1, Inside
    <3>2. v \in L(n)
      BY <1>1
    <3> QED
      BY <3>1, <3>2 DEF L
  <2>2. PICK r : r = [i \in DOMAIN v.s |-> Json[v.s[i].v]]
    OBVIOUS
  <2>3. Json[v] = Jsoned(v, r)
    BY <2>1, <2>2, JsonIs
  <2>4. /\ v.t \in Simple => v.s = <<>> /\ v.a \in Seq(Pieces) /\ v \in Leaves
        /\ v.t = "datetime" => v.s = <<>> /\ v.a \in Pieces \X Pieces /\ v \in Leaves
        /\ v.t \in Types => n \in 1..TagDepth /\ Composed(v) /\ v.s \in Seq(Items(L(n - 1)))
        /\ v.t \in Simple \/ v.t = "datetime" \/ v.t \in Types
    BY <2>1, Shapes DEF L
  <2>5. CASE v.t \in Lists
    <3>1. v.t \in Types /\ \A i \in DOMAIN v.s : v.s[i].k = Unkeyed
      BY <2>4, <2>5 DEF Types, Composed
    <3>2. \A i \in DOMAIN v.s : r[i] \in L(n - 1)
      BY <1>1, <2>1, <2>2, ItemsBelow DEF L
    <3>3. Val("list", <<>>, With(v.s, r)) \in L(n)
      <4>1. With(v.s, r) \in Seq(Items(L(n - 1))) /\ \A i \in DOMAIN With(v.s, r) : With(v.s, r)[i].k = Unkeyed
        BY <2>4, <3>1, <3>2, WithSeq
      <4> QED
        BY <2>4, <3>1, <4>1, ListIn
    <3> QED
      BY <2>3, <2>5, <3>3, JsonedIs
  <2>6. CASE v.t \in Maps
    <3>1. v.t \in Types /\ Keyed(v.s) /\ v.t \notin Lists
      BY <2>4, <2>6 DEF Types, Composed, Maps, Lists
    <3>2. \A i \in DOMAIN v.s : r[i] \in L(n - 1)
      BY <1>1, <2>1, <2>2, ItemsBelow DEF L
    <3>3. AsText(v.s, r) \in Seq(Items(L(n - 1))) /\ Keyed(AsText(v.s, r))
      BY <2>4, <3>1, <3>2, TextKeyed
    <3>4. Val("dict", <<>>, AsText(v.s, r)) \in L(n)
      BY <2>4, <3>1, <3>3, DictIn
    <3> QED
      BY <2>3, <2>6, <3>4, JsonedIs
  <2>7. CASE v.t \notin Lists \cup Maps
    <3>1. \/ Jsoned(v, r) = v
          \/ v.t \in Simple /\ (Jsoned(v, r) = Str(v.a) \/ Jsoned(v, r) = Str(Append(v.a, "str")))
          \/ v.t = "datetime" /\ Jsoned(v, r) = Str(<<v.a[1], "http">>)
      <4>1. CASE v.t \in {"Decimal", "Markup", "html", "UUID"}
        BY <4>1, JsonedIs DEF Simple
      <4>2. CASE v.t = "datetime"
        BY <4>2, JsonedIs
      <4>3. CASE v.t \notin {"Decimal", "Markup", "html", "UUID", "datetime"}
        BY <2>7, <4>3, JsonedIs
      <4> QED
        BY <4>1, <4>2, <4>3
    <3>2. Leaves \subseteq L(n)
      BY LeafIn
    <3>3. ASSUME v.t \in Simple PROVE Str(v.a) \in Leaves /\ Str(Append(v.a, "str")) \in Leaves
      <4>1. v.a \in Seq(Pieces) /\ Append(v.a, "str") \in Seq(Pieces)
        BY <2>4, <3>3, PiecesAre
      <4> QED
        BY <4>1, StrIn
    <3>4. ASSUME v.t = "datetime" PROVE Str(<<v.a[1], "http">>) \in Leaves
      <4>1. <<v.a[1], "http">> \in Seq(Pieces)
        BY <2>4, <3>4, PiecesAre
      <4> QED
        BY <4>1, StrIn
    <3> QED
      BY <1>1, <2>3, <3>1, <3>2, <3>3, <3>4
  <2> QED
    BY <2>5, <2>6, <2>7
<1>2. 0 \in E
  BY <1>1, DepthsAre
<1>3. ASSUME NEW n \in 1..TagDepth, n - 1 \in E PROVE n \in E
  BY <1>1, <1>3, DepthsAre
<1>4. \A n \in 0..TagDepth : n \in E
  <2> HIDE DEF E
  <2> QED
    BY <1>2, <1>3, DepthsAre, UpTo
<1> QED
  BY <1>4 DEF Depths

-----------------------------------------------------------------------------
(* What is read of a value that was tagged and written. *)

\* What is read of what was written of a tagged value.
W(S, y) == _untag_scan(S)[Json[y]]

LEMMA NoItems == ASSUME NEW s, s = <<>>, NEW r PROVE With(s, r) = <<>> /\ AsText(s, r) = <<>>
BY DEF With, AsText

LEMMA InValue ==
    ASSUME NEW y \in Value
    PROVE  /\ Json[y] \in Value /\ y \in Levels(Types)[TagDepth]
           /\ y.s \in Seq(Items(Value)) /\ y = Val(y.t, y.a, y.s)
           /\ \A i \in DOMAIN y.s : y.s[i].v \in Value /\ y.s[i].k \in Leaves
<1>1. TagDepth \in Depths /\ y \in L(TagDepth) /\ y \in Levels(Types)[TagDepth]
  BY DepthsAre DEF Value, L
<1>2. Json[y] \in Value
  BY <1>1, JsonIn DEF Value, L
<1>3. y.t \in Simple \/ y.t = "datetime" \/ y.t \in Types
  BY <1>1, Shapes
<1>4. CASE y.t \in Types
  <2>1. /\ TagDepth \in 1..TagDepth
        /\ y.s \in Seq(Items(Levels(Types)[TagDepth - 1]))
    BY <1>1, <1>4, Shapes
  <2>2. Items(Levels(Types)[TagDepth - 1]) \subseteq Items(Value)
    <3>1. Levels(Types)[TagDepth - 1] \subseteq Value
      BY <2>1, LevelsGrow DEF Value
    <3> QED
      BY <3>1 DEF Items
  <2>3. y.s \in Seq(Items(Value))
    BY <2>1, <2>2, SeqMonotonic
  <2> QED
    BY <1>1, <1>2, <2>3, Shapes, ItemsSeq
<1>5. CASE y.t \in Simple \/ y.t = "datetime"
  <2>1. y.s = <<>> /\ y = Val(y.t, y.a, y.s)
    BY <1>1, <1>5, Shapes
  <2> QED
    BY <1>1, <1>2, <2>1
<1> QED
  BY <1>3, <1>4, <1>5

\* Text, numbers and None are read as they are.
LEMMA ReadsText ==
    ASSUME NEW S, NEW y \in Value, y.t \in {"str", "int", "none"}
    PROVE  W(S, y) = y
<1>1. y.s = <<>> /\ y = Val(y.t, y.a, y.s)
  <2>1. TagDepth \in Depths /\ y \in Levels(Types)[TagDepth]
    BY DepthsAre, InValue
  <2> QED
    BY <2>1, Shapes DEF Simple
<1>2. Json[y] = y
  <2>1. y.t \notin Lists \cup Maps \cup {"Decimal", "Markup", "html", "UUID", "datetime"}
    BY DEF Lists, Maps
  <2> QED
    BY <2>1, JsonIs, JsonedIs
<1>3. PICK r : r = [i \in DOMAIN y.s |-> _untag_scan(S)[y.s[i].v]]
  OBVIOUS
<1>4. _untag_scan(S)[y] = Scanned(S, y, r)
  BY <1>3, ScanIs
<1>5. With(y.s, r) = <<>>
  BY <1>1, NoItems
<1>6. Scanned(S, y, r) = Val(y.t, y.a, With(y.s, r))
  BY DEF Scanned
<1> QED
  BY <1>1, <1>2, <1>4, <1>5, <1>6 DEF W

\* A list is read item by item.
LEMMA ReadsList ==
    ASSUME NEW S, NEW s, Val("list", <<>>, s) \in Value
    PROVE  W(S, Val("list", <<>>, s)) = Val("list", <<>>, With(s, [i \in DOMAIN s |-> W(S, s[i].v)]))
<1>1. PICK y : y = Val("list", <<>>, s)
  OBVIOUS
<1>2. y \in Value /\ y.t = "list" /\ y.a = <<>> /\ y.s = s
  BY <1>1 DEF Val
<1>3. PICK p : p = [i \in DOMAIN s |-> Json[s[i].v]]
  OBVIOUS
<1>4. Json[y] = Val("list", <<>>, With(s, p))
  <2>1. Json[y] = Jsoned(y, p)
    BY <1>2, <1>3, JsonIs
  <2> QED
    BY <1>2, <2>1, JsonedIs DEF Lists
<1>5. PICK j : j = Json[y]
  OBVIOUS
<1>6. j \in Value /\ j.t = "list" /\ j.a = <<>> /\ j.s = With(s, p)
  BY <1>2, <1>4, <1>5, InValue DEF Val
<1>7. PICK r : r = [i \in DOMAIN j.s |-> _untag_scan(S)[j.s[i].v]]
  OBVIOUS
<1>8. W(S, y) = Val("list", <<>>, With(j.s, r))
  <2>1. W(S, y) = Scanned(S, j, r)
    BY <1>5, <1>6, <1>7, ScanIs DEF W
  <2> QED
    BY <1>6, <2>1 DEF Scanned
<1>9. PICK q : q = [i \in DOMAIN s |-> W(S, s[i].v)]
  OBVIOUS
<1>10. DOMAIN j.s = DOMAIN s /\ \A i \in DOMAIN s : j.s[i].k = s[i].k /\ j.s[i].v = Json[s[i].v]
  BY <1>3, <1>6 DEF With, Item
<1>11. \A i \in DOMAIN s : r[i] = q[i]
  BY <1>7, <1>9, <1>10 DEF W
<1>12. With(j.s, r) = With(s, q)
  BY <1>10, <1>11 DEF With
<1> QED
  BY <1>1, <1>8, <1>9, <1>12

\* A dict is read item by item, and then it may be a tag.
LEMMA ReadsDict ==
    ASSUME NEW S, NEW s, Val("dict", <<>>, s) \in Value
    PROVE  W(S, Val("dict", <<>>, s)) =
               untag(S, Val("dict", <<>>, AsText(s, [i \in DOMAIN s |-> W(S, s[i].v)])))
<1>1. PICK y : y = Val("dict", <<>>, s)
  OBVIOUS
<1>2. y \in Value /\ y.t = "dict" /\ y.a = <<>> /\ y.s = s
  BY <1>1 DEF Val
<1>3. PICK p : p = [i \in DOMAIN s |-> Json[s[i].v]]
  OBVIOUS
<1>4. Json[y] = Val("dict", <<>>, AsText(s, p))
  <2>1. Json[y] = Jsoned(y, p)
    BY <1>2, <1>3, JsonIs
  <2> QED
    BY <1>2, <2>1, JsonedIs DEF Maps
<1>5. PICK j : j = Json[y]
  OBVIOUS
<1>6. j \in Value /\ j.t = "dict" /\ j.a = <<>> /\ j.s = AsText(s, p)
  BY <1>2, <1>4, <1>5, InValue DEF Val
<1>7. PICK r : r = [i \in DOMAIN j.s |-> _untag_scan(S)[j.s[i].v]]
  OBVIOUS
<1>8. W(S, y) = untag(S, Val("dict", <<>>, With(j.s, r)))
  <2>1. W(S, y) = Scanned(S, j, r)
    BY <1>5, <1>6, <1>7, ScanIs DEF W
  <2> QED
    BY <1>6, <2>1 DEF Scanned
<1>9. PICK q : q = [i \in DOMAIN s |-> W(S, s[i].v)]
  OBVIOUS
<1>10. DOMAIN j.s = DOMAIN s /\ \A i \in DOMAIN s : j.s[i].k = Str(s[i].k.a) /\ j.s[i].v = Json[s[i].v]
  BY <1>3, <1>6 DEF AsText, Item
<1>11. \A i \in DOMAIN s : r[i] = q[i]
  BY <1>7, <1>9, <1>10 DEF W
<1>12. With(j.s, r) = AsText(s, q)
  BY <1>10, <1>11 DEF With, AsText
<1> QED
  BY <1>1, <1>8, <1>9, <1>12

\* A tag is read by the class that has its key.
LEMMA ReadsTag ==
    ASSUME NEW S, NEW c, NEW x, One(KeyOf[c], x) \in Value,
           KeyOf[c] \in DOMAIN S.tags, S.tags[KeyOf[c]] = c
    PROVE  W(S, One(KeyOf[c], x)) = to_python(c, W(S, x))
<1>1. PICK K : K = KeyOf[c]
  OBVIOUS
<1>2. PICK s : s = << Item(Str(K), x) >>
  OBVIOUS
<1>3. One(K, x) = Val("dict", <<>>, s)
  BY <1>2 DEF One
<1>4. PICK q : q = [i \in DOMAIN s |-> W(S, s[i].v)]
  OBVIOUS
<1>5. PICK d : d = Val("dict", <<>>, AsText(s, q))
  OBVIOUS
<1>6. W(S, One(K, x)) = untag(S, d)
  BY <1>1, <1>3, <1>4, <1>5, ReadsDict
<1>7. DOMAIN s = {1} /\ Len(s) = 1 /\ s[1].v = x /\ s[1].k.a = K
  BY <1>2 DEF Item, Str, Val
<1>8. q[1] = W(S, x)
  BY <1>4, <1>7
<1>9. d.s = AsText(s, q)
  BY <1>5 DEF Val
<1>10. Len(d.s) = 1 /\ d.s[1].k.a = K /\ d.s[1].v = W(S, x)
  <2>1. AsText(s, q) = [i \in 1..1 |-> Item(Str(s[i].k.a), q[i])]
    <3>1. DOMAIN s = 1..1
      BY <1>7
    <3> QED
      BY <3>1 DEF AsText
  <2>2. Len(AsText(s, q)) = 1 /\ AsText(s, q)[1] = Item(Str(K), q[1])
    BY <1>7, <2>1
  <2> QED
    BY <1>8, <1>9, <2>2 DEF Item, Str, Val
<1>11. untag(S, d) = to_python(c, W(S, x))
  BY <1>1, <1>10 DEF untag
<1> QED
  BY <1>1, <1>6, <1>11

\* What the classes write and read.
LEMMA ToJson ==
    ASSUME NEW v, NEW r
    PROVE  /\ to_json("TagDict", v, r) = Val("dict", <<>>, << Item(Escaped(v.s[1].k), r[1]) >>)
           /\ to_json("PassDict", v, r) = Val("dict", <<>>, With(v.s, r))
           /\ to_json("TagTuple", v, r) = Val("list", <<>>, With(v.s, r))
           /\ to_json("PassList", v, r) = Val("list", <<>>, With(v.s, r))
           /\ to_json("TagOrderedDict", v, r) =
                  Val("list", <<>>, [i \in DOMAIN v.s |->
                      In(Val("list", <<>>, << In(v.s[i].k), In(r[i]) >>))])
           /\ to_json("TagFoo", v, r) = r[1]
           /\ to_json("TagBytes", v, r) = Str(Append(v.a, "b64"))
           /\ to_json("TagUUID", v, r) = Str(Append(v.a, "hex"))
           /\ to_json("TagDateTime", v, r) = Str(<<v.a[1], "http">>)
           /\ to_json("TagISO", v, r) = Str(Append(v.a, "iso"))
           /\ to_json("TagMarkup", v, r) = Str(v.a)
BY DEF to_json, Text

LEMMA ToPython ==
    ASSUME NEW x
    PROVE  /\ to_python("TagDict", x) = Val("dict", <<>>, << Item(Unescaped(x.s[1].k), x.s[1].v) >>)
           /\ to_python("TagTuple", x) = Val("tuple", <<>>, x.s)
           /\ to_python("TagBytes", x) = Val("bytes", Front(x.a), <<>>)
           /\ to_python("TagMarkup", x) = Val("Markup", x.a, <<>>)
           /\ to_python("TagUUID", x) = Val("UUID", Front(x.a), <<>>)
           /\ to_python("TagDateTime", x) = Val("datetime", <<x.a[1], "0">>, <<>>)
           /\ to_python("TagISO", x) = Val("datetime", Front(x.a), <<>>)
           /\ to_python("TagFoo", x) = Val("Foo", <<>>, << In(x) >>)
           /\ to_python("TagOrderedDict", x) =
                  Val("odict", <<>>, [i \in DOMAIN x.s |-> Item(x.s[i].v.s[1].v, x.s[i].v.s[2].v)])
BY DEF to_python

LEMMA RemainsIs ==
    ASSUME NEW S, NEW v, NEW r
    PROVE  /\ v.t = "dict" => Remains(S, v, r) = Val("dict", <<>>, AsText(v.s, r))
           /\ v.t = "odict" => Remains(S, v, r) =
                  IF Precedes(S, "TagOrderedDict", "PassDict") THEN Val("odict", <<>>, With(v.s, r))
                  ELSE Val("dict", <<>>, AsText(v.s, r))
           /\ v.t \in {"list", "tuple", "Foo"} => Remains(S, v, r) = Val(v.t, <<>>, With(v.s, r))
           /\ v.t \in {"bytes", "UUID", "Markup"} => Remains(S, v, r) = v
           /\ v.t = "datetime" => Remains(S, v, r) =
                  IF Precedes(S, "TagISO", "TagDateTime") THEN v ELSE [v EXCEPT !.a = <<v.a[1], "0">>]
           /\ v.t = "html" => Remains(S, v, r) = [v EXCEPT !.t = "Markup"]
           /\ v.t \in {"str", "int", "none", "Decimal", "dataclass"} => Remains(S, v, r) = Json[v]
BY DEF Remains, AsText

LEMMA TaggedIs ==
    ASSUME NEW S, NEW v, NEW r
    PROVE  /\ Hits(S, v) = {} => Tagged(S, v, r) = v
           /\ Hits(S, v) # {} /\ KeyOf[First(S, v)] = <<>> =>
                  Tagged(S, v, r) = to_json(First(S, v), v, r)
           /\ Hits(S, v) # {} /\ KeyOf[First(S, v)] # <<>> =>
                  Tagged(S, v, r) = One(KeyOf[First(S, v)], to_json(First(S, v), v, r))
<1>1. CASE Hits(S, v) = {}
  BY <1>1 DEF Tagged
<1>2. CASE Hits(S, v) # {}
  BY <1>2, Zenon DEF Tagged, One
<1> QED
  BY <1>1, <1>2

LEMMA TaggedAs ==
    ASSUME NEW S, NEW v, NEW r, NEW c, Hits(S, v) # {}, First(S, v) = c, KeyOf[c] # <<>>
    PROVE  Tagged(S, v, r) = One(KeyOf[c], to_json(c, v, r))
BY TaggedIs

\* The levels that a container needs for its tags.
Room(m) == m \in Nat /\ m + 3 \in Depths

LEMMA Rooms ==
    ASSUME NEW m, Room(m)
    PROVE  /\ m \in Depths /\ m + 1 \in 1..TagDepth /\ m + 2 \in 1..TagDepth /\ m + 3 \in 1..TagDepth
           /\ (m + 1) - 1 = m /\ (m + 2) - 1 = m + 1 /\ (m + 3) - 1 = m + 2
           /\ m + 1 \in Depths /\ m + 2 \in Depths
           /\ L(m + 1) \subseteq L(m + 3) /\ L(m + 2) \subseteq L(m + 3) /\ L(m + 3) \subseteq Value
           /\ L(m) \subseteq L(m + 1) /\ L(m + 1) \subseteq L(m + 2)
<1>1. /\ m \in Depths /\ m + 1 \in 1..TagDepth /\ m + 2 \in 1..TagDepth /\ m + 3 \in 1..TagDepth
      /\ (m + 1) - 1 = m /\ (m + 2) - 1 = m + 1 /\ (m + 3) - 1 = m + 2
      /\ m + 1 \in Depths /\ m + 2 \in Depths /\ m + 3 \in Depths
      /\ m <= m + 1 /\ m + 1 <= m + 2 /\ m + 1 <= m + 3 /\ m + 2 <= m + 3
  BY DepthsAre DEF Room, Depths
<1> QED
  BY <1>1, Deeper

\* What is written and read with a tag that has its class.
LEMMA Wrapped ==
    ASSUME NEW S, Good(S), NEW c \in Classes, KeyOf[c] \in DOMAIN S.tags, S.tags[KeyOf[c]] = c,
           NEW n \in 1..TagDepth, NEW x \in L(n - 1)
    PROVE  /\ One(KeyOf[c], x) \in L(n)
           /\ W(S, One(KeyOf[c], x)) = to_python(c, W(S, x))
<1>1. KeyOf[c] \in Seq(Pieces)
  BY KeysAre, KeysShort DEF TagKeys
<1>2. One(KeyOf[c], x) \in L(n)
  BY <1>1, OneIn
<1>3. L(n) \subseteq Value
  BY Deeper, DepthsAre
<1> QED
  BY <1>2, <1>3, ReadsTag

-----------------------------------------------------------------------------
(* One container or leaf, by its type, when its items are read as they should be. *)

\* A value whose items were tagged is tagged within three levels, and read as it
\* should be when they are.
NodeOK(S, v, m, r) ==
    /\ Tagged(S, v, r) \in L(m + 3)
    /\ W(S, Tagged(S, v, r)) = Remains(S, v, [i \in DOMAIN v.s |-> W(S, r[i])])

LEMMA FrontAppend ==
    ASSUME NEW T, NEW s \in Seq(T), NEW x \in T
    PROVE  Front(Append(s, x)) = s
BY DEF Front

LEMMA KeyedClass ==
    ASSUME NEW c \in Classes \ {"PassDict", "PassList"}
    PROVE  KeyOf[c] # <<>>
<1>1. \A x : <<x>> # <<>>
  OBVIOUS
<1> QED
  BY <1>1, KeysAre DEF Classes

LEMMA TextTagged ==
    ASSUME NEW S, Good(S), NEW c \in Classes, KeyOf[c] \in DOMAIN S.tags, S.tags[KeyOf[c]] = c,
           NEW m, Room(m), NEW a \in Seq(Pieces)
    PROVE  One(KeyOf[c], Str(a)) \in L(m + 3) /\ W(S, One(KeyOf[c], Str(a))) = to_python(c, Str(a))
<1>1. m + 1 \in 1..TagDepth /\ (m + 1) - 1 \in Depths /\ L(m + 1) \subseteq L(m + 3) /\ L(m + 1) \subseteq Value
  BY Rooms
<1>2. Str(a) \in Leaves
  BY StrIn
<1>3. Str(a) \in L((m + 1) - 1)
  BY <1>1, <1>2, LeafIn
<1>4. One(KeyOf[c], Str(a)) \in L(m + 1) /\ W(S, One(KeyOf[c], Str(a))) = to_python(c, W(S, Str(a)))
  BY <1>1, <1>3, Wrapped
<1>5. W(S, Str(a)) = Str(a)
  <2>1. Str(a).t = "str"
    BY DEF Str, Val
  <2>2. Str(a) \in Value
    BY <1>2, LeafIn, DepthsAre DEF Value, L
  <2> QED
    BY <2>1, <2>2, ReadsText
<1> QED
  BY <1>1, <1>4, <1>5

\* The class of a type is registered and read under its key.
LEMMA OnlyReads ==
    ASSUME NEW S, NEW v, Good(S), v.t \in DOMAIN OnlyClass, v.t # "list",
           v.t = "Foo" => \E i \in DOMAIN S.order : S.order[i] = "TagFoo"
    PROVE  /\ OnlyClass[v.t] \in Classes \ {"PassDict", "PassList"}
           /\ KeyOf[OnlyClass[v.t]] \in DOMAIN S.tags /\ S.tags[KeyOf[OnlyClass[v.t]]] = OnlyClass[v.t]
           /\ \A r : Tagged(S, v, r) = One(KeyOf[OnlyClass[v.t]], to_json(OnlyClass[v.t], v, r))
<1>1. OrderOK(S)
  BY DEF Good
<1>2. PICK c : c = OnlyClass[v.t]
  OBVIOUS
<1>3. c \in Classes \ {"PassDict", "PassList"} /\ c \notin {"TagDateTime", "TagISO"}
  BY <1>2 DEF OnlyClass, Classes
<1>4. Hits(S, v) # {} /\ First(S, v) = c
  BY <1>1, <1>2, OnlyHit
<1>5. KeyOf[c] # <<>>
  BY <1>3, KeyedClass
<1>6. \E i \in DOMAIN S.order : S.order[i] = c
  BY <1>1, <1>4, FirstHit DEF Hits
<1>7. KeyOf[c] \in DOMAIN S.tags /\ S.tags[KeyOf[c]] = c
  BY <1>3, <1>5, <1>6, Reads
<1>8. \A r : Tagged(S, v, r) = One(KeyOf[c], to_json(c, v, r))
  BY <1>4, <1>5, TaggedIs
<1> QED
  BY <1>2, <1>3, <1>7, <1>8

LEMMA BytesNode ==
    ASSUME NEW S, Good(S), NEW m, Room(m), NEW r, NEW v, v = [t |-> v.t, a |-> v.a, s |-> v.s],
           v.t \in {"bytes", "UUID", "Markup", "html"}, v.s = <<>>, v.a \in Seq(Pieces)
    PROVE  NodeOK(S, v, m, r)
<1>1. PICK c, a : c = OnlyClass[v.t] /\ a = v.a
  OBVIOUS
<1>2. /\ c \in Classes /\ KeyOf[c] \in DOMAIN S.tags /\ S.tags[KeyOf[c]] = c
      /\ Tagged(S, v, r) = One(KeyOf[c], to_json(c, v, r))
  <2>1. v.t \in DOMAIN OnlyClass /\ v.t # "list" /\ v.t # "Foo"
    BY DEF OnlyClass
  <2> QED
    BY <1>1, <2>1, OnlyReads
<1>3. PICK q : q = [i \in DOMAIN v.s |-> W(S, r[i])]
  OBVIOUS
<1>4. \A b : Str(b).a = b
  BY DEF Str, Val
<1>5. CASE v.t \in {"bytes", "UUID"}
  <2>1. PICK x \in Pieces : /\ to_json(c, v, r) = Str(Append(a, x))
                            /\ \A y : to_python(c, y) = Val(v.t, Front(y.a), <<>>)
    <3>1. CASE v.t = "bytes"
      <4>1. c = "TagBytes"
        BY <1>1, <3>1 DEF OnlyClass
      <4>2. to_json(c, v, r) = Str(Append(a, "b64"))
        BY <1>1, <4>1, ToJson
      <4>3. \A y : to_python(c, y) = Val("bytes", Front(y.a), <<>>)
        BY <4>1, ToPython
      <4> QED
        BY <3>1, <4>2, <4>3, PiecesAre
    <3>2. CASE v.t = "UUID"
      <4>1. c = "TagUUID"
        BY <1>1, <3>2 DEF OnlyClass
      <4>2. to_json(c, v, r) = Str(Append(a, "hex"))
        BY <1>1, <4>1, ToJson
      <4>3. \A y : to_python(c, y) = Val("UUID", Front(y.a), <<>>)
        BY <4>1, ToPython
      <4> QED
        BY <3>2, <4>2, <4>3, PiecesAre
    <3> QED
      BY <1>5, <3>1, <3>2
  <2>2. a \in Seq(Pieces) /\ Append(a, x) \in Seq(Pieces) /\ Front(Append(a, x)) = a
    BY <1>1, FrontAppend
  <2>3. /\ Tagged(S, v, r) \in L(m + 3)
        /\ W(S, Tagged(S, v, r)) = to_python(c, Str(Append(a, x)))
    BY <1>2, <2>1, <2>2, TextTagged
  <2>4. to_python(c, Str(Append(a, x))) = Val(v.t, a, <<>>)
    BY <1>4, <2>1, <2>2
  <2>5. Val(v.t, a, <<>>) = v
    BY <1>1 DEF Val
  <2>6. Remains(S, v, q) = v
    BY <1>5, RemainsIs
  <2> QED
    BY <1>3, <2>3, <2>4, <2>5, <2>6 DEF NodeOK
<1>6. CASE v.t \in {"Markup", "html"}
  <2>1. to_json(c, v, r) = Str(a) /\ \A y : to_python(c, y) = Val("Markup", y.a, <<>>)
    <3>1. c = "TagMarkup"
      BY <1>1, <1>6 DEF OnlyClass
    <3>2. to_json(c, v, r) = Str(a)
      BY <1>1, <3>1, ToJson
    <3>3. \A y : to_python(c, y) = Val("Markup", y.a, <<>>)
      BY <3>1, ToPython
    <3> QED
      BY <3>2, <3>3
  <2>2. /\ Tagged(S, v, r) \in L(m + 3)
        /\ W(S, Tagged(S, v, r)) = to_python(c, Str(a))
    BY <1>1, <1>2, <2>1, TextTagged
  <2>3. to_python(c, Str(a)) = Val("Markup", a, <<>>)
    BY <1>4, <2>1
  <2>4. Remains(S, v, q) = Val("Markup", a, <<>>)
    <3>1. CASE v.t = "Markup"
      BY <1>1, <3>1, RemainsIs DEF Val
    <3>2. CASE v.t = "html"
      BY <1>1, <3>2, RemainsIs DEF Val
    <3> QED
      BY <1>6, <3>1, <3>2
  <2> QED
    BY <1>3, <2>2, <2>3, <2>4 DEF NodeOK
<1> QED
  BY <1>5, <1>6

LEMMA DateNode ==
    ASSUME NEW S, Good(S), NEW m, Room(m), NEW r, NEW v, v = [t |-> v.t, a |-> v.a, s |-> v.s],
           v.t = "datetime", v.s = <<>>, v.a \in Pieces \X Pieces
    PROVE  NodeOK(S, v, m, r)
<1>1. PICK c, a : c = DateClass(S) /\ a = v.a
  OBVIOUS
<1>2. c \in {"TagISO", "TagDateTime"} /\ c \in Classes /\ KeyOf[c] = <<" d">> /\ KeyOf[c] # <<>>
  <2>1. c \in {"TagISO", "TagDateTime"}
    BY <1>1 DEF DateClass
  <2>2. c \in Classes \ {"PassDict", "PassList"}
    BY <2>1 DEF Classes
  <2> QED
    BY <2>1, <2>2, KeysAre, KeyedClass
<1>3. KeyOf[c] \in DOMAIN S.tags /\ S.tags[KeyOf[c]] = c
  BY <1>1, <1>2, DateHit, DateKey DEF Good
<1>4. Tagged(S, v, r) = One(KeyOf[c], to_json(c, v, r))
  <2>1. Hits(S, v) # {} /\ First(S, v) = c
    BY <1>1, DateHit
  <2> QED
    BY <1>2, <2>1, TaggedAs
<1>5. PICK q : q = [i \in DOMAIN v.s |-> W(S, r[i])]
  OBVIOUS
<1>6. \A b : Str(b).a = b
  BY DEF Str, Val
<1>7. PICK x \in Pieces, y \in Pieces : a = <<x, y>> /\ a[1] = x
  BY <1>1
<1>8. CASE c = "TagISO"
  <2>1. a \in Seq(Pieces) /\ Append(a, "iso") \in Seq(Pieces) /\ Front(Append(a, "iso")) = a
    <3>1. a \in Seq(Pieces)
      BY <1>7, PiecesAre
    <3> QED
      BY <3>1, PiecesAre, FrontAppend
  <2>2. to_json(c, v, r) = Str(Append(a, "iso"))
    BY <1>1, <1>8, ToJson
  <2>3. /\ Tagged(S, v, r) \in L(m + 3)
        /\ W(S, Tagged(S, v, r)) = to_python(c, Str(Append(a, "iso")))
    BY <1>2, <1>3, <1>4, <2>1, <2>2, TextTagged
  <2>4. to_python(c, Str(Append(a, "iso"))) = Val("datetime", a, <<>>)
    <3>1. \A z : to_python(c, z) = Val("datetime", Front(z.a), <<>>)
      BY <1>8, ToPython
    <3> QED
      BY <1>6, <2>1, <3>1
  <2>5. Remains(S, v, q) = v
    BY <1>1, <1>8, RemainsIs DEF DateClass
  <2>6. v = Val("datetime", a, <<>>)
    BY <1>1 DEF Val
  <2> QED
    BY <1>5, <2>3, <2>4, <2>5, <2>6 DEF NodeOK
<1>9. CASE c = "TagDateTime"
  <2>1. PICK b : b = <<x, "http">> /\ b \in Seq(Pieces) /\ b[1] = x
    <3>1. \A w, z : <<w, z>>[1] = w
      OBVIOUS
    <3> QED
      BY <3>1, PiecesAre
  <2>2. to_json(c, v, r) = Str(b)
    BY <1>1, <1>7, <1>9, <2>1, ToJson
  <2>3. /\ Tagged(S, v, r) \in L(m + 3)
        /\ W(S, Tagged(S, v, r)) = to_python(c, Str(b))
    BY <1>2, <1>3, <1>4, <2>1, <2>2, TextTagged
  <2>4. to_python(c, Str(b)) = Val("datetime", <<x, "0">>, <<>>)
    <3>1. \A z : to_python(c, z) = Val("datetime", <<z.a[1], "0">>, <<>>)
      BY <1>9, ToPython
    <3> QED
      BY <1>6, <2>1, <3>1
  <2>5. Remains(S, v, q) = [v EXCEPT !.a = <<x, "0">>]
    BY <1>1, <1>7, <1>9, RemainsIs DEF DateClass
  <2>6. [v EXCEPT !.a = <<x, "0">>] = Val("datetime", <<x, "0">>, <<>>)
    BY DEF Val
  <2> QED
    BY <1>5, <2>3, <2>4, <2>5, <2>6 DEF NodeOK
<1> QED
  BY <1>2, <1>8, <1>9

LEMMA TagsKnown ==
    ASSUME NEW S, Good(S), NEW k \in DOMAIN S.tags
    PROVE  k \in TagKeys
BY KeysAre DEF Good, TagsOK, TagKeys

\* A list of items of one level is a list of the next one.
LEMMA ListedIn ==
    ASSUME NEW n \in 1..TagDepth, NEW A, NEW z \in Seq(Items(A)), \A i \in DOMAIN z : z[i].k = Unkeyed,
           NEW p, \A i \in DOMAIN z : p[i] \in L(n - 1)
    PROVE  /\ Val("list", <<>>, With(z, p)) \in L(n)
           /\ DOMAIN With(z, p) = DOMAIN z
           /\ \A i \in DOMAIN z : With(z, p)[i].k = z[i].k /\ With(z, p)[i].v = p[i]
<1>1. PICK B : B = L(n - 1)
  OBVIOUS
<1>2. \A i \in DOMAIN z : p[i] \in B
  BY <1>1
<1>3. /\ With(z, p) \in Seq(Items(B)) /\ DOMAIN With(z, p) = DOMAIN z
      /\ \A i \in DOMAIN z : With(z, p)[i].k = z[i].k /\ With(z, p)[i].v = p[i]
  <2>1. With(z, p) \in Seq(Items(B))
    BY <1>2, WithSeq
  <2>2. DOMAIN With(z, p) = DOMAIN z /\ \A i \in DOMAIN z : With(z, p)[i] = Item(z[i].k, p[i])
    BY DEF With
  <2> QED
    BY <2>1, <2>2 DEF Item
<1>4. \A i \in DOMAIN With(z, p) : With(z, p)[i].k = Unkeyed
  BY <1>3
<1> QED
  BY <1>1, <1>3, <1>4, ListIn

LEMMA ListRead ==
    ASSUME NEW S, NEW s, NEW r, Val("list", <<>>, With(s, r)) \in Value,
           NEW q, \A i \in DOMAIN s : q[i] = W(S, r[i])
    PROVE  W(S, Val("list", <<>>, With(s, r))) = Val("list", <<>>, With(s, q))
<1>1. PICK w : w = With(s, r)
  OBVIOUS
<1>2. DOMAIN w = DOMAIN s /\ \A i \in DOMAIN s : w[i].k = s[i].k /\ w[i].v = r[i]
  BY <1>1 DEF With, Item
<1>3. PICK p : p = [i \in DOMAIN w |-> W(S, w[i].v)]
  OBVIOUS
<1>4. W(S, Val("list", <<>>, w)) = Val("list", <<>>, With(w, p))
  BY <1>1, <1>3, ReadsList
<1>5. \A i \in DOMAIN s : p[i] = q[i]
  BY <1>2, <1>3
<1>6. With(w, p) = With(s, q)
  BY <1>2, <1>5 DEF With
<1> QED
  BY <1>1, <1>4, <1>6

LEMMA ListNode ==
    ASSUME NEW S, Good(S), NEW m, Room(m), NEW X, NEW r, NEW v, v = [t |-> v.t, a |-> v.a, s |-> v.s],
           v.t = "list", v.s \in Seq(Items(X)), \A i \in DOMAIN v.s : v.s[i].k = Unkeyed,
           \A i \in DOMAIN v.s : r[i] \in L(m)
    PROVE  NodeOK(S, v, m, r)
<1>1. First(S, v) = "PassList" /\ Hits(S, v) # {}
  <2>1. v.t \in DOMAIN OnlyClass /\ v.t # "Foo" /\ OnlyClass["list"] = "PassList"
    BY DEF OnlyClass
  <2>2. OrderOK(S)
    BY DEF Good
  <2> QED
    BY <2>1, <2>2, OnlyHit
<1>2. Tagged(S, v, r) = Val("list", <<>>, With(v.s, r))
  <2>1. \A c : First(S, v) = c /\ KeyOf[c] = <<>> => Tagged(S, v, r) = to_json(c, v, r)
    BY <1>1, TaggedIs
  <2>2. Tagged(S, v, r) = to_json("PassList", v, r)
    BY <1>1, <2>1, KeysAre
  <2> QED
    BY <2>2, ToJson
<1>3. PICK q : q = [i \in DOMAIN v.s |-> W(S, r[i])]
  OBVIOUS
<1>4. PICK s : s = v.s
  OBVIOUS
<1>5. PICK n : n = m + 1
  OBVIOUS
<1>6. /\ n \in 1..TagDepth /\ s \in Seq(Items(X))
      /\ \A i \in DOMAIN s : s[i].k = Unkeyed /\ r[i] \in L(n - 1)
  BY <1>4, <1>5, Rooms
<1>7. /\ Val("list", <<>>, With(s, r)) \in L(n)
      /\ W(S, Val("list", <<>>, With(s, r))) = Val("list", <<>>, With(s, q))
  <2>1. Val("list", <<>>, With(s, r)) \in L(n)
    BY <1>6, ListedIn
  <2>2. W(S, Val("list", <<>>, With(s, r))) = Val("list", <<>>, With(s, q))
    <3>1. \A i \in DOMAIN s : q[i] = W(S, r[i])
      BY <1>3, <1>4
    <3>2. Val("list", <<>>, With(s, r)) \in Value
      BY <1>6, <2>1, Deeper, DepthsAre
    <3> QED
      BY <3>1, <3>2, ListRead
  <2> QED
    BY <2>1, <2>2
<1>8. L(n) \subseteq L(m + 3)
  BY <1>5, Rooms
<1>9. Remains(S, v, q) = Val("list", <<>>, With(s, q))
  BY <1>4, RemainsIs
<1> QED
  BY <1>2, <1>3, <1>4, <1>7, <1>8, <1>9 DEF NodeOK

LEMMA TupleNode ==
    ASSUME NEW S, Good(S), NEW m, Room(m), NEW X, NEW r, NEW v, v = [t |-> v.t, a |-> v.a, s |-> v.s],
           v.t = "tuple", v.s \in Seq(Items(X)), \A i \in DOMAIN v.s : v.s[i].k = Unkeyed,
           \A i \in DOMAIN v.s : r[i] \in L(m)
    PROVE  NodeOK(S, v, m, r)
<1>1. PICK c : c = "TagTuple"
  OBVIOUS
<1>2. /\ c \in Classes /\ KeyOf[c] \in DOMAIN S.tags /\ S.tags[KeyOf[c]] = c
      /\ Tagged(S, v, r) = One(KeyOf[c], to_json(c, v, r))
  <2>1. v.t \in DOMAIN OnlyClass /\ v.t # "list" /\ v.t # "Foo" /\ OnlyClass[v.t] = c
    BY <1>1 DEF OnlyClass
  <2> QED
    BY <2>1, OnlyReads
<1>3. PICK q : q = [i \in DOMAIN v.s |-> W(S, r[i])]
  OBVIOUS
<1>4. PICK s : s = v.s
  OBVIOUS
<1>5. PICK n : n = m + 1
  OBVIOUS
<1>6. /\ n \in 1..TagDepth /\ s \in Seq(Items(X))
      /\ \A i \in DOMAIN s : s[i].k = Unkeyed /\ r[i] \in L(n - 1)
  BY <1>4, <1>5, Rooms
<1>7. PICK x : x = Val("list", <<>>, With(s, r))
  OBVIOUS
<1>8. x \in L(n) /\ W(S, x) = Val("list", <<>>, With(s, q))
  <2>1. x \in L(n)
    BY <1>6, <1>7, ListedIn
  <2>2. W(S, x) = Val("list", <<>>, With(s, q))
    <3>1. \A i \in DOMAIN s : q[i] = W(S, r[i])
      BY <1>3, <1>4
    <3>2. x \in Value
      BY <1>6, <2>1, Deeper, DepthsAre
    <3> QED
      BY <1>7, <3>1, <3>2, ListRead
  <2> QED
    BY <2>1, <2>2
<1>9. to_json(c, v, r) = x
  BY <1>1, <1>4, <1>7, ToJson
<1>10. PICK k : k = m + 2
  OBVIOUS
<1>11. k \in 1..TagDepth /\ k - 1 = n /\ L(k) \subseteq L(m + 3)
  BY <1>5, <1>10, Rooms
<1>12. One(KeyOf[c], x) \in L(k) /\ W(S, One(KeyOf[c], x)) = to_python(c, W(S, x))
  BY <1>2, <1>8, <1>11, Wrapped
<1>13. to_python(c, W(S, x)) = Val("tuple", <<>>, With(s, q))
  <2>1. \A y : to_python(c, y) = Val("tuple", <<>>, y.s)
    BY <1>1, ToPython
  <2> QED
    BY <1>8, <2>1 DEF Val
<1>14. Remains(S, v, q) = Val("tuple", <<>>, With(s, q))
  BY <1>4, RemainsIs
<1> QED
  BY <1>2, <1>3, <1>9, <1>11, <1>12, <1>13, <1>14 DEF NodeOK

LEMMA FooNode ==
    ASSUME NEW S, Good(S), NEW m, Room(m), NEW X, NEW r, NEW v, v = [t |-> v.t, a |-> v.a, s |-> v.s],
           v.t = "Foo", v.s \in Seq(Items(X)), \A i \in DOMAIN v.s : v.s[i].k = Unkeyed, Len(v.s) = 1,
           \A i \in DOMAIN v.s : r[i] \in L(m),
           \E i \in DOMAIN S.order : S.order[i] = "TagFoo"
    PROVE  NodeOK(S, v, m, r)
<1>1. PICK c : c = "TagFoo"
  OBVIOUS
<1>2. /\ c \in Classes /\ KeyOf[c] \in DOMAIN S.tags /\ S.tags[KeyOf[c]] = c
      /\ Tagged(S, v, r) = One(KeyOf[c], to_json(c, v, r))
  <2>1. v.t \in DOMAIN OnlyClass /\ v.t # "list" /\ OnlyClass[v.t] = c
    BY <1>1 DEF OnlyClass
  <2> QED
    BY <2>1, OnlyReads
<1>3. PICK q : q = [i \in DOMAIN v.s |-> W(S, r[i])]
  OBVIOUS
<1>4. PICK s : s = v.s
  OBVIOUS
<1>5. DOMAIN s = 1..1 /\ s[1].k = Unkeyed /\ r[1] \in L(m) /\ q[1] = W(S, r[1])
  <2>1. DOMAIN s = 1..1
    BY <1>4
  <2> QED
    BY <1>3, <1>4, <2>1
<1>6. to_json(c, v, r) = r[1]
  BY <1>1, ToJson
<1>7. PICK n : n = m + 1
  OBVIOUS
<1>8. n \in 1..TagDepth /\ n - 1 = m /\ L(n) \subseteq L(m + 3)
  BY <1>7, Rooms
<1>9. One(KeyOf[c], r[1]) \in L(n) /\ W(S, One(KeyOf[c], r[1])) = to_python(c, W(S, r[1]))
  BY <1>2, <1>5, <1>8, Wrapped
<1>10. to_python(c, W(S, r[1])) = Val("Foo", <<>>, << In(W(S, r[1])) >>)
  BY <1>1, ToPython
<1>11. With(s, q) = << In(W(S, r[1])) >>
  <2>1. With(s, q) = [i \in 1..1 |-> Item(s[i].k, q[i])]
    BY <1>5 DEF With
  <2>2. With(s, q) = << Item(s[1].k, q[1]) >>
    BY <2>1
  <2> QED
    BY <1>5, <2>2 DEF In
<1>12. Remains(S, v, q) = Val("Foo", <<>>, With(s, q))
  BY <1>4, RemainsIs
<1> QED
  BY <1>2, <1>3, <1>6, <1>8, <1>9, <1>10, <1>11, <1>12 DEF NodeOK

LEMMA DictRead ==
    ASSUME NEW S, NEW s, NEW r, Val("dict", <<>>, With(s, r)) \in Value,
           ~(Len(s) = 1 /\ s[1].k.a \in DOMAIN S.tags), NEW A, s \in Seq(A),
           NEW q, \A i \in DOMAIN s : q[i] = W(S, r[i])
    PROVE  W(S, Val("dict", <<>>, With(s, r))) = Val("dict", <<>>, AsText(s, q))
<1>1. PICK w : w = With(s, r)
  OBVIOUS
<1>2. DOMAIN w = DOMAIN s /\ \A i \in DOMAIN s : w[i].k = s[i].k /\ w[i].v = r[i]
  BY <1>1 DEF With, Item
<1>3. PICK p : p = [i \in DOMAIN w |-> W(S, w[i].v)]
  OBVIOUS
<1>4. PICK d : d = Val("dict", <<>>, AsText(w, p))
  OBVIOUS
<1>5. W(S, Val("dict", <<>>, w)) = untag(S, d)
  BY <1>1, <1>3, <1>4, ReadsDict
<1>6. \A i \in DOMAIN s : p[i] = q[i]
  BY <1>2, <1>3
<1>7. AsText(w, p) = AsText(s, q)
  BY <1>2, <1>6 DEF AsText
<1>8. d.s = AsText(s, q) /\ DOMAIN d.s = DOMAIN s /\ \A i \in DOMAIN s : d.s[i].k.a = s[i].k.a
  BY <1>4, <1>7 DEF AsText, Val, Item, Str
<1>9. Len(d.s) = Len(s)
  <2>1. PICK n \in Nat : n = Len(s) /\ DOMAIN s = 1..n
    BY LenProperties
  <2>2. d.s = [i \in 1..n |-> d.s[i]]
    BY <1>8, <2>1 DEF AsText
  <2> QED
    BY <2>1, <2>2
<1>10. untag(S, d) = d
  <2>1. Len(s) = 1 => 1 \in DOMAIN s
    BY LenProperties
  <2> QED
    BY <1>8, <1>9, <2>1 DEF untag
<1> QED
  BY <1>1, <1>4, <1>5, <1>7, <1>10

\* A dict of one item whose key is no tag.
LEMMA OneRead ==
    ASSUME NEW S, NEW a, a \notin DOMAIN S.tags, NEW x, One(a, x) \in Value
    PROVE  W(S, One(a, x)) = One(a, W(S, x))
<1>1. PICK s : s = << Item(Str(a), x) >>
  OBVIOUS
<1>2. PICK r : r = <<x>>
  OBVIOUS
<1>3. PICK y : y = W(S, x)
  OBVIOUS
<1>4. PICK q : q = <<y>>
  OBVIOUS
<1>5. /\ DOMAIN s = 1..1 /\ Len(s) = 1 /\ s[1].k = Str(a) /\ s[1].k.a = a /\ s[1].v = x
      /\ r[1] = x /\ q[1] = y
  <2>1. \A z : DOMAIN <<z>> = 1..1 /\ Len(<<z>>) = 1 /\ <<z>>[1] = z
    OBVIOUS
  <2> QED
    BY <1>1, <1>2, <1>4, <2>1, Zenon DEF Item, Str, Val
<1>6. With(s, r) = s
  <2>1. With(s, r) = [i \in 1..1 |-> Item(s[i].k, r[i])]
    BY <1>5 DEF With
  <2>2. With(s, r) = << Item(s[1].k, r[1]) >>
    BY <2>1
  <2> QED
    BY <1>1, <1>5, <2>2
<1>7. AsText(s, q) = << Item(Str(a), y) >>
  <2>1. AsText(s, q) = [i \in 1..1 |-> Item(Str(s[i].k.a), q[i])]
    BY <1>5 DEF AsText
  <2>2. AsText(s, q) = << Item(Str(s[1].k.a), q[1]) >>
    BY <2>1
  <2> QED
    BY <1>5, <2>2
<1>8. \A i \in DOMAIN s : q[i] = W(S, r[i])
  BY <1>3, <1>5
<1>9. s \in Seq({s[1]})
  BY <1>1
<1>10. One(a, x) = Val("dict", <<>>, With(s, r))
  BY <1>1, <1>6 DEF One
<1>11. W(S, Val("dict", <<>>, With(s, r))) = Val("dict", <<>>, AsText(s, q))
  BY <1>5, <1>8, <1>9, <1>10, DictRead
<1> QED
  BY <1>3, <1>7, <1>10, <1>11 DEF One

LEMMA Escapes ==
    ASSUME NEW a \in Seq(Pieces)
    PROVE  /\ Append(a, "__") \in Seq(Pieces)
           /\ Escaped(Str(a)) = Str(Append(a, "__")) /\ Unescaped(Str(Append(a, "__"))) = Str(a)
<1>1. PICK b : b = Append(a, "__")
  OBVIOUS
<1>2. b \in Seq(Pieces) /\ Len(b) = Len(a) + 1 /\ Front(b) = a
  BY <1>1, PiecesAre, FrontAppend
<1>3. Escaped(Str(a)) = Str(b)
  <2>1. \A k : k = Str(a) => k.a = a
    BY DEF Str, Val
  <2>2. \A k : k = Str(a) => [k EXCEPT !.a = b] = Str(b)
    BY DEF Str, Val
  <2> QED
    BY <1>1, <2>1, <2>2 DEF Escaped
<1>4. Unescaped(Str(b)) = Str(a)
  BY <1>2 DEF Unescaped, Str, Val
<1> QED
  BY <1>1, <1>2, <1>3, <1>4

\* The escaped key of a dict that looks like a tag is no tag.
LEMMA EscapedKey ==
    ASSUME NEW S, Good(S), NEW k \in DOMAIN S.tags
    PROVE  Append(k, "__") \notin DOMAIN S.tags /\ k \in Seq(Pieces)
<1>1. k \in TagKeys /\ k # <<>> /\ k \in Seq(Pieces)
  BY TagsKnown, KeysShort DEF Good, TagsOK
<1>2. PICK j : j = Append(k, "__")
  OBVIOUS
<1>3. Len(j) = Len(k) + 1 /\ Len(k) \in Nat /\ Len(k) # 0
  BY <1>1, <1>2, PiecesAre
<1>4. ~(Len(j) < 2)
  BY <1>3
<1>5. j \notin DOMAIN S.tags
  BY <1>4, TagsKnown, KeysShort
<1> QED
  BY <1>1, <1>2, <1>5

LEMMA Single ==
    ASSUME NEW s, NEW A, s \in Seq(A), Len(s) = 1, NEW q
    PROVE  /\ 1 \in DOMAIN s
           /\ AsText(s, q) = << Item(Str(s[1].k.a), q[1]) >>
<1>1. DOMAIN s = 1..1
  BY LenProperties
<1>2. AsText(s, q) = [i \in 1..1 |-> Item(Str(s[i].k.a), q[i])]
  BY <1>1 DEF AsText
<1> QED
  BY <1>1, <1>2

\* A dict that looks like a tag is escaped, and unescaped when it is read.
LEMMA EscapedRead ==
    ASSUME NEW S, Good(S), NEW m, Room(m), NEW a, a \in DOMAIN S.tags, NEW x \in L(m),
           NEW c, c = "TagDict", KeyOf[c] \in DOMAIN S.tags, S.tags[KeyOf[c]] = c
    PROVE  /\ One(KeyOf[c], One(Append(a, "__"), x)) \in L(m + 3)
           /\ W(S, One(KeyOf[c], One(Append(a, "__"), x))) = One(a, W(S, x))
<1>1. PICK b : b = Append(a, "__")
  OBVIOUS
<1>2. b \notin DOMAIN S.tags /\ a \in Seq(Pieces) /\ b \in Seq(Pieces) /\ Unescaped(Str(b)) = Str(a)
  BY <1>1, EscapedKey, Escapes
<1>3. PICK n, k : n = m + 1 /\ k = m + 2
  OBVIOUS
<1>4. n \in 1..TagDepth /\ n - 1 = m /\ k \in 1..TagDepth /\ k - 1 = n /\ L(k) \subseteq L(m + 3)
      /\ L(n) \subseteq Value
  <2>1. L(m + 1) \subseteq L(m + 3) /\ L(m + 3) \subseteq Value
    BY Rooms
  <2> QED
    BY <1>3, <2>1, Rooms
<1>5. PICK d : d = One(b, x)
  OBVIOUS
<1>6. d \in L(n) /\ d \in Value
  <2>1. x \in L(n - 1)
    BY <1>4
  <2> QED
    BY <1>2, <1>4, <1>5, <2>1, OneIn
<1>7. PICK y, e : y = W(S, x) /\ e = One(b, y)
  OBVIOUS
<1>8. W(S, d) = e
  BY <1>2, <1>5, <1>6, <1>7, OneRead
<1>9. c \in Classes
  BY DEF Classes
<1>10. One(KeyOf[c], d) \in L(k) /\ W(S, One(KeyOf[c], d)) = to_python(c, W(S, d))
  <2>1. d \in L(k - 1)
    BY <1>4, <1>6
  <2> QED
    BY <1>4, <1>9, <2>1, Wrapped
<1>11. to_python(c, e) = Val("dict", <<>>, << Item(Unescaped(e.s[1].k), e.s[1].v) >>)
  BY ToPython
<1>12. e.s[1].k = Str(b) /\ e.s[1].v = y
  <2>1. \A i : <<i>>[1] = i
    OBVIOUS
  <2>2. e.s = << Item(Str(b), y) >>
    BY <1>7 DEF One, Val
  <2>3. e.s[1] = Item(Str(b), y)
    BY <2>1, <2>2, Zenon
  <2> QED
    BY <2>3 DEF Item
<1>13. to_python(c, e) = One(a, y)
  BY <1>2, <1>11, <1>12 DEF One
<1> QED
  BY <1>1, <1>4, <1>5, <1>7, <1>8, <1>10, <1>13

LEMMA DictWritten ==
    ASSUME NEW S, Good(S), NEW m, Room(m), NEW X, NEW r, NEW v,
           v.s \in Seq(Items(X)), Keyed(v.s), \A i \in DOMAIN v.s : r[i] \in L(m),
           Hits(S, v) # {}, First(S, v) = DictClass(S, v),
           NEW q, \A i \in DOMAIN v.s : q[i] = W(S, r[i])
    PROVE  /\ Tagged(S, v, r) \in L(m + 3)
           /\ W(S, Tagged(S, v, r)) = Val("dict", <<>>, AsText(v.s, q))
<1>1. PICK s : s = v.s
  OBVIOUS
<1>2. PICK c : c = First(S, v)
  OBVIOUS
<1>3. CASE Looks(S, v)
  <2>1. c = "TagDict" /\ c \in Classes /\ KeyOf[c] # <<>>
    <3>1. c = "TagDict"
      BY <1>2, <1>3 DEF DictClass
    <3>2. c \in Classes \ {"PassDict", "PassList"}
      BY <3>1 DEF Classes
    <3> QED
      BY <3>1, <3>2, KeyedClass
  <2>2. OrderOK(S)
    BY DEF Good
  <2>3. \E i \in DOMAIN S.order : S.order[i] = c
    BY <1>2, <2>2, FirstHit DEF Hits
  <2>4. KeyOf[c] \in DOMAIN S.tags /\ S.tags[KeyOf[c]] = c
    BY <2>1, <2>3, Reads
  <2>5. PICK k, a : k = s[1].k /\ a = k.a
    OBVIOUS
  <2>6. Len(s) = 1 /\ k.t = "str" /\ a \in DOMAIN S.tags
    BY <1>1, <1>3, <2>5 DEF Looks
  <2>7. 1 \in DOMAIN s /\ k = Str(a)
    <3>1. 1 \in DOMAIN s
      BY <1>1, <2>6, Single
    <3>2. k \in Leaves
      BY <1>1, <2>5, <3>1, ItemsSeq
    <3>3. IsKey(k)
      BY <1>1, <2>5, <3>1 DEF Keyed
    <3> QED
      BY <2>5, <2>6, <3>1, <3>2, <3>3, KeyText
  <2>8. a \in Seq(Pieces)
    BY <2>6, EscapedKey
  <2>9. Escaped(k) = Str(Append(a, "__"))
    BY <2>7, <2>8, Escapes
  <2>10. PICK x : x = r[1]
    OBVIOUS
  <2>11. x \in L(m) /\ q[1] = W(S, x)
    BY <1>1, <2>7, <2>10
  <2>12. to_json(c, v, r) = One(Append(a, "__"), x)
    <3>1. to_json(c, v, r) = Val("dict", <<>>, << Item(Escaped(v.s[1].k), r[1]) >>)
      BY <2>1, ToJson
    <3> QED
      BY <1>1, <2>5, <2>9, <2>10, <3>1 DEF One
  <2>13. Tagged(S, v, r) = One(KeyOf[c], to_json(c, v, r))
    BY <1>2, <2>1, TaggedIs
  <2>14. /\ Tagged(S, v, r) \in L(m + 3)
         /\ W(S, Tagged(S, v, r)) = One(a, W(S, x))
    BY <2>1, <2>4, <2>6, <2>11, <2>12, <2>13, EscapedRead
  <2>15. AsText(s, q) = << Item(Str(a), W(S, x)) >>
    <3>1. AsText(s, q) = << Item(Str(s[1].k.a), q[1]) >>
      BY <1>1, <2>6, Single
    <3> QED
      BY <2>5, <2>11, <3>1
  <2> QED
    BY <1>1, <2>14, <2>15 DEF One
<1>4. CASE ~Looks(S, v)
  <2>1. c = "PassDict" /\ KeyOf[c] = <<>>
    BY <1>2, <1>4, KeysAre DEF DictClass
  <2>2. Tagged(S, v, r) = to_json(c, v, r)
    BY <1>2, <2>1, TaggedIs
  <2>3. PICK d : d = Val("dict", <<>>, With(s, r))
    OBVIOUS
  <2>4. to_json(c, v, r) = d
    BY <1>1, <2>1, <2>3, ToJson
  <2>5. PICK n : n = m + 1
    OBVIOUS
  <2>6. n \in 1..TagDepth /\ L(n) \subseteq L(m + 3) /\ L(m + 3) \subseteq Value /\ L(n - 1) = L(m)
    BY <2>5, Rooms
  <2>7. d \in L(n)
    <3>1. PICK B : B = L(m)
      OBVIOUS
    <3>2. \A i \in DOMAIN s : r[i] \in B
      BY <1>1, <3>1
    <3>3. s \in Seq(Items(X)) /\ Keyed(s)
      BY <1>1
    <3>4. With(s, r) \in Seq(Items(B))
      BY <3>2, <3>3, WithSeq
    <3>5. Keyed(With(s, r))
      BY <3>2, <3>3, WithSeq
    <3>6. With(s, r) \in Seq(Items(L(n - 1)))
      BY <2>6, <3>1, <3>4
    <3> QED
      BY <2>3, <2>6, <3>5, <3>6, DictIn
  <2>8. ~(Len(s) = 1 /\ s[1].k.a \in DOMAIN S.tags)
    <3>1. SUFFICES ASSUME Len(s) = 1, s[1].k.a \in DOMAIN S.tags PROVE FALSE
      OBVIOUS
    <3>2. 1 \in DOMAIN s
      BY <1>1, <3>1, Single
    <3>3. s[1].k.a \in TagKeys
      BY <3>1, TagsKnown
    <3>4. s[1].k.t = "str"
      BY <1>1, <3>2, <3>3 DEF Keyed, IsKey
    <3> QED
      BY <1>1, <1>4, <3>1, <3>4 DEF Looks
  <2>9. W(S, d) = Val("dict", <<>>, AsText(s, q))
    <3>1. d \in Value /\ s \in Seq(Items(X)) /\ \A i \in DOMAIN s : q[i] = W(S, r[i])
      BY <1>1, <2>6, <2>7
    <3> QED
      BY <2>3, <2>8, <3>1, DictRead
  <2> QED
    BY <1>1, <2>2, <2>4, <2>6, <2>7, <2>9
<1> QED
  BY <1>3, <1>4

LEMMA DictNode ==
    ASSUME NEW S, Good(S), NEW m, Room(m), NEW X, NEW r, NEW v, v = [t |-> v.t, a |-> v.a, s |-> v.s],
           v.t = "dict", v.s \in Seq(Items(X)), Keyed(v.s),
           \A i \in DOMAIN v.s : r[i] \in L(m)
    PROVE  NodeOK(S, v, m, r)
<1>1. PICK q : q = [i \in DOMAIN v.s |-> W(S, r[i])]
  OBVIOUS
<1>2. Hits(S, v) # {} /\ First(S, v) = DictClass(S, v)
  BY DictHit
<1>3. \A i \in DOMAIN v.s : q[i] = W(S, r[i])
  BY <1>1
<1>4. Tagged(S, v, r) \in L(m + 3) /\ W(S, Tagged(S, v, r)) = Val("dict", <<>>, AsText(v.s, q))
  BY <1>2, <1>3, DictWritten
<1>5. Remains(S, v, q) = Val("dict", <<>>, AsText(v.s, q))
  BY RemainsIs
<1> QED
  BY <1>1, <1>4, <1>5 DEF NodeOK

\* An item of an OrderedDict as its tag writes it.
Pair(k, x) == Val("list", <<>>, << In(k), In(x) >>)

LEMMA PairParts ==
    ASSUME NEW k, NEW x
    PROVE  Pair(k, x).s[1].v = k /\ Pair(k, x).s[2].v = x
<1>1. \A i, j : <<i, j>>[1] = i /\ <<i, j>>[2] = j
  OBVIOUS
<1>2. PICK a, b, s : a = In(k) /\ b = In(x) /\ s = <<a, b>>
  OBVIOUS
<1>3. s[1] = a /\ s[2] = b
  BY <1>1, <1>2, Zenon
<1>4. Pair(k, x).s = s
  BY <1>2 DEF Pair, Val
<1> QED
  BY <1>2, <1>3, <1>4 DEF In, Item

LEMMA PairRead ==
    ASSUME NEW S, NEW m, Room(m), NEW k \in Leaves, k.t \in {"str", "int", "none"}, NEW x \in L(m)
    PROVE  Pair(k, x) \in L(m + 1) /\ W(S, Pair(k, x)) = Pair(k, W(S, x))
<1>1. PICK a, b, s : a = In(k) /\ b = In(x) /\ s = <<a, b>>
  OBVIOUS
<1>2. PICK n : n = m + 1
  OBVIOUS
<1>3. n \in 1..TagDepth /\ n - 1 = m /\ m \in Depths /\ L(n) \subseteq Value /\ L(m) \subseteq L(n)
  <2>1. L(m + 1) \subseteq L(m + 3) /\ L(m + 3) \subseteq Value
    BY Rooms
  <2> QED
    BY <1>2, <2>1, Rooms
<1>4. Unkeyed \in Leaves
  <2>1. <<>> \in Seq(Pieces)
    OBVIOUS
  <2> QED
    BY <2>1 DEF Unkeyed, Val, Leaves, Scalars
<1>5. k \in L(m)
  BY <1>3, LeafIn
<1>6. a \in Items(L(m)) /\ b \in Items(L(m))
  BY <1>1, <1>4, <1>5 DEF In, Item, Items
<1>7. a.k = Unkeyed /\ a.v = k /\ b.k = Unkeyed /\ b.v = x
  BY <1>1 DEF In, Item
<1>8. s[1] = a /\ s[2] = b /\ DOMAIN s = 1..2
  BY <1>1
<1>9. s \in Seq(Items(L(m)))
  BY <1>1, <1>6
<1>10. Val("list", <<>>, s) \in L(n)
  <2>1. \A i \in DOMAIN s : s[i].k = Unkeyed
    BY <1>7, <1>8
  <2>2. s \in Seq(Items(L(n - 1)))
    BY <1>3, <1>9
  <2> QED
    BY <1>3, <2>1, <2>2, ListIn
<1>11. PICK p : p = [i \in DOMAIN s |-> W(S, s[i].v)]
  OBVIOUS
<1>12. Val("list", <<>>, s) \in Value
  BY <1>3, <1>10
<1>13. W(S, Val("list", <<>>, s)) = Val("list", <<>>, With(s, p))
  BY <1>11, <1>12, ReadsList
<1>14. p[1] = k /\ p[2] = W(S, x)
  <2>1. p[1] = W(S, k) /\ p[2] = W(S, x)
    BY <1>7, <1>8, <1>11
  <2>2. W(S, k) = k
    BY <1>3, <1>5, ReadsText
  <2> QED
    BY <2>1, <2>2
<1>15. With(s, p) = << In(k), In(W(S, x)) >>
  <2>1. With(s, p) = [i \in 1..2 |-> Item(s[i].k, p[i])]
    BY <1>8 DEF With
  <2>2. With(s, p) = << Item(s[1].k, p[1]), Item(s[2].k, p[2]) >>
    BY <2>1
  <2> QED
    BY <1>7, <1>8, <1>14, <2>2 DEF In
<1> QED
  BY <1>1, <1>2, <1>10, <1>13, <1>15 DEF Pair

LEMMA OrderedWritten ==
    ASSUME NEW S, Good(S), NEW m, Room(m), NEW X, NEW r, NEW v,
           v.s \in Seq(Items(X)), Keyed(v.s), \A i \in DOMAIN v.s : r[i] \in L(m),
           NEW c, c = "TagOrderedDict", Hits(S, v) # {}, First(S, v) = c,
           NEW q, \A i \in DOMAIN v.s : q[i] = W(S, r[i])
    PROVE  /\ Tagged(S, v, r) \in L(m + 3)
           /\ W(S, Tagged(S, v, r)) = Val("odict", <<>>, With(v.s, q))
<1>1. PICK s : s = v.s
  OBVIOUS
<1>2. c \in Classes /\ KeyOf[c] # <<>>
  <2>1. c \in Classes \ {"PassDict", "PassList"}
    BY DEF Classes
  <2> QED
    BY <2>1, KeyedClass
<1>3. KeyOf[c] \in DOMAIN S.tags /\ S.tags[KeyOf[c]] = c
  <2>1. OrderOK(S)
    BY DEF Good
  <2>2. \E i \in DOMAIN S.order : S.order[i] = c
    BY <2>1, FirstHit DEF Hits
  <2> QED
    BY <1>2, <2>2, Reads
<1>4. PICK n, k, h : n = m + 1 /\ k = m + 2 /\ h = m + 3
  OBVIOUS
<1>5. /\ n \in 1..TagDepth /\ k \in 1..TagDepth /\ h \in 1..TagDepth
      /\ k - 1 = n /\ h - 1 = k /\ L(k) \subseteq Value
  <2>1. L(m + 2) \subseteq L(m + 3) /\ L(m + 3) \subseteq Value
    BY Rooms
  <2> QED
    BY <1>4, <2>1, Rooms
<1>6. PICK P : P = [i \in DOMAIN s |-> Pair(s[i].k, r[i])]
  OBVIOUS
<1>7. \A i \in DOMAIN s : /\ s[i].k \in Leaves /\ s[i].k.t \in {"str", "int", "none"} /\ r[i] \in L(m)
  <2>1. \A i \in DOMAIN s : s[i].k \in Leaves
    BY <1>1, ItemsSeq
  <2>2. \A i \in DOMAIN s : s[i].k.t \in {"str", "int", "none"}
    BY <1>1 DEF Keyed, IsKey
  <2> QED
    BY <1>1, <2>1, <2>2
<1>8. \A i \in DOMAIN s : P[i] \in L(n) /\ W(S, P[i]) = Pair(s[i].k, q[i])
  <2>1. \A i \in DOMAIN s : /\ Pair(s[i].k, r[i]) \in L(m + 1)
                            /\ W(S, Pair(s[i].k, r[i])) = Pair(s[i].k, W(S, r[i]))
    BY <1>7, PairRead
  <2>2. \A i \in DOMAIN s : P[i] = Pair(s[i].k, r[i]) /\ q[i] = W(S, r[i])
    BY <1>1, <1>6
  <2> QED
    BY <1>4, <2>1, <2>2
<1>9. PICK z : z = [i \in DOMAIN s |-> In(P[i])]
  OBVIOUS
<1>10. DOMAIN z = DOMAIN s /\ \A i \in DOMAIN s : z[i] = In(P[i]) /\ z[i].k = Unkeyed /\ z[i].v = P[i]
  BY <1>9 DEF In, Item
<1>11. PICK x : x = Val("list", <<>>, z)
  OBVIOUS
<1>12. to_json(c, v, r) = x
  <2>1. to_json(c, v, r) = Val("list", <<>>, [i \in DOMAIN s |-> In(Pair(s[i].k, r[i]))])
    BY <1>1, ToJson DEF Pair
  <2>2. z = [i \in DOMAIN s |-> In(Pair(s[i].k, r[i]))]
    BY <1>6, <1>9
  <2> QED
    BY <1>11, <2>1, <2>2
<1>13. x \in L(k)
  <2>1. Unkeyed \in Leaves
    <3>1. <<>> \in Seq(Pieces)
      OBVIOUS
    <3> QED
      BY <3>1 DEF Unkeyed, Val, Leaves, Scalars
  <2>2. \A i \in DOMAIN s : z[i] \in Items(L(n))
    BY <1>8, <1>10, <2>1 DEF In, Item, Items
  <2>3. PICK A, B : A = Items(X) /\ B = Items(L(n))
    OBVIOUS
  <2>4. s \in Seq(A) /\ z = [i \in DOMAIN s |-> z[i]] /\ \A i \in DOMAIN s : z[i] \in B
    BY <1>1, <1>9, <1>10, <2>2, <2>3
  <2>5. z \in Seq(B)
    BY <2>4, MapSeq
  <2>6. z \in Seq(Items(L(k - 1))) /\ \A i \in DOMAIN z : z[i].k = Unkeyed
    BY <1>5, <1>10, <2>3, <2>5
  <2> QED
    BY <1>5, <1>11, <2>6, ListIn
<1>14. PICK p, w : p = [i \in DOMAIN z |-> W(S, z[i].v)] /\ w = With(z, p)
  OBVIOUS
<1>15. W(S, x) = Val("list", <<>>, w)
  <2>1. Val("list", <<>>, z) \in Value
    BY <1>5, <1>11, <1>13
  <2> QED
    BY <1>11, <1>14, <2>1, ReadsList
<1>16. DOMAIN w = DOMAIN s /\ \A i \in DOMAIN s : w[i].v = Pair(s[i].k, q[i])
  <2>1. DOMAIN w = DOMAIN s /\ \A i \in DOMAIN s : w[i] = Item(z[i].k, p[i]) /\ p[i] = W(S, P[i])
    BY <1>10, <1>14 DEF With
  <2> QED
    BY <1>8, <2>1 DEF Item
<1>17. to_python(c, Val("list", <<>>, w)) = Val("odict", <<>>, With(s, q))
  <2>1. \A y : to_python(c, y) =
                   Val("odict", <<>>, [i \in DOMAIN y.s |-> Item(y.s[i].v.s[1].v, y.s[i].v.s[2].v)])
    BY ToPython
  <2>2. PICK y : y = Val("list", <<>>, w)
    OBVIOUS
  <2>3. y.s = w
    BY <2>2 DEF Val
  <2>4. to_python(c, y) = Val("odict", <<>>, [i \in DOMAIN s |-> Item(w[i].v.s[1].v, w[i].v.s[2].v)])
    BY <1>16, <2>1, <2>3
  <2>5. \A i \in DOMAIN s : w[i].v.s[1].v = s[i].k /\ w[i].v.s[2].v = q[i]
    BY <1>16, PairParts
  <2>6. [i \in DOMAIN s |-> Item(w[i].v.s[1].v, w[i].v.s[2].v)] = With(s, q)
    BY <2>5 DEF With
  <2> QED
    BY <2>2, <2>4, <2>6
<1>18. Tagged(S, v, r) = One(KeyOf[c], x)
  BY <1>2, <1>12, TaggedIs
<1>19. One(KeyOf[c], x) \in L(h) /\ W(S, One(KeyOf[c], x)) = to_python(c, W(S, x))
  <2>1. x \in L(h - 1)
    BY <1>5, <1>13
  <2> QED
    BY <1>2, <1>3, <1>5, <2>1, Wrapped
<1> QED
  BY <1>1, <1>4, <1>15, <1>17, <1>18, <1>19

LEMMA OrderedNode ==
    ASSUME NEW S, Good(S), NEW m, Room(m), NEW X, NEW r, NEW v, v = [t |-> v.t, a |-> v.a, s |-> v.s],
           v.t = "odict", v.s \in Seq(Items(X)), Keyed(v.s),
           \A i \in DOMAIN v.s : r[i] \in L(m)
    PROVE  NodeOK(S, v, m, r)
<1>1. PICK q : q = [i \in DOMAIN v.s |-> W(S, r[i])]
  OBVIOUS
<1>2. \A i \in DOMAIN v.s : q[i] = W(S, r[i])
  BY <1>1
<1>3. CASE Precedes(S, "TagOrderedDict", "PassDict")
  <2>1. Hits(S, v) # {} /\ First(S, v) = "TagOrderedDict"
    BY <1>3, OrderedHit
  <2>2. Tagged(S, v, r) \in L(m + 3) /\ W(S, Tagged(S, v, r)) = Val("odict", <<>>, With(v.s, q))
    BY <1>2, <2>1, OrderedWritten
  <2>3. Remains(S, v, q) = Val("odict", <<>>, With(v.s, q))
    BY <1>3, RemainsIs
  <2> QED
    BY <1>1, <2>2, <2>3 DEF NodeOK
<1>4. CASE ~Precedes(S, "TagOrderedDict", "PassDict")
  <2>1. Hits(S, v) # {} /\ First(S, v) = DictClass(S, v)
    BY <1>4, OrderedHit
  <2>2. Tagged(S, v, r) \in L(m + 3) /\ W(S, Tagged(S, v, r)) = Val("dict", <<>>, AsText(v.s, q))
    BY <1>2, <2>1, DictWritten
  <2>3. Remains(S, v, q) = Val("dict", <<>>, AsText(v.s, q))
    BY <1>4, RemainsIs
  <2> QED
    BY <1>1, <2>2, <2>3 DEF NodeOK
<1> QED
  BY <1>3, <1>4

LEMMA TextStays ==
    ASSUME NEW S, NEW y \in Value, y.t \in {"str", "int", "none"}
    PROVE  Json[y] = y /\ _untag_scan(S)[y] = y
<1>1. Json[y] = y
  <2>1. y.t \notin Lists \cup Maps \cup {"Decimal", "Markup", "html", "UUID", "datetime"}
    BY DEF Lists, Maps
  <2> QED
    BY <2>1, JsonIs, JsonedIs
<1>2. W(S, y) = y
  BY ReadsText
<1> QED
  BY <1>1, <1>2 DEF W

\* JSON makes text of every leaf but bytes.
LEMMA LeafJson ==
    ASSUME NEW S, NEW y \in Leaves, y.t # "bytes"
    PROVE  /\ Json[y] \in Value /\ Json[y].t \in {"str", "int", "none"}
           /\ _untag_scan(S)[Json[y]] = Json[y]
<1>1. y \in Value
  BY LeafIn, DepthsAre DEF Value, L
<1>2. PICK r : r = [i \in DOMAIN y.s |-> Json[y.s[i].v]]
  OBVIOUS
<1>3. Json[y] = Jsoned(y, r)
  BY <1>1, <1>2, JsonIs
<1>4. Json[y] \in Value
  BY <1>1, InValue
<1>5. Json[y].t \in {"str", "int", "none"}
  <2>1. \A a : Str(a).t = "str"
    BY DEF Str, Val
  <2>2. CASE y.t \in {"Decimal", "Markup", "html", "UUID", "datetime"}
    <3>1. y.t \in {"Decimal", "Markup", "html"} => Json[y] = Str(y.a)
      BY <1>3, JsonedIs
    <3>2. y.t = "UUID" => Json[y] = Str(Append(y.a, "str"))
      BY <1>3, JsonedIs
    <3>3. y.t = "datetime" => Json[y] = Str(<<y.a[1], "http">>)
      BY <1>3, JsonedIs
    <3> QED
      BY <2>1, <2>2, <3>1, <3>2, <3>3, Zenon
  <2>3. CASE y.t \notin {"Decimal", "Markup", "html", "UUID", "datetime"}
    <3>1. y.t \in {"str", "int", "none"}
      BY <2>3 DEF Leaves, Scalars
    <3> QED
      BY <1>1, <3>1, TextStays
  <2> QED
    BY <2>2, <2>3
<1> QED
  BY <1>4, <1>5, TextStays

LEMMA PlainNode ==
    ASSUME NEW S, Good(S), NEW m, Room(m), NEW r, NEW v,
           v.t \in {"str", "int", "none", "Decimal"}, v \in Leaves
    PROVE  NodeOK(S, v, m, r)
<1>1. PICK q : q = [i \in DOMAIN v.s |-> W(S, r[i])]
  OBVIOUS
<1>2. Tagged(S, v, r) = v
  <2>1. OrderOK(S)
    BY DEF Good
  <2> QED
    BY <2>1, NoHit, TaggedIs
<1>3. v \in L(m + 3)
  BY LeafIn DEF Room
<1>4. W(S, v) = Json[v]
  BY LeafJson DEF W
<1>5. Remains(S, v, q) = Json[v]
  BY RemainsIs
<1> QED
  BY <1>1, <1>2, <1>3, <1>4, <1>5 DEF NodeOK

LEMMA RecordNode ==
    ASSUME NEW S, Good(S), NEW m, Room(m), NEW X, NEW r, NEW v, v.t = "dataclass", v \in L(m + 3),
           v.s \in Seq(Items(X)),
           \A i \in DOMAIN v.s : /\ v.s[i].k.a \notin TagKeys /\ v.s[i].v \in Leaves
                                 /\ v.s[i].v.t # "bytes"
    PROVE  NodeOK(S, v, m, r)
<1>1. PICK q : q = [i \in DOMAIN v.s |-> W(S, r[i])]
  OBVIOUS
<1>2. Tagged(S, v, r) = v
  <2>1. OrderOK(S)
    BY DEF Good
  <2> QED
    BY <2>1, NoHit, TaggedIs
<1>3. Remains(S, v, q) = Json[v]
  BY RemainsIs
<1>4. v \in Value
  BY Rooms
<1>5. PICK s, p : s = v.s /\ p = [i \in DOMAIN v.s |-> Json[v.s[i].v]]
  OBVIOUS
<1>6. PICK j : j = Json[v]
  OBVIOUS
<1>7. j = Val("dict", <<>>, AsText(s, p))
  <2>1. v.t \in Maps
    BY DEF Maps
  <2> QED
    BY <1>4, <1>5, <1>6, <2>1, JsonIs, JsonedIs
<1>8. j \in Value /\ j.t = "dict" /\ j.a = <<>> /\ j.s = AsText(s, p)
  BY <1>4, <1>6, <1>7, InValue DEF Val
<1>9. /\ DOMAIN j.s = DOMAIN s
      /\ \A i \in DOMAIN s : j.s[i] = Item(j.s[i].k, p[i]) /\ j.s[i].k.a = s[i].k.a /\ j.s[i].v = p[i]
  BY <1>8 DEF AsText, Item, Str, Val
<1>10. PICK h : h = [i \in DOMAIN j.s |-> _untag_scan(S)[j.s[i].v]]
  OBVIOUS
<1>11. \A i \in DOMAIN s : h[i] = p[i]
  <2>1. \A i \in DOMAIN s : p[i] = Json[s[i].v] /\ s[i].v \in Leaves /\ s[i].v.t # "bytes"
    BY <1>5
  <2>2. \A i \in DOMAIN s : _untag_scan(S)[p[i]] = p[i]
    BY <2>1, LeafJson
  <2> QED
    BY <1>9, <1>10, <2>2
<1>12. With(j.s, h) = j.s
  <2>1. With(j.s, h) = [i \in DOMAIN s |-> Item(j.s[i].k, p[i])]
    BY <1>9, <1>11 DEF With
  <2>2. j.s = [i \in DOMAIN s |-> j.s[i]]
    BY <1>8 DEF AsText
  <2> QED
    BY <1>9, <2>1, <2>2
<1>13. _untag_scan(S)[j] = untag(S, j)
  <2>1. _untag_scan(S)[j] = Scanned(S, j, h)
    BY <1>8, <1>10, ScanIs
  <2>2. Scanned(S, j, h) = untag(S, Val(j.t, j.a, With(j.s, h)))
    BY <1>8 DEF Scanned
  <2> QED
    BY <1>7, <1>8, <1>12, <2>1, <2>2
<1>14. untag(S, j) = j
  <2>1. ASSUME Len(j.s) = 1 PROVE j.s[1].k.a \notin DOMAIN S.tags
    <3>1. j.s \in Seq(Items(Value))
      BY <1>8, InValue
    <3>2. 1 \in DOMAIN s
      BY <1>9, <2>1, <3>1, LenProperties
    <3> QED
      BY <1>5, <1>9, <3>2, TagsKnown
  <2> QED
    BY <2>1 DEF untag
<1> QED
  BY <1>1, <1>2, <1>3, <1>6, <1>13, <1>14 DEF NodeOK, W

-----------------------------------------------------------------------------
(* Every value, level by level. *)

\* Whatever a value is: when its items are read as they should be, so is it.
LEMMA NodeLossless ==
    ASSUME NEW S, Good(S), NEW n \in Depths, NEW m, Room(m), n <= m + 3,
           NEW v \in Levels(TypesOf(S))[n], NEW r, \A i \in DOMAIN v.s : r[i] \in L(m)
    PROVE  NodeOK(S, v, m, r)
<1>1. PICK T : T = TypesOf(S)
  OBVIOUS
<1>2. T \subseteq Types /\ ("Foo" \in T => \E i \in DOMAIN S.order : S.order[i] = "TagFoo")
  BY <1>1 DEF TypesOf
<1>3. v \in Levels(T)[n]
  BY <1>1
<1>4. PICK X : X = Levels(T)[n - 1]
  OBVIOUS
<1>5. /\ v = [t |-> v.t, a |-> v.a, s |-> v.s]
      /\ v.t \in Simple \/ v.t = "datetime" \/ v.t \in T
      /\ v.t \in Simple => v.s = <<>> /\ v.a \in Seq(Pieces) /\ v \in Leaves
      /\ v.t = "datetime" => v.s = <<>> /\ v.a \in Pieces \X Pieces
      /\ v.t \in Types => n \in 1..TagDepth /\ v.t \in T /\ Composed(v) /\ v.s \in Seq(Items(X))
  BY <1>2, <1>3, <1>4, Shapes
<1>6. v \in L(m + 3)
  <2>1. v \in L(n)
    BY <1>2, <1>3, LevelsGrow DEF L
  <2>2. PICK k : k = m + 3
    OBVIOUS
  <2>3. k \in Depths /\ n <= k
    BY <2>2 DEF Room
  <2> QED
    BY <2>1, <2>2, <2>3, Deeper
<1>7. CASE v.t \in {"bytes", "UUID", "Markup", "html"}
  <2>1. v.s = <<>> /\ v.a \in Seq(Pieces)
    BY <1>5, <1>7 DEF Simple
  <2> QED
    BY <1>5, <1>7, <2>1, BytesNode
<1>8. CASE v.t = "datetime"
  BY <1>5, <1>8, DateNode
<1>9. CASE v.t \in {"str", "int", "none", "Decimal"}
  <2>1. v \in Leaves
    BY <1>5, <1>9 DEF Simple
  <2> QED
    BY <1>9, <2>1, PlainNode
<1>10. CASE v.t \in Types
  <2>1. Composed(v) /\ v.s \in Seq(Items(X)) /\ n \in 1..TagDepth /\ v.t \in T
    BY <1>5, <1>10
  <2>2. CASE v.t \in {"list", "tuple", "Foo"}
    <3>1. \A i \in DOMAIN v.s : v.s[i].k = Unkeyed
      BY <2>1, <2>2 DEF Composed, Lists
    <3>2. CASE v.t = "list"
      BY <1>5, <2>1, <3>1, <3>2, ListNode
    <3>3. CASE v.t = "tuple"
      BY <1>5, <2>1, <3>1, <3>3, TupleNode
    <3>4. CASE v.t = "Foo"
      <4>1. Len(v.s) = 1 /\ \E i \in DOMAIN S.order : S.order[i] = "TagFoo"
        BY <1>2, <2>1, <3>4 DEF Composed
      <4> QED
        BY <1>5, <2>1, <3>1, <3>4, <4>1, FooNode
    <3> QED
      BY <2>2, <3>2, <3>3, <3>4
  <2>3. CASE v.t \in Maps
    <3>1. Keyed(v.s)
      BY <2>1, <2>3 DEF Composed
    <3>2. CASE v.t = "dict"
      BY <1>5, <2>1, <3>1, <3>2, DictNode
    <3>3. CASE v.t = "odict"
      BY <1>5, <2>1, <3>1, <3>3, OrderedNode
    <3>4. CASE v.t = "dataclass"
      <4>1. \A i \in DOMAIN v.s : /\ v.s[i].k.a \notin TagKeys
                                  /\ v.s[i].v.t \in (Simple \cup {"datetime"}) \ {"bytes"}
        BY <2>1, <3>4 DEF Composed, Scalars, Simple
      <4>2. n - 1 \in Depths
        BY <2>1, DepthsAre
      <4>3. \A i \in DOMAIN v.s : v.s[i].v \in Levels(T)[n - 1]
        BY <1>4, <2>1, ItemsSeq
      <4>4. \A i \in DOMAIN v.s : v.s[i].v \in Leaves
        BY <1>2, <4>1, <4>2, <4>3, Shapes
      <4> QED
        BY <1>6, <2>1, <3>4, <4>1, <4>4, RecordNode
    <3> QED
      BY <2>3, <3>2, <3>3, <3>4 DEF Maps
  <2> QED
    BY <1>10, <2>2, <2>3 DEF Types, Lists
<1> QED
  BY <1>2, <1>5, <1>7, <1>8, <1>9, <1>10 DEF Simple

\* What is read of a value that was written is the value, at every depth.
LEMMA GoodLossless ==
    ASSUME NEW S, Good(S)
    PROVE  \A v \in Writable(S) : Lossless(S, v)
<1>1. PICK T : T = TypesOf(S)
  OBVIOUS
<1>2. T \subseteq Types
  BY <1>1 DEF TypesOf
<1> DEFINE OK(v, n) == tag(S)[v] \in L(3 * n + 3) /\ W(S, tag(S)[v]) = Kept(S)[v]
           E == {n \in 0..MaxDepth : \A v \in Levels(T)[n] : OK(v, n)}
<1>3. \A n \in 0..MaxDepth : n \in Nat /\ n \in Depths /\ Room(3 * n) /\ n <= 3 * n + 3
  BY DepthAssumption DEF Depths, TagDepth, Room
<1>4. ASSUME NEW n \in 0..MaxDepth, NEW v \in Levels(T)[n],
             n # 0 => \A w \in Levels(T)[n - 1] : OK(w, n - 1)
      PROVE  OK(v, n)
  <2>1. v \in Value
    <3>1. Levels(T)[n] \subseteq L(n) /\ L(n) \subseteq Value
      <4>1. L(n) \subseteq Value
        BY <1>3, Deeper
      <4> QED
        BY <1>2, <1>3, <4>1, LevelsGrow DEF L
    <3> QED
      BY <3>1
  <2>2. PICK r : r = [i \in DOMAIN v.s |-> tag(S)[v.s[i].v]]
    OBVIOUS
  <2>3. tag(S)[v] = Tagged(S, v, r)
    BY <2>1, <2>2, TagIs
  <2>4. \A i \in DOMAIN v.s : n # 0 /\ v.s[i].v \in Levels(T)[n - 1]
    BY <1>3, ItemsBelow
  <2>5. PICK m : m = 3 * n
    OBVIOUS
  <2>6. n # 0 => 3 * (n - 1) + 3 = m
    BY <1>3, <2>5
  <2>7. \A i \in DOMAIN v.s : r[i] \in L(m) /\ W(S, r[i]) = Kept(S)[v.s[i].v]
    BY <1>4, <2>2, <2>4, <2>6
  <2>8. NodeOK(S, v, m, r)
    <3>1. v \in Levels(TypesOf(S))[n] /\ Room(m) /\ n <= m + 3 /\ n \in Depths
      BY <1>1, <1>3, <2>5
    <3> QED
      BY <2>7, <3>1, NodeLossless
  <2>9. PICK q : q = [i \in DOMAIN v.s |-> W(S, r[i])]
    OBVIOUS
  <2>10. Tagged(S, v, r) \in L(m + 3) /\ W(S, Tagged(S, v, r)) = Remains(S, v, q)
    BY <2>8, <2>9 DEF NodeOK
  <2>11. q = [i \in DOMAIN v.s |-> Kept(S)[v.s[i].v]]
    BY <2>7, <2>9
  <2>12. Kept(S)[v] = Remains(S, v, q)
    BY <2>1, <2>11, KeptIs
  <2> QED
    BY <2>3, <2>5, <2>10, <2>12
<1>5. 0 \in E
  <2> HIDE DEF OK
  <2> QED
    BY <1>4, DepthAssumption
<1>6. ASSUME NEW n \in 1..MaxDepth, n - 1 \in E PROVE n \in E
  <2> HIDE DEF OK
  <2>1. n \in 0..MaxDepth /\ n # 0
    BY DepthAssumption
  <2> QED
    BY <1>4, <1>6, <2>1
<1>7. MaxDepth \in E
  <2> HIDE DEF E
  <2>1. \A n \in 0..MaxDepth : n \in E
    BY <1>5, <1>6, DepthAssumption, UpTo
  <2> QED
    BY <2>1, DepthAssumption
<1>8. \A v \in Writable(S) : W(S, tag(S)[v]) = Kept(S)[v]
  BY <1>1, <1>7 DEF Writable
<1> QED
  BY <1>8 DEF Lossless, loads, dumps, W

\* Whatever tags an application registers, in whatever order and place, every value
\* that can be written is read as it should be (TaggedJSONSerializer, register).
THEOREM ValuesLossless ==
    ASSUME NEW calls \in Seq(Registration)
    PROVE  \A v \in Writable(Serializer(calls)) : Lossless(Serializer(calls), v)
<1>1. Good(Serializer(calls))
  BY SerializerGood
<1> QED
  BY <1>1, GoodLossless

LEMMA AllAreKept == AllKept
<1>1. ASSUME NEW rs \in Registrations, NEW v \in Writable(Serializer(rs)) PROVE Lossless(Serializer(rs), v)
  BY ValuesAssumption, ValuesLossless
<1> QED
  BY <1>1 DEF AllKept

\* The cookie of the browser stands for the values that were stored, whichever tags
\* the application registered and however deep they lie (TaggedJSONSerializer).
THEOREM SessionsLossless == Spec => []SessionLossless
<1>1. SessionLossless
  BY AllAreKept DEF SessionLossless
<1> QED
  BY <1>1, PTL
==============================================================================
