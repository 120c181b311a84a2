----------------------------- MODULE TokenAuth -----------------------------
(***************************************************************************)
(* Token authentication of the Spring REST API: register, authenticate,    *)
(* refresh-token, logout, the filter in front of protected endpoints, and  *)
(* the change of a password behind it.                                     *)
(*                                                                         *)
(* The services are not transactional: every repository call commits on    *)
(* its own, so each is a step, and requests interleave between them.  A    *)
(* JWT is a function of its subject and of the second it is issued in.     *)
(***************************************************************************)
EXTENDS Naturals, Sequences, FiniteSets

CONSTANTS
    Threads,        \* request threads of the server
    Emails, Passwords,
    Admin,          \* e-mail and
    AdminPassword,  \* password of the administrator the migrations insert; the
                    \* plain user they insert is like one that registered
    AccessTTL,      \* application.security.jwt.expiration
    RefreshTTL,     \* application.security.jwt.refresh-token.expiration
    MaxTime,        \* bound: last second of the run
    MaxUsers,       \* bound: rows of users
    MaxTokens       \* bound: rows of tokens

ASSUME AuthAssumption == /\ Admin \in Emails /\ AdminPassword \in Passwords
                         /\ AccessTTL \in Nat /\ RefreshTTL \in Nat
                         /\ AccessTTL # RefreshTTL
                         /\ MaxTime \in Nat /\ MaxUsers \in Nat /\ MaxTokens \in Nat

VARIABLES
    clock,      \* the current second
    users,      \* rows of users, by id
    tokens,     \* rows of tokens, by id
    revoked,    \* ids of the rows marked expired and revoked, always together
    known,      \* tokens clients were given
    pc,         \* [thread -> the stage of its request]
    req,        \* [thread -> the request as it was sent]
    jwt,        \* [thread -> the token it checks or has generated]
    user,       \* [thread -> id of the user it works on]
    seen,       \* [thread -> password of the principal the filter loaded]
    found,      \* [thread -> ids of the tokens its query returned]
    mark,       \* history: [thread -> tokens stored when its request began]
    loggedOut   \* history: tokens whose logout committed

tables == <<users, tokens, revoked>>
locals == <<jwt, user, seen, found, mark>>
vars   == <<clock, tables, known, pc, req, locals, loggedOut>>

Jwt(email, ttl) == [sub |-> email, iat |-> clock, exp |-> clock + ttl]

\* Expiration is kept in whole seconds, so the last second is never complete.
Expired(v) == clock >= v.exp

NoJwt == [sub |-> Admin, iat |-> 0, exp |-> 0]

Request(op, email, password, fresh) ==
    [op |-> op, email |-> email, password |-> password, fresh |-> fresh]

NoRequest == Request("none", Admin, AdminPassword, AdminPassword)

Init ==
    /\ clock = 0
    /\ users = <<[email |-> Admin, password |-> AdminPassword, role |-> "ADMIN"]>>
    /\ tokens = << >>
    /\ revoked = {}
    /\ known = {}
    /\ pc = [t \in Threads |-> "idle"]
    /\ req = [t \in Threads |-> NoRequest]
    /\ jwt = [t \in Threads |-> NoJwt]
    /\ user = [t \in Threads |-> 0]
    /\ seen = [t \in Threads |-> AdminPassword]
    /\ found = [t \in Threads |-> {}]
    /\ mark = [t \in Threads |-> 0]
    /\ loggedOut = {}

-----------------------------------------------------------------------------
Go(t, from, to) == pc[t] = from /\ pc' = [pc EXCEPT ![t] = to]

\* The request ends, with a response or an error, and its locals are gone.
End(t, from) ==
    /\ Go(t, from, "idle")
    /\ req' = [req EXCEPT ![t] = NoRequest]
    /\ jwt' = [jwt EXCEPT ![t] = NoJwt]
    /\ user' = [user EXCEPT ![t] = 0]
    /\ seen' = [seen EXCEPT ![t] = AdminPassword]
    /\ found' = [found EXCEPT ![t] = {}]
    /\ mark' = [mark EXCEPT ![t] = 0]

\* findByEmail: no row, one row, or IncorrectResultSizeDataAccessException.
ByEmail(email) == {i \in DOMAIN users : users[i].email = email}
OnlyUser(i, email) == ByEmail(email) = {i}

\* findByTokenValue
ByValue(v) == {i \in DOMAIN tokens : tokens[i].value = v}

\* findAllValidTokenByUser
Valid(u) == {i \in DOMAIN tokens : tokens[i].user = u} \ revoked

Token(v, u) == [value |-> v, user |-> u]

Tick == /\ clock < MaxTime
        /\ clock' = clock + 1
        /\ UNCHANGED <<tables, known, pc, req, locals, loggedOut>>

\* A client sends a request; the token it presents is one it was given.
Begin(t, first, r, v) ==
    /\ Go(t, "idle", first)
    /\ req' = [req EXCEPT ![t] = r]
    /\ jwt' = [jwt EXCEPT ![t] = v]
    /\ mark' = [mark EXCEPT ![t] = Len(tokens)]
    /\ UNCHANGED <<clock, tables, known, user, seen, found, loggedOut>>

SendRegister(t) ==
    \E e \in Emails, p \in Passwords :
        Begin(t, "check", Request("register", e, p, AdminPassword), NoJwt)

SendAuthenticate(t) ==
    \E e \in Emails, p \in Passwords :
        Begin(t, "verify", Request("authenticate", e, p, AdminPassword), NoJwt)

SendRefresh(t) ==
    \E v \in known :
        Begin(t, "load", Request("refresh", v.sub, AdminPassword, AdminPassword), v)

SendLogout(t) ==
    \E v \in known :
        Begin(t, "find", Request("logout", v.sub, AdminPassword, AdminPassword), v)

\* A protected endpoint; "change" is the one that changes the password.
SendCall(t) ==
    \E v \in known :
        \/ Begin(t, "filter", Request("call", v.sub, AdminPassword, AdminPassword), v)
        \/ \E p, fresh \in Passwords :
              Begin(t, "filter", Request("change", v.sub, p, fresh), v)

-----------------------------------------------------------------------------
(* AuthenticationService *)

\* register: the e-mail is looked up, and then the row is inserted.
RegisterCheck(t) ==
    /\ pc[t] = "check"
    /\ \/ ByEmail(req[t].email) # {} /\ End(t, "check")
       \/ /\ ByEmail(req[t].email) = {} /\ Go(t, "check", "save_user")
          /\ UNCHANGED <<req, locals>>
    /\ UNCHANGED <<clock, tables, known, loggedOut>>

\* Every user is registered with the role USER, whatever role was asked for.
Insert(t) ==
    /\ Len(users) < MaxUsers
    /\ users' = Append(users, [email |-> req[t].email, password |-> req[t].password,
                               role |-> "USER"])

RegisterSaveNoId(t) ==                        \* fault: the unsaved entity is used
    /\ Go(t, "save_user", "generate")
    /\ Insert(t)
    /\ UNCHANGED <<clock, tokens, revoked, known, req, locals, loggedOut>>

RegisterSave(t) ==
    /\ Go(t, "save_user", "generate")
    /\ Insert(t)
    /\ user' = [user EXCEPT ![t] = Len(users) + 1]
    /\ UNCHANGED <<clock, tokens, revoked, known, req, jwt, seen, found, mark, loggedOut>>

\* authenticate: the AuthenticationManager loads the user and checks the password.
PasswordMatches(t) ==
    \E i \in DOMAIN users : OnlyUser(i, req[t].email) /\ users[i].password = req[t].password

Verify(t) ==
    /\ pc[t] = "verify"
    /\ \/ PasswordMatches(t) /\ Go(t, "verify", "load") /\ UNCHANGED <<req, locals>>
       \/ ~PasswordMatches(t) /\ End(t, "verify")
    /\ UNCHANGED <<clock, tables, known, loggedOut>>

\* The service's own findByEmail; refreshToken also checks the token it was sent.
Load(t) ==
    /\ pc[t] = "load"
    /\ LET stale == req[t].op = "refresh" /\ Expired(jwt[t])
       IN  \/ /\ ~stale
              /\ \E i \in DOMAIN users : OnlyUser(i, req[t].email) /\ user' = [user EXCEPT ![t] = i]
              /\ Go(t, "load", "generate")
              /\ UNCHANGED <<req, jwt, seen, found, mark>>
           \/ /\ stale \/ ~\E i \in DOMAIN users : OnlyUser(i, req[t].email)
              /\ End(t, "load")
    /\ UNCHANGED <<clock, tables, known, loggedOut>>

\* Only a registration has nothing to revoke.
GenerateThen(t, next) ==
    /\ Go(t, "generate", next)
    /\ jwt' = [jwt EXCEPT ![t] = Jwt(req[t].email, AccessTTL)]
    /\ UNCHANGED <<clock, tables, known, req, user, seen, found, mark, loggedOut>>

GenerateOnly(t) ==                            \* fault: only a login revokes
    GenerateThen(t, IF req[t].op = "authenticate" THEN "find_valid" ELSE "save_token")

Generate(t) ==
    GenerateThen(t, IF req[t].op = "register" THEN "save_token" ELSE "find_valid")

\* revokeAllUserTokens: one query, then one saveAll when it found any.
FindValid(t) ==
    /\ Go(t, "find_valid", IF Valid(user[t]) = {} THEN "save_token" ELSE "revoke")
    /\ found' = [found EXCEPT ![t] = Valid(user[t])]
    /\ UNCHANGED <<clock, tables, known, req, jwt, user, seen, mark, loggedOut>>

Revoke(t) ==
    /\ Go(t, "revoke", "save_token")
    /\ revoked' = revoked \cup found[t]
    /\ UNCHANGED <<clock, users, tokens, known, req, locals, loggedOut>>

Store(t) ==
    /\ Len(tokens) < MaxTokens
    /\ tokens' = Append(tokens, Token(jwt[t], user[t]))
    /\ known' = known \cup {jwt[t]} \cup
                (IF req[t].op = "refresh" THEN {}
                 ELSE {[sub |-> jwt[t].sub, iat |-> jwt[t].iat, exp |-> jwt[t].iat + RefreshTTL]})

SaveTokenAgain(t) ==                          \* fault: no unique key on tokens.token
    /\ pc[t] = "save_token"
    /\ Store(t)
    /\ End(t, "save_token")
    /\ UNCHANGED <<clock, users, revoked, loggedOut>>

\* saveUserToken and the response; the key uk_token_token refuses a value that
\* is already stored, and the request fails after what it has committed.
SaveToken(t) ==
    /\ pc[t] = "save_token"
    /\ \/ ByValue(jwt[t]) # {} /\ UNCHANGED <<tokens, known>>
       \/ ByValue(jwt[t]) = {} /\ Store(t)
    /\ End(t, "save_token")
    /\ UNCHANGED <<clock, users, revoked, loggedOut>>

-----------------------------------------------------------------------------
(* LogoutService *)

LogoutFind(t) ==
    /\ pc[t] = "find"
    /\ \/ ByValue(jwt[t]) = {} /\ End(t, "find")
       \/ /\ ByValue(jwt[t]) # {} /\ Go(t, "find", "logout")
          /\ found' = [found EXCEPT ![t] = ByValue(jwt[t])]
          /\ UNCHANGED <<req, jwt, user, seen, mark>>
    /\ UNCHANGED <<clock, tables, known, loggedOut>>

LogoutSave(t) ==
    /\ pc[t] = "logout"
    /\ revoked' = revoked \cup found[t]
    /\ loggedOut' = loggedOut \cup {jwt[t]}
    /\ End(t, "logout")
    /\ UNCHANGED <<clock, users, tokens, known>>

-----------------------------------------------------------------------------
(* JwtAuthenticationFilter and UserService *)

\* The subject is extracted, which throws on an expired token, and the user loaded.
FilterLoad(t) ==
    /\ pc[t] = "filter"
    /\ \/ /\ ~Expired(jwt[t])
          /\ \E i \in DOMAIN users :
                /\ OnlyUser(i, req[t].email)
                /\ user' = [user EXCEPT ![t] = i]
                /\ seen' = [seen EXCEPT ![t] = users[i].password]
          /\ Go(t, "filter", "lookup")
          /\ UNCHANGED <<req, jwt, found, mark>>
       \/ /\ Expired(jwt[t]) \/ ~\E i \in DOMAIN users : OnlyUser(i, req[t].email)
          /\ End(t, "filter")
    /\ UNCHANGED <<clock, tables, known, loggedOut>>

AcceptedUnstored(t) ==                        \* fault: a token that is not stored is valid
    /\ ByValue(jwt[t]) \cap revoked = {}
    /\ ~Expired(jwt[t])

Accepted(t) ==
    /\ ByValue(jwt[t]) \ revoked # {}
    /\ ~Expired(jwt[t])

\* /user/** also demands the role of an administrator.
Authorized(t) == req[t].op = "change" => users[user[t]].role = "ADMIN"

FilterLookup(t) ==
    /\ pc[t] = "lookup"
    /\ \/ /\ Accepted(t) /\ Authorized(t)
          /\ Go(t, "lookup", IF req[t].op = "change" THEN "change" ELSE "served")
          /\ UNCHANGED <<req, locals>>
       \/ ~(Accepted(t) /\ Authorized(t)) /\ End(t, "lookup")
    /\ UNCHANGED <<clock, tables, known, loggedOut>>

\* What the endpoint does is another component's business.
Serve(t) ==
    /\ End(t, "served")
    /\ UNCHANGED <<clock, tables, known, loggedOut>>

SetPassword(t) ==
    users' = [users EXCEPT ![user[t]] =
                 [email |-> users[user[t]].email, password |-> req[t].fresh, role |-> users[user[t]].role]]

\* changePassword compares with the password the filter loaded; the confirmation
\* may also differ from the new password.
ChangePassword(t) ==
    /\ pc[t] = "change"
    /\ \/ req[t].password = seen[t] /\ SetPassword(t)
       \/ UNCHANGED users
    /\ End(t, "change")
    /\ UNCHANGED <<clock, tokens, revoked, known, loggedOut>>

Step(t) ==
    \/ SendRegister(t) \/ SendAuthenticate(t) \/ SendRefresh(t) \/ SendLogout(t) \/ SendCall(t)
    \/ RegisterCheck(t) \/ RegisterSave(t) \/ Verify(t) \/ Load(t) \/ Generate(t)
    \/ FindValid(t) \/ Revoke(t) \/ SaveToken(t)
    \/ LogoutFind(t) \/ LogoutSave(t)
    \/ FilterLoad(t) \/ FilterLookup(t) \/ Serve(t) \/ ChangePassword(t)

Next == Tick \/ \E t \in Threads : Step(t)

Spec == Init /\ [][Next]_vars

-----------------------------------------------------------------------------
Tokens == [sub : Emails, iat : Nat, exp : Nat]
Ops    == {"none", "register", "authenticate", "refresh", "logout", "call", "change"}
Stages == {"idle", "check", "save_user", "verify", "load", "generate", "find_valid",
           "revoke", "save_token", "find", "logout", "filter", "lookup", "served", "change"}
Requests == [op : Ops, email : Emails, password : Passwords, fresh : Passwords]

\* Every variable keeps its type, and foreign keys point to rows.
TypeOK ==
    /\ clock \in Nat
    /\ users \in Seq([email : Emails, password : Passwords, role : {"USER", "ADMIN"}])
    /\ tokens \in Seq([value : Tokens, user : Nat])
    /\ \A i \in DOMAIN tokens : tokens[i].user \in DOMAIN users
    /\ revoked \subseteq DOMAIN tokens
    /\ pc \in [Threads -> Stages]
    /\ req \in [Threads -> Requests]
    /\ jwt \in [Threads -> Tokens]
    /\ user \in [Threads -> Nat]
    /\ seen \in [Threads -> Passwords]
    /\ found \in [Threads -> SUBSET Nat]
    /\ mark \in [Threads -> Nat]
    /\ known \subseteq Tokens
    /\ loggedOut \subseteq Tokens

\* The steps in which the filter lets a request through.
Admits(t) == pc[t] = "lookup" /\ pc'[t] \in {"served", "change"}

\* Once the logout of a token has committed, no token lookup of the filter lets
\* a request with it through again, whatever logs in, refreshes or registers at
\* the same time (LogoutService against JwtAuthenticationFilter).
LoggedOutStaysOut ==
    [][\A t \in Threads : Admits(t) => jwt[t] \notin loggedOut]_vars

\* A request is let through as the user its token was stored for, with an access
\* token, never a refresh token, that is not past its time.
AdmitsOwner ==
    [][\A t \in Threads : Admits(t) =>
          /\ \E i \in ByValue(jwt[t]) : tokens[i].user = user[t]
          /\ jwt[t].exp = jwt[t].iat + AccessTTL
          /\ clock < jwt[t].exp]_vars

\* revokeAllUserTokens: when a login or a refresh has stored its token, every
\* other valid token of the user was stored while this request ran.
LoginEndsOthers ==
    [][\A t \in Threads :
          /\ pc[t] = "save_token" /\ req[t].op # "register"
          /\ pc'[t] # pc[t] /\ Len(tokens') > Len(tokens)
          => \A i \in Valid(user[t]) : i > mark[t]]_vars

\* The request of s is between its decision to issue a token and storing it.
Issuing(s) == pc[s] \in {"generate", "find_valid", "revoke", "save_token"}

\* No two requests issue tokens of one user at a time.
Exclusive == \A s, t \in Threads : Issuing(s) /\ Issuing(t) /\ user[s] = user[t] => s = t

\* While no two requests issue tokens of one user at a time, the user has one valid
\* token at most, whatever other users, logouts and protected calls do meanwhile.
AtMostOneValid == \A u \in DOMAIN users : Cardinality(Valid(u)) <= 1

\* A password is only replaced by who knows it: a change whose "current"
\* password is wrong when it is saved saves nothing (UserServiceTests:46).
ChangeNeedsCurrent ==
    [][\A t \in Threads :
          pc[t] = "change" /\ pc'[t] # pc[t] /\ users' # users =>
              req[t].password = users[user[t]].password]_vars

\* A login that found the user and the password right gets its tokens
\* (AuthenticationResource.java:41, "Authenticate to get access and refresh tokens").
LoginSucceeds ==
    [][\A t \in Threads :
          pc[t] = "save_token" /\ req[t].op = "authenticate" /\ pc'[t] # pc[t] =>
              Len(tokens') > Len(tokens)]_vars

\* An e-mail belongs to one user (entity/User.java:38, unique = true).
EmailUnique ==
    \A i, j \in DOMAIN users : users[i].email = users[j].email => i = j

=============================================================================
