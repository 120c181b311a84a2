-------------------------- MODULE TokenAuthProofs --------------------------
(***************************************************************************)
(* Proofs about TokenAuth for any threads, users, tokens and times.        *)
(***************************************************************************)
EXTENDS TokenAuthSessions, FiniteSetTheorems, TLAPS

UserRow  == [email : Emails, password : Passwords, role : {"USER", "ADMIN"}]
TokenRow == [value : Tokens, user : Nat]

Access(v) == v.exp = v.iat + AccessTTL

\* What is known of the request of a thread at each of its stages.
Storing == {"find_valid", "revoke", "save_token"}
Loaded  == Storing \cup {"generate", "lookup", "served", "change"}

Working(s) ==
    /\ mark[s] <= Len(tokens) /\ found[s] \subseteq DOMAIN tokens
    /\ pc[s] \in Loaded => user[s] \in DOMAIN users
    /\ pc[s] \in Storing \cup {"generate"} => users[user[s]].email = req[s].email
    /\ pc[s] \in Storing => jwt[s].sub = req[s].email /\ Access(jwt[s])
    /\ pc[s] \in {"filter", "lookup"} => jwt[s] \in known /\ jwt[s].sub = req[s].email
    /\ pc[s] = "lookup" => \A i \in ByValue(jwt[s]) : tokens[i].user = user[s]
    /\ pc[s] = "logout" => found[s] = ByValue(jwt[s]) /\ found[s] # {}
    /\ pc[s] = "revoke" => \A i \in Valid(user[s]) : i > mark[s] \/ i \in found[s]
    /\ pc[s] = "save_token" /\ req[s].op # "register" =>
          \A i \in Valid(user[s]) : i > mark[s]

\* A stored token is an access token of its user; refresh tokens are not stored.
RowsOwned ==
    \A i \in DOMAIN tokens :
        /\ tokens[i].user \in DOMAIN users
        /\ users[tokens[i].user].email = tokens[i].value.sub
        /\ Access(tokens[i].value)

KnownStored == \A v \in known : Access(v) => ByValue(v) # {}

\* The token of a committed logout is stored and revoked.
OutRevoked == \A v \in loggedOut : ByValue(v) # {} /\ ByValue(v) \subseteq revoked

IInv == TypeOK /\ RowsOwned /\ KnownStored /\ OutRevoked /\ \A s \in Threads : Working(s)

-----------------------------------------------------------------------------
(* What a step does, whichever request it belongs to. *)

Refresh(v) == [sub |-> v.sub, iat |-> v.iat, exp |-> v.iat + RefreshTTL]

\* Tokens are stored, and given to a client, by a step that ends a request.
Stores(t) ==
    /\ pc[t] = "save_token" /\ ByValue(jwt[t]) = {}
    /\ tokens' = Append(tokens, Token(jwt[t], user[t]))
    /\ known' \subseteq known \cup {jwt[t], Refresh(jwt[t])}
    /\ known \subseteq known'
    /\ UNCHANGED <<users, revoked, loggedOut>>

\* A step of one thread leaves the others' requests and the clock alone; rows of
\* tokens are stored by logins, refreshes and registrations, and revoked by a
\* login, a refresh or a logout; a row of users is added, or its password replaced.
LEMMA StepEffects ==
    ASSUME TypeOK, NEW t \in Threads, Step(t)
    PROVE  /\ clock' = clock
           /\ \A s \in Threads \ {t} :
                 /\ pc'[s] = pc[s] /\ req'[s] = req[s] /\ jwt'[s] = jwt[s]
                 /\ user'[s] = user[s] /\ found'[s] = found[s] /\ mark'[s] = mark[s]
           /\ Stores(t) \/ UNCHANGED <<tokens, known>>
           /\ \/ UNCHANGED <<revoked, loggedOut>>
              \/ pc[t] = "revoke" /\ revoked' = revoked \cup found[t] /\ UNCHANGED loggedOut
              \/ /\ pc[t] = "logout" /\ revoked' = revoked \cup found[t]
                 /\ loggedOut' = loggedOut \cup {jwt[t]}
           /\ \/ users' = users
              \/ pc[t] = "save_user" /\ Insert(t)
              \/ pc[t] = "change" /\ SetPassword(t)
<1> USE DEF TypeOK, tables, locals
<1>1. CASE SendRegister(t)
  BY <1>1, SMT DEF SendRegister, Begin, Request, Go, NoJwt
<1>2. CASE SendAuthenticate(t)
  BY <1>2, SMT DEF SendAuthenticate, Begin, Request, Go, NoJwt
<1>3. CASE SendRefresh(t)
  BY <1>3, SMT DEF SendRefresh, Begin, Request, Go
<1>4. CASE SendLogout(t)
  BY <1>4, SMT DEF SendLogout, Begin, Request, Go
<1>5. CASE SendCall(t)
  BY <1>5, SMT DEF SendCall, Begin, Request, Go
<1>6. CASE RegisterCheck(t)
  BY <1>6, SMT DEF RegisterCheck, Go, End
<1>7. CASE RegisterSave(t)
  BY <1>7, SMT DEF RegisterSave, Go
<1>8. CASE Verify(t)
  BY <1>8, SMT DEF Verify, Go, End
<1>9. CASE Load(t)
  BY <1>9, SMT DEF Load, Go, End
<1>10. CASE Generate(t)
  BY <1>10, SMT DEF Generate, GenerateThen, Go
<1>11. CASE FindValid(t)
  BY <1>11, SMT DEF FindValid, Go
<1>12. CASE Revoke(t)
  BY <1>12, SMT DEF Revoke, Go
<1>13. CASE SaveToken(t)
  <2>1. CASE ByValue(jwt[t]) = {}
    BY <1>13, <2>1, SMT DEF SaveToken, Store, Go, End, Stores, Refresh
  <2>2. CASE ByValue(jwt[t]) # {}
    BY <1>13, <2>2, SMT DEF SaveToken, Store, Go, End, Stores, Refresh
  <2> QED
    BY <2>1, <2>2
<1>14. CASE LogoutFind(t)
  BY <1>14, SMT DEF LogoutFind, Go, End
<1>15. CASE LogoutSave(t)
  BY <1>15, SMT DEF LogoutSave, Go, End
<1>16. CASE FilterLoad(t)
  BY <1>16, SMT DEF FilterLoad, Go, End
<1>17. CASE FilterLookup(t)
  BY <1>17, SMT DEF FilterLookup, Go, End
<1>18. CASE Serve(t)
  BY <1>18, SMT DEF Serve, Go, End
<1>19. CASE ChangePassword(t)
  BY <1>19, SMT DEF ChangePassword, Go, End
<1> QED
  BY <1>1, <1>2, <1>3, <1>4, <1>5, <1>6, <1>7, <1>8, <1>9, <1>10, <1>11, <1>12, <1>13,
     <1>14, <1>15, <1>16, <1>17, <1>18, <1>19 DEF Step

\* Rows of tokens are never changed; the one added holds what was not stored.
LEMMA RowsKept ==
    ASSUME TypeOK, NEW t \in Threads, Step(t)
    PROVE  /\ Len(tokens) <= Len(tokens') /\ Len(tokens') \in Nat
           /\ DOMAIN tokens \subseteq DOMAIN tokens'
           /\ \A i \in DOMAIN tokens : tokens'[i] = tokens[i]
           /\ \A i \in DOMAIN tokens' \ DOMAIN tokens :
                 Stores(t) /\ i = Len(tokens) + 1 /\ tokens'[i] = Token(jwt[t], user[t])
<1> DEFINE new == Token(jwt[t], user[t])
<1>1. tokens \in Seq(TokenRow) /\ new \in TokenRow
  BY SMT DEF TypeOK, TokenRow, Token, Tokens
<1>2. CASE tokens' = tokens
  BY <1>1, <1>2, SMT
<1>3. CASE Stores(t)
  <2> HIDE DEF new
  <2>1. tokens' = Append(tokens, new)
    BY <1>3 DEF Stores, new
  <2>2. /\ Len(tokens') = Len(tokens) + 1 /\ Len(tokens) \in Nat
        /\ DOMAIN tokens = 1..Len(tokens) /\ DOMAIN tokens' = 1..Len(tokens')
        /\ \A i \in 1..Len(tokens) : tokens'[i] = tokens[i]
        /\ tokens'[Len(tokens) + 1] = new
    BY <1>1, <2>1, SMT
  <2> QED
    BY <1>3, <2>2, SMT DEF new
<1> QED
  BY <1>2, <1>3, StepEffects

\* The e-mail of a user never changes.
LEMMA UsersKept ==
    ASSUME TypeOK, NEW t \in Threads, Step(t)
    PROVE  /\ DOMAIN users \subseteq DOMAIN users'
           /\ \A u \in DOMAIN users : users'[u].email = users[u].email
<1> DEFINE row == [email |-> req[t].email, password |-> req[t].password, role |-> "USER"]
<1>1. users \in Seq(UserRow) /\ row \in UserRow
  BY SMT DEF TypeOK, UserRow, Requests
<1>2. CASE Insert(t)
  <2> HIDE DEF row
  <2>1. users' = Append(users, row)
    BY <1>2 DEF Insert, row
  <2> QED
    BY <1>1, <2>1, SMT
<1>3. CASE SetPassword(t)
  BY <1>1, <1>3, SMT DEF SetPassword, UserRow
<1> QED
  BY <1>2, <1>3, StepEffects, SMT

\* A value that is stored keeps its row, and no second row gets it.
LEMMA ByValueKept ==
    ASSUME TypeOK, NEW t \in Threads, Step(t), NEW v, ByValue(v) # {}
    PROVE  ByValue(v)' = ByValue(v)
<1>1. ASSUME NEW i \in DOMAIN tokens' \ DOMAIN tokens PROVE tokens'[i].value # v
  <2>1. Stores(t) /\ tokens'[i] = Token(jwt[t], user[t])
    BY <1>1, RowsKept
  <2>2. jwt[t] # v
    BY <2>1 DEF Stores
  <2> QED
    BY <2>1, <2>2 DEF Token
<1> QED
  BY <1>1, RowsKept, SMT DEF ByValue

\* The valid tokens of a user after a step.
LEMMA ValidAfter ==
    ASSUME TypeOK, NEW t \in Threads, Step(t), NEW u, NEW i \in Valid(u)'
    PROVE  i \in Valid(u) \/ i = Len(tokens) + 1
<1>1. revoked \subseteq revoked'
  BY StepEffects
<1> QED
  BY <1>1, RowsKept, SMT DEF Valid


-----------------------------------------------------------------------------
(* Types. *)

LocalsTyped ==
    /\ pc \in [Threads -> Stages] /\ req \in [Threads -> Requests]
    /\ jwt \in [Threads -> Tokens] /\ user \in [Threads -> Nat]
    /\ seen \in [Threads -> Passwords] /\ found \in [Threads -> SUBSET Nat]
    /\ mark \in [Threads -> Nat]

\* Dummy values are typed.
LEMMA Defaults == NoRequest \in Requests /\ NoJwt \in Tokens
BY AuthAssumption, SMT DEF NoRequest, NoJwt, Requests, Request, Ops, Tokens

\* The locals keep their types when a request ends, begins, or just goes on.
LEMMA EndTyped ==
    ASSUME LocalsTyped, NEW t \in Threads, NEW from, End(t, from)
    PROVE  LocalsTyped'
BY AuthAssumption, Defaults, SMT DEF LocalsTyped, End, Go, Stages

\* A request begins with values of their types.
LEMMA BeginTyped ==
    ASSUME LocalsTyped, tokens \in Seq(TokenRow), NEW t \in Threads, NEW first \in Stages,
           NEW r \in Requests, NEW v \in Tokens, Begin(t, first, r, v)
    PROVE  LocalsTyped'
BY SMT DEF LocalsTyped, Begin, Go

\* A request that only goes on to its next stage changes no type.
LEMMA GoTyped ==
    ASSUME LocalsTyped, NEW t \in Threads, NEW from, NEW to \in Stages, Go(t, from, to),
           UNCHANGED <<req, locals>>
    PROVE  LocalsTyped'
BY SMT DEF LocalsTyped, Go, locals

\* What the clients send is a request.
LEMMA RequestTyped ==
    ASSUME NEW op \in Ops, NEW e \in Emails, NEW p \in Passwords, NEW q \in Passwords
    PROVE  Request(op, e, p, q) \in Requests
BY SMT DEF Request, Requests

\* Every step keeps the types of the requests' locals.
LEMMA LocalsStep ==
    ASSUME TypeOK, NEW t \in Threads, Step(t)
    PROVE  LocalsTyped'
<1>0. /\ LocalsTyped /\ tokens \in Seq(TokenRow)
      /\ DOMAIN users \subseteq Nat /\ \A i \in DOMAIN users : users[i].password \in Passwords
  <2>1. users \in Seq(UserRow)
    BY DEF TypeOK, UserRow
  <2>2. DOMAIN users \subseteq Nat /\ \A i \in DOMAIN users : users[i] \in UserRow
    BY <2>1, SMT
  <2> QED
    BY <2>2, SMT DEF TypeOK, LocalsTyped, TokenRow, UserRow
<1>a. \A v \in known : v \in Tokens /\ v.sub \in Emails
  BY SMT DEF TypeOK, Tokens

<1>1. CASE SendRegister(t)
  BY <1>1, <1>0, <1>a, AuthAssumption, BeginTyped, RequestTyped, Defaults
     DEF SendRegister, Ops, Stages
<1>2. CASE SendAuthenticate(t)
  BY <1>2, <1>0, <1>a, AuthAssumption, BeginTyped, RequestTyped, Defaults
     DEF SendAuthenticate, Ops, Stages
<1>3. CASE SendRefresh(t)
  BY <1>3, <1>0, <1>a, AuthAssumption, BeginTyped, RequestTyped, Defaults
     DEF SendRefresh, Ops, Stages
<1>4. CASE SendLogout(t)
  BY <1>4, <1>0, <1>a, AuthAssumption, BeginTyped, RequestTyped, Defaults
     DEF SendLogout, Ops, Stages
<1>5. CASE SendCall(t)
  BY <1>5, <1>0, <1>a, AuthAssumption, BeginTyped, RequestTyped, Defaults
     DEF SendCall, Ops, Stages
<1>6. CASE RegisterCheck(t)
  <2>1. CASE End(t, "check")
    BY <2>1, <1>0, EndTyped
  <2>2. CASE Go(t, "check", "save_user") /\ UNCHANGED <<req, locals>>
    BY <2>2, <1>0, GoTyped DEF Stages
  <2> QED
    BY <1>6, <2>1, <2>2 DEF RegisterCheck
<1>7. CASE RegisterSave(t)
  BY <1>7, <1>0, SMT DEF LocalsTyped, RegisterSave, Go, Stages, TypeOK
<1>8. CASE Verify(t)
  <2>1. CASE End(t, "verify")
    BY <2>1, <1>0, EndTyped
  <2>2. CASE Go(t, "verify", "load") /\ UNCHANGED <<req, locals>>
    BY <2>2, <1>0, GoTyped DEF Stages
  <2> QED
    BY <1>8, <2>1, <2>2 DEF Verify
<1>9. CASE Load(t)
  <2>1. CASE End(t, "load")
    BY <2>1, <1>0, EndTyped
  <2>2. CASE /\ Go(t, "load", "generate") /\ UNCHANGED <<req, jwt, seen, found, mark>>
           /\ \E i \in DOMAIN users : user' = [user EXCEPT ![t] = i]
    BY <2>2, <1>0, SMT DEF LocalsTyped, Go, Stages
  <2> QED
    BY <1>9, <2>1, <2>2 DEF Load
<1>10. CASE Generate(t)
  BY <1>10, <1>0, AuthAssumption, SMT
     DEF LocalsTyped, Generate, GenerateThen, Go, Stages, Jwt, Tokens, Requests, TypeOK
<1>11. CASE FindValid(t)
  BY <1>11, <1>0, SMT DEF LocalsTyped, FindValid, Go, Stages, Valid
<1>12. CASE Revoke(t)
  BY <1>12, <1>0, SMT DEF LocalsTyped, Revoke, Go, Stages, locals
<1>13. CASE SaveToken(t)
  BY <1>13, <1>0, EndTyped DEF SaveToken
<1>14. CASE LogoutFind(t)
  <2>1. CASE End(t, "find")
    BY <2>1, <1>0, EndTyped
  <2>2. CASE /\ Go(t, "find", "logout") /\ UNCHANGED <<req, jwt, user, seen, mark>>
           /\ found' = [found EXCEPT ![t] = ByValue(jwt[t])]
    BY <2>2, <1>0, SMT DEF LocalsTyped, Go, Stages, ByValue
  <2> QED
    BY <1>14, <2>1, <2>2 DEF LogoutFind
<1>15. CASE LogoutSave(t)
  BY <1>15, <1>0, EndTyped DEF LogoutSave
<1>16. CASE FilterLoad(t)
  <2>1. CASE End(t, "filter")
    BY <2>1, <1>0, EndTyped
  <2>2. CASE /\ Go(t, "filter", "lookup") /\ UNCHANGED <<req, jwt, found, mark>>
           /\ \E i \in DOMAIN users : /\ user' = [user EXCEPT ![t] = i]
                                     /\ seen' = [seen EXCEPT ![t] = users[i].password]
    BY <2>2, <1>0, SMT DEF LocalsTyped, Go, Stages
  <2> QED
    BY <1>16, <2>1, <2>2 DEF FilterLoad
<1>17. CASE FilterLookup(t)
  <2>1. CASE End(t, "lookup")
    BY <2>1, <1>0, EndTyped
  <2>2. CASE /\ Go(t, "lookup", IF req[t].op = "change" THEN "change" ELSE "served")
           /\ UNCHANGED <<req, locals>>
    BY <2>2, <1>0, GoTyped DEF Stages
  <2> QED
    BY <1>17, <2>1, <2>2 DEF FilterLookup
<1>18. CASE Serve(t)
  BY <1>18, <1>0, EndTyped DEF Serve
<1>19. CASE ChangePassword(t)
  BY <1>19, <1>0, EndTyped DEF ChangePassword
<1> QED
  BY <1>1, <1>2, <1>3, <1>4, <1>5, <1>6, <1>7, <1>8, <1>9, <1>10, <1>11, <1>12, <1>13,
     <1>14, <1>15, <1>16, <1>17, <1>18, <1>19 DEF Step

\* Every step keeps the rows of users well formed.
LEMMA UsersTyped ==
    ASSUME TypeOK, NEW t \in Threads, Step(t)
    PROVE  users' \in Seq(UserRow)
<1> DEFINE row == [email |-> req[t].email, password |-> req[t].password, role |-> "USER"]
<1>1. users \in Seq(UserRow) /\ row \in UserRow /\ req[t].fresh \in Passwords
  BY SMT DEF TypeOK, UserRow, Requests
<1>2. CASE Insert(t)
  <2> HIDE DEF row
  <2>1. users' = Append(users, row)
    BY <1>2 DEF Insert, row
  <2> QED
    BY <1>1, <2>1, SMT
<1>3. CASE SetPassword(t)
  <2> DEFINE u == user[t]
             changed == [email |-> users[u].email, password |-> req[t].fresh,
                         role |-> users[u].role]
  <2>1. users' = [users EXCEPT ![u] = changed]
    BY <1>3 DEF SetPassword
  <2>2. ASSUME u \in DOMAIN users PROVE changed \in UserRow
    <3>1. users[u] \in UserRow
      BY <1>1, <2>2, SMT
    <3> QED
      BY <1>1, <3>1, SMT DEF UserRow
  <2> HIDE DEF u, changed
  <2>3. users \in [1..Len(users) -> UserRow] /\ Len(users) \in Nat /\ DOMAIN users = 1..Len(users)
    BY <1>1, SMT
  <2>4. users' \in [1..Len(users) -> UserRow]
    BY <2>1, <2>2, <2>3
  <2> QED
    BY <2>3, <2>4, SMT
<1> QED
  BY <1>1, <1>2, <1>3, StepEffects

\* Every step keeps the rows of tokens, and what clients know, well formed.
LEMMA TablesTyped ==
    ASSUME TypeOK, NEW t \in Threads, Step(t)
    PROVE  tokens' \in Seq(TokenRow) /\ known' \subseteq Tokens /\ loggedOut' \subseteq Tokens
<1> DEFINE new == Token(jwt[t], user[t])
<1>1. tokens \in Seq(TokenRow) /\ new \in TokenRow /\ known \subseteq Tokens
  BY SMT DEF TypeOK, TokenRow, Token, Tokens
<1>2. jwt[t] \in Tokens /\ Refresh(jwt[t]) \in Tokens /\ loggedOut \subseteq Tokens
  BY AuthAssumption, SMT DEF TypeOK, Refresh, Tokens
<1>3. loggedOut' \subseteq loggedOut \cup {jwt[t]}
  BY StepEffects
<1>4. CASE Stores(t)
  <2> HIDE DEF new
  <2>1. tokens' = Append(tokens, new)
    BY <1>4 DEF Stores, new
  <2>2. known' \subseteq known \cup {jwt[t], Refresh(jwt[t])}
    BY <1>4 DEF Stores
  <2> QED
    BY <1>1, <1>2, <1>3, <2>1, <2>2, SMT
<1> QED
  BY <1>1, <1>2, <1>3, <1>4, StepEffects

\* Every step of a request keeps the type invariant.
LEMMA TypeStep ==
    ASSUME IInv, NEW t \in Threads, Step(t)
    PROVE  TypeOK'
<1>0. TypeOK /\ RowsOwned /\ Working(t)
  BY DEF IInv
<1>1. ASSUME NEW i \in DOMAIN tokens' PROVE tokens'[i].user \in DOMAIN users'
  <2>1. CASE i \in DOMAIN tokens
    BY <1>0, <2>1, RowsKept, UsersKept DEF RowsOwned
  <2>2. CASE i \notin DOMAIN tokens
    <3>1. Stores(t) /\ tokens'[i] = Token(jwt[t], user[t])
      BY <1>0, <1>1, <2>2, RowsKept
    <3>2. user[t] \in DOMAIN users
      BY <1>0, <3>1 DEF Stores, Working, Loaded, Storing
    <3> QED
      BY <1>0, <3>1, <3>2, UsersKept DEF Token
  <2> QED
    BY <2>1, <2>2
<1>2. revoked' \subseteq DOMAIN tokens'
  <2>1. revoked \subseteq DOMAIN tokens /\ found[t] \subseteq DOMAIN tokens
    BY <1>0 DEF TypeOK, Working
  <2> QED
    BY <1>0, <2>1, StepEffects, RowsKept
<1>3. clock' \in Nat /\ LocalsTyped'
  BY <1>0, StepEffects, LocalsStep DEF TypeOK
<1>4. users' \in Seq([email : Emails, password : Passwords, role : {"USER", "ADMIN"}])
  BY <1>0, UsersTyped DEF UserRow
<1>5. tokens' \in Seq([value : Tokens, user : Nat])
  BY <1>0, TablesTyped DEF TokenRow
<1>6. known' \subseteq Tokens /\ loggedOut' \subseteq Tokens
  BY <1>0, TablesTyped
<1>7. \A i \in DOMAIN tokens' : tokens'[i].user \in DOMAIN users'
  BY <1>1
<1> QED
  BY <1>2, <1>3, <1>4, <1>5, <1>6, <1>7 DEF TypeOK, LocalsTyped


-----------------------------------------------------------------------------
(* The tables: rows are owned, known tokens stored, logouts effective. *)

\* A row is stored with the token generated for the e-mail of its user.
LEMMA RowsOwnedStep ==
    ASSUME IInv, NEW t \in Threads, Step(t)
    PROVE  RowsOwned'
<1>0. TypeOK /\ RowsOwned /\ Working(t)
  BY DEF IInv
<1> SUFFICES ASSUME NEW i \in DOMAIN tokens'
             PROVE  /\ tokens'[i].user \in DOMAIN users'
                    /\ users'[tokens'[i].user].email = tokens'[i].value.sub
                    /\ Access(tokens'[i].value)
  BY DEF RowsOwned, Access
<1>1. CASE i \in DOMAIN tokens
  BY <1>0, <1>1, RowsKept, UsersKept DEF RowsOwned
<1>2. CASE i \notin DOMAIN tokens
  <2>1. Stores(t) /\ tokens'[i] = Token(jwt[t], user[t])
    BY <1>0, <1>2, RowsKept
  <2>2. /\ user[t] \in DOMAIN users /\ users[user[t]].email = jwt[t].sub
        /\ Access(jwt[t])
    BY <1>0, <2>1 DEF Stores, Working, Loaded, Storing
  <2> QED
    BY <1>0, <2>1, <2>2, UsersKept DEF Token
<1> QED
  BY <1>1, <1>2

\* A client is given an access token when its row is stored, never before.
LEMMA KnownStoredStep ==
    ASSUME IInv, NEW t \in Threads, Step(t)
    PROVE  KnownStored'
<1>0. TypeOK /\ KnownStored
  BY DEF IInv
<1> SUFFICES ASSUME NEW v \in known', Access(v)
             PROVE  ByValue(v)' # {}
  BY DEF KnownStored, Access
<1>1. CASE v \in known
  BY <1>0, <1>1, ByValueKept DEF KnownStored
<1>2. CASE v \notin known
  <2>1. Stores(t) /\ v \in {jwt[t], Refresh(jwt[t])}
    BY <1>0, <1>2, StepEffects DEF Stores
  <2>2. Refresh(jwt[t]).exp # Refresh(jwt[t]).iat + AccessTTL
    <3>1. jwt[t].iat \in Nat
      BY <1>0, SMT DEF TypeOK, Tokens
    <3> QED
      BY <3>1, AuthAssumption, SMT DEF Refresh
  <2>3. v = jwt[t]
    BY <2>1, <2>2 DEF Access
  <2> DEFINE new == Token(jwt[t], user[t])
  <2>4. tokens' = Append(tokens, new) /\ new.value = v
    BY <2>1, <2>3 DEF Stores, Token
  <2>5. tokens \in Seq(TokenRow) /\ new \in TokenRow
    BY <1>0, SMT DEF TypeOK, TokenRow, Token, Tokens
  <2> HIDE DEF new
  <2>6. Len(tokens) + 1 \in DOMAIN tokens' /\ tokens'[Len(tokens) + 1] = new
    BY <2>4, <2>5, SMT
  <2> QED
    BY <2>4, <2>6 DEF ByValue
<1> QED
  BY <1>1, <1>2

\* A logout revokes every row of its token, and none is added later.
LEMMA OutRevokedStep ==
    ASSUME IInv, NEW t \in Threads, Step(t)
    PROVE  OutRevoked'
<1>0. TypeOK /\ OutRevoked /\ Working(t)
  BY DEF IInv
<1> SUFFICES ASSUME NEW v \in loggedOut'
             PROVE  ByValue(v)' # {} /\ ByValue(v)' \subseteq revoked'
  BY DEF OutRevoked
<1>1. CASE v \in loggedOut
  <2>1. ByValue(v) # {} /\ ByValue(v) \subseteq revoked /\ revoked \subseteq revoked'
    BY <1>0, <1>1, StepEffects DEF OutRevoked
  <2> QED
    BY <1>0, <2>1, ByValueKept
<1>2. CASE v \notin loggedOut
  <2>1. pc[t] = "logout" /\ revoked' = revoked \cup found[t] /\ v = jwt[t]
    BY <1>0, <1>2, StepEffects
  <2>2. found[t] = ByValue(v) /\ ByValue(v) # {}
    BY <1>0, <2>1 DEF Working
  <2> QED
    BY <1>0, <2>1, <2>2, ByValueKept
<1> QED
  BY <1>1, <1>2

-----------------------------------------------------------------------------
(* The requests. *)

\* What is known of a request survives the steps of the others.
LEMMA WorkingOthers ==
    ASSUME IInv, NEW t \in Threads, Step(t), NEW s \in Threads, s # t
    PROVE  Working(s)'
<1>0. TypeOK /\ KnownStored /\ Working(s) /\ Working(t)
  BY DEF IInv
<1>1. /\ pc'[s] = pc[s] /\ req'[s] = req[s] /\ jwt'[s] = jwt[s] /\ user'[s] = user[s]
      /\ found'[s] = found[s] /\ mark'[s] = mark[s]
  BY <1>0, StepEffects
<1>2. mark'[s] <= Len(tokens') /\ found'[s] \subseteq DOMAIN tokens'
  <2>1. mark[s] \in Nat /\ Len(tokens) \in Nat /\ mark[s] <= Len(tokens)
    BY <1>0, SMT DEF TypeOK, Working
  <2> QED
    BY <1>0, <1>1, <2>1, RowsKept, SMT DEF Working
<1>3. pc'[s] \in Loaded => user'[s] \in DOMAIN users'
  BY <1>0, <1>1, UsersKept DEF Working
<1>4. pc'[s] \in Storing \cup {"generate"} => users'[user'[s]].email = req'[s].email
  BY <1>0, <1>1, UsersKept DEF Working, Loaded
<1>5. /\ pc'[s] \in Storing => jwt'[s].sub = req'[s].email /\ Access(jwt'[s])
      /\ pc'[s] \in {"filter", "lookup"} => jwt'[s] \in known' /\ jwt'[s].sub = req'[s].email
  <2>1. known \subseteq known'
    BY <1>0, StepEffects DEF Stores
  <2> QED
    BY <1>0, <1>1, <2>1 DEF Working
<1>6. ASSUME pc[s] = "lookup", NEW v, v = jwt[s], NEW i \in ByValue(v)'
      PROVE  tokens'[i].user = user[s]
  <2>1. i \in DOMAIN tokens' /\ tokens'[i].value = v
    BY <1>6 DEF ByValue
  <2>2. CASE i \in DOMAIN tokens
    BY <1>0, <1>6, <2>1, <2>2, RowsKept DEF Working, ByValue
  <2>3. CASE i \notin DOMAIN tokens
    <3>1. Stores(t) /\ tokens'[i] = Token(jwt[t], user[t])
      BY <1>0, <2>1, <2>3, RowsKept
    <3>2. v = jwt[t] /\ ByValue(v) = {} /\ pc[t] = "save_token"
      BY <2>1, <3>1 DEF Token, Stores
    <3>3. Access(v) /\ v \in known
      BY <1>0, <1>6, <3>2 DEF Working, Storing
    <3> QED
      BY <1>0, <3>2, <3>3 DEF KnownStored
  <2> QED
    BY <2>2, <2>3
<1>7. ASSUME pc[s] = "logout", NEW v, v = jwt[s]
      PROVE  found[s] = ByValue(v)' /\ found[s] # {}
  BY <1>0, <1>7, ByValueKept DEF Working
<1>8. ASSUME NEW u, u = user[s], NEW i \in Valid(u)'
      PROVE  i \in Valid(u) \/ i > mark[s]
  <2>1. mark[s] \in Nat /\ Len(tokens) \in Nat /\ mark[s] <= Len(tokens)
    BY <1>0, SMT DEF TypeOK, Working
  <2>2. i \in Valid(u) \/ i = Len(tokens) + 1
    BY <1>0, <1>8, ValidAfter
  <2> QED
    BY <2>1, <2>2, SMT
<1>9. /\ pc[s] = "revoke" => \A i \in Valid(user[s])' : i > mark[s] \/ i \in found[s]
      /\ pc[s] = "save_token" /\ req[s].op # "register" =>
            \A i \in Valid(user[s])' : i > mark[s]
  <2> SUFFICES ASSUME NEW u, u = user[s]
               PROVE  /\ pc[s] = "revoke" => \A i \in Valid(u)' : i > mark[s] \/ i \in found[s]
                      /\ pc[s] = "save_token" /\ req[s].op # "register" =>
                            \A i \in Valid(u)' : i > mark[s]
    BY <1>1 DEF Valid
  <2> QED
    BY <1>0, <1>8 DEF Working
<1> QED
  BY <1>1, <1>2, <1>3, <1>4, <1>5, <1>6, <1>7, <1>9 DEF Working, ByValue, Valid, Access

\* A request that has ended leaves nothing to know.
LEMMA EndWorking ==
    ASSUME IInv, NEW t \in Threads, Step(t), NEW from, End(t, from)
    PROVE  Working(t)'
<1>1. TypeOK
  BY DEF IInv
<1>2. pc'[t] = "idle" /\ found'[t] = {} /\ mark'[t] = 0
  BY <1>1, SMT DEF TypeOK, End, Go
<1>3. 0 <= Len(tokens')
  BY <1>1, RowsKept, SMT
<1> QED
  BY <1>2, <1>3, Zenon DEF Working, Loaded, Storing

\* A request that begins knows its token, if it presents one.
LEMMA BeginWorking ==
    ASSUME IInv, NEW t \in Threads, Step(t), NEW r, NEW v,
           NEW first \in {"check", "verify", "load", "find", "filter"},
           Begin(t, first, r, v), first = "filter" => v \in known /\ v.sub = r.email
    PROVE  Working(t)'
<1>1. TypeOK /\ Working(t)
  BY DEF IInv
<1>2. /\ pc'[t] = first /\ req'[t] = r /\ jwt'[t] = v /\ found'[t] = found[t]
      /\ mark'[t] = Len(tokens) /\ tokens' = tokens /\ known' = known
  BY <1>1, SMT DEF TypeOK, Begin, Go, tables
<1>3. Len(tokens) \in Nat /\ found[t] \subseteq DOMAIN tokens
  BY <1>1, SMT DEF TypeOK, Working
<1>4. mark'[t] <= Len(tokens') /\ found'[t] \subseteq DOMAIN tokens'
  BY <1>2, <1>3, SMT
<1> QED
  BY <1>2, <1>4, Zenon DEF Working, Loaded, Storing

\* The user a query by e-mail returns owns every row of a token with that subject.
LEMMA OwnerFound ==
    ASSUME RowsOwned, NEW v, NEW i, OnlyUser(i, v.sub)
    PROVE  /\ i \in DOMAIN users /\ users[i].email = v.sub
           /\ \A j \in ByValue(v) : tokens[j].user = i
BY DEF RowsOwned, OnlyUser, ByEmail, ByValue

\* What is known of a request still holds after its own step.
LEMMA WorkingMine ==
    ASSUME IInv, NEW t \in Threads, Step(t)
    PROVE  Working(t)'
<1>0. TypeOK /\ RowsOwned /\ Working(t)
  BY DEF IInv
<1>a. /\ mark[t] \in Nat /\ Len(tokens) \in Nat /\ mark[t] <= Len(tokens)
      /\ found[t] \subseteq DOMAIN tokens
  BY <1>0, SMT DEF TypeOK, Working
<1>b. mark[t] <= Len(tokens') /\ found[t] \subseteq DOMAIN tokens'
  BY <1>0, <1>a, RowsKept, SMT
<1>1. CASE SendRegister(t)
  BY <1>1, BeginWorking, Zenon DEF SendRegister
<1>2. CASE SendAuthenticate(t)
  BY <1>2, BeginWorking, Zenon DEF SendAuthenticate
<1>3. CASE SendRefresh(t)
  BY <1>3, BeginWorking, Zenon DEF SendRefresh
<1>4. CASE SendLogout(t)
  BY <1>4, BeginWorking, Zenon DEF SendLogout
<1>5. CASE SendCall(t)
  <2>1. \A v : /\ Request("call", v.sub, AdminPassword, AdminPassword).email = v.sub
               /\ \A p, q : Request("change", v.sub, p, q).email = v.sub
    BY DEF Request
  <2>2. PICK v \in known :
           \/ Begin(t, "filter", Request("call", v.sub, AdminPassword, AdminPassword), v)
           \/ \E p, q \in Passwords : Begin(t, "filter", Request("change", v.sub, p, q), v)
    BY <1>5 DEF SendCall
  <2> QED
    BY <2>1, <2>2, BeginWorking, Zenon
<1>6. CASE RegisterCheck(t)
  <2>1. CASE End(t, "check")
    BY <2>1, EndWorking
  <2>2. CASE Go(t, "check", "save_user") /\ UNCHANGED <<req, locals>>
    <3>1. pc'[t] = "save_user" /\ mark'[t] = mark[t] /\ found'[t] = found[t]
      BY <1>0, <2>2, SMT DEF TypeOK, Go, locals
    <3> QED
      BY <1>b, <3>1, Zenon DEF Working, Loaded, Storing
  <2> QED
    BY <1>6, <2>1, <2>2 DEF RegisterCheck
<1>7. CASE RegisterSave(t)
  <2> DEFINE row == [email |-> req[t].email, password |-> req[t].password, role |-> "USER"]
  <2>1. /\ pc'[t] = "generate" /\ mark'[t] = mark[t] /\ found'[t] = found[t]
        /\ req'[t] = req[t] /\ user'[t] = Len(users) + 1
    BY <1>0, <1>7, SMT DEF TypeOK, RegisterSave, Go
  <2>2. users \in Seq(UserRow) /\ row \in UserRow /\ row.email = req[t].email
    BY <1>0, SMT DEF TypeOK, UserRow, Requests
  <2> HIDE DEF row
  <2>3. users' = Append(users, row)
    BY <1>7 DEF RegisterSave, Insert, row
  <2>4. Len(users) + 1 \in DOMAIN users' /\ users'[Len(users) + 1] = row
    BY <2>2, <2>3, SMT
  <2> QED
    BY <1>b, <2>1, <2>2, <2>4, Zenon DEF Working, Loaded, Storing
<1>8. CASE Verify(t)
  <2>1. CASE End(t, "verify")
    BY <2>1, EndWorking
  <2>2. CASE Go(t, "verify", "load") /\ UNCHANGED <<req, locals>>
    <3>1. pc'[t] = "load" /\ mark'[t] = mark[t] /\ found'[t] = found[t]
      BY <1>0, <2>2, SMT DEF TypeOK, Go, locals
    <3> QED
      BY <1>b, <3>1, Zenon DEF Working, Loaded, Storing
  <2> QED
    BY <1>8, <2>1, <2>2 DEF Verify
<1>9. CASE Load(t)
  <2>1. CASE End(t, "load")
    BY <2>1, EndWorking
  <2>2. CASE ~End(t, "load")
    <3>1. PICK i : /\ OnlyUser(i, req[t].email) /\ user' = [user EXCEPT ![t] = i]
                   /\ Go(t, "load", "generate") /\ UNCHANGED <<req, found, mark, users>>
      BY <1>9, <2>2 DEF Load, tables
    <3>2. /\ pc'[t] = "generate" /\ mark'[t] = mark[t] /\ found'[t] = found[t]
          /\ req'[t] = req[t] /\ user'[t] = i /\ users' = users
      BY <1>0, <3>1, SMT DEF TypeOK, Go
    <3>3. i \in DOMAIN users /\ users[i].email = req[t].email
      BY <3>1 DEF OnlyUser, ByEmail
    <3> QED
      BY <1>b, <3>2, <3>3, Zenon DEF Working, Loaded, Storing
  <2> QED
    BY <2>1, <2>2
<1>10. CASE Generate(t)
  <2> DEFINE next == IF req[t].op = "register" THEN "save_token" ELSE "find_valid"
  <2>1. /\ pc[t] = "generate" /\ pc'[t] = next /\ mark'[t] = mark[t] /\ found'[t] = found[t]
        /\ req'[t] = req[t] /\ user'[t] = user[t] /\ users' = users
        /\ jwt'[t] = Jwt(req[t].email, AccessTTL)
    BY <1>0, <1>10, SMT DEF TypeOK, Generate, GenerateThen, Go, tables
  <2>2. user[t] \in DOMAIN users /\ users[user[t]].email = req[t].email
    BY <1>0, <2>1 DEF Working, Loaded, Storing
  <2>3. jwt'[t].sub = req[t].email /\ jwt'[t].exp = jwt'[t].iat + AccessTTL
    BY <2>1 DEF Jwt
  <2>4. next \in {"save_token", "find_valid"} /\ (next = "save_token" => req[t].op = "register")
    OBVIOUS
  <2> HIDE DEF next
  <2> QED
    BY <1>b, <2>1, <2>2, <2>3, <2>4, Zenon DEF Working, Loaded, Storing, Access
<1>11. CASE FindValid(t)
  <2> DEFINE next == IF Valid(user[t]) = {} THEN "save_token" ELSE "revoke"
  <2>1. /\ pc[t] = "find_valid" /\ pc'[t] = next /\ mark'[t] = mark[t]
        /\ found'[t] = Valid(user[t]) /\ req'[t] = req[t] /\ user'[t] = user[t]
        /\ jwt'[t] = jwt[t] /\ users' = users /\ tokens' = tokens /\ revoked' = revoked
    BY <1>0, <1>11, SMT DEF TypeOK, FindValid, Go, tables
  <2>2. /\ user[t] \in DOMAIN users /\ users[user[t]].email = req[t].email
        /\ jwt[t].sub = req[t].email /\ Access(jwt[t])
    BY <1>0, <2>1 DEF Working, Loaded, Storing
  <2>3. next \in {"save_token", "revoke"} /\ (next = "save_token" => Valid(user[t]) = {})
    OBVIOUS
  <2> HIDE DEF next
  <2>4. Valid(user[t])' = Valid(user[t]) /\ Valid(user[t]) \subseteq DOMAIN tokens
    BY <2>1 DEF Valid
  <2>5. Access(jwt[t])' /\ found'[t] \subseteq DOMAIN tokens'
    BY <2>1, <2>2, <2>4 DEF Access
  <2> QED
    BY <1>b, <2>1, <2>2, <2>3, <2>4, <2>5, Zenon DEF Working, Loaded, Storing
<1>12. CASE Revoke(t)
  <2>1. /\ pc[t] = "revoke" /\ pc'[t] = "save_token" /\ mark'[t] = mark[t]
        /\ found'[t] = found[t] /\ req'[t] = req[t] /\ user'[t] = user[t]
        /\ jwt'[t] = jwt[t] /\ users' = users /\ tokens' = tokens
        /\ revoked' = revoked \cup found[t]
    BY <1>0, <1>12, SMT DEF TypeOK, Revoke, Go, locals
  <2>2. /\ user[t] \in DOMAIN users /\ users[user[t]].email = req[t].email
        /\ jwt[t].sub = req[t].email /\ Access(jwt[t])
        /\ \A i \in Valid(user[t]) : i > mark[t] \/ i \in found[t]
    BY <1>0, <2>1 DEF Working, Loaded, Storing
  <2>3. Valid(user[t])' = Valid(user[t]) \ found[t]
    BY <2>1 DEF Valid
  <2>4. Access(jwt[t])'
    BY <2>1, <2>2 DEF Access
  <2> QED
    BY <1>b, <2>1, <2>2, <2>3, <2>4, Zenon DEF Working, Loaded, Storing
<1>13. CASE SaveToken(t)
  BY <1>13, EndWorking DEF SaveToken
<1>14. CASE LogoutFind(t)
  <2>1. CASE End(t, "find")
    BY <2>1, EndWorking
  <2>2. CASE ~End(t, "find")
    <3>1. /\ pc'[t] = "logout" /\ mark'[t] = mark[t] /\ found'[t] = ByValue(jwt[t])
          /\ jwt'[t] = jwt[t] /\ tokens' = tokens /\ ByValue(jwt[t]) # {}
      BY <1>0, <1>14, <2>2, SMT DEF TypeOK, LogoutFind, Go, tables
    <3>2. ByValue(jwt[t])' = ByValue(jwt[t]) /\ ByValue(jwt[t]) \subseteq DOMAIN tokens
      BY <3>1 DEF ByValue
    <3> QED
      BY <1>b, <3>1, <3>2, Zenon DEF Working, Loaded, Storing
  <2> QED
    BY <2>1, <2>2
<1>15. CASE LogoutSave(t)
  BY <1>15, EndWorking DEF LogoutSave
<1>16. CASE FilterLoad(t)
  <2>1. CASE End(t, "filter")
    BY <2>1, EndWorking
  <2>2. CASE ~End(t, "filter")
    <3>1. PICK i : /\ OnlyUser(i, req[t].email) /\ user' = [user EXCEPT ![t] = i]
                   /\ Go(t, "filter", "lookup")
                   /\ UNCHANGED <<req, jwt, found, mark, users, tokens, known>>
      BY <1>16, <2>2 DEF FilterLoad, tables
    <3>2. /\ pc[t] = "filter" /\ pc'[t] = "lookup" /\ mark'[t] = mark[t] /\ found'[t] = found[t]
          /\ req'[t] = req[t] /\ user'[t] = i /\ jwt'[t] = jwt[t]
          /\ users' = users /\ tokens' = tokens /\ known' = known
      BY <1>0, <3>1, SMT DEF TypeOK, Go
    <3>3. jwt[t] \in known /\ jwt[t].sub = req[t].email
      BY <1>0, <3>2 DEF Working
    <3>4. i \in DOMAIN users /\ \A j \in ByValue(jwt[t]) : tokens[j].user = i
      BY <1>0, <3>1, <3>3, OwnerFound
    <3>5. ByValue(jwt[t])' = ByValue(jwt[t])
      BY <3>2 DEF ByValue
    <3> QED
      BY <1>b, <3>2, <3>3, <3>4, <3>5, Zenon DEF Working, Loaded, Storing
  <2> QED
    BY <2>1, <2>2
<1>17. CASE FilterLookup(t)
  <2>1. CASE End(t, "lookup")
    BY <2>1, EndWorking
  <2>2. CASE ~End(t, "lookup")
    <3>1. /\ pc[t] = "lookup" /\ pc'[t] \in {"served", "change"} /\ mark'[t] = mark[t]
          /\ found'[t] = found[t] /\ user'[t] = user[t] /\ users' = users
      BY <1>0, <1>17, <2>2, SMT DEF TypeOK, FilterLookup, Go, tables, locals
    <3>2. user[t] \in DOMAIN users
      BY <1>0, <3>1 DEF Working, Loaded
    <3> QED
      BY <1>b, <3>1, <3>2, Zenon DEF Working, Loaded, Storing
  <2> QED
    BY <2>1, <2>2
<1>18. CASE Serve(t)
  BY <1>18, EndWorking DEF Serve
<1>19. CASE ChangePassword(t)
  BY <1>19, EndWorking DEF ChangePassword
<1> QED
  BY <1>1, <1>2, <1>3, <1>4, <1>5, <1>6, <1>7, <1>8, <1>9, <1>10, <1>11, <1>12, <1>13,
     <1>14, <1>15, <1>16, <1>17, <1>18, <1>19 DEF Step

-----------------------------------------------------------------------------
(* The invariant. *)

\* Nothing is stored or known at first.
LEMMA IInvInit == Init => IInv
<1> SUFFICES ASSUME Init PROVE IInv
  OBVIOUS
<1>1. TypeOK
  <2>1. users \in Seq([email : Emails, password : Passwords, role : {"USER", "ADMIN"}])
    BY AuthAssumption, SMT DEF Init
  <2>2. clock \in Nat /\ tokens = << >> /\ DOMAIN tokens = {} /\ revoked = {}
    BY SMT DEF Init
  <2>3. tokens \in Seq([value : Tokens, user : Nat])
    BY <2>2, SMT
  <2>4. LocalsTyped
    BY AuthAssumption, Defaults, SMT DEF Init, LocalsTyped, Stages
  <2>5. known \subseteq Tokens /\ loggedOut \subseteq Tokens
    BY DEF Init
  <2> QED
    BY <2>1, <2>2, <2>3, <2>4, <2>5 DEF TypeOK, LocalsTyped
<1>2. tokens = << >> /\ DOMAIN tokens = {} /\ Len(tokens) = 0 /\ known = {} /\ loggedOut = {}
  BY SMT DEF Init
<1>3. ASSUME NEW s \in Threads PROVE Working(s)
  <2>1. pc[s] = "idle" /\ found[s] = {} /\ mark[s] = 0
    BY <1>3, SMT DEF Init
  <2>2. 0 <= Len(tokens)
    BY <1>2, SMT
  <2> QED
    BY <2>1, <2>2, Zenon DEF Working, Loaded, Storing
<1> QED
  BY <1>1, <1>2, <1>3 DEF IInv, RowsOwned, KnownStored, OutRevoked

\* Time only lets tokens expire.
LEMMA IInvTick ==
    ASSUME IInv, Tick \/ UNCHANGED vars
    PROVE  IInv'
<1>1. UNCHANGED <<users, tokens, revoked, known, pc, req, jwt, user, seen, found, mark, loggedOut>>
  BY DEF Tick, vars, tables, locals
<1>2. clock' \in Nat
  BY SMT DEF IInv, TypeOK, Tick, vars
<1>3. TypeOK'
  BY <1>1, <1>2 DEF IInv, TypeOK
<1>4. RowsOwned' /\ KnownStored' /\ OutRevoked'
  BY <1>1 DEF IInv, RowsOwned, KnownStored, OutRevoked, ByValue, Access
<1>5. ASSUME NEW s \in Threads PROVE Working(s)'
  BY <1>1 DEF IInv, Working, ByValue, Valid, Access
<1> QED
  BY <1>3, <1>4, <1>5 DEF IInv

\* Every step of every request keeps the invariant.
LEMMA IInvStep ==
    ASSUME IInv, [Next]_vars
    PROVE  IInv'
<1>1. CASE Tick \/ UNCHANGED vars
  BY <1>1, IInvTick
<1>2. ASSUME NEW t \in Threads, Step(t) PROVE IInv'
  <2>1. ASSUME NEW s \in Threads PROVE Working(s)'
    BY <1>2, <2>1, WorkingMine, WorkingOthers
  <2> QED
    BY <1>2, <2>1, TypeStep, RowsOwnedStep, KnownStoredStep, OutRevokedStep DEF IInv
<1> QED
  BY <1>1, <1>2 DEF Next

\* The invariant holds in every state, for any threads and any interleaving.
THEOREM Invariance == Spec => []IInv
BY IInvInit, IInvStep, PTL DEF Spec

\* Every variable keeps its type, and foreign keys point to rows.
THEOREM TypeCorrect == Spec => []TypeOK
BY Invariance, PTL DEF IInv

-----------------------------------------------------------------------------
(* What the filter and the login promise. *)

\* Whatever the filter lets through passed both of its checks.
LEMMA AdmitsAccepted ==
    ASSUME TypeOK, NEW t \in Threads, [Next]_vars, Admits(t)
    PROVE  Accepted(t)
<1>1. pc'[t] # pc[t]
  BY DEF Admits
<1>2. PICK s \in Threads : Step(s)
  BY <1>1 DEF Next, Tick, vars
<1>3. s = t
  BY <1>1, <1>2, StepEffects
<1> USE <1>2, <1>3
<1>4. CASE FilterLookup(t)
  <2>1. ~End(t, "lookup")
    BY SMT DEF TypeOK, End, Go, Admits
  <2> QED
    BY <1>4, <2>1 DEF FilterLookup
<1>5. CASE ~FilterLookup(t)
  <2>1. pc[t] = "lookup" /\ Step(t)
    BY DEF Admits
  <2> QED
    BY <2>1, <1>5, SMT DEF Step, SendRegister, SendAuthenticate, SendRefresh, SendLogout,
          SendCall, Begin, RegisterCheck, RegisterSave, Verify, Load, Generate, GenerateThen,
          FindValid, Revoke, SaveToken, LogoutFind, LogoutSave, FilterLoad, Serve,
          ChangePassword, Go, End
<1> QED
  BY <1>4, <1>5

\* A token whose logout committed is never let through again, whatever logs in,
\* refreshes, registers or logs out at the same time.
THEOREM LogoutEffective == Spec => LoggedOutStaysOut
<1>1. ASSUME IInv, [Next]_vars, NEW t \in Threads, Admits(t)
      PROVE  jwt[t] \notin loggedOut
  BY <1>1, AdmitsAccepted DEF IInv, OutRevoked, Accepted
<1>2. IInv /\ [Next]_vars => [\A t \in Threads : Admits(t) => jwt[t] \notin loggedOut]_vars
  BY <1>1
<1> QED
  BY <1>2, Invariance, PTL DEF Spec, LoggedOutStaysOut

\* A request is let through as the owner of a stored access token in its time.
THEOREM OwnerAdmitted == Spec => AdmitsOwner
<1> DEFINE Owned(t) == /\ \E i \in ByValue(jwt[t]) : tokens[i].user = user[t]
                       /\ jwt[t].exp = jwt[t].iat + AccessTTL
                       /\ clock < jwt[t].exp
<1>1. ASSUME IInv, [Next]_vars, NEW t \in Threads, Admits(t)
      PROVE  Owned(t)
  <2>1. TypeOK /\ RowsOwned /\ Working(t) /\ pc[t] = "lookup"
    BY <1>1 DEF IInv, Admits
  <2>2. Accepted(t)
    BY <1>1, <2>1, AdmitsAccepted
  <2>3. PICK i \in ByValue(jwt[t]) : tokens[i].user = user[t]
    BY <2>1, <2>2 DEF Working, Accepted
  <2>4. Access(jwt[t])
    BY <2>1, <2>3 DEF RowsOwned, ByValue
  <2>5. clock \in Nat /\ jwt[t].exp \in Nat /\ ~(clock >= jwt[t].exp)
    BY <2>1, <2>2, SMT DEF TypeOK, Tokens, Accepted, Expired
  <2>6. clock < jwt[t].exp
    BY <2>5, SMT
  <2> QED
    BY <2>3, <2>4, <2>6 DEF Access
<1>2. IInv /\ [Next]_vars => [\A t \in Threads : Admits(t) => Owned(t)]_vars
  BY <1>1
<1> QED
  BY <1>2, Invariance, PTL DEF Spec, AdmitsOwner

\* When a login or a refresh stores its token, the other tokens of the user that
\* are still valid were stored while it ran.
THEOREM LoginEnds == Spec => LoginEndsOthers
<1> DEFINE Ends(t) == /\ pc[t] = "save_token" /\ req[t].op # "register"
                      /\ pc'[t] # pc[t] /\ Len(tokens') > Len(tokens)
<1>1. ASSUME IInv, NEW t \in Threads, Ends(t)
      PROVE  \A i \in Valid(user[t]) : i > mark[t]
  BY <1>1, Zenon DEF IInv, Working
<1>2. IInv /\ [Next]_vars =>
         [\A t \in Threads : Ends(t) => \A i \in Valid(user[t]) : i > mark[t]]_vars
  BY <1>1
<1> QED
  BY <1>2, Invariance, PTL DEF Spec, LoginEndsOthers

-----------------------------------------------------------------------------
(* No two requests issue tokens of one user at a time. *)

\* A request that has begun to issue a token knows which valid ones its user has:
\* a user it has inserted has none, and none is left when those found are revoked.
Serial(s) ==
    /\ pc[s] \in {"verify", "load"} => req[s].op # "register"
    /\ pc[s] = "generate" /\ req[s].op = "register" => Valid(user[s]) = {}
    /\ pc[s] = "revoke" => Valid(user[s]) \subseteq found[s]
    /\ pc[s] = "save_token" => Valid(user[s]) = {}

OneEach == \A u : \A i, j \in Valid(u) : i = j

SInv == OneEach /\ \A s \in Threads : Serial(s)

\* A token becomes valid by being stored, for the user of the request that stores it.
LEMMA ValidStored ==
    ASSUME TypeOK, NEW t \in Threads, Step(t), NEW u, NEW k \in Valid(u)'
    PROVE  k \in Valid(u) \/ (Stores(t) /\ k = Len(tokens) + 1 /\ u = user[t])
<1>1. SUFFICES ASSUME k \notin Valid(u)
               PROVE Stores(t) /\ k = Len(tokens) + 1 /\ u = user[t]
  OBVIOUS
<1>2. revoked \subseteq revoked' /\ k \in DOMAIN tokens' /\ tokens'[k].user = u /\ k \notin revoked'
  BY StepEffects DEF Valid
<1>3. k \notin DOMAIN tokens
  <2>1. SUFFICES ASSUME k \in DOMAIN tokens PROVE FALSE
    OBVIOUS
  <2>2. tokens'[k] = tokens[k]
    BY <2>1, RowsKept
  <2> QED
    BY <1>1, <1>2, <2>1, <2>2 DEF Valid
<1>4. Stores(t) /\ k = Len(tokens) + 1 /\ tokens'[k] = Token(jwt[t], user[t])
  BY <1>2, <1>3, RowsKept
<1> QED
  BY <1>2, <1>4 DEF Token

\* A user that gets a token has no other; the others get none.
LEMMA OneEachStep ==
    ASSUME IInv, SInv, NEW t \in Threads, Step(t)
    PROVE  OneEach'
<1>0. TypeOK
  BY DEF IInv
<1>1. SUFFICES ASSUME NEW u, NEW i \in Valid(u)', NEW j \in Valid(u)' PROVE i = j
  BY DEF OneEach
<1>2. i \in Valid(u) /\ j \in Valid(u) => i = j
  BY DEF SInv, OneEach
<1>3. Stores(t) /\ u = user[t] => Valid(u) = {}
  BY DEF SInv, Serial, Stores
<1>4. /\ i \in Valid(u) \/ (Stores(t) /\ i = Len(tokens) + 1 /\ u = user[t])
      /\ j \in Valid(u) \/ (Stores(t) /\ j = Len(tokens) + 1 /\ u = user[t])
  BY <1>0, ValidStored
<1> QED
  BY <1>2, <1>3, <1>4

\* No other request stores a token for a user one is being issued for.
LEMMA SerialOthers ==
    ASSUME IInv, SInv, Exclusive, NEW t \in Threads, Step(t), NEW s \in Threads \ {t}
    PROVE  Serial(s)'
<1>0. TypeOK /\ Serial(s)
  BY DEF IInv, SInv
<1>1. /\ pc'[s] = pc[s] /\ req'[s] = req[s] /\ user'[s] = user[s] /\ found'[s] = found[s]
  BY <1>0, StepEffects
<1>2. SUFFICES ASSUME NEW u, u = user[s], Issuing(s) PROVE Valid(u)' \subseteq Valid(u)
  <2>1. PICK u : u = user[s]
    OBVIOUS
  <2>2. Issuing(s) => Valid(u)' \subseteq Valid(u)
    BY <1>2, <2>1
  <2>3. Valid(user[s])' = Valid(u)'
    BY <1>1, <2>1 DEF Valid
  <2> QED
    BY <1>0, <1>1, <2>1, <2>2, <2>3 DEF Serial, Issuing
<1>3. ~(Stores(t) /\ u = user[t])
  BY <1>2 DEF Exclusive, Issuing, Stores
<1> QED
  BY <1>0, <1>3, ValidStored

\* A request that has ended, or begins, issues nothing yet.
LEMMA SerialEnd ==
    ASSUME TypeOK, NEW t \in Threads, NEW from, End(t, from)
    PROVE  Serial(t)'
<1>1. pc'[t] = "idle"
  BY SMT DEF TypeOK, End, Go
<1> QED
  BY <1>1, Zenon DEF Serial

LEMMA SerialBegin ==
    ASSUME TypeOK, NEW t \in Threads, NEW first \in {"check", "verify", "load", "find", "filter"},
           NEW r, NEW v, Begin(t, first, r, v), first \in {"verify", "load"} => r.op # "register"
    PROVE  Serial(t)'
<1>1. pc'[t] = first /\ req'[t] = r
  BY SMT DEF TypeOK, Begin, Go
<1> QED
  BY <1>1, Zenon DEF Serial

LEMMA SerialMine ==
    ASSUME IInv, SInv, NEW t \in Threads, Step(t)
    PROVE  Serial(t)'
<1>0. TypeOK /\ Serial(t)
  BY DEF IInv, SInv
<1> DEFINE Same == tokens' = tokens /\ revoked' = revoked /\ req'[t] = req[t]
<1>1. CASE SendRegister(t)
  BY <1>0, <1>1, SerialBegin DEF SendRegister
<1>2. CASE SendAuthenticate(t)
  <2>1. \A e, p : Request("authenticate", e, p, AdminPassword).op # "register"
    BY DEF Request
  <2> QED
    BY <1>0, <1>2, <2>1, SerialBegin DEF SendAuthenticate
<1>3. CASE SendRefresh(t)
  <2>1. \A e : Request("refresh", e, AdminPassword, AdminPassword).op # "register"
    BY DEF Request
  <2> QED
    BY <1>0, <1>3, <2>1, SerialBegin DEF SendRefresh
<1>4. CASE SendLogout(t)
  BY <1>0, <1>4, SerialBegin DEF SendLogout
<1>5. CASE SendCall(t)
  <2>1. PICK r, v : Begin(t, "filter", r, v)
    BY <1>5, Zenon DEF SendCall
  <2> QED
    BY <1>0, <2>1, SerialBegin
<1>6. CASE RegisterCheck(t)
  <2>1. CASE End(t, "check")
    BY <1>0, <2>1, SerialEnd
  <2>2. CASE ~End(t, "check")
    <3>1. pc[t] = "check" /\ pc'[t] = "save_user" /\ Same
      BY <1>0, <1>6, <2>2, SMT DEF TypeOK, RegisterCheck, Go, locals, tables
    <3> QED
      BY <1>0, <3>1, Zenon DEF Serial
  <2> QED
    BY <2>1, <2>2
<1>7. CASE RegisterSave(t)
  <2>1. /\ pc[t] = "save_user" /\ pc'[t] = "generate" /\ Same /\ user'[t] = Len(users) + 1
    BY <1>0, <1>7, SMT DEF TypeOK, RegisterSave, Go
  <2>2. Valid(user[t])' = {}
    <3>1. users \in Seq(UserRow)
      BY <1>0 DEF TypeOK, UserRow
    <3>2. Len(users) + 1 \notin DOMAIN users
      BY <3>1, SMT
    <3>3. \A i \in DOMAIN tokens : tokens[i].user \in DOMAIN users
      BY <1>0 DEF TypeOK
    <3>4. \A i \in DOMAIN tokens : tokens[i].user # Len(users) + 1
      BY <3>2, <3>3
    <3> QED
      BY <2>1, <3>4, SMT DEF Valid
  <2> QED
    BY <1>0, <2>1, <2>2, Zenon DEF Serial
<1>8. CASE Verify(t)
  <2>1. CASE End(t, "verify")
    BY <1>0, <2>1, SerialEnd
  <2>2. CASE ~End(t, "verify")
    <3>1. pc[t] = "verify" /\ pc'[t] = "load" /\ Same
      BY <1>0, <1>8, <2>2, SMT DEF TypeOK, Verify, Go, locals, tables
    <3> QED
      BY <1>0, <3>1, Zenon DEF Serial
  <2> QED
    BY <2>1, <2>2
<1>9. CASE Load(t)
  <2>1. CASE End(t, "load")
    BY <1>0, <2>1, SerialEnd
  <2>2. CASE ~End(t, "load")
    <3>1. pc[t] = "load" /\ pc'[t] = "generate" /\ Same
      BY <1>0, <1>9, <2>2, SMT DEF TypeOK, Load, Go, tables
    <3> QED
      BY <1>0, <3>1, Zenon DEF Serial
  <2> QED
    BY <2>1, <2>2
<1>10. CASE Generate(t)
  <2> DEFINE next == IF req[t].op = "register" THEN "save_token" ELSE "find_valid"
  <2>1. pc[t] = "generate" /\ pc'[t] = next /\ Same /\ user'[t] = user[t]
    BY <1>0, <1>10, SMT DEF TypeOK, Generate, GenerateThen, Go, tables
  <2>2. next \in {"save_token", "find_valid"} /\ (next = "save_token" => req[t].op = "register")
    OBVIOUS
  <2>3. Valid(user[t])' = Valid(user[t])
    BY <2>1, SMT DEF Valid
  <2> HIDE DEF next
  <2> QED
    BY <1>0, <2>1, <2>2, <2>3, Zenon DEF Serial
<1>11. CASE FindValid(t)
  <2> DEFINE next == IF Valid(user[t]) = {} THEN "save_token" ELSE "revoke"
  <2>1. /\ pc'[t] = next /\ Same /\ user'[t] = user[t] /\ found'[t] = Valid(user[t])
    BY <1>0, <1>11, SMT DEF TypeOK, FindValid, Go, tables
  <2>2. next \in {"save_token", "revoke"} /\ (next = "save_token" => Valid(user[t]) = {})
    OBVIOUS
  <2>3. Valid(user[t])' = Valid(user[t])
    BY <2>1 DEF Valid
  <2> HIDE DEF next
  <2> QED
    BY <2>1, <2>2, <2>3, Zenon DEF Serial
<1>12. CASE Revoke(t)
  <2>1. /\ pc[t] = "revoke" /\ pc'[t] = "save_token" /\ user'[t] = user[t]
        /\ req'[t] = req[t] /\ tokens' = tokens /\ revoked' = revoked \cup found[t]
    BY <1>0, <1>12, SMT DEF TypeOK, Revoke, Go, locals
  <2>2. Valid(user[t])' = Valid(user[t]) \ found[t]
    BY <2>1 DEF Valid
  <2>3. Valid(user[t])' = {}
    BY <1>0, <2>1, <2>2 DEF Serial
  <2> QED
    BY <2>1, <2>3, Zenon DEF Serial
<1>13. CASE SaveToken(t)
  BY <1>0, <1>13, SerialEnd DEF SaveToken
<1>14. CASE LogoutFind(t)
  <2>1. CASE End(t, "find")
    BY <1>0, <2>1, SerialEnd
  <2>2. CASE ~End(t, "find")
    <3>1. pc[t] = "find" /\ pc'[t] = "logout" /\ Same
      BY <1>0, <1>14, <2>2, SMT DEF TypeOK, LogoutFind, Go, tables
    <3> QED
      BY <1>0, <3>1, Zenon DEF Serial
  <2> QED
    BY <2>1, <2>2
<1>15. CASE LogoutSave(t)
  BY <1>0, <1>15, SerialEnd DEF LogoutSave
<1>16. CASE FilterLoad(t)
  <2>1. CASE End(t, "filter")
    BY <1>0, <2>1, SerialEnd
  <2>2. CASE ~End(t, "filter")
    <3>1. pc[t] = "filter" /\ pc'[t] = "lookup" /\ Same
      BY <1>0, <1>16, <2>2, SMT DEF TypeOK, FilterLoad, Go, tables
    <3> QED
      BY <1>0, <3>1, Zenon DEF Serial
  <2> QED
    BY <2>1, <2>2
<1>17. CASE FilterLookup(t)
  <2>1. CASE End(t, "lookup")
    BY <1>0, <2>1, SerialEnd
  <2>2. CASE ~End(t, "lookup")
    <3>1. pc[t] = "lookup" /\ pc'[t] \in {"served", "change"} /\ Same
      BY <1>0, <1>17, <2>2, SMT DEF TypeOK, FilterLookup, Go, tables, locals
    <3> QED
      BY <1>0, <3>1, Zenon DEF Serial
  <2> QED
    BY <2>1, <2>2
<1>18. CASE Serve(t)
  BY <1>0, <1>18, SerialEnd DEF Serve
<1>19. CASE ChangePassword(t)
  BY <1>0, <1>19, SerialEnd DEF ChangePassword
<1> QED
  BY <1>1, <1>2, <1>3, <1>4, <1>5, <1>6, <1>7, <1>8, <1>9, <1>10, <1>11, <1>12, <1>13,
     <1>14, <1>15, <1>16, <1>17, <1>18, <1>19 DEF Step

\* A step of any request keeps the invariant while none overlaps another of its user.
LEMMA SInvStep == ASSUME Exclusive, IInv, SInv, [Next]_vars PROVE SInv'
<1>1. CASE Tick \/ UNCHANGED vars
  <2>1. UNCHANGED <<tokens, revoked, pc, req, user, found>>
    BY <1>1 DEF Tick, vars, tables, locals
  <2> QED
    BY <2>1 DEF SInv, OneEach, Serial, Valid
<1>2. ASSUME NEW t \in Threads, Step(t) PROVE SInv'
  <2>1. \A s \in Threads : Serial(s)'
    BY <1>2, SerialMine, SerialOthers
  <2> QED
    BY <1>2, <2>1, OneEachStep DEF SInv
<1> QED
  BY <1>1, <1>2 DEF Next

\* The valid tokens of a user stay one, and its requests know of them.
LEMMA SerialAlways == Spec /\ []Exclusive => []SInv
<1>1. Init => SInv
  BY SMT DEF Init, SInv, OneEach, Serial, Valid
<1>2. Exclusive /\ IInv /\ SInv /\ [Next]_vars => SInv'
  BY SInvStep
<1> QED
  BY <1>1, <1>2, Invariance, PTL DEF Spec

\* While no two requests issue tokens of one user at a time, which
\* revokeAllUserTokens takes for granted, a user has at most one valid token,
\* whatever any number of other requests do.
THEOREM OneValid == Spec /\ []Exclusive => []AtMostOneValid
<1>1. SInv => AtMostOneValid
  <2>1. SUFFICES ASSUME SInv, NEW u \in DOMAIN users PROVE Cardinality(Valid(u)) <= 1
    BY DEF AtMostOneValid
  <2>2. CASE Valid(u) = {}
    BY <2>2, FS_EmptySet
  <2>3. CASE Valid(u) # {}
    <3>1. PICK i \in Valid(u) : \A j \in Valid(u) : i = j
      BY <2>1, <2>3, Zenon DEF SInv, OneEach
    <3>2. Cardinality({i}) = 1
      BY FS_Singleton, Zenon
    <3>3. Valid(u) = {i}
      BY <3>1
    <3> QED
      BY <3>2, <3>3, SMT
  <2> QED
    BY <2>2, <2>3
<1> QED
  BY <1>1, SerialAlways, PTL

-----------------------------------------------------------------------------
(* The requests implement sessions. *)

Served == {"served", "change"}

\* Which step leads into and out of the stages that the sessions depend on.
LEMMA Moves ==
    ASSUME TypeOK, NEW t \in Threads, Step(t)
    PROVE  /\ pc'[t] = "revoke" => FindValid(t)
           /\ pc'[t] \in Served => FilterLookup(t) /\ ~End(t, "lookup")
           /\ pc[t] \in Served => Serve(t) \/ ChangePassword(t)
           /\ pc[t] = "save_token" => SaveToken(t)
<1> USE DEF TypeOK, Served, Go, End
<1>1. CASE SendRegister(t)
  BY <1>1, SMT DEF SendRegister, Begin
<1>2. CASE SendAuthenticate(t)
  BY <1>2, SMT DEF SendAuthenticate, Begin
<1>3. CASE SendRefresh(t)
  BY <1>3, SMT DEF SendRefresh, Begin
<1>4. CASE SendLogout(t)
  BY <1>4, SMT DEF SendLogout, Begin
<1>5. CASE SendCall(t)
  BY <1>5, SMT DEF SendCall, Begin
<1>6. CASE RegisterCheck(t)
  BY <1>6, SMT DEF RegisterCheck
<1>7. CASE RegisterSave(t)
  BY <1>7, SMT DEF RegisterSave
<1>8. CASE Verify(t)
  BY <1>8, SMT DEF Verify
<1>9. CASE Load(t)
  BY <1>9, SMT DEF Load
<1>10. CASE Generate(t)
  BY <1>10, SMT DEF Generate, GenerateThen
<1>11. CASE FindValid(t)
  BY <1>11, SMT DEF FindValid
<1>12. CASE Revoke(t)
  BY <1>12, SMT DEF Revoke
<1>13. CASE SaveToken(t)
  BY <1>13, SMT DEF SaveToken
<1>14. CASE LogoutFind(t)
  BY <1>14, SMT DEF LogoutFind
<1>15. CASE LogoutSave(t)
  BY <1>15, SMT DEF LogoutSave
<1>16. CASE FilterLoad(t)
  BY <1>16, SMT DEF FilterLoad
<1>17. CASE FilterLookup(t)
  BY <1>17, SMT DEF FilterLookup
<1>18. CASE Serve(t)
  BY <1>18, SMT DEF Serve
<1>19. CASE ChangePassword(t)
  BY <1>19, SMT DEF ChangePassword
<1> QED
  BY <1>1, <1>2, <1>3, <1>4, <1>5, <1>6, <1>7, <1>8, <1>9, <1>10, <1>11, <1>12, <1>13,
     <1>14, <1>15, <1>16, <1>17, <1>18, <1>19, Zenon DEF Step

\* No value has two rows, and the tokens a login is about to revoke are its user's.
Unique == \A i, j \in DOMAIN tokens : tokens[i].value = tokens[j].value => i = j

FoundMine(s) == pc[s] = "revoke" => \A i \in found[s] : tokens[i].user = user[s]

RInv == Unique /\ \A s \in Threads : FoundMine(s)

\* The unique key lets a value be stored once.
LEMMA UniqueStep ==
    ASSUME TypeOK, Unique, NEW t \in Threads, Step(t)
    PROVE  Unique'
<1> SUFFICES ASSUME NEW i \in DOMAIN tokens', NEW j \in DOMAIN tokens',
                    tokens'[i].value = tokens'[j].value
             PROVE  i = j
  BY DEF Unique
<1>1. ASSUME NEW k \in DOMAIN tokens, NEW n \in DOMAIN tokens' \ DOMAIN tokens
      PROVE  tokens'[k].value # tokens'[n].value
  <2>1. Stores(t) /\ tokens'[n] = Token(jwt[t], user[t]) /\ tokens'[k] = tokens[k]
    BY <1>1, RowsKept
  <2> QED
    BY <1>1, <2>1 DEF Stores, ByValue, Token
<1>2. CASE i \in DOMAIN tokens /\ j \in DOMAIN tokens
  BY <1>2, RowsKept DEF Unique
<1>3. CASE i \notin DOMAIN tokens /\ j \notin DOMAIN tokens
  BY <1>3, RowsKept
<1> QED
  BY <1>1, <1>2, <1>3

\* What a login has found stays its user's.
LEMMA FoundMineStep ==
    ASSUME IInv, NEW t \in Threads, Step(t), NEW s \in Threads, FoundMine(s)
    PROVE  FoundMine(s)'
<1>1. TypeOK /\ found[s] \subseteq DOMAIN tokens
  BY DEF IInv, Working
<1>2. CASE s # t
  <2>1. pc'[s] = pc[s] /\ found'[s] = found[s] /\ user'[s] = user[s]
    BY <1>1, <1>2, StepEffects
  <2> QED
    BY <1>1, <2>1, RowsKept DEF FoundMine
<1>3. CASE s = t
  <2> SUFFICES ASSUME pc'[t] = "revoke" PROVE \A i \in found'[t] : tokens'[i].user = user'[t]
    BY <1>3 DEF FoundMine
  <2>1. FindValid(t)
    BY <1>1, Moves
  <2>2. found'[t] = Valid(user[t]) /\ user'[t] = user[t] /\ tokens' = tokens
    BY <1>1, <2>1, SMT DEF TypeOK, FindValid, tables
  <2> QED
    BY <2>2 DEF Valid
<1> QED
  BY <1>2, <1>3

LEMMA RInvStep ==
    ASSUME IInv, RInv, [Next]_vars
    PROVE  RInv'
<1>1. CASE Tick \/ UNCHANGED vars
  <2>1. UNCHANGED <<tokens, pc, user, found>>
    BY <1>1 DEF Tick, vars, tables, locals
  <2> QED
    BY <2>1 DEF RInv, Unique, FoundMine
<1>2. ASSUME NEW t \in Threads, Step(t) PROVE RInv'
  BY <1>2, UniqueStep, FoundMineStep DEF RInv, IInv
<1> QED
  BY <1>1, <1>2 DEF Next

\* The row a request stores opens a session whose token no other has had.
LEMMA StoreOpens ==
    ASSUME TypeOK, NEW t \in Threads, Step(t), Stores(t),
           NEW s, s = Token(jwt[t], user[t])
    PROVE  /\ \A o \in OpenRows \cup EndedRows : o.value # s.value
           /\ OpenRows' = OpenRows \cup {s} /\ EndedRows' = EndedRows
<1> DEFINE n == Len(tokens) + 1
<1>1. /\ DOMAIN tokens' = DOMAIN tokens \cup {n} /\ n \notin DOMAIN tokens
      /\ tokens'[n] = s /\ \A i \in DOMAIN tokens : tokens'[i] = tokens[i]
  <2>1. tokens \in Seq(TokenRow) /\ s \in TokenRow /\ tokens' = Append(tokens, s)
    BY SMT DEF TypeOK, TokenRow, Token, Tokens, Stores
  <2> QED
    BY <2>1, SMT
<1>2. revoked' = revoked /\ revoked \subseteq DOMAIN tokens
  BY DEF Stores, TypeOK
<1>3. \A i \in DOMAIN tokens : tokens[i].value # s.value
  BY DEF Stores, ByValue, Token
<1> HIDE DEF n
<1> QED
  BY <1>1, <1>2, <1>3, SMT DEF OpenRows, EndedRows, RowsOf

\* Rows that are marked end the sessions of those that were open.
LEMMA RevokeCloses ==
    ASSUME TypeOK, Unique, NEW F \in SUBSET DOMAIN tokens,
           tokens' = tokens, revoked' = revoked \cup F
    PROVE  /\ RowsOf(F \ revoked) \subseteq OpenRows
           /\ OpenRows' = OpenRows \ RowsOf(F \ revoked)
           /\ EndedRows' = EndedRows \cup RowsOf(F \ revoked)
<1>1. revoked \subseteq DOMAIN tokens
  BY DEF TypeOK
<1>2. \A i, j \in DOMAIN tokens : tokens[i] = tokens[j] => i = j
  BY DEF Unique
<1>3. /\ OpenRows' = {tokens[i] : i \in DOMAIN tokens \ (revoked \cup F)}
      /\ EndedRows' = {tokens[i] : i \in revoked \cup F}
  BY DEF OpenRows, EndedRows, RowsOf
<1>4. /\ OpenRows = {tokens[i] : i \in DOMAIN tokens \ revoked}
      /\ EndedRows = {tokens[i] : i \in revoked}
      /\ RowsOf(F \ revoked) = {tokens[i] : i \in F \ revoked}
  BY DEF OpenRows, EndedRows, RowsOf
<1>5. ASSUME NEW o \in OpenRows' PROVE o \in OpenRows \ RowsOf(F \ revoked)
  <2>1. PICK i \in DOMAIN tokens \ (revoked \cup F) : o = tokens[i]
    BY <1>3, <1>5
  <2> QED
    BY <1>2, <1>4, <2>1
<1>6. ASSUME NEW o \in OpenRows \ RowsOf(F \ revoked) PROVE o \in OpenRows'
  <2>1. PICK i \in DOMAIN tokens \ revoked : o = tokens[i]
    BY <1>4, <1>6
  <2> QED
    BY <1>3, <1>4, <1>6, <2>1
<1>7. EndedRows' = EndedRows \cup RowsOf(F \ revoked)
  BY <1>3, <1>4
<1>8. RowsOf(F \ revoked) \subseteq OpenRows
  BY <1>4
<1> QED
  BY <1>5, <1>6, <1>7, <1>8

\* The requests of the other threads are served as before.
LEMMA ServedOthers ==
    ASSUME TypeOK, NEW t \in Threads, Step(t), NEW u, ServedAs[t] = u,
           NEW w, w = IF pc'[t] \in Served THEN user'[t] ELSE 0
    PROVE  ServedAs' = [ServedAs EXCEPT ![t] = w]
<1>1. \A s \in Threads \ {t} : pc'[s] = pc[s] /\ user'[s] = user[s]
  BY StepEffects
<1> QED
  BY <1>1 DEF ServedAs, Served

\* A request is served only from the stage in which the filter looks its token up.
LEMMA ServedSame ==
    ASSUME TypeOK, NEW t \in Threads, Step(t), pc[t] \notin Served, pc'[t] \notin Served
    PROVE  ServedAs' = ServedAs
<1>1. \A s \in Threads \ {t} : pc'[s] = pc[s] /\ user'[s] = user[s]
  BY StepEffects
<1> QED
  BY <1>1 DEF ServedAs, Served

\* The filter lets a request through with a row that is open, as the row's user.
LEMMA AdmitOpen ==
    ASSUME IInv, NEW t \in Threads, Step(t), pc'[t] \in Served
    PROVE  /\ ServedAs[t] = 0 /\ UNCHANGED <<tokens, revoked>>
           /\ \E s \in OpenRows : ServedAs' = [ServedAs EXCEPT ![t] = s.user]
<1>1. TypeOK /\ Working(t)
  BY DEF IInv
<1>2. FilterLookup(t) /\ ~End(t, "lookup")
  BY <1>1, Moves
<1>3. /\ pc[t] = "lookup" /\ Accepted(t) /\ user'[t] = user[t]
      /\ UNCHANGED <<tokens, revoked>>
  BY <1>2 DEF FilterLookup, tables, locals
<1>4. PICK i \in ByValue(jwt[t]) : i \notin revoked
  BY <1>3 DEF Accepted
<1>5. tokens[i].user = user[t] /\ tokens[i] \in OpenRows
  BY <1>1, <1>3, <1>4 DEF Working, OpenRows, RowsOf, ByValue
<1>6. ServedAs' = [ServedAs EXCEPT ![t] = tokens[i].user]
  BY <1>1, <1>3, <1>5, ServedOthers
<1> QED
  BY <1>3, <1>5, <1>6 DEF ServedAs

\* A request that was served ends, and changes no token.
LEMMA ServedEnds ==
    ASSUME IInv, NEW t \in Threads, Step(t), pc[t] \in Served
    PROVE  /\ ServedAs[t] # 0 /\ ServedAs' = [ServedAs EXCEPT ![t] = 0]
           /\ UNCHANGED <<tokens, revoked>>
<1>1. TypeOK /\ Working(t)
  BY DEF IInv
<1>2. Serve(t) \/ ChangePassword(t)
  BY <1>1, Moves
<1>3. pc'[t] = "idle" /\ UNCHANGED <<tokens, revoked>>
  BY <1>1, <1>2, SMT DEF TypeOK, Serve, ChangePassword, End, Go, tables
<1>4. user[t] # 0
  <2>1. user[t] \in DOMAIN users
    BY <1>1 DEF Working, Loaded, Served
  <2>2. users \in Seq(UserRow)
    BY <1>1 DEF TypeOK, UserRow
  <2> QED
    BY <2>1, <2>2, SMT
<1>5. ServedAs' = [ServedAs EXCEPT ![t] = 0]
  BY <1>1, <1>3, ServedOthers DEF Served
<1> QED
  BY <1>3, <1>4, <1>5 DEF ServedAs, Served

\* The rows a request is about to mark belong to one user.
LEMMA FoundOneUser ==
    ASSUME IInv, RInv, NEW t \in Threads, pc[t] \in {"revoke", "logout"}
    PROVE  /\ found[t] \subseteq DOMAIN tokens
           /\ \A i, j \in found[t] : tokens[i].user = tokens[j].user
<1>1. Working(t) /\ FoundMine(t) /\ Unique
  BY DEF IInv, RInv
<1>2. CASE pc[t] = "revoke"
  BY <1>1, <1>2 DEF Working, FoundMine
<1>3. CASE pc[t] = "logout"
  <2>1. found[t] = ByValue(jwt[t])
    BY <1>1, <1>3 DEF Working
  <2> QED
    BY <1>1, <2>1 DEF Unique, ByValue
<1> QED
  BY <1>2, <1>3

\* Every step of the requests is a step of the sessions, or none.
LEMMA StepRefines ==
    ASSUME IInv, RInv, [Next]_vars
    PROVE  [Abstract!Next]_Abstract!vars
<1> USE DEF Abstract!Next, Abstract!vars, Abstract!NoUser
<1>0. TypeOK /\ Unique
  BY DEF IInv, RInv
<1>1. CASE Tick \/ UNCHANGED vars
  <2>1. UNCHANGED <<tokens, revoked, pc, user>>
    BY <1>1 DEF Tick, vars, tables, locals
  <2> QED
    BY <2>1 DEF OpenRows, EndedRows, RowsOf, ServedAs
<1>2. ASSUME NEW t \in Threads, Step(t) PROVE [Abstract!Next]_Abstract!vars
  <2>0. UNCHANGED <<tokens, revoked>> => OpenRows' = OpenRows /\ EndedRows' = EndedRows
    BY DEF OpenRows, EndedRows, RowsOf
  <2>1. CASE pc'[t] \in Served
    <3>1. PICK s \in OpenRows : /\ ServedAs[t] = 0 /\ UNCHANGED <<tokens, revoked>>
                                /\ ServedAs' = [ServedAs EXCEPT ![t] = s.user]
      BY <1>2, <2>1, AdmitOpen
    <3>2. Abstract!Admit(t, s)
      BY <2>0, <3>1 DEF Abstract!Admit
    <3> QED
      BY <3>2
  <2>2. CASE pc[t] \in Served
    <3>1. Abstract!Release(t)
      BY <1>2, <2>0, <2>2, ServedEnds DEF Abstract!Release
    <3> QED
      BY <3>1
  <2>3. CASE pc[t] \notin Served /\ pc'[t] \notin Served
    <3>0. ServedAs' = ServedAs
      BY <1>0, <1>2, <2>3, ServedSame
    <3>1. CASE Stores(t)
      <4>1. PICK s : s = Token(jwt[t], user[t])
        OBVIOUS
      <4>2. /\ \A o \in OpenRows \cup EndedRows : o.value # s.value
            /\ OpenRows' = OpenRows \cup {s} /\ EndedRows' = EndedRows
        BY <1>0, <1>2, <3>1, <4>1, StoreOpens
      <4>3. Abstract!Open(s) /\ s \in OpenRows'
        BY <3>0, <4>2 DEF Abstract!Open
      <4> QED
        BY <4>3
    <3>2. CASE pc[t] \in {"revoke", "logout"} /\ tokens' = tokens /\ revoked' = revoked \cup found[t]
      <4>1. PICK F : F = found[t]
        OBVIOUS
      <4>2. F \in SUBSET DOMAIN tokens /\ \A i, j \in F : tokens[i].user = tokens[j].user
        BY <1>2, <3>2, <4>1, FoundOneUser
      <4>3. /\ RowsOf(F \ revoked) \subseteq OpenRows
            /\ OpenRows' = OpenRows \ RowsOf(F \ revoked)
            /\ EndedRows' = EndedRows \cup RowsOf(F \ revoked)
        BY <1>0, <3>2, <4>1, <4>2, RevokeCloses
      <4>4. Abstract!Close(RowsOf(F \ revoked))
        BY <3>0, <4>2, <4>3 DEF Abstract!Close, RowsOf
      <4> QED
        BY <4>3, <4>4
    <3>3. CASE UNCHANGED <<tokens, revoked>>
      BY <2>0, <3>0, <3>3
    <3>4. Stores(t) => revoked' = revoked
      BY DEF Stores
    <3>5. pc[t] \in {"revoke", "logout"} => ~Stores(t)
      BY DEF Stores
    <3> QED
      BY <1>0, <1>2, <3>1, <3>2, <3>3, <3>4, <3>5, StepEffects
  <2> QED
    BY <2>1, <2>2, <2>3
<1> QED
  BY <1>1, <1>2 DEF Next

\* At first no session is open, none has ended, and nothing is served.
LEMMA InitRefines == Init => Abstract!Init /\ RInv
<1> SUFFICES ASSUME Init PROVE Abstract!Init /\ RInv
  OBVIOUS
<1>1. DOMAIN tokens = {} /\ revoked = {} /\ \A t \in Threads : pc[t] = "idle"
  BY SMT DEF Init
<1> QED
  BY <1>1, SMT DEF Abstract!Init, Abstract!NoUser, OpenRows, EndedRows, RowsOf, ServedAs,
     RInv, Unique, FoundMine

\* The interleaved requests implement sessions that open once, end for good, and
\* admit their owner only while they are open.
THEOREM SessionsRefined == Spec => RefinesSessions
<1>1. IInv /\ RInv /\ [Next]_vars => RInv' /\ [Abstract!Next]_Abstract!vars
  BY RInvStep, StepRefines
<1> QED
  BY <1>1, InitRefines, Invariance, PTL DEF Spec, RefinesSessions, Abstract!Spec

\* A session that opens is its user's only one when the user has one valid token.
LEMMA OpensAlone ==
    ASSUME OneEach', NEW s \in OpenRows', Abstract!Open(s)
    PROVE  Single!Open(s)
<1>1. /\ \A o \in OpenRows \cup EndedRows : o.value # s.value
      /\ OpenRows' = OpenRows \cup {s}
      /\ UNCHANGED <<EndedRows, ServedAs>>
  BY DEF Abstract!Open
<1>2. ASSUME NEW o \in OpenRows, o.user = s.user PROVE FALSE
  <2>1. PICK i \in DOMAIN tokens' \ revoked' : o = tokens'[i]
    BY <1>1, <1>2 DEF OpenRows, RowsOf
  <2>2. PICK j \in DOMAIN tokens' \ revoked' : s = tokens'[j]
    BY DEF OpenRows, RowsOf
  <2>3. PICK u : u = s.user
    OBVIOUS
  <2>4. i \in Valid(u)' /\ j \in Valid(u)'
    BY <1>2, <2>1, <2>2, <2>3 DEF Valid
  <2>5. i = j
    BY <2>4 DEF OneEach
  <2> QED
    BY <1>1, <2>1, <2>2, <2>5
<1> QED
  BY <1>1, <1>2 DEF Single!Open

\* Every step is a step of the sessions in which a user has one.
LEMMA StepRefinesSingle ==
    ASSUME OneEach', [Abstract!Next]_Abstract!vars
    PROVE  [Single!Next]_Single!vars
<1> USE DEF Single!Next, Single!vars
<1>1. CASE \E s \in OpenRows' : Abstract!Open(s)
  BY <1>1, OpensAlone
<1>2. ASSUME NEW S \in SUBSET OpenRows, Abstract!Close(S) PROVE Single!Next
  <2>1. Single!Close(S)
    BY <1>2 DEF Abstract!Close, Single!Close
  <2> QED
    BY <2>1
<1>3. ASSUME NEW t \in Threads, Abstract!Release(t) PROVE Single!Next
  <2>1. Single!Release(t)
    BY <1>3 DEF Abstract!Release, Single!Release, Abstract!NoUser, Single!NoUser
  <2> QED
    BY <2>1
<1>4. ASSUME NEW t \in Threads, NEW s \in OpenRows, Abstract!Admit(t, s) PROVE Single!Next
  <2>1. Single!Admit(t, s)
    BY <1>4 DEF Abstract!Admit, Single!Admit, Abstract!NoUser, Single!NoUser
  <2> QED
    BY <2>1
<1>5. CASE UNCHANGED Abstract!vars
  BY <1>5 DEF Abstract!vars
<1> QED
  BY <1>1, <1>2, <1>3, <1>4, <1>5 DEF Abstract!Next

\* While no two requests issue tokens of one user at a time, the requests implement
\* sessions of which a user has one: the others end before a login opens its own.
THEOREM SingleRefined == Spec /\ []Exclusive => RefinesSingle
<1>1. IInv /\ RInv /\ SInv' /\ [Next]_vars => RInv' /\ [Single!Next]_Single!vars
  BY RInvStep, StepRefines, StepRefinesSingle DEF SInv
<1>2. Abstract!Init => Single!Init
  BY DEF Abstract!Init, Single!Init, Abstract!NoUser, Single!NoUser
<1> QED
  BY <1>1, <1>2, InitRefines, Invariance, SerialAlways, PTL DEF Spec, RefinesSingle, Single!Spec
=============================================================================
