------------------------------- MODULE AppCtx -------------------------------
(***************************************************************************)
(* The application context of Flask (src/flask/ctx.py) as every part of    *)
(* the framework drives it: wsgi_app, `with ctx:` blocks, generators made  *)
(* by stream_with_context and functions wrapped by                         *)
(* copy_current_request_context.                                           *)
(*                                                                         *)
(* The context variable _cv_app has one value per worker.  A pushed        *)
(* context keeps in _cv_token the value it replaced, so the contexts of a  *)
(* worker form a linked list whose head is the active context.             *)
(***************************************************************************)
EXTENDS Naturals, Sequences, FiniteSets

CONSTANTS
    Workers,       \* threads or greenlets: each starts with an empty _cv_app
    Ctxs,          \* identities of the AppContext objects that may be created
    Reqs,          \* request objects
    NoReq,         \* _request is None
    Unborn,        \* the AppContext object has not been created yet
    NoCtx,         \* _cv_app is unset
    NoToken,       \* _cv_token is None
    MaxDepth,      \* bound: nested calls and `with` blocks on a worker
    MaxStreams,    \* bound: suspended generators per context
    MaxPushes,     \* bound: pushes of one context object
    NestedPushFails, \* a push in a `with` statement may raise
    Undisciplined    \* streams and blocks may end out of order

ASSUME CtxAssumption == /\ IsFiniteSet(Workers)
                        /\ NoCtx \notin Ctxs
                        /\ Workers \cap Ctxs = {}
                        /\ NoToken \notin Ctxs \cup {NoCtx}
                        /\ Reqs \cap {NoReq, Unborn} = {}
                        /\ NoReq # Unborn

ASSUME BoundAssumption == /\ MaxDepth \in Nat /\ MaxStreams \in Nat
                          /\ MaxPushes \in Nat
                          /\ NestedPushFails \in BOOLEAN
                          /\ Undisciplined \in BOOLEAN

VARIABLES
    active,     \* [worker -> the value of _cv_app]
    token,      \* [ctx -> the old value kept in _cv_token]
    pushCount,  \* [ctx -> _push_count]
    request,    \* [ctx -> _request]
    captured,   \* contexts held by a copy_current_request_context wrapper
    frames,     \* [worker -> the contexts its open blocks will pop, outermost first]
    streams,    \* [ctx -> suspended stream_with_context generators]
    closed,     \* requests that Request.close() was called on
    served,     \* history: contexts pushed by wsgi_app
    pushed,     \* history: [ctx -> calls of push]
    lost,       \* history: [ctx -> pushes that no pop will ever undo]
    torn        \* history: [ctx -> times its teardown callbacks ran]

vars == <<active, token, pushCount, request, captured, frames, streams,
          closed, served, pushed, lost, torn>>

-----------------------------------------------------------------------------
Born(c)   == request[c] # Unborn
Live(c)   == token[c] # NoToken
Active(w) == active[w] # NoCtx
Top(w)    == frames[w][Len(frames[w])]
Leave(w)  == [frames EXCEPT ![w] = SubSeq(@, 1, Len(@) - 1)]

Init ==
    /\ active = [w \in Workers |-> NoCtx]
    /\ token = [c \in Ctxs |-> NoToken]
    /\ pushCount = [c \in Ctxs |-> 0]
    /\ request = [c \in Ctxs |-> Unborn]
    /\ captured = {}
    /\ frames = [w \in Workers |-> << >>]
    /\ streams = [c \in Ctxs |-> 0]
    /\ closed = {}
    /\ served = {}
    /\ pushed = [c \in Ctxs |-> 0]
    /\ lost = [c \in Ctxs |-> 0]
    /\ torn = [c \in Ctxs |-> 0]

(***************************************************************************)
(* push: the count always grows; only the first push of a context touches  *)
(* the context variable.  The signal, open_session and match_request come  *)
(* after these assignments, so a push that raises leaves the same state.   *)
(***************************************************************************)
PushReplacesToken(w, c) ==                   \* fault: no early return when pushed
    /\ pushed[c] < MaxPushes
    /\ pushed' = [pushed EXCEPT ![c] = @ + 1]
    /\ pushCount' = [pushCount EXCEPT ![c] = @ + 1]
    /\ token' = [token EXCEPT ![c] = active[w]]
    /\ active' = [active EXCEPT ![w] = c]

Push(w, c) ==
    /\ pushed[c] < MaxPushes
    /\ pushed' = [pushed EXCEPT ![c] = @ + 1]
    /\ pushCount' = [pushCount EXCEPT ![c] = @ + 1]
    /\ IF Live(c)
       THEN UNCHANGED <<active, token>>
       ELSE /\ token' = [token EXCEPT ![c] = active[w]]
            /\ active' = [active EXCEPT ![w] = c]

(***************************************************************************)
(* pop, past its three checks: teardown and Request.close run on the last  *)
(* pop only, while the context is still active; then the token is used to  *)
(* restore the context that was active before the first push.              *)
(***************************************************************************)
PopAccepted(w, c) == Live(c) /\ active[w] = c

ClosedWithAny(c) == closed \cup {request[c]}  \* fault: a context without a request

\* The requests closed once the request of c, if it has one, is closed as well.
ClosedWith(c) == closed \cup ({request[c]} \cap Reqs)

\* Faults: teardown one pop early, no restore, a token that is never reset.
PopFault(w, c, last, restored, left) ==
    /\ PopAccepted(w, c)
    /\ pushCount' = [pushCount EXCEPT ![c] = @ - 1]
    /\ IF pushCount[c] > last
       THEN UNCHANGED <<active, token, closed, torn>>
       ELSE /\ torn' = [torn EXCEPT ![c] = @ + 1]
            /\ closed' = ClosedWith(c)
            /\ active' = [active EXCEPT ![w] = restored]
            /\ token' = [token EXCEPT ![c] = left]
    /\ UNCHANGED lost

PopEarly(w, c)      == PopFault(w, c, 2, token[c], NoToken)
PopToNothing(w, c)  == PopFault(w, c, 1, NoCtx, NoToken)
PopKeepsToken(w, c) == PopFault(w, c, 1, token[c], token[c])

Pop(w, c) ==
    /\ PopAccepted(w, c)
    /\ pushCount' = [pushCount EXCEPT ![c] = @ - 1]
    /\ IF pushCount[c] > 1
       THEN UNCHANGED <<active, token, closed, torn>>
       ELSE /\ torn' = [torn EXCEPT ![c] = @ + 1]
            /\ closed' = ClosedWith(c)
            /\ active' = [active EXCEPT ![w] = token[c]]
            /\ token' = [token EXCEPT ![c] = NoToken]
    /\ UNCHANGED lost

PopRefusedLate(w, c) ==                       \* fault: the count drops before the checks
    /\ ~PopAccepted(w, c)
    /\ lost' = [lost EXCEPT ![c] = @ + 1]
    /\ pushCount' = [pushCount EXCEPT ![c] = @ - 1]
    /\ UNCHANGED <<active, token, closed, torn>>

\* A refused pop raises RuntimeError before the count is touched.
PopRefused(w, c) ==
    /\ ~PopAccepted(w, c)
    /\ lost' = [lost EXCEPT ![c] = @ + 1]
    /\ UNCHANGED <<active, token, pushCount, closed, torn>>

-----------------------------------------------------------------------------
\* Requests no context was created for yet, and those a copy may share.
FreshReqs  == {r \in Reqs : \A c \in Ctxs : request[c] # r}
SharedReqs == {request[c] : c \in captured}

Create(c, r) ==
    /\ ~Born(c)
    /\ request' = [request EXCEPT ![c] = r]

(***************************************************************************)
(* The discipline most callers keep: a server exhausts or closes a         *)
(* response before it uses the worker for something else.                  *)
(***************************************************************************)
Idle(w) == \/ Undisciplined
           \/ frames[w] # << >>
           \/ \A c \in Ctxs : active[w] = c => streams[c] = 0

OpenBlock(w, c) ==
    /\ Len(frames[w]) < MaxDepth
    /\ Idle(w)
    /\ Push(w, c)
    /\ frames' = [frames EXCEPT ![w] = Append(@, c)]
    /\ UNCHANGED <<captured, streams, closed, lost, torn>>

\* wsgi_app: the context is created and pushed; the finally clause pops it,
\* whether the push, the view or the error handling raised or not.
Serve(w, c) ==
    /\ \E r \in FreshReqs : Create(c, r)
    /\ OpenBlock(w, c)
    /\ served' = served \cup {c}

\* `with app.app_context()` and `with app.test_request_context()`.
Enter(w, c) ==
    /\ \E r \in FreshReqs \cup {NoReq} : Create(c, r)
    /\ OpenBlock(w, c)
    /\ UNCHANGED served

\* A function wrapped by copy_current_request_context runs on any worker.
RunCopy(w, c) ==
    /\ \E r \in SharedReqs : Create(c, r)
    /\ OpenBlock(w, c)
    /\ UNCHANGED served

\* `with ctx` for an existing object: nested in itself, or pushed again after
\* it was popped, as the test client does with the contexts it preserved.
Reenter(w, c) ==
    /\ Born(c)
    /\ Undisciplined \/ active[w] = c \/ ~Live(c)
    /\ OpenBlock(w, c)
    /\ UNCHANGED <<request, served>>

\* __enter__ raises after the context was made active: __exit__ is not called.
EnterFails(w, c) ==
    /\ NestedPushFails
    /\ Len(frames[w]) < MaxDepth
    /\ Idle(w)
    /\ ~Live(c)
    /\ \/ \E r \in FreshReqs \cup SharedReqs \cup {NoReq} : Create(c, r)
       \/ Born(c) /\ UNCHANGED request
    /\ Push(w, c)
    /\ lost' = [lost EXCEPT ![c] = @ + 1]
    /\ UNCHANGED <<captured, frames, streams, closed, served, torn>>

\* The end of the innermost block: __exit__, or the finally clause of wsgi_app.
Exit(w) ==
    /\ frames[w] # << >>
    /\ Undisciplined \/ Len(frames[w]) = 1 \/ streams[Top(w)] = 0
    /\ Pop(w, Top(w)) \/ PopRefused(w, Top(w))
    /\ frames' = Leave(w)
    /\ UNCHANGED <<request, captured, streams, served, pushed>>

\* stream_with_context advances its generator to the sentinel inside `with ctx`.
OpenStream(w) ==
    /\ Active(w)
    /\ frames[w] # << >>
    /\ streams[active[w]] < MaxStreams
    /\ Push(w, active[w])
    /\ streams' = [streams EXCEPT ![active[w]] = @ + 1]
    /\ UNCHANGED <<request, captured, frames, closed, served, lost, torn>>

\* The generator ends, is closed or is collected: it leaves its `with ctx`.
CloseStream(w, c) ==
    /\ streams[c] > 0
    /\ Undisciplined \/ active[w] = c
    /\ Pop(w, c) \/ PopRefused(w, c)
    /\ streams' = [streams EXCEPT ![c] = @ - 1]
    /\ UNCHANGED <<request, captured, frames, served, pushed>>

Capture(w) ==
    /\ Active(w)
    /\ frames[w] # << >>
    /\ active[w] \notin captured
    /\ captured' = captured \cup {active[w]}
    /\ UNCHANGED <<active, token, pushCount, request, frames, streams,
                   closed, served, pushed, lost, torn>>

Step(w) ==
    \/ \E c \in Ctxs : \/ Serve(w, c)
                        \/ Enter(w, c)
                        \/ RunCopy(w, c)
                        \/ Reenter(w, c)
                        \/ EnterFails(w, c)
                        \/ CloseStream(w, c)
    \/ Exit(w)
    \/ OpenStream(w)
    \/ Capture(w)

Next == \E w \in Workers : Step(w)

Spec == Init /\ [][Next]_vars

\* Blocks end and responses are exhausted or closed; nothing has to start.
Fairness == \A w \in Workers :
                /\ WF_vars(Exit(w))
                /\ WF_vars(\E c \in Ctxs : CloseStream(w, c))

FairSpec == Spec /\ Fairness

-----------------------------------------------------------------------------
\* Every variable keeps its type (ctx.py, AppContext.__init__ and the contextvar).
TypeOK ==
    /\ active \in [Workers -> Ctxs \cup {NoCtx}]
    /\ token \in [Ctxs -> Ctxs \cup {NoCtx, NoToken}]
    /\ pushCount \in [Ctxs -> Nat]
    /\ request \in [Ctxs -> Reqs \cup {NoReq, Unborn}]
    /\ captured \in SUBSET Ctxs
    /\ frames \in [Workers -> Seq(Ctxs)]
    /\ streams \in [Ctxs -> Nat]
    /\ closed \in SUBSET Reqs
    /\ served \in SUBSET Ctxs
    /\ pushed \in [Ctxs -> Nat]
    /\ lost \in [Ctxs -> Nat]
    /\ torn \in [Ctxs -> Nat]

\* The places a context is reachable from: the contextvar of a worker, or the
\* token of the context pushed on top of it.
Holders(c) == {w \in Workers : active[w] = c} \cup {d \in Ctxs : token[d] = c}

\* Contexts never leak between workers and no two stacks share a context: a
\* pushed context is the active one of one worker or lies below one other
\* context, never both; a context that is not pushed is reachable from nowhere.
UniqueHolder ==
    \A c \in Ctxs : Cardinality(Holders(c)) = IF Live(c) THEN 1 ELSE 0

\* The open blocks that will pop c, as positions in the call stacks.
Held(c) == {p \in Workers \X (1..MaxDepth) :
               p[2] <= Len(frames[p[1]]) /\ frames[p[1]][p[2]] = c}

\* Every unit of _push_count is owed by somebody: an open block, a suspended
\* generator, or a push whose pop was refused or will never come.
PushesOwed ==
    \A c \in Ctxs : pushCount[c] = Cardinality(Held(c)) + streams[c] + lost[c]

\* Teardown callbacks and Request.close run once per outermost pop, and only
\* when no block and no generator on any worker still uses the context.
TeardownIsLast ==
    [][\A c \in Ctxs : torn'[c] # torn[c] =>
          /\ torn'[c] = torn[c] + 1
          /\ streams'[c] = 0
          /\ Held(c)' = {}]_vars

Quiet == /\ \A w \in Workers : frames[w] = << >>
         /\ \A c \in Ctxs : streams[c] = 0

\* When nothing runs, the teardown of every context pushed by wsgi_app has run
\* (docstring of wsgi_app, app.py:1586).
TeardownEvenOnError == Quiet => \A c \in served : torn[c] > 0

\* A pushed context is popped in the end, teardown included.
PushedIsPopped == \A c \in Ctxs : Live(c) ~> ~Live(c)

=============================================================================
