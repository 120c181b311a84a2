------------------------------ MODULE TestClient ------------------------------
(***************************************************************************)
(* The test client (src/flask/testing.py): requests made by one test, with *)
(* the contexts it preserves in a `with client` block, redirects it        *)
(* follows, requests that raise, streamed responses closed late, contexts  *)
(* the test pushes itself and session transactions.                        *)
(***************************************************************************)
EXTENDS Naturals, Sequences, FiniteSets

CONSTANTS
    MaxCtx,     \* bound on the contexts created
    MaxOwn      \* bound on the contexts the test pushes itself

ASSUME BoundAssumption == MaxCtx \in Nat /\ MaxOwn \in Nat

Ctxs == 1..MaxCtx

VARIABLES
    made,           \* contexts created so far
    cv,             \* the active contexts of the test's thread, the current one last
    ctx,            \* [Ctxs -> pushes, torn: teardown runs, sess: its session]
    marked,         \* contexts whose environ holds werkzeug.debug.preserve_context
    preserve_context,
    _new_contexts,  \* contexts of requests that have ended
    _context_stack, \* the contexts the ExitStack will leave
    calls,          \* open() in progress, the innermost last
    streams,        \* contexts held by the generator of a response not closed yet
    own,            \* contexts of the test's fixtures
    cookie,         \* the session in the client's cookie
    txn,            \* the session transactions entered: context and session
    written,        \* history: writes to the session that were stored
    tangled,        \* history: the test used contexts in another order than a stack
    mixed,          \* history: a context was preserved over that of a streamed response
    overlapped      \* history: a session was stored while a transaction was open

client == <<preserve_context, _new_contexts, _context_stack, calls>>
misuse == <<tangled, mixed>>
vars   == <<made, cv, ctx, marked, client, streams, own, cookie, txn, written, misuse, overlapped>>

Elems(s) == {s[i] : i \in DOMAIN s}
Last(s)  == s[Len(s)]
Front(s) == SubSeq(s, 1, Len(s) - 1)

Init ==
    /\ made = 0 /\ cv = <<>>
    /\ ctx = [c \in Ctxs |-> [pushes |-> 0, torn |-> 0, sess |-> {}]]
    /\ marked = {}
    /\ preserve_context = FALSE /\ _new_contexts = <<>> /\ _context_stack = <<>> /\ calls = <<>>
    /\ streams = {} /\ own = <<>>
    /\ cookie = {} /\ txn = <<>>
    /\ written = {} /\ tangled = FALSE /\ mixed = FALSE /\ overlapped = FALSE

-----------------------------------------------------------------------------
(* AppContext.push and pop, as functions of [cv, ctx]; refused is TRUE once *)
(* a pop has raised because another context is active.                      *)

Now == [cv |-> cv, ctx |-> ctx, refused |-> FALSE]

push(s, c) ==
    [s EXCEPT !.ctx[c].pushes = @ + 1,
              !.cv = IF s.ctx[c].pushes = 0 THEN Append(@, c) ELSE @]

pop(s, c) ==
    IF s.cv = <<>> \/ Last(s.cv) # c THEN [s EXCEPT !.refused = TRUE]
    ELSE IF s.ctx[c].pushes > 1 THEN [s EXCEPT !.ctx[c].pushes = @ - 1]
    ELSE [s EXCEPT !.ctx[c].pushes = 0, !.ctx[c].torn = @ + 1, !.cv = Front(@)]

\* Fault: the contexts are entered the last one first.
EnterLastFirst(s, cs) ==
    LET n == Len(cs)
        f[i \in 0..n] == IF i = 0 THEN s ELSE push(f[i - 1], cs[n + 1 - i])
    IN f[n]

EnterAll(s, cs) ==
    LET f[i \in 0..Len(cs)] == IF i = 0 THEN s ELSE push(f[i - 1], cs[i]) IN f[Len(cs)]

\* Fault: the contexts are left in the order they were entered.
LeaveInOrder(s, cs) ==
    LET f[i \in 0..Len(cs)] == IF i = 0 THEN s ELSE pop(f[i - 1], cs[i]) IN f[Len(cs)]

\* ExitStack.close: the last entered first, and the others after one that raised.
LeaveAll(s, cs) ==
    LET n == Len(cs)
        f[i \in 0..n] == IF i = 0 THEN s ELSE pop(f[i - 1], cs[n + 1 - i])
    IN f[n]

Becomes(s) == cv' = s.cv /\ ctx' = s.ctx

Idle == calls = <<>>
Call == Last(calls)

-----------------------------------------------------------------------------
(* Requests *)

\* FlaskClient.open up to the view: close the preserved contexts, then run the
\* application in a new context, which loads the session from the cookie.
Start(mark, follow, below) ==
    LET c == made + 1
        s == LeaveAll(Now, _context_stack)
    IN /\ made < MaxCtx
       /\ _context_stack' = <<>>
       /\ \/ s.refused /\ Becomes(s) /\ calls' = <<>> /\ UNCHANGED <<made, marked>>
          \/ /\ ~s.refused
             /\ Becomes(push([s EXCEPT !.ctx[c].sess = cookie], c))
             /\ made' = c
             /\ marked' = IF mark THEN marked \cup {c} ELSE marked
             /\ calls' = Append(below, [ctx |-> c, at |-> "view", follow |-> follow])
       /\ UNCHANGED <<preserve_context, _new_contexts, streams, own, cookie, txn, written,
                      mixed, overlapped>>

\* _copy_environ: the environ of a request that is opened again keeps its mark.
open(follow, again) ==
    /\ Idle
    /\ Start(preserve_context \/ again \in marked, follow, <<>>)
    /\ tangled' = (tangled \/ streams # {})

\* Client.resolve_redirect calls open, which does not follow itself.
FollowRedirect ==
    /\ ~Idle /\ Call.at = "redirected"
    /\ Start(preserve_context, FALSE, calls)
    /\ UNCHANGED tangled

At(s) == [calls EXCEPT ![Len(calls)].at = s]

\* The end of wsgi_app: preserve the context if asked, pop it.
Finish(s) ==
    /\ Becomes(pop(s, Call.ctx))
    /\ _new_contexts' = IF Call.ctx \in marked THEN Append(_new_contexts, Call.ctx)
                        ELSE _new_contexts
    /\ UNCHANGED <<made, marked, preserve_context, _context_stack, own, txn, misuse>>

\* The view answers; a session it wrote to is saved in the cookie.  The generator
\* of a streamed response holds the context too.
Respond(write, stream) ==
    LET c == Call.ctx
        data == ctx[c].sess \cup {c}
        s == IF write THEN [Now EXCEPT !.ctx[c].sess = data] ELSE Now
    IN /\ ~Idle /\ Call.at = "view"
       /\ Finish(IF stream THEN push(s, c) ELSE s)
       /\ streams' = IF stream THEN streams \cup {c} ELSE streams
       /\ cookie' = IF write THEN data ELSE cookie
       /\ written' = IF write THEN written \cup {c} ELSE written
       /\ overlapped' = (overlapped \/ (write /\ txn # <<>>))

Answer(write, stream) == Respond(write, stream) /\ calls' = At("answered")

\* Werkzeug closes the response of a redirect before it follows it.
Redirect(write) ==
    /\ Respond(write, FALSE)
    /\ calls' = IF calls[1].follow
                THEN IF Len(calls) = 1 THEN At("redirected") ELSE At("answered again")
                ELSE At("answered")

\* The exception propagates out of every open.
Raise ==
    /\ ~Idle /\ Call.at = "view" /\ Finish(Now) /\ calls' = <<>>
    /\ UNCHANGED <<streams, cookie, written, overlapped>>

Reenter ==
    /\ ~Idle /\ Call.at \in {"answered", "answered again"}
    /\ Becomes(EnterAll(Now, _new_contexts))
    /\ _context_stack' = _context_stack \o _new_contexts
    /\ calls' = IF Len(calls) = 1 THEN <<>>
                ELSE <<[calls[1] EXCEPT !.at = IF Call.at = "answered" THEN "answered"
                                               ELSE "redirected"]>>
    /\ mixed' = (mixed \/ \E c \in Elems(_new_contexts) : streams \ {c} # {})
    /\ UNCHANGED <<made, marked, preserve_context, streams, own, cookie, txn, written, tangled,
                   overlapped>>

NotCleared == Reenter /\ UNCHANGED _new_contexts  \* fault: the list is kept

\* The rest of open: push the preserved contexts again.  The open around it
\* follows the next redirect or returns the response.
Return == Reenter /\ _new_contexts' = <<>>

-----------------------------------------------------------------------------
(* The test: the client block, late closes, its own contexts *)

__enter__ ==
    /\ Idle /\ ~preserve_context /\ preserve_context' = TRUE
    /\ UNCHANGED <<made, cv, ctx, marked, _new_contexts, _context_stack, calls, streams, own,
                   cookie, txn, written, misuse, overlapped>>

__exit__ ==
    /\ Idle /\ preserve_context /\ preserve_context' = FALSE
    /\ Becomes(LeaveAll(Now, _context_stack)) /\ _context_stack' = <<>>
    /\ UNCHANGED <<made, marked, _new_contexts, calls, streams, own, cookie, txn, written,
                   misuse, overlapped>>

CloseResponse(c) ==
    /\ Idle /\ c \in streams /\ streams' = streams \ {c}
    /\ Becomes(pop(Now, c))
    /\ UNCHANGED <<made, marked, client, own, cookie, txn, written, misuse, overlapped>>

Tangles == tangled' = (tangled \/ _context_stack # <<>> \/ streams # {}) /\ UNCHANGED mixed

PushOwn ==
    /\ Idle /\ Len(own) < MaxOwn /\ made < MaxCtx
    /\ made' = made + 1 /\ own' = Append(own, made + 1)
    /\ Becomes(push(Now, made + 1)) /\ Tangles
    /\ UNCHANGED <<marked, client, streams, cookie, txn, written, overlapped>>

PopOwn ==
    /\ Idle /\ own # <<>> /\ own' = Front(own)
    /\ Becomes(pop(Now, Last(own))) /\ Tangles
    /\ UNCHANGED <<made, marked, client, streams, cookie, txn, written, overlapped>>

-----------------------------------------------------------------------------
(* session_transaction: its context is active while the session is opened   *)
(* and while it is saved, not while the test changes it.                    *)

\* Fault: the cookies are not added to the environ.
EnterWithoutCookies ==
    LET c == made + 1 IN
    /\ Idle /\ txn = <<>> /\ made < MaxCtx /\ made' = c
    /\ Becomes(pop(push(Now, c), c))
    /\ txn' = <<c>>
    /\ UNCHANGED <<marked, client, streams, own, cookie, written, misuse, overlapped>>

EnterTransaction ==
    LET c == made + 1 IN
    /\ Idle /\ txn = <<>> /\ made < MaxCtx /\ made' = c
    /\ Becomes(pop(push([Now EXCEPT !.ctx[c].sess = cookie], c), c))
    /\ txn' = <<c>>
    /\ UNCHANGED <<marked, client, streams, own, cookie, written, misuse, overlapped>>

\* The block has written to the session; it ends, or raises and nothing is saved.
LeaveTransaction(raises) ==
    /\ Idle /\ txn # <<>> /\ txn' = <<>>
    /\ LET c == txn[1]
           data == ctx[c].sess \cup {c}
       IN IF raises THEN UNCHANGED <<cv, ctx, cookie, written>>
          ELSE /\ cookie' = data /\ written' = written \cup {c}
               /\ Becomes(pop(push([Now EXCEPT !.ctx[c].sess = data], c), c))
    /\ UNCHANGED <<made, marked, client, streams, own, misuse, overlapped>>

Request ==
    \/ \E follow \in BOOLEAN, again \in marked \cup {0} : open(follow, again)
    \/ FollowRedirect \/ Raise \/ Return
    \/ \E write \in BOOLEAN : Redirect(write) \/ \E stream \in BOOLEAN : Answer(write, stream)

Next ==
    \/ Request
    \/ __enter__ \/ __exit__ \/ PushOwn \/ PopOwn
    \/ \E c \in streams : CloseResponse(c)
    \/ EnterTransaction \/ \E raises \in BOOLEAN : LeaveTransaction(raises)

Spec == Init /\ [][Next]_vars

-----------------------------------------------------------------------------
(* Properties *)

Quiet == Idle /\ _context_stack = <<>> /\ streams = {}

\* Between requests, with the preserved contexts and the streamed responses
\* closed, only the contexts of the test's fixtures are active, whatever was
\* redirected, raised, preserved or pushed by a transaction.
FixturesRemain == ~tangled /\ ~mixed /\ Quiet => cv = own

\* Teardown functions run for every context that is not active any more, and at
\* most once more than at the end of the request, for the preserved ones.
TornAtMostTwice ==
    \A c \in 1..made :
        /\ ctx[c].torn <= 2
        /\ ctx[c].torn = 0 => c \in Elems(cv)

\* After a request in a client block the `session` of the test is what the
\* client's cookie holds, the writes of the redirects on the way included.
SessionShown ==
    [][Return /\ calls' = <<>> /\ preserve_context /\ streams = {}
           => ctx'[Last(cv')].sess = cookie]_vars

\* What requests and session transactions stored one after the other is all there.
WritesAdd == ~overlapped => written \subseteq cookie
===============================================================================
