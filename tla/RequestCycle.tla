---------------------------- MODULE RequestCycle ----------------------------
(***************************************************************************)
(* One request through Flask.wsgi_app (src/flask/app.py): dispatching, the *)
(* two levels of error handling, finalization, and teardown.  Every user   *)
(* callback may return or raise; what happens next is the framework's.     *)
(***************************************************************************)
EXTENDS Naturals, FiniteSets

CONSTANTS NBefore,   \* before_request functions, app and blueprints together
          NAfter,    \* after_request functions, this request's and registered ones
          NTear      \* teardown_request and teardown_appcontext functions

ASSUME CountAssumption == NBefore \in Nat /\ NAfter \in Nat /\ NTear \in Nat

\* Kinds of exceptions: HTTPException with a code, HTTPException that is
\* returned as it is (no code, or a RoutingException), any other Exception,
\* and a BaseException that is not an Exception.
Kinds  == {"http", "bare", "user", "base"}
NoExc  == "none"
GeneratorExit == "GeneratorExit"

Befores == 1..NBefore
Afters  == 1..NAfter
Tears   == 1..NTear

VARIABLES
    app,        \* configuration: handlers registered and exception options
    pc,         \* stage the request is in
    n,          \* next callback of the stage
    exc,        \* the exception full_dispatch_request handles
    error,      \* the local `error` of wsgi_app
    rv,         \* what will be the response
    session,    \* ctx._session
    pushes,     \* ctx._push_count
    outcome,    \* what the WSGI server gets
    ran,        \* after_request functions completed in this finalization
    saved,      \* save_session succeeded in this finalization
    skipped,    \* finalization failed and was only logged
    called,     \* history: [after_request function -> calls]
    failed,     \* history: after_request functions that raised
    faults,     \* history: stages in which a callback raised
    torn,       \* [teardown function -> calls]
    seen        \* the exception passed to teardown functions

vars == <<app, pc, n, exc, error, rv, session, pushes, outcome, ran, saved,
          skipped, called, failed, faults, torn, seen>>

finalization == <<ran, saved, skipped, called, failed>>
teardown     == <<pushes, torn, seen>>

Init ==
    /\ app \in [http : BOOLEAN, user : BOOLEAN, server : BOOLEAN,
                propagate : BOOLEAN, trap : BOOLEAN, ignore : BOOLEAN]
    /\ pc = "push"
    /\ n = 1
    /\ exc = NoExc
    /\ error = NoExc
    /\ rv = "none"
    /\ session = "unopened"
    /\ pushes = 0
    /\ outcome = "none"
    /\ ran = {}
    /\ saved = FALSE
    /\ skipped = FALSE
    /\ called = [i \in Afters |-> 0]
    /\ failed = {}
    /\ faults = {}
    /\ torn = [i \in Tears |-> 0]
    /\ seen = NoExc

-----------------------------------------------------------------------------
(* Where an exception goes, by the try statement it is raised in. *)

\* handle_exception runs in the except clause that has set `error`.
SafeMode == error # NoExc

\* Out of wsgi_app, with what its local holds when the finally clause runs.
Escape(e) == pc' = "pop" /\ outcome' = "raised" /\ error' = e

\* The try of full_dispatch_request.
InDispatch(k) ==
    \/ k = "base" /\ Escape(k)
    \/ k # "base" /\ pc' = "user_exc" /\ UNCHANGED <<error, outcome>>

\* The inner try of wsgi_app, outside that of full_dispatch_request.
InRequest(k) ==
    \/ k = "base" /\ Escape(k)
    \/ k # "base" /\ pc' = "server_exc" /\ error' = k /\ UNCHANGED outcome

InFinalizeUnsafe(k) ==                        \* fault: safe mode forgotten
    InRequest(k) /\ UNCHANGED skipped

InFinalizeSwallows(k) ==                      \* fault: failures of the first pass are logged
    \/ k = "base" /\ Escape(k) /\ UNCHANGED skipped
    \/ k # "base" /\ pc' = "respond" /\ skipped' = SafeMode /\ UNCHANGED <<error, outcome>>

\* process_response and request_finished: in safe mode failures are logged.
InFinalize(k) ==
    \/ ~SafeMode /\ InRequest(k) /\ UNCHANGED skipped
    \/ SafeMode /\ k = "base" /\ Escape(error) /\ UNCHANGED skipped
    \/ /\ SafeMode /\ k # "base"
       /\ pc' = "respond" /\ skipped' = TRUE
       /\ UNCHANGED <<error, outcome>>

\* History: the stage a callback raised in, and whether a BaseException did.
RaiseIn(stage, k) == faults' = faults \cup {stage} \cup ({k} \cap {"base"})
Raise(k) == RaiseIn(pc, k)
Go(stage) == pc' = stage /\ n' = 1 /\ UNCHANGED <<error, outcome>>

-----------------------------------------------------------------------------
(* ctx.push and full_dispatch_request *)

Push ==
    /\ pc = "push"
    /\ pushes' = 1
    /\ \/ session' \in {"open", "null"} /\ Go("started") /\ UNCHANGED faults
       \/ /\ session' \in {"unopened", "open", "null"}
          /\ \E k \in Kinds : InRequest(k) /\ Raise(k)
          /\ UNCHANGED n
    /\ UNCHANGED <<app, exc, rv, finalization, torn, seen>>

\* A request_started receiver or a URL value preprocessor.
Started ==
    /\ pc = "started"
    /\ \/ Go("before") /\ UNCHANGED <<exc, faults>>
       \/ /\ \E k \in Kinds : exc' = k /\ InDispatch(k) /\ Raise(k)
          /\ UNCHANGED n
    /\ UNCHANGED <<app, rv, session, finalization, teardown>>

Before ==
    /\ pc = "before" /\ n \in Befores
    /\ \/ /\ n' = n + 1
          /\ UNCHANGED <<pc, exc, error, rv, outcome, faults>>
       \/ /\ rv' = "value" /\ Go("make_response")
          /\ UNCHANGED <<exc, faults>>
       \/ /\ \E k \in Kinds : exc' = k /\ InDispatch(k) /\ Raise(k)
          /\ UNCHANGED <<n, rv>>
    /\ UNCHANGED <<app, session, finalization, teardown>>

\* The routing exception, the automatic OPTIONS response or the view, which may
\* call stream_with_context before it returns or raises.
Dispatch ==
    /\ pc = "before" /\ n \notin Befores
    /\ \/ rv' = "value" /\ Go("make_response") /\ UNCHANGED <<exc, pushes, faults>>
       \/ rv' = "stream" /\ pushes' = 2 /\ Go("make_response") /\ UNCHANGED <<exc, faults>>
       \/ /\ pushes' \in {1, 2}
          /\ \E k \in Kinds : exc' = k /\ InDispatch(k) /\ RaiseIn("dispatch", k)
          /\ UNCHANGED <<n, rv>>
    /\ UNCHANGED <<app, session, finalization, torn, seen>>

\* handle_user_exception and handle_http_exception.
Trapped   == exc = "user" \/ app.trap
Handler   == IF exc = "user" THEN app.user ELSE app.http
Unhandled == Trapped /\ ~Handler
Returned  == ~Trapped /\ (exc = "bare" \/ ~Handler)

\* Fault: an exception without a handler leaves wsgi_app.
HandleUserExceptionEscapes ==
    /\ pc = "user_exc"
    /\ \/ Returned /\ rv' = "exception" /\ Go("make_response") /\ UNCHANGED faults
       \/ Unhandled /\ Escape(exc) /\ UNCHANGED <<n, rv, faults>>
       \/ ~Returned /\ ~Unhandled /\ rv' = "handled" /\ Go("make_response") /\ UNCHANGED faults
    /\ UNCHANGED <<app, exc, session, finalization, teardown>>

HandleUserException ==
    /\ pc = "user_exc"
    /\ \/ Returned /\ rv' = "exception" /\ Go("make_response") /\ UNCHANGED faults
       \/ Unhandled /\ InRequest(exc) /\ UNCHANGED <<n, rv, faults>>
       \/ /\ ~Returned /\ ~Unhandled
          /\ \/ rv' = "handled" /\ Go("make_response") /\ UNCHANGED faults
             \/ /\ \E k \in Kinds : InRequest(k) /\ Raise(k)
                /\ UNCHANGED <<n, rv>>
    /\ UNCHANGED <<app, exc, session, finalization, teardown>>

-----------------------------------------------------------------------------
(* finalize_request *)

\* make_response is outside the try of finalize_request.
MakeResponse ==
    /\ pc = "make_response"
    /\ \/ /\ ran' = {} /\ saved' = FALSE
          /\ Go("after") /\ UNCHANGED faults
       \/ /\ \E k \in Kinds :
                \/ ~SafeMode /\ InRequest(k) /\ Raise(k)
                \/ SafeMode /\ Escape(error) /\ RaiseIn("safe_response", k)
          /\ UNCHANGED <<n, ran, saved>>
    /\ UNCHANGED <<app, exc, rv, session, skipped, called, failed, teardown>>

AfterRequest ==
    /\ pc = "after" /\ n \in Afters
    /\ called' = [called EXCEPT ![n] = @ + 1]
    /\ \/ /\ ran' = ran \cup {n} /\ n' = n + 1
          /\ UNCHANGED <<pc, error, outcome, skipped, failed, faults>>
       \/ /\ failed' = failed \cup {n}
          /\ \E k \in Kinds : InFinalize(k) /\ Raise(k)
          /\ UNCHANGED <<n, ran>>
    /\ UNCHANGED <<app, exc, rv, session, saved, teardown>>

\* _get_session opens a session that the push could not open.
SaveSession ==
    /\ pc = "after" /\ n \notin Afters
    /\ session' \in IF session = "unopened" THEN {"unopened", "open", "null"} ELSE {session}
    /\ \/ /\ session' # "unopened" /\ saved' = (session' = "open")
          /\ Go("finished") /\ UNCHANGED <<skipped, faults>>
       \/ /\ session' # "null"
          /\ \E k \in Kinds : InFinalize(k) /\ RaiseIn("session", k)
          /\ UNCHANGED <<n, saved>>
    /\ UNCHANGED <<app, exc, rv, ran, called, failed, teardown>>

Finished ==
    /\ pc = "finished"
    /\ \/ Go("respond") /\ UNCHANGED <<skipped, faults>>
       \/ /\ \E k \in Kinds : InFinalize(k) /\ Raise(k)
          /\ UNCHANGED n
    /\ UNCHANGED <<app, exc, rv, session, ran, saved, called, failed, teardown>>

-----------------------------------------------------------------------------
(* handle_exception and the rest of wsgi_app *)

\* The signal, the re-raise, the handler of InternalServerError.
HandleException ==
    /\ pc = "server_exc"
    /\ \/ Escape(error) /\ Raise("any") /\ UNCHANGED <<n, rv>>
       \/ app.propagate /\ Escape(error) /\ UNCHANGED <<n, rv, faults>>
       \/ /\ ~app.propagate
          /\ rv' = IF app.server THEN "handled" ELSE "error"
          /\ Go("make_response") /\ UNCHANGED faults
    /\ UNCHANGED <<app, exc, session, finalization, teardown>>

\* response(environ, start_response) is outside the inner try.
Respond ==
    /\ pc = "respond"
    /\ \/ pc' = "pop" /\ outcome' = "response" /\ UNCHANGED <<error, faults>>
       \/ Escape(error) /\ Raise("any")
    /\ UNCHANGED <<app, n, exc, rv, session, finalization, teardown>>

\* Before ctx.pop(error) the finally clause calls the preserve_context hook, if the
\* server's environ has one, and should_ignore_error, if the application has one and
\* there is an error.  Either may raise: then nothing is popped, and the exception
\* replaces the response.
FinallyRaises ==
    /\ outcome' = "raised" /\ RaiseIn("finally", "any")
    /\ pc' = IF pushes > 1 THEN "streaming" ELSE "done"
    /\ UNCHANGED <<n, pushes, seen>>

\* Fault: the finally clause forgets the exception.
PopWithoutError ==
    /\ pc = "pop"
    /\ \/ FinallyRaises
       \/ /\ pushes' = pushes - 1
          /\ IF pushes > 1
             THEN pc' = "streaming" /\ UNCHANGED <<n, seen>>
             ELSE pc' = "teardown" /\ n' = 1 /\ seen' = NoExc
          /\ UNCHANGED <<outcome, faults>>
    /\ UNCHANGED <<app, exc, error, rv, session, finalization, torn>>

\* The finally clause; teardown on the last pop only.
Pop ==
    /\ pc = "pop"
    /\ \/ FinallyRaises
       \/ /\ pushes' = pushes - 1
          /\ IF pushes > 1
             THEN pc' = "streaming" /\ UNCHANGED <<n, seen>>
             ELSE /\ pc' = "teardown" /\ n' = 1
                  /\ seen' \in IF app.ignore THEN {error, NoExc} ELSE {error}
          /\ UNCHANGED <<outcome, faults>>
    /\ UNCHANGED <<app, exc, error, rv, session, finalization, torn>>

\* A generator that is not in the response is collected with the view's frame,
\* which an exception held by wsgi_app keeps alive.
DropStream ==
    /\ pushes = 2 /\ rv # "stream" /\ ~SafeMode
    /\ pc \notin {"user_exc", "streaming"}
    /\ pushes' = 1
    /\ UNCHANGED <<app, pc, n, exc, error, rv, session, outcome, finalization,
                   faults, torn, seen>>

\* The generator's block pops: the last time, unless the finally clause did not pop.
StreamPops(excs) ==
    /\ pushes' = pushes - 1
    /\ IF pushes > 1
       THEN pc' = "done" /\ UNCHANGED <<n, seen>>
       ELSE pc' = "late_teardown" /\ n' = 1 /\ seen' \in excs
    /\ UNCHANGED <<app, exc, error, rv, session, outcome, finalization, faults, torn>>

\* Fault: a generator that was not sent is never closed.
EndSentStream ==
    /\ pc = "streaming" /\ outcome = "response"
    /\ StreamPops({NoExc, GeneratorExit, "user"})

\* The server exhausts the response, closes it early, or the generator raises;
\* a generator that was not sent is only closed.
EndStream ==
    /\ pc = "streaming"
    /\ StreamPops(IF outcome = "response" /\ rv = "stream"
                  THEN {NoExc, GeneratorExit, "user"} ELSE {GeneratorExit})

\* Fault: the first callback that raises ends the loop.
TeardownStops ==
    /\ pc \in {"teardown", "late_teardown"} /\ n \in Tears
    /\ torn' = [torn EXCEPT ![n] = @ + 1]
    /\ \/ n' = n + 1 /\ UNCHANGED faults
       \/ n' = NTear + 1 /\ Raise("any")
    /\ UNCHANGED <<app, pc, exc, error, rv, session, pushes, outcome, finalization, seen>>

\* Each callback runs under _CollectErrors, and so does Request.close.
Teardown ==
    /\ pc \in {"teardown", "late_teardown"} /\ n \in Tears
    /\ torn' = [torn EXCEPT ![n] = @ + 1]
    /\ n' = n + 1
    /\ Raise("any") \/ UNCHANGED faults
    /\ UNCHANGED <<app, pc, exc, error, rv, session, pushes, outcome, finalization, seen>>

\* The collected errors are raised last, and out of wsgi_app's finally clause.
Popped ==
    /\ pc \in {"teardown", "late_teardown"} /\ n \notin Tears
    /\ outcome' = IF "teardown" \in faults THEN "raised" ELSE outcome
    /\ pc' = "done"
    /\ UNCHANGED <<app, n, exc, error, rv, session, finalization, faults, teardown>>

Next == \/ Push \/ Started \/ Before \/ Dispatch \/ HandleUserException
        \/ MakeResponse \/ AfterRequest \/ SaveSession \/ Finished
        \/ HandleException \/ Respond \/ Pop \/ DropStream \/ EndStream
        \/ Teardown \/ Popped

\* Callbacks return or raise in the end, and a server closes every response.
Spec == Init /\ [][Next]_vars /\ WF_vars(Next)

-----------------------------------------------------------------------------
Stages == {"push", "started", "before", "user_exc", "make_response", "after",
           "finished", "server_exc", "respond", "pop", "streaming", "teardown",
           "late_teardown", "done"}

\* Every variable keeps its type.
TypeOK ==
    /\ app \in [http : BOOLEAN, user : BOOLEAN, server : BOOLEAN,
                propagate : BOOLEAN, trap : BOOLEAN, ignore : BOOLEAN]
    /\ pc \in Stages
    /\ n \in Nat
    /\ exc \in Kinds \cup {NoExc}
    /\ error \in Kinds \cup {NoExc}
    /\ rv \in {"none", "value", "stream", "exception", "handled", "error"}
    /\ session \in {"unopened", "open", "null"}
    /\ pushes \in 0..2
    /\ outcome \in {"none", "response", "raised"}
    /\ ran \in SUBSET Afters
    /\ saved \in BOOLEAN
    /\ skipped \in BOOLEAN
    /\ called \in [Afters -> 0..2]
    /\ failed \in SUBSET Afters
    /\ faults \in SUBSET (Stages \cup {"dispatch", "session", "safe_response", "finally",
                                    "base"})
    /\ torn \in [Tears -> 0..1]
    /\ seen \in Kinds \cup {NoExc, GeneratorExit}

\* Every teardown callback runs exactly once for each request and its context is
\* popped, whatever raised before and whichever teardown callbacks raise
\* (docs/appcontext.rst:162), with one exception: when the preserve_context hook or
\* should_ignore_error raises out of the finally clause, none of them runs and the
\* context stays pushed.
TeardownComplete ==
    pc = "done" =>
        \/ pushes = 0 /\ \A i \in Tears : torn[i] = 1
        \/ "finally" \in faults /\ pushes = 1 /\ \A i \in Tears : torn[i] = 0

\* A response goes out unfinalized only after a failure in safe mode: otherwise
\* every after_request function and then save_session have completed on it,
\* even when an earlier finalization of the same request was abandoned.
SentMeansFinalized ==
    outcome = "response" /\ ~skipped => ran = Afters /\ (saved <=> session = "open")

\* What handle_exception is for: when exceptions are not propagated, a failing
\* push, view, hook, error handler or finalization is still answered; only a
\* BaseException, a failing handler of the 500 error (or signal), or a failure
\* after the response was made, that of the finally clause's own calls included,
\* reach the server.
AlwaysAnswered ==
    pc = "done" /\ outcome = "raised" =>
        \/ app.propagate
        \/ faults \cap {"base", "server_exc", "safe_response", "respond", "finally", "teardown"} # {}

\* wsgi_app's own pop ran the teardown: no generator was left to delay it.
NotDelayed == seen # GeneratorExit /\ ~(rv = "stream" /\ outcome = "response")

\* Unless a stream delays it, should_ignore_error hides it or the finally clause
\* raises before it, teardown is told of every exception that full_dispatch_request
\* did not turn into a response, even when a 500 response was sent.
TeardownSeesError ==
    pc = "done" /\ NotDelayed /\ ~app.ignore /\ "finally" \notin faults /\ seen = NoExc =>
        /\ faults \subseteq {"started", "before", "dispatch", "respond", "teardown"}
        /\ faults \cap {"started", "before", "dispatch"} # {} => rv \in {"exception", "handled"}

\* A request ends, however its callbacks fail: error handling does not loop.
Completes == <>(pc = "done")

=============================================================================
