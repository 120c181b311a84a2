# Verification of the Flask framework and of the Spring REST API

The repository holds two programs.

* `projeto-1-flask` is the Flask web framework (Python): a request is served by
  pushing an application context, running callbacks of the application, turning
  whatever they return or raise into a response, and popping the context.
* `projeto-2-spring-rest-data-security` is a REST API (Java, Spring Boot): users
  log in and get JSON web tokens, and with these manage organizations, groups,
  members and marathons.

They share no code and exchange no messages. Each is modelled on its own.

All paths below are relative to the two projects' directories.

## 1. Inventory

### Flask

| Component | State it keeps | Operations | Interacts with |
|---|---|---|---|
| Application context, `src/flask/ctx.py` | the context variable `_cv_app` (one value per thread or greenlet); per context `_cv_token`, `_push_count`, the request, the session | `push`, `pop`, `copy`, `with ctx:`, `copy_current_request_context`, `after_this_request` | pushed and popped by `wsgi_app`, generators, the test client, the command line, and code of the application |
| Streaming, `src/flask/helpers.py` | a suspended generator inside `with ctx` | `stream_with_context`: open, advance, exhaust, close, collect | holds a push of the context beyond the end of the request |
| Request cycle, `src/flask/app.py` | locals of one call of `wsgi_app`: the exception, the response, `error` | dispatch, `handle_user_exception`, `handle_exception`, `finalize_request`, `process_response`, teardown | callbacks of the application at every stage; the session interface; the context |
| Registration and blueprints, `src/flask/sansio/` | URL map, view functions, registries of hooks and handlers of the application (`_got_first_request` locks them); own hooks, deferred functions and children of each blueprint (`_got_registered_once` locks them) | the setup methods of both, `register_blueprint`, `Blueprint.register` | `register` replays a blueprint into the tables of the application; the request cycle reads them |
| Sessions, `src/flask/sessions.py` | a dictionary with `accessed`, `modified`, `permanent`; the signed cookie in the browser; the current key and its predecessors | `open_session`, `save_session`, `flash`, `get_flashed_messages` | opened by the push, saved by the finalization, read back by the next request |
| Tagged JSON, `src/flask/json/` | the tags of a serializer and their order | `register`, `dumps`, `loads`, the conversions of the default provider | what a session is written as |
| Test client, `src/flask/testing.py` | `preserve_context`, `_new_contexts`, `_context_stack`, its cookies | `open`, `session_transaction`, `__enter__`, `__exit__` | pushes contexts of requests that are over again |
| Configuration, `src/flask/config.py` | a dictionary, with dictionaries in it | `from_mapping`, `from_object`, `from_pyfile`, `from_file`, `from_envvar`, `from_prefixed_env` | run by factories, read by all parts |
| Command line, `src/flask/cli.py` and `Flask.run` | the environment of the process, the loaded application, the active context; the same again in the reloader's child | dotenv files, `--debug`, discovery, `ScriptInfo.load_app`, `run`, commands | the child inherits the environment of the parent; a command runs in a context |
| Templating, `src/flask/templating.py` | the loaders of the application and its blueprints | lookup, `render_template`, streaming | uses the tables of the registration and the context |
| Views, wrappers, logging, signals, debug helpers | none that outlives a call | | |

What is hard here:

* one context may be pushed several times, by owners that do not know of each
  other (the server's call, a nested block, a suspended generator, the test
  client), on several workers through copies, and each owner pops once;
* a push or a pop may raise half-way, after part of the state was changed;
* the pop of the wrong context is refused, and then nobody pops it again;
* callbacks raise at any stage, and the handling of an exception runs callbacks
  that may raise too: handlers, `after_request` functions, the session, signals,
  teardown functions;
* a streamed response ends after the call that made it;
* a registration replays what several blueprints deferred, each step may raise, the
  steps before it stay, and a server thread may handle the first request in between;
* requests of one browser load the same cookie, answer in any order or not at all,
  while keys are rotated and cookies age;
* the test client pushes contexts again whose requests are over, around requests
  that raise, redirect, stream, and around contexts of the test itself;
* the same variable comes from the shell, two kinds of files and two options, in a
  process and in its reloaded child, and code breaks between two reloads.

What makes it correct: no context is active on two workers or reachable from two
stacks; the number of pushes equals what is owed by those who will pop; teardown
runs once for each request, after everybody has finished with the context, unless what
the server's call runs before it fails; a
response is sent only after every `after_request` function and the session have
seen it; every failure is answered; errors reach teardown; the cycle ends. What a
blueprint holds is what a request finds under its names, once, in the documented
order, and a registration that the first request overtakes ends at its next rule. A
session comes back as it was stored, written by those only who changed it. The debugger
agrees with the application it debugs, or with its own option, and no exception that an
edit brings leaves a developer without a server.

### Spring API

| Component | State it keeps | Operations | Interacts with |
|---|---|---|---|
| Authentication: `AuthenticationService`, `LogoutService`, `JwtService`, `JwtAuthenticationFilter`, `UserService` | tables `users` and `tokens`; the tokens clients hold; the locals of every request | register, authenticate, refresh, logout, the filter, change of the password | every protected endpoint is behind the filter |
| Directory: organizations, groups, members, marathons, addresses, with their converters | their tables; a `ModelMapper` shared by all requests | create, update, delete, list | converters are called by the services; JPA cascades |
| Documents, DTOs, start-up, exception handler | none | | the exception handler answers every exception |

What is hard here: the services have no transactions of their own, so each call
of a repository commits alone and requests interleave between them; a query's
result is used after the row has changed; a JWT is a pure function of its subject
and the current second; an insert may be refused after the earlier calls of the
same request have committed.

What makes it correct: a token that was logged out stays out; a token admits its
owner only, in its time; a login ends the sessions before it; an e-mail belongs
to one user; a password is changed by who knows it.

## 2. Modules

| Module | What it is |
|---|---|
| `AppCtx` | contexts, pushes, pops, copies, blocks and generators on any number of workers |
| `CtxStack` | what `docs/appcontext.rst` promises: a stack of contexts per worker |
| `AppCtxStack` | the refinement mapping from the linked tokens of `AppCtx` to the stacks of `CtxStack` |
| `MCAppCtx` | constants and symmetry for TLC |
| `AppCtxProofs` | proofs about `AppCtx`, and that it implements `CtxStack` |
| `RequestCycle` | one request through `wsgi_app`, every callback free to raise |
| `MCRequestCycle`, `RequestCycleProofs` | its instance and its proofs |
| `Blueprints` | setup methods, deferred functions and registration, one step at a time |
| `BlueprintLookup` | what a request finds in the tables: the order of functions, the handler, the template |
| `MCBlueprints`, `BlueprintsProofs` | their instance and their proofs |
| `CookieSession` | the session of overlapping requests of one browser, and its cookie |
| `JsonTag` | the tagged serializer, as functions of values |
| `SessionValues` | both: sessions whose values are written with the tags that applications register |
| `MCCookieSession`, `CookieSessionProofs` | its instance and its proofs |
| `TestClient` | one test with its client |
| `MCTestClient`, `TestClientProofs` | its instance and its proofs |
| `Config` | the loads of a configuration, as operators |
| `Startup` | the command line, in the parent and in the reloader's child; extends `Config` |
| `MCStartup`, `StartupProofs` | its instance and its proofs |
| `TokenAuth` | the requests of the authentication component, interleaved |
| `Sessions` | what the authentication promises: sessions that are opened once, end for good, and let their owner in |
| `TokenAuthSessions` | the refinement mapping from rows and requests to `Sessions` |
| `MCTokenAuth`, `TokenAuthProofs` | its instances and its proofs |
| `Induction` | induction over the natural numbers and recursive functions, for the proofs |

Operators whose comment begins with "fault" are variants of a definition with a
plausible bug. No specification uses them: the property named in `PROJECT.json`
fails when one takes the place of the definition, which shows that the property
depends on that code.

### AppCtx

`active[w]` is the value of `_cv_app` on worker `w`. A pushed context `c` keeps in
`token[c]` the value it replaced (`_cv_token`), so that the contexts of a worker
form a linked list. `Push` and `Pop` are the two methods, with the early return of
a push that is not the first, the checks of a pop, and the order of its effects.
`PopRefused` is the pop that raises `RuntimeError` before the count is touched.
The other actions are the callers: `Serve` and `Exit` are the two ends of
`wsgi_app`; `Enter`, `Reenter` and `Exit` those of `with` blocks; `RunCopy` is a
function wrapped by `copy_current_request_context`, on any worker; `OpenStream`
and `CloseStream` are a generator's; `EnterFails` is a `with` statement whose push
raises after the context was made active. `frames[w]` is the call stack of the
worker: the contexts its open blocks will pop. `pushed`, `lost`, `torn` and
`served` are history: calls of push, pushes no pop will undo, teardowns, and the
contexts made by `wsgi_app`.

Two constants open the environment. With `Undisciplined` a generator may be closed
on any worker at any time, as the garbage collector does, and a block may re-enter
a context that is not the active one; without it callers end what they began in
order. With `NestedPushFails` the push of a `with` block may raise.

Left out: `g`, flashed messages and the URL adapter of a context, which neither
push nor pop reads to decide anything. Signals and `match_request` are the reason
why a push may raise. `Request.close` is the set `closed`.

### CtxStack and AppCtxStack

`CtxStack` has a stack per worker; a push adds a context that is on no stack, a
pop removes the top and tears it down. `StackOf(w)` unfolds the linked list of a
worker from the active context along the tokens, for as many steps as there are
contexts (`FiniteAssumption`: they are finitely many). `RefinesStack` says that every
step of `AppCtx`, of any caller, is a step of `CtxStack` or none.

### RequestCycle

`pc` is the stage of `wsgi_app`; the actions follow the code from `Push` to
`Popped`. Where an exception goes depends on the `try` statement around the stage:
`InDispatch` for that of `full_dispatch_request`, `InRequest` for the inner one of
`wsgi_app`, `InFinalize` for `finalize_request`, which in safe mode logs the failure
and sends the response as it is. Exceptions are of four kinds because the code asks
four things: an `HTTPException` with a code, one that is returned unchanged, any
other `Exception`, a `BaseException`. `app` is the configuration, chosen once: are
there handlers, and the options that propagate, trap or hide exceptions. `Pop` is the
`finally` clause: `FinallyRaises` when the hook of the debugger or
`should_ignore_error`, both code of others, raises before `ctx.pop`; then nothing is
popped, and a stream that is closed later does not pop the last push either. `ran`,
`saved` and `skipped` say what this finalization did; `called`, `failed`, `faults`
and `torn` are history.

Left out: which handler is looked up (`BlueprintLookup` has it), what `make_response`
accepts beyond returning or raising, asynchronous views (which `ensure_sync` turns
into calls), and the automatic OPTIONS response (one of the values of a view).

### Blueprints and BlueprintLookup

`own[b]` is what a blueprint holds: its functions, handlers, views and commands, the
functions it deferred (`record` and `record_once`, each with what it will do) and its
children. `hooks`, `handlers`, `rules`, `views` and `commands` are the tables of the
application. A dotted name is the sequence of its parts and the application's key
`None` is the empty one. There is an action for each setup method, all through
`Setup`. The wrapper of `setupmethod` checks and then calls, without a lock; on the
application these are two steps, `_check_setup_finished`, which sets `passed`, and the
method itself, so that the first request may come in between; the deferred functions
that call a setup method of the application take the same two. A blueprint's lock
changes in the same thread, and its methods are one step. `Endpoints` are names
`Blueprint.add_url_rule` accepts, `EndpointNames`, dotted ones too, those that `endpoint`
and the application's `add_url_rule` accept. `assigned` and `late` are history: the
endpoints that were given a view without a comparison, and the rules added since the
first request.

`Blueprint.register` is a frame of `stack`: it runs the static rule, the merge of the
blueprint's own tables, the deferred functions, the commands and then the children,
each a step of its own, for a step may raise (a refused setup method, a clash of view
functions, a name that is taken, a function of the user), and then `Abort` drops
every frame and keeps what they changed. `FirstRequest` and `ServerReset` set
`_got_first_request` from the server's thread, between any two steps. A blueprint
that contains itself is registered until the interpreter's recursion limit, which is
`MaxDepth`.

`focus` is the table that one behaviour fills. No step reads one table to write
another, so the behaviours with one table each show what those with all show.

`BlueprintLookup` has what is found afterwards: `request_blueprints`, the order in
which functions run before and after a request, `_find_error_handler` with its three
loops, and the template loaders with `EXPLAIN_TEMPLATE_LOADING`. Each is compared with
the sentence of the documentation, stated without the loops. `MroAssumption` is
Python's: the method resolution order of a class begins with the class. The status
code of every class in it is known.

Left out: opening resources and `root_path`, which are lookups without state.

### CookieSession, JsonTag and SessionValues

`req[r]` is a request: its stage, the cookie it sent, its session with `modified` and
`accessed`, and its answer. A view is any sequence of reads, writes, `clear`,
`permanent`, `flash` with a category and `get_flashed_messages` with a
`category_filter`. `Deliver` gives an answer to the
browser, `Lose` loses it; they come in any order. `jar` is the browser's cookie with
the key that signed it and its time. `RotateKey` and `DropFallbacks` are the
administrator's. With no key the session is the null session, whose writes fail.
`disturbed` says that something happened after which a flashed message may rightly
be shown twice or be lost.

`JsonTag` has the serializer as functions of values: `register` with its `force` and
`index`, `tag`, `dumps`, what the default JSON provider makes of other types, and
`loads`. A value is its type, its text as a sequence of `Pieces`, and its items with
their keys; `Levels` has the values by how deep containers lie in one another, and each
function that recurses in the code (`tag`, `_untag_scan`) is a recursive function over
these, made of what is done with one value when its items have been done (`Tagged`,
`Scanned`). `Kept` says what ought to come back: the value itself, with the losses the
conversions are known for. `Writable` are the values that can be written, with at most
`MaxDepth` containers around each: the keys of one dictionary are of one type, as the
provider sorts them, and no two are written alike; a `Foo` needs its tag. A dictionary's
items have no order of their own. Left out: a container or bytes inside a dataclass,
which the provider converts without tags.

`SessionValues` joins the two. `Registrations` are the sequences of calls of `register`
that applications make, of three classes: the `OrderedDict` of the docstring, the `Foo`
of the tests, and another tag for dates. `Registration` has the one condition that a
class that replaces another is put in front, since it would otherwise never be tried
(section 6).

### TestClient

`cv` is the thread's stack of active contexts; `push` and `pop` are those of `AppCtx`
on one worker, as functions of the state. `Start` is `FlaskClient.open` up to the view:
it leaves the contexts of `_context_stack` first. `Finish` is the end of `wsgi_app`,
which puts a context that is to be preserved into `_new_contexts`, and `Return` the end
of `open`, which pushes those again. `calls` are the calls of `open` in progress: two
while a redirect is followed. A test may also hold streamed responses, contexts of its
own and a session transaction. `tangled` and `mixed` note tests that do not use these
like a stack, and for which nothing is promised. External: Werkzeug follows redirects
and closes the response before; `ExitStack` leaves the rest after one that raised.

### Config and Startup

A configuration is a function from paths of keys to values, and a load maps it to the
result with a flag that says whether the load raised: what it had changed by then
stays. `EnvAssumption` says what `sorted(os.environ)` gives `from_prefixed_env`: each
variable once, a name before the names it begins.

`proc[p]` is a process, the one the developer started or the reloader's child: its
stage, its environment, its application with its configuration and context. The
actions follow a command: the eager callbacks (`_env_file_callback`, `_set_debug`), the
import and the search for an application, a factory that loads a configuration,
`load_app`, the context of a command, `run_command`, or `Flask.run` for a script. A
command line has the options for debug mode, of the group and of `run`, those for the
reloader and the debugger, and the arguments of `FlaskGroup`. `Edit` breaks or repairs
the code (`Damage`: it raises an `Exception`, or exits), `Reload` starts the child
again, and `ReloaderEnds` follows a child that ended with another code than 3. An
environment variable holds the source it came from, for that is what the order of the
files decides. For `FLASK_DEBUG` its text matters as well: `text` has it for each source,
`True` is how `get_debug_flag` reads it, `Option` how click reads it as the option of
that variable, which refuses some words, and after `_set_debug` the variable holds what
was written back, `"1"` or `"0"`.

Left out: certificates, `prepare_import`, the output of `routes` and `shell`,
`get_namespace`, the reloader of a script. External: Werkzeug's reloader, python-dotenv.

### TokenAuth

The rows of `users` and `tokens` are sequences indexed by id; `revoked` is the set
of ids whose row is marked, since `expired` and `revoked` are always set together.
A JWT is its subject, second of issue and expiration: two logins of one user in one
second get the same token. `pc[t]` is the stage of the request of thread `t`; each
action is one call of a repository with the code up to the next call, because each
call commits by itself. `SaveToken` models the unique key of `tokens.token`: the
request fails after what it committed before. `findByEmail` has three outcomes: no
row, one row, and an exception when there are more, as the schema has no unique key
on the e-mail. The filter checks in two steps, expiration and user first, then the
stored token. `mark` and `loggedOut` are history: how many tokens were stored when
the request began, and the tokens whose logout has committed.

External to the code and modelled from its use: Spring Data's repositories (a call
is a transaction), JJWT's whole seconds and its exception on an expired token, the
authentication manager (which loads the user and compares the password), the
database's keys. A password is compared as a value; hashing is left out. What a
protected endpoint does is `Serve`.

`Sessions` has no requests in progress. A session is a token and the user it is of; it
is open, then ended; `serving[t]` is the user a thread serves. `TokenAuthSessions` maps
the rows that are not revoked to the open sessions, the revoked ones to the ended, and
the local `user` of a request that the filter has let through to `serving`. The insert
of a token is then `Open`, the save of revoked rows `Close`, the filter's second step
`Admit`, the end of the endpoint `Release`; every other step stutters. `Single` is the
same with at most one open session a user, which the services intend and keep only
while no two requests issue tokens of one user at a time (`Exclusive`).

The README of the API (line 42) shows a registration that asks for a role; the
service registers every user with the role USER, and so does the model.

## 3. Runs

| Run | Instance | What it shows |
|---|---|---|
| `ctx_any` | 2 workers, 2 contexts, 2 requests, depth 2, 3 pushes a context, 1 generator a context, undisciplined, failing pushes | `TypeOK`, `UniqueHolder`, `PushesOwed`, `TeardownIsLast`, `RefinesStack` |
| `ctx_orderly` | 2 workers, 2 contexts, depth 2, 2 pushes a context, disciplined, no failing push, fairness | `TeardownEvenOnError`, `PushedIsPopped` |
| `cycle` | 1 before, 2 after, 2 teardown functions, all 64 configurations | `TypeOK`, `TeardownComplete`, `SentMeansFinalized`, `AlwaysAnswered`, `TeardownSeesError`, `Completes` |
| `registration` | 2 blueprints, one with a static folder; 2 sets of options, 1 endpoint, and its dotted name for the application, 2 views, 2 exception classes; 2, 1 and 2 setup calls of the blueprints and the application; depth 3 | `HooksOfBlueprint`, `AppWideOnce`, `RulesOfBlueprint`, `RuleKeepsView`, `OneLateRule`, `LevelsNest`, `HandlerAsPromised`, `TemplateOrder` |
| `session` | 2 requests with 2 operations each, 1 user, 2 categories, 2 keys, lifetime 1, times 0 to 2; 6 registrations of tags and almost 18,000 values up to three containers deep | `VaryWhenUsed`, `FlashOnce`, `ReadersKeepWrites`, `WritesReachBrowser`, `SurvivesDrop`, `SessionLossless` |
| `client` | 4 contexts, 1 of the test's own at a time | `FixturesRemain`, `TornAtMostTwice`, `WritesAdd`, `SessionShown` |
| `startup` | 9 command lines, environments over 4 sources and 6 texts of FLASK_DEBUG, 9 modules, 4 objects, 3 files, 2 loads of the configuration, 2 edits, fairness | `EnvAsDocumented`, `EnvFound`, `DebugAgrees`, `ServesAgain` |
| `auth_any` | 2 threads, 2 e-mails, 1 password, lifetimes 2 and 3, times 0 to 2, 3 users, 2 tokens | `LoggedOutStaysOut`, `AdmitsOwner`, `LoginEndsOthers`, `RefinesSessions` |
| `auth_serial` | 2 threads, 2 e-mails, 1 password, lifetimes 1 and 2, times 0 to 1, 2 users, 3 tokens; only states that satisfy `Exclusive` | `AtMostOneValid` |
| `auth_relogin`, `auth_email`, `auth_password` | small instances of the same | a statement of the repository that the code does not keep (section 6) |

Why these bounds are enough to be interesting:

* Two workers and two contexts give every relation two contexts can have: on one
  stack in either order, on two stacks, a copy of one another, one pushed again
  after it was popped. Three pushes of one context are a first push, a nested one
  and a generator, all open at the same time. Depth 2 lets a block be left while
  another context is active above it.
* Two `after_request` functions are the least for which the remaining ones differ
  from the one that raised, and two teardown functions for which one runs after
  another has raised. The proofs remove these bounds.
* Two blueprints can be nested in either order or in each other, and each mounted
  twice, under its own name and under another. Each call may come before, during or
  after a registration, and raise in it; two application calls register the same
  blueprint again, or one and then another rule or function.
* Two overlapping requests are what a lost update needs; two operations let a view
  read and write, flash and show, or write and clear. A lifetime shorter than the
  clock lets cookies expire, and two keys allow one rotation, with the old cookie
  verified by a fallback until it is dropped. `SessionLossless` is about values, not
  about the interleaving: three containers deep is a tagged value in a dictionary
  that looks like a tag in another container.
* Four contexts are a request, a redirect, its target and either a transaction or a
  context of the test; a context is preserved in one request and left in the next.
* The command lines take each option in the values that the code distinguishes, in
  different combinations, `--debug --no-debugger` among them; two edits break the code
  and repair it, or the reverse, or break it in both ways.
* Two threads give every interleaving of two requests, with logins, refreshes,
  logouts and filtered calls of the same user; time passes the end of an access
  token. Three users allow an e-mail to be stored twice next to the administrator.
  `auth_serial` goes no further from a state in which two requests issue tokens of one
  user; logins of different users, logouts and filtered calls still interleave, and
  three tokens make a user log in, refresh and log in again next to another user.
* Symmetry is declared over workers, contexts and requests of `ctx_any`, over the
  requests and categories of `session` and the threads of `auth_any` and `auth_serial`, which no action tells apart;
  no run with symmetry checks a liveness property.

`CHECK_DEADLOCK FALSE` is set in all runs: the bounds on pushes, calls, time, rows and
edits, the end of the one request, and a command that has ended, really stop the
system.

### Fairness

* `AppCtx!FairSpec` is weakly fair to the end of blocks and of generators on every
  worker: a `with` statement ends when its body does, `wsgi_app` has a `finally`
  clause, and the WSGI protocol has the server exhaust or close each response.
  Nothing has to start. Under it `PushedIsPopped` holds when callers are orderly.
* `RequestCycle!Spec` is weakly fair to the next step of the request: callbacks
  return or raise, and the server closes the response. `Completes` then says that
  error handling cannot loop.
* `Startup!FairSpec` is weakly fair to each process and to the reloader: a process
  that can go on does, and the reloader starts the child again when it has ended
  with the code for a change, or ends with it. The developer is free, nobody has to
  edit. Under it `ServesAgain` says that whatever `Exception` an edit brought, a server
  comes up that serves the application or its error.
* The other specifications have no fairness: their properties are safety.

## 4. Proofs

The theorems hold for every value of the constants that satisfies the assumptions
named in the modules. Every property of the passing runs is the conclusion of one, but
for the liveness properties.

### Induction

Lists, prefixes of names, folds and loops need an induction, and a theorem whose
parameter is a predicate cannot be used by the provers here. `Induction` states it for a
set in the place of the predicate (`SetInduction`, and `UpTo` for a bound) and proves it
from the pigeonhole principle: the predecessor would map the numbers below the first
one outside the set into one number less. `Iterates` derives from it that a recursive
function over `0..n` exists and satisfies its equations. The proofs below
unfold the models' recursive functions (`StackOf`, `Concat`, `from_prefixed_env`,
`_get_source_explained`) with it.

### AppCtxProofs

Assumes `CtxAssumption`, that workers, contexts and the special values are different
things and workers finite, `BoundAssumption`, that bounds are numbers, and
`FiniteAssumption`, that contexts are finitely many.

* `TypeCorrect`, `ContextsUnshared` (`UniqueHolder`), `CountsAccounted`
  (`PushesOwed`), `TeardownLast` (`TeardownIsLast`).
  The invariant is `IInv == TypeOK /\ Linked /\ DepthOK /\ PushesOwed`.
  `UniqueHolder` counts holders, which is awkward to preserve: `Linked` says it
  without counting (a context that is pushed has one holder, one that is not has
  none) together with `CountsMatch` (a context is pushed exactly when its count is
  positive). `PushesOwed` alone is not inductive, as a pop must be known to find a
  positive count and a block's position in a call stack must stay below `MaxDepth`.
  The lemmas on `Held` say what opening and leaving a block do to the number of
  positions a context has. `TeardownLast` follows from the accounting: at the last
  pop the count is one, and the caller is the one it is owed to.
* `TeardownRuns` (`TeardownEvenOnError`), under the hypothesis `Disciplined`: callers end
  what they began in order, and no push of a `with` block raises. Without either a pop
  is refused and the teardown is lost (section 6). The invariant `Orderly` relates call
  stacks to linked lists: the innermost block is that of the active context (`Nested`),
  the tokens lead from each block to the one around it (`Chained`, `Bottom`), the blocks
  of one context are on one worker without another one between them (`Together`), and a
  context outlives its blocks only for a generator (`Lingering`). No pop is refused then,
  so nothing is lost, and a count that is owed to nobody is zero.
* `StackRefined` (`RefinesStack`): every step, of callers of any discipline, is a step of
  `CtxStack`. `Linear` says that the tokens of each worker form a list without
  repetitions; by induction along it `StackOf` is that list, so a push appends to it, a
  pop removes the last, and the lists of other workers do not change.

### RequestCycleProofs

Assumes `CountAssumption`.

* `TypeCorrect`, `EveryTeardownRuns` (`TeardownComplete`), `NothingUnfinalized`
  (`SentMeansFinalized`), `FailuresAnswered` (`AlwaysAnswered`).
  The invariant adds to the types what is known at each stage: which teardown
  functions were called up to `n`, whether the `finally` clause has raised, which `after_request` functions completed, that
  a finalization runs at most twice (the second time in safe mode), and where an
  exception can still come from once `error` is set.
* `TeardownTold` (`TeardownSeesError`): `ToldUpTo` says where an exception that was
  raised can be at each stage. While `wsgi_app` holds none, only `full_dispatch_request`
  has caught some, and what it sent says so.

### BlueprintsProofs

Assumes `NameAssumption` (names, segments and labels are strings), `FocusAssumption` (the
application is no blueprint), and for the lookups `MroAssumption` and `LoaderAssumption`.
All are for any blueprints nested to any depth.

* `MapCloses` (`OneLateRule`): every addition of a rule uses up a check (`passed`), and no
  check passes once the first request has come. So at most the check that was passed
  before it is used after it: `LateInv`.
* `HooksKept` (`HooksOfBlueprint`): the invariant is `Typed /\ EntriesOK /\ Running(stack)
  /\ DoneOK /\ KeysOK`. A registration that is running owns its name (`Running`: the
  entry of each frame is there, no two frames share a name, and past the merge the
  tables match what the blueprint holds, before it they have nothing under the name), so
  the merge appends to nothing; `KeysOK` says that nothing else writes under a
  blueprint's name; and the blueprint is locked as soon as it has an entry
  (`EntriesOK`), so that what it holds cannot change behind the tables.
* `ViewsKept` (`RuleKeepsView`): a rule that comes with another view than its endpoint has
  is the clash the code refuses, and leaves the table of views alone; what overwrites a
  view without comparing, `endpoint` and the merge of a blueprint's own views, is in
  `assigned`.
* `OnceKept` (`AppWideOnce`): only the first registration of a blueprint runs what it
  deferred for the whole application. `OnceInv` says of a first registration in progress
  that it has added exactly the functions it has passed (`Added`), that its blueprint has
  no other registration before its own steps are over (`OnlyFrame`), and that there is
  one first registration of a blueprint (`OneFirst`); before, the list has nothing of it
  (`Unknown`).
* `RulesMapped` (`RulesOfBlueprint`): a registration works with the prefix and subdomain
  that `FullPrefix` and `FullSubdomain` compute for its name from the entries of all
  levels (`Located`), and has mapped the rules it passed (`MappedTo`). A new name is its
  parent's and one level more, so its prefix is its parent's and its own (`FullOfNew`, by
  induction), and later entries do not change those of older names (`FullStays`).
* `LevelsNested` (`LevelsNest`): with a name, its outer names are registered and their
  merge is over (`NamesNested`, `OuterMerged`), so each level's table is what its
  blueprint holds. The lemmas on `Concat` (first and last part, reversal) are proved by
  induction.
* `HandlersPromised` (`HandlerAsPromised`): the three loops end at the least of the
  triples of code, level and class that have a handler (`FirstTriple`), which is what the
  docstring describes level by level.
* `TemplatesOrdered` (`TemplateOrder`): the search that stops and the one that goes on to
  explain find the same loader, the first one (`FastFirst`, `ExplainedFirst`).

### CookieSessionProofs

Assumes `BoundAssumption`, and for the values `DepthAssumption`, `TextAssumption` (what
the serializer itself writes is text) and `ValuesAssumption`.

* `TypeCorrect` (of `TypeOK`, which no run needs to repeat), `VaryAlways`
  (`VaryWhenUsed`), `ReadersKeep` (`ReadersKeepWrites`), `WritesReach`
  (`WritesReachBrowser`), `DropSurvived` (`SurvivesDrop`).
  The invariant says of each request what `modified` and `accessed` mean (`Tracked`),
  what its answer is once it is made (`Answered`), and of each cookie, in the browser
  or on its way, that it was signed with the key that was then current (`Genuine`).
  The last is what makes `SurvivesDrop` true after any number of rotations.
* `FlashedOnce` (`FlashOnce`): `Dated` holds whatever is lost or overlaps: every message,
  in a cookie, a session or pulled, was flashed by an earlier operation, so a new one
  is new. `Quiet` holds until something disturbs the order: at most one request is
  active, the browser's cookie can be verified, and each message is at one place, the
  browser's cookie, the session of the one request that runs, or what was pulled,
  displayed or left out by its category (`Pulled`).
* `ValuesLossless` and `SessionsLossless` (`SessionLossless`): for any sequence of
  registrations, any values, any text and any depth. The argument has three parts. First,
  every serializer is `Good`, by induction over the calls of `register` (`GoodStep`): a
  key has the class that bears it, `TagDict` is tried before `PassDict`, the default
  classes stay, and of the two classes for dates the one that is tried first is the one
  in the table. Hence the class that takes a value is the one that reads it (`Reads`,
  `DateHit`). Second, the recursive functions exist and satisfy their equations (`TagIs`,
  `JsonIs`, `ScanIs`, `KeptIs`), and what a value becomes is a value again, at most three
  levels deeper for the tags of each container (`JsonIn`, `Room`). Third, for each type, a
  value is read as it should be when its items are (`NodeOK`, from `BytesNode` to
  `RecordNode`); the interesting one is `DictWritten`: the only key of a dictionary that
  looks like a tag is escaped, an escaped key is never a tag (`EscapedKey`), and no other
  dictionary is taken for one. `GoodLossless` is the induction over the depth.

### StartupProofs

Assumes `StartAssumption` (with the clause that `--env-file`, an option of `flask`, is not
given to a script) and `EnvAssumption`.

* `DebuggerAgrees` (`DebugAgrees`); and, proved for every command line and module and
  therefore left out of the runs, `TypeCorrect` (`TypeOK`), `OneApp`
  (`NeverSecondApp`), `NoServerOnImport` (`OneServer`), `CommandContext`
  (`CommandInContext`), `ReloaderSurvives` (`FailsAtOnce` and `KeepsRunning`).
  The invariant says where a command line leads (`OnItsWay`), what is known of a
  loaded application (`LoadedOK`), and how the two processes are related (`Family`):
  a child exists only under a parent that watches, or has ended with a child that the
  code ended (`exited`). Since the parent has read its environment file the child,
  which reads the same one, cannot fail there; and since the parent's environment was
  complete (`Complete`) and its FLASK_DEBUG no word that the option refuses (`Tame`), the
  files bring the child no new one, and its options cannot fail either.
* `EnvironmentDocumented` (`EnvAsDocumented`): what each stage has loaded, in terms of the
  sources (`EnvStart`, `EnvLoaded`), and has written back (`EnvSettled`). Reading the files
  again, as a child does, changes nothing that is set, and the option reads what it has
  written as what it was (`OptionSettles`).
* `VariablesFound` (`EnvFound`): `Holds` says that a value is at its path with a dict at
  every step of the way. A later variable in sorted order is never a step of that way,
  so assigning it, and creating the dicts on its own way, keeps it; both loops are
  unfolded by `Iterates`. That a variable may find a value that is no dict on its way, and
  the load raises then, is the hypothesis of the property; `Counted` tells the two apart.

### TokenAuthProofs

Assumes `AuthAssumption`: the administrator is one of the users, and the lifetimes of
access and refresh tokens differ, as those configured do.

* `TypeCorrect` (of `TypeOK`, which no run needs to repeat), `LogoutEffective`
  (`LoggedOutStaysOut`), `OwnerAdmitted`
  (`AdmitsOwner`), `LoginEnds` (`LoginEndsOthers`).
  `IInv` has four parts next to the types. `RowsOwned`: the row of a token belongs
  to the user whose e-mail is its subject, and is an access token. `KnownStored`:
  an access token is known to clients only when it is stored, so that a token that
  is being checked cannot be stored afterwards for somebody else. `OutRevoked`: all
  rows of a logged-out token are revoked. `Working(s)`: what the locals of a request
  mean at each stage. Rows are never removed, revocations never undone, and no value
  stored twice; `StepEffects` says so once for all nineteen actions, and the
  preservation of `Working` is proved separately for the thread that steps and for
  the others. `OwnerAdmitted` holds although two users may share an e-mail: the
  query then fails, or finds the only user there is.
* `OneValid` (`AtMostOneValid`): `Spec /\ []Exclusive => []AtMostOneValid`, for any number
  of threads, as long as no two requests issue tokens of one user at a time. `SInv` adds
  to `IInv` that each valid token of the user of a request is one the request has found
  before it revokes (`Serial`), and none is left when it stores its own. Other requests
  may be at any stage: they issue tokens of other users, or only revoke. Without the
  hypothesis the property is false, as the two transactions of a login let another
  one between them.
* `SessionsRefined` (`RefinesSessions`), with no hypothesis but `AuthAssumption`: every
  step of the interleaved requests is a step of `Sessions` or a stutter. `RInv` is what
  the mapping needs: no value is in two rows (`Unique`), so that a new row opens a session
  nobody has had, and the rows a request has found belong to one user (`FoundMine`), so
  that a revocation ends sessions of one user, though rows may have been revoked by
  another request in between. A token is looked up and its request let through in one
  step, whose row is then open.
* `SingleRefined`: with `[]Exclusive` the requests implement `Sessions` with one session a
  user, from `SInv` and the first refinement: what opens is the only one of its owner.

### TestClientProofs

Assumes `BoundAssumption`.

* `ClientLeavesFixtures` (`FixturesRemain`), `TornOnceOrTwice` (`TornAtMostTwice`),
  `NoWriteLost` (`WritesAdd`), `SessionIsShown` (`SessionShown`), for any number of
  contexts, requests, redirects, streams and transactions.
  The invariant has, next to the types, what each part of the client may hold. `Fresh`: a
  context not made yet is nowhere. `Alive`: one not torn down is active. `Budget`: the
  teardowns of a context and those its holders can still cause are at most two. `ViewOK`,
  `Kept` and `Transaction`: whose session is the cookie's. `Orderly`, while the test uses
  its contexts like a stack: what is active is exactly the test's own contexts, those
  the client keeps and the one of the view, with the pushes each of them accounts for.

### What is checked but not proved

* Liveness (`PushedIsPopped`, `Completes`, `ServesAgain`): the prover does not reason
  about fairness and ENABLED.

## 5. Hazards and the properties aimed at them

`PROJECT.json` lists each with its line. Those without a property:

* the request that copies of a context share and the first one closes (`ctx.py:366`),
  and the functions a blueprint appends to a serving application
  (`blueprints.py:618`): the code does not prevent either, see section 6;
* a logout or login that commits after the filter has looked the token up
  (`JwtAuthenticationFilter.java:57`): the code accepts that window, and
  `LoggedOutStaysOut` is about the lookup;
* the type map that the converters share (`GroupConverter.java:44`), the partial
  writes of an organization (`OrganizationService.java:71`) and its second address
  (`OrganizationService.java:79`): the directory is not modelled.

Four hazards have properties that stop short of what the code does not prevent: a write
that overwrites a concurrent one (`sessions.py:373`), a request within a session
transaction (`testing.py:170`), a load that raises in the middle (`config.py:178`), and
tokens issued while a login runs (`AuthenticationService.java:86`). The models have these
behaviours; the properties exempt them and say so.

## 6. Where the code and what is said of it differ

Shown by a run:

1. `auth_relogin`: the second login in one second revokes the first token and fails.
2. `auth_email`: two overlapping registrations store one e-mail twice.
3. `auth_password`: a change compares with the copy of the user that the filter has
   loaded, so it may succeed with a password that is no longer the current one.

Met while modelling, and part of the models (the properties say what is kept
beside them):

* A context pushed by a `with` block stays active when its push raises; the pop of the
  request is then refused and its teardown does not run, though `app.py:1586` says
  that teardown is called even if an error occurs. `TeardownEvenOnError` is checked
  without such pushes.
* The hook under `werkzeug.debug.preserve_context` and `should_ignore_error` are called in
  the `finally` clause of `wsgi_app` before the pop (`app.py:1608`). When one raises, the
  context stays pushed and no teardown function runs, though the same line 1586 and
  `docs/appcontext.rst:162` say that they are called. `TeardownComplete` has the exception.
* Workers are said to act independently on copies (`ctx.py:202`), but the first to
  finish closes the request that all share.
* The remaining `after_request` functions are called after one has raised
  (`scaffold.py:502`), on the response to the error.
* Teardown receives an exception that a handler has handled (`scaffold.py:530`), if
  the handler is for the 500 error.
* A function recorded with `record_once` for the whole application is appended to its
  list without the setup check (`blueprints.py:618`), so a registration that runs
  while the first request arrives changes a serving application; only the URL map and
  the template dictionaries are locked.
* That lock is checked before a method and holds nothing during it (`scaffold.py:46`): a
  rule whose check was passed before the first request may be added after it, without the
  error that `docs/lifecycle.rst:41` speaks of. That page says of the check (line 50) that
  it does not detect all cases; `OneLateRule` says that this one is a single rule.
* A rule whose view function clashes stays in the URL map after the error
  (`sansio/app.py:653`), and its URL is served by the other view.
* The `endpoint` decorator of a blueprint stores the view under the name as given,
  without the blueprint's name; and that of an application takes a dotted name, and
  replaces the view of a blueprint's rule without a comparison (`scaffold.py:462`).
* A handler for an exception class with a code is not found for a subclass with
  another code, for handlers are sorted by code first.
* A request of a client block that follows redirects leaves the contexts of all of them
  preserved, though the comment at `testing.py:230` says that closing the preserved ones
  first prevents it. Preserved over a streamed response that is still open, a context is
  popped in the wrong order; the properties of `TestClient` exclude such a test (`mixed`,
  `tangled`).
* `register(force=True)` replaces a tag in the table but leaves the old one in the
  order (`json/tag.py`), so the old class still writes and the new one reads, unless
  `index=0` puts the new one first.
* Of two overlapping requests that both write the session, the last answer wins, and a
  request inside a session transaction is overwritten when the block ends
  (`testing.py:170`): the cookie is the whole store. `ReadersKeepWrites` and `WritesAdd`
  say what is kept.
* `get_flashed_messages` with a `category_filter` pulls all messages from the session and
  returns some (`helpers.py:393`): those of other categories are shown only if another call
  of the same request asks for them. `docs/patterns/flashing.rst` describes the filter as
  one of the results only.
* A token that a concurrent login of the same user stores between the read and the write
  of `revokeAllUserTokens` stays valid next to the new one
  (`AuthenticationService.java:86`); `AtMostOneValid` is about logins that do not overlap.
* `from_mapping` stores a nested dictionary without a copy (`config.py`), so a
  variable that sets a key in it changes it for every application made from the same
  object.
* A built-in command runs in whatever context is active (`cli.py:396`), that of
  another application too, though its docstring speaks of the application of the
  script; `CommandInContext` is about the application's own commands.
* The error of a reloaded module is caught as an `Exception` (`cli.py:956`): code that calls
  `sys.exit` while it is imported ends the child and the reloader with it, unless its code
  is 3. `KeepsRunning` and `ServesAgain` are about the others.
* The debugger may be off in debug mode and on without it, by `--no-debugger` and
  `--debugger` or `use_debugger` (`docs/debugging.rst:75`), and a `FlaskGroup` made with
  `set_debug_flag=False` may serve an application in debug mode without it: `DebugAgrees`
  says what it follows.
* `FLASK_DEBUG` is the option of `flask` as well (`cli.py:585`): what get_debug_flag reads as
  true, such as `off`, the option reads as false and writes back as `0`, and words it does
  not know are a usage error.
* An edit of `.env` does not reach a reloaded child: it inherits what its parent has
  loaded, and files never replace that (`cli.py:758`).

## 7. Not modelled, and the plan

Not modelled because they have no behaviour to get wrong that a model would show:
views, wrappers, logging, signals (a signal is a callback that may raise, part of the
actions above), debug helpers, DTOs, the OpenAPI configuration, examples and tests.

The directory of the API is not modelled because most of what it does is done by
libraries: what a `save` of a converted entity writes depends on the merge of JPA, on
which entities are attached, and on the type map of ModelMapper, none of it under
`src/`. A faithful module has to model these as external parts first.

To come, in this order:

1. `Directory`: organizations, groups, members and addresses over an external model of
   merge, dirty checking and the shared type map; writes that are not one transaction.
   Composed of services and converters, with two interleaved requests.
2. The options of the JSON provider and responses made from JSON; the certificates of
   `run` and the reloader of a script.
