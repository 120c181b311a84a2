------------------------------ MODULE Blueprints ------------------------------
(***************************************************************************)
(* Setting up a Flask application (src/flask/sansio): the setup methods of *)
(* applications and blueprints, what a blueprint defers, and the           *)
(* registration that replays it, one step at a time because each may raise *)
(* and because a server thread may handle the first request in between.    *)
(***************************************************************************)
EXTENDS Naturals, Sequences

CONSTANTS
    BPs,        \* blueprint objects
    Name,       \* [BPs -> names without a dot]
    Prefix,     \* [BPs -> sequences of path segments, <<>> for None]
    Subdomain,  \* [BPs -> sequences of labels, <<>> for None]
    CliGroup,   \* [BPs -> a name, "merged" for None, or "own"]
    HasStatic,  \* blueprints with a static folder
    Options,    \* what register_blueprint is given: [name, prefix, subdomain]
    Endpoints,  \* names of a blueprint's endpoints, without a dot
    EndpointNames, \* what the methods that allow a dot are given, as sequences
    ViewFuncs,
    ExcClasses, \* exception classes handlers are registered for
    Focuses,    \* tables filled, one in each behaviour: they never meet
    MaxCalls,   \* [owners -> Nat], bound on the setup calls
    MaxDepth    \* the interpreter's recursion limit, in nested blueprints

App    == "app"
None   == "none"
Owners == BPs \cup {App}

Lists == {"before_request_funcs", "after_request_funcs", "teardown_request_funcs",
          "template_context_processors", "url_value_preprocessors", "url_default_functions",
          "teardown_appcontext_funcs", "shell_context_processors"}
Dicts == {"filters", "tests", "globals"}

ASSUME FocusAssumption ==
    /\ Focuses \subseteq Lists \cup Dicts \cup {"handlers", "rules", "commands"}
    /\ App \notin BPs

\* Names, segments and labels are strings.
ASSUME NameAssumption ==
    /\ Name \in [BPs -> STRING]
    /\ Prefix \in [BPs -> Seq(STRING)] /\ Subdomain \in [BPs -> Seq(STRING)]
    /\ Options \subseteq [name : STRING, prefix : Seq(STRING), subdomain : Seq(STRING)]

VARIABLES
    focus,      \* the table this behaviour fills
    own,        \* [BPs -> what the blueprint holds and defers]
    blueprints, \* App.blueprints, an ordered dict; opts is history
    hooks,      \* the table in focus: [key -> functions in order]
    handlers,   \* error_handler_spec: [key -> [class -> function]]
    rules,      \* url_map; view and added are history
    views,      \* view_functions
    passed,     \* a setup method of App has passed its check and not run yet
    commands,   \* cli.commands
    got_first_request,
    stack,      \* registrations in progress, the innermost last
    count,      \* [Owners -> setup calls so far]
    done,       \* history: names whose registration returned
    aborted,    \* history: blueprints a registration of which raised
    assigned,   \* history: endpoints given a view without comparing it
    late        \* history: rules added since the first request came

marks   == <<assigned, late>>
tables  == <<hooks, handlers, rules, views, commands, marks>>
history == <<done, aborted>>
vars    == <<focus, own, blueprints, tables, got_first_request, passed, stack, count, history>>

\* A dotted name is the sequence of its parts; the application's key None is <<>>.
\* The tables are dicts and defaultdicts.
Root         == <<>>
At(f, k)     == IF k \in DOMAIN f THEN f[k] ELSE <<>>
Put(f, k, v) == [x \in DOMAIN f \cup {k} |-> IF x = k THEN v ELSE f[x]]
Update(f, g) == [x \in DOMAIN f \cup DOMAIN g |-> IF x \in DOMAIN g THEN g[x] ELSE f[x]]
Empty        == [x \in {} |-> {}]

Init ==
    /\ focus \in Focuses
    /\ own = [b \in BPs |-> [hooks |-> <<>>, handlers |-> Empty, views |-> Empty, cli |-> Empty,
                             deferred |-> <<>>, children |-> <<>>, once |-> FALSE]]
    /\ blueprints = <<>>
    /\ hooks = Empty /\ handlers = Empty /\ rules = {} /\ views = Empty /\ commands = Empty
    /\ got_first_request = FALSE /\ passed = FALSE
    /\ stack = <<>>
    /\ count = [o \in Owners |-> 0]
    /\ done = {} /\ aborted = {} /\ assigned = {} /\ late = 0

Names     == {blueprints[i].name : i \in DOMAIN blueprints}
Taken(bp) == \E i \in DOMAIN blueprints : blueprints[i].bp = bp

-----------------------------------------------------------------------------
(* Setup methods, called by the one thread that sets the application up. *)

Unlocked         == TRUE                         \* fault: the check is lost
UnlockedFor(b)   == TRUE

AppOpen          == ~got_first_request           \* _check_setup_finished
BlueprintOpen(b) == ~own[b].once

\* The setupmethod wrapper: it refuses by raising, which changes nothing.  On the
\* application the check and what follows are two steps: no lock is held when a
\* server thread handles the first request in between.
Open(o) == IF o = App THEN passed ELSE ~passed /\ BlueprintOpen(o)

Setup(o) ==
    /\ stack = <<>> /\ Open(o) /\ passed' = FALSE
    /\ count[o] < MaxCalls[o] /\ count' = [count EXCEPT ![o] = @ + 1]
    /\ UNCHANGED <<focus, blueprints, got_first_request, stack, history>>

\* A function, and whether its owner registers it for the whole application.
Func(o, wide) == [by |-> o, wide |-> wide, n |-> count[o]]

Stored(fs, f) == IF focus \in Dicts THEN <<f>> ELSE Append(fs, f)

AddHook(o, table) ==
    /\ focus = table /\ Setup(o)
    /\ IF o = App
       THEN hooks' = Put(hooks, Root, Stored(At(hooks, Root), Func(o, TRUE))) /\ UNCHANGED own
       ELSE own' = [own EXCEPT ![o].hooks = Append(@, Func(o, FALSE))] /\ UNCHANGED hooks
    /\ UNCHANGED <<handlers, rules, views, commands, marks>>

before_request(o)         == AddHook(o, "before_request_funcs")
after_request(o)          == AddHook(o, "after_request_funcs")
teardown_request(o)       == AddHook(o, "teardown_request_funcs")
context_processor(o)      == AddHook(o, "template_context_processors")
url_value_preprocessor(o) == AddHook(o, "url_value_preprocessors")
url_defaults(o)           == AddHook(o, "url_default_functions")

teardown_appcontext       == AddHook(App, "teardown_appcontext_funcs")
shell_context_processor   == AddHook(App, "shell_context_processors")
template_filter           == AddHook(App, "filters")
template_test             == AddHook(App, "tests")
template_global           == AddHook(App, "globals")

register_error_handler(o, c) ==
    /\ focus = "handlers" /\ Setup(o)
    /\ IF o = App
       THEN /\ handlers' = Put(handlers, Root, Put(At(handlers, Root), c, Func(o, TRUE)))
            /\ UNCHANGED own
       ELSE own' = [own EXCEPT ![o].handlers = Put(@, c, Func(o, FALSE))] /\ UNCHANGED handlers
    /\ UNCHANGED <<hooks, rules, views, commands, marks>>

\* Any name, and no comparison with the view the endpoint has.
endpoint(o, e) ==
    /\ focus = "rules" /\ Setup(o)
    /\ \E v \in ViewFuncs :
          IF o = App
          THEN views' = Put(views, e, v) /\ assigned' = assigned \cup {e} /\ UNCHANGED own
          ELSE own' = [own EXCEPT ![o].views = Put(@, e, v)] /\ UNCHANGED <<views, assigned>>
    /\ UNCHANGED <<hooks, handlers, rules, commands, late>>

command(o) ==
    /\ focus = "commands" /\ Setup(o)
    /\ IF o = App
       THEN commands' = Put(commands, <<"cmd">>, App) /\ UNCHANGED own
       ELSE own' = [own EXCEPT ![o].cli = Put(@, <<"cmd">>, o)] /\ UNCHANGED commands
    /\ UNCHANGED <<hooks, handlers, rules, views, marks>>

-----------------------------------------------------------------------------
(* Rules: the rule is in the map before the view function is compared. *)

NoClash(r) == FALSE                              \* fault: a view function is replaced

Clash(r) == r.view # None /\ r.endpoint \in DOMAIN views /\ views[r.endpoint] # r.view

MapRule(r) ==
    /\ rules' = rules \cup {[r EXCEPT !.added = ~Clash(r)]}
    /\ views' = IF r.view = None \/ Clash(r) THEN views ELSE Put(views, r.endpoint, r.view)
    /\ late' = IF got_first_request THEN late + 1 ELSE late

Rule(endp, prefix, subdomain, v) ==
    [endpoint |-> endp, prefix |-> prefix, subdomain |-> subdomain, view |-> v, added |-> FALSE]

add_url_rule(e) ==
    /\ focus = "rules" /\ Setup(App)
    /\ \E v \in ViewFuncs \cup {None} : MapRule(Rule(e, <<>>, <<>>, v))
    /\ UNCHANGED <<own, hooks, handlers, commands, assigned>>

-----------------------------------------------------------------------------
(* What a blueprint records: Blueprint.record and record_once. *)

record(b, d) ==
    /\ Setup(b)
    /\ own' = [own EXCEPT ![b].deferred = Append(@, d)]
    /\ UNCHANGED tables

route(b, e) ==
    /\ focus = "rules"
    /\ \E v \in ViewFuncs \cup {None} : record(b, [kind |-> "rule", ep |-> e, view |-> v])

record_once(b) == record(b, [kind |-> "once", f |-> Func(b, TRUE)])
OnceFor(b, table) == focus = table /\ record_once(b)

before_app_request(b)         == OnceFor(b, "before_request_funcs")
after_app_request(b)          == OnceFor(b, "after_request_funcs")
teardown_app_request(b)       == OnceFor(b, "teardown_request_funcs")
app_context_processor(b)      == OnceFor(b, "template_context_processors")
app_url_value_preprocessor(b) == OnceFor(b, "url_value_preprocessors")
app_url_defaults(b)           == OnceFor(b, "url_default_functions")
app_template_filter(b)        == OnceFor(b, "filters")
app_template_test(b)          == OnceFor(b, "tests")
app_template_global(b)        == OnceFor(b, "globals")

app_errorhandler(b, c) ==
    focus = "handlers" /\ record(b, [kind |-> "handler", class |-> c, f |-> Func(b, TRUE)])

\* A function of the user that raises when it is replayed.
record_raising(b) == record(b, [kind |-> "raise"])

nest(b, c, opts) ==
    /\ b # c /\ Setup(b)
    /\ own' = [own EXCEPT ![b].children = Append(@, [kind |-> "child", bp |-> c, opts |-> opts])]
    /\ UNCHANGED tables

-----------------------------------------------------------------------------
(* Registration.  A frame is one running call of Blueprint.register. *)

Top     == stack[Len(stack)]
Step(f) == <<[kind |-> "merge"]>> \o own[f.bp].deferred \o <<[kind |-> "cli"]>>
           \o own[f.bp].children
StaticRule == [kind |-> "rule", ep |-> "static", view |-> "static"]
Todo(f) == IF f.bp \in HasStatic THEN <<StaticRule>> \o Step(f) ELSE Step(f)
Doing(kind) == stack # <<>> /\ Top.at \in DOMAIN Todo(Top) /\ Todo(Top)[Top.at].kind = kind
Current     == Todo(Top)[Top.at]
Advanced    == [stack EXCEPT ![Len(stack)].at = @ + 1]

\* An exception leaves every register call; what they changed stays.
Abort == stack' = <<>> /\ aborted' = aborted \cup {stack[i].bp : i \in DOMAIN stack}
Advance == stack' = Advanced /\ UNCHANGED aborted

\* The check of a setup method of the application, called by the thread that sets
\* it up or by a deferred function; the call itself is the next step.
CallsSetup ==
    \/ stack = <<>> /\ count[App] < MaxCalls[App]
    \/ Doing("rule")
    \/ Doing("once") /\ Top.first /\ focus \in Dicts
    \/ Doing("handler") /\ Top.first

_check_setup_finished ==
    /\ CallsSetup /\ ~passed /\ AppOpen /\ passed' = TRUE
    /\ UNCHANGED <<focus, own, blueprints, tables, got_first_request, stack, count, history>>

\* The check raises in the middle of a registration.
Refused == ~passed /\ ~AppOpen /\ Abort

\* make_setup_state, with the name register has built.
State(b, opts, name, first) ==
    [bp |-> b, name |-> name, at |-> 1, first |-> first,
     prefix    |-> IF opts.prefix = <<>> THEN Prefix[b] ELSE opts.prefix,
     subdomain |-> IF opts.subdomain = <<>> THEN Subdomain[b] ELSE opts.subdomain]

FullName(b, opts, outer) == Append(outer, IF opts.name = None THEN Name[b] ELSE opts.name)

\* Blueprint.register up to its first step; `over` is the stack under the call.
Begin(b, opts, given, outer, over) ==
    LET name == FullName(b, opts, outer) IN
    IF name \in Names \/ Len(name) > MaxDepth
    THEN stack' = <<>> /\ aborted' = aborted \cup {over[i].bp : i \in DOMAIN over}
         /\ UNCHANGED <<own, blueprints>>
    ELSE /\ blueprints' = Append(blueprints, [name |-> name, bp |-> b, opts |-> given])
         /\ own' = [own EXCEPT ![b].once = TRUE]
         /\ stack' = Append(over, State(b, opts, name, ~Taken(b)))
         /\ UNCHANGED aborted

register_blueprint(b, opts) ==
    /\ stack = <<>> /\ Open(App) /\ passed' = FALSE
    /\ count[App] < MaxCalls[App] /\ count' = [count EXCEPT ![App] = @ + 1]
    /\ Begin(b, opts, opts, Root, <<>>)
    /\ UNCHANGED <<focus, tables, got_first_request, done>>

\* Fault: a prefix given to the child's registration replaces the parent's.
WithinOrGiven(parent, b, opts) ==
    [name      |-> opts.name,
     prefix    |-> IF opts.prefix = <<>> THEN parent.prefix \o Prefix[b] ELSE opts.prefix,
     subdomain |-> Subdomain[b] \o parent.subdomain]

\* What a child gains from the state of its parent.
Within(parent, b, opts) ==
    [name      |-> opts.name,
     prefix    |-> parent.prefix \o (IF opts.prefix = <<>> THEN Prefix[b] ELSE opts.prefix),
     subdomain |-> (IF opts.subdomain = <<>> THEN Subdomain[b] ELSE opts.subdomain)
                   \o parent.subdomain]

RegisterChild ==
    /\ Doing("child")
    /\ Begin(Current.bp, Within(Top, Current.bp, Current.opts), Current.opts, Top.name, Advanced)
    /\ UNCHANGED <<focus, tables, got_first_request, passed, count, done>>

Merged(table, key, part) == IF part = <<>> THEN table ELSE Put(table, key, part)

_merge_blueprint_funcs ==
    /\ Doing("merge") /\ Advance
    /\ LET b == own[Top.bp] IN
       /\ hooks' = Merged(hooks, Top.name, At(hooks, Top.name) \o b.hooks)
       /\ handlers' = Merged(handlers, Top.name, b.handlers)
       /\ views' = Update(views, b.views)
       /\ assigned' = assigned \cup DOMAIN b.views
    /\ UNCHANGED <<focus, own, blueprints, rules, commands, late, got_first_request, passed,
                   count, done>>

\* BlueprintSetupState.add_url_rule, through the setup method of the application.
DeferredRule ==
    /\ Doing("rule")
    /\ LET r == Rule(Append(Top.name, Current.ep), Top.prefix, Top.subdomain, Current.view) IN
       \/ Refused /\ UNCHANGED <<rules, views, late>>
       \/ passed /\ Clash(r) /\ Abort /\ MapRule(r)
       \/ passed /\ ~Clash(r) /\ Advance /\ MapRule(r)
    /\ passed' = FALSE
    /\ UNCHANGED <<focus, own, blueprints, hooks, handlers, commands, assigned,
                   got_first_request, count, done>>

\* Fault: the wrapper forgets first_registration.
DeferredAlways ==
    /\ Doing("once") /\ Advance /\ passed' = FALSE
    /\ hooks' = Put(hooks, Root, Stored(At(hooks, Root), Current.f))
    /\ UNCHANGED <<focus, own, blueprints, handlers, rules, views, commands, marks,
                   got_first_request, count, done>>

\* The wrapper of record_once.  A list of the application is appended to
\* directly, a template dictionary through the setup method.
DeferredOnce ==
    /\ Doing("once")
    /\ \/ ~Top.first /\ Advance /\ UNCHANGED hooks
       \/ Top.first /\ focus \in Dicts /\ Refused /\ UNCHANGED hooks
       \/ /\ Top.first /\ (focus \in Lists \/ passed) /\ Advance
          /\ hooks' = Put(hooks, Root, Stored(At(hooks, Root), Current.f))
    /\ passed' = FALSE
    /\ UNCHANGED <<focus, own, blueprints, handlers, rules, views, commands, marks,
                   got_first_request, count, done>>

DeferredHandler ==
    /\ Doing("handler")
    /\ \/ ~Top.first /\ Advance /\ UNCHANGED handlers
       \/ Top.first /\ Refused /\ UNCHANGED handlers
       \/ /\ Top.first /\ passed /\ Advance
          /\ handlers' = Put(handlers, Root, Put(At(handlers, Root), Current.class, Current.f))
    /\ passed' = FALSE
    /\ UNCHANGED <<focus, own, blueprints, hooks, rules, views, commands, marks,
                   got_first_request, count, done>>

DeferredRaise ==
    /\ Doing("raise") /\ Abort
    /\ UNCHANGED <<focus, own, blueprints, tables, got_first_request, passed, count, done>>

\* The commands of the blueprint, under a group or among the application's.
RegisterCommands ==
    /\ Doing("cli") /\ Advance
    /\ LET b == Top.bp IN
       commands' = IF own[b].cli = Empty THEN commands
                   ELSE IF CliGroup[b] = "merged" THEN Update(commands, own[b].cli)
                   ELSE IF CliGroup[b] = "own" THEN Put(commands, Top.name, b)
                   ELSE Put(commands, <<CliGroup[b]>>, b)
    /\ UNCHANGED <<focus, own, blueprints, hooks, handlers, rules, views, marks,
                   got_first_request, passed, count, done>>

RegisterReturns ==
    /\ stack # <<>> /\ Top.at \notin DOMAIN Todo(Top)
    /\ stack' = SubSeq(stack, 1, Len(stack) - 1)
    /\ done' = done \cup {Top.name}
    /\ UNCHANGED <<focus, own, blueprints, tables, got_first_request, passed, count, aborted>>

-----------------------------------------------------------------------------
(* The server: full_dispatch_request, and the end of Flask.run. *)

FirstRequest ==
    /\ ~got_first_request /\ got_first_request' = TRUE /\ late' = 0
    /\ UNCHANGED <<focus, own, blueprints, hooks, handlers, rules, views, commands, assigned,
                   passed, stack, count, history>>

ServerReset ==
    /\ got_first_request /\ got_first_request' = FALSE
    /\ UNCHANGED <<focus, own, blueprints, tables, passed, stack, count, history>>

AppSetup ==
    \/ teardown_appcontext \/ shell_context_processor
    \/ template_filter \/ template_test \/ template_global
    \/ \E e \in EndpointNames : add_url_rule(e)
    \/ \E b \in BPs, opts \in Options : register_blueprint(b, opts)

SharedSetup(o) ==
    \/ before_request(o) \/ after_request(o) \/ teardown_request(o)
    \/ context_processor(o) \/ url_value_preprocessor(o) \/ url_defaults(o)
    \/ command(o)
    \/ \E c \in ExcClasses : register_error_handler(o, c)
    \/ \E e \in EndpointNames : endpoint(o, e)

BlueprintSetup(b) ==
    \/ before_app_request(b) \/ after_app_request(b) \/ teardown_app_request(b)
    \/ app_context_processor(b) \/ app_url_value_preprocessor(b) \/ app_url_defaults(b)
    \/ app_template_filter(b) \/ app_template_test(b) \/ app_template_global(b)
    \/ \E c \in ExcClasses : app_errorhandler(b, c)
    \/ \E e \in Endpoints : route(b, e)
    \/ record_raising(b)
    \/ \E c \in BPs, opts \in Options : nest(b, c, opts)

Registration ==
    \/ RegisterChild \/ _merge_blueprint_funcs \/ DeferredRule \/ DeferredOnce
    \/ DeferredHandler \/ DeferredRaise \/ RegisterCommands \/ RegisterReturns

Next ==
    \/ _check_setup_finished
    \/ AppSetup
    \/ \E o \in Owners : SharedSetup(o)
    \/ \E b \in BPs : BlueprintSetup(b)
    \/ Registration
    \/ FirstRequest \/ ServerReset

Spec == Init /\ [][Next]_vars

-----------------------------------------------------------------------------
(* Properties *)

Entry(n) == blueprints[CHOOSE i \in DOMAIN blueprints : blueprints[i].name = n]

\* Names under which a blueprint's own steps are over; its children may remain.
Replayed == done \cup {stack[i].name : i \in {j \in DOMAIN stack :
                stack[j].at + Len(own[stack[j].bp].children) > Len(Todo(stack[j]))}}

\* Once a blueprint is registered, and whatever is called on the blueprint or on
\* the application later, the functions and handlers that apply under its name
\* are the ones the blueprint holds, each once.
HooksOfBlueprint ==
    \A n \in Replayed : LET b == own[Entry(n).bp] IN
        At(hooks, n) = b.hooks /\ At(handlers, n) = b.handlers

Occurs(f, fs) == {i \in DOMAIN fs : fs[i] = f}

\* However often a blueprint is registered, under other names or inside other
\* blueprints, a function it adds for the whole application is called once; and
\* it is there unless a registration of the blueprint raised.
AppWideOnce ==
    focus \in Lists =>
    \A b \in BPs : \A i \in DOMAIN own[b].deferred : own[b].deferred[i].kind = "once" =>
        LET places == Occurs(own[b].deferred[i].f, At(hooks, Root)) IN
        /\ \A p, q \in places : p = q
        /\ places = {} => b \in aborted \/ \A n \in Replayed : Entry(n).bp # b

\* The sequences of a sequence, one after the other.
Concat(ss) == LET f[i \in 0..Len(ss)] == IF i = 0 THEN <<>> ELSE f[i - 1] \o ss[i]
              IN  f[Len(ss)]

\* The prefix and the subdomain each level of a name was given, or has.
Own(given, default) == IF given = <<>> THEN default ELSE given
PrefixAt(n, i)      == LET e == Entry(SubSeq(n, 1, i)) IN Own(e.opts.prefix, Prefix[e.bp])
SubdomainAt(n, i)   == LET e == Entry(SubSeq(n, 1, i)) IN Own(e.opts.subdomain, Subdomain[e.bp])
FullPrefix(n)       == Concat([i \in 1..Len(n) |-> PrefixAt(n, i)])
FullSubdomain(n)    == Concat([i \in 1..Len(n) |-> SubdomainAt(n, Len(n) + 1 - i)])

\* Every rule of a registered blueprint is in the map under the blueprint's
\* dotted name, with the prefixes of all its levels from the outermost in and
\* their subdomains from the innermost out, once for every place it is mounted.
RulesOfBlueprint ==
    \A n \in Replayed : LET b == own[Entry(n).bp] IN
        \A i \in DOMAIN b.deferred : b.deferred[i].kind = "rule" =>
            [Rule(Append(n, b.deferred[i].ep), FullPrefix(n), FullSubdomain(n), b.deferred[i].view)
                EXCEPT !.added = TRUE] \in rules

\* A rule whose addition returned is served by the view function it was added
\* with, and one whose addition raised, which stays in the map, by that of an
\* earlier rule: no later registration and no nesting changes it, only `endpoint`,
\* of the application or of a blueprint that is registered later, with that name.
RuleKeepsView ==
    \A r \in rules : r.view # None /\ r.endpoint \notin assigned =>
        /\ r.endpoint \in DOMAIN views
        /\ r.added <=> views[r.endpoint] = r.view

\* After the first request at most one rule comes into the map, by a call that had
\* passed its check before: a registration that is running fails at its next rule.
OneLateRule == late <= 1
===============================================================================
