-------------------------------- MODULE Startup --------------------------------
(***************************************************************************)
(* From the command line to a served application: src/flask/cli.py, the    *)
(* debug flag and the flags of the environment in src/flask/helpers.py,    *)
(* and Flask.run.  The reloader runs the command again in a child process, *)
(* which inherits the environment, while the developer edits the code.     *)
(***************************************************************************)
EXTENDS Config, FiniteSets

CONSTANTS
    Environments, \* what sets variables: [files, text], see below
    Commands,   \* command lines, see below
    Modules,    \* what importing a module may give: [state, attrs, flasks, runs]
    Objects,    \* settings in objects, as trees
    Files,      \* settings in files: [state, items]
    Outer,      \* contexts that may be active when the command is invoked
    MaxOps,     \* [Procs -> Nat], bound on the loads of the configuration
    MaxEdits    \* bound on the edits of the code

ASSUME StartAssumption ==
    /\ MaxEdits \in Nat
    /\ \A e \in Environments : e.text \in [{"shell", "-e", ".env", ".flaskenv"}
                                   -> {"true", "false", "no", "off", "odd", "empty"}]
    /\ \A c \in Commands :
          /\ c.debug \in {"none", "1", "0"} /\ c.run_debug \in {"none", "1", "0"}
          /\ c.name = "script" => ~c.env                \* an option of `flask`

\* A command line has the options env, debug, run_debug (of `run`), reload and
\* debugger, given with the command or in its variables (FLASK_RUN_RELOAD); the
\* arguments load_dotenv and set_debug_flag of FlaskGroup; FLASK_SKIP_DOTENV as
\* skip; the name of the command, or script for Flask.run; and app.
Sources == {"shell", "-e", ".env", ".flaskenv"}
DEBUG   == <<"DEBUG">>
Procs   == {"parent", "child"}
App     == "app"
None    == "none"

VARIABLES
    files,      \* [Sources -> keys they define]; the shell is the environment given
    text,       \* what FLASK_DEBUG is in each source, see below
    dotenv,     \* python-dotenv is installed
    cmd,        \* the command line
    broken,     \* what the code on disk does when it is imported
    edits,
    proc,       \* [Procs -> pc, environ, app, config, context, ...]
    started,    \* history: servers started while a module was imported
    ever,       \* history: a child process has been started
    exited      \* history: the code has ended a child process, by sys.exit say

user == <<files, text, dotenv, cmd>>
vars == <<user, broken, edits, proc, started, ever, exited>>

\* cli is FLASK_RUN_FROM_CLI, called the factories that ran, config[DEBUG] is debug.
New == [pc |-> "off", environ |-> [k \in {} |-> None], cli |-> FALSE, app |-> None,
        called |-> {}, guessed |-> FALSE, config |-> [p \in {DEBUG} |-> "0"], ops |-> 0,
        context |-> None, debugger |-> FALSE]

Damage == {"no", "raises", "exits"}

First == IF cmd.name = "script" THEN "factory" ELSE "env"

Init ==
    /\ \E e \in Environments : files = e.files /\ text = e.text
    /\ dotenv \in BOOLEAN
    /\ cmd \in Commands
    /\ broken \in Damage /\ edits = 0
    /\ \E o \in Outer :
          proc = [p \in Procs |->
                    IF p = "child" THEN New
                    ELSE [New EXCEPT !.pc = First, !.context = o,
                                     !.environ = [k \in files["shell"] |-> "shell"]]]
    /\ started = 0 /\ ever = FALSE /\ exited = FALSE

At(p, pc)      == proc[p].pc = pc
Become(p, rec) == proc' = [proc EXCEPT ![p] = rec]
Rest           == UNCHANGED <<user, broken, edits, started, ever, exited>>

\* FLASK_DEBUG is "1" or "0", as the options write it, or what its source says:
\* true for all but 0, false, no and nothing (get_debug_flag).  The option of
\* click knows more words for false (off), and refuses odd ones; nothing is no
\* option.  As a setting, no is a string, and true.
Digit(b)          == IF b THEN "1" ELSE "0"
Says(v, words)    == v \in Sources /\ text[v] \in words
True(v)           == v = "1" \/ Says(v, {"true", "off", "odd"})
Setting(v)        == True(v) \/ Says(v, {"no"})
Option(v)         == IF Says(v, {"odd"}) THEN "refused" ELSE IF Says(v, {"empty"}) THEN None
                     ELSE Digit(v = "1" \/ Says(v, {"true"}))
get_debug_flag(e) == DEBUG \in DOMAIN e /\ True(e[DEBUG])
Set(e, k, v)      == [x \in DOMAIN e \cup {k} |-> IF x = k THEN v ELSE e[x]]

-----------------------------------------------------------------------------
(* Environment variables: load_dotenv, --env-file, --debug *)

get_load_dotenv(default) == IF cmd.skip = "unset" THEN default ELSE cmd.skip = "0"

\* Later files replace what earlier ones say.
Data(given, defaults) ==
    LET default == IF defaults THEN files[".flaskenv"] \cup files[".env"] ELSE {}
        extra   == IF given THEN files["-e"] ELSE {}
    IN [k \in default \cup extra |-> IF k \in extra THEN "-e"
                                     ELSE IF k \in files[".env"] THEN ".env" ELSE ".flaskenv"]

\* Fault: the files replace what the environment has.
OverEnviron(environ, given, defaults) ==
    LET d == Data(given, defaults) IN
    IF ~dotenv THEN environ
    ELSE [k \in DOMAIN environ \cup DOMAIN d |-> IF k \in DOMAIN d THEN d[k] ELSE environ[k]]

load_dotenv(environ, given, defaults) ==
    LET d == Data(given, defaults) IN
    IF ~dotenv THEN environ
    ELSE [k \in DOMAIN environ \cup DOMAIN d |-> IF k \in DOMAIN environ THEN environ[k] ELSE d[k]]

make_context == TRUE                             \* FLASK_RUN_FROM_CLI

\* The eager callbacks; --env-file without python-dotenv is a usage error.
_env_file_callback(p) ==
    /\ At(p, "env")
    /\ LET defaults == get_load_dotenv(cmd.load_dotenv)
           r == [proc[p] EXCEPT !.cli = make_context]
       IN IF cmd.env /\ ~dotenv THEN Become(p, [r EXCEPT !.pc = "failed"])
          ELSE Become(p, [r EXCEPT !.pc = "options",
                                   !.environ = IF cmd.env \/ defaults
                                               THEN load_dotenv(@, cmd.env, defaults) ELSE @])
    /\ Rest

\* A built-in command in the context of some application loads none (with_appcontext).
After(p) == IF cmd.name = "routes" /\ proc[p].context # None THEN "command" ELSE "load"

\* The options of the group, then those of `run`, which has the option as well.
\* FLASK_DEBUG is the option of the group if that is not given (auto_envvar_prefix),
\* and a usage error if it is no boolean; what is given is written to it.
_set_debug(p) ==
    /\ At(p, "options")
    /\ LET e     == proc[p].environ
           own   == IF cmd.debug = None /\ DEBUG \in DOMAIN e THEN Option(e[DEBUG]) ELSE cmd.debug
           given == IF cmd.name = "run" /\ cmd.run_debug # None THEN cmd.run_debug ELSE own
       IN Become(p, IF own = "refused" THEN [proc[p] EXCEPT !.pc = "failed"]
                    ELSE [proc[p] EXCEPT !.pc = After(p),
                              !.environ = IF given = None THEN @ ELSE Set(@, DEBUG, given)])
    /\ Rest

-----------------------------------------------------------------------------
(* Finding the application.  A result: what was found, "no app" for a       *)
(* NoAppException, "error" for another Exception, "exit" for a SystemExit;   *)
(* and the factories called.                                                *)

Result(app, called) == [app |-> app, called |-> called]

IsFunction(kind) == kind \in {"factory", "needs args", "type error", "exits", "function"}
Attr(m, n)       == IF n \in DOMAIN m.attrs THEN m.attrs[n] ELSE None
Instances(m)     == m.flasks \cup {n \in DOMAIN m.attrs : m.attrs[n] = "flask"}

\* Calling a function: it may need arguments, raise a TypeError of its own, end
\* the process, or return something else.
Called(kind, with_args) ==
    CASE kind = "factory"    -> IF with_args THEN "no app" ELSE App
      [] kind = "needs args" -> IF with_args THEN App ELSE "no app"
      [] kind = "type error" -> "error"
      [] kind = "exits"      -> "exit"
      [] OTHER               -> None

\* create_app, then make_app if create_app is no function or returns no application.
Factories(m) ==
    LET one == Called(Attr(m, "create_app"), FALSE)
        two == Called(Attr(m, "make_app"), FALSE)
        functions(names) == {n \in names : IsFunction(Attr(m, n))}
    IN IF one # None THEN Result(one, {"create_app"})
       ELSE Result(IF two = None THEN "no app" ELSE two, functions({"create_app", "make_app"}))

find_best_app(m) ==
    CASE \E n \in {"app", "application"} : Attr(m, n) = "flask" -> Result(App, {})
      [] OTHER -> IF Instances(m) = {} THEN Factories(m)
                  ELSE Result(IF Cardinality(Instances(m)) = 1 THEN App ELSE "no app", {})

\* `module:name` or `module:name(args)`; arguments for an instance are ignored.
find_app_by_string(m, name, with_args) ==
    LET kind == Attr(m, name) IN
    IF kind = "flask" THEN Result(App, {})
    ELSE IF Called(kind, with_args) = None THEN Result("no app", {name})
    ELSE Result(Called(kind, with_args), {name})

\* An ImportError of the module itself is none if the module is optional.
locate_app(m, optional) ==
    CASE m.state = "missing"        -> Result(IF optional THEN None ELSE "no app", {})
      [] m.state = "import error"   -> Result("no app", {})
      [] m.state = "raises"         -> Result("error", {})
      [] m.state = "exits"          -> Result("exit", {})
      [] OTHER -> IF cmd.app.name = None THEN find_best_app(m)
                  ELSE find_app_by_string(m, cmd.app.name, cmd.app.args)

\* What ScriptInfo.load_app imports: the module given, or wsgi.py, or app.py.
Imported(wsgi, app) ==
    LET m == IF cmd.app.given \/ wsgi.state # "missing" THEN wsgi ELSE app
    IN IF broken # "no" /\ m.state = "ok" THEN [m EXCEPT !.state = broken] ELSE m

-----------------------------------------------------------------------------
(* Loading: import the module and find the application, whose factory       *)
(* configures it; set its debug flag.                                       *)

\* A failure ends the command, except an Exception in the reloader's child, where
\* a server is started that raises it for every request (run_command).
LoadFails(p, failure) ==
    IF p = "child" /\ cmd.name = "run" /\ failure # "exit"
    THEN [proc[p] EXCEPT !.pc = "run", !.app = "error"]
    ELSE [proc[p] EXCEPT !.pc = "failed"]

\* A call of Flask.run in the module is ignored under the command.
Import(p) ==
    /\ At(p, "load")
    /\ \E wsgi, app \in Modules :
          LET m == Imported(wsgi, app)
              r == locate_app(m, ~cmd.app.given)
          IN /\ Become(p, IF r.app = App
                          THEN [proc[p] EXCEPT !.pc = "factory", !.called = r.called,
                                    !.guessed = cmd.app.name = None /\ Instances(m) # {}]
                          ELSE LoadFails(p, r.app))
             /\ started' = IF m.runs /\ m.state = "ok" /\ ~proc[p].cli THEN started + 1 ELSE started
             /\ exited' = (exited \/ (p = "child" /\ r.app = "exit"))
    /\ UNCHANGED <<user, broken, edits, ever>>

\* The module or its factory ends the process on its way.
Exits(p) ==
    /\ At(p, "factory") /\ Become(p, LoadFails(p, "exit"))
    /\ exited' = (exited \/ p = "child")
    /\ UNCHANGED <<user, broken, edits, started, ever>>

Configure(p, r) ==
    /\ At(p, "factory") /\ proc[p].ops < MaxOps[p]
    /\ Become(p, IF r.ok THEN [proc[p] EXCEPT !.config = r.config, !.ops = @ + 1]
                 ELSE LoadFails(p, "error"))
    /\ Rest

FromEnv(p)    == Configure(p, from_prefixed_env(proc[p].config, proc[p].environ))
FromObject(p) == \E o \in Objects : Configure(p, from_object(proc[p].config, o))
FromFile(p)   ==
    \E f \in Files, silent \in BOOLEAN, named \in BOOLEAN :
        \/ Configure(p, from_pyfile(proc[p].config, f, silent))
        \/ Configure(p, from_file(proc[p].config, f, silent))
        \/ Configure(p, from_envvar(proc[p].config, named, f, silent))

\* Fault: the debug flag is set before the application configures itself.
FlagKept(p) ==
    /\ At(p, "factory") /\ cmd.name # "script"
    /\ Become(p, [proc[p] EXCEPT !.app = App, !.pc = IF cmd.name = "run" THEN "run" ELSE "context"])
    /\ Rest

\* The end of ScriptInfo.load_app.
load_app(p) ==
    /\ At(p, "factory") /\ cmd.name # "script"
    /\ LET debug == Digit(get_debug_flag(proc[p].environ)) IN
       Become(p, [proc[p] EXCEPT !.app = App,
                                 !.config = IF cmd.set_debug_flag THEN Assign(@, DEBUG, debug) ELSE @,
                                 !.pc = IF cmd.name = "run" THEN "run" ELSE "context"])
    /\ Rest

\* FlaskGroup.get_command, for a command of the application: push its context
\* unless it is the active one; with_appcontext finds it then.
get_command(p) ==
    /\ At(p, "context")
    /\ Become(p, [proc[p] EXCEPT !.pc = "command", !.context = App])
    /\ Rest

CommandReturns(p) ==
    /\ At(p, "command") /\ Become(p, [proc[p] EXCEPT !.pc = "done"])
    /\ Rest

-----------------------------------------------------------------------------
(* Serving: run_command, Flask.run, and the reloader of Werkzeug            *)

\* The reloader starts the command again in the environment of its parent.
Child(parent) == [New EXCEPT !.pc = "env", !.environ = parent.environ]

Choice(option, default) == IF option = None THEN default ELSE option = "on"

\* Fault: no server is started for an application that could not be loaded.
NoErrorServer(p) ==
    /\ At(p, "run") /\ proc[p].app = App
    /\ LET debug == get_debug_flag(proc[p].environ)
           reload == p = "parent" /\ Choice(cmd.reload, debug)
           mine == [proc[p] EXCEPT !.pc = IF reload THEN "watching" ELSE "serving",
                                   !.debugger = Choice(cmd.debugger, debug)]
       IN /\ proc' = IF reload THEN [parent |-> mine, child |-> Child(mine)]
                     ELSE [proc EXCEPT ![p] = mine]
          /\ ever' = (ever \/ reload)
    /\ UNCHANGED <<user, broken, edits, started, exited>>

\* The end of run_command.  run_simple starts the command again in a child
\* process if the reloader is used, and watches for changes.
run_command(p) ==
    /\ At(p, "run")
    /\ LET debug == get_debug_flag(proc[p].environ)
           reload == p = "parent" /\ Choice(cmd.reload, debug)
           mine == [proc[p] EXCEPT !.pc = IF reload THEN "watching" ELSE "serving",
                                   !.debugger = Choice(cmd.debugger, debug)]
       IN /\ proc' = IF reload THEN [parent |-> mine, child |-> Child(mine)]
                     ELSE [proc EXCEPT ![p] = mine]
          /\ ever' = (ever \/ reload)
    /\ UNCHANGED <<user, broken, edits, started, exited>>

\* Flask.run in a script: the files, then FLASK_DEBUG, then the argument; the
\* debugger is another one.
run(p) ==
    /\ At(p, "factory") /\ cmd.name = "script"
    /\ LET loads   == get_load_dotenv(cmd.load_dotenv)
           environ == IF loads THEN load_dotenv(proc[p].environ, FALSE, TRUE) ELSE proc[p].environ
           from_env == IF loads /\ DEBUG \in DOMAIN environ
                       THEN Assign(proc[p].config, DEBUG, Digit(get_debug_flag(environ)))
                       ELSE proc[p].config
           config  == IF cmd.debug = None THEN from_env ELSE Assign(from_env, DEBUG, cmd.debug)
       IN Become(p, [proc[p] EXCEPT !.pc = "serving", !.app = App, !.environ = environ,
                                    !.config = config, !.debugger = Choice(cmd.debugger, Setting(config[DEBUG]))])
    /\ Rest

\* The developer edits the code.  A child that serves notices and ends.
Edit ==
    /\ ever /\ edits < MaxEdits /\ edits' = edits + 1 /\ broken' \in Damage \ {broken}
    /\ proc' = [proc EXCEPT !.child.pc = IF @ = "serving" THEN "changed" ELSE @]
    /\ UNCHANGED <<user, started, ever, exited>>

\* A child that ends with the code 3, its own for a change or the code's, is
\* started again; with another one the reloader ends as well.
Reload ==
    /\ At("parent", "watching") /\ (At("child", "changed") \/ At("child", "failed"))
    /\ Become("child", Child(proc["parent"]))
    /\ Rest

ReloaderEnds ==
    /\ At("parent", "watching") /\ At("child", "failed")
    /\ Become("parent", [proc["parent"] EXCEPT !.pc = "failed"])
    /\ Rest

Boot(p) ==
    \/ _env_file_callback(p) \/ _set_debug(p) \/ Import(p) \/ Exits(p)
    \/ FromEnv(p) \/ FromObject(p) \/ FromFile(p) \/ load_app(p)
    \/ get_command(p) \/ CommandReturns(p) \/ run_command(p) \/ run(p)

Next == (\E p \in Procs : Boot(p)) \/ Edit \/ Reload \/ ReloaderEnds

Spec == Init /\ [][Next]_vars

\* The processes keep running and the reloader keeps watching; nobody has to edit.
FairSpec == Spec /\ (\A p \in Procs : WF_vars(Boot(p))) /\ WF_vars(Reload \/ ReloaderEnds)

-----------------------------------------------------------------------------
(* Properties *)

Stages == {"off", "env", "options", "load", "factory", "context", "command", "run",
           "watching", "serving", "changed", "done", "failed"}

TypeOK ==
    /\ cmd \in Commands /\ broken \in Damage
    /\ edits \in 0..MaxEdits /\ started \in Nat
    /\ \A p \in Procs : proc[p].pc \in Stages

\* What the options of the command line set themselves.
Optioned == IF cmd.debug = None /\ cmd.run_debug = None THEN {} ELSE {DEBUG}
Loaded(s) == CASE s = "shell" -> TRUE
               [] s = "-e"    -> cmd.env /\ dotenv
               [] OTHER       -> get_load_dotenv(cmd.load_dotenv) /\ dotenv
Order     == <<"shell", "-e", ".env", ".flaskenv">>
Expected(k) ==
    LET is == {i \in 1..4 : Loaded(Order[i]) /\ k \in files[Order[i]]}
    IN IF is = {} THEN None ELSE Order[CHOOSE i \in is : \A j \in is : i <= j]

\* FLASK_DEBUG under the command is what its first source means as the option.
Documented(k) ==
    LET s == Expected(k) IN
    IF k # DEBUG \/ cmd.name = "script" \/ s = None \/ Option(s) = None THEN s ELSE Option(s)

\* "Variables set on the command line are used over those set in .env, which are
\* used over those set in .flaskenv", a file given with --env-file between them,
\* --debug apart; a child that inherits them finds the same.
EnvAsDocumented ==
    \A p \in Procs :
        proc[p].pc \in {"load", "context", "command", "run", "watching", "serving"} =>
        \A k \in ConfigKeys \ Optioned :
            Documented(k) = IF k \in DOMAIN proc[p].environ THEN proc[p].environ[k] ELSE None

\* Every variable with the prefix is found in the configuration at its path,
\* whatever the configuration held and however variables nest in one another.
EnvFound ==
    [][\A p \in Procs : FromEnv(p) /\ proc'[p].ops = proc[p].ops + 1
           => Found(proc'[p].config, proc[p].environ)]_vars

\* The debugger is as its own option says.  Without one it is on exactly if the
\* application it debugs is in debug mode, whatever other options, environment,
\* files and the application itself say; where the group leaves the application
\* its flag, exactly if FLASK_DEBUG is true.
DebugAgrees ==
    \A p \in Procs : At(p, "serving") /\ proc[p].app = App =>
        proc[p].debugger = Choice(cmd.debugger,
                                  IF cmd.name = "script" \/ cmd.set_debug_flag
                                  THEN Setting(proc[p].config[DEBUG])
                                  ELSE get_debug_flag(proc[p].environ))

\* A factory is called only if it was named or the module holds no application.
NeverSecondApp == \A p \in Procs : proc[p].guessed => proc[p].called = {}

\* Importing a module that calls app.run starts no server inside the command.
OneServer == started = 0

\* A command of the application runs in the context of that application.
CommandInContext ==
    \A p \in Procs : At(p, "command") /\ cmd.name = "custom" => proc[p].context = App

\* "It will fail immediately": without a child no server comes up for code that
\* cannot be loaded; "the server will continue to run" after that, unless the
\* code ends the process instead of raising an Exception.
FailsAtOnce  == \A p \in Procs : proc[p].app = "error" => ever
KeepsRunning == ever /\ ~exited => At("parent", "watching") /\ ~At("child", "failed")

\* After any edit, and whatever Exception it brought, there is a server again.
ServesAgain == ever ~> At("child", "serving") \/ exited
===============================================================================
