----------------------------- MODULE StartupProofs -----------------------------
(***************************************************************************)
(* Proofs about Startup for any command lines, environments, modules,      *)
(* objects, files and bounds.                                              *)
(***************************************************************************)
EXTENDS Startup, Induction, TLAPS

Fields == {"pc", "environ", "cli", "app", "called", "guessed", "config", "ops", "context",
           "debugger"}

\* --env-file was given and cannot be read: every start of the command fails.
NoDotenv == cmd.env /\ ~dotenv

Defaults == get_load_dotenv(cmd.load_dotenv)

\* All that the files define is there, and FLASK_DEBUG is none that the option
\* refuses: what a process has when it has read its options, and its child too.
Complete(e) == (cmd.env \/ Defaults) /\ dotenv => DOMAIN Data(cmd.env, Defaults) \subseteq DOMAIN e
Tame(e)     == DEBUG \in DOMAIN e => Option(e[DEBUG]) # "refused"

\* Where the command line leads.
OnItsWay(r) ==
    /\ r.pc \in Stages
    /\ r.pc \in {"options", "load"} => r.cli
    /\ cmd.name = "script" => r.pc \in {"off", "factory", "serving", "changed", "failed"}
    /\ r.pc = "run" => cmd.name = "run"
    /\ cmd.name # "script" /\ r.pc \notin {"off", "env", "failed"} => ~NoDotenv
    /\ r.pc = "command" /\ cmd.name = "custom" => r.context = App

\* The environment of the process, and what it may inherit.
EnvironOK(p, r) ==
    cmd.name # "script" =>
        /\ r.pc \notin {"off", "env", "failed"} => Complete(r.environ)
        /\ r.pc \notin {"off", "env", "failed", "options"} => Tame(r.environ)
        /\ p = "child" /\ r.pc \in {"env", "options"} => Complete(r.environ) /\ Tame(r.environ)

\* Whether the debugger should be on.
Asked(r) == Choice(cmd.debugger, IF cmd.name = "script" \/ cmd.set_debug_flag
                                 THEN Setting(r.config[DEBUG]) ELSE get_debug_flag(r.environ))

\* What was loaded.
LoadedOK(p, r) ==
    /\ r.app = "error" => p = "child"
    /\ r.guessed => r.called = {}
    /\ r.pc = "run" /\ r.app = App /\ cmd.set_debug_flag
          => r.config[DEBUG] = Digit(get_debug_flag(r.environ))
    /\ r.pc = "serving" /\ r.app = App => (r.debugger <=> Asked(r))
    /\ r.debugger \in BOOLEAN

RecordOK(p, r) == DOMAIN r = Fields /\ OnItsWay(r) /\ EnvironOK(p, r) /\ LoadedOK(p, r)

\* The reloader and its child.
Family ==
    /\ ever \in BOOLEAN /\ exited \in BOOLEAN
    /\ ever => /\ proc["parent"].pc \in {"watching", "failed"}
               /\ cmd.name = "run" /\ ~NoDotenv
    /\ ever /\ ~exited => proc["parent"].pc = "watching" /\ proc["child"].pc # "failed"
    /\ ~ever => proc["child"].pc = "off" /\ proc["child"].app = None

IInv ==
    /\ cmd \in Commands /\ broken \in Damage
    /\ edits \in 0..MaxEdits /\ started = 0
    /\ DOMAIN proc = Procs
    /\ \A p \in Procs : RecordOK(p, proc[p])
    /\ Family

LEMMA TrueDigit == ASSUME NEW b \in BOOLEAN PROVE Setting(Digit(b)) <=> b
BY DEF Setting, True, Says, Digit, Sources

LEMMA AssignAt == ASSUME NEW c, NEW k, NEW v PROVE Assign(c, k, v)[k] = v
BY DEF Assign

LEMMA Booleans ==
    /\ \A v : True(v) \in BOOLEAN /\ Setting(v) \in BOOLEAN
    /\ \A e : get_debug_flag(e) \in BOOLEAN
    /\ \A option : \A b \in BOOLEAN : Choice(option, b) \in BOOLEAN
BY DEF True, Setting, Says, get_debug_flag, Choice

LEMMA OptionReads ==
    /\ \A v : Option(v) \in {None, "1", "0", "refused"}
    /\ \A v \in {"1", "0"} : Option(v) = v
BY DEF Option, Says, Digit, Sources, None

\* The options are read before the command runs, and they are legal.
LEMMA Options == cmd \in Commands => cmd.debug \in {None, "1", "0"} /\ cmd.run_debug \in {None, "1", "0"}
BY StartAssumption DEF None

LEMMA NewOK == /\ DOMAIN New = Fields /\ New.pc = "off" /\ New.app = None
               /\ New.guessed = FALSE /\ New.debugger = FALSE /\ New.called = {}
BY DEF New, Fields, None

-----------------------------------------------------------------------------
(* A step of one process. *)

\* Nothing of what the user gave changes while the command runs.
LEMMA RecordSame ==
    ASSUME UNCHANGED user, NEW p \in Procs, RecordOK(p, proc'[p])
    PROVE  RecordOK(p, proc[p])'
<1>1. files' = files /\ text' = text /\ cmd' = cmd /\ dotenv' = dotenv
  BY DEF user
<1>2. /\ \A v : True(v)' = True(v) /\ Setting(v)' = Setting(v) /\ Option(v)' = Option(v)
      /\ Defaults' = Defaults /\ NoDotenv' = NoDotenv
  BY <1>1 DEF True, Setting, Option, Says, Defaults, get_load_dotenv, NoDotenv
<1>3. \A e : get_debug_flag(e)' = get_debug_flag(e) /\ Tame(e)' = Tame(e)
  BY <1>2 DEF get_debug_flag, Tame
<1>4. \A e : Complete(e)' = Complete(e)
  BY <1>1, <1>2 DEF Complete, Data
<1>5. OnItsWay(proc[p])'
  BY <1>1, <1>2 DEF RecordOK, OnItsWay
<1>6. EnvironOK(p, proc[p])'
  BY <1>1, <1>3, <1>4 DEF RecordOK, EnvironOK
<1>7. LoadedOK(p, proc[p])'
  BY <1>1, <1>2, <1>3 DEF RecordOK, LoadedOK, Asked
<1> QED
  BY <1>5, <1>6, <1>7 DEF RecordOK

LEMMA StepKeeps ==
    ASSUME IInv, NEW p \in Procs, NEW r, RecordOK(p, r), Become(p, r),
           UNCHANGED <<user, broken, edits, ever>>, started' = 0,
           exited' = exited \/ exited' = TRUE,
           proc[p].pc \notin {"off", "watching", "failed"},
           p = "child" /\ ~exited' => r.pc # "failed"
    PROVE  IInv'
<1>1. /\ cmd' = cmd /\ dotenv' = dotenv
      /\ DOMAIN proc' = Procs
      /\ \A q \in Procs : proc'[q] = IF q = p THEN r ELSE proc[q]
  BY DEF IInv, Become, user
<1>2. ASSUME NEW q \in Procs PROVE RecordOK(q, proc[q])'
  <2>1. RecordOK(q, proc'[q])
    BY <1>1 DEF IInv
  <2> QED
    BY <2>1, RecordSame
<1>3. Family'
  <2>0. exited' \in BOOLEAN /\ ever' = ever
    BY DEF IInv, Family
  <2>1. CASE p = "parent"
    <3>1. ~ever /\ "child" # p /\ "child" \in Procs
      BY <2>1 DEF IInv, Family, Procs
    <3> QED
      BY <2>0, <3>1, <1>1 DEF IInv, Family
  <2>2. CASE p = "child"
    <3>1. ever /\ "parent" # p /\ "parent" \in Procs
      BY <2>2 DEF IInv, Family, Procs
    <3>2. ~exited' => r.pc # "failed" /\ ~exited
      BY <2>2
    <3> QED
      BY <2>0, <2>2, <3>1, <3>2, <1>1 DEF IInv, Family, NoDotenv
  <2> QED
    BY <2>1, <2>2 DEF Procs
<1> QED
  BY <1>1, <1>2, <1>3 DEF IInv

\* What a process has in its environment it keeps from one stage to the next.
Reading == {"off", "env", "options"}
LEMMA EnvironStays ==
    ASSUME NEW p, NEW q, NEW r, EnvironOK(p, q), r.environ = q.environ,
           r.pc = "failed" \/ (q.pc \notin Reading \cup {"failed"} /\ r.pc \notin Reading)
    PROVE  EnvironOK(p, r)
BY DEF EnvironOK, Reading

\* Where the child is, the command is `run` and its environment file was read.
LEMMA ChildRuns ==
    ASSUME IInv, proc["child"].pc # "off"
    PROVE  ever /\ cmd.name = "run" /\ ~NoDotenv
BY DEF IInv, Family

\* A load that fails.
Failing(p, failure) ==
    /\ proc[p].pc \in {"load", "factory"} /\ Become(p, LoadFails(p, failure))
    /\ UNCHANGED <<user, broken, edits, ever>> /\ started' = 0
    /\ exited' = exited \/ exited' = TRUE
    /\ p = "child" /\ failure = "exit" => exited' = TRUE

LEMMA FailKeeps == ASSUME IInv, NEW p \in Procs, NEW failure, Failing(p, failure) PROVE IInv'
<1> DEFINE r == LoadFails(p, failure)
<1> HIDE DEF r
<1>1. RecordOK(p, proc[p])
  BY DEF IInv
<1>4. proc[p].pc \in {"load", "factory"} /\ Become(p, r)
  BY Zenon DEF Failing, r
<1>5. UNCHANGED <<user, broken, edits, ever>> /\ started' = 0
  BY DEF Failing
<1>6. /\ exited' = exited \/ exited' = TRUE
      /\ p = "child" /\ failure = "exit" => exited' = TRUE
  BY DEF Failing
<1>2. CASE p = "child" /\ failure # "exit"
  <2>1. cmd.name = "run" /\ ~NoDotenv
    BY <1>2, <1>4, ChildRuns
  <2>2. r = [proc[p] EXCEPT !.pc = "run", !.app = "error"]
    BY <1>2, <2>1 DEF LoadFails, r
  <2>3. /\ DOMAIN r = Fields /\ r.pc = "run" /\ r.app = "error" /\ r.guessed = proc[p].guessed
        /\ r.called = proc[p].called /\ r.debugger = proc[p].debugger
        /\ r.environ = proc[p].environ
    BY <2>2, <1>1 DEF RecordOK, Fields
  <2>4. EnvironOK(p, r)
    BY <2>3, <1>1, <1>4, EnvironStays DEF RecordOK, Reading
  <2>5. RecordOK(p, r)
    BY <2>1, <2>3, <2>4, <1>1, <1>2, <1>4 DEF RecordOK, OnItsWay, LoadedOK, Stages, App
  <2> QED
    BY <1>2, <1>4, <1>5, <1>6, <2>3, <2>5, StepKeeps
<1>3. CASE p # "child" \/ failure = "exit"
  <2>1. r = [proc[p] EXCEPT !.pc = "failed"]
    BY <1>3 DEF LoadFails, r
  <2>2. /\ DOMAIN r = Fields /\ r.pc = "failed" /\ r.app = proc[p].app
        /\ r.guessed = proc[p].guessed /\ r.called = proc[p].called
        /\ r.debugger = proc[p].debugger /\ r.environ = proc[p].environ
    BY <2>1, <1>1 DEF RecordOK, Fields
  <2>3. EnvironOK(p, r)
    BY <2>2, <1>1, <1>4, EnvironStays DEF RecordOK
  <2>4. RecordOK(p, r)
    BY <2>2, <2>3, <1>1, <1>4 DEF RecordOK, OnItsWay, LoadedOK, Stages
  <2> QED
    BY <1>3, <1>4, <1>5, <1>6, <2>2, <2>4, StepKeeps
<1> QED
  BY <1>2, <1>3

-----------------------------------------------------------------------------
(* The actions. *)

\* Reading the files leaves what is there, and completes it.
LEMMA FilesFill ==
    ASSUME NEW e
    PROVE  LET new == IF cmd.env \/ Defaults THEN load_dotenv(e, cmd.env, Defaults) ELSE e
           IN Complete(new) /\ (Complete(e) /\ Tame(e) => Tame(new))
<1> DEFINE d == Data(cmd.env, Defaults)
           new == IF cmd.env \/ Defaults THEN load_dotenv(e, cmd.env, Defaults) ELSE e
<1>1. CASE ~((cmd.env \/ Defaults) /\ dotenv)
  <2>1. new = e
    BY <1>1 DEF load_dotenv
  <2> QED
    BY <2>1, <1>1 DEF Complete
<1>2. CASE (cmd.env \/ Defaults) /\ dotenv
  <2>1. new = [k \in DOMAIN e \cup DOMAIN d |-> IF k \in DOMAIN e THEN e[k] ELSE d[k]]
    BY <1>2 DEF load_dotenv
  <2> HIDE DEF new, d
  <2>2. DOMAIN new = DOMAIN e \cup DOMAIN d /\ \A k \in DOMAIN e : new[k] = e[k]
    BY <2>1
  <2>3. Complete(new)
    BY <2>2 DEF Complete, d
  <2>4. ASSUME Complete(e), Tame(e) PROVE Tame(new)
    <3>1. DOMAIN new = DOMAIN e
      BY <1>2, <2>2, <2>4 DEF Complete, d
    <3> QED
      BY <2>2, <2>4, <3>1 DEF Tame
  <2> QED
    BY <2>3, <2>4 DEF new
<1> QED
  BY <1>1, <1>2

LEMMA EnvFileKeeps == ASSUME IInv, NEW p \in Procs, _env_file_callback(p) PROVE IInv'
<1> DEFINE e == IF cmd.env \/ Defaults THEN load_dotenv(proc[p].environ, cmd.env, Defaults)
                ELSE proc[p].environ
<1>1. /\ RecordOK(p, proc[p]) /\ proc[p].pc = "env" /\ cmd.name # "script"
      /\ UNCHANGED <<user, broken, edits, ever, exited>> /\ started' = 0
  BY DEF IInv, _env_file_callback, At, Rest, RecordOK, OnItsWay
<1>2. PICK r : /\ Become(p, r) /\ DOMAIN r = Fields
               /\ r.pc = (IF NoDotenv THEN "failed" ELSE "options")
               /\ ~NoDotenv => r.environ = e
               /\ r.cli /\ r.app = proc[p].app /\ r.guessed = proc[p].guessed
               /\ r.called = proc[p].called /\ r.debugger = proc[p].debugger
  <2> DEFINE q == [proc[p] EXCEPT !.cli = make_context]
             bad == [q EXCEPT !.pc = "failed"]
             f == IF cmd.env \/ Defaults THEN load_dotenv(q.environ, cmd.env, Defaults)
                  ELSE q.environ
             good == [q EXCEPT !.pc = "options", !.environ = f]
  <2>1. Become(p, IF NoDotenv THEN bad ELSE good)
    BY DEF _env_file_callback, NoDotenv, Defaults
  <2>2. /\ DOMAIN q = Fields /\ q.cli /\ q.app = proc[p].app /\ q.guessed = proc[p].guessed
        /\ q.called = proc[p].called /\ q.debugger = proc[p].debugger
        /\ q.environ = proc[p].environ
    BY <1>1 DEF RecordOK, Fields, make_context
  <2>3. f = e
    BY <2>2
  <2> HIDE DEF q, f, e
  <2>4. /\ DOMAIN bad = Fields /\ bad.pc = "failed" /\ bad.cli = q.cli /\ bad.app = q.app
        /\ bad.guessed = q.guessed /\ bad.called = q.called /\ bad.debugger = q.debugger
    BY <2>2 DEF Fields
  <2>5. /\ DOMAIN good = Fields /\ good.pc = "options" /\ good.cli = q.cli /\ good.app = q.app
        /\ good.guessed = q.guessed /\ good.called = q.called /\ good.debugger = q.debugger
        /\ good.environ = f
    BY <2>2 DEF Fields
  <2> HIDE DEF bad, good
  <2> QED
    BY <2>1, <2>2, <2>3, <2>4, <2>5
<1>3. Complete(e) /\ (Complete(proc[p].environ) /\ Tame(proc[p].environ) => Tame(e))
  BY FilesFill
<1> HIDE DEF e
<1>4. EnvironOK(p, r)
  BY <1>1, <1>2, <1>3 DEF RecordOK, EnvironOK
<1>5. RecordOK(p, r)
  BY <1>1, <1>2, <1>4 DEF RecordOK, OnItsWay, LoadedOK, Stages
<1>6. p = "child" => r.pc # "failed"
  BY <1>1, <1>2, ChildRuns
<1> QED
  BY <1>1, <1>2, <1>5, <1>6, StepKeeps

LEMMA DebugKeeps == ASSUME IInv, NEW p \in Procs, _set_debug(p) PROVE IInv'
<1> DEFINE e     == proc[p].environ
           own   == IF cmd.debug = None /\ DEBUG \in DOMAIN e THEN Option(e[DEBUG]) ELSE cmd.debug
           given == IF cmd.name = "run" /\ cmd.run_debug # None THEN cmd.run_debug ELSE own
           f     == IF given = None THEN e ELSE Set(e, DEBUG, given)
           bad   == [proc[p] EXCEPT !.pc = "failed"]
           good  == [proc[p] EXCEPT !.pc = After(p), !.environ = f]
<1>1. /\ RecordOK(p, proc[p]) /\ proc[p].pc = "options" /\ cmd.name # "script"
      /\ UNCHANGED <<user, broken, edits, ever, exited>> /\ started' = 0 /\ proc[p].cli /\ ~NoDotenv
      /\ cmd \in Commands
  BY DEF IInv, _set_debug, At, Rest, RecordOK, OnItsWay
<1>2. Become(p, IF own = "refused" THEN bad ELSE good)
  BY DEF _set_debug
<1>3. own \in {None, "1", "0", "refused"} /\ (given # None => given \in {"1", "0", "refused"})
  BY <1>1, Options, OptionReads
<1>4. own # "refused" => Complete(f) /\ Tame(f)
  <2>1. ASSUME own # "refused" PROVE given # None => given \in {"1", "0"}
    BY <2>1, <1>1, <1>3, Options
  <2>2. Complete(e)
    BY <1>1 DEF RecordOK, EnvironOK
  <2>3. CASE given = None
    <3>1. own = None
      BY <2>3
    <3>2. DEBUG \in DOMAIN e => Option(e[DEBUG]) = None
      BY <3>1
    <3>3. f = e
      BY <2>3
    <3> QED
      BY <2>2, <3>2, <3>3 DEF Tame, None
  <2>4. CASE given # None
    <3>1. f = Set(e, DEBUG, given)
      BY <2>4
    <3> HIDE DEF f, e, given, own
    <3>2. DOMAIN e \subseteq DOMAIN f /\ f[DEBUG] = given
      BY <3>1 DEF Set
    <3>3. own # "refused" => Option(given) # "refused"
      BY <2>1, <2>4, OptionReads
    <3> QED
      BY <2>2, <3>2, <3>3 DEF Complete, Tame
  <2> QED
    BY <2>3, <2>4
<1>5. After(p) \in {"command", "load"} /\ (After(p) = "command" => cmd.name = "routes")
  BY DEF After
<1>6. /\ DOMAIN bad = Fields /\ bad.pc = "failed" /\ bad.app = proc[p].app
      /\ bad.guessed = proc[p].guessed /\ bad.called = proc[p].called
      /\ bad.debugger = proc[p].debugger /\ bad.environ = proc[p].environ
  BY <1>1 DEF RecordOK, Fields
<1> HIDE DEF f
<1>7. /\ DOMAIN good = Fields /\ good.pc = After(p) /\ good.app = proc[p].app
      /\ good.guessed = proc[p].guessed /\ good.called = proc[p].called
      /\ good.debugger = proc[p].debugger /\ good.environ = f /\ good.cli = proc[p].cli
  BY <1>1 DEF RecordOK, Fields
<1> HIDE DEF bad, good
<1>8. CASE own = "refused"
  <2>1. p # "child"
    <3>1. DEBUG \in DOMAIN e /\ Option(e[DEBUG]) = "refused"
      BY <1>1, <1>8, Options DEF None
    <3>2. p = "child" => Tame(e)
      BY <1>1 DEF RecordOK, EnvironOK
    <3> QED
      BY <3>1, <3>2 DEF Tame
  <2>2. EnvironOK(p, bad)
    BY <1>1, <1>6, EnvironStays DEF RecordOK
  <2>3. RecordOK(p, bad)
    BY <1>1, <1>6, <2>2 DEF RecordOK, OnItsWay, LoadedOK, Stages
  <2> QED
    BY <1>1, <1>2, <1>8, <2>1, <2>3, StepKeeps
<1>9. CASE own # "refused"
  <2>1. EnvironOK(p, good)
    BY <1>4, <1>5, <1>7, <1>9 DEF EnvironOK
  <2>2. RecordOK(p, good)
    BY <1>1, <1>5, <1>7, <2>1 DEF RecordOK, OnItsWay, LoadedOK, Stages
  <2>3. Become(p, good) /\ good.pc # "failed"
    BY <1>2, <1>5, <1>7, <1>9
  <2> QED
    BY <1>1, <2>2, <2>3, StepKeeps
<1> QED
  BY <1>8, <1>9

\* What is guessed in a module that holds an application is no factory's.
LEMMA NoFactory ==
    ASSUME NEW m, NEW optional \in BOOLEAN, cmd.app.name = None, Instances(m) # {},
           locate_app(m, optional).app = App
    PROVE  locate_app(m, optional).called = {}
<1>1. locate_app(m, optional) \in {Result(None, {}), Result("no app", {}), Result("error", {}),
                                   Result("exit", {}), find_best_app(m)}
  BY DEF locate_app
<1> DEFINE named == \E n \in {"app", "application"} : Attr(m, n) = "flask"
<1>2. find_best_app(m) \in {Result(App, {}), Result("no app", {})}
  <2> HIDE DEF Result
  <2>1. CASE named
    BY <2>1 DEF find_best_app
  <2>2. CASE ~named
    BY <2>2 DEF find_best_app
  <2> QED
    BY <2>1, <2>2
<1>3. /\ Result(None, {}).app = None /\ Result("no app", {}).app = "no app"
      /\ Result("error", {}).app = "error" /\ Result("exit", {}).app = "exit"
      /\ Result(App, {}).called = {}
      /\ Result("no app", {}).called = {}
  BY DEF Result
<1>4. None # App /\ "no app" # App /\ "error" # App /\ "exit" # App
  BY DEF App, None
<1> HIDE DEF named
<1> QED
  BY <1>1, <1>2, <1>3, <1>4

LEMMA ImportKeeps == ASSUME IInv, NEW p \in Procs, Import(p) PROVE IInv'
<1>1. /\ RecordOK(p, proc[p]) /\ proc[p].pc = "load" /\ cmd.name # "script"
      /\ UNCHANGED <<user, broken, edits, ever>> /\ proc[p].cli /\ ~NoDotenv
  BY DEF IInv, Import, At, RecordOK, OnItsWay
<1>2. PICK m : LET r == locate_app(m, ~cmd.app.given) IN
          /\ Become(p, IF r.app = App
                       THEN [proc[p] EXCEPT !.pc = "factory", !.called = r.called,
                                 !.guessed = cmd.app.name = None /\ Instances(m) # {}]
                       ELSE LoadFails(p, r.app))
          /\ started' = IF m.runs /\ m.state = "ok" /\ ~proc[p].cli THEN started + 1 ELSE started
          /\ exited' = (exited \/ (p = "child" /\ r.app = "exit"))
  BY DEF Import
<1>3. started' = 0
  BY <1>1, <1>2 DEF IInv
<1> DEFINE l == locate_app(m, ~cmd.app.given)
           x == p = "child" /\ l.app = "exit"
           g == cmd.app.name = None /\ Instances(m) # {}
           r == [proc[p] EXCEPT !.pc = "factory", !.called = l.called, !.guessed = g]
<1>6. exited' = (exited \/ x) /\ (exited' = exited \/ exited' = TRUE) /\ (x => exited' = TRUE)
  <2>1. exited \in BOOLEAN /\ exited' = (exited \/ x)
    BY <1>2 DEF IInv, Family
  <2> HIDE DEF x, l
  <2> QED
    BY <2>1
<1>4. CASE l.app = App
  <2>1. Become(p, r)
    BY <1>2, <1>4
  <2>2. /\ DOMAIN r = Fields /\ r.pc = "factory" /\ r.called = l.called /\ r.guessed = g
        /\ r.cli = proc[p].cli /\ r.app = proc[p].app /\ r.debugger = proc[p].debugger
        /\ r.environ = proc[p].environ
    BY <1>1 DEF RecordOK, Fields
  <2>3. g => l.called = {}
    BY <1>4, NoFactory
  <2> HIDE DEF r, l, g, x
  <2>4. EnvironOK(p, r)
    BY <1>1, <2>2, EnvironStays DEF RecordOK, Reading
  <2>5. RecordOK(p, r)
    BY <1>1, <2>2, <2>3, <2>4 DEF RecordOK, OnItsWay, LoadedOK, Stages
  <2> QED
    BY <1>1, <1>3, <1>6, <2>1, <2>2, <2>5, StepKeeps
<1>5. CASE l.app # App
  <2>1. Become(p, LoadFails(p, l.app))
    BY <1>2, <1>5
  <2>2. Failing(p, l.app)
    BY <1>1, <1>3, <1>6, <2>1 DEF Failing
  <2> HIDE DEF l
  <2> QED
    BY <2>2, FailKeeps
<1> QED
  BY <1>4, <1>5

LEMMA ConfigureKeeps == ASSUME IInv, NEW p \in Procs, NEW c, Configure(p, c), Rest PROVE IInv'
<1>1. /\ RecordOK(p, proc[p]) /\ proc[p].pc = "factory"
      /\ UNCHANGED <<user, broken, edits, ever, exited>> /\ started' = 0
  BY DEF IInv, Configure, At, Rest
<1>2. CASE c.ok
  <2> DEFINE r == [proc[p] EXCEPT !.config = c.config, !.ops = @ + 1]
  <2>1. Become(p, r)
    BY <1>2 DEF Configure
  <2>2. /\ DOMAIN r = Fields /\ r.pc = "factory" /\ r.called = proc[p].called
        /\ r.guessed = proc[p].guessed /\ r.app = proc[p].app /\ r.debugger = proc[p].debugger
        /\ r.environ = proc[p].environ
    BY <1>1 DEF RecordOK, Fields
  <2> HIDE DEF r
  <2>3. EnvironOK(p, r)
    BY <1>1, <2>2, EnvironStays DEF RecordOK, Reading
  <2>4. RecordOK(p, r)
    BY <1>1, <2>2, <2>3 DEF RecordOK, OnItsWay, LoadedOK, Stages
  <2> QED
    BY <1>1, <2>1, <2>2, <2>4, StepKeeps
<1>3. CASE ~c.ok
  <2>1. Failing(p, "error")
    BY <1>1, <1>3 DEF Configure, Failing
  <2> QED
    BY <2>1, FailKeeps
<1> QED
  BY <1>2, <1>3

LEMMA ExitsKeep == ASSUME IInv, NEW p \in Procs, Exits(p) PROVE IInv'
<1>1. /\ proc[p].pc = "factory" /\ Become(p, LoadFails(p, "exit"))
      /\ UNCHANGED <<user, broken, edits, ever>> /\ started' = 0
      /\ exited' = (exited \/ p = "child")
  BY DEF IInv, Exits, At
<1>2. (exited' = exited \/ exited' = TRUE) /\ (p = "child" => exited' = TRUE)
  BY <1>1 DEF IInv, Family
<1>3. Failing(p, "exit")
  BY <1>1, <1>2 DEF Failing
<1> QED
  BY <1>3, FailKeeps

LEMMA LoadKeeps == ASSUME IInv, NEW p \in Procs, load_app(p) PROVE IInv'
<1> DEFINE debug == Digit(get_debug_flag(proc[p].environ))
           stage == IF cmd.name = "run" THEN "run" ELSE "context"
           a == Assign(proc[p].config, DEBUG, debug)
           c == IF cmd.set_debug_flag THEN a ELSE proc[p].config
           r == [proc[p] EXCEPT !.app = App, !.config = c, !.pc = stage]
<1>1. /\ RecordOK(p, proc[p]) /\ proc[p].pc = "factory" /\ cmd.name # "script" /\ ~NoDotenv
      /\ UNCHANGED <<user, broken, edits, ever, exited>> /\ started' = 0 /\ Become(p, r)
  BY DEF IInv, load_app, At, Rest, RecordOK, OnItsWay
<1>2. /\ DOMAIN r = Fields /\ r.pc = stage /\ r.called = proc[p].called /\ r.app = App
      /\ r.guessed = proc[p].guessed /\ r.debugger = proc[p].debugger
      /\ r.environ = proc[p].environ /\ r.config = c
  BY <1>1 DEF RecordOK, Fields
<1>3. cmd.set_debug_flag => c[DEBUG] = debug
  BY AssignAt
<1>4. stage \in {"run", "context"} /\ (stage = "run" => cmd.name = "run")
  OBVIOUS
<1> HIDE DEF r, c, stage
<1>5. EnvironOK(p, r)
  BY <1>1, <1>2, <1>4, EnvironStays DEF RecordOK, Reading
<1>6. RecordOK(p, r)
  BY <1>1, <1>2, <1>3, <1>4, <1>5 DEF RecordOK, OnItsWay, LoadedOK, Stages, App
<1> QED
  BY <1>1, <1>2, <1>4, <1>6, StepKeeps

LEMMA CommandKeeps ==
    ASSUME IInv, NEW p \in Procs, get_command(p) \/ CommandReturns(p)
    PROVE  IInv'
<1>1. /\ RecordOK(p, proc[p]) /\ UNCHANGED <<user, broken, edits, ever, exited>> /\ started' = 0
      /\ proc[p].pc \in {"context", "command"}
  BY DEF IInv, get_command, CommandReturns, At, Rest
<1>2. PICK r : /\ Become(p, r) /\ DOMAIN r = Fields
               /\ r.pc = "done" \/ (r.pc = "command" /\ r.context = App)
               /\ r.app = proc[p].app /\ r.guessed = proc[p].guessed
               /\ r.called = proc[p].called /\ r.debugger = proc[p].debugger
               /\ r.environ = proc[p].environ
  <2>1. CASE get_command(p)
    <3> WITNESS [proc[p] EXCEPT !.pc = "command", !.context = App]
    <3> QED
      BY <2>1, <1>1 DEF RecordOK, Fields, get_command
  <2>2. CASE CommandReturns(p)
    <3> WITNESS [proc[p] EXCEPT !.pc = "done"]
    <3> QED
      BY <2>2, <1>1 DEF RecordOK, Fields, CommandReturns
  <2> QED
    BY <2>1, <2>2
<1>3. EnvironOK(p, r)
  BY <1>1, <1>2, EnvironStays DEF RecordOK, Reading
<1>4. RecordOK(p, r)
  BY <1>1, <1>2, <1>3 DEF RecordOK, OnItsWay, LoadedOK, Stages
<1> QED
  BY <1>1, <1>2, <1>4, StepKeeps

LEMMA RunScriptKeeps == ASSUME IInv, NEW p \in Procs, run(p) PROVE IInv'
<1>1. /\ RecordOK(p, proc[p]) /\ proc[p].pc = "factory" /\ cmd.name = "script"
      /\ UNCHANGED <<user, broken, edits, ever, exited>> /\ started' = 0
  BY DEF IInv, run, At, Rest
<1>2. PICK e, c : Become(p, [proc[p] EXCEPT !.pc = "serving", !.app = App, !.environ = e,
                                            !.config = c, !.debugger = Choice(cmd.debugger, Setting(c[DEBUG]))])
  BY DEF run
<1> DEFINE r == [proc[p] EXCEPT !.pc = "serving", !.app = App, !.environ = e,
                                !.config = c, !.debugger = Choice(cmd.debugger, Setting(c[DEBUG]))]
<1>3. /\ DOMAIN r = Fields /\ r.pc = "serving" /\ r.app = App /\ r.config = c
      /\ r.guessed = proc[p].guessed /\ r.called = proc[p].called
  BY <1>1 DEF RecordOK, Fields
<1>4. r.debugger = Choice(cmd.debugger, Setting(c[DEBUG])) /\ r.debugger \in BOOLEAN
  <2>1. Choice(cmd.debugger, Setting(c[DEBUG])) \in BOOLEAN
    BY Booleans
  <2> QED
    BY <2>1, <1>1 DEF RecordOK, Fields
<1>5. Become(p, r)
  BY <1>2
<1> HIDE DEF r
<1>6. OnItsWay(r)
  BY <1>1, <1>3 DEF OnItsWay, Stages
<1>7. LoadedOK(p, r)
  <2>1. r.debugger <=> Asked(r)
    BY <1>1, <1>3, <1>4 DEF Asked
  <2> QED
    BY <1>1, <1>3, <1>4, <2>1 DEF RecordOK, LoadedOK, App
<1>8. EnvironOK(p, r)
  BY <1>1 DEF EnvironOK
<1> QED
  BY <1>1, <1>3, <1>5, <1>6, <1>7, <1>8, StepKeeps DEF RecordOK

LEMMA ChildOK ==
    ASSUME NEW q, cmd.name = "run", Complete(q.environ), Tame(q.environ)
    PROVE  RecordOK("child", Child(q)) /\ Child(q).pc = "env" /\ Child(q).app = None
<1>1. /\ DOMAIN Child(q) = Fields /\ Child(q).pc = "env" /\ Child(q).app = None
      /\ Child(q).guessed = FALSE /\ Child(q).debugger = FALSE
      /\ Child(q).environ = q.environ
  BY NewOK DEF Child, Fields
<1> QED
  BY <1>1 DEF RecordOK, OnItsWay, EnvironOK, LoadedOK, Stages, None, App

\* A server comes up, or the reloader with its first child.
LEMMA ServeKeeps == ASSUME IInv, NEW p \in Procs, run_command(p) PROVE IInv'
<1> DEFINE debug == get_debug_flag(proc[p].environ)
           reload == p = "parent" /\ Choice(cmd.reload, debug)
           stage == IF reload THEN "watching" ELSE "serving"
           on == Choice(cmd.debugger, debug)
           mine == [proc[p] EXCEPT !.pc = stage, !.debugger = on]
<1>1. /\ RecordOK(p, proc[p]) /\ proc[p].pc = "run" /\ cmd.name = "run" /\ ~NoDotenv
      /\ UNCHANGED <<user, broken, edits, exited>> /\ started' = 0 /\ ever' = (ever \/ reload)
      /\ proc' = IF reload THEN [parent |-> mine, child |-> Child(mine)]
                 ELSE [proc EXCEPT ![p] = mine]
  BY DEF IInv, run_command, At, RecordOK, OnItsWay
<1>2. /\ DOMAIN mine = Fields /\ mine.pc = stage /\ mine.debugger = on
      /\ mine.app = proc[p].app /\ mine.config = proc[p].config
      /\ mine.guessed = proc[p].guessed /\ mine.called = proc[p].called
      /\ mine.environ = proc[p].environ
  BY <1>1 DEF RecordOK, Fields
<1>3. debug \in BOOLEAN /\ on \in BOOLEAN
  BY Booleans
<1>4. mine.app = App => (mine.debugger <=> Asked(mine))
  <2>1. SUFFICES ASSUME mine.app = App PROVE mine.debugger = Asked(mine)
    OBVIOUS
  <2>2. cmd.set_debug_flag => (Setting(mine.config[DEBUG]) = debug)
    <3>1. SUFFICES ASSUME cmd.set_debug_flag PROVE Setting(mine.config[DEBUG]) = debug
      OBVIOUS
    <3>2. mine.config[DEBUG] = Digit(debug)
      BY <1>1, <1>2, <2>1, <3>1 DEF RecordOK, LoadedOK
    <3>3. Setting(Digit(debug)) <=> debug
      BY <1>3, TrueDigit
    <3>4. Setting(Digit(debug)) \in BOOLEAN
      BY Booleans
    <3> QED
      BY <1>3, <3>2, <3>3, <3>4
  <2>3. get_debug_flag(mine.environ) = debug /\ cmd.name # "script"
    BY <1>1, <1>2
  <2>4. Asked(mine) = Choice(cmd.debugger, debug)
    BY <2>2, <2>3 DEF Asked
  <2> QED
    BY <1>2, <2>4
<1>5. stage \in {"watching", "serving"}
  OBVIOUS
<1> HIDE DEF mine, stage
<1>6. LoadedOK(p, mine)
  <2>1. mine.debugger \in BOOLEAN
    BY <1>2, <1>3
  <2> QED
    BY <1>1, <1>2, <1>4, <1>5, <2>1 DEF RecordOK, LoadedOK
<1>10. EnvironOK(p, mine) /\ Complete(mine.environ) /\ Tame(mine.environ)
  <2>1. EnvironOK(p, mine)
    BY <1>1, <1>2, <1>5, EnvironStays DEF RecordOK, Reading
  <2> QED
    BY <2>1, <1>1, <1>2, <1>5 DEF EnvironOK
<1>7. RecordOK(p, mine)
  BY <1>1, <1>2, <1>5, <1>6, <1>10 DEF RecordOK, OnItsWay, Stages
<1>8. CASE ~reload
  <2>1. Become(p, mine) /\ ever' = ever
    <3>1. ever \in BOOLEAN
      BY DEF IInv, Family
    <3> QED
      BY <1>1, <1>8, <3>1 DEF Become
  <2> QED
    BY <1>1, <1>2, <1>5, <1>7, <2>1, StepKeeps
<1>9. CASE reload
  <2>1. /\ p = "parent" /\ ever' = TRUE /\ DOMAIN proc' = Procs
        /\ proc'["parent"] = mine /\ proc'["child"] = Child(mine)
    BY <1>1, <1>9 DEF Procs
  <2>2. mine.pc = "watching"
    BY <1>2, <1>9 DEF stage
  <2>3. RecordOK("child", Child(mine)) /\ Child(mine).pc = "env"
    BY <1>1, <1>10, ChildOK
  <2>4. cmd' = cmd /\ dotenv' = dotenv /\ edits' = edits /\ broken' = broken /\ exited' = exited
    BY <1>1 DEF user
  <2>5. \A q \in Procs : RecordOK(q, proc'[q])
    BY <1>7, <2>1, <2>3 DEF Procs
  <2>6. \A q \in Procs : RecordOK(q, proc[q])'
    BY <1>1, <2>5, RecordSame
  <2>7. Family'
    <3>1. exited \in BOOLEAN
      BY DEF IInv, Family
    <3> QED
      BY <1>1, <2>1, <2>2, <2>3, <2>4, <3>1 DEF Family, NoDotenv
  <2> QED
    BY <1>1, <2>1, <2>4, <2>6, <2>7 DEF IInv
<1> QED
  BY <1>8, <1>9

LEMMA ReloadKeeps == ASSUME IInv, Reload PROVE IInv'
<1> DEFINE c == Child(proc["parent"])
<1>1. /\ proc["child"].pc \in {"changed", "failed"} /\ "child" \in Procs /\ "parent" \in Procs
      /\ started' = 0 /\ proc["parent"].pc = "watching"
      /\ UNCHANGED <<user, broken, edits, ever, exited>> /\ Become("child", c)
  BY DEF Reload, At, Procs, Rest, IInv
<1>2. cmd.name = "run" /\ ever /\ ~NoDotenv
  BY <1>1, ChildRuns
<1>3. Complete(proc["parent"].environ) /\ Tame(proc["parent"].environ)
  <2>1. EnvironOK("parent", proc["parent"])
    BY <1>1 DEF IInv, RecordOK
  <2> QED
    BY <1>1, <1>2, <2>1 DEF EnvironOK
<1>4. RecordOK("child", c) /\ c.pc = "env"
  BY <1>2, <1>3, ChildOK
<1> HIDE DEF c
<1>5. /\ cmd' = cmd /\ dotenv' = dotenv /\ DOMAIN proc' = Procs
      /\ \A q \in Procs : proc'[q] = IF q = "child" THEN c ELSE proc[q]
  BY <1>1 DEF IInv, Become, user
<1>6. \A q \in Procs : RecordOK(q, proc'[q])
  BY <1>4, <1>5 DEF IInv
<1>7. \A q \in Procs : RecordOK(q, proc[q])'
  BY <1>1, <1>6, RecordSame
<1>8. Family'
  BY <1>1, <1>2, <1>4, <1>5 DEF IInv, Family, NoDotenv
<1> QED
  BY <1>1, <1>5, <1>7, <1>8 DEF IInv

\* The reloader ends only with a child that the code has ended.
LEMMA EndsKeep == ASSUME IInv, ReloaderEnds PROVE IInv'
<1> DEFINE r == [proc["parent"] EXCEPT !.pc = "failed"]
<1>1. /\ proc["child"].pc = "failed" /\ "child" \in Procs /\ "parent" \in Procs
      /\ started' = 0 /\ proc["parent"].pc = "watching"
      /\ UNCHANGED <<user, broken, edits, ever, exited>> /\ Become("parent", r)
  BY DEF ReloaderEnds, At, Procs, Rest, IInv
<1>2. ever /\ exited /\ cmd.name = "run" /\ ~NoDotenv
  BY <1>1 DEF IInv, Family
<1>3. RecordOK("parent", proc["parent"])
  BY <1>1 DEF IInv
<1>4. /\ DOMAIN r = Fields /\ r.pc = "failed" /\ r.app = proc["parent"].app
      /\ r.guessed = proc["parent"].guessed /\ r.called = proc["parent"].called
      /\ r.debugger = proc["parent"].debugger /\ r.environ = proc["parent"].environ
  BY <1>3 DEF RecordOK, Fields
<1> HIDE DEF r
<1>5. EnvironOK("parent", r)
  BY <1>3, <1>4, EnvironStays DEF RecordOK
<1>6. RecordOK("parent", r)
  BY <1>2, <1>3, <1>4, <1>5 DEF RecordOK, OnItsWay, LoadedOK, Stages
<1>7. /\ cmd' = cmd /\ dotenv' = dotenv /\ DOMAIN proc' = Procs
      /\ \A q \in Procs : proc'[q] = IF q = "parent" THEN r ELSE proc[q]
  BY <1>1 DEF IInv, Become, user
<1>8. \A q \in Procs : RecordOK(q, proc'[q])
  BY <1>6, <1>7 DEF IInv
<1>9. \A q \in Procs : RecordOK(q, proc[q])'
  BY <1>1, <1>8, RecordSame
<1>10. Family'
  BY <1>1, <1>2, <1>4, <1>7 DEF IInv, Family, NoDotenv
<1> QED
  BY <1>1, <1>7, <1>9, <1>10 DEF IInv

LEMMA EditKeeps == ASSUME IInv, Edit PROVE IInv'
<1> DEFINE c == proc["child"]
           stage == IF c.pc = "serving" THEN "changed" ELSE c.pc
           r == [c EXCEPT !.pc = stage]
<1>1. /\ RecordOK("child", c) /\ "child" \in Procs /\ started' = 0 /\ ever
      /\ UNCHANGED <<user, ever, exited>> /\ broken' \in Damage
  BY DEF IInv, Edit, Procs
<1>2. proc' = [proc EXCEPT !["child"] = r]
  BY DEF Edit, IInv, Procs
<1>3. /\ DOMAIN r = Fields /\ r.pc = stage /\ r.app = c.app /\ r.guessed = c.guessed
      /\ r.called = c.called /\ r.debugger = c.debugger /\ r.config = c.config
      /\ r.environ = c.environ /\ r.cli = c.cli /\ r.context = c.context
  BY <1>1 DEF RecordOK, Fields
<1>4. stage = c.pc \/ (c.pc = "serving" /\ stage = "changed")
  OBVIOUS
<1> HIDE DEF r, stage
<1>12. EnvironOK("child", r)
  BY <1>1, <1>3, <1>4 DEF RecordOK, EnvironOK
<1>5. RecordOK("child", r)
  BY <1>1, <1>3, <1>4, <1>12 DEF RecordOK, OnItsWay, LoadedOK, Asked, Stages
<1>6. edits' \in 0..MaxEdits
  BY StartAssumption DEF Edit, IInv
<1>7. /\ ~exited => c.pc # "failed" /\ proc["parent"].pc = "watching"
      /\ proc["parent"].pc \in {"watching", "failed"} /\ cmd.name = "run" /\ ~NoDotenv
      /\ exited \in BOOLEAN /\ ever \in BOOLEAN
  BY <1>1 DEF IInv, Family
<1>8. /\ cmd' = cmd /\ dotenv' = dotenv /\ ever' = ever /\ exited' = exited /\ DOMAIN proc' = Procs
      /\ \A q \in Procs : proc'[q] = IF q = "child" THEN r ELSE proc[q]
  BY <1>1, <1>2 DEF user, IInv
<1>9. \A q \in Procs : RecordOK(q, proc'[q])
  BY <1>5, <1>8 DEF IInv
<1>10. \A q \in Procs : RecordOK(q, proc[q])'
  BY <1>1, <1>9, RecordSame
<1>11. Family'
  <2>1. proc'["parent"].pc = proc["parent"].pc /\ proc'["child"].pc = stage
    BY <1>3, <1>8 DEF Procs
  <2> QED
    BY <2>1, <1>1, <1>4, <1>7, <1>8 DEF Family, NoDotenv
<1> QED
  BY <1>1, <1>6, <1>8, <1>10, <1>11 DEF IInv

-----------------------------------------------------------------------------
(* The invariant. *)

LEMMA InitOK == ASSUME Init PROVE IInv
<1>1. PICK o \in Outer :
          proc = [p \in Procs |->
                    IF p = "child" THEN New
                    ELSE [New EXCEPT !.pc = First, !.context = o,
                                     !.environ = [k \in files["shell"] |-> "shell"]]]
  BY DEF Init
<1>2. /\ cmd \in Commands /\ edits \in 0..MaxEdits /\ started = 0 /\ ever = FALSE
      /\ broken \in Damage /\ exited = FALSE
  BY StartAssumption DEF Init
<1> DEFINE r == [New EXCEPT !.pc = First, !.context = o,
                            !.environ = [k \in files["shell"] |-> "shell"]]
<1>3. /\ DOMAIN r = Fields /\ r.pc = First /\ r.app = None /\ r.guessed = FALSE
      /\ r.debugger = FALSE
  BY NewOK DEF Fields
<1>4. DOMAIN proc = Procs /\ proc["parent"] = r /\ proc["child"] = New
  BY <1>1 DEF Procs
<1> HIDE DEF r
<1>5. RecordOK("parent", r)
  BY <1>3 DEF RecordOK, OnItsWay, EnvironOK, LoadedOK, Stages, First, None, App
<1>6. RecordOK("child", New)
  BY NewOK DEF RecordOK, OnItsWay, EnvironOK, LoadedOK, Stages, None, App
<1>7. Family
  BY <1>2, <1>4, NewOK DEF Family
<1> QED
  BY <1>2, <1>4, <1>5, <1>6, <1>7 DEF IInv, Procs

LEMMA NextKeeps == ASSUME IInv, [Next]_vars PROVE IInv'
<1>1. ASSUME NEW p \in Procs, Boot(p) PROVE IInv'
  <2>1. CASE FromEnv(p)
    BY <2>1, ConfigureKeeps DEF FromEnv, Configure
  <2>2. CASE FromObject(p)
    BY <2>2, ConfigureKeeps DEF FromObject, Configure
  <2>3. CASE FromFile(p)
    <3>1. PICK c : Configure(p, c)
      BY <2>3 DEF FromFile
    <3> QED
      BY <3>1, ConfigureKeeps DEF Configure
  <2> QED
    BY <1>1, <2>1, <2>2, <2>3, EnvFileKeeps, DebugKeeps, ImportKeeps, ExitsKeep, LoadKeeps,
       CommandKeeps, ServeKeeps, RunScriptKeeps DEF Boot
<1>2. CASE UNCHANGED vars
  <2>1. UNCHANGED <<user, broken, edits, ever, exited, proc, started>>
    BY <1>2 DEF vars
  <2>2. cmd' = cmd /\ dotenv' = dotenv
    BY <2>1 DEF user
  <2>3. \A p \in Procs : RecordOK(p, proc[p])'
    BY <2>1, RecordSame DEF IInv
  <2>4. Family'
    BY <2>1, <2>2 DEF IInv, Family, NoDotenv
  <2> QED
    BY <2>1, <2>2, <2>3, <2>4 DEF IInv
<1> QED
  BY <1>1, <1>2, ReloadKeeps, EndsKeep, EditKeeps DEF Next

THEOREM Invariant == Spec => []IInv
BY InitOK, NextKeeps, PTL DEF Spec

-----------------------------------------------------------------------------
(* What it implies. *)

\* Every process is at one of its stages (run_command, Flask.run).
THEOREM TypeCorrect == Spec => []TypeOK
<1>1. IInv => TypeOK
  BY DEF IInv, TypeOK, RecordOK, OnItsWay
<1> QED
  BY <1>1, Invariant, PTL

\* For any modules, files and options: the debugger is as its option says, and
\* without one agrees with the application it serves, whose flag the command
\* sets unless told not to (ScriptInfo.load_app, run_command, Flask.run).
THEOREM DebuggerAgrees == Spec => []DebugAgrees
<1>1. IInv => DebugAgrees
  <2>1. SUFFICES ASSUME IInv, NEW p \in Procs, At(p, "serving"), proc[p].app = App
                 PROVE  proc[p].debugger = Asked(proc[p])
    BY DEF DebugAgrees, Asked
  <2>2. LoadedOK(p, proc[p])
    BY <2>1 DEF IInv, RecordOK
  <2>3. proc[p].debugger <=> Asked(proc[p])
    BY <2>1, <2>2 DEF LoadedOK, At
  <2>4. proc[p].debugger \in BOOLEAN
    BY <2>2 DEF LoadedOK
  <2>5. Asked(proc[p]) \in BOOLEAN
    BY Booleans DEF Asked
  <2> QED
    BY <2>3, <2>4, <2>5
<1> QED
  BY <1>1, Invariant, PTL

\* A factory that was not named is called only in a module without an
\* application (find_best_app).
THEOREM OneApp == Spec => []NeverSecondApp
<1>1. IInv => NeverSecondApp
  BY DEF IInv, NeverSecondApp, RecordOK, LoadedOK
<1> QED
  BY <1>1, Invariant, PTL

\* A module that calls app.run starts no server when the command imports it.
THEOREM NoServerOnImport == Spec => []OneServer
<1>1. IInv => OneServer
  BY DEF IInv, OneServer
<1> QED
  BY <1>1, Invariant, PTL

\* Whatever context is active outside, a command of the application runs in one
\* of that application (FlaskGroup.get_command).
THEOREM CommandContext == Spec => []CommandInContext
<1>1. IInv => CommandInContext
  BY DEF IInv, CommandInContext, RecordOK, OnItsWay, At
<1> QED
  BY <1>1, Invariant, PTL

\* Code that cannot be loaded ends the command at its start, and never the
\* reloader or its child afterwards, unless it ends the process (run_command,
\* which catches no SystemExit).
THEOREM ReloaderSurvives == Spec => [](FailsAtOnce /\ KeepsRunning)
<1>1. IInv => KeepsRunning
  BY DEF IInv, Family, KeepsRunning, At
<1>2. IInv => FailsAtOnce
  <2>1. SUFFICES ASSUME IInv, NEW p \in Procs, proc[p].app = "error" PROVE ever
    BY DEF FailsAtOnce
  <2>2. p = "child"
    BY <2>1 DEF IInv, RecordOK, LoadedOK
  <2> QED
    BY <2>1, <2>2 DEF IInv, Family, None
<1> QED
  BY <1>1, <1>2, Invariant, PTL

-----------------------------------------------------------------------------
(* The environment of the processes. *)

EnvOf(e, k) == IF k \in DOMAIN e THEN e[k] ELSE None

\* What is there comes from its first source, and FLASK_DEBUG may be written
\* by an option that has read it.
IsFrom(v, k) ==
    /\ Expected(k) # None
    /\ v = Expected(k) \/ (v = Documented(k) /\ v \in {"1", "0"})

\* Before the files are read the variables of the shell are there.
EnvStart(e) ==
    \A k : k \notin Optioned =>
        /\ k \in DOMAIN e => IsFrom(e[k], k)
        /\ k \in files["shell"] => k \in DOMAIN e

\* Afterwards all variables are.
EnvLoaded(e) ==
    EnvStart(e) /\ \A k : k \notin Optioned /\ k \notin DOMAIN e => Expected(k) = None

\* Once the options are read, each has its documented value.
EnvSettled(e) == EnvLoaded(e) /\ \A k : k \notin Optioned => EnvOf(e, k) = Documented(k)

EnvStages == {"load", "context", "command", "run", "watching", "serving"}
             \cup (IF cmd.name = "script" THEN {} ELSE {"factory"})

EnvOK(r) ==
    /\ r.pc \in {"env", "factory"} => EnvStart(r.environ)
    /\ r.pc = "options" => EnvLoaded(r.environ)
    /\ r.pc \in EnvStages => EnvSettled(r.environ)

EnvInv == \A p \in Procs : EnvOK(proc[p])

\* The first source in the documented order that is read and has the key.
LEMMA ExpectedIs ==
    ASSUME NEW k
    PROVE  Expected(k) = IF k \in files["shell"] THEN "shell"
                         ELSE IF Loaded("-e") /\ k \in files["-e"] THEN "-e"
                         ELSE IF Loaded(".env") /\ k \in files[".env"] THEN ".env"
                         ELSE IF Loaded(".flaskenv") /\ k \in files[".flaskenv"]
                         THEN ".flaskenv" ELSE None
<1> DEFINE is == {i \in 1..4 : Loaded(Order[i]) /\ k \in files[Order[i]]}
           first == CHOOSE i \in is : \A j \in is : i <= j
<1>1. Expected(k) = IF is = {} THEN None ELSE Order[first]
  BY DEF Expected
<1>2. /\ Order[1] = "shell" /\ Order[2] = "-e" /\ Order[3] = ".env" /\ Order[4] = ".flaskenv"
      /\ Loaded("shell")
  BY DEF Order, Loaded
<1>3. /\ 1 \in is <=> k \in files["shell"]
      /\ 2 \in is <=> Loaded("-e") /\ k \in files["-e"]
      /\ 3 \in is <=> Loaded(".env") /\ k \in files[".env"]
      /\ 4 \in is <=> Loaded(".flaskenv") /\ k \in files[".flaskenv"]
      /\ is \subseteq 1..4 /\ is \subseteq Nat
  BY <1>2
<1> HIDE DEF is
<1>4. ASSUME NEW i \in is, \A j \in is : i <= j PROVE first = i
  <2>1. first \in is /\ \A j \in is : first <= j
    BY <1>4
  <2>2. first <= i /\ i <= first
    BY <1>4, <2>1
  <2>3. is \subseteq Nat
    BY <1>3
  <2>4. first \in Nat /\ i \in Nat
    BY <1>4, <2>1, <2>3
  <2> HIDE DEF first
  <2> QED
    BY <2>2, <2>4
<1> HIDE DEF first
<1>5. 1 \in is => first = 1
  BY <1>3, <1>4
<1>6. 1 \notin is /\ 2 \in is => first = 2
  BY <1>3, <1>4
<1>7. 1 \notin is /\ 2 \notin is /\ 3 \in is => first = 3
  BY <1>3, <1>4
<1>8. 1 \notin is /\ 2 \notin is /\ 3 \notin is /\ 4 \in is => first = 4
  BY <1>3, <1>4
<1>9. is = {} <=> 1 \notin is /\ 2 \notin is /\ 3 \notin is /\ 4 \notin is
  BY <1>3
<1> QED
  BY <1>1, <1>2, <1>3, <1>5, <1>6, <1>7, <1>8, <1>9

\* Reading the files completes an environment that the shell or the parent gave.
LEMMA FilesComplete ==
    ASSUME NEW e, EnvStart(e), ~NoDotenv
    PROVE  LET defaults == get_load_dotenv(cmd.load_dotenv) IN
           EnvLoaded(IF cmd.env \/ defaults THEN load_dotenv(e, cmd.env, defaults) ELSE e)
<1> DEFINE defaults == get_load_dotenv(cmd.load_dotenv)
           d == Data(cmd.env, defaults)
           new == IF cmd.env \/ defaults THEN load_dotenv(e, cmd.env, defaults) ELSE e
<1> SUFFICES EnvLoaded(new)
  OBVIOUS
<1>1. /\ Loaded("-e") <=> cmd.env /\ dotenv
      /\ Loaded(".env") <=> defaults /\ dotenv
      /\ Loaded(".flaskenv") <=> defaults /\ dotenv
  BY DEF Loaded
<1>2. ASSUME NEW k, k \notin Optioned, k \notin DOMAIN e
      PROVE  /\ k \notin files["shell"]
             /\ dotenv /\ k \in DOMAIN d => d[k] = Expected(k) /\ Expected(k) # None
             /\ ~(dotenv /\ k \in DOMAIN d) => Expected(k) = None
  <2>1. k \notin files["shell"]
    BY <1>2 DEF EnvStart
  <2>2. k \in DOMAIN d <=> \/ cmd.env /\ k \in files["-e"]
                           \/ defaults /\ (k \in files[".env"] \/ k \in files[".flaskenv"])
    BY DEF Data
  <2>3. k \in DOMAIN d => d[k] = IF cmd.env /\ k \in files["-e"] THEN "-e"
                                 ELSE IF k \in files[".env"] THEN ".env" ELSE ".flaskenv"
    BY DEF Data
  <2>4. "-e" # None /\ ".env" # None /\ ".flaskenv" # None
    BY DEF None
  <2> HIDE DEF d, defaults
  <2> QED
    BY <1>1, <2>1, <2>2, <2>3, <2>4, ExpectedIs
<1>3. CASE ~((cmd.env \/ defaults) /\ dotenv)
  <2>1. new = e
    BY <1>3 DEF load_dotenv
  <2>2. ASSUME NEW k, k \notin Optioned, k \notin DOMAIN e PROVE Expected(k) = None
    <3>1. k \notin files["shell"] /\ ~Loaded("-e") /\ ~Loaded(".env") /\ ~Loaded(".flaskenv")
      BY <1>1, <1>2, <1>3, <2>2
    <3> QED
      BY <3>1, ExpectedIs
  <2> HIDE DEF new
  <2> QED
    BY <2>1, <2>2 DEF EnvLoaded
<1>4. CASE (cmd.env \/ defaults) /\ dotenv
  <2>1. new = [k \in DOMAIN e \cup DOMAIN d |-> IF k \in DOMAIN e THEN e[k] ELSE d[k]]
    BY <1>4 DEF load_dotenv
  <2> HIDE DEF new, d
  <2>2. /\ DOMAIN new = DOMAIN e \cup DOMAIN d
        /\ \A k \in DOMAIN new : new[k] = IF k \in DOMAIN e THEN e[k] ELSE d[k]
    BY <2>1
  <2>3. ASSUME NEW k, k \notin Optioned
        PROVE  /\ k \in DOMAIN new => IsFrom(new[k], k)
               /\ k \in files["shell"] => k \in DOMAIN new
               /\ k \notin DOMAIN new => Expected(k) = None
    <3>1. CASE k \in DOMAIN e
      BY <2>2, <2>3, <3>1 DEF EnvStart
    <3>2. CASE k \notin DOMAIN e
      BY <1>2, <1>4, <2>2, <2>3, <3>2 DEF IsFrom
    <3> QED
      BY <3>1, <3>2
  <2> QED
    BY <2>3 DEF EnvLoaded, EnvStart
<1> QED
  BY <1>3, <1>4

\* A script has no --env-file, and Flask.run reads the default files alone; no
\* option of click reads FLASK_DEBUG.
LEMMA ScriptComplete ==
    ASSUME NEW e, EnvStart(e), cmd \in Commands, cmd.name = "script"
    PROVE  EnvSettled(IF Defaults THEN load_dotenv(e, FALSE, TRUE) ELSE e)
<1> DEFINE new == IF Defaults THEN load_dotenv(e, FALSE, TRUE) ELSE e
<1>1. ~cmd.env /\ ~NoDotenv
  BY StartAssumption DEF NoDotenv
<1>2. Defaults => load_dotenv(e, cmd.env, Defaults) = load_dotenv(e, FALSE, TRUE)
  <2>1. Defaults => Data(cmd.env, Defaults) = Data(FALSE, TRUE)
    BY <1>1 DEF Data
  <2> QED
    BY <2>1 DEF load_dotenv
<1>3. EnvLoaded(IF cmd.env \/ Defaults THEN load_dotenv(e, cmd.env, Defaults) ELSE e)
  BY <1>1, FilesComplete DEF Defaults
<1>4. EnvLoaded(new)
  BY <1>1, <1>2, <1>3
<1>5. \A k : Documented(k) = Expected(k)
  BY DEF Documented
<1> HIDE DEF new
<1>6. ASSUME NEW k, k \notin Optioned PROVE EnvOf(new, k) = Documented(k)
  BY <1>4, <1>5, <1>6 DEF EnvLoaded, EnvStart, EnvOf, IsFrom
<1> QED
  BY <1>4, <1>6 DEF EnvSettled, new

\* --debug and --no-debug write one variable, which is then the option's; without
\* them it is what the option has read, or what it was if that is nothing.
LEMMA OptionSettles ==
    ASSUME NEW e, EnvLoaded(e), cmd.name # "script", NEW v,
           v # None => v \in {"1", "0"},
           DEBUG \notin Optioned => v = IF DEBUG \in DOMAIN e THEN Option(e[DEBUG]) ELSE None
    PROVE  EnvSettled(IF v = None THEN e ELSE Set(e, DEBUG, v))
<1> DEFINE f == IF v = None THEN e ELSE Set(e, DEBUG, v)
<1>1. /\ \A k : k # DEBUG => (k \in DOMAIN f <=> k \in DOMAIN e)
      /\ \A k : k # DEBUG /\ k \in DOMAIN e => f[k] = e[k]
      /\ v = None => f = e
      /\ v # None => DEBUG \in DOMAIN f /\ f[DEBUG] = v
  BY DEF Set
<1> HIDE DEF f
<1>2. ASSUME NEW k, k \notin Optioned
      PROVE  /\ k \in DOMAIN f => IsFrom(f[k], k)
             /\ k \in files["shell"] => k \in DOMAIN f
             /\ k \notin DOMAIN f => Expected(k) = None
             /\ EnvOf(f, k) = Documented(k)
  <2>1. /\ k \in DOMAIN e => IsFrom(e[k], k)
        /\ k \in files["shell"] => k \in DOMAIN e
        /\ k \notin DOMAIN e => Expected(k) = None
    BY <1>2 DEF EnvLoaded, EnvStart
  <2>2. CASE k # DEBUG
    <3>1. Documented(k) = Expected(k)
      BY <2>2 DEF Documented
    <3>2. k \in DOMAIN e => e[k] = Expected(k)
      BY <2>1, <3>1 DEF IsFrom
    <3> QED
      BY <1>1, <2>1, <2>2, <3>1, <3>2 DEF EnvOf, IsFrom
  <2>3. CASE k = DEBUG /\ k \notin DOMAIN e
    <3>1. v = None /\ f = e /\ Expected(k) = None
      BY <1>1, <1>2, <2>1, <2>3
    <3> QED
      BY <2>1, <2>3, <3>1 DEF Documented, EnvOf
  <2>4. CASE k = DEBUG /\ k \in DOMAIN e
    <3>1. v = Option(e[k]) /\ Expected(k) # None
      BY <1>2, <2>1, <2>4 DEF IsFrom
    <3>2. Documented(k) = IF Option(Expected(k)) = None THEN Expected(k) ELSE Option(Expected(k))
      BY <2>4, <3>1 DEF Documented
    <3>3. CASE e[k] = Expected(k)
      <4>1. CASE v = None
        BY <1>1, <2>1, <2>4, <3>1, <3>2, <3>3, <4>1 DEF EnvOf
      <4>2. CASE v # None
        <5>1. Documented(k) = v /\ v \in {"1", "0"} /\ k \in DOMAIN f /\ f[k] = v
          BY <1>1, <2>4, <3>1, <3>2, <3>3, <4>2
        <5> QED
          BY <3>1, <5>1 DEF EnvOf, IsFrom
      <4> QED
        BY <4>1, <4>2
    <3>4. CASE e[k] # Expected(k)
      <4>1. e[k] = Documented(k) /\ e[k] \in {"1", "0"}
        BY <2>1, <2>4, <3>4 DEF IsFrom
      <4>2. v = e[k] /\ v # None
        BY <3>1, <4>1, OptionReads DEF None
      <4> QED
        BY <1>1, <2>4, <3>1, <4>1, <4>2 DEF EnvOf, IsFrom
    <3> QED
      BY <3>3, <3>4
  <2> QED
    BY <2>2, <2>3, <2>4
<1> QED
  BY <1>2 DEF EnvSettled, EnvLoaded, EnvStart, f

\* Nothing of what is documented changes while the command runs.
LEMMA UserSame ==
    ASSUME UNCHANGED user, NEW p \in Procs, EnvOK(proc'[p])
    PROVE  EnvOK(proc[p])'
<1>1. files' = files /\ cmd' = cmd /\ dotenv' = dotenv /\ text' = text
  BY DEF user
<1>2. Optioned' = Optioned /\ EnvStages' = EnvStages
  BY <1>1 DEF Optioned, EnvStages
<1>3. \A s : Loaded(s)' = Loaded(s)
  BY <1>1 DEF Loaded, get_load_dotenv
<1>4. \A k : Expected(k)' = Expected(k)
  BY <1>1, <1>3 DEF Expected
<1>5. \A v : Option(v)' = Option(v)
  BY <1>1 DEF Option, Says
<1>6. \A k : Documented(k)' = Documented(k)
  BY <1>1, <1>4, <1>5 DEF Documented
<1>7. \A v, k : IsFrom(v, k)' <=> IsFrom(v, k)
  BY <1>4, <1>6 DEF IsFrom
<1> HIDE DEF Optioned, EnvStages
<1> DEFINE e == proc'[p].environ
<1>8. /\ EnvStart(proc[p].environ)' <=> EnvStart(e)
      /\ EnvLoaded(proc[p].environ)' <=> EnvLoaded(e)
      /\ EnvSettled(proc[p].environ)' <=> EnvSettled(e)
  <2>1. EnvStart(proc[p].environ)' <=> EnvStart(e)
    BY <1>1, <1>2, <1>7 DEF EnvStart
  <2>2. EnvLoaded(proc[p].environ)' <=> EnvLoaded(e)
    BY <1>2, <1>4, <2>1 DEF EnvLoaded
  <2>3. EnvSettled(proc[p].environ)' <=> EnvSettled(e)
    BY <1>2, <1>6, <2>2 DEF EnvSettled, EnvOf
  <2> QED
    BY <2>1, <2>2, <2>3
<1> HIDE DEF e
<1> QED
  BY <1>2, <1>8 DEF EnvOK, e

LEMMA EnvStep ==
    ASSUME IInv, EnvInv, NEW p \in Procs, NEW r, Become(p, r), EnvOK(r), UNCHANGED user
    PROVE  EnvInv'
<1>1. \A q \in Procs : proc'[q] = IF q = p THEN r ELSE proc[q]
  BY DEF IInv, Become
<1>2. \A q \in Procs : EnvOK(proc'[q])
  BY <1>1 DEF EnvInv
<1> QED
  BY <1>2, UserSame DEF EnvInv

\* Steps that leave the environment and go to a stage of the same kind.
LEMMA EnvSame ==
    ASSUME IInv, EnvInv, NEW p \in Procs, NEW r, Become(p, r), UNCHANGED user,
           r.environ = proc[p].environ,
           \/ r.pc \in {"done", "failed", "off", "changed"}
           \/ r.pc \in EnvStages /\ proc[p].pc \in EnvStages
           \/ r.pc = "factory" /\ proc[p].pc = "factory"
    PROVE  EnvInv'
<1>1. EnvOK(proc[p])
  BY DEF EnvInv
<1>2. EnvOK(r)
  BY <1>1 DEF EnvOK, EnvStages, EnvLoaded, EnvSettled
<1> QED
  BY <1>2, EnvStep

LEMMA EnvFile == ASSUME IInv, EnvInv, NEW p \in Procs, _env_file_callback(p) PROVE EnvInv'
<1> DEFINE defaults == get_load_dotenv(cmd.load_dotenv)
           q == [proc[p] EXCEPT !.cli = make_context]
           e == IF cmd.env \/ defaults THEN load_dotenv(q.environ, cmd.env, defaults)
                ELSE q.environ
           bad == [q EXCEPT !.pc = "failed"]
           good == [q EXCEPT !.pc = "options", !.environ = e]
<1>1. Become(p, IF NoDotenv THEN bad ELSE good) /\ UNCHANGED user
  BY DEF _env_file_callback, NoDotenv, Rest
<1>2. DOMAIN q = Fields /\ q.environ = proc[p].environ
  BY DEF IInv, RecordOK, Fields
<1>3. EnvStart(q.environ)
  BY <1>2 DEF EnvInv, EnvOK, _env_file_callback, At
<1>4. ~NoDotenv => EnvLoaded(e)
  BY <1>3, FilesComplete
<1> HIDE DEF q, e
<1>5. bad.pc = "failed" /\ good.pc = "options" /\ good.environ = e
  BY <1>2 DEF Fields
<1> HIDE DEF bad, good
<1>6. EnvOK(IF NoDotenv THEN bad ELSE good)
  BY <1>4, <1>5 DEF EnvOK, EnvStages
<1> QED
  BY <1>1, <1>6, EnvStep

LEMMA EnvDebug == ASSUME IInv, EnvInv, NEW p \in Procs, _set_debug(p) PROVE EnvInv'
<1> DEFINE e     == proc[p].environ
           own   == IF cmd.debug = None /\ DEBUG \in DOMAIN e THEN Option(e[DEBUG]) ELSE cmd.debug
           given == IF cmd.name = "run" /\ cmd.run_debug # None THEN cmd.run_debug ELSE own
           f     == IF given = None THEN e ELSE Set(e, DEBUG, given)
           bad   == [proc[p] EXCEPT !.pc = "failed"]
           good  == [proc[p] EXCEPT !.pc = After(p), !.environ = f]
<1>1. /\ Become(p, IF own = "refused" THEN bad ELSE good) /\ proc[p].pc = "options"
      /\ UNCHANGED user /\ DOMAIN proc[p] = Fields /\ cmd.name # "script" /\ cmd \in Commands
  BY DEF IInv, RecordOK, OnItsWay, _set_debug, Rest, At
<1>2. EnvLoaded(e)
  BY <1>1 DEF EnvInv, EnvOK
<1>3. own # "refused" => EnvSettled(f)
  <2> SUFFICES ASSUME own # "refused" PROVE EnvSettled(f)
    OBVIOUS
  <2>1. given # None => given \in {"1", "0"}
    BY <1>1, Options, OptionReads
  <2>2. DEBUG \notin Optioned => cmd.debug = None /\ cmd.run_debug = None
    BY DEF Optioned
  <2>3. DEBUG \notin Optioned => given = IF DEBUG \in DOMAIN e THEN Option(e[DEBUG]) ELSE None
    BY <2>2
  <2> HIDE DEF given, own, e
  <2> QED
    BY <1>1, <1>2, <2>1, <2>3, OptionSettles DEF f
<1> HIDE DEF f, own
<1>4. bad.pc = "failed" /\ good.pc = After(p) /\ good.environ = f
  BY <1>1 DEF Fields
<1> HIDE DEF bad, good
<1>5. EnvOK(IF own = "refused" THEN bad ELSE good)
  BY <1>3, <1>4 DEF EnvOK, After, EnvStages
<1> QED
  BY <1>1, <1>5, EnvStep

LEMMA EnvFails ==
    ASSUME IInv, EnvInv, NEW p \in Procs, NEW failure, proc[p].pc \in {"load", "factory"},
           Become(p, LoadFails(p, failure)), UNCHANGED user
    PROVE  EnvInv'
<1> DEFINE caught == p = "child" /\ cmd.name = "run" /\ failure # "exit"
<1>1. CASE caught
  <2> DEFINE r == [proc[p] EXCEPT !.pc = "run", !.app = "error"]
  <2>1. Become(p, r)
    BY <1>1 DEF LoadFails
  <2>2. r.pc = "run" /\ r.environ = proc[p].environ
    BY DEF IInv, RecordOK, Fields
  <2> HIDE DEF r
  <2> QED
    BY <1>1, <2>1, <2>2, EnvSame DEF EnvStages
<1>2. CASE ~caught
  <2> DEFINE r == [proc[p] EXCEPT !.pc = "failed"]
  <2>1. Become(p, r)
    BY <1>2 DEF LoadFails
  <2>2. r.pc = "failed" /\ r.environ = proc[p].environ
    BY DEF IInv, RecordOK, Fields
  <2> HIDE DEF r
  <2> QED
    BY <2>1, <2>2, EnvSame
<1> QED
  BY <1>1, <1>2

LEMMA EnvImport ==
    ASSUME IInv, EnvInv, NEW p \in Procs, Import(p) \/ Exits(p)
    PROVE  EnvInv'
<1>1. /\ proc[p].pc \in {"load", "factory"} /\ UNCHANGED user /\ DOMAIN proc[p] = Fields
  BY DEF IInv, Import, Exits, At, RecordOK
<1>2. CASE \E failure : Become(p, LoadFails(p, failure))
  <2>1. PICK failure : Become(p, LoadFails(p, failure))
    BY <1>2
  <2> QED
    BY <1>1, <2>1, EnvFails
<1>3. CASE Import(p) /\ ~\E failure : Become(p, LoadFails(p, failure))
  <2>1. cmd.name # "script" /\ proc[p].pc = "load"
    BY <1>3 DEF IInv, RecordOK, OnItsWay, Import, At
  <2>2. PICK c, g : Become(p, [proc[p] EXCEPT !.pc = "factory", !.called = c, !.guessed = g])
    BY <1>3 DEF Import
  <2> DEFINE r == [proc[p] EXCEPT !.pc = "factory", !.called = c, !.guessed = g]
  <2>3. Become(p, r) /\ r.pc = "factory" /\ r.environ = proc[p].environ
    BY <2>2, <1>1 DEF Fields
  <2> HIDE DEF r
  <2> QED
    BY <1>1, <2>1, <2>3, EnvSame DEF EnvStages
<1> QED
  BY <1>2, <1>3 DEF Exits

LEMMA EnvConfigure ==
    ASSUME IInv, EnvInv, NEW p \in Procs, NEW c, Configure(p, c)
    PROVE  EnvInv'
<1>1. proc[p].pc = "factory" /\ UNCHANGED user /\ DOMAIN proc[p] = Fields
  BY DEF IInv, Configure, At, RecordOK, Rest
<1>2. CASE c.ok
  <2> DEFINE r == [proc[p] EXCEPT !.config = c.config, !.ops = @ + 1]
  <2>1. Become(p, r) /\ r.pc = "factory" /\ r.environ = proc[p].environ
    BY <1>1, <1>2 DEF Configure, Fields
  <2> HIDE DEF r
  <2> QED
    BY <1>1, <2>1, EnvSame
<1>3. CASE ~c.ok
  <2>1. Become(p, LoadFails(p, "error"))
    BY <1>3 DEF Configure
  <2> QED
    BY <1>1, <2>1, EnvFails
<1> QED
  BY <1>2, <1>3

LEMMA EnvLoad == ASSUME IInv, EnvInv, NEW p \in Procs, load_app(p) PROVE EnvInv'
<1> DEFINE stage == IF cmd.name = "run" THEN "run" ELSE "context"
<1>1. /\ proc[p].pc = "factory" /\ UNCHANGED user /\ DOMAIN proc[p] = Fields
      /\ cmd.name # "script"
  BY DEF IInv, load_app, At, RecordOK, Rest
<1>2. PICK c : Become(p, [proc[p] EXCEPT !.app = App, !.config = c, !.pc = stage])
  BY DEF load_app
<1> DEFINE r == [proc[p] EXCEPT !.app = App, !.config = c, !.pc = stage]
<1>3. Become(p, r) /\ r.pc = stage /\ r.environ = proc[p].environ
  BY <1>1, <1>2 DEF Fields
<1> HIDE DEF r
<1> QED
  BY <1>1, <1>3, EnvSame DEF EnvStages

LEMMA EnvCommand ==
    ASSUME IInv, EnvInv, NEW p \in Procs, get_command(p) \/ CommandReturns(p)
    PROVE  EnvInv'
<1>1. UNCHANGED user /\ DOMAIN proc[p] = Fields
  BY DEF IInv, get_command, CommandReturns, RecordOK, Rest
<1>2. CASE get_command(p)
  <2> DEFINE r == [proc[p] EXCEPT !.pc = "command", !.context = App]
  <2>1. /\ Become(p, r) /\ r.pc = "command" /\ r.environ = proc[p].environ
        /\ proc[p].pc = "context"
    BY <1>1, <1>2 DEF Fields, get_command, At
  <2> HIDE DEF r
  <2> QED
    BY <1>1, <2>1, EnvSame DEF EnvStages
<1>3. CASE CommandReturns(p)
  <2> DEFINE r == [proc[p] EXCEPT !.pc = "done"]
  <2>1. Become(p, r) /\ r.pc = "done" /\ r.environ = proc[p].environ
    BY <1>1, <1>3 DEF Fields, CommandReturns
  <2> HIDE DEF r
  <2> QED
    BY <1>1, <2>1, EnvSame
<1> QED
  BY <1>2, <1>3

LEMMA EnvRun == ASSUME IInv, EnvInv, NEW p \in Procs, run(p) PROVE EnvInv'
<1> DEFINE e == IF Defaults THEN load_dotenv(proc[p].environ, FALSE, TRUE) ELSE proc[p].environ
<1>1. /\ proc[p].pc = "factory" /\ UNCHANGED user /\ DOMAIN proc[p] = Fields
      /\ cmd.name = "script" /\ cmd \in Commands
  BY DEF IInv, run, At, RecordOK, Rest
<1>2. PICK c, d : Become(p, [proc[p] EXCEPT !.pc = "serving", !.app = App, !.environ = e,
                                            !.config = c, !.debugger = d])
  BY DEF run, Defaults
<1>3. EnvSettled(e)
  <2>1. EnvStart(proc[p].environ)
    BY <1>1 DEF EnvInv, EnvOK
  <2> QED
    BY <1>1, <2>1, ScriptComplete
<1> HIDE DEF e
<1> DEFINE r == [proc[p] EXCEPT !.pc = "serving", !.app = App, !.environ = e,
                                !.config = c, !.debugger = d]
<1>4. Become(p, r) /\ r.pc = "serving" /\ r.environ = e
  BY <1>1, <1>2 DEF Fields
<1> HIDE DEF r
<1>5. EnvOK(r)
  BY <1>3, <1>4 DEF EnvOK
<1> QED
  BY <1>1, <1>4, <1>5, EnvStep

\* A child starts with what its parent has, to which the files add nothing.
LEMMA ChildEnv ==
    ASSUME NEW q, EnvSettled(q.environ)
    PROVE  EnvOK(Child(q))
<1>1. Child(q).pc = "env" /\ Child(q).environ = q.environ
  BY NewOK DEF Child, Fields
<1> QED
  BY <1>1 DEF EnvOK, EnvLoaded, EnvSettled, EnvStages

LEMMA EnvServe == ASSUME IInv, EnvInv, NEW p \in Procs, run_command(p) PROVE EnvInv'
<1> DEFINE debug == get_debug_flag(proc[p].environ)
           reload == p = "parent" /\ Choice(cmd.reload, debug)
           stage == IF reload THEN "watching" ELSE "serving"
           debugger == Choice(cmd.debugger, debug)
           mine == [proc[p] EXCEPT !.pc = stage, !.debugger = debugger]
<1>1. /\ UNCHANGED user /\ DOMAIN proc[p] = Fields /\ proc[p].pc = "run"
      /\ proc' = IF reload THEN [parent |-> mine, child |-> Child(mine)]
                 ELSE [proc EXCEPT ![p] = mine]
  BY DEF IInv, run_command, At, RecordOK, user
<1>2. mine.pc = stage /\ mine.environ = proc[p].environ
  BY <1>1 DEF Fields
<1>3. EnvSettled(mine.environ) /\ stage \in {"watching", "serving"}
  BY <1>1, <1>2 DEF EnvInv, EnvOK, EnvStages
<1> HIDE DEF mine, stage
<1>4. EnvOK(mine)
  BY <1>2, <1>3 DEF EnvOK
<1>5. CASE reload
  <2>1. \A q \in Procs : EnvOK(proc'[q])
    BY <1>1, <1>3, <1>4, <1>5, ChildEnv DEF Procs
  <2> QED
    BY <1>1, <2>1, UserSame DEF EnvInv
<1>6. CASE ~reload
  BY <1>1, <1>4, <1>6, EnvStep DEF Become
<1> QED
  BY <1>5, <1>6

LEMMA EnvReload == ASSUME IInv, EnvInv, Reload PROVE EnvInv'
<1>1. /\ UNCHANGED user /\ "child" \in Procs /\ "parent" \in Procs
      /\ Become("child", Child(proc["parent"])) /\ proc["parent"].pc = "watching"
  BY DEF Reload, At, Rest, Procs
<1>2. EnvSettled(proc["parent"].environ)
  BY <1>1 DEF EnvInv, EnvOK, EnvStages
<1> QED
  BY <1>1, <1>2, ChildEnv, EnvStep

LEMMA EnvEnds == ASSUME IInv, EnvInv, ReloaderEnds PROVE EnvInv'
<1> DEFINE r == [proc["parent"] EXCEPT !.pc = "failed"]
<1>1. /\ UNCHANGED user /\ "parent" \in Procs /\ Become("parent", r)
      /\ DOMAIN proc["parent"] = Fields
  BY DEF IInv, RecordOK, ReloaderEnds, Rest, Procs
<1>2. r.pc = "failed" /\ r.environ = proc["parent"].environ
  BY <1>1 DEF Fields
<1> HIDE DEF r
<1> QED
  BY <1>1, <1>2, EnvSame

LEMMA EnvEdit == ASSUME IInv, EnvInv, Edit PROVE EnvInv'
<1> DEFINE c == proc["child"]
           stage == IF c.pc = "serving" THEN "changed" ELSE c.pc
           r == [c EXCEPT !.pc = stage]
<1>1. /\ UNCHANGED user /\ "child" \in Procs /\ DOMAIN c = Fields
      /\ Become("child", r) /\ EnvOK(c)
  BY DEF IInv, EnvInv, Edit, RecordOK, Procs, Become
<1>2. r.pc = stage /\ r.environ = c.environ
  BY <1>1 DEF Fields
<1> HIDE DEF r
<1>3. EnvOK(r)
  BY <1>1, <1>2 DEF EnvOK, EnvStages
<1> QED
  BY <1>1, <1>3, EnvStep

LEMMA EnvInit == ASSUME Init PROVE EnvInv
<1>1. PICK o \in Outer :
          proc = [p \in Procs |->
                    IF p = "child" THEN New
                    ELSE [New EXCEPT !.pc = First, !.context = o,
                                     !.environ = [k \in files["shell"] |-> "shell"]]]
  BY DEF Init
<1> DEFINE e == [k \in files["shell"] |-> "shell"]
           r == [New EXCEPT !.pc = First, !.context = o, !.environ = e]
<1>2. proc["parent"] = r /\ proc["child"] = New
  BY <1>1 DEF Procs
<1>3. EnvStart(e)
  BY ExpectedIs DEF EnvStart, IsFrom, None
<1> HIDE DEF e
<1>4. r.pc = First /\ r.environ = e
  BY NewOK DEF Fields
<1> HIDE DEF r
<1>5. EnvOK(r)
  BY <1>3, <1>4 DEF EnvOK, EnvStages, First
<1>6. EnvOK(New)
  BY NewOK DEF EnvOK, EnvStages
<1> QED
  BY <1>2, <1>5, <1>6 DEF EnvInv, Procs

LEMMA EnvNext == ASSUME IInv, EnvInv, [Next]_vars PROVE EnvInv'
<1>1. ASSUME NEW p \in Procs, Boot(p) PROVE EnvInv'
  <2>1. CASE FromEnv(p) \/ FromObject(p) \/ FromFile(p)
    <3>1. PICK c : Configure(p, c)
      BY <2>1 DEF FromEnv, FromObject, FromFile
    <3> QED
      BY <3>1, EnvConfigure
  <2> QED
    BY <1>1, <2>1, EnvFile, EnvDebug, EnvImport, EnvLoad, EnvCommand, EnvServe, EnvRun DEF Boot
<1>2. CASE UNCHANGED vars
  <2>1. UNCHANGED user /\ proc' = proc
    BY <1>2 DEF vars
  <2> QED
    BY <2>1, UserSame DEF EnvInv
<1> QED
  BY <1>1, <1>2, EnvReload, EnvEnds, EnvEdit DEF Next

\* For any environment and files: the command line, the shell, the file given,
\* .env and .flaskenv are used in this order, by the command, by Flask.run in a
\* script and by every child of the reloader (load_dotenv); FLASK_DEBUG as what the
\* option of that variable makes of it (_set_debug).
THEOREM EnvironmentDocumented == Spec => []EnvAsDocumented
<1>1. EnvInv => EnvAsDocumented
  BY DEF EnvInv, EnvOK, EnvStages, EnvSettled, EnvOf, EnvAsDocumented
<1> QED
  BY <1>1, Invariant, EnvInit, EnvNext, PTL DEF Spec

-----------------------------------------------------------------------------
(* from_prefixed_env: the loop over the variables, and within it the walk  *)
(* along a variable's path.  What holds after each turn is carried through *)
(* the loop by Induction.                                                  *)

LEMMA Prefixes ==
    ASSUME NEW p \in Paths, NEW i \in 1..Len(p)
    PROVE  /\ SubSeq(p, 1, i) \in Paths /\ Len(SubSeq(p, 1, i)) = i
           /\ SubSeq(p, 1, Len(p)) = p
           /\ \A k \in 1..i : SubSeq(SubSeq(p, 1, i), 1, k) = SubSeq(p, 1, k)
<1>1. p \in Seq(STRING) /\ Len(p) \in Nat /\ i \in Nat /\ 1 <= i /\ i <= Len(p)
  BY DEF Paths
<1>2. SubSeq(p, 1, i) \in Seq(STRING) /\ Len(SubSeq(p, 1, i)) = i
  BY <1>1
<1>3. SubSeq(p, 1, i) # <<>>
  BY <1>1, <1>2
<1>4. SubSeq(p, 1, Len(p)) = p
  BY <1>1
<1>5. ASSUME NEW k \in 1..i PROVE SubSeq(SubSeq(p, 1, i), 1, k) = SubSeq(p, 1, k)
  <2>1. k \in Nat /\ 1 <= k /\ k <= i
    BY <1>1
  <2>2. PICK q : q = SubSeq(p, 1, i) /\ q \in Seq(STRING) /\ Len(q) = i
    BY <1>2
  <2>3. \A j \in 1..i : q[j] = p[j]
    BY <1>1, <2>2
  <2>4. /\ Len(SubSeq(q, 1, k)) = k /\ SubSeq(q, 1, k) \in Seq(STRING)
        /\ \A j \in 1..k : SubSeq(q, 1, k)[j] = q[j]
    BY <2>1, <2>2
  <2>5. /\ Len(SubSeq(p, 1, k)) = k /\ SubSeq(p, 1, k) \in Seq(STRING)
        /\ \A j \in 1..k : SubSeq(p, 1, k)[j] = p[j]
    BY <1>1, <2>1
  <2>6. \A j \in 1..k : j \in 1..i
    BY <1>1, <2>1
  <2>7. SubSeq(q, 1, k) = SubSeq(p, 1, k)
    BY <2>3, <2>4, <2>5, <2>6
  <2> QED
    BY <2>2, <2>7
<1> QED
  BY <1>2, <1>3, <1>4, <1>5 DEF Paths

\* The value v is at path p, and so are the dicts on the way to it.
Holds(c, p, v) ==
    /\ p \in DOMAIN c /\ c[p] = v
    /\ \A i \in 1..Len(p) : SubSeq(p, 1, i) \in DOMAIN c

LEMMA AssignIs ==
    ASSUME NEW c, NEW q, NEW v
    PROVE  /\ q \in DOMAIN Assign(c, q, v) /\ Assign(c, q, v)[q] = v
           /\ \A x \in DOMAIN c : ~Under(x, q) =>
                 /\ x \in DOMAIN Assign(c, q, v)
                 /\ x # q => Assign(c, q, v)[x] = c[x]
BY DEF Assign, Below

\* A path that does not lead to p's own way may be set without losing p.
LEMMA AssignHolds ==
    ASSUME NEW c, NEW p \in Paths, NEW v, Holds(c, p, v), NEW q \in Paths, NEW w,
           q # p, ~Under(p, q)
    PROVE  Holds(Assign(c, q, w), p, v)
<1>1. ASSUME NEW i \in 1..Len(p) PROVE ~Under(SubSeq(p, 1, i), q)
  <2> SUFFICES ASSUME Under(SubSeq(p, 1, i), q) PROVE FALSE
    OBVIOUS
  <2>1. Len(SubSeq(p, 1, i)) = i /\ \A k \in 1..i : SubSeq(SubSeq(p, 1, i), 1, k) = SubSeq(p, 1, k)
    BY Prefixes
  <2>2. Len(q) \in 1..i /\ Len(q) < i /\ Len(p) \in Nat
    BY <2>1 DEF Under, Paths
  <2>3. SubSeq(p, 1, Len(q)) = q
    BY <2>1, <2>2 DEF Under
  <2>4. Len(p) > Len(q)
    BY <2>2
  <2> QED
    BY <2>3, <2>4 DEF Under
<1>2. \A i \in 1..Len(p) : SubSeq(p, 1, i) \in DOMAIN Assign(c, q, w)
  BY <1>1, AssignIs DEF Holds
<1>3. p \in DOMAIN Assign(c, q, w) /\ Assign(c, q, w)[p] = v
  BY AssignIs DEF Holds
<1> QED
  BY <1>2, <1>3 DEF Holds

\* A dict that did not exist was on nobody's way.
LEMMA EnterHolds ==
    ASSUME NEW r, NEW p \in Paths, NEW v, Holds(r.config, p, v), NEW q \in Paths
    PROVE  Holds(Enter(r, q).config, p, v)
<1>1. CASE r.ok /\ q \notin DOMAIN r.config
  <2>1. Enter(r, q).config = Assign(r.config, q, Dict)
    BY <1>1 DEF Enter, Ok
  <2>2. q # p
    BY <1>1 DEF Holds
  <2>3. ~Under(p, q)
    <3> SUFFICES ASSUME Under(p, q) PROVE FALSE
      OBVIOUS
    <3>1. Len(q) \in 1..Len(p)
      BY DEF Under, Paths
    <3> QED
      BY <3>1, <1>1 DEF Under, Holds
  <2> QED
    BY <2>1, <2>2, <2>3, AssignHolds
<1>2. CASE ~(r.ok /\ q \notin DOMAIN r.config)
  BY <1>2 DEF Enter, Raised
<1> QED
  BY <1>1, <1>2

-----------------------------------------------------------------------------
\* The results a load can reach from the config c with values of W.
Confs(c, W) ==
    {c} \cup UNION {[D -> {c[q] : q \in DOMAIN c} \cup W] : D \in SUBSET (DOMAIN c \cup Paths)}
Results(c, W) == [config : Confs(c, W), ok : BOOLEAN]

LEMMA AssignConf ==
    ASSUME NEW c, NEW W, NEW g \in Confs(c, W), NEW q \in Paths, NEW v \in W
    PROVE  Assign(g, q, v) \in Confs(c, W)
<1> DEFINE V == {c[x] : x \in DOMAIN c} \cup W
           P == DOMAIN c \cup Paths
           h == Assign(g, q, v)
<1>1. DOMAIN g \subseteq P /\ \A x \in DOMAIN g : g[x] \in V
  <2>1. CASE g = c
    BY <2>1
  <2>2. CASE g # c
    <3>1. PICK D \in SUBSET P : g \in [D -> V]
      BY <2>2 DEF Confs
    <3> HIDE DEF P, V
    <3> QED
      BY <3>1
  <2> QED
    BY <2>1, <2>2
<1> DEFINE D == (DOMAIN g \ Below(q, g)) \cup {q}
<1>2. D \in SUBSET P
  BY <1>1 DEF Below
<1>3. h \in [D -> V]
  BY <1>1 DEF Assign
<1> QED
  BY <1>2, <1>3 DEF Confs

LEMMA EnterResult ==
    ASSUME NEW c, NEW W, Dict \in W, NEW r \in Results(c, W), NEW q \in Paths
    PROVE  Enter(r, q) \in Results(c, W)
<1>1. r.config \in Confs(c, W) /\ r.ok \in BOOLEAN
  BY DEF Results
<1>2. Assign(r.config, q, Dict) \in Confs(c, W)
  BY <1>1, AssignConf
<1> QED
  BY <1>1, <1>2 DEF Enter, Ok, Raised, Results

\* One key after the other of the way to p.
Way(f, r, p) ==
    /\ f[0] = r
    /\ \A i \in 1..(Len(p) - 1) : f[i] = Enter(f[i - 1], SubSeq(p, 1, i))

LEMMA EntersWay ==
    ASSUME NEW c, NEW W, Dict \in W, NEW r \in Results(c, W), NEW p \in Paths, NEW v \in W
    PROVE  \E f \in [0..(Len(p) - 1) -> Results(c, W)] :
               /\ Way(f, r, p)
               /\ SetNested(r, p, v) = IF f[Len(p) - 1].ok
                                       THEN Ok(Assign(f[Len(p) - 1].config, p, v))
                                       ELSE f[Len(p) - 1]
<1>1. PICK n, S : n = Len(p) - 1 /\ S = Results(c, W)
  OBVIOUS
<1>2. n \in Nat /\ r \in S /\ \A i \in 1..n : i \in 1..Len(p) /\ SubSeq(p, 1, i) \in Paths
  <2>1. Len(p) \in Nat /\ Len(p) > 0
    BY DEF Paths
  <2>2. n \in Nat /\ \A i \in 1..n : i \in 1..Len(p)
    BY <2>1, <1>1
  <2> QED
    BY <2>2, <1>1, Prefixes
<1>3. \A x \in S, i \in 1..n : Enter(x, SubSeq(p, 1, i)) \in S
  BY <1>1, <1>2, EnterResult
<1> DEFINE G == [i \in 1..n |-> [x \in S |-> Enter(x, SubSeq(p, 1, i))]]
<1>4. G \in [1..n -> [S -> S]]
  BY <1>3
<1>5. PICK h \in [0..n -> S] : Iterate(h, n, r, G)
  <2> HIDE DEF G
  <2> QED
    BY <1>2, <1>4, Iterates
<1>6. h[0] = r /\ \A i \in 1..n : h[i] = Enter(h[i - 1], SubSeq(p, 1, i))
  <2>1. \A i \in 1..n : i - 1 \in 0..n /\ h[i - 1] \in S
    BY <1>2
  <2> QED
    BY <1>5, <2>1 DEF Iterate
<1> HIDE DEF G
<1> DEFINE R(f) == [i \in 0..n |-> IF i = 0 THEN r ELSE Enter(f[i - 1], SubSeq(p, 1, i))]
           g == CHOOSE f : f = R(f)
<1>7. h = R(h)
  <2>1. \A i \in 0..n : i = 0 \/ i \in 1..n
    BY <1>2
  <2>2. \A i \in 0..n : h[i] = IF i = 0 THEN r ELSE Enter(h[i - 1], SubSeq(p, 1, i))
    BY <1>6, <2>1
  <2> QED
    BY <2>2
<1>8. g = R(g)
  <2> HIDE DEF R
  <2> QED
    BY <1>7
<1>9. SetNested(r, p, v) = IF g[n].ok THEN Ok(Assign(g[n].config, p, v)) ELSE g[n]
  BY <1>1 DEF SetNested
<1> HIDE DEF g
<1>10. 0 \in 0..n /\ \A i \in 1..n : i \in 0..n /\ i # 0
  BY <1>2
<1>11. g[0] = r /\ \A i \in 1..n : g[i] = Enter(g[i - 1], SubSeq(p, 1, i))
  BY <1>8, <1>10
<1>12. \A i \in 0..n : g[i] \in S
  <2> DEFINE E == {i \in 0..n : g[i] \in S}
  <2>1. 0 \in E
    BY <1>2, <1>10, <1>11
  <2>2. \A i \in 1..n : i - 1 \in E => i \in E
    BY <1>3, <1>10, <1>11
  <2>3. \A i \in 0..n : i \in E
    <3> HIDE DEF E
    <3> QED
      BY <1>2, <2>1, <2>2, UpTo
  <2> QED
    BY <2>3
<1>13. g \in [0..n -> S]
  BY <1>8, <1>12
<1>14. Way(g, r, p)
  BY <1>1, <1>11 DEF Way
<1> QED
  BY <1>1, <1>9, <1>13, <1>14

\* A variable is found where it was put, and what was found before still is.
LEMMA SetHolds ==
    ASSUME NEW c, NEW W, Dict \in W, NEW r \in Results(c, W), NEW p \in Paths, NEW v \in W
    PROVE  /\ SetNested(r, p, v) \in Results(c, W)
           /\ SetNested(r, p, v).ok =>
                /\ r.ok
                /\ Holds(SetNested(r, p, v).config, p, v)
                /\ \A q \in Paths : \A w : Holds(r.config, q, w) /\ q # p /\ ~Under(q, p)
                      => Holds(SetNested(r, p, v).config, q, w)
<1>1. PICK n : n = Len(p) - 1 /\ n \in Nat /\ Len(p) = n + 1 /\ Len(p) \in 1..Len(p)
  BY DEF Paths
<1>2. PICK f \in [0..n -> Results(c, W)] :
          /\ Way(f, r, p)
          /\ SetNested(r, p, v) = IF f[n].ok THEN Ok(Assign(f[n].config, p, v)) ELSE f[n]
  BY <1>1, EntersWay
<1>3. f[0] = r /\ \A i \in 1..n : f[i] = Enter(f[i - 1], SubSeq(p, 1, i))
  BY <1>1, <1>2 DEF Way
<1>4. \A i \in 1..n : i \in 1..Len(p) /\ SubSeq(p, 1, i) \in Paths /\ Len(SubSeq(p, 1, i)) = i
  <2>1. \A i \in 1..n : i \in 1..Len(p)
    BY <1>1
  <2> QED
    BY <2>1, Prefixes
<1> DEFINE
    E == {i \in 0..n : f[i].ok =>
             /\ r.ok
             /\ \A k \in 1..i : SubSeq(p, 1, k) \in DOMAIN f[i].config
             /\ \A q \in Paths : \A w : Holds(r.config, q, w) => Holds(f[i].config, q, w)}
<1>5. 0 \in E
  BY <1>1, <1>3
<1>6. ASSUME NEW i \in 1..n, i - 1 \in E PROVE i \in E
  <2>1. SUFFICES ASSUME f[i].ok
                 PROVE  /\ r.ok
                        /\ \A k \in 1..i : SubSeq(p, 1, k) \in DOMAIN f[i].config
                        /\ \A q \in Paths : \A w : Holds(r.config, q, w) => Holds(f[i].config, q, w)
    BY <1>1
  <2>2. PICK x, q : /\ x = f[i - 1] /\ q = SubSeq(p, 1, i) /\ q \in Paths /\ Len(q) = i
                    /\ f[i] = Enter(x, q)
    BY <1>3, <1>4
  <2>3. x.ok
    BY <2>1, <2>2 DEF Enter
  <2>4. /\ r.ok
        /\ \A k \in 1..(i - 1) : SubSeq(p, 1, k) \in DOMAIN x.config
        /\ \A y \in Paths : \A w : Holds(r.config, y, w) => Holds(x.config, y, w)
    BY <1>6, <2>2, <2>3
  <2>5. q \in DOMAIN f[i].config
    <3>1. CASE q \notin DOMAIN x.config
      BY <3>1, <2>2, <2>3, AssignIs DEF Enter, Ok
    <3>2. CASE q \in DOMAIN x.config
      BY <3>2, <2>2, <2>3 DEF Enter, Ok, Raised
    <3> QED
      BY <3>1, <3>2
  <2>6. ASSUME NEW k \in 1..(i - 1) PROVE SubSeq(p, 1, k) \in DOMAIN f[i].config
    <3>1. k \in 1..n /\ k < i /\ Len(SubSeq(p, 1, k)) = k
      BY <1>1, <1>4
    <3>2. ~Under(SubSeq(p, 1, k), q)
      BY <3>1, <2>2 DEF Under
    <3>3. SubSeq(p, 1, k) \in DOMAIN x.config
      BY <2>4
    <3>4. SubSeq(p, 1, k) \in DOMAIN Assign(x.config, q, Dict)
      BY <3>2, <3>3, AssignIs
    <3> QED
      BY <3>3, <3>4, <2>2 DEF Enter, Ok, Raised
  <2>7. \A k \in 1..i : k = i \/ k \in 1..(i - 1)
    OBVIOUS
  <2>8. \A k \in 1..i : SubSeq(p, 1, k) \in DOMAIN f[i].config
    BY <2>2, <2>5, <2>6, <2>7
  <2>9. \A y \in Paths : \A w : Holds(r.config, y, w) => Holds(f[i].config, y, w)
    BY <2>2, <2>4, EnterHolds
  <2> QED
    BY <2>4, <2>8, <2>9
<1>7. \A i \in 0..n : i \in E
  <2> HIDE DEF E
  <2> QED
    BY <1>1, <1>5, <1>6, UpTo
<1>8. f[n].ok =>
             /\ r.ok
             /\ \A k \in 1..n : SubSeq(p, 1, k) \in DOMAIN f[n].config
             /\ \A q \in Paths : \A w : Holds(r.config, q, w) => Holds(f[n].config, q, w)
  <2>1. n \in E
    BY <1>1, <1>7
  <2> QED
    BY <2>1
<1> HIDE DEF E
<1>9. PICK x, t : x = f[n] /\ x \in Results(c, W) /\ t = SetNested(r, p, v)
                  /\ t = (IF x.ok THEN Ok(Assign(x.config, p, v)) ELSE x)
  BY <1>1, <1>2
<1>10. t \in Results(c, W)
  <2>1. x.config \in Confs(c, W) /\ Assign(x.config, p, v) \in Confs(c, W)
    BY <1>9, AssignConf DEF Results
  <2> QED
    BY <2>1, <1>9 DEF Ok, Results
<1>11. ASSUME t.ok
       PROVE  /\ r.ok /\ Holds(t.config, p, v)
              /\ \A q \in Paths : \A w : Holds(r.config, q, w) /\ q # p /\ ~Under(q, p)
                    => Holds(t.config, q, w)
  <2>1. x.ok /\ t.config = Assign(x.config, p, v)
    BY <1>9, <1>11 DEF Ok
  <2>2. ASSUME NEW k \in 1..Len(p) PROVE SubSeq(p, 1, k) \in DOMAIN t.config
    <3>1. CASE k = Len(p)
      <4>1. SubSeq(p, 1, k) = p
        BY <3>1, Prefixes
      <4>2. p \in DOMAIN Assign(x.config, p, v)
        BY AssignIs
      <4> QED
        BY <4>1, <4>2, <2>1
    <3>2. CASE k # Len(p)
      <4>1. k \in 1..n /\ Len(SubSeq(p, 1, k)) = k /\ k < Len(p)
        BY <3>2, <1>1, <1>4
      <4>2. ~Under(SubSeq(p, 1, k), p)
        BY <4>1 DEF Under
      <4>3. SubSeq(p, 1, k) \in DOMAIN x.config
        BY <4>1, <2>1, <1>8, <1>9
      <4> QED
        BY <4>2, <4>3, <2>1, AssignIs
    <3> QED
      BY <3>1, <3>2
  <2>3. Holds(t.config, p, v)
    BY <2>1, <2>2, AssignIs DEF Holds
  <2>4. \A q \in Paths : \A w : Holds(r.config, q, w) => Holds(x.config, q, w)
    BY <1>8, <1>9, <2>1
  <2>5. \A q \in Paths : \A w : Holds(r.config, q, w) /\ q # p /\ ~Under(q, p) => Holds(t.config, q, w)
    BY <2>1, <2>4, AssignHolds
  <2> QED
    BY <2>1, <2>3, <2>5, <1>8, <1>9
<1> QED
  BY <1>9, <1>10, <1>11

\* Whatever the configuration c held, a load of the environment that does not
\* raise leaves each variable at its path.
LEMMA EnvLoads ==
    ASSUME NEW c, NEW environ, from_prefixed_env(c, environ).ok
    PROVE  Found(from_prefixed_env(c, environ).config, environ)
<1> DEFINE W == {Loads(environ[p]) : p \in DOMAIN environ} \cup {Dict}
           Value(i) == Loads(environ[EnvOrder[i]])
           Given(i) == EnvOrder[i] \in DOMAIN environ
<1>1. PICK n, S : n = Len(EnvOrder) /\ S = Results(c, W)
  OBVIOUS
<1>2. /\ n \in Nat /\ DOMAIN EnvOrder = 1..n
      /\ \A i \in 1..n : EnvOrder[i] \in Paths /\ EnvOrder[i] \in ConfigKeys
  BY <1>1, EnvAssumption
<1>3. Dict \in W /\ \A i \in 1..n : Given(i) => Value(i) \in W
  OBVIOUS
<1>4. Ok(c) \in S
  BY <1>1 DEF Ok, Results, Confs
<1> HIDE DEF W
<1>5. \A x \in S, i \in 1..n : Given(i) => SetNested(x, EnvOrder[i], Value(i)) \in S
  BY <1>1, <1>2, <1>3, SetHolds
<1> DEFINE G == [i \in 1..n |-> [x \in S |->
                    IF EnvOrder[i] \notin DOMAIN environ THEN x
                    ELSE SetNested(x, EnvOrder[i], Loads(environ[EnvOrder[i]]))]]
<1>6. G \in [1..n -> [S -> S]]
  BY <1>5
<1>7. PICK h \in [0..n -> S] : Iterate(h, n, Ok(c), G)
  <2> HIDE DEF G
  <2> QED
    BY <1>2, <1>4, <1>6, Iterates
<1>8. h[0] = Ok(c) /\ \A i \in 1..n : h[i] = IF EnvOrder[i] \notin DOMAIN environ THEN h[i - 1]
                                             ELSE SetNested(h[i - 1], EnvOrder[i], Loads(environ[EnvOrder[i]]))
  <2>1. \A i \in 1..n : i - 1 \in 0..n /\ h[i - 1] \in S
    BY <1>2
  <2> QED
    BY <1>7, <2>1 DEF Iterate
<1> HIDE DEF G
<1> DEFINE R(f) == [i \in 0..n |->
                      IF i = 0 THEN Ok(c)
                      ELSE IF EnvOrder[i] \notin DOMAIN environ THEN f[i - 1]
                      ELSE SetNested(f[i - 1], EnvOrder[i], Loads(environ[EnvOrder[i]]))]
           g == CHOOSE f : f = R(f)
<1>9. h = R(h)
  <2>1. \A i \in 0..n : i = 0 \/ i \in 1..n
    BY <1>2
  <2>2. \A i \in 0..n : h[i] = IF i = 0 THEN Ok(c)
                               ELSE IF EnvOrder[i] \notin DOMAIN environ THEN h[i - 1]
                               ELSE SetNested(h[i - 1], EnvOrder[i], Loads(environ[EnvOrder[i]]))
    BY <1>8, <2>1
  <2> QED
    BY <2>2
<1>10. g = R(g)
  <2> HIDE DEF R
  <2> QED
    BY <1>9
<1>11. from_prefixed_env(c, environ) = g[n]
  BY <1>1 DEF from_prefixed_env
<1> HIDE DEF g
<1>12. 0 \in 0..n /\ \A i \in 1..n : i \in 0..n /\ i # 0
  BY <1>2
<1>13. /\ g[0] = Ok(c)
       /\ \A i \in 1..n : ~Given(i) => g[i] = g[i - 1]
       /\ \A i \in 1..n : Given(i) => g[i] = SetNested(g[i - 1], EnvOrder[i], Value(i))
  BY <1>10, <1>12
<1> HIDE DEF Given, Value
<1> DEFINE
    E == {i \in 0..n :
            /\ g[i] \in S
            /\ g[i].ok => \A k \in 1..i : Given(k) => Holds(g[i].config, EnvOrder[k], Value(k))}
<1>14. 0 \in E
  <2>1. \A k \in 1..0 : FALSE
    OBVIOUS
  <2> QED
    BY <2>1, <1>4, <1>12, <1>13
<1>15. ASSUME NEW i \in 1..n, i - 1 \in E PROVE i \in E
  <2>1. PICK x : x = g[i - 1] /\ x \in S
    BY <1>15
  <2>2. x.ok => \A k \in 1..(i - 1) : Given(k) => Holds(x.config, EnvOrder[k], Value(k))
    BY <1>15, <2>1
  <2>3. \A k \in 1..i : k = i \/ k \in 1..(i - 1)
    OBVIOUS
  <2>4. CASE ~Given(i)
    <3>1. g[i] = x
      BY <1>13, <2>1, <2>4
    <3> QED
      BY <3>1, <2>1, <2>2, <2>3, <2>4, <1>12
  <2>5. CASE Given(i)
    <3>1. PICK p, v : p = EnvOrder[i] /\ v = Value(i) /\ p \in Paths /\ v \in W
      BY <1>2, <1>3, <2>5 DEF Given, Value
    <3>2. g[i] = SetNested(x, p, v)
      BY <1>13, <2>1, <2>5, <3>1
    <3>3. g[i] \in S
      BY <1>1, <1>3, <2>1, <3>1, <3>2, SetHolds
    <3>4. ASSUME g[i].ok, NEW k \in 1..i, Given(k)
          PROVE  Holds(g[i].config, EnvOrder[k], Value(k))
      <4>1. /\ x.ok /\ Holds(g[i].config, p, v)
            /\ \A q \in Paths : \A w : Holds(x.config, q, w) /\ q # p /\ ~Under(q, p)
                  => Holds(g[i].config, q, w)
        <5>1. x \in Results(c, W) /\ SetNested(x, p, v).ok
          BY <1>1, <2>1, <3>2, <3>4
        <5>2. /\ x.ok /\ Holds(SetNested(x, p, v).config, p, v)
              /\ \A q \in Paths : \A w : Holds(x.config, q, w) /\ q # p /\ ~Under(q, p)
                    => Holds(SetNested(x, p, v).config, q, w)
          BY <5>1, <1>3, <3>1, SetHolds
        <5> QED
          BY <5>2, <3>2
      <4>2. CASE k = i
        BY <4>1, <4>2, <3>1
      <4>3. CASE k # i
        <5>1. k \in 1..(i - 1) /\ k \in 1..n /\ k < i
          BY <4>3, <2>3, <1>2
        <5>2. Holds(x.config, EnvOrder[k], Value(k))
          BY <5>1, <4>1, <2>2, <3>4
        <5>3. EnvOrder[k] # p /\ ~Under(EnvOrder[k], p) /\ EnvOrder[k] \in Paths
          BY <5>1, <3>1, <1>2, EnvAssumption
        <5> QED
          BY <5>2, <5>3, <4>1
      <4> QED
        BY <4>2, <4>3
    <3> QED
      BY <3>3, <3>4, <1>12
  <2> QED
    BY <2>4, <2>5
<1>16. \A i \in 0..n : i \in E
  <2> HIDE DEF E
  <2> QED
    BY <1>2, <1>14, <1>15, UpTo
<1>17. n \in E
  BY <1>2, <1>16
<1>18. \A k \in 1..n : Given(k) => Holds(g[n].config, EnvOrder[k], Value(k))
  BY <1>11, <1>17
<1>19. ASSUME NEW p \in ConfigKeys, p \in DOMAIN environ
       PROVE  p \in DOMAIN g[n].config /\ g[n].config[p] = Loads(environ[p])
  <2>1. PICK k \in 1..n : EnvOrder[k] = p
    BY <1>2, EnvAssumption
  <2>2. Given(k) /\ Value(k) = Loads(environ[p])
    BY <2>1, <1>19 DEF Given, Value
  <2> QED
    BY <2>1, <2>2, <1>18 DEF Holds
<1> QED
  BY <1>11, <1>19 DEF Found

Counted == \A p \in Procs : proc[p].ops \in Nat

\* Every step of the processes counts the loads it makes, and no others.
LEMMA StepCounted ==
    ASSUME IInv, Counted, NEW p \in Procs, NEW r, Become(p, r), r.ops \in Nat
    PROVE  Counted'
BY DEF IInv, Counted, Become

LEMMA FailsCounted ==
    ASSUME IInv, Counted, NEW p \in Procs, NEW failure, Become(p, LoadFails(p, failure))
    PROVE  Counted'
<1>1. DOMAIN proc[p] = Fields /\ proc[p].ops \in Nat
  BY DEF IInv, RecordOK, Counted
<1>2. LoadFails(p, failure).ops = proc[p].ops
  BY <1>1 DEF LoadFails, Fields
<1> QED
  BY <1>1, <1>2, StepCounted

LEMMA ConfigureCounted ==
    ASSUME IInv, Counted, NEW p \in Procs, NEW c, Configure(p, c)
    PROVE  Counted'
<1>1. DOMAIN proc[p] = Fields /\ proc[p].ops \in Nat
  BY DEF IInv, RecordOK, Counted
<1>2. CASE c.ok
  <2> DEFINE r == [proc[p] EXCEPT !.config = c.config, !.ops = @ + 1]
  <2>1. Become(p, r) /\ r.ops = proc[p].ops + 1
    BY <1>1, <1>2 DEF Configure, Fields
  <2> HIDE DEF r
  <2> QED
    BY <1>1, <2>1, StepCounted
<1>3. CASE ~c.ok
  <2>1. Become(p, LoadFails(p, "error"))
    BY <1>3 DEF Configure
  <2> QED
    BY <2>1, FailsCounted
<1> QED
  BY <1>2, <1>3

LEMMA ImportCounted ==
    ASSUME IInv, Counted, NEW p \in Procs, Import(p) \/ Exits(p)
    PROVE  Counted'
<1>1. DOMAIN proc[p] = Fields /\ proc[p].ops \in Nat
  BY DEF IInv, RecordOK, Counted
<1>2. CASE \E failure : Become(p, LoadFails(p, failure))
  <2>1. PICK failure : Become(p, LoadFails(p, failure))
    BY <1>2
  <2> QED
    BY <2>1, FailsCounted
<1>3. CASE Import(p) /\ ~\E failure : Become(p, LoadFails(p, failure))
  <2>1. PICK c, g : Become(p, [proc[p] EXCEPT !.pc = "factory", !.called = c, !.guessed = g])
    BY <1>3 DEF Import
  <2> DEFINE r == [proc[p] EXCEPT !.pc = "factory", !.called = c, !.guessed = g]
  <2>2. Become(p, r) /\ r.ops = proc[p].ops
    BY <2>1, <1>1 DEF Fields
  <2> HIDE DEF r
  <2> QED
    BY <1>1, <2>2, StepCounted
<1> QED
  BY <1>2, <1>3 DEF Exits

LEMMA ServeCounted == ASSUME IInv, Counted, NEW p \in Procs, run_command(p) PROVE Counted'
<1>1. DOMAIN proc[p] = Fields /\ proc[p].ops \in Nat
  BY DEF IInv, RecordOK, Counted
<1>2. PICK s, d, reload :
         proc' = LET mine == [proc[p] EXCEPT !.pc = s, !.debugger = d]
                 IN IF reload THEN [parent |-> mine, child |-> Child(mine)]
                    ELSE [proc EXCEPT ![p] = mine]
  BY DEF run_command
<1> DEFINE mine == [proc[p] EXCEPT !.pc = s, !.debugger = d]
<1>3. mine.ops = proc[p].ops /\ Child(mine).ops = 0
  BY <1>1 DEF Fields, Child, New
<1> HIDE DEF mine
<1>4. CASE reload
  <2>1. proc'["parent"] = mine /\ proc'["child"] = Child(mine)
    BY <1>2, <1>4 DEF mine
  <2> QED
    BY <2>1, <1>1, <1>3 DEF Counted, Procs
<1>5. CASE ~reload
  <2>1. Become(p, mine)
    BY <1>2, <1>5 DEF Become, mine
  <2> QED
    BY <2>1, <1>1, <1>3, StepCounted
<1> QED
  BY <1>4, <1>5

LEMMA NextCounted == ASSUME IInv, Counted, [Next]_vars PROVE Counted'
<1>0. \A p \in Procs : DOMAIN proc[p] = Fields /\ proc[p].ops \in Nat
  BY DEF IInv, RecordOK, Counted
<1>1. ASSUME NEW p \in Procs, Boot(p) PROVE Counted'
  <2>1. CASE FromEnv(p) \/ FromObject(p) \/ FromFile(p)
    <3>1. PICK c : Configure(p, c)
      BY <2>1 DEF FromEnv, FromObject, FromFile
    <3> QED
      BY <3>1, ConfigureCounted
  <2>2. CASE Import(p) \/ Exits(p) \/ run_command(p)
    BY <2>2, ImportCounted, ServeCounted
  <2>3. CASE \/ _env_file_callback(p) \/ _set_debug(p) \/ load_app(p)
             \/ get_command(p) \/ CommandReturns(p) \/ run(p)
    <3>1. PICK r : Become(p, r) /\ r.ops = proc[p].ops
      <4>1. CASE _env_file_callback(p)
        <5> DEFINE q == [proc[p] EXCEPT !.cli = make_context]
                   e == IF cmd.env \/ Defaults THEN load_dotenv(q.environ, cmd.env, Defaults)
                        ELSE q.environ
        <5>1. DOMAIN q = Fields /\ q.ops = proc[p].ops
          BY <1>0 DEF Fields
        <5>2. \/ Become(p, [q EXCEPT !.pc = "failed"])
              \/ Become(p, [q EXCEPT !.pc = "options", !.environ = e])
          BY <4>1 DEF _env_file_callback, Defaults
        <5> HIDE DEF q, e
        <5>3. /\ [q EXCEPT !.pc = "failed"].ops = q.ops
              /\ [q EXCEPT !.pc = "options", !.environ = e].ops = q.ops
          BY <5>1 DEF Fields
        <5> QED
          BY <5>1, <5>2, <5>3
      <4>2. CASE _set_debug(p)
        <5>1. PICK e : \/ Become(p, [proc[p] EXCEPT !.pc = "failed"])
                       \/ Become(p, [proc[p] EXCEPT !.pc = After(p), !.environ = e])
          BY <4>2 DEF _set_debug
        <5>2. /\ [proc[p] EXCEPT !.pc = "failed"].ops = proc[p].ops
              /\ [proc[p] EXCEPT !.pc = After(p), !.environ = e].ops = proc[p].ops
          BY <1>0 DEF Fields
        <5> QED
          BY <5>1, <5>2
      <4>3. CASE load_app(p)
        <5>1. PICK c, stage :
                Become(p, [proc[p] EXCEPT !.app = App, !.config = c, !.pc = stage])
          BY <4>3 DEF load_app
        <5> DEFINE r == [proc[p] EXCEPT !.app = App, !.config = c, !.pc = stage]
        <5>2. Become(p, r)
          BY <5>1
        <5>3. r.ops = proc[p].ops
          BY <1>0 DEF Fields
        <5> HIDE DEF r
        <5> QED
          BY <5>2, <5>3
      <4>4. CASE get_command(p) \/ CommandReturns(p)
        <5> DEFINE r == [proc[p] EXCEPT !.pc = "command", !.context = App]
                   d == [proc[p] EXCEPT !.pc = "done"]
        <5>1. Become(p, r) \/ Become(p, d)
          BY <4>4 DEF get_command, CommandReturns
        <5>2. r.ops = proc[p].ops /\ d.ops = proc[p].ops
          BY <1>0 DEF Fields
        <5> HIDE DEF r, d
        <5> QED
          BY <5>1, <5>2
      <4>5. CASE run(p)
        <5>1. PICK e, c, b :
                Become(p, [proc[p] EXCEPT !.pc = "serving", !.app = App, !.environ = e,
                                          !.config = c, !.debugger = b])
          BY <4>5 DEF run
        <5> DEFINE r == [proc[p] EXCEPT !.pc = "serving", !.app = App, !.environ = e,
                                        !.config = c, !.debugger = b]
        <5>2. Become(p, r)
          BY <5>1
        <5>3. r.ops = proc[p].ops
          BY <1>0 DEF Fields
        <5> HIDE DEF r
        <5> QED
          BY <5>2, <5>3
      <4> QED
        BY <2>3, <4>1, <4>2, <4>3, <4>4, <4>5
    <3> QED
      BY <3>1, <1>0, StepCounted
  <2> QED
    BY <1>1, <2>1, <2>2, <2>3 DEF Boot
<1>2. CASE Edit
  <2> DEFINE r == [proc["child"] EXCEPT !.pc = IF @ = "serving" THEN "changed" ELSE @]
  <2>1. "child" \in Procs /\ Become("child", r)
    BY <1>2 DEF Edit, Become, Procs
  <2>2. r.ops = proc["child"].ops
    BY <2>1, <1>0 DEF Fields
  <2> HIDE DEF r
  <2> QED
    BY <2>1, <2>2, <1>0, StepCounted
<1>3. CASE Reload
  <2>1. "child" \in Procs /\ Become("child", Child(proc["parent"]))
    BY <1>3 DEF Reload, Procs
  <2>2. Child(proc["parent"]).ops = 0
    BY DEF Child, New
  <2> QED
    BY <2>1, <2>2, StepCounted
<1>4. CASE ReloaderEnds
  <2> DEFINE r == [proc["parent"] EXCEPT !.pc = "failed"]
  <2>1. "parent" \in Procs /\ Become("parent", r)
    BY <1>4 DEF ReloaderEnds, Procs
  <2>2. r.ops = proc["parent"].ops
    BY <2>1, <1>0 DEF Fields
  <2> HIDE DEF r
  <2> QED
    BY <2>1, <2>2, <1>0, StepCounted
<1>5. CASE UNCHANGED vars
  BY <1>5 DEF vars, Counted
<1> QED
  BY <1>1, <1>2, <1>3, <1>4, <1>5 DEF Next

LEMMA InitCounted == ASSUME Init PROVE Counted
<1>1. PICK o \in Outer :
          proc = [p \in Procs |->
                    IF p = "child" THEN New
                    ELSE [New EXCEPT !.pc = First, !.context = o,
                                     !.environ = [k \in files["shell"] |-> "shell"]]]
  BY DEF Init
<1>2. New.ops = 0
  BY DEF New
<1> QED
  BY <1>1, <1>2 DEF Counted, New

\* Whatever the configuration held, however the names of variables nest in one
\* another: after from_prefixed_env each is found at its path.
THEOREM VariablesFound == Spec => EnvFound
<1>1. ASSUME IInv, Counted, NEW p \in Procs, FromEnv(p), proc'[p].ops = proc[p].ops + 1
      PROVE  Found(proc'[p].config, proc[p].environ)
  <2> DEFINE r == from_prefixed_env(proc[p].config, proc[p].environ)
  <2>1. DOMAIN proc = Procs /\ DOMAIN proc[p] = Fields /\ proc[p].ops \in Nat
    BY <1>1 DEF IInv, RecordOK, Counted
  <2>2. r.ok
    <3> SUFFICES ASSUME ~r.ok PROVE FALSE
      OBVIOUS
    <3>1. proc'[p] = LoadFails(p, "error")
      BY <1>1, <2>1 DEF FromEnv, Configure, Become
    <3>2. LoadFails(p, "error").ops = proc[p].ops
      BY <2>1 DEF LoadFails, Fields
    <3> QED
      BY <3>1, <3>2, <2>1, <1>1
  <2>3. proc'[p].config = r.config
    <3>1. proc'[p] = [proc[p] EXCEPT !.config = r.config, !.ops = @ + 1]
      BY <1>1, <2>1, <2>2 DEF FromEnv, Configure, Become
    <3> HIDE DEF r
    <3> QED
      BY <3>1, <2>1 DEF Fields
  <2> QED
    BY <2>2, <2>3, EnvLoads
<1>2. IInv /\ Counted /\ [Next]_vars =>
        [\A p \in Procs : FromEnv(p) /\ proc'[p].ops = proc[p].ops + 1
             => Found(proc'[p].config, proc[p].environ)]_vars
  BY <1>1
<1>3. Spec => []Counted
  BY Invariant, InitCounted, NextCounted, PTL DEF Spec
<1> QED
  BY Invariant, <1>2, <1>3, PTL DEF Spec, EnvFound
==============================================================================
