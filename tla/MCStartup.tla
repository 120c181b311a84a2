------------------------------ MODULE MCStartup ------------------------------
(* Model-checking instance of Startup. *)
EXTENDS Startup

X  == <<"X">>
Xy == <<"X", "y">>
ModelKeys  == {DEBUG, X, Xy}
ModelOrder == <<DEBUG, X, Xy>>

\* The variables of each source, and what FLASK_DEBUG is in one, in others false.
Env(d, s, word, x, y) ==
    [files |-> [t \in Sources |-> (IF t \in d THEN {DEBUG} ELSE {})
                                  \cup (IF t \in x THEN {X} ELSE {})
                                  \cup (IF t \in y THEN {Xy} ELSE {})],
     text  |-> [t \in Sources |-> IF t = s THEN word ELSE "false"]]
ModelEnvironments ==
    {Env(d, "shell", "false", {}, {}) : d \in SUBSET Sources}
    \cup {Env(d \cup {"-e"}, "-e", "true", {}, {}) : d \in SUBSET {"shell", ".env"}}
    \cup {Env({".env"} \cup d, ".env", "odd", {}, {}) : d \in SUBSET {"shell", ".flaskenv"}}
    \cup {Env({"shell"} \cup d, "shell", word, {}, {}) :
              d \in SUBSET {".env"}, word \in {"true", "no", "off", "empty"}}
    \cup {Env({}, "shell", "false", x, y) :
              x \in SUBSET {"shell", ".env"}, y \in SUBSET {"shell", ".flaskenv"}}

Base == [env |-> FALSE, load_dotenv |-> TRUE, skip |-> "unset", debug |-> None, run_debug |-> None,
         name |-> "run", reload |-> None, debugger |-> None, set_debug_flag |-> TRUE,
         app |-> [given |-> TRUE, name |-> None, args |-> FALSE]]
Script == [Base EXCEPT !.name = "script"]
ModelCommands ==
    {Base, [Base EXCEPT !.env = TRUE, !.run_debug = "1", !.debugger = "off"],
     [Base EXCEPT !.debug = "1", !.run_debug = "0", !.reload = "on"],
     [Base EXCEPT !.app.given = FALSE, !.skip = "1", !.set_debug_flag = FALSE],
     [Base EXCEPT !.name = "routes", !.load_dotenv = FALSE, !.skip = "0"],
     [Base EXCEPT !.name = "custom", !.env = TRUE, !.load_dotenv = FALSE, !.app.name = "create_app"],
     [Base EXCEPT !.name = "custom", !.app.name = "create_app", !.app.args = TRUE],
     Script, [Script EXCEPT !.debug = "1", !.debugger = "off"]}

Module(attrs, flasks, runs) == [state |-> "ok", attrs |-> attrs, flasks |-> flasks, runs |-> runs]
Nothing == [n \in {} |-> None]
ModelModules ==
    {[Module(Nothing, {}, FALSE) EXCEPT !.state = s] : s \in {"missing", "import error"}}
    \cup {Module([app |-> "flask", create_app |-> "factory"], {}, TRUE),
          Module([create_app |-> "factory"], {"a"}, FALSE),
          Module([create_app |-> "factory"], {"a", "b"}, FALSE),
          Module([create_app |-> "needs args"], {}, TRUE),
          Module([create_app |-> "function", make_app |-> "factory"], {}, FALSE),
          Module([create_app |-> "type error"], {}, FALSE),
          Module([create_app |-> "exits"], {}, FALSE)}

ModelMaxOps == [p \in Procs |-> IF p = "parent" THEN 2 ELSE 0]
ModelObjects == {[p \in {DEBUG} |-> "1"], [p \in {X} |-> "scalar"],
                 [p \in {X, Xy} |-> IF p = X THEN Dict ELSE "old"], [p \in {<<"x">>} |-> "lower"]}
ModelFiles == {[state |-> "good", items |-> [p \in {DEBUG} |-> "1"]],
               [state |-> "missing", items |-> Nothing], [state |-> "broken", items |-> Nothing]}
===============================================================================
