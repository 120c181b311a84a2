-------------------------------- MODULE Config --------------------------------
(***************************************************************************)
(* The configuration of an application (src/flask/config.py) as a value:   *)
(* the dict and the dicts in it are a tree, a function from paths of keys  *)
(* to what is there.  A load maps a result [config, ok] to the next; ok is *)
(* FALSE once it has raised, and the config what it was changed to by then.*)
(***************************************************************************)
EXTENDS Naturals, Sequences

CONSTANTS
    ConfigKeys,     \* paths that environment variables of the prefix name
    EnvOrder,       \* those paths as a sequence: the variables in sorted order
    UpperKeys,      \* the keys that isupper() accepts
    DictSources     \* sources whose values are JSON objects, loaded as empty dicts

Paths       == Seq(STRING) \ {<<>>}
Under(q, p) == Len(q) > Len(p) /\ SubSeq(q, 1, Len(p)) = p

ASSUME EnvAssumption ==
    /\ ConfigKeys \subseteq Paths /\ EnvOrder \in Seq(ConfigKeys)
    /\ \A p \in ConfigKeys : \E i \in DOMAIN EnvOrder : EnvOrder[i] = p
    \* Sorted: a name comes before those it begins, and once.
    /\ \A i, j \in DOMAIN EnvOrder :
          i < j => EnvOrder[i] # EnvOrder[j] /\ ~Under(EnvOrder[i], EnvOrder[j])

Dict == "{}"
Ok(c) == [config |-> c, ok |-> TRUE]
Raised(c) == [config |-> c, ok |-> FALSE]

Below(p, c)  == {q \in DOMAIN c : Under(q, p)}
Assign(c, p, v) ==
    [q \in (DOMAIN c \ Below(p, c)) \cup {p} |-> IF q = p THEN v ELSE c[q]]
Loads(v)     == IF v \in DictSources THEN Dict ELSE v

\* One key of the way to a nested one: create the dict, or enter what is there,
\* which raises a TypeError unless it is a dict.
Enter(r, q) ==
    IF ~r.ok THEN r
    ELSE IF q \notin DOMAIN r.config THEN Ok(Assign(r.config, q, Dict))
    ELSE IF r.config[q] # Dict THEN Raised(r.config) ELSE r

SetNested(r, p, v) ==
    LET f[i \in 0..(Len(p) - 1)] == IF i = 0 THEN r ELSE Enter(f[i - 1], SubSeq(p, 1, i))
        s == f[Len(p) - 1]
    IN IF s.ok THEN Ok(Assign(s.config, p, v)) ELSE s

\* Fault: the variables come in the order the environment has them.
from_env_unsorted(c, environ) ==
    LET n == Len(EnvOrder)
        f[i \in 0..n] == IF i = 0 THEN Ok(c)
                         ELSE IF EnvOrder[n + 1 - i] \notin DOMAIN environ THEN f[i - 1]
                         ELSE SetNested(f[i - 1], EnvOrder[n + 1 - i],
                                        Loads(environ[EnvOrder[n + 1 - i]]))
    IN f[n]

from_prefixed_env(c, environ) ==
    LET f[i \in 0..Len(EnvOrder)] ==
            IF i = 0 THEN Ok(c)
            ELSE IF EnvOrder[i] \notin DOMAIN environ THEN f[i - 1]
            ELSE SetNested(f[i - 1], EnvOrder[i], Loads(environ[EnvOrder[i]]))
    IN f[Len(EnvOrder)]

\* from_mapping, and what from_object does with the attributes of an object:
\* the items with an uppercase key replace what is there.
from_mapping(c, items) ==
    LET new == {p \in DOMAIN items : p[1] \in UpperKeys}
        top == {SubSeq(p, 1, 1) : p \in new}
        old == {p \in DOMAIN c : SubSeq(p, 1, 1) \notin top}
    IN Ok([p \in old \cup new |-> IF p \in new THEN items[p] ELSE c[p]])

from_object(c, obj) == from_mapping(c, obj)

\* A file that is missing, unless silent, or that fails to execute or to parse
\* raises before anything is assigned.
from_pyfile(c, file, silent) ==
    CASE file.state = "good"    -> from_object(c, file.items)
      [] file.state = "missing" -> IF silent THEN Ok(c) ELSE Raised(c)
      [] file.state = "broken"  -> Raised(c)

from_file(c, file, silent) ==
    CASE file.state = "good"    -> from_mapping(c, file.items)
      [] file.state = "missing" -> IF silent THEN Ok(c) ELSE Raised(c)
      [] file.state = "broken"  -> Raised(c)

from_envvar(c, name_set, file, silent) ==
    IF name_set THEN from_pyfile(c, file, silent) ELSE IF silent THEN Ok(c) ELSE Raised(c)

-----------------------------------------------------------------------------
(* What a load promises *)

\* Every variable is found at its path, whatever the config held.
Found(c, environ) ==
    \A p \in ConfigKeys \cap DOMAIN environ : p \in DOMAIN c /\ c[p] = Loads(environ[p])
===============================================================================
