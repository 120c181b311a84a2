--------------------------- MODULE BlueprintLookup ----------------------------
(***************************************************************************)
(* What a request finds in the tables that the registrations have filled:  *)
(* the functions to call, in order, the handler of an exception, the       *)
(* source of a template.                                                   *)
(***************************************************************************)
EXTENDS Blueprints

CONSTANTS
    Mro,        \* [exception classes -> sequences of classes, the class first]
    Code,       \* [exception classes -> status codes, or None]
    Templates   \* [owners -> templates in their folders]

ASSUME MroAssumption ==
    /\ DOMAIN Code = DOMAIN Mro
    /\ \A c \in DOMAIN Mro : Mro[c] \in Seq(DOMAIN Mro) /\ Mro[c][1] = c

\* A loader is an object, the result of a search that fails is not.
ASSUME LoaderAssumption == None \notin BPs

Reversed(s) == [i \in 1..Len(s) |-> s[Len(s) + 1 - i]]

\* Request.blueprint and Request.blueprints, the innermost name first.
blueprint(endp)          == SubSeq(endp, 1, Len(endp) - 1)
_split_blueprint_path(n) == [i \in 1..Len(n) |-> SubSeq(n, 1, Len(n) + 1 - i)]
request_blueprints(endp) == _split_blueprint_path(blueprint(endp))

\* Functions that run before the view and around templates, from the application
\* to the innermost blueprint; those that run after it the other way round.
Inwards(endp)  == <<Root>> \o Reversed(request_blueprints(endp))
Outwards(endp) == Append(request_blueprints(endp), Root)

preprocess_request(endp) ==
    LET ns == Inwards(endp) IN Concat([i \in DOMAIN ns |-> At(hooks, ns[i])])
update_template_context(endp) == preprocess_request(endp)
inject_url_defaults(endp)     == preprocess_request(endp)

\* Fault: the functions of a level run in their order.
AfterUnreversed(endp) ==
    LET ns == Outwards(endp) IN Concat([i \in DOMAIN ns |-> At(hooks, ns[i])])

process_response(endp) ==
    LET ns == Outwards(endp) IN Concat([i \in DOMAIN ns |-> Reversed(At(hooks, ns[i]))])
do_teardown_request(endp)     == process_response(endp)

\* The loops of _find_error_handler over codes, names and classes.
Codes(e) == IF Code[e] = None THEN <<None>> ELSE <<Code[e], None>>
Less(p, q, i) == p[i] < q[i]
Same(p, q, i) == p[i] = q[i]
NamesFirst(p, q) ==                              \* fault: the names are the outer loop
    \/ Less(p, q, 2)
    \/ Same(p, q, 2) /\ Less(p, q, 1)
    \/ Same(p, q, 2) /\ Same(p, q, 1) /\ Less(p, q, 3)
Sooner(p, q) ==
    \/ Less(p, q, 1)
    \/ Same(p, q, 1) /\ Less(p, q, 2)
    \/ Same(p, q, 1) /\ Same(p, q, 2) /\ Less(p, q, 3)
Hits(e, endp) ==
    {p \in (DOMAIN Codes(e)) \X (DOMAIN Outwards(endp)) \X (DOMAIN Mro[e]) :
        /\ Mro[e][p[3]] \in DOMAIN At(handlers, Outwards(endp)[p[2]])
        /\ Code[Mro[e][p[3]]] = Codes(e)[p[1]]}
_find_error_handler(e, endp) ==
    IF Hits(e, endp) = {} THEN <<>>
    ELSE LET h == CHOOSE p \in Hits(e, endp) : \A q \in Hits(e, endp) : p = q \/ Sooner(p, q)
         IN <<Outwards(endp)[h[2]], Mro[e][h[3]]>>

\* DispatchingJinjaLoader.
_iter_loaders == <<App>> \o [i \in DOMAIN blueprints |-> blueprints[i].bp]
_get_source_fast(t) ==
    LET ls == _iter_loaders
        found == {i \in DOMAIN ls : t \in Templates[ls[i]]}
    IN IF found = {} THEN None ELSE ls[CHOOSE i \in found : \A j \in found : i <= j]
ExplainedLast(t) ==                              \* fault: the last attempt wins
    LET ls == _iter_loaders
        trv[i \in 0..Len(ls)] == IF i = 0 THEN None
                                 ELSE IF t \in Templates[ls[i]] THEN ls[i] ELSE trv[i - 1]
    IN trv[Len(ls)]

_get_source_explained(t) ==
    LET ls == _iter_loaders
        trv[i \in 0..Len(ls)] == IF i = 0 THEN None
                                 ELSE IF trv[i - 1] = None /\ t \in Templates[ls[i]] THEN ls[i]
                                 ELSE trv[i - 1]
    IN trv[Len(ls)]

-----------------------------------------------------------------------------
(* Properties *)

Endpoint(n)   == Append(n, "x")
Levels(n)     == [i \in 1..Len(n) |-> own[Entry(SubSeq(n, 1, i)).bp]]
LevelHooks(n) == Concat([i \in 1..Len(n) |-> Levels(n)[i].hooks])

\* A request to a nested blueprint runs the application's functions and then, from
\* the outermost level in, those each level's blueprint object holds, once per
\* level; what runs after the view undoes that order exactly.
LevelsNest ==
    focus \in Lists =>
    \A n \in Replayed :
        /\ preprocess_request(Endpoint(n)) = At(hooks, Root) \o LevelHooks(n)
        /\ process_response(Endpoint(n)) = Reversed(preprocess_request(Endpoint(n)))

\* The handler found is the one the docstring of _find_error_handler promises: one
\* for the code before one for a class, then the nearest level, then the most
\* specific class; a level that has none leaves it to its parent.
LevelsOf(n) == {SubSeq(n, 1, i) : i \in 0..Len(n)}
Registered(e, code, l) ==
    {k \in DOMAIN Mro[e] : Mro[e][k] \in DOMAIN At(handlers, l) /\ Code[Mro[e][k]] = code}
Somewhere(e, code, n) == \E l \in LevelsOf(n) : Registered(e, code, l) # {}
Nearest(e, code, n) ==
    CHOOSE l \in LevelsOf(n) :
        /\ Registered(e, code, l) # {}
        /\ \A m \in LevelsOf(n) : Registered(e, code, m) # {} => Len(m) <= Len(l)
HandlerAsPromised ==
    focus = "handlers" =>
    \A n \in Replayed \cup {Root}, e \in DOMAIN Mro :
        LET found == _find_error_handler(e, Endpoint(n))
            code  == IF Somewhere(e, Code[e], n) THEN Code[e] ELSE None
            there == Registered(e, code, Nearest(e, code, n))
        IN IF Somewhere(e, code, n)
           THEN /\ found[1] = Nearest(e, code, n)
                /\ \E j \in there : found[2] = Mro[e][j] /\ \A k \in there : j <= k
           ELSE found = <<>>

\* The application's template comes first, then the one of the blueprint that was
\* registered first, so a parent's before its children's; explaining the search
\* does not change its result.
TemplateOrder ==
    \A t \in UNION {Templates[o] : o \in Owners} :
        /\ _get_source_explained(t) = _get_source_fast(t)
        /\ t \in Templates[App] => _get_source_fast(t) = App
        /\ t \notin Templates[App] =>
              \A n \in Names : t \in Templates[Entry(n).bp] =>
                  \E m \in Names : /\ _get_source_fast(t) = Entry(m).bp
                                   /\ \A i, j \in DOMAIN blueprints :
                                        blueprints[i].name = m /\ blueprints[j].name = n => i <= j
===============================================================================
