--------------------------- MODULE BlueprintsProofs ---------------------------
(***************************************************************************)
(* Proofs about Blueprints for any blueprints, names and setup calls.      *)
(***************************************************************************)
EXTENDS BlueprintLookup, Induction, SequenceTheorems, TLAPS

\* The setup methods of one owner leave the rules alone.
LEMMA SharedKeepRules ==
    ASSUME NEW o \in Owners, SharedSetup(o)
    PROVE  rules' = rules /\ late' = late /\ passed' = FALSE
           /\ got_first_request' = got_first_request
<1>1. ASSUME NEW t, AddHook(o, t) PROVE UNCHANGED <<rules, late>> /\ Setup(o)
  BY <1>1 DEF AddHook, marks
<1>2. ASSUME NEW c \in ExcClasses, register_error_handler(o, c)
      PROVE  UNCHANGED <<rules, late>> /\ Setup(o)
  BY <1>2 DEF register_error_handler, marks
<1>3. ASSUME NEW e \in EndpointNames, endpoint(o, e)
      PROVE  UNCHANGED <<rules, late>> /\ Setup(o)
  BY <1>3 DEF endpoint
<1>4. command(o) => UNCHANGED <<rules, late>> /\ Setup(o)
  BY DEF command, marks
<1> QED
  BY <1>1, <1>2, <1>3, <1>4 DEF Setup, SharedSetup, before_request, after_request,
     teardown_request, context_processor, url_value_preprocessor, url_defaults

LEMMA BlueprintKeepsTables == ASSUME NEW b \in BPs, BlueprintSetup(b) PROVE tables' = tables
<1>1. ASSUME NEW d, record(b, d) PROVE tables' = tables
  BY <1>1 DEF record
<1>2. ASSUME NEW t, OnceFor(b, t) PROVE tables' = tables
  BY <1>1, <1>2 DEF OnceFor, record_once
<1>3. ASSUME NEW c \in ExcClasses, app_errorhandler(b, c) PROVE tables' = tables
  BY <1>1, <1>3 DEF app_errorhandler
<1>4. ASSUME NEW e \in Endpoints, route(b, e) PROVE tables' = tables
  BY <1>1, <1>4 DEF route
<1>5. CASE record_raising(b)
  BY <1>1, <1>5 DEF record_raising
<1>6. ASSUME NEW c \in BPs, NEW opts \in Options, nest(b, c, opts) PROVE tables' = tables
  BY <1>6 DEF nest
<1> QED
  BY <1>2, <1>3, <1>4, <1>5, <1>6 DEF BlueprintSetup, before_app_request, after_app_request,
     teardown_app_request, app_context_processor, app_url_value_preprocessor,
     app_url_defaults, app_template_filter, app_template_test, app_template_global

LEMMA BlueprintSets ==
    ASSUME NEW b \in BPs, BlueprintSetup(b)
    PROVE  passed' = FALSE /\ UNCHANGED got_first_request
<1>1. ASSUME NEW d, record(b, d) PROVE Setup(b)
  BY <1>1 DEF record
<1>2. ASSUME NEW t, OnceFor(b, t) PROVE Setup(b)
  BY <1>1, <1>2 DEF OnceFor, record_once
<1>3. ASSUME NEW c \in ExcClasses, app_errorhandler(b, c) PROVE Setup(b)
  BY <1>1, <1>3 DEF app_errorhandler
<1>4. ASSUME NEW e \in Endpoints, route(b, e) PROVE Setup(b)
  BY <1>1, <1>4 DEF route
<1>5. CASE record_raising(b)
  BY <1>1, <1>5 DEF record_raising, Setup
<1>6. ASSUME NEW c \in BPs, NEW opts \in Options, nest(b, c, opts) PROVE Setup(b)
  BY <1>6 DEF nest
<1> QED
  BY <1>2, <1>3, <1>4, <1>5, <1>6 DEF Setup, BlueprintSetup, before_app_request,
     after_app_request, teardown_app_request, app_context_processor,
     app_url_value_preprocessor, app_url_defaults, app_template_filter, app_template_test,
     app_template_global

-----------------------------------------------------------------------------
(* The first request and the rules. *)

\* A call that has passed its check before the first request is the only one that
\* can still add a rule.
LateInv == late \in {0, 1} /\ (got_first_request /\ passed => late = 0)

LEMMA LateSame ==
    ASSUME LateInv, UNCHANGED <<late, got_first_request>>, passed' = passed \/ passed' = FALSE
    PROVE  LateInv'
BY DEF LateInv

LEMMA LateMapped ==
    ASSUME LateInv, NEW r, MapRule(r), passed, passed' = FALSE,
           UNCHANGED got_first_request
    PROVE  LateInv'
BY DEF LateInv, MapRule

LEMMA LateSetup == ASSUME LateInv, AppSetup PROVE LateInv'
<1>1. ASSUME NEW t, AddHook(App, t) PROVE LateInv'
  BY <1>1, LateSame DEF AddHook, Setup, marks
<1>2. ASSUME NEW e \in EndpointNames, add_url_rule(e) PROVE LateInv'
  BY <1>2, LateMapped DEF add_url_rule, Setup, Open
<1>3. ASSUME NEW b \in BPs, NEW opts \in Options, register_blueprint(b, opts)
      PROVE  LateInv'
  BY <1>3, LateSame DEF register_blueprint, tables, marks
<1> QED
  BY <1>1, <1>2, <1>3 DEF AppSetup, teardown_appcontext, shell_context_processor,
     template_filter, template_test, template_global

LEMMA LateRegistration == ASSUME LateInv, Registration PROVE LateInv'
<1>1. CASE RegisterChild \/ DeferredRaise \/ RegisterReturns
  BY <1>1, LateSame DEF RegisterChild, DeferredRaise, RegisterReturns, tables, marks
<1>2. CASE _merge_blueprint_funcs
  BY <1>2, LateSame DEF _merge_blueprint_funcs
<1>3. CASE DeferredRule
  <2>1. passed' = FALSE /\ UNCHANGED got_first_request
    BY <1>3 DEF DeferredRule
  <2>2. \/ UNCHANGED late
        \/ passed /\ \E r : MapRule(r)
    BY <1>3 DEF DeferredRule
  <2> QED
    BY <2>1, <2>2, LateSame, LateMapped
<1>4. CASE DeferredOnce \/ DeferredHandler \/ RegisterCommands
  BY <1>4, LateSame DEF DeferredOnce, DeferredHandler, RegisterCommands, marks
<1> QED
  BY <1>1, <1>2, <1>3, <1>4 DEF Registration

LEMMA LateStep == LateInv /\ [Next]_vars => LateInv'
<1> SUFFICES ASSUME LateInv, [Next]_vars PROVE LateInv'
  OBVIOUS
<1>1. CASE _check_setup_finished
  BY <1>1 DEF _check_setup_finished, AppOpen, LateInv, tables, marks
<1>2. CASE \E o \in Owners : SharedSetup(o)
  BY <1>2, SharedKeepRules, LateSame
<1>3. ASSUME NEW b \in BPs, BlueprintSetup(b) PROVE LateInv'
  <2>1. UNCHANGED <<late, got_first_request>> /\ passed' = FALSE
    BY <1>3, BlueprintKeepsTables, BlueprintSets DEF tables, marks
  <2> QED
    BY <2>1, LateSame
<1>4. CASE FirstRequest
  BY <1>4 DEF FirstRequest, LateInv
<1>5. CASE ServerReset
  BY <1>5 DEF ServerReset, LateInv, tables, marks
<1>6. CASE UNCHANGED vars
  BY <1>6, LateSame DEF vars, tables, marks
<1> QED
  BY <1>1, <1>2, <1>3, <1>4, <1>5, <1>6, LateSetup, LateRegistration DEF Next

\* However many rules a registration still has to add when the first request comes,
\* at most the one that had passed its check comes into the map.
THEOREM MapCloses == Spec => []OneLateRule
<1>1. Init => LateInv
  BY DEF Init, LateInv
<1>2. LateInv => OneLateRule
  BY DEF LateInv, OneLateRule
<1> QED
  BY <1>1, <1>2, LateStep, PTL DEF Spec

-----------------------------------------------------------------------------
(* The types of what blueprints hold and of the registrations in progress. *)

Funcs    == [by : Owners, wide : BOOLEAN, n : Nat]
Deferred == [kind : {"rule"}, ep : Endpoints, view : ViewFuncs \cup {None}]
            \cup [kind : {"once"}, f : Funcs]
            \cup [kind : {"handler"}, class : ExcClasses, f : Funcs]
            \cup [kind : {"raise"}]
Children == [kind : {"child"}, bp : BPs, opts : Options]
Frames   == [bp : BPs, name : Seq(STRING), at : Nat \ {0}, first : BOOLEAN,
             prefix : Seq(STRING), subdomain : Seq(STRING)]
Entries  == [name : Seq(STRING), bp : BPs, opts : Options]

OwnFields == {"hooks", "handlers", "views", "cli", "deferred", "children", "once"}

OwnRecord(o) ==
    /\ DOMAIN o = OwnFields
    /\ o.hooks \in Seq(Funcs) /\ o.deferred \in Seq(Deferred) /\ o.children \in Seq(Children)
    /\ o.once \in BOOLEAN

Typed ==
    /\ DOMAIN own = BPs /\ \A b \in BPs : OwnRecord(own[b])
    /\ stack \in Seq(Frames) /\ blueprints \in Seq(Entries)
    /\ count \in [Owners -> Nat]

-----------------------------------------------------------------------------
(* The steps of one registration. *)

\* The place of _merge_blueprint_funcs among them.
MergeAt(f) == IF f.bp \in HasStatic THEN 2 ELSE 1

Front(m, D) == <<m>> \o D
Join(U, C)  == U \o C

LEMMA InFront ==
    ASSUME NEW S, NEW m \in S, NEW D \in Seq(S)
    PROVE  /\ Front(m, D) \in Seq(S) /\ Len(Front(m, D)) = 1 + Len(D) /\ Front(m, D)[1] = m
           /\ \A i \in 2..Len(Front(m, D)) : Front(m, D)[i] = D[i - 1]
BY DEF Front

LEMMA Behind ==
    ASSUME NEW S, NEW U \in Seq(S), NEW C \in Seq(S)
    PROVE  /\ Join(U, C) \in Seq(S) /\ Len(Join(U, C)) = Len(U) + Len(C)
           /\ \A i \in 1..Len(U) : Join(U, C)[i] = U[i]
           /\ \A i \in (Len(U) + 1)..Len(Join(U, C)) : Join(U, C)[i] = C[i - Len(U)]
BY DEF Join

Items == Deferred \cup Children \cup {[kind |-> "merge"], [kind |-> "cli"]}

\* The steps are the merge, the deferred functions, the commands, the children.
LEMMA StepAt ==
    ASSUME Typed, NEW f \in Frames, NEW D, D = own[f.bp].deferred
    PROVE  /\ Step(f) \in Seq(Items)
           /\ Len(Step(f)) = 2 + Len(D) + Len(own[f.bp].children)
           /\ Step(f)[1].kind = "merge"
           /\ \A i \in 2..Len(Step(f)) :
                 \/ i - 1 \in DOMAIN D /\ Step(f)[i] = D[i - 1]
                 \/ i = 2 + Len(D) /\ Step(f)[i].kind = "cli"
                 \/ i > 2 + Len(D) /\ Step(f)[i] \in Children
<1>1. PICK C, m, l : /\ C = own[f.bp].children
                     /\ m = [kind |-> "merge"] /\ l = [kind |-> "cli"]
  OBVIOUS
<1>2. PICK S : S = Items
  OBVIOUS
<1>3. D \in Seq(Deferred) /\ C \in Seq(Children)
  BY <1>1 DEF Typed, OwnRecord, Frames
<1>4. D \in Seq(S) /\ C \in Seq(S) /\ m \in S /\ l \in S
  BY <1>1, <1>2, <1>3 DEF Items
<1>5. /\ Len(D) \in Nat /\ Len(C) \in Nat /\ DOMAIN D = 1..Len(D) /\ DOMAIN C = 1..Len(C)
  BY ONLY <1>3
<1>6. PICK L : L = <<l>>
  OBVIOUS
<1>7. PICK S1, S2, T : S1 = Front(m, D) /\ S2 = Join(S1, L) /\ T = Join(S2, C)
  OBVIOUS
<1>8. Step(f) = T
  BY <1>1, <1>6, <1>7 DEF Step, Join, Front
<1>9. L \in Seq(S) /\ Len(L) = 1 /\ L[1] = l
  BY <1>4, <1>6
<1>10. /\ S1 \in Seq(S) /\ Len(S1) = 1 + Len(D) /\ S1[1] = m
       /\ \A i \in 2..Len(S1) : S1[i] = D[i - 1]
  BY ONLY <1>4, <1>7, InFront
<1>11. S1 \in Seq(S) /\ L \in Seq(S) /\ S2 = Join(S1, L) /\ T = Join(S2, C) /\ C \in Seq(S)
  BY ONLY <1>4, <1>7, <1>9, <1>10
<1>12. /\ S2 \in Seq(S) /\ Len(S2) = Len(S1) + Len(L)
       /\ \A i \in 1..Len(S1) : S2[i] = S1[i]
       /\ \A i \in (Len(S1) + 1)..Len(S2) : S2[i] = L[i - Len(S1)]
  BY ONLY <1>11, Behind
<1>13. S2 \in Seq(S)
  BY <1>12
<1>14. /\ T \in Seq(S) /\ Len(T) = Len(S2) + Len(C)
       /\ \A i \in 1..Len(S2) : T[i] = S2[i]
       /\ \A i \in (Len(S2) + 1)..Len(T) : T[i] = C[i - Len(S2)]
  BY ONLY <1>11, <1>13, Behind
<1>15. Len(T) = 2 + Len(D) + Len(C)
  BY ONLY <1>5, <1>9, <1>10, <1>12, <1>14
<1>16. T[1] = m
  BY ONLY <1>5, <1>9, <1>10, <1>12, <1>14
<1>17. ASSUME NEW i \in 2..Len(T)
       PROVE  \/ i - 1 \in DOMAIN D /\ T[i] = D[i - 1]
              \/ i = 2 + Len(D) /\ T[i] = l
              \/ i > 2 + Len(D) /\ T[i] \in Children
  <2>1. CASE i \in 2..Len(S1)
    <3>1. T[i] = D[i - 1] /\ i - 1 \in 1..Len(D)
      BY ONLY <2>1, <1>5, <1>9, <1>10, <1>12, <1>14
    <3> QED
      BY <3>1, <1>5
  <2>2. CASE i = Len(S2)
    BY ONLY <2>2, <1>5, <1>9, <1>10, <1>12, <1>14
  <2>3. CASE i \in (Len(S2) + 1)..Len(T)
    <3>1. T[i] = C[i - Len(S2)] /\ i - Len(S2) \in 1..Len(C) /\ i > 2 + Len(D)
      BY ONLY <2>3, <1>5, <1>9, <1>10, <1>12, <1>14
    <3>2. \A j \in 1..Len(C) : C[j] \in Children
      BY <1>3
    <3> QED
      BY <3>1, <3>2
  <2>4. \/ i \in 2..Len(S1) \/ i = Len(S2) \/ i \in (Len(S2) + 1)..Len(T)
    BY ONLY <1>5, <1>9, <1>10, <1>12, <1>14, i \in 2..Len(T)
  <2> QED
    BY <2>1, <2>2, <2>3, <2>4
<1>18. T \in Seq(Items) /\ T[1].kind = "merge" /\ l.kind = "cli"
  BY <1>1, <1>2, <1>14, <1>16
<1> QED
  BY <1>1, <1>8, <1>15, <1>17, <1>18

\* A deferred function is no merge, no group of commands and no child.
LEMMA DeferredKinds ==
    ASSUME Typed, NEW f \in Frames, NEW i \in DOMAIN own[f.bp].deferred
    PROVE  own[f.bp].deferred[i].kind \notin {"merge", "cli", "child"}
<1>1. own[f.bp].deferred \in Seq(Deferred)
  BY DEF Typed, OwnRecord, Frames
<1>2. own[f.bp].deferred[i] \in Deferred
  BY <1>1
<1> QED
  BY <1>2 DEF Deferred

\* Where each step stands among what a registration has to do.
LEMMA TodoAt ==
    ASSUME Typed, NEW f \in Frames, NEW D, D = own[f.bp].deferred
    PROVE  /\ Len(D) \in Nat /\ DOMAIN D = 1..Len(D) /\ MergeAt(f) \in Nat
           /\ Len(own[f.bp].children) \in Nat
           /\ Len(Todo(f)) = MergeAt(f) + 1 + Len(D) + Len(own[f.bp].children)
           /\ DOMAIN Todo(f) = 1..Len(Todo(f))
           /\ \A i \in DOMAIN Todo(f) :
                 \/ i < MergeAt(f) /\ Todo(f)[i] = StaticRule
                 \/ i = MergeAt(f) /\ Todo(f)[i].kind = "merge"
                 \/ i - MergeAt(f) \in DOMAIN D /\ Todo(f)[i] = D[i - MergeAt(f)]
                 \/ i = MergeAt(f) + 1 + Len(D) /\ Todo(f)[i].kind = "cli"
                 \/ i > MergeAt(f) + 1 + Len(D) /\ Todo(f)[i] \in Children
<1>0. PICK C : C = own[f.bp].children
  OBVIOUS
<1>1. D \in Seq(Deferred) /\ C \in Seq(Children)
  BY <1>0 DEF Typed, OwnRecord, Frames
<1>2. PICK d, c : d = Len(D) /\ c = Len(C) /\ d \in Nat /\ c \in Nat /\ DOMAIN D = 1..d
  <2>1. Len(D) \in Nat /\ Len(C) \in Nat /\ DOMAIN D = 1..Len(D)
    BY ONLY <1>1
  <2> QED
    BY <2>1
<1>3. PICK S, T, m : S = Step(f) /\ T = Todo(f) /\ m = MergeAt(f)
  OBVIOUS
<1> DEFINE Placed(t, n) == \A i \in DOMAIN t :
             \/ i < n /\ t[i] = StaticRule
             \/ i = n /\ t[i].kind = "merge"
             \/ i - n \in DOMAIN D /\ t[i] = D[i - n]
             \/ i = n + 1 + d /\ t[i].kind = "cli"
             \/ i > n + 1 + d /\ t[i] \in Children
<1>4. /\ S \in Seq(Items) /\ Len(S) = 2 + d + c
      /\ S[1].kind = "merge"
      /\ \A i \in 2..Len(S) :
            \/ i - 1 \in DOMAIN D /\ S[i] = D[i - 1]
            \/ i = 2 + d /\ S[i].kind = "cli"
            \/ i > 2 + d /\ S[i] \in Children
  BY <1>0, <1>2, <1>3, StepAt
<1>5. DOMAIN S = 1..Len(S)
  <2>1. S \in Seq(Items)
    BY <1>4
  <2> QED
    BY ONLY <2>1
<1>6. ASSUME NEW i \in 1..Len(S)
      PROVE  \/ i = 1 /\ S[i].kind = "merge"
             \/ i - 1 \in DOMAIN D /\ S[i] = D[i - 1]
             \/ i = 2 + d /\ S[i].kind = "cli"
             \/ i > 2 + d /\ S[i] \in Children
  <2>1. i = 1 \/ i \in 2..Len(S)
    BY <1>2, <1>4
  <2> QED
    BY <2>1, <1>4
<1>7. ASSUME f.bp \notin HasStatic
      PROVE  m = 1 /\ Len(T) = m + 1 + d + c /\ DOMAIN T = 1..Len(T) /\ Placed(T, m)
  <2>1. T = S /\ m = 1
    BY <1>3, <1>7 DEF Todo, MergeAt
  <2>2. ASSUME NEW i \in DOMAIN T
        PROVE  \/ i = 1 /\ T[i].kind = "merge"
               \/ i - 1 \in DOMAIN D /\ T[i] = D[i - 1]
               \/ i = 1 + 1 + d /\ T[i].kind = "cli"
               \/ i > 1 + 1 + d /\ T[i] \in Children
    <3>1. 1 + 1 + d = 2 + d
      BY <1>2
    <3> QED
      BY <2>1, <3>1, <1>5, <1>6
  <2>3. Len(T) = 1 + 1 + d + c
    BY <2>1, <1>2, <1>4
  <2> QED
    BY <2>1, <2>2, <2>3, <1>5
<1>8. ASSUME f.bp \in HasStatic
      PROVE  m = 2 /\ Len(T) = m + 1 + d + c /\ DOMAIN T = 1..Len(T) /\ Placed(T, m)
  <2>1. T = Front(StaticRule, S) /\ m = 2
    BY <1>3, <1>8 DEF Todo, MergeAt, Front
  <2>2. S \in Seq(Items \cup {StaticRule})
    BY <1>4
  <2>3. /\ T \in Seq(Items \cup {StaticRule}) /\ Len(T) = 1 + Len(S)
        /\ T[1] = StaticRule
        /\ \A i \in 2..Len(T) : T[i] = S[i - 1]
    <3>1. PICK Z, r : Z = Items \cup {r} /\ r = StaticRule
      OBVIOUS
    <3>2. r \in Z /\ S \in Seq(Z) /\ T = Front(r, S)
      BY <2>1, <2>2, <3>1
    <3>3. /\ T \in Seq(Z) /\ Len(T) = 1 + Len(S) /\ T[1] = r
          /\ \A i \in 2..Len(T) : T[i] = S[i - 1]
      BY ONLY <3>2, InFront
    <3> QED
      BY <3>1, <3>3
  <2>4. DOMAIN T = 1..Len(T)
    BY <2>3
  <2>5. ASSUME NEW i \in DOMAIN T
        PROVE  \/ i < 2 /\ T[i] = StaticRule
               \/ i = 2 /\ T[i].kind = "merge"
               \/ i - 2 \in DOMAIN D /\ T[i] = D[i - 2]
               \/ i = 2 + 1 + d /\ T[i].kind = "cli"
               \/ i > 2 + 1 + d /\ T[i] \in Children
    <3>1. /\ i \in Nat /\ (i = 1 \/ (i \in 2..Len(T) /\ i - 1 \in 1..Len(S)))
      BY <2>3, <2>4, <1>2, <1>4
    <3>2. CASE i = 1
      BY <3>2, <2>3
    <3>3. CASE i \in 2..Len(T) /\ i - 1 \in 1..Len(S)
      <4>1. T[i] = S[i - 1]
        BY <3>3, <2>3
      <4>2. PICK j : j = i - 1
        OBVIOUS
      <4>3. \/ j = 1 /\ T[i].kind = "merge"
            \/ j - 1 \in DOMAIN D /\ T[i] = D[j - 1]
            \/ j = 2 + d /\ T[i].kind = "cli"
            \/ j > 2 + d /\ T[i] \in Children
        BY <3>3, <4>1, <4>2, <1>6
      <4>4. j - 1 = i - 2 /\ (j = 1 => i = 2) /\ (j = 2 + d => i = 2 + 1 + d)
            /\ (j > 2 + d => i > 2 + 1 + d)
        BY ONLY <3>1, <4>2, <1>2
      <4> QED
        BY <4>3, <4>4
    <3> QED
      BY <3>1, <3>2, <3>3
  <2>6. Len(T) = 2 + 1 + d + c
    BY <2>3, <1>2, <1>4
  <2> QED
    BY <2>1, <2>4, <2>5, <2>6
<1>9. m \in Nat /\ Len(T) = m + 1 + d + c /\ DOMAIN T = 1..Len(T) /\ Placed(T, m)
  BY <1>7, <1>8
<1> QED
  BY <1>0, <1>2, <1>3, <1>9

\* The merge is at its place only, and a step "child" is one of the children.
LEMMA TodoFacts ==
    ASSUME Typed, NEW f \in Frames
    PROVE  /\ Len(Todo(f)) = MergeAt(f) + 1 + Len(own[f.bp].deferred)
                             + Len(own[f.bp].children)
           /\ DOMAIN Todo(f) = 1..Len(Todo(f))
           /\ \A i \in DOMAIN Todo(f) :
                 /\ Todo(f)[i].kind = "merge" <=> i = MergeAt(f)
                 /\ Todo(f)[i].kind = "child" => Todo(f)[i] \in Children
<1>1. PICK D, T : D = own[f.bp].deferred /\ T = Todo(f)
  OBVIOUS
<1>2. PICK d, c, m : d = Len(D) /\ c = Len(own[f.bp].children) /\ m = MergeAt(f)
  OBVIOUS
<1>3. /\ d \in Nat /\ c \in Nat /\ m \in Nat /\ DOMAIN D = 1..d
      /\ Len(T) = m + 1 + d + c /\ DOMAIN T = 1..Len(T)
      /\ \A i \in DOMAIN T :
            \/ i < m /\ T[i] = StaticRule
            \/ i = m /\ T[i].kind = "merge"
            \/ i - m \in DOMAIN D /\ T[i] = D[i - m]
            \/ i = m + 1 + d /\ T[i].kind = "cli"
            \/ i > m + 1 + d /\ T[i] \in Children
  BY <1>1, <1>2, TodoAt
<1>4. \A i \in DOMAIN D : D[i].kind \notin {"merge", "cli", "child"}
  BY <1>1, DeferredKinds
<1>5. StaticRule.kind = "rule" /\ \A x \in Children : x.kind = "child"
  BY DEF StaticRule, Children
<1>6. ASSUME NEW i \in DOMAIN T
      PROVE  /\ T[i].kind = "merge" <=> i = m
             /\ T[i].kind = "child" => T[i] \in Children
  <2>1. i \in Nat
    BY <1>3
  <2>2. /\ i < m => i # m
        /\ i - m \in DOMAIN D => i # m
        /\ i = m + 1 + d => i # m
        /\ i > m + 1 + d => i # m
    BY ONLY <2>1, <1>3
  <2> QED
    BY <2>2, <1>3, <1>4, <1>5
<1> QED
  BY <1>1, <1>2, <1>3, <1>6

-----------------------------------------------------------------------------
(* The invariant behind HooksOfBlueprint. *)

\* What the tables hold under a name is what the blueprint holds.
Matches(n, b) == At(hooks, n) = own[b].hooks /\ At(handlers, n) = own[b].handlers

\* A running registration has its entry, and its functions once it merged them.
FrameOK(f) ==
    /\ \E i \in DOMAIN blueprints : blueprints[i].name = f.name /\ blueprints[i].bp = f.bp
    /\ f.name \notin done
    /\ f.at <= MergeAt(f) => f.name \notin DOMAIN hooks /\ f.name \notin DOMAIN handlers
    /\ f.at > MergeAt(f) => Matches(f.name, f.bp)

Distinct(s) == \A i, j \in DOMAIN s : s[i].name = s[j].name => i = j

Running(s) == (\A i \in DOMAIN s : FrameOK(s[i])) /\ Distinct(s)

EntriesOK ==
    /\ Distinct(blueprints)
    /\ \A i \in DOMAIN blueprints : blueprints[i].name # Root /\ own[blueprints[i].bp].once

DoneOK ==
    /\ done \subseteq Names
    /\ \A i \in DOMAIN blueprints :
          blueprints[i].name \in done => Matches(blueprints[i].name, blueprints[i].bp)

KeysOK == DOMAIN hooks \subseteq Names \cup {Root} /\ DOMAIN handlers \subseteq Names \cup {Root}

IInv == Typed /\ EntriesOK /\ Running(stack) /\ DoneOK /\ KeysOK

-----------------------------------------------------------------------------
(* Steps that merge nothing. *)

\* A table as it was, but for the key of the application.
SameBelow(t, u) == \A n : n # Root => (n \in DOMAIN u <=> n \in DOMAIN t) /\ At(u, n) = At(t, n)

Quiet ==
    /\ UNCHANGED <<blueprints, done>>
    /\ \A b \in BPs : own[b].once =>
          own'[b].once /\ own'[b].hooks = own[b].hooks /\ own'[b].handlers = own[b].handlers
    /\ SameBelow(hooks, hooks') /\ SameBelow(handlers, handlers')

LEMMA SameRefl == ASSUME NEW t PROVE SameBelow(t, t)
BY DEF SameBelow

LEMMA PutRoot == ASSUME NEW t, NEW v PROVE SameBelow(t, Put(t, Root, v))
BY DEF SameBelow, Put, At

LEMMA EntryTyped ==
    ASSUME Typed, NEW i \in DOMAIN blueprints
    PROVE  blueprints[i] \in Entries /\ blueprints[i].bp \in BPs
<1>1. blueprints[i] \in Entries
  BY DEF Typed
<1> QED
  BY <1>1 DEF Entries

LEMMA EntryOf ==
    ASSUME EntriesOK, NEW i \in DOMAIN blueprints
    PROVE  Entry(blueprints[i].name) = blueprints[i]
<1>1. PICK n : n = blueprints[i].name
  OBVIOUS
<1>2. PICK k : k = CHOOSE j \in DOMAIN blueprints : blueprints[j].name = n
  OBVIOUS
<1>3. k \in DOMAIN blueprints /\ blueprints[k].name = n
  BY <1>1, <1>2
<1>4. k = i
  BY <1>1, <1>3 DEF EntriesOK, Distinct
<1> QED
  BY <1>1, <1>2, <1>4 DEF Entry

LEMMA QuietMatches ==
    ASSUME IInv, Quiet, NEW i \in DOMAIN blueprints,
           Matches(blueprints[i].name, blueprints[i].bp)
    PROVE  Matches(blueprints[i].name, blueprints[i].bp)'
<1>1. /\ blueprints[i].bp \in BPs /\ own[blueprints[i].bp].once
      /\ blueprints[i].name # Root /\ blueprints' = blueprints
  BY EntryTyped DEF IInv, EntriesOK, Quiet
<1>2. /\ own'[blueprints[i].bp].hooks = own[blueprints[i].bp].hooks
      /\ own'[blueprints[i].bp].handlers = own[blueprints[i].bp].handlers
  BY <1>1 DEF Quiet
<1>3. /\ At(hooks', blueprints[i].name) = At(hooks, blueprints[i].name)
      /\ At(handlers', blueprints[i].name) = At(handlers, blueprints[i].name)
  BY <1>1 DEF Quiet, SameBelow
<1> QED
  BY <1>1, <1>2, <1>3 DEF Matches

LEMMA QuietFrame ==
    ASSUME IInv, Quiet, NEW f \in Frames, FrameOK(f)
    PROVE  FrameOK(f)'
<1>1. PICK i \in DOMAIN blueprints : blueprints[i].name = f.name /\ blueprints[i].bp = f.bp
  BY DEF FrameOK
<1>2. f.name # Root /\ blueprints' = blueprints /\ done' = done
  BY <1>1 DEF IInv, EntriesOK, Quiet
<1>3. /\ f.name \in DOMAIN hooks' <=> f.name \in DOMAIN hooks
      /\ f.name \in DOMAIN handlers' <=> f.name \in DOMAIN handlers
  BY <1>2 DEF Quiet, SameBelow
<1>4. Matches(f.name, f.bp) => Matches(f.name, f.bp)'
  <2>1. Matches(f.name, f.bp) => Matches(blueprints[i].name, blueprints[i].bp)'
    BY <1>1, QuietMatches
  <2> QED
    BY <2>1, <1>1, <1>2 DEF Matches
<1> QED
  BY <1>1, <1>2, <1>3, <1>4 DEF FrameOK, MergeAt

LEMMA QuietKeeps ==
    ASSUME IInv, Typed', Quiet, \A i \in DOMAIN stack' : FrameOK(stack'[i]), Distinct(stack')
    PROVE  IInv'
<1>1. blueprints' = blueprints /\ done' = done
  BY DEF Quiet
<1>2. EntriesOK'
  <2>1. ASSUME NEW i \in DOMAIN blueprints PROVE own'[blueprints[i].bp].once
    BY EntryTyped DEF IInv, EntriesOK, Quiet
  <2> QED
    BY <1>1, <2>1 DEF IInv, EntriesOK, Distinct
<1>3. Running(stack)'
  <2>1. ASSUME NEW i \in DOMAIN stack' PROVE FrameOK(stack[i])'
    <3>1. stack'[i] \in Frames
      BY DEF Typed
    <3>2. PICK f : f = stack'[i]
      OBVIOUS
    <3>3. FrameOK(f)'
      BY <3>1, <3>2, QuietFrame
    <3> QED
      BY <3>2, <3>3 DEF FrameOK, Matches, MergeAt
  <2> QED
    BY <2>1 DEF Running, Distinct
<1>4. DoneOK'
  <2>1. ASSUME NEW i \in DOMAIN blueprints, blueprints[i].name \in done
        PROVE  Matches(blueprints[i].name, blueprints[i].bp)'
    BY <2>1, QuietMatches DEF IInv, DoneOK
  <2> QED
    BY <1>1, <2>1 DEF IInv, DoneOK, Names
<1>5. KeysOK'
  BY <1>1 DEF IInv, KeysOK, Names, Quiet, SameBelow
<1> QED
  BY <1>2, <1>3, <1>4, <1>5 DEF IInv

-----------------------------------------------------------------------------
(* The stack of registrations. *)

LEMMA TopFacts ==
    ASSUME Typed, stack # <<>>
    PROVE  /\ Len(stack) \in Nat \ {0} /\ DOMAIN stack = 1..Len(stack)
           /\ Len(stack) \in DOMAIN stack /\ Top \in Frames /\ Top = stack[Len(stack)]
BY DEF Typed, Top

\* The innermost registration has made its step.
LEMMA AdvancedFacts ==
    ASSUME Typed, stack # <<>>
    PROVE  /\ Advanced \in Seq(Frames) /\ DOMAIN Advanced = DOMAIN stack
           /\ \A i \in DOMAIN stack : i # Len(stack) => Advanced[i] = stack[i]
           /\ Advanced[Len(stack)] \in Frames
           /\ Advanced[Len(stack)].name = Top.name /\ Advanced[Len(stack)].bp = Top.bp
           /\ Advanced[Len(stack)].at = Top.at + 1
           /\ Advanced[Len(stack)].first = Top.first /\ Len(Advanced) = Len(stack)
<1> DEFINE f == [Top EXCEPT !.at = @ + 1]
<1>1. /\ f \in Frames /\ f.name = Top.name /\ f.bp = Top.bp /\ f.at = Top.at + 1
      /\ f.first = Top.first
  BY TopFacts DEF Frames
<1>2. Advanced = [stack EXCEPT ![Len(stack)] = f]
  BY TopFacts DEF Advanced
<1> HIDE DEF f
<1>3. stack \in Seq(Frames) /\ Len(stack) \in DOMAIN stack
  BY TopFacts DEF Typed
<1>4. Advanced \in Seq(Frames) /\ DOMAIN Advanced = DOMAIN stack /\ Len(Advanced) = Len(stack)
  BY <1>1, <1>2, <1>3
<1>5. Advanced[Len(stack)] = f /\ \A i \in DOMAIN stack : i # Len(stack) => Advanced[i] = stack[i]
  BY <1>2, <1>3
<1> QED
  BY <1>1, <1>4, <1>5

\* A step that is not the merge leaves a registration on its side of it.
LEMMA SideKept ==
    ASSUME Typed, stack # <<>>, Running(stack), Top.at # MergeAt(Top)
    PROVE  (\A i \in DOMAIN Advanced : FrameOK(Advanced[i])) /\ Distinct(Advanced)
<1>1. /\ Len(stack) \in DOMAIN stack /\ Top \in Frames /\ Top = stack[Len(stack)]
      /\ Top.at \in Nat
  BY TopFacts DEF Frames
<1>2. PICK f : f = Advanced[Len(stack)]
  OBVIOUS
<1>3. f.name = Top.name /\ f.bp = Top.bp /\ f.at = Top.at + 1
  BY <1>2, AdvancedFacts
<1>4. FrameOK(Top)
  BY <1>1 DEF Running
<1>5. /\ MergeAt(f) = MergeAt(Top) /\ MergeAt(Top) \in Nat
      /\ f.at <= MergeAt(f) <=> Top.at <= MergeAt(Top)
      /\ f.at > MergeAt(f) <=> Top.at > MergeAt(Top)
  BY <1>1, <1>3 DEF MergeAt
<1>6. FrameOK(f)
  BY <1>3, <1>4, <1>5 DEF FrameOK
<1>7. ASSUME NEW i \in DOMAIN Advanced PROVE FrameOK(Advanced[i])
  <2>1. i = Len(stack) \/ (i \in DOMAIN stack /\ Advanced[i] = stack[i])
    BY <1>7, AdvancedFacts
  <2> QED
    BY <2>1, <1>2, <1>6 DEF Running
<1>8. \A i \in DOMAIN stack : Advanced[i].name = stack[i].name
  BY <1>1, <1>2, <1>3, AdvancedFacts
<1> QED
  BY <1>7, <1>8, AdvancedFacts DEF Running, Distinct

\* The step at the place of the merge is the merge, and no other one is.
LEMMA AtMerge ==
    ASSUME Typed, NEW kind, Doing(kind)
    PROVE  /\ stack # <<>> /\ Top \in Frames /\ Top.at \in DOMAIN Todo(Top)
           /\ Todo(Top)[Top.at].kind = kind
           /\ kind = "merge" <=> Top.at = MergeAt(Top)
           /\ kind = "child" => Current \in Children
<1>1. /\ stack # <<>> /\ Top.at \in DOMAIN Todo(Top) /\ Todo(Top)[Top.at].kind = kind
  BY DEF Doing
<1>2. Top \in Frames
  BY <1>1, TopFacts
<1> QED
  BY <1>1, <1>2, TodoFacts DEF Current

\* Steps other than the merge, when they change only the application's part of a table.
LEMMA StepKeeps ==
    ASSUME IInv, NEW kind, kind # "merge", Doing(kind), Advance \/ Abort,
           UNCHANGED <<own, blueprints, count, done>>,
           SameBelow(hooks, hooks'), SameBelow(handlers, handlers')
    PROVE  IInv'
<1>1. Quiet
  BY DEF Quiet
<1>2. CASE Abort
  <2>1. stack' = <<>>
    BY <1>2 DEF Abort
  <2>2. Typed'
    BY <2>1 DEF IInv, Typed, OwnRecord
  <2> QED
    BY <1>1, <2>1, <2>2, QuietKeeps DEF Distinct
<1>3. CASE Advance
  <2>1. stack # <<>> /\ Top.at # MergeAt(Top)
    BY AtMerge DEF IInv
  <2>2. stack' = Advanced
    BY <1>3 DEF Advance
  <2>3. Typed'
    BY <2>1, <2>2, AdvancedFacts DEF IInv, Typed, OwnRecord
  <2>4. (\A i \in DOMAIN stack' : FrameOK(stack'[i])) /\ Distinct(stack')
    BY <2>1, <2>2, SideKept DEF IInv
  <2> QED
    BY <1>1, <2>3, <2>4, QuietKeeps
<1> QED
  BY <1>2, <1>3

\* What the setup methods do while no registration runs.
LEMMA SetupKeeps ==
    ASSUME IInv, stack = <<>>, stack' = stack, Typed', Quiet
    PROVE  IInv'
BY QuietKeeps DEF Distinct

-----------------------------------------------------------------------------
(* The setup methods. *)

LEMMA FuncTyped ==
    ASSUME Typed, NEW o \in Owners, NEW wide \in BOOLEAN
    PROVE  Func(o, wide) \in Funcs
BY DEF Func, Funcs, Typed

\* A setup method of one blueprint: it is not registered yet.
LEMMA OwnKeeps ==
    ASSUME IInv, NEW b \in BPs, Setup(b), NEW o, OwnRecord(o),
           own' = [own EXCEPT ![b] = o], tables' = tables
    PROVE  IInv'
<1>1. /\ stack = <<>> /\ stack' = stack /\ ~own[b].once /\ blueprints' = blueprints
      /\ done' = done
  BY FocusAssumption DEF Setup, Open, BlueprintOpen, history
<1>2. count' \in [Owners -> Nat]
  BY DEF Setup, IInv, Typed, Owners
<1>3. DOMAIN own' = BPs /\ \A c \in BPs : own'[c] = IF c = b THEN o ELSE own[c]
  BY DEF IInv, Typed
<1>4. \A c \in BPs : OwnRecord(own'[c])
  BY <1>3 DEF IInv, Typed
<1>5. Typed'
  BY <1>1, <1>2, <1>3, <1>4 DEF IInv, Typed, OwnRecord
<1>6. Quiet
  BY <1>1, <1>3, SameRefl DEF Quiet, tables
<1> QED
  BY <1>1, <1>5, <1>6, SetupKeeps

\* A setup method of the application.
LEMMA AppKeeps ==
    ASSUME IInv, Setup(App), UNCHANGED own,
           SameBelow(hooks, hooks'), SameBelow(handlers, handlers')
    PROVE  IInv'
<1>1. stack = <<>> /\ stack' = stack /\ blueprints' = blueprints /\ done' = done
  BY DEF Setup, history
<1>2. count' \in [Owners -> Nat]
  BY DEF Setup, IInv, Typed, Owners
<1>3. Typed'
  BY <1>1, <1>2 DEF IInv, Typed, OwnRecord
<1>4. Quiet
  BY <1>1 DEF Quiet
<1> QED
  BY <1>1, <1>3, <1>4, SetupKeeps

\* A record of what a blueprint holds, with one part changed.
LEMMA OwnChanges ==
    ASSUME Typed, NEW b \in BPs
    PROVE  /\ \A x \in Seq(Funcs) : OwnRecord([own[b] EXCEPT !.hooks = x])
           /\ \A x : OwnRecord([own[b] EXCEPT !.handlers = x])
           /\ \A x : OwnRecord([own[b] EXCEPT !.views = x])
           /\ \A x : OwnRecord([own[b] EXCEPT !.cli = x])
           /\ \A x \in Seq(Deferred) : OwnRecord([own[b] EXCEPT !.deferred = x])
           /\ \A x \in Seq(Children) : OwnRecord([own[b] EXCEPT !.children = x])
BY DEF Typed, OwnRecord, OwnFields

LEMMA HookKeeps == ASSUME IInv, NEW o \in Owners, NEW t, AddHook(o, t) PROVE IInv'
<1>1. CASE o = App
  <2>1. /\ Setup(App) /\ UNCHANGED own /\ handlers' = handlers
        /\ hooks' = Put(hooks, Root, Stored(At(hooks, Root), Func(o, TRUE)))
    BY <1>1 DEF AddHook
  <2> QED
    BY <2>1, AppKeeps, SameRefl, PutRoot
<1>2. CASE o # App
  <2> DEFINE x == Append(own[o].hooks, Func(o, FALSE))
             r == [own[o] EXCEPT !.hooks = x]
  <2>1. o \in BPs
    BY <1>2 DEF Owners
  <2>2. Setup(o) /\ own' = [own EXCEPT ![o] = r] /\ tables' = tables
    BY <1>2 DEF AddHook, tables
  <2>3. x \in Seq(Funcs)
    <3>1. own[o].hooks \in Seq(Funcs)
      BY <2>1 DEF IInv, Typed, OwnRecord
    <3>2. Func(o, FALSE) \in Funcs
      BY FuncTyped DEF IInv
    <3>3. \A g \in Funcs : Append(own[o].hooks, g) \in Seq(Funcs)
      BY ONLY <3>1
    <3> QED
      BY <3>2, <3>3, Zenon
  <2>4. OwnRecord(r)
    BY <2>1, <2>3, OwnChanges DEF IInv
  <2> QED
    BY <2>1, <2>2, <2>4, OwnKeeps
<1> QED
  BY <1>1, <1>2

LEMMA SharedKeeps == ASSUME IInv, NEW o \in Owners, SharedSetup(o) PROVE IInv'
<1>1. ASSUME NEW c \in ExcClasses, register_error_handler(o, c) PROVE IInv'
  <2>1. CASE o = App
    <3>1. /\ Setup(App) /\ UNCHANGED own /\ hooks' = hooks
          /\ handlers' = Put(handlers, Root, Put(At(handlers, Root), c, Func(o, TRUE)))
      BY <1>1, <2>1 DEF register_error_handler
    <3> QED
      BY <3>1, AppKeeps, SameRefl, PutRoot
  <2>2. CASE o # App
    <3> DEFINE r == [own[o] EXCEPT !.handlers = Put(own[o].handlers, c, Func(o, FALSE))]
    <3>1. o \in BPs
      BY <2>2 DEF Owners
    <3>2. Setup(o) /\ own' = [own EXCEPT ![o] = r] /\ tables' = tables
      BY <1>1, <2>2 DEF register_error_handler, tables
    <3>3. OwnRecord(r)
      BY <3>1, OwnChanges DEF IInv
    <3> QED
      BY <3>1, <3>2, <3>3, OwnKeeps
  <2> QED
    BY <2>1, <2>2
<1>2. ASSUME NEW e \in EndpointNames, endpoint(o, e) PROVE IInv'
  <2>1. CASE o = App
    <3>1. Setup(App) /\ UNCHANGED <<own, hooks, handlers>>
      BY <1>2, <2>1 DEF endpoint
    <3> QED
      BY <3>1, AppKeeps, SameRefl
  <2>2. CASE o # App
    <3>0. o \in BPs
      BY <2>2 DEF Owners
    <3>1. PICK v \in ViewFuncs :
             own' = [own EXCEPT ![o].views = Put(own[o].views, e, v)] 
             /\ UNCHANGED <<views, assigned>>
      BY <1>2, <2>2 DEF endpoint
    <3> DEFINE x == Put(own[o].views, e, v)
               r == [own[o] EXCEPT !.views = x]
    <3>2. Setup(o) /\ own' = [own EXCEPT ![o] = r] /\ tables' = tables
      BY <1>2, <3>1 DEF endpoint, tables, marks
    <3>3. OwnRecord(r)
      BY <3>0, OwnChanges DEF IInv
    <3> QED
      BY <3>0, <3>2, <3>3, OwnKeeps
  <2> QED
    BY <2>1, <2>2
<1>3. CASE command(o)
  <2>1. CASE o = App
    <3>1. Setup(App) /\ UNCHANGED <<own, hooks, handlers>>
      BY <1>3, <2>1 DEF command
    <3> QED
      BY <3>1, AppKeeps, SameRefl
  <2>2. CASE o # App
    <3> DEFINE r == [own[o] EXCEPT !.cli = Put(own[o].cli, <<"cmd">>, o)]
    <3>1. o \in BPs
      BY <2>2 DEF Owners
    <3>2. Setup(o) /\ own' = [own EXCEPT ![o] = r] /\ tables' = tables
      BY <1>3, <2>2 DEF command, tables
    <3>3. OwnRecord(r)
      BY <3>1, OwnChanges DEF IInv
    <3> QED
      BY <3>1, <3>2, <3>3, OwnKeeps
  <2> QED
    BY <2>1, <2>2
<1> QED
  BY <1>1, <1>2, <1>3, HookKeeps DEF SharedSetup, before_request, after_request,
     teardown_request, context_processor, url_value_preprocessor, url_defaults

LEMMA RecordKeeps ==
    ASSUME IInv, NEW b \in BPs, NEW d \in Deferred, record(b, d) PROVE IInv'
<1> DEFINE r == [own[b] EXCEPT !.deferred = Append(own[b].deferred, d)]
<1>1. Setup(b) /\ own' = [own EXCEPT ![b] = r] /\ tables' = tables
  BY DEF record
<1>2. Append(own[b].deferred, d) \in Seq(Deferred)
  BY DEF IInv, Typed, OwnRecord
<1>3. OwnRecord(r)
  BY <1>2, OwnChanges DEF IInv
<1> QED
  BY <1>1, <1>3, OwnKeeps

LEMMA BlueprintKeeps == ASSUME IInv, NEW b \in BPs, BlueprintSetup(b) PROVE IInv'
<1>0. Func(b, TRUE) \in Funcs
  BY FuncTyped DEF IInv, Owners
<1>1. ASSUME NEW t, OnceFor(b, t) PROVE IInv'
  <2>1. [kind |-> "once", f |-> Func(b, TRUE)] \in Deferred
    BY <1>0 DEF Deferred
  <2> QED
    BY <1>1, <2>1, RecordKeeps DEF OnceFor, record_once
<1>2. ASSUME NEW c \in ExcClasses, app_errorhandler(b, c) PROVE IInv'
  <2>1. [kind |-> "handler", class |-> c, f |-> Func(b, TRUE)] \in Deferred
    BY <1>0 DEF Deferred
  <2> QED
    BY <1>2, <2>1, RecordKeeps DEF app_errorhandler
<1>3. ASSUME NEW e \in Endpoints, route(b, e) PROVE IInv'
  <2>1. PICK v \in ViewFuncs \cup {None} : record(b, [kind |-> "rule", ep |-> e, view |-> v])
    BY <1>3 DEF route
  <2>2. [kind |-> "rule", ep |-> e, view |-> v] \in Deferred
    BY DEF Deferred
  <2> QED
    BY <2>1, <2>2, RecordKeeps
<1>4. CASE record_raising(b)
  <2>1. [kind |-> "raise"] \in Deferred
    BY DEF Deferred
  <2> QED
    BY <1>4, <2>1, RecordKeeps DEF record_raising
<1>5. ASSUME NEW c \in BPs, NEW opts \in Options, nest(b, c, opts) PROVE IInv'
  <2> DEFINE d == [kind |-> "child", bp |-> c, opts |-> opts]
             r == [own[b] EXCEPT !.children = Append(own[b].children, d)]
  <2>1. Setup(b) /\ own' = [own EXCEPT ![b] = r] /\ tables' = tables
    BY <1>5 DEF nest
  <2>2. d \in Children
    BY DEF Children
  <2>3. Append(own[b].children, d) \in Seq(Children)
    BY <2>2 DEF IInv, Typed, OwnRecord
  <2>4. OwnRecord(r)
    BY <2>3, OwnChanges DEF IInv
  <2> QED
    BY <2>1, <2>4, OwnKeeps
<1> QED
  BY <1>1, <1>2, <1>3, <1>4, <1>5 DEF BlueprintSetup, before_app_request, after_app_request,
     teardown_app_request, app_context_processor, app_url_value_preprocessor,
     app_url_defaults, app_template_filter, app_template_test, app_template_global

-----------------------------------------------------------------------------
(* Registrations begin, merge and return. *)

OptRecords == [name : STRING, prefix : Seq(STRING), subdomain : Seq(STRING)]

LEMMA AppendNotEmpty ==
    ASSUME NEW S, NEW s \in Seq(S), NEW x \in S
    PROVE  Append(s, x) \in Seq(S) /\ Append(s, x) # <<>>
<1>1. Append(s, x) \in Seq(S) /\ Len(Append(s, x)) = Len(s) + 1 /\ Len(s) \in Nat
  OBVIOUS
<1>2. Len(Append(s, x)) # 0 /\ Len(<<>>) = 0
  BY <1>1
<1> QED
  BY <1>1, <1>2

LEMMA NewFrame ==
    ASSUME NEW b \in BPs, NEW opts \in OptRecords, NEW outer \in Seq(STRING), NEW first \in BOOLEAN
    PROVE  /\ FullName(b, opts, outer) \in Seq(STRING) /\ FullName(b, opts, outer) # Root
           /\ State(b, opts, FullName(b, opts, outer), first) \in Frames
           /\ State(b, opts, FullName(b, opts, outer), first).name = FullName(b, opts, outer)
           /\ State(b, opts, FullName(b, opts, outer), first).bp = b
           /\ State(b, opts, FullName(b, opts, outer), first).at = 1
<1>1. PICK x : x = IF opts.name = None THEN Name[b] ELSE opts.name
  OBVIOUS
<1>2. x \in STRING
  BY <1>1, NameAssumption DEF OptRecords
<1>3. FullName(b, opts, outer) = Append(outer, x)
  BY <1>1 DEF FullName
<1>4. Append(outer, x) \in Seq(STRING) /\ Append(outer, x) # <<>>
  BY <1>2, AppendNotEmpty
<1>5. PICK n : n = FullName(b, opts, outer)
  OBVIOUS
<1>6. n \in Seq(STRING) /\ n # Root
  BY <1>3, <1>4, <1>5 DEF Root
<1>7. /\ opts.prefix \in Seq(STRING) /\ opts.subdomain \in Seq(STRING)
      /\ Prefix[b] \in Seq(STRING) /\ Subdomain[b] \in Seq(STRING)
  BY NameAssumption DEF OptRecords
<1>8. PICK p, s : /\ p = IF opts.prefix = <<>> THEN Prefix[b] ELSE opts.prefix
                  /\ s = IF opts.subdomain = <<>> THEN Subdomain[b] ELSE opts.subdomain
  OBVIOUS
<1>9. p \in Seq(STRING) /\ s \in Seq(STRING)
  BY <1>7, <1>8
<1>10. State(b, opts, n, first) =
         [bp |-> b, name |-> n, at |-> 1, first |-> first, prefix |-> p, subdomain |-> s]
  BY <1>8 DEF State
<1>11. State(b, opts, n, first) \in Frames
  BY <1>6, <1>9, <1>10 DEF Frames
<1>12. /\ State(b, opts, n, first).name = n /\ State(b, opts, n, first).bp = b
       /\ State(b, opts, n, first).at = 1
  BY <1>10
<1> QED
  BY <1>5, <1>6, <1>11, <1>12

LEMMA OptionsTyped == Options \subseteq OptRecords
BY NameAssumption DEF OptRecords

LEMMA BeginKeeps ==
    ASSUME IInv, NEW b \in BPs, NEW opts \in OptRecords, NEW given \in Options,
           NEW outer \in Seq(STRING), NEW over \in Seq(Frames),
           \A i \in DOMAIN over : FrameOK(over[i]), Distinct(over),
           Begin(b, opts, given, outer, over),
           UNCHANGED <<hooks, handlers, done>>, count' \in [Owners -> Nat]
    PROVE  IInv'
<1>1. PICK n : n = FullName(b, opts, outer)
  OBVIOUS
<1>2. CASE stack' = <<>> /\ UNCHANGED <<own, blueprints>>
  <2>1. Quiet
    BY <1>2, SameRefl DEF Quiet
  <2>2. Typed'
    BY <1>2 DEF IInv, Typed, OwnRecord
  <2> QED
    BY <1>2, <2>1, <2>2, QuietKeeps DEF Distinct
<1>3. CASE /\ n \notin Names
           /\ blueprints' = Append(blueprints, [name |-> n, bp |-> b, opts |-> given])
           /\ own' = [own EXCEPT ![b].once = TRUE]
           /\ stack' = Append(over, State(b, opts, n, ~Taken(b)))
  <2>1. PICK e : e = [name |-> n, bp |-> b, opts |-> given]
    OBVIOUS
  <2>2. PICK f : f = State(b, opts, n, ~Taken(b))
    OBVIOUS
  <2>3. /\ n \in Seq(STRING) /\ n # Root /\ f \in Frames
        /\ f.name = n /\ f.bp = b /\ f.at = 1
    BY <1>1, <2>2, NewFrame
  <2>4. e \in Entries /\ e.name = n /\ e.bp = b
    BY <2>1, <2>3 DEF Entries
  <2>5. /\ blueprints \in Seq(Entries) /\ blueprints' \in Seq(Entries)
        /\ Len(blueprints) \in Nat /\ DOMAIN blueprints = 1..Len(blueprints)
        /\ DOMAIN blueprints' = 1..(Len(blueprints) + 1)
        /\ \A i \in DOMAIN blueprints : blueprints'[i] = blueprints[i]
        /\ blueprints'[Len(blueprints) + 1] = e
    <3>1. blueprints \in Seq(Entries) /\ blueprints' = Append(blueprints, e)
      BY <1>3, <2>1 DEF IInv, Typed
    <3> QED
      BY ONLY <3>1, <2>4
  <2>6. /\ stack' \in Seq(Frames) /\ Len(over) \in Nat /\ DOMAIN over = 1..Len(over)
        /\ DOMAIN stack' = 1..(Len(over) + 1)
        /\ \A i \in DOMAIN over : stack'[i] = over[i]
        /\ stack'[Len(over) + 1] = f
    <3>1. stack' = Append(over, f)
      BY <1>3, <2>2
    <3> QED
      BY ONLY <3>1, <2>3, over \in Seq(Frames)
  <2>7. \A i \in DOMAIN blueprints' : i \in DOMAIN blueprints \/ i = Len(blueprints) + 1
    BY <2>5
  <2>8. \A i \in DOMAIN stack' : i \in DOMAIN over \/ i = Len(over) + 1
    BY <2>6
  <2>9. /\ DOMAIN own' = BPs
        /\ \A c \in BPs : /\ OwnRecord(own'[c])
                          /\ own'[c].hooks = own[c].hooks
                          /\ own'[c].handlers = own[c].handlers
                          /\ own[c].once => own'[c].once
        /\ own'[b].once
    BY <1>3 DEF IInv, Typed, OwnRecord, OwnFields
  <2>10. Typed'
    BY <2>5, <2>6, <2>9 DEF Typed, OwnRecord
  <2>11. \A i \in DOMAIN blueprints : blueprints[i].name # n
    BY <1>3 DEF Names
  <2>12. Names' = Names \cup {n}
    <3>1. ASSUME NEW i \in DOMAIN blueprints' PROVE blueprints'[i].name \in Names \cup {n}
      BY <3>1, <2>4, <2>5, <2>7 DEF Names
    <3>2. ASSUME NEW i \in DOMAIN blueprints PROVE blueprints[i].name \in Names'
      BY <3>2, <2>5 DEF Names
    <3>3. n \in Names'
      <4>1. Len(blueprints) + 1 \in DOMAIN blueprints' /\ blueprints'[Len(blueprints) + 1].name = n
        BY <2>4, <2>5
      <4> QED
        BY <4>1 DEF Names
    <3>4. Names' \subseteq Names \cup {n}
      BY <3>1 DEF Names
    <3>5. Names \subseteq Names'
      BY <3>2 DEF Names
    <3> QED
      BY <3>3, <3>4, <3>5
  <2>13. EntriesOK'
    <3>1. Distinct(blueprints')
      BY <2>4, <2>5, <2>7, <2>11 DEF IInv, EntriesOK, Distinct
    <3>2. ASSUME NEW i \in DOMAIN blueprints'
          PROVE  blueprints'[i].name # Root /\ own'[blueprints'[i].bp].once
      BY <2>3, <2>4, <2>5, <2>7, <2>9, EntryTyped DEF IInv, EntriesOK
    <3> QED
      BY <3>1, <3>2 DEF EntriesOK, Distinct
  <2>14. n \notin DOMAIN hooks /\ n \notin DOMAIN handlers /\ n \notin done
    BY <1>3, <2>3 DEF IInv, KeysOK, DoneOK
  <2>15. ASSUME NEW g \in Frames, FrameOK(g) PROVE FrameOK(g)'
    <3>1. PICK i \in DOMAIN blueprints : blueprints[i].name = g.name /\ blueprints[i].bp = g.bp
      BY <2>15 DEF FrameOK
    <3>2. i \in DOMAIN blueprints' /\ blueprints'[i].name = g.name /\ blueprints'[i].bp = g.bp
      BY <3>1, <2>5
    <3>3. g.bp \in BPs
      BY DEF Frames
    <3> QED
      BY <2>15, <3>2, <3>3, <2>9 DEF FrameOK, Matches, MergeAt
  <2>16. FrameOK(f)'
    <3>1. Len(blueprints) + 1 \in DOMAIN blueprints'
      BY <2>5
    <3>2. MergeAt(f) >= 1 /\ ~(1 > MergeAt(f))
      BY DEF MergeAt
    <3> QED
      BY <3>1, <3>2, <2>3, <2>4, <2>5, <2>14 DEF FrameOK, MergeAt
  <2>17. Running(stack)'
    <3>1. ASSUME NEW i \in DOMAIN stack' PROVE FrameOK(stack[i])'
      <4>1. CASE i \in DOMAIN over
        <5>1. PICK g : g = over[i]
          OBVIOUS
        <5>2. g \in Frames /\ FrameOK(g)
          BY <4>1, <5>1
        <5>3. FrameOK(g)'
          BY <5>2, <2>15
        <5> QED
          BY <4>1, <5>1, <5>3, <2>6 DEF FrameOK, Matches, MergeAt
      <4>2. CASE i = Len(over) + 1
        BY <4>2, <2>6, <2>16 DEF FrameOK, Matches, MergeAt
      <4> QED
        BY <4>1, <4>2, <2>8
    <3>2. \A i \in DOMAIN over : over[i].name # n
      BY <2>11 DEF FrameOK
    <3>3. Distinct(stack')
      BY <3>2, <2>3, <2>6, <2>8 DEF Distinct
    <3> QED
      BY <3>1, <3>3 DEF Running, Distinct
  <2>18. DoneOK'
    <3>1. ASSUME NEW i \in DOMAIN blueprints', blueprints'[i].name \in done
          PROVE  Matches(blueprints[i].name, blueprints[i].bp)'
      <4>1. i \in DOMAIN blueprints
        BY <3>1, <2>4, <2>5, <2>7, <2>14
      <4>2. Matches(blueprints[i].name, blueprints[i].bp) /\ blueprints[i].bp \in BPs
        BY <3>1, <4>1, <2>5, EntryTyped DEF IInv, DoneOK
      <4> QED
        BY <4>1, <4>2, <2>5, <2>9 DEF Matches
    <3> QED
      BY <3>1, <2>12 DEF IInv, DoneOK
  <2>19. KeysOK'
    BY <2>12 DEF IInv, KeysOK
  <2> QED
    BY <2>10, <2>13, <2>17, <2>18, <2>19 DEF IInv
<1> QED
  BY <1>1, <1>2, <1>3 DEF Begin

LEMMA RegisterKeeps ==
    ASSUME IInv, NEW b \in BPs, NEW opts \in Options, register_blueprint(b, opts) PROVE IInv'
<1>1. /\ Begin(b, opts, opts, Root, <<>>) /\ UNCHANGED <<hooks, handlers, done>>
      /\ count' \in [Owners -> Nat]
  BY DEF register_blueprint, tables, IInv, Typed, Owners
<1>2. opts \in OptRecords /\ Root \in Seq(STRING) /\ <<>> \in Seq(Frames)
  BY OptionsTyped DEF Root
<1>3. Distinct(<<>>) /\ \A i \in DOMAIN <<>> : FALSE
  BY DEF Distinct
<1> QED
  BY <1>1, <1>2, <1>3, BeginKeeps

LEMMA WithinTyped ==
    ASSUME NEW f \in Frames, NEW c \in BPs, NEW opts \in Options
    PROVE  Within(f, c, opts) \in OptRecords
<1>1. /\ opts.name \in STRING
      /\ opts.prefix \in Seq(STRING) /\ opts.subdomain \in Seq(STRING)
      /\ Prefix[c] \in Seq(STRING) /\ Subdomain[c] \in Seq(STRING)
  BY NameAssumption
<1>2. f.prefix \in Seq(STRING) /\ f.subdomain \in Seq(STRING)
  BY DEF Frames
<1>3. PICK p, s : /\ p = IF opts.prefix = <<>> THEN Prefix[c] ELSE opts.prefix
                  /\ s = IF opts.subdomain = <<>> THEN Subdomain[c] ELSE opts.subdomain
  OBVIOUS
<1>4. p \in Seq(STRING) /\ s \in Seq(STRING)
  BY <1>1, <1>3
<1>5. Join(f.prefix, p) \in Seq(STRING) /\ Join(s, f.subdomain) \in Seq(STRING)
  BY <1>2, <1>4, Behind
<1>6. Within(f, c, opts) = [name |-> opts.name, prefix |-> Join(f.prefix, p),
                            subdomain |-> Join(s, f.subdomain)]
  BY <1>3 DEF Within, Join
<1> QED
  BY <1>1, <1>5, <1>6 DEF OptRecords

LEMMA ChildKeeps == ASSUME IInv, RegisterChild PROVE IInv'
<1>1. /\ stack # <<>> /\ Top \in Frames /\ Current \in Children /\ Top.at # MergeAt(Top)
  BY AtMerge DEF RegisterChild, IInv
<1>2. PICK c, o : c = Current.bp /\ o = Current.opts
  OBVIOUS
<1>3. c \in BPs /\ o \in Options /\ Top.name \in Seq(STRING)
  BY <1>1, <1>2 DEF Children, Frames
<1>4. Within(Top, c, o) \in OptRecords
  BY <1>1, <1>3, WithinTyped
<1>5. Advanced \in Seq(Frames)
  BY <1>1, AdvancedFacts DEF IInv
<1>6. (\A i \in DOMAIN Advanced : FrameOK(Advanced[i])) /\ Distinct(Advanced)
  BY <1>1, SideKept DEF IInv
<1>7. /\ Begin(c, Within(Top, c, o), o, Top.name, Advanced)
      /\ UNCHANGED <<hooks, handlers, done>> /\ count' \in [Owners -> Nat]
  BY <1>2 DEF RegisterChild, tables, IInv, Typed
<1> QED
  BY <1>3, <1>4, <1>5, <1>6, <1>7, BeginKeeps

\* What the merge leaves of a table, under the name and under the others.
LEMMA MergedAt ==
    ASSUME NEW t, NEW key, NEW part
    PROVE  /\ key \notin DOMAIN t => At(Merged(t, key, part), key) = part
           /\ \A n : n # key => /\ n \in DOMAIN Merged(t, key, part) <=> n \in DOMAIN t
                                /\ At(Merged(t, key, part), n) = At(t, n)
           /\ DOMAIN Merged(t, key, part) \subseteq DOMAIN t \cup {key}
BY DEF Merged, Put, At

\* The merge brings in what the blueprint holds under the name of its registration.
LEMMA MergeEffect ==
    ASSUME IInv, _merge_blueprint_funcs
    PROVE  /\ stack # <<>> /\ Top \in Frames /\ Top.at = MergeAt(Top)
           /\ Top.name \in Names /\ Top.name \notin done /\ Entry(Top.name).bp = Top.bp
           /\ stack' = Advanced /\ UNCHANGED <<own, blueprints, count, done>>
           /\ hooks' = Merged(hooks, Top.name, own[Top.bp].hooks)
           /\ handlers' = Merged(handlers, Top.name, own[Top.bp].handlers)
           /\ At(hooks', Top.name) = own[Top.bp].hooks
           /\ At(handlers', Top.name) = own[Top.bp].handlers
           /\ \A m : m # Top.name => /\ m \in DOMAIN hooks' <=> m \in DOMAIN hooks
                                     /\ m \in DOMAIN handlers' <=> m \in DOMAIN handlers
                                     /\ At(hooks', m) = At(hooks, m)
                                     /\ At(handlers', m) = At(handlers, m)
<1>1. /\ stack # <<>> /\ Top \in Frames /\ Top.at = MergeAt(Top)
      /\ Len(stack) \in DOMAIN stack /\ Top = stack[Len(stack)]
  BY AtMerge, TopFacts DEF _merge_blueprint_funcs, IInv
<1>2. PICK n, b : n = Top.name /\ b = Top.bp
  OBVIOUS
<1>3. b \in BPs /\ Top.at \in Nat
  BY <1>1, <1>2 DEF Frames
<1>4. n \notin DOMAIN hooks /\ n \notin DOMAIN handlers /\ n \notin done
  <2>1. FrameOK(Top)
    BY <1>1 DEF IInv, Running
  <2> QED
    BY <2>1, <1>1, <1>2, <1>3 DEF FrameOK
<1>5. At(hooks, n) \o own[b].hooks = own[b].hooks
  <2>1. own[b].hooks \in Seq(Funcs)
    BY <1>3 DEF IInv, Typed, OwnRecord
  <2>2. At(hooks, n) = <<>>
    BY <1>4 DEF At
  <2> QED
    BY <2>1, <2>2
<1>6. /\ hooks' = Merged(hooks, n, own[b].hooks) /\ handlers' = Merged(handlers, n, own[b].handlers)
      /\ stack' = Advanced /\ UNCHANGED <<own, blueprints, count, done>>
  BY <1>2, <1>5 DEF _merge_blueprint_funcs, Advance
<1>7. At(hooks', n) = own[b].hooks /\ At(handlers', n) = own[b].handlers
  BY <1>4, <1>6, MergedAt
<1>8. \A m : m # n => /\ m \in DOMAIN hooks' <=> m \in DOMAIN hooks
                      /\ m \in DOMAIN handlers' <=> m \in DOMAIN handlers
                      /\ At(hooks', m) = At(hooks, m) /\ At(handlers', m) = At(handlers, m)
  BY <1>6, MergedAt
<1>9. n \in Names /\ Entry(n).bp = b
  <2>1. FrameOK(Top)
    BY <1>1 DEF IInv, Running
  <2>2. PICK i \in DOMAIN blueprints : blueprints[i].name = n /\ blueprints[i].bp = b
    BY <2>1, <1>2 DEF FrameOK
  <2> QED
    BY <2>2, EntryOf DEF IInv, Names
<1> QED
  BY <1>1, <1>2, <1>4, <1>6, <1>7, <1>8, <1>9

LEMMA MergeKeeps == ASSUME IInv, _merge_blueprint_funcs PROVE IInv'
<1>1. /\ stack # <<>> /\ Top \in Frames /\ Top.at = MergeAt(Top)
      /\ Len(stack) \in DOMAIN stack /\ Top = stack[Len(stack)]
  BY MergeEffect, TopFacts DEF IInv
<1>2. PICK n, b : n = Top.name /\ b = Top.bp
  OBVIOUS
<1>3. b \in BPs /\ Top.at \in Nat
  BY <1>1, <1>2 DEF Frames
<1>4. n \notin done /\ n \in Names
  BY <1>2, MergeEffect
<1>5. /\ hooks' = Merged(hooks, n, own[b].hooks) /\ handlers' = Merged(handlers, n, own[b].handlers)
      /\ stack' = Advanced /\ UNCHANGED <<own, blueprints, count, done>>
  BY <1>2, MergeEffect
<1>6. Matches(n, b)'
  <2>1. At(hooks', n) = own[b].hooks /\ At(handlers', n) = own[b].handlers
    BY <1>2, MergeEffect
  <2> QED
    BY <2>1, <1>5 DEF Matches
<1>7. \A m : m # n => /\ m \in DOMAIN hooks' <=> m \in DOMAIN hooks
                      /\ m \in DOMAIN handlers' <=> m \in DOMAIN handlers
                      /\ At(hooks', m) = At(hooks, m) /\ At(handlers', m) = At(handlers, m)
  BY <1>2, MergeEffect
<1>8. Typed'
  BY <1>1, <1>5, AdvancedFacts DEF IInv, Typed, OwnRecord
<1>9. EntriesOK'
  BY <1>5 DEF IInv, EntriesOK, Distinct
<1>10. Running(stack)'
  <2>1. ASSUME NEW i \in DOMAIN stack, i # Len(stack) PROVE FrameOK(stack[i])'
    <3>1. PICK g : g = stack[i]
      OBVIOUS
    <3>2. g \in Frames /\ FrameOK(g) /\ g.name # n
      BY <2>1, <3>1, <1>1, <1>2 DEF IInv, Typed, Running, Distinct
    <3>3. FrameOK(g)'
      BY <3>2, <1>5, <1>7 DEF FrameOK, Matches, MergeAt
    <3>4. stack'[i] = g
      BY <2>1, <3>1, <1>1, <1>5, AdvancedFacts DEF IInv
    <3> QED
      BY <3>3, <3>4 DEF FrameOK, Matches, MergeAt
  <2>2. FrameOK(stack[Len(stack)])'
    <3>1. PICK g : g = stack'[Len(stack)]
      OBVIOUS
    <3>2. g.name = n /\ g.bp = b /\ g.at = Top.at + 1
      BY <3>1, <1>1, <1>2, <1>5, AdvancedFacts DEF IInv
    <3>3. MergeAt(g) = MergeAt(Top) /\ g.at > MergeAt(g) /\ ~(g.at <= MergeAt(g))
      BY <3>2, <1>1, <1>2, <1>3 DEF MergeAt
    <3>4. FrameOK(Top)
      BY <1>1 DEF IInv, Running
    <3>5. Matches(g.name, g.bp)'
      BY <3>2, <1>5, <1>6 DEF Matches
    <3>6. FrameOK(g)'
      BY <3>2, <3>3, <3>4, <3>5, <1>2, <1>5 DEF FrameOK, MergeAt
    <3>7. Len(stack') = Len(stack)
      BY <1>1, <1>5, TopFacts DEF IInv, Typed, Advanced
    <3> QED
      BY <3>1, <3>6, <3>7 DEF FrameOK, Matches, MergeAt
  <2>3. DOMAIN stack' = DOMAIN stack /\ Len(stack') = Len(stack)
    BY <1>1, <1>5, TopFacts, AdvancedFacts DEF IInv, Typed, Advanced
  <2>4. ASSUME NEW i \in DOMAIN stack' PROVE FrameOK(stack[i])'
    BY <2>1, <2>2, <2>3 DEF FrameOK, Matches, MergeAt
  <2>5. \A i \in DOMAIN stack : stack'[i].name = stack[i].name
    BY <1>1, <1>5, AdvancedFacts DEF IInv
  <2> QED
    BY <2>3, <2>4, <2>5 DEF IInv, Running, Distinct
<1>11. DoneOK'
  <2>1. ASSUME NEW i \in DOMAIN blueprints, blueprints[i].name \in done
        PROVE  Matches(blueprints[i].name, blueprints[i].bp)'
    BY <2>1, <1>4, <1>5, <1>7 DEF IInv, DoneOK, Matches
  <2> QED
    BY <1>5, <2>1 DEF IInv, DoneOK, Names
<1>12. KeysOK'
  BY <1>5, <1>4, MergedAt DEF IInv, KeysOK, Names
<1> QED
  BY <1>8, <1>9, <1>10, <1>11, <1>12 DEF IInv

LEMMA ReturnKeeps == ASSUME IInv, RegisterReturns PROVE IInv'
<1>1. /\ stack # <<>> /\ Top \in Frames /\ Len(stack) \in DOMAIN stack
      /\ Top = stack[Len(stack)] /\ Len(stack) \in Nat \ {0}
      /\ DOMAIN stack = 1..Len(stack)
  BY TopFacts DEF RegisterReturns, IInv
<1>2. /\ stack' = SubSeq(stack, 1, Len(stack) - 1) /\ done' = done \cup {Top.name}
      /\ UNCHANGED <<own, blueprints, hooks, handlers, count>>
  BY DEF RegisterReturns, tables
<1>3. FrameOK(Top) /\ Matches(Top.name, Top.bp)
  <2>1. FrameOK(Top)
    BY <1>1 DEF IInv, Running
  <2>2. PICK d, c, m, t : /\ d = Len(own[Top.bp].deferred) /\ c = Len(own[Top.bp].children)
                          /\ m = MergeAt(Top) /\ t = Len(Todo(Top))
    OBVIOUS
  <2>3. d \in Nat /\ c \in Nat /\ m \in Nat
    BY <1>1, <2>2 DEF IInv, Typed, OwnRecord, Frames, MergeAt
  <2>4. t = m + 1 + d + c /\ DOMAIN Todo(Top) = 1..t
    BY <1>1, <2>2, TodoFacts DEF IInv
  <2>5. Top.at \in Nat \ {0} /\ Top.at \notin 1..t
    BY <1>1, <2>4 DEF Frames, RegisterReturns
  <2>6. Top.at > m
    BY ONLY <2>3, <2>4, <2>5
  <2> QED
    BY <2>1, <2>2, <2>6 DEF FrameOK
<1>4. /\ stack' \in Seq(Frames) /\ DOMAIN stack' = 1..(Len(stack) - 1)
      /\ \A i \in 1..(Len(stack) - 1) : stack'[i] = stack[i]
  <2>1. stack \in Seq(Frames)
    BY DEF IInv, Typed
  <2> QED
    BY ONLY <1>1, <1>2, <2>1
<1>5. \A i \in DOMAIN stack' : i \in DOMAIN stack /\ i # Len(stack) /\ stack'[i] = stack[i]
  BY ONLY <1>1, <1>4
<1>6. Typed'
  BY <1>2, <1>4 DEF IInv, Typed, OwnRecord
<1>7. EntriesOK'
  BY <1>2 DEF IInv, EntriesOK, Distinct
<1>8. Running(stack)'
  <2>1. ASSUME NEW i \in DOMAIN stack' PROVE FrameOK(stack[i])'
    <3>1. PICK g : g = stack[i]
      OBVIOUS
    <3>2. FrameOK(g) /\ g.name # Top.name
      BY <3>1, <1>1, <1>5 DEF IInv, Running, Distinct
    <3>3. FrameOK(g)'
      BY <3>2, <1>2 DEF FrameOK, Matches, MergeAt
    <3> QED
      BY <3>1, <3>3, <1>5 DEF FrameOK, Matches, MergeAt
  <2> QED
    BY <2>1, <1>5 DEF IInv, Running, Distinct
<1>9. DoneOK'
  <2>1. PICK k \in DOMAIN blueprints : blueprints[k].name = Top.name /\ blueprints[k].bp = Top.bp
    BY <1>3 DEF FrameOK
  <2>2. ASSUME NEW i \in DOMAIN blueprints, blueprints[i].name \in done \cup {Top.name}
        PROVE  Matches(blueprints[i].name, blueprints[i].bp)
    BY <2>1, <2>2, <1>3 DEF IInv, DoneOK, EntriesOK, Distinct
  <2> QED
    BY <2>1, <2>2, <1>2 DEF IInv, DoneOK, Names, Matches
<1>10. KeysOK'
  BY <1>2 DEF IInv, KeysOK, Names
<1> QED
  BY <1>6, <1>7, <1>8, <1>9, <1>10 DEF IInv

-----------------------------------------------------------------------------
(* Every step keeps the invariant. *)

LEMMA RegistrationKeeps == ASSUME IInv, Registration PROVE IInv'
<1>1. CASE DeferredRule
  <2>1. /\ Doing("rule") /\ (Advance \/ Abort) /\ UNCHANGED <<own, blueprints, count, done>>
        /\ hooks' = hooks /\ handlers' = handlers
    BY <1>1 DEF DeferredRule, Refused
  <2> QED
    BY <2>1, StepKeeps, SameRefl
<1>2. CASE DeferredOnce
  <2>1. /\ Doing("once") /\ (Advance \/ Abort) /\ UNCHANGED <<own, blueprints, count, done>>
        /\ hooks' = hooks \/ hooks' = Put(hooks, Root, Stored(At(hooks, Root), Current.f))
        /\ handlers' = handlers
    BY <1>2 DEF DeferredOnce, Refused
  <2> QED
    BY <2>1, StepKeeps, SameRefl, PutRoot
<1>3. CASE DeferredHandler
  <2>1. /\ Doing("handler") /\ (Advance \/ Abort) /\ UNCHANGED <<own, blueprints, count, done>>
        /\ hooks' = hooks
        /\ \/ handlers' = handlers
           \/ handlers' = Put(handlers, Root, Put(At(handlers, Root), Current.class, Current.f))
    BY <1>3 DEF DeferredHandler, Refused
  <2> QED
    BY <2>1, StepKeeps, SameRefl, PutRoot
<1>4. CASE DeferredRaise
  <2>1. /\ Doing("raise") /\ Abort /\ UNCHANGED <<own, blueprints, count, done>>
        /\ hooks' = hooks /\ handlers' = handlers
    BY <1>4 DEF DeferredRaise, tables
  <2> QED
    BY <2>1, StepKeeps, SameRefl
<1>5. CASE RegisterCommands
  <2>1. /\ Doing("cli") /\ Advance /\ UNCHANGED <<own, blueprints, count, done>>
        /\ hooks' = hooks /\ handlers' = handlers
    BY <1>5 DEF RegisterCommands
  <2> QED
    BY <2>1, StepKeeps, SameRefl
<1> QED
  BY <1>1, <1>2, <1>3, <1>4, <1>5, ChildKeeps, MergeKeeps, ReturnKeeps DEF Registration

LEMMA AppSetupKeeps == ASSUME IInv, AppSetup PROVE IInv'
<1>0. App \in Owners
  BY DEF Owners
<1>1. ASSUME NEW t, AddHook(App, t) PROVE IInv'
  BY <1>0, <1>1, HookKeeps
<1>2. ASSUME NEW e \in EndpointNames, add_url_rule(e) PROVE IInv'
  <2>1. Setup(App) /\ UNCHANGED <<own, hooks, handlers>>
    BY <1>2 DEF add_url_rule
  <2> QED
    BY <2>1, AppKeeps, SameRefl
<1>3. ASSUME NEW b \in BPs, NEW opts \in Options, register_blueprint(b, opts) PROVE IInv'
  BY <1>3, RegisterKeeps
<1> QED
  BY <1>1, <1>2, <1>3 DEF AppSetup, teardown_appcontext, shell_context_processor,
     template_filter, template_test, template_global

LEMMA NextKeeps == IInv /\ [Next]_vars => IInv'
<1> SUFFICES ASSUME IInv, [Next]_vars PROVE IInv'
  OBVIOUS
<1>1. CASE _check_setup_finished \/ FirstRequest \/ ServerReset \/ UNCHANGED vars
  <2>1. UNCHANGED <<own, blueprints, hooks, handlers, stack, count, done>>
    BY <1>1 DEF _check_setup_finished, FirstRequest, ServerReset, vars, tables, history
  <2>2. Quiet
    BY <2>1, SameRefl DEF Quiet
  <2>3. Typed'
    BY <2>1 DEF IInv, Typed, OwnRecord
  <2>4. (\A i \in DOMAIN stack' : FrameOK(stack'[i])) /\ Distinct(stack')
    BY <2>1 DEF IInv, Running
  <2> QED
    BY <2>2, <2>3, <2>4, QuietKeeps
<1> QED
  BY <1>1, AppSetupKeeps, SharedKeeps, BlueprintKeeps, RegistrationKeeps DEF Next

LEMMA InitInv == Init => IInv
<1> SUFFICES ASSUME Init PROVE IInv
  OBVIOUS
<1>1. Typed
  <2>1. own = [b \in BPs |-> [hooks |-> <<>>, handlers |-> Empty, views |-> Empty, cli |-> Empty,
                              deferred |-> <<>>, children |-> <<>>, once |-> FALSE]]
    BY DEF Init
  <2>2. DOMAIN Empty = {}
    BY DEF Empty
  <2>3. ASSUME NEW b \in BPs PROVE OwnRecord(own[b])
    <3>1. PICK o : o = own[b]
      OBVIOUS
    <3>2. /\ DOMAIN o = OwnFields
          /\ o.hooks = <<>> /\ o.deferred = <<>> /\ o.children = <<>>
          /\ o.once = FALSE /\ o.views = Empty
      BY <2>1, <3>1 DEF OwnFields
    <3>3. o.hooks \in Seq(Funcs) /\ o.deferred \in Seq(Deferred) /\ o.children \in Seq(Children)
      BY <3>2
    <3>4. o.once \in BOOLEAN
      BY <3>2
    <3>5. \A k \in DOMAIN o.views : Len(k) = 1
      BY <2>2, <3>2
    <3> QED
      BY <3>1, <3>2, <3>3, <3>4, <3>5, Zenon DEF OwnRecord
  <2>4. /\ stack \in Seq(Frames) /\ blueprints \in Seq(Entries)
        /\ count \in [Owners -> Nat]
    BY DEF Init
  <2>5. DOMAIN own = BPs
    BY <2>1
  <2> QED
    BY <2>3, <2>4, <2>5 DEF Typed
<1>2. DOMAIN hooks = {} /\ DOMAIN handlers = {}
  BY DEF Init, Empty
<1>3. DOMAIN blueprints = {} /\ DOMAIN stack = {} /\ done = {}
  BY DEF Init
<1> QED
  BY <1>1, <1>2, <1>3 DEF IInv, EntriesOK, Running, Distinct, DoneOK, KeysOK

\* A registration does not disturb what another one merged, whatever is nested,
\* mounted again, set up or aborted in between.
THEOREM Invariant == Spec => []IInv
<1> QED
  BY InitInv, NextKeeps, PTL DEF Spec

\* What was replayed under a name is what its blueprint holds.
LEMMA ReplayedMatches == ASSUME IInv, NEW n \in Replayed PROVE Matches(n, Entry(n).bp)
<1>1. CASE n \in done
  <2>1. PICK i \in DOMAIN blueprints : blueprints[i].name = n
    BY <1>1 DEF IInv, DoneOK, Names
  <2> QED
    BY <1>1, <2>1, EntryOf DEF IInv, DoneOK
<1>2. CASE n \notin done
  <2>1. PICK i \in DOMAIN stack :
           /\ stack[i].name = n
           /\ stack[i].at + Len(own[stack[i].bp].children) > Len(Todo(stack[i]))
    BY <1>2 DEF Replayed
  <2>2. PICK f : f = stack[i]
    OBVIOUS
  <2>3. f \in Frames /\ FrameOK(f) /\ f.name = n
    BY <2>1, <2>2 DEF IInv, Typed, Running
  <2>4. PICK d, c, m, t : /\ d = Len(own[f.bp].deferred) /\ c = Len(own[f.bp].children)
                          /\ m = MergeAt(f) /\ t = Len(Todo(f))
    OBVIOUS
  <2>5. d \in Nat /\ c \in Nat /\ m \in Nat /\ f.at \in Nat
    <3>1. f.bp \in BPs /\ f.at \in Nat /\ m \in Nat
      BY <2>3, <2>4 DEF Frames, MergeAt
    <3>2. OwnRecord(own[f.bp])
      BY <3>1 DEF IInv, Typed
    <3> QED
      BY <3>1, <3>2, <2>4 DEF OwnRecord
  <2>6. t = m + 1 + d + c /\ f.at + c > t
    BY <2>1, <2>2, <2>3, <2>4, TodoFacts DEF IInv
  <2>7. f.at > m
    BY ONLY <2>5, <2>6
  <2>8. PICK k \in DOMAIN blueprints : blueprints[k].name = n /\ blueprints[k].bp = f.bp
    BY <2>3 DEF FrameOK
  <2>9. Entry(n).bp = f.bp
    BY <2>8, EntryOf DEF IInv
  <2> QED
    BY <2>3, <2>4, <2>7, <2>9 DEF FrameOK
<1> QED
  BY <1>1, <1>2

\* The functions and handlers that apply under the name of a registered
\* blueprint are the blueprint's own, each once, for any number of blueprints,
\* nestings and setup calls.
THEOREM HooksKept == Spec => []HooksOfBlueprint
<1>1. IInv => HooksOfBlueprint
  BY ReplayedMatches DEF HooksOfBlueprint, Matches
<1> QED
  BY Invariant, <1>1, PTL

-----------------------------------------------------------------------------
(* The view functions of rules. *)

LEMMA SameViews ==
    ASSUME RuleKeepsView, UNCHANGED <<rules, views, assigned>> PROVE RuleKeepsView'
BY DEF RuleKeepsView

LEMMA PutAt ==
    ASSUME NEW f, NEW k, NEW v, NEW x
    PROVE  /\ x \in DOMAIN Put(f, k, v) <=> x \in DOMAIN f \/ x = k
           /\ x = k => Put(f, k, v)[x] = v
           /\ x \in DOMAIN f /\ x # k => Put(f, k, v)[x] = f[x]
BY DEF Put

LEMMA UpdateAt ==
    ASSUME NEW f, NEW g, NEW x \in DOMAIN f
    PROVE  /\ x \in DOMAIN Update(f, g)
           /\ x \notin DOMAIN g => Update(f, g)[x] = f[x]
BY DEF Update

\* A view function stored by `endpoint` is that of no rule the property speaks of.
LEMMA AssignedViews ==
    ASSUME RuleKeepsView, rules' = rules, assigned \subseteq assigned',
           \A k \in DOMAIN views :
              k \notin assigned' => k \in DOMAIN views' /\ views'[k] = views[k]
    PROVE  RuleKeepsView'
BY DEF RuleKeepsView

\* The new rule is compared with the view its endpoint has.
LEMMA MapKeeps ==
    ASSUME RuleKeepsView, UNCHANGED assigned, NEW endp, NEW prefix, NEW sub, NEW v,
           MapRule(Rule(endp, prefix, sub, v))
    PROVE  RuleKeepsView'
<1>1. PICK r : r = Rule(endp, prefix, sub, v)
  OBVIOUS
<1>2. PICK n : n = [r EXCEPT !.added = ~Clash(r)]
  OBVIOUS
<1>3. /\ n.endpoint = r.endpoint /\ n.view = r.view
      /\ n.added <=> ~Clash(r)
  BY <1>1, <1>2 DEF Rule
<1>4. /\ rules' = rules \cup {n}
      /\ views' = IF r.view = None \/ Clash(r) THEN views ELSE Put(views, r.endpoint, r.view)
  BY <1>1, <1>2 DEF MapRule
<1>5. \A k \in DOMAIN views : k \in DOMAIN views' /\ views'[k] = views[k]
  <2>1. CASE views' = views
    BY <2>1
  <2>2. CASE views' = Put(views, r.endpoint, r.view) /\ r.view # None /\ ~Clash(r)
    <3>1. \A k \in DOMAIN views : k \in DOMAIN views' /\ (k # r.endpoint => views'[k] = views[k])
      BY <2>2, PutAt
    <3>2. r.endpoint \in DOMAIN views => views[r.endpoint] = r.view
      BY <2>2 DEF Clash
    <3>3. views'[r.endpoint] = r.view
      BY <2>2, PutAt
    <3> QED
      BY <3>1, <3>2, <3>3
  <2> QED
    BY <1>4, <2>1, <2>2
<1>6. n.view # None =>
         n.endpoint \in DOMAIN views' /\ (n.added <=> views'[n.endpoint] = n.view)
  <2>1. SUFFICES ASSUME r.view # None
                 PROVE  /\ r.endpoint \in DOMAIN views'
                        /\ ~Clash(r) <=> views'[r.endpoint] = r.view
    BY <1>3
  <2>2. CASE Clash(r)
    BY <1>4, <2>2 DEF Clash
  <2>3. CASE ~Clash(r)
    <3>1. views' = Put(views, r.endpoint, r.view)
      BY <1>4, <2>1, <2>3
    <3> QED
      BY <2>3, <3>1, PutAt
  <2> QED
    BY <2>2, <2>3
<1> QED
  BY <1>4, <1>5, <1>6 DEF RuleKeepsView

\* What a blueprint's `endpoint` stored is assigned when it is merged.
LEMMA MergeKeepsViews ==
    ASSUME RuleKeepsView, _merge_blueprint_funcs PROVE RuleKeepsView'
<1>1. PICK g : g = own[Top.bp].views
  OBVIOUS
<1>2. views' = Update(views, g) /\ rules' = rules /\ assigned' = assigned \cup DOMAIN g
  BY <1>1 DEF _merge_blueprint_funcs
<1>3. \A k \in DOMAIN views :
         k \notin assigned' => k \in DOMAIN views' /\ views'[k] = views[k]
  BY <1>2, UpdateAt
<1> QED
  BY <1>2, <1>3, AssignedViews

LEMMA RegistrationKeepsViews ==
    ASSUME RuleKeepsView, Registration PROVE RuleKeepsView'
<1>1. CASE DeferredRule
  <2>1. /\ UNCHANGED assigned
        /\ \/ UNCHANGED <<rules, views>>
           \/ MapRule(Rule(Append(Top.name, Current.ep), Top.prefix, Top.subdomain,
                           Current.view))
    BY <1>1 DEF DeferredRule, Refused
  <2> QED
    BY <2>1, SameViews, MapKeeps
<1>2. CASE \/ RegisterChild \/ DeferredOnce \/ DeferredHandler \/ DeferredRaise
           \/ RegisterCommands \/ RegisterReturns
  <2>1. UNCHANGED <<rules, views, assigned>>
    BY <1>2 DEF RegisterChild, DeferredOnce, DeferredHandler, DeferredRaise, RegisterCommands,
       RegisterReturns, tables, marks
  <2> QED
    BY <2>1, SameViews
<1> QED
  BY <1>1, <1>2, MergeKeepsViews DEF Registration

LEMMA SharedKeepViews ==
    ASSUME RuleKeepsView, NEW o \in Owners, SharedSetup(o) PROVE RuleKeepsView'
<1>1. ASSUME NEW t, AddHook(o, t) PROVE RuleKeepsView'
  BY <1>1, SameViews DEF AddHook, marks
<1>2. ASSUME NEW c \in ExcClasses, register_error_handler(o, c) PROVE RuleKeepsView'
  BY <1>2, SameViews DEF register_error_handler, marks
<1>3. ASSUME NEW e \in EndpointNames, endpoint(o, e) PROVE RuleKeepsView'
  <2>1. CASE UNCHANGED <<views, assigned>>
    BY <1>3, <2>1, SameViews DEF endpoint
  <2>2. ASSUME NEW v, views' = Put(views, e, v), assigned' = assigned \cup {e}
        PROVE  RuleKeepsView'
    <3>1. ASSUME NEW k \in DOMAIN views, k \notin assigned'
          PROVE  k \in DOMAIN views' /\ views'[k] = views[k]
      BY <2>2, <3>1, PutAt
    <3> QED
      BY <1>3, <2>2, <3>1, AssignedViews DEF endpoint
  <2> QED
    BY <1>3, <2>1, <2>2 DEF endpoint
<1>4. CASE command(o)
  BY <1>4, SameViews DEF command, marks
<1> QED
  BY <1>1, <1>2, <1>3, <1>4 DEF SharedSetup, before_request, after_request, teardown_request,
     context_processor, url_value_preprocessor, url_defaults

LEMMA AppKeepsViews ==
    ASSUME RuleKeepsView, AppSetup PROVE RuleKeepsView'
<1>1. ASSUME NEW t, AddHook(App, t) PROVE RuleKeepsView'
  BY <1>1, SameViews DEF AddHook, marks
<1>2. ASSUME NEW e \in EndpointNames, add_url_rule(e) PROVE RuleKeepsView'
  BY <1>2, MapKeeps DEF add_url_rule
<1>3. ASSUME NEW b \in BPs, NEW opts \in Options, register_blueprint(b, opts)
      PROVE  RuleKeepsView'
  BY <1>3, SameViews DEF register_blueprint, tables, marks
<1> QED
  BY <1>1, <1>2, <1>3 DEF AppSetup, teardown_appcontext, shell_context_processor,
     template_filter, template_test, template_global

\* Of a blueprint or of the application, a rule is served by its own view function
\* if its addition returned and by another's if it raised, whatever is registered,
\* mounted again or set up afterwards, until `endpoint` names its endpoint.
THEOREM ViewsKept == Spec => []RuleKeepsView
<1>1. Init => RuleKeepsView
  BY DEF Init, RuleKeepsView
<1>2. RuleKeepsView /\ [Next]_vars => RuleKeepsView'
  <2> SUFFICES ASSUME RuleKeepsView, [Next]_vars PROVE RuleKeepsView'
    OBVIOUS
  <2>1. ASSUME NEW b \in BPs, BlueprintSetup(b) PROVE RuleKeepsView'
    BY <2>1, BlueprintKeepsTables, SameViews DEF tables, marks
  <2>2. CASE \/ _check_setup_finished \/ FirstRequest \/ ServerReset \/ UNCHANGED vars
    BY <2>2, SameViews DEF _check_setup_finished, FirstRequest, ServerReset, vars, tables,
       marks
  <2> QED
    BY <2>1, <2>2, AppKeepsViews, SharedKeepViews, RegistrationKeepsViews DEF Next
<1> QED
  BY <1>1, <1>2, PTL DEF Spec

-----------------------------------------------------------------------------
(* What blueprints add for the whole application. *)

\* The application's list, and the places of a function in it.
Wide      == At(hooks, Root)
Places(f) == Occurs(f, Wide)

\* The functions a blueprint defers with record_once.
Onces(b)    == {i \in DOMAIN own[b].deferred : own[b].deferred[i].kind = "once"}
Given(b, i) == own[b].deferred[i].f

\* A deferred function is its blueprint's own, and no other one.
Recorded(b) ==
    /\ \A i \in Onces(b) : Given(b, i).by = b /\ Given(b, i).n < count[b]
    /\ \A i, j \in Onces(b) : Given(b, i) = Given(b, j) => i = j

\* Nothing of a blueprint is in the list before it is registered.
Unknown(b) == ~Taken(b) => \A p \in DOMAIN Wide : Wide[p].by # b

AtMostOnce(b) == \A i \in Onces(b) : \A p, q \in Places(Given(b, i)) : p = q

\* The first registration of a blueprint has added exactly what it has passed.
Added(f) == \A i \in Onces(f.bp) : Places(Given(f.bp, i)) # {} <=> i + MergeAt(f) < f.at

\* Its own steps are over; a registration that waits for a child's has come so far.
Over(f) == f.at > MergeAt(f) + 1 + Len(own[f.bp].deferred)

\* Until they are over the blueprint has no other registration.
OnlyFrame(f) ==
    Over(f) \/ \A i \in DOMAIN blueprints : blueprints[i].bp = f.bp => blueprints[i].name = f.name

FrameOnce(s, k) ==
    /\ s[k].first => Added(s[k]) /\ OnlyFrame(s[k])
    /\ k # Len(s) => Over(s[k])
OneFirst(s) == \A j, k \in DOMAIN s : s[j].first /\ s[k].first /\ s[j].bp = s[k].bp => j = k
StackOnce(s) == OneFirst(s) /\ \A k \in DOMAIN s : FrameOnce(s, k)

FirstIn(s, b) == \E k \in DOMAIN s : s[k].bp = b /\ s[k].first

\* A blueprint whose first registration is over has added everything.
Complete(b) ==
    Taken(b) /\ b \notin aborted /\ ~FirstIn(stack, b) =>
        \A i \in Onces(b) : Places(Given(b, i)) # {}

OnceInv ==
    /\ Wide \in Seq(Funcs)
    /\ \A b \in BPs : Recorded(b) /\ Unknown(b) /\ AtMostOnce(b) /\ Complete(b)
    /\ StackOnce(stack)

\* A function at the end of a list.
LEMMA AddedLast ==
    ASSUME NEW S, NEW fs \in Seq(S), NEW g \in S
    PROVE  /\ Append(fs, g) \in Seq(S)
           /\ DOMAIN Append(fs, g) = DOMAIN fs \cup {Len(fs) + 1}
           /\ Len(fs) + 1 \notin DOMAIN fs
           /\ \A p \in DOMAIN fs : Append(fs, g)[p] = fs[p]
           /\ Append(fs, g)[Len(fs) + 1] = g
OBVIOUS

LEMMA AddedOccurs ==
    ASSUME NEW S, NEW fs \in Seq(S), NEW g \in S, NEW f
    PROVE  Occurs(f, Append(fs, g)) = Occurs(f, fs) \cup (IF f = g THEN {Len(fs) + 1} ELSE {})
<1>1. PICK gs : gs = Append(fs, g)
  OBVIOUS
<1>2. /\ DOMAIN gs = DOMAIN fs \cup {Len(fs) + 1}
      /\ Len(fs) + 1 \notin DOMAIN fs
      /\ \A p \in DOMAIN fs : gs[p] = fs[p]
      /\ gs[Len(fs) + 1] = g
  BY <1>1, AddedLast
<1> QED
  BY <1>1, <1>2 DEF Occurs

LEMMA OncesOf == ASSUME NEW b, NEW i \in Onces(b)
                 PROVE  i \in DOMAIN own[b].deferred /\ own[b].deferred[i].kind = "once"
BY DEF Onces

\* A step that leaves the list and what a blueprint defers alone.
LEMMA SameOwn ==
    ASSUME NEW b \in BPs, Recorded(b), AtMostOnce(b), own'[b].deferred = own[b].deferred,
           Wide' = Wide, count[b] \in Nat, count'[b] \in Nat, count'[b] >= count[b],
           \A i \in Onces(b) : Given(b, i).n \in Nat
    PROVE  Recorded(b)' /\ AtMostOnce(b)'
<1>1. Onces(b)' = Onces(b) /\ \A i : Given(b, i)' = Given(b, i)
  BY DEF Onces, Given
<1>2. \A f : Places(f)' = Places(f)
  BY DEF Places, Occurs
<1> QED
  BY <1>1, <1>2 DEF Recorded, AtMostOnce

LEMMA SameStack ==
    ASSUME NEW s \in Seq(Frames), StackOnce(s), blueprints' = blueprints, Wide' = Wide,
           \A b \in BPs : own'[b].deferred = own[b].deferred
    PROVE  StackOnce(s)'
<1>1. ASSUME NEW k \in DOMAIN s PROVE FrameOnce(s, k)'
  <2>1. PICK f : f = s[k] /\ f \in Frames
    OBVIOUS
  <2>2. own'[f.bp].deferred = own[f.bp].deferred
    BY <2>1 DEF Frames
  <2>3. Over(f)' <=> Over(f)
    BY <2>2 DEF Over, MergeAt
  <2>4. Onces(f.bp)' = Onces(f.bp) /\ \A i : Given(f.bp, i)' = Given(f.bp, i)
    BY <2>2 DEF Onces, Given
  <2>5. \A g : Places(g)' = Places(g)
    BY DEF Places, Occurs
  <2>6. Added(f) => Added(f)'
    BY <2>4, <2>5 DEF Added, MergeAt
  <2>7. OnlyFrame(f) => OnlyFrame(f)'
    BY <2>3 DEF OnlyFrame
  <2>8. FrameOnce(s, k)
    BY DEF StackOnce
  <2> QED
    BY <2>1, <2>3, <2>6, <2>7, <2>8 DEF FrameOnce, Added, Over, OnlyFrame, MergeAt
<1> QED
  BY <1>1 DEF StackOnce, OneFirst, FrameOnce

\* The step passed by the innermost registration added nothing it should have.
LEMMA Passed ==
    ASSUME IInv, StackOnce(stack), NEW kind, Doing(kind), kind # "once" \/ ~Top.first
    PROVE  StackOnce(Advanced)
<1>1. /\ stack # <<>> /\ Top \in Frames /\ Top.at \in DOMAIN Todo(Top)
      /\ Todo(Top)[Top.at].kind = kind
  BY AtMerge DEF IInv
<1>2. /\ Len(stack) \in DOMAIN stack /\ Top = stack[Len(stack)] /\ Top.at \in Nat
      /\ Top.bp \in BPs
  BY <1>1, TopFacts DEF IInv, Frames
<1>3. PICK f : f = Advanced[Len(stack)]
  OBVIOUS
<1>4. f.bp = Top.bp /\ f.name = Top.name /\ f.at = Top.at + 1 /\ f.first = Top.first
  BY <1>1, <1>3, AdvancedFacts DEF IInv
<1>5. PICK D, m : D = own[Top.bp].deferred /\ m = MergeAt(Top)
  OBVIOUS
<1>6. /\ Len(D) \in Nat /\ DOMAIN D = 1..Len(D) /\ m \in Nat
      /\ \/ Top.at < m /\ Todo(Top)[Top.at] = StaticRule
         \/ Top.at = m /\ Todo(Top)[Top.at].kind = "merge"
         \/ Top.at - m \in DOMAIN D /\ Todo(Top)[Top.at] = D[Top.at - m]
         \/ Top.at = m + 1 + Len(D) /\ Todo(Top)[Top.at].kind = "cli"
         \/ Top.at > m + 1 + Len(D) /\ Todo(Top)[Top.at] \in Children
  BY <1>1, <1>5, TodoAt DEF IInv
<1>7. MergeAt(f) = m
  BY <1>4, <1>5 DEF MergeAt
<1>8. Over(Top) => Over(f)
  BY <1>2, <1>4, <1>5, <1>6, <1>7 DEF Over
<1>9. ASSUME Top.first, Added(Top) PROVE Added(f)
  <2>1. kind # "once"
    BY <1>9
  <2>2. ASSUME NEW i \in Onces(Top.bp) PROVE i + m < Top.at <=> i + m < Top.at + 1
    <3>1. i \in DOMAIN D /\ D[i].kind = "once"
      BY <1>5, OncesOf
    <3>2. Top.at - m # i
      <4>1. SUFFICES ASSUME Top.at - m = i PROVE FALSE
        OBVIOUS
      <4>2. Todo(Top)[Top.at] = D[Top.at - m]
        BY <4>1, <3>1, <1>2, <1>6
      <4> QED
        BY <4>1, <4>2, <3>1, <2>1, <1>1
    <3>3. i \in Nat
      BY <3>1, <1>6
    <3> QED
      BY ONLY <3>2, <3>3, <1>2, <1>6
  <2> QED
    BY <2>2, <1>4, <1>5, <1>7, <1>9 DEF Added
<1>10. OnlyFrame(Top) => OnlyFrame(f)
  BY <1>4, <1>8 DEF OnlyFrame
<1>11. FrameOnce(stack, Len(stack))
  BY <1>2 DEF StackOnce
<1>12. f.first => Added(f) /\ OnlyFrame(f)
  BY <1>2, <1>4, <1>9, <1>10, <1>11 DEF FrameOnce
<1>13. /\ DOMAIN Advanced = DOMAIN stack /\ Len(Advanced) = Len(stack)
       /\ \A i \in DOMAIN stack : i # Len(stack) => Advanced[i] = stack[i]
  BY <1>1, AdvancedFacts DEF IInv
<1>14. ASSUME NEW k \in DOMAIN Advanced PROVE FrameOnce(Advanced, k)
  <2>1. CASE k = Len(stack)
    BY <2>1, <1>3, <1>12, <1>13 DEF FrameOnce
  <2>2. CASE k # Len(stack)
    <3>1. Advanced[k] = stack[k] /\ k \in DOMAIN stack
      BY <2>2, <1>13, <1>14
    <3>2. FrameOnce(stack, k)
      BY <3>1 DEF StackOnce
    <3> QED
      BY <2>2, <3>1, <3>2, <1>13 DEF FrameOnce
  <2> QED
    BY <2>1, <2>2
<1>15. \A k \in DOMAIN stack : Advanced[k].bp = stack[k].bp /\ Advanced[k].first = stack[k].first
  BY <1>2, <1>3, <1>4, <1>13
<1>16. OneFirst(Advanced)
  BY <1>13, <1>15 DEF StackOnce, OneFirst
<1> QED
  BY <1>14, <1>16 DEF StackOnce

LEMMA SameFirst ==
    ASSUME Typed, stack # <<>>
    PROVE  /\ \A b : FirstIn(Advanced, b) <=> FirstIn(stack, b)
           /\ {Advanced[i].bp : i \in DOMAIN Advanced} = {stack[i].bp : i \in DOMAIN stack}
<1>1. \A k \in DOMAIN stack : Advanced[k].bp = stack[k].bp /\ Advanced[k].first = stack[k].first
  BY AdvancedFacts, TopFacts
<1>2. DOMAIN Advanced = DOMAIN stack
  BY AdvancedFacts
<1> QED
  BY <1>1, <1>2 DEF FirstIn

\* The functions a blueprint defers are functions.
LEMMA GivenTyped ==
    ASSUME Typed, NEW b \in BPs, NEW i \in Onces(b)
    PROVE  Given(b, i) \in Funcs /\ Given(b, i).n \in Nat
<1>1. own[b].deferred \in Seq(Deferred)
  BY DEF Typed, OwnRecord
<1>2. own[b].deferred[i] \in Deferred /\ own[b].deferred[i].kind = "once"
  BY <1>1, OncesOf
<1>3. own[b].deferred[i].f \in Funcs
  BY <1>2 DEF Deferred
<1> QED
  BY <1>3 DEF Given, Funcs

\* Only the steps of the application and of first registrations touch the list.
LEMMA Untouched ==
    ASSUME IInv, OnceInv, IInv', Wide' = Wide,
           \A b \in BPs : own'[b].deferred = own[b].deferred /\ count'[b] >= count[b]
    PROVE  /\ Wide' \in Seq(Funcs)
           /\ \A b \in BPs : Recorded(b)' /\ AtMostOnce(b)'
<1>1. ASSUME NEW b \in BPs PROVE Recorded(b)' /\ AtMostOnce(b)'
  <2>1. \A i \in Onces(b) : Given(b, i).n \in Nat
    BY GivenTyped DEF IInv
  <2>2. count[b] \in Nat /\ count'[b] \in Nat
    BY DEF IInv, Typed, Owners
  <2> QED
    BY <2>1, <2>2, SameOwn DEF OnceInv
<1> QED
  BY <1>1 DEF OnceInv

\* A registration that raises leaves nothing behind that has to be complete.
LEMMA RaisedOnce ==
    ASSUME IInv, OnceInv, IInv', Abort, UNCHANGED <<own, blueprints, count, hooks>>
    PROVE  OnceInv'
<1>1. Wide' = Wide /\ stack' = <<>>
  BY DEF Wide, Abort
<1>2. /\ Wide' \in Seq(Funcs) /\ \A b \in BPs : Recorded(b)' /\ AtMostOnce(b)'
  BY <1>1, Untouched DEF IInv, Typed, Owners
<1>3. StackOnce(stack)'
  BY <1>1 DEF StackOnce, OneFirst
<1>4. ASSUME NEW b \in BPs PROVE Unknown(b)' /\ Complete(b)'
  <2>1. Taken(b)' <=> Taken(b)
    BY DEF Taken
  <2>2. Unknown(b)'
    BY <2>1, <1>1 DEF OnceInv, Unknown
  <2>3. b \notin aborted' => b \notin aborted /\ ~FirstIn(stack, b)
    BY DEF Abort, FirstIn
  <2>4. Onces(b)' = Onces(b) /\ \A i : Given(b, i)' = Given(b, i) /\ Places(Given(b, i))' = Places(Given(b, i))
    BY <1>1 DEF Onces, Given, Places, Occurs
  <2>5. Complete(b)'
    BY <2>1, <2>3, <2>4 DEF OnceInv, Complete
  <2> QED
    BY <2>2, <2>5
<1> QED
  BY <1>2, <1>3, <1>4 DEF OnceInv

\* A step of a registration that adds nothing to the list.
LEMMA PassedOnce ==
    ASSUME IInv, OnceInv, IInv', NEW kind, Doing(kind), kind # "once" \/ ~Top.first,
           Advance, UNCHANGED <<own, blueprints, count>>, Wide' = Wide
    PROVE  OnceInv'
<1>1. /\ Wide' \in Seq(Funcs) /\ \A b \in BPs : Recorded(b)' /\ AtMostOnce(b)'
  BY Untouched DEF IInv, Typed, Owners
<1>2. stack # <<>> /\ stack' = Advanced /\ aborted' = aborted
  BY DEF Advance, Doing
<1>3. StackOnce(stack)'
  <2>1. Advanced \in Seq(Frames) /\ StackOnce(Advanced)
    BY <1>2, Passed, AdvancedFacts DEF IInv, OnceInv
  <2>2. PICK s : s = Advanced
    OBVIOUS
  <2>3. StackOnce(s)'
    BY <2>1, <2>2, SameStack
  <2>4. stack' = s
    BY <1>2, <2>2
  <2> QED
    BY <2>3, <2>4 DEF StackOnce, OneFirst, FrameOnce
<1>4. ASSUME NEW b \in BPs PROVE Unknown(b)' /\ Complete(b)'
  <2>1. Taken(b)' <=> Taken(b)
    BY DEF Taken
  <2>2. Unknown(b)'
    BY <2>1 DEF OnceInv, Unknown
  <2>3. FirstIn(stack, b)' <=> FirstIn(stack, b)
    BY <1>2, SameFirst DEF IInv, FirstIn
  <2>4. Onces(b)' = Onces(b) /\ \A i : Given(b, i)' = Given(b, i) /\ Places(Given(b, i))' = Places(Given(b, i))
    BY DEF Onces, Given, Places, Occurs
  <2>5. Complete(b)'
    BY <1>2, <2>1, <2>3, <2>4 DEF OnceInv, Complete
  <2> QED
    BY <2>2, <2>5
<1> QED
  BY <1>1, <1>3, <1>4 DEF OnceInv

\* The first registration of a blueprint adds the function at its place.
LEMMA AddingOnce ==
    ASSUME IInv, OnceInv, IInv', Doing("once"), Top.first, Advance,
           UNCHANGED <<own, blueprints, count>>, Wide' = Append(Wide, Current.f)
    PROVE  OnceInv'
<1>1. /\ stack # <<>> /\ Top \in Frames /\ Top.at \in DOMAIN Todo(Top)
      /\ Todo(Top)[Top.at].kind = "once" /\ stack' = Advanced /\ aborted' = aborted
  BY AtMerge DEF IInv, Advance
<1>2. /\ Len(stack) \in DOMAIN stack /\ Top = stack[Len(stack)] /\ Top.at \in Nat
      /\ Top.bp \in BPs
  BY <1>1, TopFacts DEF IInv, Frames
<1>3. PICK D, m, c, g : /\ D = own[Top.bp].deferred /\ m = MergeAt(Top) /\ c = Top.bp
                        /\ g = Current.f
  OBVIOUS
<1>4. /\ Len(D) \in Nat /\ DOMAIN D = 1..Len(D) /\ m \in Nat
      /\ \/ Top.at < m /\ Todo(Top)[Top.at] = StaticRule
         \/ Top.at = m /\ Todo(Top)[Top.at].kind = "merge"
         \/ Top.at - m \in DOMAIN D /\ Todo(Top)[Top.at] = D[Top.at - m]
         \/ Top.at = m + 1 + Len(D) /\ Todo(Top)[Top.at].kind = "cli"
         \/ Top.at > m + 1 + Len(D) /\ Todo(Top)[Top.at] \in Children
  BY <1>1, <1>3, TodoAt DEF IInv
<1>5. PICK i0 : i0 = Top.at - m
  OBVIOUS
<1>6. i0 \in DOMAIN D /\ Current = D[i0] /\ D[i0].kind = "once"
  BY <1>1, <1>4, <1>5 DEF Current, StaticRule, Children
<1>7. i0 \in Onces(c) /\ Given(c, i0) = g /\ i0 \in Nat /\ c \in BPs
  BY <1>2, <1>3, <1>4, <1>6 DEF Onces, Given
<1>8. g \in Funcs /\ g.by = c
  BY <1>7, GivenTyped DEF IInv, OnceInv, Recorded
<1>9. /\ Wide \in Seq(Funcs) /\ Wide' = Append(Wide, g) /\ Wide' \in Seq(Funcs)
      /\ DOMAIN Wide' = DOMAIN Wide \cup {Len(Wide) + 1}
      /\ \A p \in DOMAIN Wide : Wide'[p] = Wide[p]
      /\ Wide'[Len(Wide) + 1] = g
  <2>1. Wide \in Seq(Funcs) /\ Wide' = Append(Wide, g)
    BY <1>3 DEF OnceInv
  <2> QED
    BY <2>1, <1>8, AddedLast
<1>10. \A f : Places(f)' = Places(f) \cup (IF f = g THEN {Len(Wide) + 1} ELSE {})
  BY <1>8, <1>9, AddedOccurs DEF Places
<1>11. \A b : Onces(b)' = Onces(b) /\ \A i : Given(b, i)' = Given(b, i)
  BY DEF Onces, Given
<1>12. \A b \in BPs : \A i \in Onces(b) : Given(b, i) = g => b = c /\ i = i0
  BY <1>7, <1>8 DEF OnceInv, Recorded
<1>13. Added(Top) /\ OnlyFrame(Top)
  BY <1>2 DEF OnceInv, StackOnce, FrameOnce
<1>14. Places(g) = {}
  <2>1. ~(i0 + m < Top.at)
    BY <1>2, <1>4, <1>5
  <2> QED
    BY <2>1, <1>3, <1>7, <1>13 DEF Added
<1>15. ASSUME NEW b \in BPs PROVE Recorded(b)' /\ AtMostOnce(b)' /\ Unknown(b)' /\ Complete(b)'
  <2>1. Recorded(b)'
    BY <1>11 DEF OnceInv, Recorded
  <2>2. ASSUME NEW i \in Onces(b), NEW p \in Places(Given(b, i))', NEW q \in Places(Given(b, i))'
        PROVE  p = q
    <3>1. CASE Given(b, i) = g
      <4>1. p \in {Len(Wide) + 1} /\ q \in {Len(Wide) + 1}
        BY <3>1, <2>2, <1>10, <1>11, <1>14
      <4> QED
        BY <4>1
    <3>2. CASE Given(b, i) # g
      <4>1. p \in Places(Given(b, i)) /\ q \in Places(Given(b, i))
        BY <3>2, <2>2, <1>10, <1>11
      <4> QED
        BY <4>1 DEF OnceInv, AtMostOnce
    <3> QED
      BY <3>1, <3>2
  <2>3. AtMostOnce(b)'
    BY <2>2, <1>11 DEF AtMostOnce
  <2>4. Taken(b)' <=> Taken(b)
    BY DEF Taken
  <2>5. Taken(c)
    <3>1. FrameOK(Top)
      BY <1>2 DEF IInv, Running
    <3> QED
      BY <3>1, <1>3 DEF FrameOK, Taken
  <2>6. Unknown(b)'
    BY <2>4, <2>5, <1>8, <1>9 DEF OnceInv, Unknown
  <2>7. FirstIn(stack, b)' <=> FirstIn(stack, b)
    BY <1>1, SameFirst DEF IInv, FirstIn
  <2>8. Complete(b)'
    BY <1>1, <1>10, <1>11, <2>4, <2>7 DEF OnceInv, Complete
  <2> QED
    BY <2>1, <2>3, <2>6, <2>8
<1>16. StackOnce(stack)'
  <2>1. PICK s, l : s = Advanced /\ l = Len(stack)
    OBVIOUS
  <2>2. /\ s \in Seq(Frames) /\ DOMAIN s = DOMAIN stack /\ Len(s) = l /\ l \in DOMAIN s
        /\ \A k \in DOMAIN stack : k # l => s[k] = stack[k]
        /\ s[l].bp = c /\ s[l].name = Top.name
        /\ s[l].at = Top.at + 1 /\ s[l].first = Top.first
    BY <1>1, <1>2, <1>3, <2>1, AdvancedFacts DEF IInv
  <2>3. \A f : (Over(f)' <=> Over(f)) /\ (OnlyFrame(f)' <=> OnlyFrame(f))
    BY DEF Over, OnlyFrame, MergeAt
  <2>4. ASSUME NEW k \in DOMAIN stack, k # l PROVE FrameOnce(s, k)'
    <3>1. PICK f : f = stack[k] /\ f = s[k]
      BY <2>2, <2>4
    <3>2. FrameOnce(stack, k) /\ f \in Frames
      <4>1. FrameOnce(stack, k)
        BY <2>4 DEF OnceInv, StackOnce
      <4>2. stack \in Seq(Frames)
        BY DEF IInv, Typed
      <4>3. stack[k] \in Frames
        BY <4>2, <2>4
      <4> QED
        BY <4>1, <4>3, <3>1
    <3>3. ASSUME f.first PROVE Added(f)'
      <4>1. f.bp # c /\ f.bp \in BPs
        BY <3>1, <3>2, <3>3, <2>1, <2>4, <1>2, <1>3 DEF OnceInv, StackOnce, OneFirst, Frames
      <4>2. \A i \in Onces(f.bp) : Places(Given(f.bp, i))' = Places(Given(f.bp, i))
        BY <4>1, <1>10, <1>11, <1>12
      <4> QED
        BY <4>2, <3>1, <3>2, <3>3, <1>11 DEF FrameOnce, Added, MergeAt
    <3>4. Over(f)' /\ (f.first => OnlyFrame(f)')
      BY <3>1, <3>2, <2>1, <2>3, <2>4 DEF FrameOnce
    <3> QED
      BY <3>1, <3>3, <3>4 DEF FrameOnce, Over, OnlyFrame, MergeAt, Added
  <2>5. PICK f : f = s[l]
    OBVIOUS
  <2>6. MergeAt(f) = m
    BY <2>2, <2>5, <1>3 DEF MergeAt
  <2>7. Added(f)'
    <3>1. ASSUME NEW i \in Onces(c)
          PROVE  Places(Given(c, i))' # {} <=> i + m < Top.at + 1
      <4>1. i \in Nat
        BY <3>1, <1>3, <1>4, OncesOf
      <4>2. Places(Given(c, i)) # {} <=> i + m < Top.at
        BY <3>1, <1>3, <1>13 DEF Added
      <4>3. CASE i = i0
        <5>1. i + m < Top.at + 1
          BY <4>3, <1>2, <1>4, <1>5
        <5> QED
          BY <5>1, <4>3, <1>7, <1>10, <1>11
      <4>4. CASE i # i0
        <5>1. Given(c, i) # g
          BY <4>4, <3>1, <1>7, <1>12
        <5>2. i + m < Top.at + 1 <=> i + m < Top.at
          BY <4>1, <4>4, <1>2, <1>4, <1>5
        <5> QED
          BY <5>1, <5>2, <4>2, <1>10, <1>11
      <4> QED
        BY <4>3, <4>4
    <3> QED
      BY <3>1, <2>2, <2>5, <2>6, <1>11 DEF Added, MergeAt
  <2>8. OnlyFrame(f)'
    <3>1. Over(Top) => Over(f)
      BY <2>2, <2>5, <2>6, <1>2, <1>3, <1>4 DEF Over
    <3> QED
      BY <3>1, <2>2, <2>3, <2>5, <1>3, <1>13 DEF OnlyFrame
  <2>9. FrameOnce(s, l)'
    BY <2>2, <2>5, <2>7, <2>8 DEF FrameOnce, Added, OnlyFrame, Over, MergeAt
  <2>10. OneFirst(s)
    <3>1. \A k \in DOMAIN stack : s[k].bp = stack[k].bp /\ s[k].first = stack[k].first
      BY <2>1, <2>2, <1>2, <1>3
    <3> QED
      BY <3>1, <2>2 DEF OnceInv, StackOnce, OneFirst
  <2>11. \A k \in DOMAIN s : FrameOnce(s, k)'
    BY <2>2, <2>4, <2>9
  <2>12. stack' = s
    BY <1>1, <2>1
  <2> QED
    BY <2>10, <2>11, <2>12 DEF StackOnce, OneFirst, FrameOnce
<1> QED
  BY <1>9, <1>15, <1>16 DEF OnceInv

\* A registration that begins: the ones below it wait for a child's, so their
\* own steps are over.
LEMMA BegunOnce ==
    ASSUME IInv, OnceInv, IInv', NEW b \in BPs, NEW opts \in OptRecords, NEW given \in Options,
           NEW outer \in Seq(STRING), NEW over \in Seq(Frames),
           \A i \in DOMAIN over : FrameOK(over[i]) /\ Over(over[i]), StackOnce(over),
           {over[i].bp : i \in DOMAIN over} = {stack[i].bp : i \in DOMAIN stack},
           \A c : FirstIn(over, c) <=> FirstIn(stack, c),
           Begin(b, opts, given, outer, over), UNCHANGED hooks,
           \A c \in BPs : count'[c] = count[c]
    PROVE  OnceInv'
<1>1. PICK n : n = FullName(b, opts, outer)
  OBVIOUS
<1>2. Wide' = Wide /\ Wide \in Seq(Funcs)
  BY DEF Wide, OnceInv
<1>3. \A c \in BPs : count[c] \in Nat /\ count'[c] >= count[c]
  BY DEF IInv, Typed, Owners
<1>4. CASE stack' = <<>> /\ aborted' = aborted \cup {over[i].bp : i \in DOMAIN over}
           /\ UNCHANGED <<own, blueprints>>
  <2>1. \A c \in BPs : Recorded(c)' /\ AtMostOnce(c)'
    BY <1>2, <1>3, <1>4, Untouched
  <2>2. StackOnce(stack)'
    BY <1>4 DEF StackOnce, OneFirst
  <2>3. ASSUME NEW c \in BPs PROVE Unknown(c)' /\ Complete(c)'
    <3>1. Taken(c)' <=> Taken(c)
      BY <1>4 DEF Taken
    <3>2. Unknown(c)'
      BY <3>1, <1>2 DEF OnceInv, Unknown
    <3>3. c \notin aborted' => c \notin aborted /\ ~FirstIn(stack, c)
      BY <1>4 DEF FirstIn
    <3>4. /\ Onces(c)' = Onces(c)
          /\ \A i : Given(c, i)' = Given(c, i) /\ Places(Given(c, i))' = Places(Given(c, i))
      BY <1>2, <1>4 DEF Onces, Given, Places, Occurs
    <3>5. Complete(c)'
      BY <3>1, <3>3, <3>4 DEF OnceInv, Complete
    <3> QED
      BY <3>2, <3>5
  <2> QED
    BY <1>2, <2>1, <2>2, <2>3 DEF OnceInv
<1>5. CASE /\ blueprints' = Append(blueprints, [name |-> n, bp |-> b, opts |-> given])
           /\ own' = [own EXCEPT ![b].once = TRUE]
           /\ stack' = Append(over, State(b, opts, n, ~Taken(b)))
           /\ aborted' = aborted
  <2>1. PICK f : f = State(b, opts, n, ~Taken(b))
    OBVIOUS
  <2>2. /\ f \in Frames /\ f.name = n /\ f.bp = b /\ f.at = 1 /\ (f.first <=> ~Taken(b))
    BY <1>1, <2>1, NewFrame DEF State
  <2>3. PICK s, l : s = stack' /\ l = Len(over) + 1
    OBVIOUS
  <2>4. /\ s \in Seq(Frames) /\ Len(s) = l /\ DOMAIN s = DOMAIN over \cup {l}
        /\ l \notin DOMAIN over
        /\ \A i \in DOMAIN over : s[i] = over[i]
        /\ s[l] = f
    <3>1. s = Append(over, f)
      BY <1>5, <2>1, <2>3
    <3>2. f \in Frames
      BY <2>2
    <3>3. over \in Seq(Frames) /\ l = Len(over) + 1
      BY <2>3
    <3>4. Len(s) = l
      BY ONLY <3>1, <3>2, <3>3
    <3> QED
      BY <3>1, <3>2, <3>3, <3>4, AddedLast
  <2>5. PICK e : e = [name |-> n, bp |-> b, opts |-> given]
    OBVIOUS
  <2>6. e.name = n /\ e.bp = b /\ e \in Entries
    BY <1>1, <2>5, NewFrame DEF Entries
  <2>7. /\ DOMAIN blueprints' = DOMAIN blueprints \cup {Len(blueprints) + 1}
        /\ \A i \in DOMAIN blueprints : blueprints'[i] = blueprints[i]
        /\ blueprints'[Len(blueprints) + 1] = e
    <3>1. blueprints \in Seq(Entries) /\ blueprints' = Append(blueprints, e)
      BY <1>5, <2>5 DEF IInv, Typed
    <3> QED
      BY ONLY <3>1, <2>6
  <2>8. \A c : Taken(c)' <=> Taken(c) \/ c = b
    BY <2>6, <2>7 DEF Taken
  <2>9. \A c \in BPs : own'[c].deferred = own[c].deferred
    BY <1>5 DEF IInv, Typed, OwnRecord, OwnFields
  <2>10. \A c \in BPs : Onces(c)' = Onces(c) /\ \A i : Given(c, i)' = Given(c, i)
    BY <2>9 DEF Onces, Given
  <2>11. \A g : Places(g)' = Places(g)
    BY <1>2 DEF Places, Occurs
  <2>12. ASSUME NEW c \in BPs PROVE Recorded(c)' /\ AtMostOnce(c)'
    BY <1>2, <1>3, <2>9, Untouched
  <2>13. \A k \in DOMAIN over : over[k] \in Frames
    OBVIOUS
  <2>14. FirstIn(s, b) \/ Taken(b)
    BY <2>2, <2>4 DEF FirstIn
  <2>15. ASSUME NEW c \in BPs PROVE Unknown(c)' /\ Complete(c)'
    <3>1. Unknown(c)'
      BY <1>2, <2>8 DEF OnceInv, Unknown
    <3>2. FirstIn(stack, c) => FirstIn(s, c)
      <4>1. FirstIn(stack, c) => FirstIn(over, c)
        OBVIOUS
      <4> QED
        BY <4>1, <2>4 DEF FirstIn
    <3>3. Taken(c)' /\ ~FirstIn(s, c) => Taken(c) /\ ~FirstIn(stack, c)
      BY <3>2, <2>8, <2>14
    <3>4. Complete(c)
      BY DEF OnceInv
    <3>5. FirstIn(stack, c)' <=> FirstIn(s, c)
      BY <2>3 DEF FirstIn
    <3>6. Complete(c)'
      BY <1>5, <3>3, <3>4, <3>5, <2>10, <2>11 DEF Complete
    <3> QED
      BY <3>1, <3>6
  <2>16. ASSUME NEW k \in DOMAIN over PROVE FrameOnce(s, k)'
    <3>1. PICK g : g = over[k] /\ g = s[k] /\ g \in Frames
      BY <2>4, <2>13
    <3>2. g.bp \in BPs
      BY <3>1 DEF Frames
    <3>3. Over(g)'
      BY <3>1, <3>2, <2>9 DEF Over, MergeAt
    <3>4. g.first => Added(g)
      BY <3>1 DEF StackOnce, FrameOnce
    <3>5. g.first => Added(g)'
      BY <3>2, <3>4, <2>10, <2>11 DEF Added, MergeAt
    <3> QED
      BY <3>1, <3>3, <3>5 DEF FrameOnce, OnlyFrame, Over, Added, MergeAt
  <2>17. FrameOnce(s, l)'
    <3>1. ASSUME f.first PROVE Added(f)' /\ OnlyFrame(f)'
      <4>1. \A i \in Onces(b) : Places(Given(b, i)) = {}
        BY <3>1, <2>2 DEF OnceInv, Unknown, Recorded, Places, Occurs
      <4>2. \A i \in Onces(b) : ~(i + MergeAt(f) < 1)
        <5>1. ASSUME NEW i \in Onces(b) PROVE i \in Nat
          <6>1. own[b].deferred \in Seq(Deferred)
            BY DEF IInv, Typed, OwnRecord
          <6> QED
            BY <6>1, OncesOf
        <5> QED
          BY <5>1 DEF MergeAt
      <4>3. Added(f)'
        BY <4>1, <4>2, <2>2, <2>10, <2>11 DEF Added, MergeAt
      <4>4. \A i \in DOMAIN blueprints' : blueprints'[i].bp = b => blueprints'[i].name = n
        BY <3>1, <2>2, <2>6, <2>7 DEF Taken
      <4>5. OnlyFrame(f)'
        BY <4>4, <2>2 DEF OnlyFrame
      <4> QED
        BY <4>3, <4>5
    <3> QED
      BY <3>1, <2>4 DEF FrameOnce, OnlyFrame, Over, Added, MergeAt
  <2>18. OneFirst(s)
    <3>1. ASSUME f.first, NEW k \in DOMAIN over PROVE over[k].bp # b
      <4>1. Taken(over[k].bp)
        BY DEF FrameOK, Taken
      <4> QED
        BY <4>1, <3>1, <2>2
    <3> QED
      BY <3>1, <2>2, <2>4 DEF StackOnce, OneFirst
  <2>19. StackOnce(s)'
    <3>1. \A k \in DOMAIN s : FrameOnce(s, k)'
      BY <2>4, <2>16, <2>17
    <3> QED
      BY <3>1, <2>18 DEF StackOnce, OneFirst
  <2>20. StackOnce(stack)'
    BY <2>3, <2>19 DEF StackOnce, OneFirst, FrameOnce
  <2> QED
    BY <1>2, <2>12, <2>15, <2>20 DEF OnceInv
<1> QED
  BY <1>1, <1>4, <1>5 DEF Begin

LEMMA ReturnedOnce == ASSUME IInv, OnceInv, IInv', RegisterReturns PROVE OnceInv'
<1>1. /\ stack # <<>> /\ Top \in Frames /\ Len(stack) \in DOMAIN stack
      /\ Top = stack[Len(stack)] /\ Len(stack) \in Nat \ {0}
      /\ DOMAIN stack = 1..Len(stack) /\ stack \in Seq(Frames)
  BY TopFacts DEF RegisterReturns, IInv, Typed
<1>2. /\ stack' = SubSeq(stack, 1, Len(stack) - 1)
      /\ UNCHANGED <<own, blueprints, hooks, count, aborted>>
  BY DEF RegisterReturns, tables
<1>3. Wide' = Wide /\ Wide \in Seq(Funcs) /\ \A b : own'[b].deferred = own[b].deferred
  BY <1>2 DEF Wide, OnceInv
<1>4. PICK s : s = stack'
  OBVIOUS
<1>5. /\ DOMAIN s = 1..(Len(stack) - 1) /\ Len(s) = Len(stack) - 1 /\ s \in Seq(Frames)
      /\ \A k \in DOMAIN s : s[k] = stack[k] /\ k \in DOMAIN stack /\ k # Len(stack)
  BY ONLY <1>1, <1>2, <1>4
<1>6. StackOnce(s)
  <2>1. ASSUME NEW k \in DOMAIN s PROVE FrameOnce(s, k)
    <3>1. FrameOnce(stack, k) /\ s[k] = stack[k] /\ k # Len(stack)
      BY <1>5 DEF OnceInv, StackOnce
    <3> QED
      BY <3>1 DEF FrameOnce
  <2> QED
    BY <2>1, <1>5 DEF OnceInv, StackOnce, OneFirst
<1>7. StackOnce(s)'
  BY <1>2, <1>3, <1>5, <1>6, SameStack
<1>8. \A b \in BPs : Recorded(b)' /\ AtMostOnce(b)'
  BY <1>2, <1>3, Untouched DEF IInv, Typed, Owners
<1>9. ASSUME Top.first, NEW i \in Onces(Top.bp) PROVE Places(Given(Top.bp, i)) # {}
  <2>1. PICK D, m, t, c : /\ D = own[Top.bp].deferred /\ m = MergeAt(Top)
                          /\ t = Len(Todo(Top)) /\ c = Len(own[Top.bp].children)
    OBVIOUS
  <2>2. /\ Len(D) \in Nat /\ DOMAIN D = 1..Len(D) /\ m \in Nat /\ c \in Nat
        /\ t = m + 1 + Len(D) + c /\ DOMAIN Todo(Top) = 1..t
    BY <1>1, <2>1, TodoAt DEF IInv
  <2>3. Top.at \in Nat \ {0} /\ Top.at \notin 1..t
    BY <1>1, <2>2 DEF Frames, RegisterReturns
  <2>4. i \in 1..Len(D)
    BY <1>9, <2>1, <2>2, OncesOf
  <2>5. i + m < Top.at
    BY ONLY <2>2, <2>3, <2>4
  <2>6. Added(Top)
    BY <1>1, <1>9 DEF OnceInv, StackOnce, FrameOnce
  <2> QED
    BY <2>1, <2>5, <2>6, <1>9 DEF Added
<1>10. ASSUME NEW b \in BPs PROVE Unknown(b)' /\ Complete(b)'
  <2>1. Taken(b)' <=> Taken(b)
    BY <1>2 DEF Taken
  <2>2. Unknown(b)'
    BY <2>1, <1>3 DEF OnceInv, Unknown
  <2>3. FirstIn(stack, b) => FirstIn(s, b) \/ (Top.first /\ Top.bp = b)
    <3>1. \A k \in DOMAIN stack : k = Len(stack) \/ k \in DOMAIN s
      BY ONLY <1>1, <1>5
    <3> QED
      BY <3>1, <1>1, <1>5 DEF FirstIn
  <2>4. /\ Onces(b)' = Onces(b)
        /\ \A i : Given(b, i)' = Given(b, i) /\ Places(Given(b, i))' = Places(Given(b, i))
    BY <1>3 DEF Onces, Given, Places, Occurs
  <2>5. FirstIn(stack, b)' <=> FirstIn(s, b)
    BY <1>4 DEF FirstIn
  <2>6. Complete(b)
    BY DEF OnceInv
  <2>7. Complete(b)'
    BY <1>2, <1>9, <2>1, <2>3, <2>4, <2>5, <2>6 DEF Complete
  <2> QED
    BY <2>2, <2>7
<1>11. StackOnce(stack)'
  BY <1>4, <1>7 DEF StackOnce, OneFirst, FrameOnce
<1> QED
  BY <1>3, <1>8, <1>10, <1>11 DEF OnceInv

LEMMA RegistrationOnce ==
    ASSUME IInv, OnceInv, IInv', focus \in Lists, Registration PROVE OnceInv'
<1>1. CASE RegisterChild
  <2>1. /\ stack # <<>> /\ Top \in Frames /\ Current \in Children /\ Top.at # MergeAt(Top)
        /\ Top.at \in DOMAIN Todo(Top) /\ Doing("child")
    BY <1>1, AtMerge DEF RegisterChild, IInv
  <2>2. PICK c, o : c = Current.bp /\ o = Current.opts
    OBVIOUS
  <2>3. c \in BPs /\ o \in Options /\ Top.name \in Seq(STRING)
    BY <2>1, <2>2 DEF Children, Frames
  <2>4. Within(Top, c, o) \in OptRecords
    BY <2>1, <2>3, WithinTyped
  <2>5. PICK over : over = Advanced
    OBVIOUS
  <2>6. over \in Seq(Frames) /\ \A i \in DOMAIN over : FrameOK(over[i])
    BY <2>1, <2>5, AdvancedFacts, SideKept DEF IInv
  <2>7. StackOnce(over)
    BY <2>1, <2>5, Passed DEF OnceInv
  <2>8. /\ {over[i].bp : i \in DOMAIN over} = {stack[i].bp : i \in DOMAIN stack}
        /\ \A b : FirstIn(over, b) <=> FirstIn(stack, b)
    BY <2>1, <2>5, SameFirst DEF IInv
  <2>9. Over(over[Len(stack)])
    <3>1. PICK D, m : D = own[Top.bp].deferred /\ m = MergeAt(Top)
      OBVIOUS
    <3>2. /\ Len(D) \in Nat /\ DOMAIN D = 1..Len(D) /\ m \in Nat
          /\ \/ Top.at < m /\ Todo(Top)[Top.at] = StaticRule
             \/ Top.at = m /\ Todo(Top)[Top.at].kind = "merge"
             \/ Top.at - m \in DOMAIN D /\ Todo(Top)[Top.at] = D[Top.at - m]
             \/ Top.at = m + 1 + Len(D) /\ Todo(Top)[Top.at].kind = "cli"
             \/ Top.at > m + 1 + Len(D) /\ Todo(Top)[Top.at] \in Children
      BY <2>1, <3>1, TodoAt DEF IInv
    <3>3. \A i \in DOMAIN D : D[i].kind # "child"
      BY <2>1, <3>1, DeferredKinds DEF IInv
    <3>4. Todo(Top)[Top.at].kind = "child"
      BY <2>1 DEF Doing
    <3>5. Top.at > m + 1 + Len(D) /\ Top.at \in Nat
      BY <2>1, <3>2, <3>3, <3>4 DEF StaticRule, Frames
    <3>6. over[Len(stack)].bp = Top.bp /\ over[Len(stack)].at = Top.at + 1
      BY <2>1, <2>5, AdvancedFacts DEF IInv
    <3>7. Top.at + 1 > m + 1 + Len(D)
      BY <3>2, <3>5
    <3> QED
      BY <3>1, <3>6, <3>7 DEF Over, MergeAt
  <2>10. DOMAIN over = DOMAIN stack /\ Len(over) = Len(stack)
    BY <2>1, <2>5, AdvancedFacts DEF IInv
  <2>11. \A i \in DOMAIN over : FrameOK(over[i]) /\ Over(over[i])
    BY <2>6, <2>7, <2>9, <2>10 DEF StackOnce, FrameOnce
  <2>12. /\ Begin(c, Within(Top, c, o), o, Top.name, over) /\ UNCHANGED hooks
         /\ \A b \in BPs : count'[b] = count[b]
    BY <1>1, <2>2, <2>5 DEF RegisterChild, tables
  <2> QED
    BY <2>3, <2>4, <2>6, <2>7, <2>8, <2>11, <2>12, BegunOnce
<1>2. CASE _merge_blueprint_funcs
  <2>1. /\ Doing("merge") /\ Advance /\ UNCHANGED <<own, blueprints, count>>
        /\ hooks' = Merged(hooks, Top.name, At(hooks, Top.name) \o own[Top.bp].hooks)
    BY <1>2 DEF _merge_blueprint_funcs
  <2>2. Top.name # Root
    <3>1. Len(stack) \in DOMAIN stack /\ Top = stack[Len(stack)]
      BY <2>1, TopFacts DEF IInv, Doing
    <3>2. FrameOK(Top)
      BY <3>1 DEF IInv, Running
    <3> QED
      BY <3>2 DEF FrameOK, IInv, EntriesOK
  <2>3. Wide' = Wide
    BY <2>1, <2>2, MergedAt DEF Wide
  <2> QED
    BY <2>1, <2>3, PassedOnce
<1>3. CASE DeferredRule
  <2>1. /\ Doing("rule") /\ (Advance \/ Abort) /\ UNCHANGED <<own, blueprints, count, hooks>>
    BY <1>3 DEF DeferredRule, Refused
  <2> QED
    BY <2>1, PassedOnce, RaisedOnce DEF Wide
<1>4. CASE DeferredOnce
  <2>1. focus \notin Dicts
    BY DEF Lists, Dicts
  <2>2. Doing("once") /\ Advance /\ UNCHANGED <<own, blueprints, count>>
    BY <1>4, <2>1 DEF DeferredOnce
  <2>3. CASE ~Top.first
    <3>1. Wide' = Wide
      BY <1>4, <2>3 DEF DeferredOnce, Wide
    <3> QED
      BY <2>2, <2>3, <3>1, PassedOnce
  <2>4. CASE Top.first
    <3>1. hooks' = Put(hooks, Root, Append(Wide, Current.f))
      BY <1>4, <2>1, <2>4 DEF DeferredOnce, Wide, Stored
    <3>2. Wide' = Append(Wide, Current.f)
      BY <3>1 DEF Wide, At, Put
    <3> QED
      BY <2>2, <2>4, <3>2, AddingOnce
  <2> QED
    BY <2>3, <2>4
<1>5. CASE DeferredHandler
  <2>1. /\ Doing("handler") /\ (Advance \/ Abort) /\ UNCHANGED <<own, blueprints, count, hooks>>
    BY <1>5 DEF DeferredHandler, Refused
  <2> QED
    BY <2>1, PassedOnce, RaisedOnce DEF Wide
<1>6. CASE DeferredRaise
  <2>1. Abort /\ UNCHANGED <<own, blueprints, count, hooks>>
    BY <1>6 DEF DeferredRaise, tables
  <2> QED
    BY <2>1, RaisedOnce
<1>7. CASE RegisterCommands
  <2>1. Doing("cli") /\ Advance /\ UNCHANGED <<own, blueprints, count, hooks>>
    BY <1>7 DEF RegisterCommands
  <2> QED
    BY <2>1, PassedOnce DEF Wide
<1> QED
  BY <1>1, <1>2, <1>3, <1>4, <1>5, <1>6, <1>7, ReturnedOnce DEF Registration

\* A setup method of a blueprint, which may defer one more function.
LEMMA SetupOnce ==
    ASSUME IInv, OnceInv, IInv', NEW b \in BPs, Setup(b), hooks' = hooks,
           \A c \in BPs : c # b => own'[c].deferred = own[c].deferred,
           \/ own'[b].deferred = own[b].deferred
           \/ \E d : /\ own'[b].deferred = Append(own[b].deferred, d)
                     /\ d.kind = "once" => d.f = Func(b, TRUE)
    PROVE  OnceInv'
<1>1. /\ stack = <<>> /\ stack' = <<>> /\ ~own[b].once
      /\ UNCHANGED <<blueprints, aborted>> /\ count' = [count EXCEPT ![b] = @ + 1]
  BY FocusAssumption DEF Setup, Open, BlueprintOpen, history
<1>2. Wide' = Wide /\ Wide \in Seq(Funcs) /\ \A f : Places(f)' = Places(f)
  BY DEF Wide, OnceInv, Places, Occurs
<1>3. /\ count[b] \in Nat /\ count'[b] = count[b] + 1
      /\ \A c \in BPs : c # b => count'[c] = count[c]
  BY <1>1 DEF IInv, Typed, Owners
<1>4. ~Taken(b)
  BY <1>1 DEF IInv, EntriesOK, Taken
<1>5. \A c : (Taken(c)' <=> Taken(c)) /\ ~FirstIn(stack, c) /\ ~FirstIn(stack, c)'
  BY <1>1 DEF Taken, FirstIn
<1>6. ASSUME NEW c \in BPs, own'[c].deferred = own[c].deferred
      PROVE  Recorded(c)' /\ AtMostOnce(c)' /\ Complete(c)'
  <2>1. /\ Onces(c)' = Onces(c)
        /\ \A i : Given(c, i)' = Given(c, i)
    BY <1>6 DEF Onces, Given
  <2>2. \A i \in Onces(c) : Given(c, i).n \in Nat
    BY GivenTyped DEF IInv
  <2>3. count[c] \in Nat /\ count'[c] \in Nat /\ count'[c] >= count[c]
    <3>1. count[c] \in Nat
      BY DEF IInv, Typed, Owners
    <3> QED
      BY <3>1, <1>3
  <2>4. Recorded(c)' /\ AtMostOnce(c)'
    BY <1>2, <1>6, <2>2, <2>3, SameOwn DEF OnceInv
  <2>5. Complete(c)'
    BY <1>1, <1>2, <1>5, <2>1 DEF OnceInv, Complete
  <2> QED
    BY <2>4, <2>5
<1>7. ASSUME NEW d, own'[b].deferred = Append(own[b].deferred, d),
             d.kind = "once" => d.f = Func(b, TRUE)
      PROVE  Recorded(b)' /\ AtMostOnce(b)' /\ Complete(b)'
  <2>1. PICK D, E, l : D = own[b].deferred /\ E = own'[b].deferred /\ l = Len(D) + 1
    OBVIOUS
  <2>2. D \in Seq(Deferred)
    BY <2>1 DEF IInv, Typed, OwnRecord
  <2>3. /\ DOMAIN E = DOMAIN D \cup {l} /\ l \notin DOMAIN D
        /\ \A i \in DOMAIN D : E[i] = D[i]
        /\ E[l] = d
    <3>1. E = Append(D, d)
      BY <1>7, <2>1
    <3>2. PICK Z : Z = Deferred \cup {d}
      OBVIOUS
    <3>3. D \in Seq(Z) /\ d \in Z
      BY <2>2, <3>2
    <3> QED
      BY <2>1, <3>1, <3>3, AddedLast
  <2>4. Onces(b)' = Onces(b) \cup (IF d.kind = "once" THEN {l} ELSE {})
    BY <2>1, <2>3 DEF Onces
  <2>5. \A i \in Onces(b) : Given(b, i)' = Given(b, i) /\ i # l
    BY <2>1, <2>3, OncesOf DEF Given
  <2>6. d.kind = "once" => Given(b, l)' = Func(b, TRUE)
    BY <1>7, <2>1, <2>3 DEF Given
  <2>7. Func(b, TRUE).by = b /\ Func(b, TRUE).n = count[b]
    BY DEF Func
  <2>8. \A i \in Onces(b) : Given(b, i).n \in Nat /\ Given(b, i).n < count[b] /\ Given(b, i).by = b
    <3>1. Recorded(b)
      BY DEF OnceInv
    <3>2. \A i \in Onces(b) : Given(b, i).n \in Nat
      BY GivenTyped DEF IInv
    <3> QED
      BY <3>1, <3>2 DEF Recorded
  <2>9. \A i \in Onces(b) : Given(b, i) # Func(b, TRUE) /\ Given(b, i).n < count[b] + 1
    <3>1. \A n \in Nat : n < count[b] => n # count[b] /\ n < count[b] + 1
      BY <1>3
    <3> QED
      BY <3>1, <2>7, <2>8
  <2>10. count[b] < count[b] + 1
    BY <1>3
  <2>11. \A i, j \in Onces(b) : Given(b, i) = Given(b, j) => i = j
    BY DEF OnceInv, Recorded
  <2>12. Recorded(b)'
    <3>1. \A i \in Onces(b)' : Given(b, i)'.by = b /\ Given(b, i)'.n < count'[b]
      BY <1>3, <2>4, <2>5, <2>6, <2>7, <2>8, <2>9, <2>10
    <3>2. \A i, j \in Onces(b)' : Given(b, i)' = Given(b, j)' => i = j
      BY <2>4, <2>5, <2>6, <2>9, <2>11
    <3> QED
      BY <3>1, <3>2 DEF Recorded
  <2>13. \A f : f.by = b => Places(f) = {}
    BY <1>4 DEF OnceInv, Unknown, Places, Occurs
  <2>14. AtMostOnce(b)'
    <3>1. \A i \in Onces(b)' : Places(Given(b, i))' = {}
      BY <2>12, <2>13, <1>2 DEF Recorded
    <3> QED
      BY <3>1 DEF AtMostOnce
  <2>15. Complete(b)'
    BY <1>4, <1>5 DEF Complete
  <2> QED
    BY <2>12, <2>14, <2>15
<1>8. ASSUME NEW c \in BPs PROVE Recorded(c)' /\ AtMostOnce(c)' /\ Complete(c)' /\ Unknown(c)'
  <2>1. Unknown(c)'
    BY <1>2, <1>5 DEF OnceInv, Unknown
  <2> QED
    BY <2>1, <1>6, <1>7
<1>9. StackOnce(stack)'
  BY <1>1 DEF StackOnce, OneFirst
<1> QED
  BY <1>2, <1>8, <1>9 DEF OnceInv

\* A blueprint's own hooks, handlers, view functions, commands and children are
\* no functions it defers.
LEMMA OwnDeferred ==
    ASSUME IInv, NEW b \in BPs, NEW o, own' = [own EXCEPT ![b] = o]
    PROVE  /\ \A c \in BPs : c # b => own'[c].deferred = own[c].deferred
           /\ own'[b].deferred = o.deferred
           /\ \A x : [own[b] EXCEPT !.hooks = x].deferred = own[b].deferred
           /\ \A x : [own[b] EXCEPT !.handlers = x].deferred = own[b].deferred
           /\ \A x : [own[b] EXCEPT !.views = x].deferred = own[b].deferred
           /\ \A x : [own[b] EXCEPT !.cli = x].deferred = own[b].deferred
           /\ \A x : [own[b] EXCEPT !.children = x].deferred = own[b].deferred
           /\ \A x : [own[b] EXCEPT !.deferred = x].deferred = x
BY DEF IInv, Typed, OwnRecord, OwnFields

\* A setup method of the application that leaves the list alone.
LEMMA AppOnce ==
    ASSUME IInv, OnceInv, IInv', Setup(App), UNCHANGED <<own, hooks>> PROVE OnceInv'
<1>1. /\ stack = <<>> /\ stack' = <<>> /\ UNCHANGED <<blueprints, aborted>>
      /\ \A b \in BPs : count'[b] = count[b]
  BY FocusAssumption DEF Setup, history, IInv, Typed, Owners
<1>2. Wide' = Wide /\ \A b : (Taken(b)' <=> Taken(b)) /\ (FirstIn(stack, b)' <=> FirstIn(stack, b))
  BY <1>1 DEF Wide, Taken, FirstIn
<1>3. Wide' \in Seq(Funcs) /\ \A b \in BPs : Recorded(b)' /\ AtMostOnce(b)'
  BY <1>1, <1>2, Untouched DEF IInv, Typed, Owners
<1>4. ASSUME NEW b \in BPs PROVE Unknown(b)' /\ Complete(b)'
  BY <1>1, <1>2 DEF OnceInv, Unknown, Complete, Onces, Given, Places, Occurs
<1>5. StackOnce(stack)'
  BY <1>1 DEF StackOnce, OneFirst
<1> QED
  BY <1>3, <1>4, <1>5 DEF OnceInv

LEMMA HookOnce ==
    ASSUME IInv, OnceInv, IInv', focus \in Lists, NEW o \in Owners, NEW t, AddHook(o, t)
    PROVE  OnceInv'
<1>1. CASE o # App
  <2>1. o \in BPs
    BY <1>1 DEF Owners
  <2>2. /\ Setup(o) /\ hooks' = hooks
        /\ own' = [own EXCEPT ![o] = [own[o] EXCEPT !.hooks = Append(own[o].hooks, Func(o, FALSE))]]
    BY <1>1 DEF AddHook
  <2>3. /\ \A c \in BPs : c # o => own'[c].deferred = own[c].deferred
        /\ own'[o].deferred = own[o].deferred
    BY <2>1, <2>2, OwnDeferred
  <2> QED
    BY <2>1, <2>2, <2>3, SetupOnce
<1>2. CASE o = App
  <2>1. PICK g : g = Func(App, TRUE)
    OBVIOUS
  <2>2. g \in Funcs /\ g.by = App
    BY <2>1, FuncTyped DEF IInv, Func, Owners
  <2>3. focus \notin Dicts
    BY DEF Lists, Dicts
  <2>4. Setup(App) /\ own' = own /\ hooks' = Put(hooks, Root, Append(Wide, g))
    BY <1>2, <2>1, <2>3 DEF AddHook, Stored, Wide
  <2>5. /\ stack = <<>> /\ stack' = <<>> /\ UNCHANGED <<blueprints, aborted>>
        /\ \A b \in BPs : count'[b] = count[b]
    BY <2>4, FocusAssumption DEF Setup, history, IInv, Typed, Owners
  <2>6. Wide' = Append(Wide, g) /\ Wide \in Seq(Funcs)
    BY <2>4 DEF Wide, At, Put, OnceInv
  <2>7. /\ Wide' \in Seq(Funcs) /\ DOMAIN Wide' = DOMAIN Wide \cup {Len(Wide) + 1}
        /\ \A p \in DOMAIN Wide : Wide'[p] = Wide[p]
        /\ Wide'[Len(Wide) + 1] = g
    BY <2>2, <2>6, AddedLast
  <2>8. \A b \in BPs : g.by # b
    BY <2>2, FocusAssumption
  <2>9. \A f : f # g => Places(f)' = Places(f)
    <3>1. \A f : Places(f)' = Places(f) \cup (IF f = g THEN {Len(Wide) + 1} ELSE {})
      BY <2>2, <2>6, AddedOccurs DEF Places
    <3> QED
      BY <3>1
  <2>10. ASSUME NEW b \in BPs
         PROVE  Recorded(b)' /\ AtMostOnce(b)' /\ Unknown(b)' /\ Complete(b)'
    <3>1. \A i \in Onces(b) : Given(b, i).by = b
      BY DEF OnceInv, Recorded
    <3>2. Onces(b)' = Onces(b) /\ \A i : Given(b, i)' = Given(b, i)
      BY <2>4 DEF Onces, Given
    <3>3. ASSUME NEW i \in Onces(b) PROVE Places(Given(b, i))' = Places(Given(b, i))
      <4>1. Given(b, i) # g
        BY <3>1, <3>3, <2>8
      <4> QED
        BY <4>1, <3>2, <2>9
    <3>4. Recorded(b)'
      BY <2>5, <3>2 DEF OnceInv, Recorded
    <3>5. AtMostOnce(b)'
      BY <3>2, <3>3 DEF OnceInv, AtMostOnce
    <3>6. (Taken(b)' <=> Taken(b)) /\ (FirstIn(stack, b)' <=> FirstIn(stack, b))
      BY <2>5 DEF Taken, FirstIn
    <3>7. Unknown(b)'
      BY <2>7, <2>8, <3>6 DEF OnceInv, Unknown
    <3>8. Complete(b)'
      BY <2>5, <3>2, <3>3, <3>6 DEF OnceInv, Complete
    <3> QED
      BY <3>4, <3>5, <3>7, <3>8
  <2>11. StackOnce(stack)'
    BY <2>5 DEF StackOnce, OneFirst
  <2> QED
    BY <2>7, <2>10, <2>11 DEF OnceInv
<1> QED
  BY <1>1, <1>2

LEMMA SharedOnce ==
    ASSUME IInv, OnceInv, IInv', focus \in Lists, NEW o \in Owners, SharedSetup(o)
    PROVE  OnceInv'
<1>1. ASSUME NEW c \in ExcClasses, register_error_handler(o, c) PROVE OnceInv'
  BY <1>1 DEF register_error_handler, Lists
<1>2. ASSUME NEW e \in EndpointNames, endpoint(o, e) PROVE OnceInv'
  BY <1>2 DEF endpoint, Lists
<1>3. CASE command(o)
  BY <1>3 DEF command, Lists
<1> QED
  BY <1>1, <1>2, <1>3, HookOnce DEF SharedSetup, before_request, after_request,
     teardown_request, context_processor, url_value_preprocessor, url_defaults

LEMMA BlueprintOnce ==
    ASSUME IInv, OnceInv, IInv', focus \in Lists, NEW b \in BPs, BlueprintSetup(b)
    PROVE  OnceInv'
<1>1. ASSUME NEW d, record(b, d), d.kind = "once" => d.f = Func(b, TRUE) PROVE OnceInv'
  <2>1. /\ Setup(b) /\ hooks' = hooks
        /\ own' = [own EXCEPT ![b] = [own[b] EXCEPT !.deferred = Append(own[b].deferred, d)]]
    BY <1>1 DEF record, tables
  <2>2. /\ \A c \in BPs : c # b => own'[c].deferred = own[c].deferred
        /\ own'[b].deferred = Append(own[b].deferred, d)
    BY <2>1, OwnDeferred
  <2> QED
    BY <1>1, <2>1, <2>2, SetupOnce
<1>2. ASSUME NEW t, OnceFor(b, t) PROVE OnceInv'
  BY <1>1, <1>2 DEF OnceFor, record_once
<1>3. ASSUME NEW c \in ExcClasses, app_errorhandler(b, c) PROVE OnceInv'
  BY <1>1, <1>3 DEF app_errorhandler
<1>4. ASSUME NEW e \in Endpoints, route(b, e) PROVE OnceInv'
  <2>1. PICK v : record(b, [kind |-> "rule", ep |-> e, view |-> v])
    BY <1>4 DEF route
  <2> QED
    BY <1>1, <2>1
<1>5. CASE record_raising(b)
  BY <1>1, <1>5 DEF record_raising
<1>6. ASSUME NEW c \in BPs, NEW opts \in Options, nest(b, c, opts) PROVE OnceInv'
  <2>1. PICK x : /\ Setup(b) /\ hooks' = hooks
                 /\ own' = [own EXCEPT ![b] = [own[b] EXCEPT !.children = x]]
    BY <1>6 DEF nest, tables
  <2>2. /\ \A d \in BPs : d # b => own'[d].deferred = own[d].deferred
        /\ own'[b].deferred = own[b].deferred
    BY <2>1, OwnDeferred
  <2> QED
    BY <2>1, <2>2, SetupOnce
<1> QED
  BY <1>2, <1>3, <1>4, <1>5, <1>6 DEF BlueprintSetup, before_app_request, after_app_request,
     teardown_app_request, app_context_processor, app_url_value_preprocessor,
     app_url_defaults, app_template_filter, app_template_test, app_template_global

LEMMA AppSetupOnce ==
    ASSUME IInv, OnceInv, IInv', focus \in Lists, AppSetup PROVE OnceInv'
<1>1. ASSUME NEW t, AddHook(App, t) PROVE OnceInv'
  BY <1>1, HookOnce DEF Owners
<1>2. ASSUME NEW e \in EndpointNames, add_url_rule(e) PROVE OnceInv'
  BY <1>2, AppOnce DEF add_url_rule
<1>3. ASSUME NEW b \in BPs, NEW opts \in Options, register_blueprint(b, opts) PROVE OnceInv'
  <2>1. PICK over, outer : over = <<>> /\ outer = Root
    OBVIOUS
  <2>2. stack = <<>> /\ Begin(b, opts, opts, outer, over) /\ hooks' = hooks
    BY <1>3, <2>1 DEF register_blueprint, tables
  <2>3. opts \in OptRecords /\ outer \in Seq(STRING) /\ over \in Seq(Frames) /\ DOMAIN over = {}
    BY <2>1, OptionsTyped DEF Root
  <2>4. \A c \in BPs : count'[c] = count[c]
    BY <1>3, FocusAssumption DEF register_blueprint, IInv, Typed, Owners
  <2>5. StackOnce(over)
    BY <2>3 DEF StackOnce, OneFirst
  <2>6. /\ {over[i].bp : i \in DOMAIN over} = {stack[i].bp : i \in DOMAIN stack}
        /\ \A c : FirstIn(over, c) <=> FirstIn(stack, c)
    BY <2>1, <2>2
  <2> QED
    BY <2>2, <2>3, <2>4, <2>5, <2>6, BegunOnce
<1> QED
  BY <1>1, <1>2, <1>3 DEF AppSetup, teardown_appcontext, shell_context_processor,
     template_filter, template_test, template_global

LEMMA NextOnce == focus \in Lists /\ IInv /\ IInv' /\ OnceInv /\ [Next]_vars => OnceInv'
<1> SUFFICES ASSUME focus \in Lists, IInv, IInv', OnceInv, [Next]_vars PROVE OnceInv'
  OBVIOUS
<1>1. CASE _check_setup_finished \/ FirstRequest \/ ServerReset \/ UNCHANGED vars
  <2>1. UNCHANGED <<own, blueprints, hooks, stack, count, aborted>>
    BY <1>1 DEF _check_setup_finished, FirstRequest, ServerReset, vars, tables, history
  <2>2. Wide' \in Seq(Funcs)
    BY <2>1 DEF OnceInv, Wide
  <2>3. ASSUME NEW b \in BPs PROVE (Recorded(b) /\ Unknown(b) /\ AtMostOnce(b) /\ Complete(b))'
    BY <2>1 DEF OnceInv, Recorded, Unknown, AtMostOnce, Complete, Onces, Given, Places, Occurs,
       Wide, Taken, FirstIn
  <2>4. StackOnce(stack)'
    <3>1. stack' \in Seq(Frames) /\ stack' = stack
      BY <2>1 DEF IInv, Typed
    <3>2. PICK s : s = stack
      OBVIOUS
    <3>3. StackOnce(s)'
      BY <2>1, <3>1, <3>2, SameStack DEF OnceInv, Wide
    <3> QED
      BY <3>1, <3>2, <3>3 DEF StackOnce, OneFirst, FrameOnce
  <2> QED
    BY <2>2, <2>3, <2>4 DEF OnceInv
<1> QED
  BY <1>1, AppSetupOnce, SharedOnce, BlueprintOnce, RegistrationOnce DEF Next

LEMMA FocusKept == [Next]_vars => focus' = focus
<1> SUFFICES ASSUME [Next]_vars PROVE focus' = focus
  OBVIOUS
<1>1. ASSUME NEW o, Setup(o) PROVE focus' = focus
  BY <1>1 DEF Setup
<1>2. ASSUME NEW o, NEW t, AddHook(o, t) PROVE focus' = focus
  BY <1>1, <1>2 DEF AddHook
<1>3. ASSUME NEW b, NEW d, record(b, d) PROVE focus' = focus
  BY <1>1, <1>3 DEF record
<1>4. CASE AppSetup
  BY <1>1, <1>2, <1>4 DEF AppSetup, teardown_appcontext, shell_context_processor,
     template_filter, template_test, template_global, add_url_rule, register_blueprint
<1>5. ASSUME NEW o, SharedSetup(o) PROVE focus' = focus
  BY <1>1, <1>2, <1>5 DEF SharedSetup, before_request, after_request, teardown_request,
     context_processor, url_value_preprocessor, url_defaults, command, register_error_handler,
     endpoint
<1>6. ASSUME NEW b, BlueprintSetup(b) PROVE focus' = focus
  <2>1. ASSUME NEW t, OnceFor(b, t) PROVE focus' = focus
    BY <1>3, <2>1 DEF OnceFor, record_once
  <2> QED
    BY <1>1, <1>3, <1>6, <2>1 DEF BlueprintSetup, before_app_request, after_app_request,
       teardown_app_request, app_context_processor, app_url_value_preprocessor,
       app_url_defaults, app_template_filter, app_template_test, app_template_global,
       app_errorhandler, route, record_raising, nest
<1>7. CASE Registration
  BY <1>7 DEF Registration, RegisterChild, _merge_blueprint_funcs, DeferredRule, DeferredOnce,
     DeferredHandler, DeferredRaise, RegisterCommands, RegisterReturns
<1>8. CASE _check_setup_finished \/ FirstRequest \/ ServerReset \/ UNCHANGED vars
  BY <1>8 DEF _check_setup_finished, FirstRequest, ServerReset, vars
<1> QED
  BY <1>4, <1>5, <1>6, <1>7, <1>8 DEF Next

LEMMA InitOnce == Init => OnceInv
<1> SUFFICES ASSUME Init PROVE OnceInv
  OBVIOUS
<1>1. stack = <<>> /\ blueprints = <<>> /\ \A b \in BPs : own[b].deferred = <<>>
  BY DEF Init
<1>2. Wide = <<>>
  BY DEF Init, Wide, At, Empty
<1>3. ASSUME NEW b \in BPs PROVE Onces(b) = {} /\ ~Taken(b)
  BY <1>1 DEF Onces, Taken
<1>4. ASSUME NEW b \in BPs PROVE Recorded(b) /\ Unknown(b) /\ AtMostOnce(b) /\ Complete(b)
  BY <1>2, <1>3 DEF Recorded, Unknown, AtMostOnce, Complete
<1>5. StackOnce(stack)
  BY <1>1 DEF StackOnce, OneFirst
<1> QED
  BY <1>2, <1>4, <1>5 DEF OnceInv

\* A blueprint that was replayed under some name, without an exception, has all
\* its functions in the list: its first registration is over, or is the one
\* that was replayed.
LEMMA OnceMeans == ASSUME IInv, OnceInv PROVE AppWideOnce
<1>1. ASSUME NEW b \in BPs, NEW i \in DOMAIN own[b].deferred, own[b].deferred[i].kind = "once"
      PROVE  i \in Onces(b) /\ Given(b, i) = own[b].deferred[i].f
  BY <1>1 DEF Onces, Given
<1>2. ASSUME NEW b \in BPs, NEW i \in Onces(b), Places(Given(b, i)) = {}, b \notin aborted,
             NEW n \in Replayed, Entry(n).bp = b
      PROVE  FALSE
  <2>1. PICK e \in DOMAIN blueprints : blueprints[e].name = n
    <3>1. CASE n \in done
      BY <3>1 DEF IInv, DoneOK, Names
    <3>2. CASE n \notin done
      <4>1. PICK k \in DOMAIN stack : stack[k].name = n
        BY <3>2 DEF Replayed
      <4> QED
        BY <4>1 DEF IInv, Running, FrameOK
    <3> QED
      BY <3>1, <3>2
  <2>2. blueprints[e].bp = b /\ Taken(b)
    BY <1>2, <2>1, EntryOf DEF IInv, Taken
  <2>3. PICK k \in DOMAIN stack : stack[k].bp = b /\ stack[k].first
    BY <1>2, <2>2 DEF OnceInv, Complete, FirstIn
  <2>4. PICK f : f = stack[k]
    OBVIOUS
  <2>5. f \in Frames /\ FrameOK(f) /\ f.bp = b
    <3>1. stack \in Seq(Frames)
      BY DEF IInv, Typed
    <3> QED
      BY <2>3, <2>4, <3>1 DEF IInv, Running
  <2>6. Added(f) /\ OnlyFrame(f)
    BY <2>3, <2>4 DEF OnceInv, StackOnce, FrameOnce
  <2>7. PICK D, m, c : D = own[b].deferred /\ m = MergeAt(f) /\ c = Len(own[b].children)
    OBVIOUS
  <2>8. /\ Len(D) \in Nat /\ DOMAIN D = 1..Len(D) /\ m \in Nat /\ c \in Nat
        /\ Len(Todo(f)) = m + 1 + Len(D) + c
    BY <2>5, <2>7, TodoAt DEF IInv
  <2>9. ~(i + m < f.at)
    BY <1>2, <2>5, <2>6, <2>7 DEF Added
  <2>10. i \in 1..Len(D) /\ f.at \in Nat
    BY <2>5, <2>7, <2>8, OncesOf DEF Frames
  <2>11. ~(f.at > m + 1 + Len(D))
    BY ONLY <2>8, <2>9, <2>10
  <2>12. n = f.name
    BY <2>1, <2>2, <2>5, <2>6, <2>7, <2>11 DEF OnlyFrame, Over
  <2>13. n \notin done
    BY <2>5, <2>12 DEF FrameOK
  <2>14. PICK j \in DOMAIN stack :
            /\ stack[j].name = n
            /\ stack[j].at + Len(own[stack[j].bp].children) > Len(Todo(stack[j]))
    BY <2>13 DEF Replayed
  <2>15. j = k
    BY <2>4, <2>12, <2>14 DEF IInv, Running, Distinct
  <2>16. f.at + c > m + 1 + Len(D) + c
    BY <2>3, <2>4, <2>7, <2>8, <2>14, <2>15
  <2> QED
    BY ONLY <2>8, <2>10, <2>11, <2>16
<1>3. ASSUME NEW b \in BPs, NEW i \in Onces(b)
      PROVE  \A p, q \in Places(Given(b, i)) : p = q
  BY DEF OnceInv, AtMostOnce
<1> QED
  BY <1>1, <1>2, <1>3 DEF AppWideOnce, Places, Wide

LEMMA OnceAlways == Spec => [](focus \in Lists => OnceInv)
<1> DEFINE Inv == focus \in Lists => OnceInv
<1>1. Init => Inv
  BY InitOnce
<1>2. Inv /\ IInv /\ IInv' /\ [Next]_vars => Inv'
  BY NextOnce, FocusKept
<1> HIDE DEF Inv
<1>3. Spec => []Inv
  BY Invariant, <1>1, <1>2, PTL DEF Spec
<1> QED
  BY <1>3 DEF Inv

\* Every function a blueprint adds for the whole application is in the
\* application's list once, however often the blueprint is registered, and is
\* there unless a registration of the blueprint raised.
THEOREM OnceKept == Spec => []AppWideOnce
<1>1. IInv /\ (focus \in Lists => OnceInv) => AppWideOnce
  BY OnceMeans DEF AppWideOnce
<1> QED
  BY Invariant, OnceAlways, <1>1, PTL

-----------------------------------------------------------------------------
(* The entries of the application: they are only added, outer names first. *)

\* The registrations a nested one may be part of.
Around(n) == n = Root \/ (n \in Names /\ Matches(n, Entry(n).bp))

\* A registration enters a name that is new, one part longer than another's.
NewEntry(e) ==
    /\ blueprints' = Append(blueprints, e) /\ e \in Entries /\ e.name \notin Names
    /\ \E outer \in Seq(STRING), x \in STRING : Around(outer) /\ e.name = Append(outer, x)

LEMMA BeginEnters ==
    ASSUME NEW b \in BPs, NEW opts \in OptRecords, NEW given \in Options,
           NEW outer \in Seq(STRING), Around(outer), NEW over,
           Begin(b, opts, given, outer, over)
    PROVE  blueprints' = blueprints \/ \E e : NewEntry(e)
<1>1. CASE blueprints' = blueprints
  BY <1>1
<1>2. CASE blueprints' # blueprints
  <2>1. PICK n : n = FullName(b, opts, outer)
    OBVIOUS
  <2>2. PICK e : e = [name |-> n, bp |-> b, opts |-> given]
    OBVIOUS
  <2>3. n \notin Names /\ blueprints' = Append(blueprints, e)
    BY <1>2, <2>1, <2>2 DEF Begin
  <2>4. n \in Seq(STRING)
    BY <2>1, NewFrame
  <2>5. PICK x : x = IF opts.name = None THEN Name[b] ELSE opts.name
    OBVIOUS
  <2>6. x \in STRING /\ n = Append(outer, x)
    BY <2>1, <2>5, NameAssumption DEF OptRecords, FullName
  <2>7. e \in Entries /\ e.name = n
    BY <2>2, <2>4 DEF Entries
  <2> QED
    BY <2>3, <2>6, <2>7 DEF NewEntry
<1> QED
  BY <1>1, <1>2

LEMMA SetupEnters == ASSUME NEW o, SharedSetup(o) PROVE blueprints' = blueprints
<1>1. ASSUME NEW p, Setup(p) PROVE blueprints' = blueprints
  BY <1>1 DEF Setup
<1>2. ASSUME NEW p, NEW t, AddHook(p, t) PROVE blueprints' = blueprints
  BY <1>1, <1>2 DEF AddHook
<1> QED
  BY <1>1, <1>2 DEF SharedSetup, before_request, after_request, teardown_request,
     context_processor, url_value_preprocessor, url_defaults, command, register_error_handler,
     endpoint

LEMMA BlueprintEnters == ASSUME NEW b, BlueprintSetup(b) PROVE blueprints' = blueprints
<1>1. ASSUME NEW p, Setup(p) PROVE blueprints' = blueprints
  BY <1>1 DEF Setup
<1>2. ASSUME NEW d, record(b, d) PROVE blueprints' = blueprints
  BY <1>1, <1>2 DEF record
<1>3. ASSUME NEW t, OnceFor(b, t) PROVE blueprints' = blueprints
  BY <1>2, <1>3 DEF OnceFor, record_once
<1> QED
  BY <1>1, <1>2, <1>3 DEF BlueprintSetup, before_app_request, after_app_request,
     teardown_app_request, app_context_processor, app_url_value_preprocessor,
     app_url_defaults, app_template_filter, app_template_test, app_template_global,
     app_errorhandler, route, record_raising, nest

LEMMA ChildAfterMerge ==
    ASSUME Typed, Doing("child") PROVE Top.at > MergeAt(Top)
<1>1. /\ Top \in Frames /\ Top.at \in DOMAIN Todo(Top) /\ Todo(Top)[Top.at].kind = "child"
  BY AtMerge
<1>2. PICK D, m, a, d : /\ D = own[Top.bp].deferred /\ m = MergeAt(Top) /\ a = Top.at
                        /\ d = Len(D)
  OBVIOUS
<1>3. /\ m \in Nat /\ d \in Nat /\ a \in Nat
      /\ \/ a < m /\ Todo(Top)[a] = StaticRule
         \/ a = m /\ Todo(Top)[a].kind = "merge"
         \/ a - m \in DOMAIN D /\ Todo(Top)[a] = D[a - m]
         \/ a = m + 1 + d /\ Todo(Top)[a].kind = "cli"
         \/ a > m + 1 + d /\ Todo(Top)[a] \in Children
  BY <1>1, <1>2, TodoAt DEF Frames
<1>4. \A i \in DOMAIN D : D[i].kind \notin {"merge", "cli", "child"}
  BY <1>1, <1>2, DeferredKinds
<1>5. StaticRule.kind = "rule"
  BY DEF StaticRule
<1>6. a > m + 1 + d
  BY <1>1, <1>2, <1>3, <1>4, <1>5
<1> QED
  BY ONLY <1>2, <1>3, <1>6

\* A registration that registers a child has merged its own functions.
LEMMA ChildAround ==
    ASSUME IInv, Doing("child")
    PROVE  Top.name \in Names /\ Around(Top.name)
<1>1. PICK outer : outer = Top.name
  OBVIOUS
<1>2. FrameOK(Top) /\ Top \in Frames
  BY AtMerge, TopFacts DEF IInv, Running
<1>3. PICK i \in DOMAIN blueprints : blueprints[i].name = outer /\ blueprints[i].bp = Top.bp
  BY <1>1, <1>2 DEF FrameOK
<1>4. Top.at > MergeAt(Top)
  BY ChildAfterMerge DEF IInv
<1>5. Entry(outer).bp = Top.bp /\ outer \in Names
  BY <1>3, EntryOf DEF IInv, Names
<1> QED
  BY <1>1, <1>2, <1>4, <1>5 DEF FrameOK, Around

LEMMA ChildEnters ==
    ASSUME IInv, RegisterChild PROVE blueprints' = blueprints \/ \E e : NewEntry(e)
<1>1. /\ stack # <<>> /\ Top \in Frames /\ Current \in Children
  BY AtMerge DEF RegisterChild, IInv
<1>2. PICK c, o, outer : c = Current.bp /\ o = Current.opts /\ outer = Top.name
  OBVIOUS
<1>3. c \in BPs /\ o \in Options /\ outer \in Seq(STRING)
  BY <1>1, <1>2 DEF Children, Frames
<1>4. PICK w : w = Within(Top, c, o)
  OBVIOUS
<1>5. w \in OptRecords
  BY <1>1, <1>3, <1>4, WithinTyped
<1>6. Around(outer)
  BY <1>2, ChildAround DEF RegisterChild
<1>7. Begin(c, w, o, outer, Advanced)
  BY <1>2, <1>4 DEF RegisterChild
<1> QED
  BY <1>3, <1>5, <1>6, <1>7, BeginEnters

LEMMA Enters ==
    ASSUME IInv, [Next]_vars PROVE blueprints' = blueprints \/ \E e : NewEntry(e)
<1>1. CASE AppSetup
  <2>1. ASSUME NEW t, AddHook(App, t) PROVE blueprints' = blueprints
    BY <2>1 DEF AddHook, Setup
  <2>2. ASSUME NEW e \in EndpointNames, add_url_rule(e) PROVE blueprints' = blueprints
    BY <2>2 DEF add_url_rule, Setup
  <2>3. ASSUME NEW b \in BPs, NEW opts \in Options, register_blueprint(b, opts)
        PROVE  blueprints' = blueprints \/ \E e : NewEntry(e)
    <3>1. /\ opts \in OptRecords /\ Root \in Seq(STRING) /\ Around(Root)
          /\ Begin(b, opts, opts, Root, <<>>)
      BY <2>3, OptionsTyped DEF Root, Around, register_blueprint
    <3> QED
      BY <3>1, BeginEnters
  <2> QED
    BY <1>1, <2>1, <2>2, <2>3 DEF AppSetup, teardown_appcontext, shell_context_processor,
       template_filter, template_test, template_global
<1>2. CASE Registration
  <2>1. CASE RegisterChild
    BY <2>1, ChildEnters
  <2>2. CASE ~RegisterChild
    BY <1>2, <2>2 DEF Registration, _merge_blueprint_funcs, DeferredRule, DeferredOnce,
       DeferredHandler, DeferredRaise, RegisterCommands, RegisterReturns
  <2> QED
    BY <2>1, <2>2
<1>3. CASE _check_setup_finished \/ FirstRequest \/ ServerReset \/ UNCHANGED vars
  BY <1>3 DEF _check_setup_finished, FirstRequest, ServerReset, vars
<1> QED
  BY <1>1, <1>2, <1>3, SetupEnters, BlueprintEnters DEF Next

\* What a new entry leaves of the others.
LEMMA Entered ==
    ASSUME IInv, NEW e, NewEntry(e)
    PROVE  /\ Names' = Names \cup {e.name}
           /\ \A i \in DOMAIN blueprints : i \in DOMAIN blueprints' /\ blueprints'[i] = blueprints[i]
           /\ \E i \in DOMAIN blueprints' : blueprints'[i] = e
<1>1. blueprints \in Seq(Entries) /\ e \in Entries /\ blueprints' = Append(blueprints, e)
  BY DEF IInv, Typed, NewEntry
<1>2. /\ Len(blueprints) \in Nat /\ DOMAIN blueprints = 1..Len(blueprints)
      /\ DOMAIN blueprints' = 1..(Len(blueprints) + 1)
      /\ \A i \in DOMAIN blueprints : blueprints'[i] = blueprints[i]
      /\ blueprints'[Len(blueprints) + 1] = e
  BY ONLY <1>1
<1>3. PICK l : l = Len(blueprints) + 1
  OBVIOUS
<1>4. l \in DOMAIN blueprints' /\ blueprints'[l] = e
  BY <1>2, <1>3
<1>5. \A i \in DOMAIN blueprints : i \in DOMAIN blueprints'
  BY <1>2
<1>6. \A i \in DOMAIN blueprints' : i \in DOMAIN blueprints \/ i = l
  BY <1>2, <1>3
<1>7. Names' = Names \cup {e.name}
  <2>1. Names' \subseteq Names \cup {e.name}
    BY <1>2, <1>4, <1>6 DEF Names
  <2>2. Names \subseteq Names'
    BY <1>2, <1>5 DEF Names
  <2>3. e.name \in Names'
    BY <1>4 DEF Names
  <2> QED
    BY <2>1, <2>2, <2>3
<1> QED
  BY <1>2, <1>4, <1>5, <1>7

\* A name keeps its entry.
LEMMA EntryStays ==
    ASSUME IInv, IInv', [Next]_vars, NEW n \in Names
    PROVE  n \in Names' /\ Entry(n)' = Entry(n)
<1>1. PICK i \in DOMAIN blueprints : blueprints[i].name = n
  BY DEF Names
<1>2. i \in DOMAIN blueprints' /\ blueprints'[i] = blueprints[i]
  BY Enters, Entered
<1>3. Entry(n) = blueprints[i]
  BY <1>1, EntryOf DEF IInv
<1>4. Entry(n)' = blueprints'[i]
  <2>1. PICK k : k = CHOOSE j \in DOMAIN blueprints' : blueprints'[j].name = n
    OBVIOUS
  <2>2. k \in DOMAIN blueprints' /\ blueprints'[k].name = n
    BY <2>1, <1>1, <1>2
  <2>3. k = i
    BY <2>2, <1>1, <1>2 DEF IInv, EntriesOK, Distinct
  <2> QED
    BY <2>1, <2>3 DEF Entry
<1> QED
  BY <1>1, <1>2, <1>3, <1>4 DEF Names

\* The blueprint around a nested one is registered, and so on to the outermost.
NamesNested == \A n \in Names : \A i \in 1..Len(n) : SubSeq(n, 1, i) \in Names

LEMMA Prefixes ==
    ASSUME NEW S, NEW s \in Seq(S), NEW x \in S
    PROVE  /\ Len(Append(s, x)) = Len(s) + 1 /\ Len(s) \in Nat
           /\ \A i \in 0..Len(s) : SubSeq(Append(s, x), 1, i) = SubSeq(s, 1, i)
           /\ SubSeq(Append(s, x), 1, Len(s) + 1) = Append(s, x)
           /\ SubSeq(s, 1, Len(s)) = s /\ SubSeq(s, 1, 0) = <<>>
<1>1. Len(Append(s, x)) = Len(s) + 1 /\ Len(s) \in Nat /\ Append(s, x) \in Seq(S)
  OBVIOUS
<1>2. \A i \in 0..Len(s) : SubSeq(Append(s, x), 1, i) = SubSeq(s, 1, i)
  OBVIOUS
<1>3. SubSeq(s, 1, Len(s)) = s /\ SubSeq(s, 1, 0) = <<>>
  OBVIOUS
<1>4. \A t \in Seq(S) : SubSeq(t, 1, Len(t)) = t
  OBVIOUS
<1> QED
  BY <1>1, <1>2, <1>3, <1>4

LEMMA NestedKept == IInv /\ NamesNested /\ [Next]_vars => NamesNested'
<1> SUFFICES ASSUME IInv, NamesNested, [Next]_vars PROVE NamesNested'
  OBVIOUS
<1>1. CASE blueprints' = blueprints
  BY <1>1 DEF NamesNested, Names
<1>2. ASSUME NEW e, NewEntry(e) PROVE NamesNested'
  <2>1. PICK outer \in Seq(STRING), x \in STRING : Around(outer) /\ e.name = Append(outer, x)
    BY <1>2 DEF NewEntry
  <2>2. Names' = Names \cup {e.name}
    BY <1>2, Entered
  <2>3. /\ Len(e.name) = Len(outer) + 1 /\ Len(outer) \in Nat
        /\ \A i \in 0..Len(outer) : SubSeq(e.name, 1, i) = SubSeq(outer, 1, i)
        /\ SubSeq(e.name, 1, Len(outer) + 1) = e.name
    BY <2>1, Prefixes
  <2>4. ASSUME NEW i \in 1..Len(e.name) PROVE SubSeq(e.name, 1, i) \in Names'
    <3>1. i = Len(outer) + 1 \/ i \in 1..Len(outer)
      BY <2>3
    <3>2. CASE i \in 1..Len(outer)
      <4>1. outer \in Names
        <5>1. Len(Root) = 0
          BY DEF Root
        <5>2. outer # Root
          BY <5>1, <3>2
        <5> QED
          BY <5>2, <2>1 DEF Around
      <4>2. i \in 0..Len(outer)
        BY <3>2
      <4> QED
        BY <4>1, <4>2, <3>2, <2>2, <2>3 DEF NamesNested
    <3>3. CASE i = Len(outer) + 1
      BY <3>3, <2>2, <2>3
    <3> QED
      BY <3>1, <3>2, <3>3
  <2> QED
    BY <2>2, <2>4 DEF NamesNested
<1> QED
  BY <1>1, <1>2, Enters

LEMMA Nested == Spec => []NamesNested
<1>1. Init => NamesNested
  <2>1. Init => Names = {}
    BY DEF Init, Names
  <2> QED
    BY <2>1 DEF NamesNested
<1> QED
  BY <1>1, NestedKept, Invariant, PTL DEF Spec

\* Every name that was replayed has an entry.
LEMMA ReplayedNamed == ASSUME IInv PROVE Replayed \subseteq Names
<1>1. ASSUME NEW n \in Replayed PROVE n \in Names
  <2>1. CASE n \in done
    BY <2>1 DEF IInv, DoneOK
  <2>2. CASE n \notin done
    <3>1. PICK k \in DOMAIN stack : stack[k].name = n
      BY <2>2 DEF Replayed
    <3> QED
      BY <3>1 DEF IInv, Running, FrameOK, Names
  <2> QED
    BY <2>1, <2>2
<1> QED
  BY <1>1

-----------------------------------------------------------------------------
(* The handler of an exception. *)

\* The levels of a name, from the blueprint itself out to the application.
LEMMA OutwardsAt ==
    ASSUME NEW n \in Seq(STRING)
    PROVE  /\ Len(n) \in Nat
           /\ DOMAIN Outwards(Endpoint(n)) = 1..(Len(n) + 1)
           /\ \A i \in 1..(Len(n) + 1) : Outwards(Endpoint(n))[i] = SubSeq(n, 1, Len(n) + 1 - i)
<1>1. PICK l, e : l = Len(n) /\ e = Append(n, "x")
  OBVIOUS
<1>2. l \in Nat /\ Len(e) = l + 1 /\ SubSeq(e, 1, l) = SubSeq(n, 1, l) /\ SubSeq(n, 1, l) = n
      /\ SubSeq(n, 1, 0) = <<>>
  BY <1>1, Prefixes
<1>3. (l + 1) - 1 = l
  BY <1>2
<1>4. blueprint(e) = n
  BY <1>2, <1>3 DEF blueprint
<1>5. PICK q : q = [i \in 1..l |-> SubSeq(n, 1, l + 1 - i)]
  OBVIOUS
<1>6. Outwards(Endpoint(n)) = Append(q, Root)
  BY <1>1, <1>4, <1>5 DEF Outwards, Endpoint, request_blueprints, _split_blueprint_path
<1>7. q \in Seq(Seq(STRING)) /\ Len(q) = l
  <2>1. ASSUME NEW i \in 1..l PROVE SubSeq(n, 1, l + 1 - i) \in Seq(STRING)
    <3>1. l + 1 - i \in 1..l
      BY <1>2
    <3> QED
      BY <3>1, <1>1
  <2> QED
    BY <2>1, <1>2, <1>5
<1>8. Root \in Seq(STRING) /\ Root = SubSeq(n, 1, 0)
  BY <1>2 DEF Root
<1>9. PICK s : s = Append(q, Root)
  OBVIOUS
<1>10. /\ DOMAIN s = 1..(l + 1) /\ s[l + 1] = Root
       /\ \A i \in 1..l : s[i] = q[i]
  BY <1>2, <1>7, <1>8, <1>9
<1>11. ASSUME NEW i \in 1..(l + 1) PROVE s[i] = SubSeq(n, 1, l + 1 - i)
  <2>1. CASE i = l + 1
    <3>1. l + 1 - i = 0
      BY <2>1, <1>2
    <3> QED
      BY <2>1, <3>1, <1>8, <1>10
  <2>2. CASE i \in 1..l
    BY <2>2, <1>5, <1>10
  <2>3. i = l + 1 \/ i \in 1..l
    BY <1>2
  <2> QED
    BY <2>1, <2>2, <2>3
<1> QED
  BY <1>1, <1>2, <1>6, <1>9, <1>10, <1>11

\* A set of natural numbers has a least one.
LEMMA Least ==
    ASSUME NEW A \in SUBSET Nat, NEW x \in A
    PROVE  \E m \in A : \A y \in A : m <= y
<1> SUFFICES ASSUME \A m \in A : \E y \in A : ~(m <= y) PROVE FALSE
  OBVIOUS
<1> DEFINE S == {n \in Nat : \A i \in 0..n : i \notin A}
<1>1. 0 \in S
  <2>1. 0 \notin A
    BY DEF S
  <2>2. 0..0 = {0}
    OBVIOUS
  <2> QED
    BY <2>1, <2>2
<1>2. ASSUME NEW n \in Nat, n \in S PROVE n + 1 \in S
  <2>1. \A i \in 0..n : i \notin A
    BY <1>2
  <2>2. n + 1 \notin A
    <3>1. SUFFICES ASSUME n + 1 \in A PROVE FALSE
      OBVIOUS
    <3>2. PICK y \in A : ~(n + 1 <= y)
      BY <3>1
    <3>3. y \in 0..n
      BY <3>2
    <3> QED
      BY <3>3, <2>1
  <2>3. \A i \in 0..(n + 1) : i \in 0..n \/ i = n + 1
    OBVIOUS
  <2> QED
    BY <2>1, <2>2, <2>3
<1> HIDE DEF S
<1>3. x \in S
  BY <1>1, <1>2, SetInduction
<1> QED
  BY <1>3 DEF S

\* The first of some triples in the order of three nested loops.
LEMMA FirstTriple ==
    ASSUME NEW H \in SUBSET (Nat \X Nat \X Nat), NEW x \in H
    PROVE  \E h \in H : \A q \in H : h = q \/ Sooner(h, q)
<1>1. \A q \in H : q[1] \in Nat /\ q[2] \in Nat /\ q[3] \in Nat /\ q = <<q[1], q[2], q[3]>>
  OBVIOUS
<1>2. PICK A : A = {q[1] : q \in H}
  OBVIOUS
<1>3. PICK a \in A : \A y \in A : a <= y
  <2>1. x[1] \in A /\ A \in SUBSET Nat
    BY <1>1, <1>2
  <2> QED
    BY <2>1, Least
<1>4. PICK B : B = {q[2] : q \in {p \in H : p[1] = a}}
  OBVIOUS
<1>5. PICK b \in B : \A y \in B : b <= y
  <2>1. PICK p \in H : p[1] = a
    BY <1>2, <1>3
  <2>2. p[2] \in B /\ B \in SUBSET Nat
    BY <1>1, <1>4, <2>1
  <2> QED
    BY <2>2, Least
<1>6. PICK C : C = {q[3] : q \in {p \in H : p[1] = a /\ p[2] = b}}
  OBVIOUS
<1>7. PICK c \in C : \A y \in C : c <= y
  <2>1. PICK p \in H : p[1] = a /\ p[2] = b
    BY <1>4, <1>5
  <2>2. p[3] \in C /\ C \in SUBSET Nat
    BY <1>1, <1>6, <2>1
  <2> QED
    BY <2>2, Least
<1>8. PICK h \in H : h[1] = a /\ h[2] = b /\ h[3] = c
  BY <1>6, <1>7
<1>9. ASSUME NEW q \in H PROVE h = q \/ Sooner(h, q)
  <2>1. a <= q[1] /\ a \in Nat /\ b \in Nat /\ c \in Nat
    BY <1>1, <1>2, <1>3, <1>8
  <2>2. q[1] = a => b <= q[2]
    BY <1>4, <1>5
  <2>3. q[1] = a /\ q[2] = b => c <= q[3]
    BY <1>6, <1>7
  <2>4. h = <<a, b, c>> /\ q = <<q[1], q[2], q[3]>>
    BY <1>1, <1>8
  <2>5. q[1] \in Nat /\ q[2] \in Nat /\ q[3] \in Nat
    BY <1>1
  <2>6. \/ a < q[1]
        \/ a = q[1] /\ b < q[2]
        \/ a = q[1] /\ b = q[2] /\ c < q[3]
        \/ a = q[1] /\ b = q[2] /\ c = q[3]
    BY ONLY <2>1, <2>2, <2>3, <2>5
  <2> QED
    BY <2>4, <2>6, <1>8 DEF Sooner, Less, Same
<1> QED
  BY <1>9

LEMMA CodesOf ==
    ASSUME NEW e
    PROVE  /\ DOMAIN Codes(e) \subseteq Nat \ {0} /\ 1 \in DOMAIN Codes(e) /\ Codes(e)[1] = Code[e]
           /\ \E c \in DOMAIN Codes(e) : Codes(e)[c] = None
           /\ \A c \in DOMAIN Codes(e) : Codes(e)[c] \in {Code[e], None}
<1>1. CASE Code[e] = None
  <2>1. Codes(e) = <<None>>
    BY <1>1 DEF Codes
  <2>2. DOMAIN Codes(e) = {1} /\ Codes(e)[1] = None
    BY <2>1
  <2> QED
    BY <2>2, <1>1
<1>2. CASE Code[e] # None
  <2>1. Codes(e) = <<Code[e], None>>
    BY <1>2 DEF Codes
  <2>2. PICK d : d = Code[e]
    OBVIOUS
  <2>3. DOMAIN Codes(e) = {1, 2} /\ Codes(e)[1] = d /\ Codes(e)[2] = None
    BY <2>1, <2>2
  <2>4. 2 \in DOMAIN Codes(e)
    BY <2>3
  <2>5. \A c \in DOMAIN Codes(e) : c = 1 \/ c = 2
    BY <2>3
  <2>6. \A c \in DOMAIN Codes(e) : Codes(e)[c] \in {d, None}
    BY <2>3, <2>5
  <2>7. DOMAIN Codes(e) \subseteq Nat \ {0} /\ 1 \in DOMAIN Codes(e)
    BY <2>3
  <2> QED
    BY <2>2, <2>3, <2>4, <2>6, <2>7
<1> QED
  BY <1>1, <1>2

\* The loops find the first of the triples of a code, a level and a class for
\* which there is a handler.
LEMMA Found ==
    ASSUME NEW e \in DOMAIN Mro, NEW n \in Seq(STRING), NEW O, O = Outwards(Endpoint(n))
    PROVE  \/ /\ \A c \in DOMAIN Codes(e), i \in DOMAIN O : Registered(e, Codes(e)[c], O[i]) = {}
              /\ _find_error_handler(e, Endpoint(n)) = <<>>
           \/ \E c \in DOMAIN Codes(e), i \in DOMAIN O :
              \E j \in Registered(e, Codes(e)[c], O[i]) :
                 /\ _find_error_handler(e, Endpoint(n)) = <<O[i], Mro[e][j]>>
                 /\ \A d \in DOMAIN Codes(e), k \in DOMAIN O :
                    \A m \in Registered(e, Codes(e)[d], O[k]) :
                       c <= d /\ (c = d => i <= k) /\ (c = d /\ i = k => j <= m)
<1>1. PICK M, H, cs : M = Mro[e] /\ H = Hits(e, Endpoint(n)) /\ cs = Codes(e)
  OBVIOUS
<1>2. DOMAIN M \subseteq Nat /\ DOMAIN O \subseteq Nat /\ DOMAIN cs \subseteq Nat
  <2>1. M \in Seq(DOMAIN Mro)
    BY <1>1, MroAssumption
  <2> QED
    BY <2>1, <1>1, OutwardsAt, CodesOf
<1>3. H = {p \in (DOMAIN cs) \X (DOMAIN O) \X (DOMAIN M) :
              M[p[3]] \in DOMAIN At(handlers, O[p[2]]) /\ Code[M[p[3]]] = cs[p[1]]}
  BY <1>1 DEF Hits
<1>4. ASSUME NEW c \in DOMAIN cs, NEW i \in DOMAIN O, NEW k
      PROVE  k \in Registered(e, cs[c], O[i]) <=> <<c, i, k>> \in H
  BY <1>1, <1>3 DEF Registered
<1>5. ASSUME NEW p \in H
      PROVE  /\ p[1] \in DOMAIN cs /\ p[2] \in DOMAIN O /\ p[3] \in DOMAIN M
             /\ p = <<p[1], p[2], p[3]>>
  BY <1>3
<1>6. H \in SUBSET (Nat \X Nat \X Nat)
  BY <1>2, <1>3
<1>7. PICK h : h = CHOOSE p \in H : \A q \in H : p = q \/ Sooner(p, q)
  OBVIOUS
<1>8. _find_error_handler(e, Endpoint(n)) = IF H = {} THEN <<>> ELSE <<O[h[2]], M[h[3]]>>
  BY <1>1, <1>7 DEF _find_error_handler
<1>9. CASE H = {}
  BY <1>1, <1>4, <1>8, <1>9
<1>10. CASE H # {}
  <2>1. PICK x : x \in H
    BY <1>10
  <2>2. \E p \in H : \A q \in H : p = q \/ Sooner(p, q)
    BY <1>6, <2>1, FirstTriple
  <2>3. h \in H /\ \A q \in H : h = q \/ Sooner(h, q)
    BY <1>7, <2>2
  <2>4. PICK c, i, j : c = h[1] /\ i = h[2] /\ j = h[3]
    OBVIOUS
  <2>5. c \in DOMAIN cs /\ i \in DOMAIN O /\ h = <<c, i, j>> /\ j \in DOMAIN M
    BY <1>5, <2>3, <2>4
  <2>6. j \in Registered(e, cs[c], O[i])
    BY <1>4, <2>3, <2>5
  <2>7. ASSUME NEW d \in DOMAIN cs, NEW k \in DOMAIN O, NEW m \in Registered(e, cs[d], O[k])
        PROVE  c <= d /\ (c = d => i <= k) /\ (c = d /\ i = k => j <= m)
    <3>1. PICK q : q = <<d, k, m>>
      OBVIOUS
    <3>2. q \in H /\ q[1] = d /\ q[2] = k /\ q[3] = m
      BY <3>1, <1>4, <2>7
    <3>3. m \in DOMAIN M
      BY <3>2, <1>5
    <3>4. c \in Nat /\ i \in Nat /\ j \in Nat /\ d \in Nat /\ k \in Nat /\ m \in Nat
      BY <1>2, <2>5, <3>3
    <3>5. CASE h = q
      <4>1. c = d /\ i = k /\ j = m
        BY <3>2, <3>5, <2>4
      <4> QED
        BY <4>1, <3>4
    <3>6. CASE Sooner(h, q)
      <4>1. \/ c < d
            \/ c = d /\ i < k
            \/ c = d /\ i = k /\ j < m
        BY <3>2, <3>6, <2>4 DEF Sooner, Less, Same
      <4> QED
        BY ONLY <4>1, <3>4
    <3> QED
      BY <3>2, <3>5, <3>6, <2>3
  <2>8. _find_error_handler(e, Endpoint(n)) = <<O[i], M[j]>>
    BY <1>8, <1>10, <2>4
  <2> QED
    BY <1>1, <2>5, <2>6, <2>7, <2>8
<1> QED
  BY <1>9, <1>10

LEMMA LevelsAt ==
    ASSUME NEW n \in Seq(STRING), NEW O, O = Outwards(Endpoint(n))
    PROVE  /\ LevelsOf(n) = {O[i] : i \in DOMAIN O} /\ DOMAIN O \subseteq Nat
           /\ \A i, k \in DOMAIN O : Len(O[k]) <= Len(O[i]) <=> i <= k
<1>1. PICK l : l = Len(n)
  OBVIOUS
<1>2. /\ l \in Nat /\ DOMAIN O = 1..(l + 1)
      /\ \A i \in 1..(l + 1) : O[i] = SubSeq(n, 1, l + 1 - i)
  BY <1>1, OutwardsAt
<1>3. ASSUME NEW x \in 0..l PROVE \E i \in DOMAIN O : SubSeq(n, 1, x) = O[i]
  <2>1. PICK i : i = l + 1 - x
    OBVIOUS
  <2>2. i \in 1..(l + 1) /\ l + 1 - i = x
    BY <1>2, <2>1
  <2> QED
    BY <2>2, <1>2
<1>4. ASSUME NEW i \in DOMAIN O PROVE O[i] \in LevelsOf(n) /\ Len(O[i]) = l + 1 - i
  <2>1. PICK x : x = l + 1 - i
    OBVIOUS
  <2>2. x \in 0..l /\ O[i] = SubSeq(n, 1, x)
    <3>1. i \in 1..(l + 1)
      BY <1>2
    <3>2. x \in 0..l
      BY ONLY <3>1, <2>1, <1>2
    <3> QED
      BY <3>1, <3>2, <2>1, <1>2
  <2>3. Len(SubSeq(n, 1, x)) = x
    BY <2>2, <1>1
  <2> QED
    BY <1>1, <2>1, <2>2, <2>3 DEF LevelsOf
<1>5. LevelsOf(n) = {O[i] : i \in DOMAIN O}
  BY <1>1, <1>3, <1>4 DEF LevelsOf
<1>6. \A i, k \in DOMAIN O : l + 1 - k <= l + 1 - i <=> i <= k
  BY ONLY <1>2
<1>7. ASSUME NEW i \in DOMAIN O, NEW k \in DOMAIN O PROVE Len(O[k]) <= Len(O[i]) <=> i <= k
  BY <1>4, <1>6
<1>8. DOMAIN O \subseteq Nat
  BY <1>2
<1> QED
  BY <1>5, <1>7, <1>8

LEMMA Promised ==
    ASSUME IInv
    PROVE  HandlerAsPromised
<1> SUFFICES ASSUME NEW n \in Replayed \cup {Root}, NEW e \in DOMAIN Mro,
                    NEW code, code = IF Somewhere(e, Code[e], n) THEN Code[e] ELSE None,
                    NEW found, found = _find_error_handler(e, Endpoint(n)),
                    NEW there, there = Registered(e, code, Nearest(e, code, n))
             PROVE  IF Somewhere(e, code, n)
                    THEN /\ found[1] = Nearest(e, code, n)
                         /\ \E j \in there : found[2] = Mro[e][j] /\ \A k \in there : j <= k
                    ELSE found = <<>>
  BY DEF HandlerAsPromised
<1>1. n \in Seq(STRING)
  <2>1. CASE n = Root
    BY <2>1 DEF Root
  <2>2. CASE n \in Replayed
    <3>1. PICK i \in DOMAIN blueprints : n = blueprints[i].name
      BY <2>2, ReplayedNamed DEF Names
    <3> QED
      BY <3>1, EntryTyped DEF IInv, Entries
  <2> QED
    BY <2>1, <2>2
<1>2. PICK O, cs : O = Outwards(Endpoint(n)) /\ cs = Codes(e)
  OBVIOUS
<1>3. /\ LevelsOf(n) = {O[i] : i \in DOMAIN O} /\ DOMAIN O \subseteq Nat
      /\ \A i, k \in DOMAIN O : Len(O[k]) <= Len(O[i]) <=> i <= k
  BY <1>1, <1>2, LevelsAt
<1>4. /\ DOMAIN cs \subseteq Nat \ {0} /\ 1 \in DOMAIN cs /\ cs[1] = Code[e]
      /\ \E c \in DOMAIN cs : cs[c] = None
      /\ \A c \in DOMAIN cs : cs[c] \in {Code[e], None}
  BY <1>2, CodesOf
<1>5. \A x : Somewhere(e, x, n) <=> \E i \in DOMAIN O : Registered(e, x, O[i]) # {}
  BY <1>3 DEF Somewhere
<1>6. PICK w \in DOMAIN cs : cs[w] = code
  BY <1>4
<1>7. CASE /\ \A c \in DOMAIN cs, i \in DOMAIN O : Registered(e, cs[c], O[i]) = {}
           /\ found = <<>>
  <2>1. ~Somewhere(e, code, n)
    BY <1>5, <1>6, <1>7
  <2> QED
    BY <2>1, <1>7
<1>8. ASSUME NEW c \in DOMAIN cs, NEW i \in DOMAIN O, NEW j \in Registered(e, cs[c], O[i]),
             found = <<O[i], Mro[e][j]>>,
             \A d \in DOMAIN cs, k \in DOMAIN O : \A m \in Registered(e, cs[d], O[k]) :
                c <= d /\ (c = d => i <= k) /\ (c = d /\ i = k => j <= m)
      PROVE  /\ Somewhere(e, code, n) /\ found[1] = Nearest(e, code, n)
             /\ \E y \in there : found[2] = Mro[e][y] /\ \A k \in there : y <= k
  <2>1. Somewhere(e, cs[c], n)
    BY <1>5, <1>8
  <2>2. cs[c] = code
    <3>1. CASE Somewhere(e, Code[e], n)
      <4>1. PICK k \in DOMAIN O : Registered(e, Code[e], O[k]) # {}
        BY <3>1, <1>5
      <4>2. c <= 1
        BY <4>1, <1>4, <1>8
      <4>3. c \in Nat \ {0}
        BY <1>4
      <4>4. c = 1
        BY ONLY <4>2, <4>3
      <4> QED
        BY <4>4, <3>1, <1>4
    <3>2. CASE ~Somewhere(e, Code[e], n)
      BY <3>2, <2>1, <1>4
    <3> QED
      BY <3>1, <3>2
  <2>3. ASSUME NEW k \in DOMAIN O, Registered(e, code, O[k]) # {} PROVE i <= k
    BY <2>2, <2>3, <1>8
  <2>4. PICK l : l = O[i]
    OBVIOUS
  <2>5. l \in LevelsOf(n) /\ Registered(e, code, l) # {}
    BY <1>3, <1>8, <2>2, <2>4
  <2>6. ASSUME NEW m \in LevelsOf(n), Registered(e, code, m) # {} PROVE Len(m) <= Len(l)
    <3>1. PICK k \in DOMAIN O : m = O[k]
      BY <1>3
    <3> QED
      BY <3>1, <2>3, <2>4, <2>6, <1>3
  <2>7. ASSUME NEW m \in LevelsOf(n), Registered(e, code, m) # {}, Len(l) <= Len(m)
        PROVE  m = l
    <3>1. PICK k \in DOMAIN O : m = O[k]
      BY <1>3
    <3>2. k <= i /\ i <= k /\ i \in Nat /\ k \in Nat
      BY <3>1, <2>3, <2>4, <2>7, <1>3
    <3>3. k = i
      BY ONLY <3>2
    <3> QED
      BY <3>1, <3>3, <2>4
  <2>8. Nearest(e, code, n) = l
    BY <2>5, <2>6, <2>7 DEF Nearest
  <2>9. there = Registered(e, code, l)
    BY <2>8
  <2>10. j \in there /\ \A k \in there : j <= k
    BY <2>2, <2>4, <2>9, <1>8
  <2>11. found[1] = l /\ found[2] = Mro[e][j]
    BY <1>8, <2>4
  <2> QED
    BY <2>2, <2>1, <2>8, <2>10, <2>11
<1> QED
  BY <1>1, <1>2, <1>7, <1>8, Found

\* The handler found for any exception, at any level of nesting, is the one for
\* its code before one for a class, then the nearest, then the most specific.
THEOREM HandlersPromised == Spec => []HandlerAsPromised
<1> QED
  BY Invariant, Promised, PTL

-----------------------------------------------------------------------------
(* Sequences of sequences. *)

LEMMA Equal ==
    ASSUME NEW S, NEW s \in Seq(S), NEW t \in Seq(S), Len(s) = Len(t),
           \A i \in 1..Len(s) : s[i] = t[i]
    PROVE  s = t
OBVIOUS

LEMMA JoinEmpty == ASSUME NEW S, NEW s \in Seq(S) PROVE s \o <<>> = s /\ <<>> \o s = s
OBVIOUS

LEMMA JoinAssoc ==
    ASSUME NEW S, NEW a \in Seq(S), NEW b \in Seq(S), NEW c \in Seq(S)
    PROVE  (a \o b) \o c = a \o (b \o c)
<1>1. PICK ab, bc : ab = Join(a, b) /\ bc = Join(b, c)
  OBVIOUS
<1>2. PICK l, r : l = Join(ab, c) /\ r = Join(a, bc)
  OBVIOUS
<1>3. PICK i, j, k : i = Len(a) /\ j = Len(b) /\ k = Len(c)
  OBVIOUS
<1>4. i \in Nat /\ j \in Nat /\ k \in Nat
  BY <1>3
<1>5. /\ ab \in Seq(S) /\ Len(ab) = i + j
      /\ \A x \in 1..i : ab[x] = a[x]
      /\ \A x \in (i + 1)..(i + j) : ab[x] = b[x - i]
  <2>1. /\ ab \in Seq(S) /\ Len(ab) = Len(a) + Len(b)
        /\ \A x \in 1..Len(a) : ab[x] = a[x]
        /\ \A x \in (Len(a) + 1)..Len(ab) : ab[x] = b[x - Len(a)]
    BY <1>1, Behind
  <2> QED
    BY <2>1, <1>3
<1>6. /\ bc \in Seq(S) /\ Len(bc) = j + k
      /\ \A x \in 1..j : bc[x] = b[x]
      /\ \A x \in (j + 1)..(j + k) : bc[x] = c[x - j]
  <2>1. /\ bc \in Seq(S) /\ Len(bc) = Len(b) + Len(c)
        /\ \A x \in 1..Len(b) : bc[x] = b[x]
        /\ \A x \in (Len(b) + 1)..Len(bc) : bc[x] = c[x - Len(b)]
    BY <1>1, Behind
  <2> QED
    BY <2>1, <1>3
<1>7. /\ l \in Seq(S) /\ Len(l) = (i + j) + k
      /\ \A x \in 1..(i + j) : l[x] = ab[x]
      /\ \A x \in (i + j + 1)..((i + j) + k) : l[x] = c[x - (i + j)]
  <2>1. /\ l \in Seq(S) /\ Len(l) = Len(ab) + Len(c)
        /\ \A x \in 1..Len(ab) : l[x] = ab[x]
        /\ \A x \in (Len(ab) + 1)..Len(l) : l[x] = c[x - Len(ab)]
    BY <1>2, <1>5, Behind
  <2>2. Len(ab) = i + j /\ Len(c) = k
    BY <1>3, <1>5
  <2> QED
    BY <2>1, <2>2
<1>8. /\ r \in Seq(S) /\ Len(r) = i + (j + k)
      /\ \A x \in 1..i : r[x] = a[x]
      /\ \A x \in (i + 1)..(i + (j + k)) : r[x] = bc[x - i]
  <2>1. /\ r \in Seq(S) /\ Len(r) = Len(a) + Len(bc)
        /\ \A x \in 1..Len(a) : r[x] = a[x]
        /\ \A x \in (Len(a) + 1)..Len(r) : r[x] = bc[x - Len(a)]
    BY <1>2, <1>6, Behind
  <2>2. Len(bc) = j + k /\ Len(a) = i
    BY <1>3, <1>6
  <2> QED
    BY <2>1, <2>2
<1>9. ASSUME NEW x \in 1..Len(l) PROVE l[x] = r[x]
  <2>1. \/ x \in 1..i /\ x \in 1..(i + j)
        \/ x \in (i + 1)..(i + j) /\ x \in 1..(i + j) /\ x \in (i + 1)..(i + (j + k))
           /\ x - i \in 1..j
        \/ x \in (i + j + 1)..((i + j) + k) /\ x \in (i + 1)..(i + (j + k))
           /\ x - i \in (j + 1)..(j + k) /\ x - (i + j) = (x - i) - j
    BY ONLY <1>4, <1>7, x \in 1..Len(l)
  <2>2. CASE x \in 1..i /\ x \in 1..(i + j)
    BY <2>2, <1>5, <1>7, <1>8
  <2>3. CASE x \in (i + 1)..(i + j) /\ x \in 1..(i + j) /\ x \in (i + 1)..(i + (j + k))
             /\ x - i \in 1..j
    BY <2>3, <1>5, <1>6, <1>7, <1>8
  <2>4. CASE x \in (i + j + 1)..((i + j) + k) /\ x \in (i + 1)..(i + (j + k))
             /\ x - i \in (j + 1)..(j + k) /\ x - (i + j) = (x - i) - j
    BY <2>4, <1>6, <1>7, <1>8
  <2> QED
    BY <2>1, <2>2, <2>3, <2>4
<1>10. Len(l) = Len(r)
  BY ONLY <1>4, <1>7, <1>8
<1>11. l = r
  BY <1>7, <1>8, <1>9, <1>10, Equal
<1> QED
  BY <1>1, <1>2, <1>11 DEF Join

Folded(f, ss) == f[0] = <<>> /\ \A i \in 1..Len(ss) : f[i] = f[i - 1] \o ss[i]

\* The recursive function of Concat exists, with the values the recursion gives it.
LEMMA ConcatFolds ==
    ASSUME NEW S, NEW ss \in Seq(Seq(S))
    PROVE  \E f \in [0..Len(ss) -> Seq(S)] : Folded(f, ss) /\ Concat(ss) = f[Len(ss)]
<1>1. PICK n, T : n = Len(ss) /\ T = Seq(S)
  OBVIOUS
<1>2. n \in Nat /\ <<>> \in T /\ \A i \in 1..n : ss[i] \in T
  BY <1>1
<1> DEFINE G == [i \in 1..n |-> [x \in T |-> x \o ss[i]]]
<1>3. G \in [1..n -> [T -> T]]
  BY <1>1, <1>2
<1>4. PICK h \in [0..n -> T] : Iterate(h, n, <<>>, G)
  <2> HIDE DEF G
  <2> QED
    BY <1>2, <1>3, Iterates
<1>5. h[0] = <<>> /\ \A i \in 1..n : h[i] = h[i - 1] \o ss[i]
  <2>1. \A i \in 1..n : i - 1 \in 0..n /\ h[i - 1] \in T
    BY <1>2
  <2> QED
    BY <1>4, <2>1 DEF Iterate
<1> HIDE DEF G
<1> DEFINE R(f) == [i \in 0..n |-> IF i = 0 THEN <<>> ELSE f[i - 1] \o ss[i]]
           g == CHOOSE f : f = R(f)
<1>6. h = R(h)
  <2>1. \A i \in 0..n : i = 0 \/ i \in 1..n
    BY <1>2
  <2>2. \A i \in 0..n : h[i] = IF i = 0 THEN <<>> ELSE h[i - 1] \o ss[i]
    BY <1>5, <2>1
  <2> QED
    BY <2>2
<1>7. g = R(g)
  <2> HIDE DEF R
  <2> QED
    BY <1>6
<1>8. Concat(ss) = g[n]
  BY <1>1 DEF Concat
<1> HIDE DEF g
<1>9. \A i \in 0..n : g[i] = IF i = 0 THEN <<>> ELSE g[i - 1] \o ss[i]
  BY <1>7
<1>10. 0 \in 0..n /\ \A i \in 1..n : i \in 0..n /\ i # 0
  BY <1>2
<1>11. g[0] = <<>> /\ \A i \in 1..n : g[i] = g[i - 1] \o ss[i]
  BY <1>9, <1>10
<1>12. \A i \in 0..n : g[i] = h[i]
  <2> DEFINE E == {i \in 0..n : g[i] = h[i]}
  <2>1. 0 \in E
    BY <1>5, <1>10, <1>11
  <2>2. \A i \in 1..n : i - 1 \in E => i \in E
    BY <1>5, <1>10, <1>11
  <2>3. \A i \in 0..n : i \in E
    <3> HIDE DEF E
    <3> QED
      BY <1>2, <2>1, <2>2, UpTo
  <2> QED
    BY <2>3
<1>13. n \in 0..n
  BY <1>2
<1>14. Folded(h, ss) /\ Concat(ss) = h[n]
  BY <1>1, <1>5, <1>8, <1>12, <1>13 DEF Folded
<1> QED
  BY <1>1, <1>14

LEMMA ConcatIs ==
    ASSUME NEW S, NEW ss \in Seq(Seq(S)), NEW f, Folded(f, ss)
    PROVE  Concat(ss) = f[Len(ss)] /\ Concat(ss) \in Seq(S)
<1>1. PICK g \in [0..Len(ss) -> Seq(S)] : Folded(g, ss) /\ Concat(ss) = g[Len(ss)]
  BY ConcatFolds
<1>2. PICK n : n = Len(ss) /\ n \in Nat
  OBVIOUS
<1> DEFINE E == {i \in 0..n : f[i] = g[i]}
<1>3. 0 \in E
  BY <1>1, <1>2 DEF Folded
<1>4. ASSUME NEW i \in 1..n, i - 1 \in E PROVE i \in E
  <2>1. i \in 0..n /\ f[i - 1] = g[i - 1]
    BY <1>2, <1>4
  <2>2. f[i] = f[i - 1] \o ss[i] /\ g[i] = g[i - 1] \o ss[i]
    BY <1>1, <1>2 DEF Folded
  <2> QED
    BY <2>1, <2>2
<1>5. \A i \in 0..n : i \in E
  <2> HIDE DEF E
  <2> QED
    BY <1>2, <1>3, <1>4, UpTo
<1>6. n \in 0..n
  BY <1>2
<1> QED
  BY <1>1, <1>2, <1>5, <1>6

LEMMA ConcatTyped ==
    ASSUME NEW S, NEW ss \in Seq(Seq(S)) PROVE Concat(ss) \in Seq(S)
BY ConcatFolds, ConcatIs

\* One more sequence behind the others.
LEMMA ConcatLast ==
    ASSUME NEW S, NEW ss \in Seq(Seq(S)), NEW s \in Seq(S)
    PROVE  Concat(Append(ss, s)) = Concat(ss) \o s
<1>1. PICK t, n : t = Append(ss, s) /\ n = Len(ss)
  OBVIOUS
<1>2. /\ n \in Nat /\ t \in Seq(Seq(S)) /\ Len(t) = n + 1 /\ t[n + 1] = s
      /\ \A i \in 1..n : t[i] = ss[i]
  BY <1>1
<1>3. PICK g \in [0..(n + 1) -> Seq(S)] : Folded(g, t) /\ Concat(t) = g[n + 1]
  BY <1>2, ConcatFolds
<1>4. \A i \in 1..n : i \in 1..(n + 1)
  BY <1>2
<1>5. Folded(g, ss)
  BY <1>1, <1>2, <1>3, <1>4 DEF Folded
<1>6. Concat(ss) = g[n]
  BY <1>1, <1>5, ConcatIs
<1>7. g[n + 1] = g[n] \o s
  <2>1. n + 1 \in 1..(n + 1) /\ (n + 1) - 1 = n
    BY <1>2
  <2> QED
    BY <2>1, <1>2, <1>3 DEF Folded
<1> QED
  BY <1>1, <1>3, <1>6, <1>7

\* One more sequence in front of the others.
LEMMA ConcatFirst ==
    ASSUME NEW S, NEW ss \in Seq(Seq(S)), NEW s \in Seq(S)
    PROVE  Concat(Front(s, ss)) = s \o Concat(ss)
<1>1. PICK t, n : t = Front(s, ss) /\ n = Len(ss)
  OBVIOUS
<1>2. /\ n \in Nat /\ t \in Seq(Seq(S)) /\ Len(t) = n + 1 /\ t[1] = s
      /\ \A i \in 2..(n + 1) : t[i] = ss[i - 1]
  <2>1. /\ t \in Seq(Seq(S)) /\ Len(t) = 1 + n /\ t[1] = s
        /\ \A i \in 2..Len(t) : t[i] = ss[i - 1]
    BY <1>1, InFront
  <2>2. n \in Nat
    BY <1>1
  <2>3. 1 + n = n + 1
    BY <2>2
  <2> QED
    BY <2>1, <2>2, <2>3
<1>3. PICK g \in [0..(n + 1) -> Seq(S)] : Folded(g, t) /\ Concat(t) = g[n + 1]
  BY <1>2, ConcatFolds
<1>4. PICK f \in [0..n -> Seq(S)] : Folded(f, ss) /\ Concat(ss) = f[n]
  BY <1>1, ConcatFolds
<1> DEFINE E == {i \in 0..n : g[i + 1] = s \o f[i]}
<1>5. 0 \in E
  <2>1. 1 \in 1..(n + 1) /\ 1 - 1 = 0 /\ 0 \in 0..n /\ 0 + 1 = 1
    BY <1>2
  <2>2. g[1] = g[0] \o s /\ g[0] = <<>> /\ f[0] = <<>>
    BY <1>2, <1>3, <1>4, <2>1 DEF Folded
  <2>3. g[1] = s /\ s \o f[0] = s
    BY <2>2, JoinEmpty
  <2> QED
    BY <2>1, <2>3
<1>6. ASSUME NEW i \in 1..n, i - 1 \in E PROVE i \in E
  <2>1. /\ i + 1 \in 1..(n + 1) /\ i + 1 \in 2..(n + 1) /\ (i + 1) - 1 = i /\ (i - 1) + 1 = i
        /\ i \in 0..n /\ i - 1 \in 0..n
    BY <1>2
  <2>2. g[i + 1] = g[i] \o ss[i]
    BY <1>2, <1>3, <2>1 DEF Folded
  <2>3. g[i] = s \o f[i - 1]
    BY <1>6, <2>1
  <2>4. f[i] = f[i - 1] \o ss[i]
    BY <1>1, <1>4 DEF Folded
  <2>5. PICK x, y : x = f[i - 1] /\ y = ss[i]
    OBVIOUS
  <2>6. x \in Seq(S) /\ y \in Seq(S)
    <3>1. x \in Seq(S)
      BY <1>4, <2>1, <2>5
    <3>2. PICK T : T = Seq(S)
      OBVIOUS
    <3>3. ss \in Seq(T) /\ i \in 1..Len(ss)
      BY <1>1, <1>6, <3>2
    <3>4. y \in T
      BY ONLY <3>3, <2>5
    <3> QED
      BY <3>1, <3>2, <3>4
  <2>7. (s \o x) \o y = s \o (x \o y)
    BY <2>6, JoinAssoc
  <2> QED
    BY <2>1, <2>2, <2>3, <2>4, <2>5, <2>7
<1>7. \A i \in 0..n : i \in E
  <2> HIDE DEF E
  <2> QED
    BY <1>2, <1>5, <1>6, UpTo
<1>8. n \in 0..n
  BY <1>2
<1> QED
  BY <1>1, <1>3, <1>4, <1>7, <1>8

LEMMA ConcatNone == Concat(<<>>) = <<>>
<1>1. <<>> \in Seq(Seq({})) /\ Len(<<>>) = 0
  OBVIOUS
<1>2. PICK f : Folded(f, <<>>) /\ Concat(<<>>) = f[Len(<<>>)]
  BY <1>1, ConcatFolds
<1> QED
  BY <1>1, <1>2 DEF Folded

-----------------------------------------------------------------------------
(* The functions of every level. *)

\* What a step leaves of what registered blueprints hold and defer.
Calm ==
    /\ \A b \in BPs : own[b].once =>
          /\ own'[b].hooks = own[b].hooks /\ own'[b].handlers = own[b].handlers
          /\ own'[b].deferred = own[b].deferred
    /\ SameBelow(hooks, hooks') /\ SameBelow(handlers, handlers')

LEMMA SetupCalm ==
    ASSUME IInv, NEW b \in BPs, Setup(b), NEW o, own' = [own EXCEPT ![b] = o],
           hooks' = hooks, handlers' = handlers
    PROVE  Calm
<1>1. ~own[b].once
  BY FocusAssumption DEF Setup, Open, BlueprintOpen
<1>2. \A c \in BPs : c # b => own'[c] = own[c]
  BY DEF IInv, Typed
<1> QED
  BY <1>1, <1>2, SameRefl DEF Calm

LEMMA SharedCalm == ASSUME IInv, NEW o \in Owners, SharedSetup(o) PROVE Calm
<1>1. ASSUME UNCHANGED <<own, hooks, handlers>> PROVE Calm
  BY <1>1, SameRefl DEF Calm
<1>2. CASE o = App
  <2>1. ASSUME NEW t, AddHook(o, t) PROVE Calm
    BY <1>2, <2>1, SameRefl, PutRoot DEF AddHook, Calm
  <2>2. ASSUME NEW c, register_error_handler(o, c) PROVE Calm
    BY <1>2, <2>2, SameRefl, PutRoot DEF register_error_handler, Calm
  <2>3. ASSUME NEW e, endpoint(o, e) PROVE Calm
    BY <1>1, <1>2, <2>3 DEF endpoint
  <2>4. CASE command(o)
    BY <1>1, <1>2, <2>4 DEF command
  <2> QED
    BY <2>1, <2>2, <2>3, <2>4 DEF SharedSetup, before_request, after_request, teardown_request,
       context_processor, url_value_preprocessor, url_defaults
<1>3. CASE o # App
  <2>1. o \in BPs
    BY <1>3 DEF Owners
  <2>2. ASSUME NEW t, AddHook(o, t) PROVE Calm
    <3>1. /\ Setup(o) /\ hooks' = hooks /\ handlers' = handlers
          /\ own' = [own EXCEPT ![o] = [own[o] EXCEPT !.hooks = Append(own[o].hooks, Func(o, FALSE))]]
      BY <1>3, <2>2 DEF AddHook
    <3> QED
      BY <2>1, <3>1, SetupCalm
  <2>3. ASSUME NEW c, register_error_handler(o, c) PROVE Calm
    <3>1. /\ Setup(o) /\ hooks' = hooks /\ handlers' = handlers
          /\ own' = [own EXCEPT ![o] =
                        [own[o] EXCEPT !.handlers = Put(own[o].handlers, c, Func(o, FALSE))]]
      BY <1>3, <2>3 DEF register_error_handler
    <3> QED
      BY <2>1, <3>1, SetupCalm
  <2>4. ASSUME NEW e, endpoint(o, e) PROVE Calm
    <3>1. PICK v : /\ Setup(o) /\ hooks' = hooks /\ handlers' = handlers
                   /\ own' = [own EXCEPT ![o] =
                                [own[o] EXCEPT !.views = Put(own[o].views, e, v)]]
      BY <1>3, <2>4 DEF endpoint
    <3> QED
      BY <2>1, <3>1, SetupCalm
  <2>5. CASE command(o)
    <3>1. /\ Setup(o) /\ hooks' = hooks /\ handlers' = handlers
          /\ own' = [own EXCEPT ![o] = [own[o] EXCEPT !.cli = Put(own[o].cli, <<"cmd">>, o)]]
      BY <1>3, <2>5 DEF command
    <3> QED
      BY <2>1, <3>1, SetupCalm
  <2> QED
    BY <2>2, <2>3, <2>4, <2>5 DEF SharedSetup, before_request, after_request, teardown_request,
       context_processor, url_value_preprocessor, url_defaults
<1> QED
  BY <1>2, <1>3

LEMMA BlueprintCalm == ASSUME IInv, NEW b \in BPs, BlueprintSetup(b) PROVE Calm
<1>1. ASSUME NEW d, record(b, d) PROVE Calm
  <2>1. /\ Setup(b) /\ hooks' = hooks /\ handlers' = handlers
        /\ own' = [own EXCEPT ![b] = [own[b] EXCEPT !.deferred = Append(own[b].deferred, d)]]
    BY <1>1 DEF record, tables
  <2> QED
    BY <2>1, SetupCalm
<1>2. ASSUME NEW t, OnceFor(b, t) PROVE Calm
  BY <1>1, <1>2 DEF OnceFor, record_once
<1>3. ASSUME NEW c, app_errorhandler(b, c) PROVE Calm
  BY <1>1, <1>3 DEF app_errorhandler
<1>4. ASSUME NEW e, route(b, e) PROVE Calm
  BY <1>1, <1>4 DEF route
<1>5. CASE record_raising(b)
  BY <1>1, <1>5 DEF record_raising
<1>6. ASSUME NEW c, NEW opts, nest(b, c, opts) PROVE Calm
  <2>1. PICK x : /\ Setup(b) /\ hooks' = hooks /\ handlers' = handlers
                 /\ own' = [own EXCEPT ![b] = [own[b] EXCEPT !.children = x]]
    BY <1>6 DEF nest, tables
  <2> QED
    BY <2>1, SetupCalm
<1> QED
  BY <1>2, <1>3, <1>4, <1>5, <1>6 DEF BlueprintSetup, before_app_request, after_app_request,
     teardown_app_request, app_context_processor, app_url_value_preprocessor,
     app_url_defaults, app_template_filter, app_template_test, app_template_global

LEMMA BeginCalm ==
    ASSUME IInv, NEW b \in BPs, NEW opts, NEW given, NEW outer, NEW over,
           Begin(b, opts, given, outer, over), hooks' = hooks, handlers' = handlers
    PROVE  Calm
<1>1. own' = own \/ own' = [own EXCEPT ![b].once = TRUE]
  BY DEF Begin
<1>2. \A c \in BPs : /\ own'[c].hooks = own[c].hooks /\ own'[c].handlers = own[c].handlers
                     /\ own'[c].deferred = own[c].deferred
  <2>1. CASE own' = own
    BY <2>1
  <2>2. CASE own' = [own EXCEPT ![b].once = TRUE]
    <3>1. DOMAIN own = BPs /\ DOMAIN own[b] = OwnFields
      BY DEF IInv, Typed, OwnRecord
    <3>2. own' = [own EXCEPT ![b] = [own[b] EXCEPT !.once = TRUE]]
      BY <2>2
    <3>3. \A c \in BPs : own'[c] = IF c = b THEN [own[b] EXCEPT !.once = TRUE] ELSE own[c]
      BY <3>1, <3>2
    <3>4. PICK x : x = own[b]
      OBVIOUS
    <3>5. /\ [x EXCEPT !.once = TRUE].hooks = x.hooks
          /\ [x EXCEPT !.once = TRUE].handlers = x.handlers
          /\ [x EXCEPT !.once = TRUE].deferred = x.deferred
      BY <3>1, <3>4 DEF OwnFields
    <3> QED
      BY <3>3, <3>4, <3>5
  <2> QED
    BY <1>1, <2>1, <2>2
<1> QED
  BY <1>2, SameRefl DEF Calm

LEMMA Calms == ASSUME IInv, [Next]_vars, ~_merge_blueprint_funcs PROVE Calm
<1>1. ASSUME UNCHANGED <<own, hooks, handlers>> PROVE Calm
  BY <1>1, SameRefl DEF Calm
<1>2. CASE AppSetup
  <2>1. ASSUME NEW t, AddHook(App, t) PROVE Calm
    BY <2>1, SameRefl, PutRoot DEF AddHook, Calm
  <2>2. ASSUME NEW e, add_url_rule(e) PROVE Calm
    BY <1>1, <2>2 DEF add_url_rule
  <2>3. ASSUME NEW b \in BPs, NEW opts, register_blueprint(b, opts) PROVE Calm
    <3>1. Begin(b, opts, opts, Root, <<>>) /\ hooks' = hooks /\ handlers' = handlers
      BY <2>3 DEF register_blueprint, tables
    <3> QED
      BY <3>1, BeginCalm
  <2> QED
    BY <1>2, <2>1, <2>2, <2>3 DEF AppSetup, teardown_appcontext, shell_context_processor,
       template_filter, template_test, template_global
<1>3. CASE Registration
  <2>1. CASE RegisterChild
    <3>1. PICK b, opts, given, outer, over :
             /\ Begin(b, opts, given, outer, over) /\ b = Current.bp
             /\ hooks' = hooks /\ handlers' = handlers
      BY <2>1 DEF RegisterChild, tables
    <3>2. b \in BPs
      BY <2>1, <3>1, AtMerge DEF RegisterChild, IInv, Children
    <3> QED
      BY <3>1, <3>2, BeginCalm
  <2>2. CASE DeferredRule \/ DeferredRaise \/ RegisterCommands \/ RegisterReturns
    BY <1>1, <2>2 DEF DeferredRule, DeferredRaise, RegisterCommands, RegisterReturns, tables
  <2>3. CASE DeferredOnce
    <3>1. /\ own' = own /\ handlers' = handlers
          /\ hooks' = hooks \/ hooks' = Put(hooks, Root, Stored(At(hooks, Root), Current.f))
      BY <2>3 DEF DeferredOnce
    <3> QED
      BY <3>1, SameRefl, PutRoot DEF Calm
  <2>4. CASE DeferredHandler
    <3>1. /\ own' = own /\ hooks' = hooks
          /\ \/ handlers' = handlers
             \/ handlers' = Put(handlers, Root, Put(At(handlers, Root), Current.class, Current.f))
      BY <2>4 DEF DeferredHandler
    <3> QED
      BY <3>1, SameRefl, PutRoot DEF Calm
  <2> QED
    BY <1>3, <2>1, <2>2, <2>3, <2>4 DEF Registration
<1>4. CASE _check_setup_finished \/ FirstRequest \/ ServerReset \/ UNCHANGED vars
  BY <1>1, <1>4 DEF _check_setup_finished, FirstRequest, ServerReset, vars, tables
<1> QED
  BY <1>2, <1>3, <1>4, SharedCalm, BlueprintCalm DEF Next

\* What was merged under a name stays what its blueprint holds.
LEMMA MatchesStay ==
    ASSUME IInv, IInv', [Next]_vars, NEW n \in Names, Matches(n, Entry(n).bp)
    PROVE  Matches(n, Entry(n).bp)'
<1>1. PICK b : b = Entry(n).bp
  OBVIOUS
<1>2. n # Root /\ b \in BPs /\ own[b].once
  <2>1. PICK i \in DOMAIN blueprints : blueprints[i].name = n
    BY DEF Names
  <2> QED
    BY <2>1, <1>1, EntryOf, EntryTyped DEF IInv, EntriesOK
<1>3. Entry(n)'.bp = b
  BY <1>1, EntryStays
<1>4. Matches(n, b)'
  <2>1. CASE ~_merge_blueprint_funcs
    BY <2>1, <1>1, <1>2, Calms DEF Calm, SameBelow, Matches
  <2>2. CASE _merge_blueprint_funcs
    <3>1. /\ own' = own /\ At(hooks', Top.name) = own[Top.bp].hooks
          /\ At(handlers', Top.name) = own[Top.bp].handlers
          /\ \A m : m # Top.name => /\ At(hooks', m) = At(hooks, m)
                                    /\ At(handlers', m) = At(handlers, m)
      BY <2>2, MergeEffect
    <3>2. n = Top.name => b = Top.bp
      BY <2>2, <1>1, MergeEffect
    <3>3. At(hooks', n) = own[b].hooks /\ At(handlers', n) = own[b].handlers
      BY <3>1, <3>2, <1>1 DEF Matches
    <3> QED
      BY <3>1, <3>3 DEF Matches
  <2> QED
    BY <2>1, <2>2
<1> QED
  BY <1>3, <1>4 DEF Matches

Outer(n) == SubSeq(n, 1, Len(n) - 1)

\* Whatever is nested was nested by a registration that had merged its own.
OuterMerged == \A n \in Names : Len(n) > 1 => Matches(Outer(n), Entry(Outer(n)).bp)

LEMMA OuterKept ==
    IInv /\ IInv' /\ NamesNested /\ OuterMerged /\ [Next]_vars => OuterMerged'
<1> SUFFICES ASSUME IInv, IInv', NamesNested, OuterMerged, [Next]_vars PROVE OuterMerged'
  OBVIOUS
<1>1. ASSUME NEW n \in Names, Len(n) > 1 PROVE Matches(Outer(n), Entry(Outer(n)).bp)'
  <2>1. n \in Seq(STRING)
    <3>1. PICK i \in DOMAIN blueprints : n = blueprints[i].name
      BY DEF Names
    <3> QED
      BY <3>1, EntryTyped DEF IInv, Entries
  <2>2. Len(n) - 1 \in 1..Len(n)
    BY <1>1, <2>1
  <2>3. PICK m : m = Outer(n)
    OBVIOUS
  <2>4. m \in Names /\ Matches(m, Entry(m).bp)
    BY <1>1, <2>2, <2>3 DEF NamesNested, OuterMerged, Outer
  <2>5. Matches(m, Entry(m).bp)'
    BY <2>4, MatchesStay
  <2> QED
    BY <2>3, <2>5
<1>2. CASE blueprints' = blueprints
  BY <1>1, <1>2 DEF OuterMerged, Names
<1>3. ASSUME NEW e, NewEntry(e) PROVE OuterMerged'
  <2>1. PICK outer \in Seq(STRING), x \in STRING : Around(outer) /\ e.name = Append(outer, x)
    BY <1>3 DEF NewEntry
  <2>2. PICK n : n = e.name
    OBVIOUS
  <2>3. Len(n) = Len(outer) + 1 /\ Len(outer) \in Nat /\ SubSeq(n, 1, Len(outer)) = outer
    <3>1. /\ Len(Append(outer, x)) = Len(outer) + 1 /\ Len(outer) \in Nat
          /\ \A i \in 0..Len(outer) : SubSeq(Append(outer, x), 1, i) = SubSeq(outer, 1, i)
          /\ SubSeq(outer, 1, Len(outer)) = outer
      BY Prefixes
    <3>2. Len(outer) \in 0..Len(outer)
      BY <3>1
    <3> QED
      BY <3>1, <3>2, <2>1, <2>2
  <2>4. Outer(n) = outer
    <3>1. Len(n) - 1 = Len(outer)
      BY <2>3
    <3> QED
      BY <3>1, <2>3 DEF Outer
  <2>5. ASSUME Len(n) > 1 PROVE Matches(Outer(n), Entry(Outer(n)).bp)'
    <3>1. outer # Root
      BY <2>3, <2>5 DEF Root
    <3>2. outer \in Names /\ Matches(outer, Entry(outer).bp)
      BY <2>1, <3>1 DEF Around
    <3>3. Matches(outer, Entry(outer).bp)'
      BY <3>2, MatchesStay
    <3> QED
      BY <3>3, <2>4
  <2>6. Names' = Names \cup {n}
    BY <1>3, <2>2, Entered
  <2> QED
    BY <1>1, <2>5, <2>6 DEF OuterMerged
<1> QED
  BY <1>2, <1>3, Enters

LEMMA OuterAlways == Spec => []OuterMerged
<1>1. Init => OuterMerged
  <2>1. Init => Names = {}
    BY DEF Init, Names
  <2> QED
    BY <2>1 DEF OuterMerged
<1> QED
  BY <1>1, OuterKept, Nested, Invariant, PTL DEF Spec

LEMMA ReversedAt ==
    ASSUME NEW S, NEW s \in Seq(S)
    PROVE  /\ Reversed(s) \in Seq(S) /\ Len(Reversed(s)) = Len(s) /\ Len(s) \in Nat
           /\ \A i \in 1..Len(s) : Reversed(s)[i] = s[Len(s) + 1 - i]
<1>1. PICK n : n = Len(s) /\ n \in Nat
  OBVIOUS
<1>2. ASSUME NEW i \in 1..n PROVE s[n + 1 - i] \in S
  <2>1. n + 1 - i \in 1..n
    BY <1>1
  <2> QED
    BY <2>1, <1>1
<1> QED
  BY <1>1, <1>2 DEF Reversed

LEMMA ReversedJoin ==
    ASSUME NEW S, NEW a \in Seq(S), NEW b \in Seq(S)
    PROVE  Reversed(a \o b) = Reversed(b) \o Reversed(a)
<1>1. PICK c, x, y, m, n : /\ c = Join(a, b) /\ x = Reversed(a) /\ y = Reversed(b)
                           /\ m = Len(a) /\ n = Len(b)
  OBVIOUS
<1>2. /\ x \in Seq(S) /\ y \in Seq(S) /\ Len(x) = m /\ Len(y) = n /\ m \in Nat /\ n \in Nat
      /\ \A i \in 1..m : x[i] = a[m + 1 - i]
      /\ \A i \in 1..n : y[i] = b[n + 1 - i]
  BY <1>1, ReversedAt
<1>3. /\ c \in Seq(S) /\ Len(c) = m + n
      /\ \A i \in 1..m : c[i] = a[i]
      /\ \A i \in (m + 1)..(m + n) : c[i] = b[i - m]
  BY <1>1, Behind
<1>4. PICK l, r : l = Reversed(c) /\ r = Join(y, x)
  OBVIOUS
<1>5. /\ l \in Seq(S) /\ Len(l) = m + n
      /\ \A i \in 1..(m + n) : l[i] = c[m + n + 1 - i]
  <2>1. c \in Seq(S) /\ Len(c) = m + n
    BY <1>3
  <2>2. /\ l \in Seq(S) /\ Len(l) = Len(c)
        /\ \A i \in 1..Len(c) : l[i] = c[Len(c) + 1 - i]
    BY <2>1, <1>4, ReversedAt
  <2> QED
    BY <2>1, <2>2
<1>6. /\ r \in Seq(S) /\ Len(r) = n + m
      /\ \A i \in 1..n : r[i] = y[i]
      /\ \A i \in (n + 1)..(n + m) : r[i] = x[i - n]
  <2>1. /\ r \in Seq(S) /\ Len(r) = Len(y) + Len(x)
        /\ \A i \in 1..Len(y) : r[i] = y[i]
        /\ \A i \in (Len(y) + 1)..Len(r) : r[i] = x[i - Len(y)]
    BY <1>2, <1>4, Behind
  <2>2. Len(y) = n /\ Len(x) = m
    BY <1>2
  <2> QED
    BY <2>1, <2>2
<1>7. Len(l) = Len(r)
  BY ONLY <1>2, <1>5, <1>6
<1>8. ASSUME NEW i \in 1..Len(l) PROVE l[i] = r[i]
  <2>1. PICK j : j = m + n + 1 - i
    OBVIOUS
  <2>2. /\ i \in 1..(m + n)
        /\ \/ /\ i \in 1..n /\ j \in (m + 1)..(m + n) /\ j - m = n + 1 - i
           \/ /\ i \in (n + 1)..(n + m) /\ i - n \in 1..m /\ j \in 1..m /\ j = m + 1 - (i - n)
    BY ONLY <1>2, <1>5, <2>1, i \in 1..Len(l)
  <2>3. l[i] = c[j]
    BY <2>1, <2>2, <1>5
  <2>4. CASE i \in 1..n /\ j \in (m + 1)..(m + n) /\ j - m = n + 1 - i
    BY <2>3, <2>4, <1>2, <1>3, <1>6
  <2>5. CASE i \in (n + 1)..(n + m) /\ i - n \in 1..m /\ j \in 1..m /\ j = m + 1 - (i - n)
    BY <2>3, <2>5, <1>2, <1>3, <1>6
  <2> QED
    BY <2>2, <2>4, <2>5
<1>9. l = r
  BY <1>5, <1>6, <1>7, <1>8, Equal
<1> QED
  BY <1>1, <1>4, <1>9 DEF Join

\* The reverses of the first k of some sequences, the last one first.
Backwards(ss, k) == [i \in 1..k |-> Reversed(ss[k + 1 - i])]

LEMMA BackwardsTyped ==
    ASSUME NEW S, NEW ss \in Seq(Seq(S)), NEW k \in 0..Len(ss)
    PROVE  Backwards(ss, k) \in Seq(Seq(S)) /\ Len(Backwards(ss, k)) = k
<1>1. PICK T, n : T = Seq(S) /\ n = Len(ss) /\ n \in Nat
  OBVIOUS
<1>2. ASSUME NEW i \in 1..k PROVE Reversed(ss[k + 1 - i]) \in T
  <2>1. k + 1 - i \in 1..n
    BY <1>1
  <2>2. ss[k + 1 - i] \in T
    BY <1>1, <2>1
  <2> QED
    BY <2>2, <1>1, ReversedAt
<1>3. k \in Nat
  BY <1>1
<1> QED
  BY <1>1, <1>2, <1>3 DEF Backwards

\* Undoing every sequence, from the last to the first, undoes all of them.
LEMMA ConcatReversed ==
    ASSUME NEW S, NEW ss \in Seq(Seq(S))
    PROVE  Concat(Backwards(ss, Len(ss))) = Reversed(Concat(ss))
<1>1. PICK n, T : n = Len(ss) /\ n \in Nat /\ T = Seq(S) /\ ss \in Seq(T)
  OBVIOUS
<1>2. PICK f \in [0..n -> Seq(S)] : Folded(f, ss) /\ Concat(ss) = f[n]
  BY <1>1, ConcatFolds
<1> DEFINE E == {k \in 0..n : Concat(Backwards(ss, k)) = Reversed(f[k])}
<1>3. 0 \in E
  <2>1. 0 \in 0..n /\ f[0] = <<>>
    BY <1>1, <1>2 DEF Folded
  <2>2. Backwards(ss, 0) = <<>>
    BY <2>1, <1>1, BackwardsTyped
  <2>3. Reversed(<<>>) = <<>>
    BY DEF Reversed
  <2> QED
    BY <2>1, <2>2, <2>3, ConcatNone
<1>4. ASSUME NEW k \in 1..n, k - 1 \in E PROVE k \in E
  <2>1. k \in 0..n /\ k - 1 \in 0..n /\ k \in Nat
    BY <1>1
  <2>2. PICK B, C : B = Backwards(ss, k - 1) /\ C = Backwards(ss, k)
    OBVIOUS
  <2>3. /\ B \in Seq(Seq(S)) /\ Len(B) = k - 1
        /\ C \in Seq(Seq(S)) /\ Len(C) = k
    BY <2>1, <2>2, <1>1, BackwardsTyped
  <2>4. PICK x, y : x = f[k - 1] /\ y = ss[k]
    OBVIOUS
  <2>5. x \in Seq(S) /\ y \in T /\ f[k] = x \o y
    <3>1. x \in Seq(S)
      BY <1>2, <2>1, <2>4
    <3>2. y \in T
      BY <1>1, <1>4, <2>4
    <3>3. f[k] = x \o y
      BY <1>1, <1>2, <2>4 DEF Folded
    <3> QED
      BY <3>1, <3>2, <3>3
  <2>6. PICK r : r = Reversed(y)
    OBVIOUS
  <2>7. r \in Seq(S)
    BY <2>5, <2>6, <1>1, ReversedAt
  <2>8. C = Front(r, B)
    <3>1. PICK D : D = Front(r, B)
      OBVIOUS
    <3>2. /\ D \in Seq(T) /\ Len(D) = 1 + Len(B) /\ D[1] = r
          /\ \A i \in 2..Len(D) : D[i] = B[i - 1]
      <4>1. r \in T /\ B \in Seq(T)
        BY <2>3, <2>7, <1>1
      <4> QED
        BY ONLY <3>1, <4>1, InFront
    <3>3. Len(D) = k /\ Len(C) = Len(D)
      BY <3>2, <2>3, <2>1
    <3>4. ASSUME NEW i \in 1..k PROVE C[i] = D[i]
      <4>1. C[i] = Reversed(ss[k + 1 - i])
        BY <2>2 DEF Backwards
      <4>2. CASE i = 1
        <5>1. k + 1 - i = k
          BY <4>2, <2>1
        <5> QED
          BY <4>1, <4>2, <5>1, <3>2, <2>4, <2>6
      <4>3. CASE i # 1
        <5>1. /\ i \in 2..k /\ i - 1 \in 1..(k - 1)
              /\ (k - 1) + 1 - (i - 1) = k + 1 - i
          BY <4>3, <2>1
        <5>2. B[i - 1] = Reversed(ss[(k - 1) + 1 - (i - 1)])
          BY <5>1, <2>2 DEF Backwards
        <5> QED
          BY <4>1, <5>1, <5>2, <3>2, <3>3
      <4> QED
        BY <4>2, <4>3
    <3>5. C \in Seq(T)
      BY <2>3, <1>1
    <3>6. C = D
      BY <3>2, <3>3, <3>4, <3>5, Equal
    <3> QED
      BY <3>1, <3>6
  <2>9. Concat(C) = r \o Concat(B)
    BY <2>3, <2>7, <2>8, ConcatFirst
  <2>10. Concat(B) = Reversed(x)
    BY <1>4, <2>2, <2>4
  <2>11. Reversed(x \o y) = r \o Reversed(x)
    BY <2>5, <2>6, <1>1, ReversedJoin
  <2> QED
    BY <2>1, <2>2, <2>5, <2>9, <2>10, <2>11
<1>5. \A k \in 0..n : k \in E
  <2> HIDE DEF E
  <2> QED
    BY <1>1, <1>3, <1>4, UpTo
<1>6. n \in 0..n
  BY <1>1
<1> QED
  BY <1>1, <1>2, <1>5, <1>6

\* The levels of a name, from the application in.
LEMMA InwardsAt ==
    ASSUME NEW n \in Seq(STRING)
    PROVE  /\ DOMAIN Inwards(Endpoint(n)) = 1..(Len(n) + 1)
           /\ \A i \in 1..(Len(n) + 1) : Inwards(Endpoint(n))[i] = SubSeq(n, 1, i - 1)
<1>1. PICK l, e : l = Len(n) /\ e = Append(n, "x")
  OBVIOUS
<1>2. l \in Nat /\ Len(e) = l + 1 /\ SubSeq(e, 1, l) = SubSeq(n, 1, l) /\ SubSeq(n, 1, l) = n
      /\ SubSeq(n, 1, 0) = <<>>
  BY <1>1, Prefixes
<1>3. (l + 1) - 1 = l
  BY <1>2
<1>4. blueprint(e) = n
  BY <1>2, <1>3 DEF blueprint
<1>5. PICK q : q = [i \in 1..l |-> SubSeq(n, 1, l + 1 - i)]
  OBVIOUS
<1>6. PICK r, s : r = Reversed(q) /\ s = Front(Root, r)
  OBVIOUS
<1>7. Inwards(Endpoint(n)) = s
  BY <1>1, <1>4, <1>5, <1>6
  DEF Inwards, Endpoint, request_blueprints, _split_blueprint_path, Front
<1>8. PICK T : T = Seq(STRING)
  OBVIOUS
<1>9. q \in Seq(T) /\ Len(q) = l
  <2>1. ASSUME NEW i \in 1..l PROVE SubSeq(n, 1, l + 1 - i) \in T
    <3>1. l + 1 - i \in 1..l
      BY <1>2
    <3> QED
      BY <3>1, <1>1, <1>8
  <2> QED
    BY <2>1, <1>2, <1>5
<1>10. r \in Seq(T) /\ Len(r) = l /\ \A i \in 1..l : r[i] = q[l + 1 - i]
  BY <1>6, <1>9, ReversedAt
<1>11. Root \in T /\ Root = SubSeq(n, 1, 0)
  BY <1>2, <1>8 DEF Root
<1>12. s \in Seq(T) /\ Len(s) = l + 1 /\ s[1] = Root /\ \A i \in 2..(l + 1) : s[i] = r[i - 1]
  <2>1. s \in Seq(T) /\ Len(s) = 1 + Len(r) /\ s[1] = Root /\ \A i \in 2..Len(s) : s[i] = r[i - 1]
    <3>1. Root \in T /\ r \in Seq(T) /\ s = Front(Root, r)
      BY <1>6, <1>10, <1>11
    <3> QED
      BY ONLY <3>1, InFront
  <2>2. 1 + Len(r) = l + 1
    BY <1>2, <1>10
  <2> QED
    BY <2>1, <2>2
<1>13. ASSUME NEW i \in 1..(l + 1) PROVE s[i] = SubSeq(n, 1, i - 1)
  <2>1. CASE i = 1
    <3>1. i - 1 = 0
      BY <2>1
    <3> QED
      BY <2>1, <3>1, <1>11, <1>12
  <2>2. CASE i # 1
    <3>1. PICK j : j = l + 1 - (i - 1)
      OBVIOUS
    <3>2. i \in 2..(l + 1) /\ i - 1 \in 1..l /\ j \in 1..l /\ l + 1 - j = i - 1
      BY ONLY <3>1, <2>2, <1>2, i \in 1..(l + 1)
    <3>3. s[i] = q[j]
      BY <3>1, <3>2, <1>10, <1>12
    <3>4. q[j] = SubSeq(n, 1, l + 1 - j)
      BY <3>2, <1>5
    <3> QED
      BY <3>2, <3>3, <3>4
  <2> QED
    BY <2>1, <2>2
<1>14. DOMAIN s = 1..(l + 1)
  <2>1. DOMAIN s = 1..Len(s)
    BY <1>12
  <2> QED
    BY <2>1, <1>12
<1> QED
  BY <1>1, <1>7, <1>13, <1>14

LEMMA LevelsMeant ==
    ASSUME IInv, focus \in Lists => OnceInv, NamesNested, OuterMerged
    PROVE  LevelsNest
<1> SUFFICES ASSUME focus \in Lists, NEW n \in Replayed
             PROVE  /\ preprocess_request(Endpoint(n)) = At(hooks, Root) \o LevelHooks(n)
                    /\ process_response(Endpoint(n)) = Reversed(preprocess_request(Endpoint(n)))
  BY DEF LevelsNest
<1>1. n \in Names /\ n \in Seq(STRING) /\ Matches(n, Entry(n).bp)
  <2>1. n \in Names /\ Matches(n, Entry(n).bp)
    BY ReplayedNamed, ReplayedMatches
  <2>2. PICK i \in DOMAIN blueprints : n = blueprints[i].name
    BY <2>1 DEF Names
  <2> QED
    BY <2>1, <2>2, EntryTyped DEF IInv, Entries
<1>2. PICK l, T, w : l = Len(n) /\ l \in Nat /\ T = Seq(Funcs) /\ w = At(hooks, Root)
  BY <1>1
<1>3. w \in T
  BY <1>2 DEF OnceInv, Wide
<1>4. ASSUME NEW i \in 1..l
      PROVE  /\ SubSeq(n, 1, i) \in Names /\ Entry(SubSeq(n, 1, i)).bp \in BPs
             /\ Matches(SubSeq(n, 1, i), Entry(SubSeq(n, 1, i)).bp)
  <2>1. PICK m : m = SubSeq(n, 1, i)
    OBVIOUS
  <2>2. m \in Names
    BY <1>1, <1>2, <2>1 DEF NamesNested
  <2>3. Entry(m).bp \in BPs
    <3>1. PICK k \in DOMAIN blueprints : blueprints[k].name = m
      BY <2>2 DEF Names
    <3> QED
      BY <3>1, EntryOf, EntryTyped DEF IInv
  <2>4. CASE i = l
    <3>1. m = n
      BY <2>1, <2>4, <1>1, <1>2, Prefixes
    <3> QED
      BY <3>1, <2>1, <2>2, <2>3, <1>1
  <2>5. CASE i # l
    <3>1. PICK p : p = SubSeq(n, 1, i + 1)
      OBVIOUS
    <3>2. i + 1 \in 1..l
      BY <2>5, <1>2
    <3>3. p \in Names
      BY <3>1, <3>2, <1>1, <1>2 DEF NamesNested
    <3>4. Len(p) = i + 1 /\ SubSeq(p, 1, i) = m
      BY <3>1, <3>2, <2>1, <1>1, <1>2
    <3>5. Len(p) > 1 /\ Len(p) - 1 = i
      BY <3>4
    <3>6. Outer(p) = m
      BY <3>4, <3>5 DEF Outer
    <3> QED
      BY <3>3, <3>5, <3>6, <2>1, <2>2, <2>3 DEF OuterMerged
  <2> QED
    BY <2>4, <2>5
<1>5. PICK B : B = [i \in 1..l |-> Levels(n)[i].hooks]
  OBVIOUS
<1>6. LevelHooks(n) = Concat(B)
  BY <1>2, <1>5 DEF LevelHooks
<1>7. ASSUME NEW i \in 1..l
      PROVE  B[i] = At(hooks, SubSeq(n, 1, i)) /\ B[i] \in T
  <2>1. PICK b : b = Entry(SubSeq(n, 1, i)).bp
    OBVIOUS
  <2>2. b \in BPs /\ At(hooks, SubSeq(n, 1, i)) = own[b].hooks
    BY <2>1, <1>4 DEF Matches
  <2>3. B[i] = own[b].hooks
    BY <2>1, <1>2, <1>5 DEF Levels
  <2>4. own[b].hooks \in T
    BY <2>2, <1>2 DEF IInv, Typed, OwnRecord
  <2> QED
    BY <2>2, <2>3, <2>4
<1>8. B \in Seq(T) /\ Len(B) = l
  BY <1>2, <1>5, <1>7
<1>9. PICK I, O : I = Inwards(Endpoint(n)) /\ O = Outwards(Endpoint(n))
  OBVIOUS
<1>10. /\ DOMAIN I = 1..(l + 1) /\ DOMAIN O = 1..(l + 1)
       /\ \A i \in 1..(l + 1) : I[i] = SubSeq(n, 1, i - 1)
       /\ \A i \in 1..(l + 1) : O[i] = SubSeq(n, 1, l + 1 - i)
  BY <1>1, <1>2, <1>9, InwardsAt, OutwardsAt
<1>11. PICK A, Z : /\ A = [i \in 1..(l + 1) |-> At(hooks, I[i])]
                   /\ Z = [i \in 1..(l + 1) |-> Reversed(At(hooks, O[i]))]
  OBVIOUS
<1>12. /\ preprocess_request(Endpoint(n)) = Concat(A)
       /\ process_response(Endpoint(n)) = Concat(Z)
  BY <1>9, <1>10, <1>11 DEF preprocess_request, process_response
<1>13. PICK F : F = Front(w, B)
  OBVIOUS
<1>14. F \in Seq(T) /\ Len(F) = l + 1 /\ F[1] = w /\ \A i \in 2..(l + 1) : F[i] = B[i - 1]
  <2>1. F \in Seq(T) /\ Len(F) = 1 + Len(B) /\ F[1] = w /\ \A i \in 2..Len(F) : F[i] = B[i - 1]
    BY <1>3, <1>8, <1>13, InFront
  <2>2. 1 + Len(B) = l + 1
    BY <1>2, <1>8
  <2> QED
    BY <2>1, <2>2
<1>15. ASSUME NEW i \in 1..(l + 1) PROVE A[i] = F[i] /\ A[i] \in T
  <2>1. A[i] = At(hooks, SubSeq(n, 1, i - 1))
    BY <1>10, <1>11
  <2>2. CASE i = 1
    <3>1. i - 1 = 0 /\ SubSeq(n, 1, 0) = Root
      BY <2>2, <1>1, Prefixes DEF Root
    <3> QED
      BY <2>1, <2>2, <3>1, <1>2, <1>3, <1>14
  <2>3. CASE i # 1
    <3>1. i \in 2..(l + 1) /\ i - 1 \in 1..l
      BY <2>3, <1>2
    <3> QED
      BY <2>1, <3>1, <1>7, <1>14
  <2> QED
    BY <2>2, <2>3
<1>16. A = F
  <2>1. A \in Seq(T) /\ Len(A) = l + 1
    BY <1>2, <1>11, <1>15
  <2> QED
    BY <2>1, <1>14, <1>15, Equal
<1>17. Concat(A) = w \o Concat(B)
  BY <1>2, <1>3, <1>8, <1>13, <1>16, ConcatFirst
<1>18. Z = Backwards(A, l + 1)
  <2>1. ASSUME NEW i \in 1..(l + 1) PROVE Z[i] = Reversed(A[l + 1 + 1 - i])
    <3>1. PICK j : j = l + 1 + 1 - i
      OBVIOUS
    <3>2. j \in 1..(l + 1) /\ j - 1 = l + 1 - i
      BY ONLY <3>1, <1>2, i \in 1..(l + 1)
    <3>3. A[j] = At(hooks, SubSeq(n, 1, j - 1))
      BY <3>2, <1>10, <1>11
    <3>4. Z[i] = Reversed(At(hooks, SubSeq(n, 1, l + 1 - i)))
      BY <1>10, <1>11
    <3> QED
      BY <3>1, <3>2, <3>3, <3>4
  <2>2. Z = [i \in 1..(l + 1) |-> Z[i]]
    BY <1>11
  <2> QED
    BY <2>1, <2>2 DEF Backwards
<1>19. Concat(Z) = Reversed(Concat(A))
  <2>1. A \in Seq(T) /\ Len(A) = l + 1
    BY <1>14, <1>16
  <2> QED
    BY <2>1, <1>2, <1>18, ConcatReversed
<1> QED
  BY <1>2, <1>6, <1>12, <1>17, <1>19

\* A request to a blueprint, however deeply it is nested, runs the functions of
\* every level from the application in, and undoes that order after the view.
THEOREM LevelsNested == Spec => []LevelsNest
<1> QED
  BY Invariant, OnceAlways, Nested, OuterAlways, LevelsMeant, PTL

-----------------------------------------------------------------------------
(* The sources of templates. *)

LEMMA LoadersAt ==
    ASSUME IInv
    PROVE  /\ _iter_loaders \in Seq(Owners) /\ Len(_iter_loaders) = Len(blueprints) + 1
           /\ Len(blueprints) \in Nat /\ DOMAIN blueprints = 1..Len(blueprints)
           /\ _iter_loaders[1] = App
           /\ \A i \in DOMAIN blueprints :
                 i + 1 \in 1..Len(_iter_loaders) /\ _iter_loaders[i + 1] = blueprints[i].bp
<1>1. /\ blueprints \in Seq(Entries) /\ Len(blueprints) \in Nat
      /\ DOMAIN blueprints = 1..Len(blueprints)
  BY DEF IInv, Typed
<1>2. PICK D, l, n : /\ D = [i \in DOMAIN blueprints |-> blueprints[i].bp] /\ l = Front(App, D)
                     /\ n = Len(blueprints)
  OBVIOUS
<1>3. _iter_loaders = l
  BY <1>2 DEF _iter_loaders, Front
<1>4. D \in Seq(Owners) /\ Len(D) = n
  <2>1. ASSUME NEW i \in DOMAIN blueprints PROVE blueprints[i].bp \in Owners
    BY EntryTyped DEF IInv, Owners
  <2> QED
    BY <2>1, <1>1, <1>2
<1>5. /\ l \in Seq(Owners) /\ Len(l) = 1 + Len(D) /\ l[1] = App
      /\ \A i \in 2..Len(l) : l[i] = D[i - 1]
  <2>1. App \in Owners /\ D \in Seq(Owners) /\ l = Front(App, D)
    BY <1>2, <1>4 DEF Owners
  <2> QED
    BY ONLY <2>1, InFront
<1>6. Len(l) = n + 1
  BY <1>1, <1>2, <1>4, <1>5
<1>7. ASSUME NEW i \in 1..n PROVE i + 1 \in 1..Len(l) /\ l[i + 1] = blueprints[i].bp
  <2>1. i + 1 \in 2..(n + 1) /\ i + 1 \in 1..(n + 1) /\ (i + 1) - 1 = i
    BY <1>1, <1>2
  <2> QED
    BY <2>1, <1>1, <1>2, <1>5, <1>6
<1> QED
  BY <1>1, <1>2, <1>3, <1>5, <1>6, <1>7

\* The first of some loaders that has the template, if there is one.
First(ls, t, m) ==
    /\ m \in 1..(Len(ls) + 1)
    /\ \A j \in 1..Len(ls) : j < m => t \notin Templates[ls[j]]
    /\ m <= Len(ls) => t \in Templates[ls[m]]

LEMMA FastFirst ==
    ASSUME NEW t, NEW ls \in Seq(Owners), ls = _iter_loaders
    PROVE  \E m : /\ First(ls, t, m)
                  /\ _get_source_fast(t) = IF m <= Len(ls) THEN ls[m] ELSE None
<1>0. PICK n, F : n = Len(ls) /\ F = {i \in DOMAIN ls : t \in Templates[ls[i]]}
  OBVIOUS
<1>1. n = Len(ls) /\ n \in Nat /\ F = {i \in DOMAIN ls : t \in Templates[ls[i]]}
  BY <1>0
<1>2. DOMAIN ls = 1..n
  BY <1>1
<1>3. CASE F = {}
  <2>1. /\ n + 1 \in 1..(n + 1) /\ ~(n + 1 <= n)
    BY <1>1
  <2>2. \A j \in 1..n : t \notin Templates[ls[j]]
    BY <1>1, <1>2, <1>3
  <2>3. First(ls, t, n + 1)
    BY <2>1, <2>2, <1>1 DEF First
  <2>4. _get_source_fast(t) = None
    BY <1>1, <1>3 DEF _get_source_fast
  <2> QED
    BY <2>1, <2>3, <2>4, <1>1
<1>4. CASE F # {}
  <2>1. PICK x : x \in F
    BY <1>4
  <2>2. F \in SUBSET Nat /\ F \subseteq 1..n
    BY <1>1, <1>2
  <2>3. \E i \in F : \A j \in F : i <= j
    BY <2>1, <2>2, Least
  <2>4. PICK m : m = CHOOSE i \in F : \A j \in F : i <= j
    OBVIOUS
  <2>5. m \in F /\ \A j \in F : m <= j
    BY <2>3, <2>4
  <2>6. _get_source_fast(t) = ls[m]
    BY <2>4, <1>1, <1>4 DEF _get_source_fast
  <2>7. m \in 1..n
    BY <2>2, <2>5
  <2>8. m \in 1..(n + 1) /\ m <= n
    BY <2>7, <1>1
  <2>9. ASSUME NEW j \in 1..n, j < m PROVE j \notin F
    BY <2>5, <2>7, <2>9, <1>1
  <2>10. First(ls, t, m)
    BY <2>5, <2>8, <2>9, <1>1, <1>2 DEF First
  <2> QED
    BY <2>6, <2>8, <2>10, <1>1
<1> QED
  BY <1>3, <1>4

\* The search that is explained keeps the first source that it finds.
LEMMA ExplainedFirst ==
    ASSUME NEW t, NEW ls \in Seq(Owners), ls = _iter_loaders, NEW m, First(ls, t, m)
    PROVE  _get_source_explained(t) = IF m <= Len(ls) THEN ls[m] ELSE None
<1>0. PICK n, S : n = Len(ls) /\ S = Owners \cup {None}
  OBVIOUS
<1>1. n = Len(ls) /\ n \in Nat /\ S = Owners \cup {None}
  BY <1>0
<1>2. None \in S /\ (\A i \in 1..n : ls[i] \in S /\ ls[i] # None) /\ m \in 1..(n + 1)
  <2>1. None \notin Owners
    BY LoaderAssumption DEF None, App, Owners
  <2>2. \A i \in 1..n : ls[i] \in Owners
    BY <1>1
  <2> QED
    BY <2>1, <2>2, <1>1 DEF First
<1> DEFINE Then(i, x) == IF x = None /\ t \in Templates[ls[i]] THEN ls[i] ELSE x
           G == [i \in 1..n |-> [x \in S |-> Then(i, x)]]
<1>3. G \in [1..n -> [S -> S]]
  BY <1>1, <1>2
<1>4. PICK h \in [0..n -> S] : Iterate(h, n, None, G)
  <2> HIDE DEF G
  <2> QED
    BY <1>1, <1>2, <1>3, Iterates
<1>5. h[0] = None /\ \A i \in 1..n : h[i] = Then(i, h[i - 1])
  <2>1. \A i \in 1..n : i - 1 \in 0..n /\ h[i - 1] \in S
    BY <1>1
  <2> QED
    BY <1>4, <2>1 DEF Iterate
<1> HIDE DEF G
<1> DEFINE R(f) == [i \in 0..n |-> IF i = 0 THEN None ELSE Then(i, f[i - 1])]
           g == CHOOSE f : f = R(f)
<1>6. h = R(h)
  <2>1. \A i \in 0..n : i = 0 \/ i \in 1..n
    BY <1>1
  <2>2. \A i \in 0..n : h[i] = IF i = 0 THEN None ELSE Then(i, h[i - 1])
    BY <1>5, <2>1
  <2> HIDE DEF Then
  <2> QED
    BY <2>2
<1>7. g = R(g)
  <2> HIDE DEF R
  <2> QED
    BY <1>6
<1>8. _get_source_explained(t) = g[n]
  <2>1. \A f : R(f) = [i \in 0..n |-> IF i = 0 THEN None
                                      ELSE IF f[i - 1] = None /\ t \in Templates[ls[i]] THEN ls[i]
                                      ELSE f[i - 1]]
    OBVIOUS
  <2> QED
    BY <1>1 DEF _get_source_explained
<1> HIDE DEF g
<1>9. \A i \in 0..n : g[i] = IF i = 0 THEN None ELSE Then(i, g[i - 1])
  <2> HIDE DEF Then
  <2> QED
    BY <1>7
<1>10. 0 \in 0..n /\ \A i \in 1..n : i \in 0..n /\ i # 0
  BY <1>1
<1> DEFINE E == {i \in 0..n : g[i] = IF i < m THEN None ELSE ls[m]}
<1>11. 0 \in E
  <2>1. 0 < m
    BY <1>1, <1>2
  <2> QED
    BY <2>1, <1>9, <1>10
<1>12. ASSUME NEW i \in 1..n, i - 1 \in E PROVE i \in E
  <2>1. g[i] = Then(i, g[i - 1])
    BY <1>9, <1>10
  <2>2. g[i - 1] = IF i - 1 < m THEN None ELSE ls[m]
    BY <1>12
  <2>3. CASE i < m
    <3>1. i - 1 < m /\ t \notin Templates[ls[i]]
      BY <2>3, <1>1, <1>2 DEF First
    <3> QED
      BY <2>1, <2>2, <2>3, <3>1, <1>10
  <2>4. CASE i = m
    <3>1. i - 1 < m /\ ~(i < m) /\ m <= n
      BY <2>4, <1>1, <1>2
    <3>2. t \in Templates[ls[i]]
      BY <2>4, <3>1, <1>1 DEF First
    <3> QED
      BY <2>1, <2>2, <2>4, <3>1, <3>2, <1>10
  <2>5. CASE i > m
    <3>1. ~(i - 1 < m) /\ ~(i < m) /\ m \in 1..n
      BY <2>5, <1>1, <1>2
    <3>2. ls[m] # None
      BY <3>1, <1>2
    <3> QED
      BY <2>1, <2>2, <3>1, <3>2, <1>10
  <2> QED
    BY <2>3, <2>4, <2>5, <1>1, <1>2
<1>13. \A i \in 0..n : i \in E
  <2> HIDE DEF E
  <2> QED
    BY <1>1, <1>11, <1>12, UpTo
<1>14. n \in 0..n /\ (n < m <=> ~(m <= n))
  BY <1>1, <1>2
<1> QED
  BY <1>1, <1>8, <1>13, <1>14

LEMMA OrderMeant == ASSUME IInv PROVE TemplateOrder
<1> SUFFICES ASSUME NEW t
             PROVE  /\ _get_source_explained(t) = _get_source_fast(t)
                    /\ t \in Templates[App] => _get_source_fast(t) = App
                    /\ t \notin Templates[App] =>
                          \A n \in Names : t \in Templates[Entry(n).bp] =>
                             \E k \in Names :
                                /\ _get_source_fast(t) = Entry(k).bp
                                /\ \A i, j \in DOMAIN blueprints :
                                     blueprints[i].name = k /\ blueprints[j].name = n => i <= j
  BY DEF TemplateOrder
<1>1. PICK ls, l : ls = _iter_loaders /\ l = Len(blueprints)
  OBVIOUS
<1>2. /\ ls \in Seq(Owners) /\ Len(ls) = l + 1 /\ l \in Nat /\ DOMAIN blueprints = 1..l
      /\ ls[1] = App
      /\ \A i \in 1..l : i + 1 \in 1..(l + 1) /\ ls[i + 1] = blueprints[i].bp
  BY <1>1, LoadersAt
<1>3. PICK m : First(ls, t, m) /\ _get_source_fast(t) = IF m <= Len(ls) THEN ls[m] ELSE None
  BY <1>1, <1>2, FastFirst
<1>4. _get_source_explained(t) = _get_source_fast(t)
  BY <1>1, <1>2, <1>3, ExplainedFirst
<1>5. /\ m \in 1..(l + 2)
      /\ \A j \in 1..(l + 1) : j < m => t \notin Templates[ls[j]]
      /\ m <= l + 1 => t \in Templates[ls[m]] /\ _get_source_fast(t) = ls[m]
  BY <1>2, <1>3 DEF First
<1>6. ASSUME t \in Templates[App] PROVE _get_source_fast(t) = App
  <2>1. 1 \in 1..(l + 1)
    BY <1>2
  <2>2. ~(1 < m)
    BY <2>1, <1>2, <1>5, <1>6
  <2>3. m = 1 /\ m <= l + 1
    BY <2>2, <1>2, <1>5
  <2> QED
    BY <2>3, <1>2, <1>5
<1>7. ASSUME t \notin Templates[App], NEW n \in Names, t \in Templates[Entry(n).bp]
      PROVE  \E k \in Names :
                /\ _get_source_fast(t) = Entry(k).bp
                /\ \A i, j \in DOMAIN blueprints :
                     blueprints[i].name = k /\ blueprints[j].name = n => i <= j
  <2>1. PICK y \in DOMAIN blueprints : blueprints[y].name = n
    BY DEF Names
  <2>2. Entry(n) = blueprints[y]
    BY <2>1, EntryOf DEF IInv
  <2>3. y + 1 \in 1..(l + 1) /\ t \in Templates[ls[y + 1]]
    BY <2>1, <2>2, <1>2, <1>7
  <2>4. ~(y + 1 < m)
    BY <2>3, <1>5
  <2>5. m <= l + 1 /\ m <= y + 1
    BY <2>3, <2>4, <1>2, <1>5
  <2>6. m # 1
    BY <2>5, <1>2, <1>5, <1>7
  <2>7. PICK x : x = m - 1
    OBVIOUS
  <2>8. x \in 1..l /\ x + 1 = m /\ x <= y /\ y \in 1..l
    BY <2>1, <2>3, <2>5, <2>6, <2>7, <1>2, <1>5
  <2>9. PICK k : k = blueprints[x].name
    OBVIOUS
  <2>10. k \in Names /\ Entry(k) = blueprints[x]
    BY <2>8, <2>9, <1>2, EntryOf DEF IInv, Names
  <2>11. _get_source_fast(t) = Entry(k).bp
    BY <2>5, <2>8, <2>10, <1>2, <1>5
  <2>12. ASSUME NEW i \in DOMAIN blueprints, NEW j \in DOMAIN blueprints,
                blueprints[i].name = k, blueprints[j].name = n
         PROVE  i <= j
    <3>1. i = x /\ j = y
      BY <2>1, <2>8, <2>9, <2>12, <1>2 DEF IInv, EntriesOK, Distinct
    <3> QED
      BY <3>1, <2>8
  <2> QED
    BY <2>10, <2>11, <2>12
<1> QED
  BY <1>4, <1>6, <1>7

\* The source of a template is the application's, else that of the blueprint
\* registered first, and explaining the search does not change it.
THEOREM TemplatesOrdered == Spec => []TemplateOrder
<1> QED
  BY Invariant, OrderMeant, PTL

-----------------------------------------------------------------------------
(* The rules of nested blueprints. *)

\* Every level of a name has a prefix and a subdomain of its own.
LEMMA LevelGiven ==
    ASSUME IInv, NamesNested, NEW n \in Names, NEW i \in 1..Len(n)
    PROVE  /\ SubSeq(n, 1, i) \in Names
           /\ PrefixAt(n, i) \in Seq(STRING) /\ SubdomainAt(n, i) \in Seq(STRING)
<1>1. PICK m : m = SubSeq(n, 1, i)
  OBVIOUS
<1>2. m \in Names
  BY <1>1 DEF NamesNested
<1>3. PICK k \in DOMAIN blueprints : blueprints[k].name = m
  BY <1>2 DEF Names
<1>4. PICK e : e = Entry(m)
  OBVIOUS
<1>5. e \in Entries
  BY <1>3, <1>4, EntryOf, EntryTyped DEF IInv
<1>6. /\ e.opts.prefix \in Seq(STRING) /\ e.opts.subdomain \in Seq(STRING)
      /\ Prefix[e.bp] \in Seq(STRING) /\ Subdomain[e.bp] \in Seq(STRING)
  BY <1>5, NameAssumption DEF Entries
<1>7. PrefixAt(n, i) = Own(e.opts.prefix, Prefix[e.bp])
  BY <1>1, <1>4 DEF PrefixAt
<1>8. SubdomainAt(n, i) = Own(e.opts.subdomain, Subdomain[e.bp])
  BY <1>1, <1>4 DEF SubdomainAt
<1> QED
  BY <1>1, <1>2, <1>6, <1>7, <1>8 DEF Own

LEMMA NameTyped ==
    ASSUME IInv, NEW n \in Names PROVE n \in Seq(STRING) /\ n # Root /\ Entry(n).bp \in BPs
<1>1. PICK i \in DOMAIN blueprints : n = blueprints[i].name
  BY DEF Names
<1> QED
  BY <1>1, EntryOf, EntryTyped DEF IInv, EntriesOK, Entries

\* The prefixes and subdomains that are put together for a name.
PrefixesOf(n)   == [i \in 1..Len(n) |-> PrefixAt(n, i)]
SubdomainsOf(n) == [i \in 1..Len(n) |-> SubdomainAt(n, Len(n) + 1 - i)]

LEMMA PartsTyped ==
    ASSUME IInv, NamesNested, NEW n, n = Root \/ n \in Names
    PROVE  /\ PrefixesOf(n) \in Seq(Seq(STRING)) /\ Len(PrefixesOf(n)) = Len(n)
           /\ SubdomainsOf(n) \in Seq(Seq(STRING)) /\ Len(SubdomainsOf(n)) = Len(n)
           /\ n \in Seq(STRING)
<1>1. n \in Seq(STRING)
  <2>1. Root \in Seq(STRING)
    BY DEF Root
  <2> QED
    BY <2>1, NameTyped
<1>2. PICK l, T : l = Len(n) /\ T = Seq(STRING)
  OBVIOUS
<1>3. l \in Nat
  BY <1>1, <1>2
<1>4. ASSUME NEW i \in 1..l
      PROVE  PrefixAt(n, i) \in T /\ SubdomainAt(n, l + 1 - i) \in T
  <2>1. n \in Names
    BY <1>2, <1>3 DEF Root
  <2>2. l + 1 - i \in 1..l
    BY <1>3
  <2> QED
    BY <2>1, <2>2, <1>2, LevelGiven
<1> QED
  BY <1>1, <1>2, <1>3, <1>4 DEF PrefixesOf, SubdomainsOf

LEMMA Listed ==
    ASSUME NEW n \in Nat, NEW T, NEW f, f = [i \in 1..n |-> f[i]], \A i \in 1..n : f[i] \in T
    PROVE  f \in Seq(T) /\ Len(f) = n
<1>1. f \in [1..n -> T]
  OBVIOUS
<1> QED
  BY <1>1

\* The levels of a name keep theirs.
LEMMA LevelStays ==
    ASSUME IInv, IInv', NamesNested, [Next]_vars, NEW n \in Names, NEW i \in 1..Len(n)
    PROVE  PrefixAt(n, i)' = PrefixAt(n, i) /\ SubdomainAt(n, i)' = SubdomainAt(n, i)
<1>1. PICK m : m = SubSeq(n, 1, i)
  OBVIOUS
<1>2. Entry(m)' = Entry(m)
  BY <1>1, LevelGiven, EntryStays
<1>3. Entry(SubSeq(n, 1, i))' = Entry(m) /\ Entry(SubSeq(n, 1, i)) = Entry(m)
  BY <1>1, <1>2
<1> QED
  BY <1>3 DEF PrefixAt, SubdomainAt

LEMMA FullStays ==
    ASSUME IInv, IInv', NamesNested, [Next]_vars, NEW n \in Names
    PROVE  FullPrefix(n)' = FullPrefix(n) /\ FullSubdomain(n)' = FullSubdomain(n)
<1>1. PICK l : l = Len(n) /\ l \in Nat
  BY NameTyped
<1>2. ASSUME NEW i \in 1..l
      PROVE  /\ PrefixAt(n, i)' = PrefixAt(n, i)
             /\ SubdomainAt(n, l + 1 - i)' = SubdomainAt(n, l + 1 - i)
  <2>1. PICK k : k = l + 1 - i
    OBVIOUS
  <2>2. k \in 1..l
    BY <2>1, <1>1
  <2>3. SubdomainAt(n, k)' = SubdomainAt(n, k)
    BY <2>2, <1>1, LevelStays
  <2> QED
    BY <2>1, <2>3, <1>1, LevelStays
<1>3. [i \in 1..l |-> PrefixAt(n, i)'] = [i \in 1..l |-> PrefixAt(n, i)]
  BY <1>2
<1>4. [i \in 1..l |-> SubdomainAt(n, l + 1 - i)'] = [i \in 1..l |-> SubdomainAt(n, l + 1 - i)]
  BY <1>2
<1> QED
  BY <1>1, <1>3, <1>4 DEF FullPrefix, FullSubdomain

LEMMA EntryNew ==
    ASSUME IInv, IInv', NEW e, NewEntry(e) PROVE Entry(e.name)' = e
<1>1. PICK n : n = e.name
  OBVIOUS
<1>2. PICK i \in DOMAIN blueprints' : blueprints'[i] = e
  BY Entered
<1>3. PICK k : k = CHOOSE j \in DOMAIN blueprints' : blueprints'[j].name = n
  OBVIOUS
<1>4. k \in DOMAIN blueprints' /\ blueprints'[k].name = n
  BY <1>1, <1>2, <1>3
<1>5. k = i
  BY <1>1, <1>2, <1>4 DEF IInv, EntriesOK, Distinct
<1>6. Entry(n)' = e
  BY <1>2, <1>3, <1>5 DEF Entry
<1> QED
  BY <1>1, <1>6

\* A new name adds the prefix of its registration behind those around it, and
\* the subdomain in front of theirs.
LEMMA FullOfNew ==
    ASSUME IInv, IInv', NamesNested, [Next]_vars, NEW e, NewEntry(e),
           NEW outer \in Seq(STRING), NEW x \in STRING, Around(outer),
           NEW n, n = e.name, n = Append(outer, x)
    PROVE  /\ FullPrefix(n)' = Join(FullPrefix(outer), Own(e.opts.prefix, Prefix[e.bp]))
           /\ FullSubdomain(n)' =
                 Join(Own(e.opts.subdomain, Subdomain[e.bp]), FullSubdomain(outer))
<1>1. PICK l, T : l = Len(outer) /\ T = Seq(STRING)
  OBVIOUS
<1>2. /\ l \in Nat /\ Len(n) = l + 1 /\ SubSeq(n, 1, l + 1) = n
      /\ \A i \in 0..l : SubSeq(n, 1, i) = SubSeq(outer, 1, i)
  <2>1. PICK k : k = Append(outer, x)
    OBVIOUS
  <2>2. /\ Len(k) = Len(outer) + 1 /\ Len(outer) \in Nat /\ SubSeq(k, 1, Len(outer) + 1) = k
        /\ \A i \in 0..Len(outer) : SubSeq(k, 1, i) = SubSeq(outer, 1, i)
    BY <2>1, Prefixes
  <2>3. k = n
    BY <2>1
  <2> QED
    BY <2>2, <2>3, <1>1
<1>3. PICK p, s : /\ p = Own(e.opts.prefix, Prefix[e.bp])
                  /\ s = Own(e.opts.subdomain, Subdomain[e.bp])
  OBVIOUS
<1>4. p \in T /\ s \in T
  <2>1. e \in Entries
    BY DEF NewEntry
  <2>2. /\ e.opts.prefix \in T /\ e.opts.subdomain \in T
        /\ Prefix[e.bp] \in T /\ Subdomain[e.bp] \in T
    BY <2>1, <1>1, NameAssumption DEF Entries
  <2> QED
    BY <2>2, <1>3 DEF Own
<1>5. outer = Root \/ outer \in Names
  BY DEF Around
<1>6. PICK P, D : P = PrefixesOf(outer) /\ D = SubdomainsOf(outer)
  OBVIOUS
<1>7. P \in Seq(T) /\ Len(P) = l /\ D \in Seq(T) /\ Len(D) = l
  BY <1>1, <1>5, <1>6, PartsTyped
<1>8. ASSUME NEW i \in 1..(l + 1)
      PROVE  /\ PrefixAt(n, i)' = IF i = l + 1 THEN p ELSE PrefixAt(outer, i)
             /\ SubdomainAt(n, i)' = IF i = l + 1 THEN s ELSE SubdomainAt(outer, i)
  <2>1. CASE i = l + 1
    <3>1. Entry(n)' = e
      BY EntryNew
    <3>2. SubSeq(n, 1, i) = n
      BY <2>1, <1>2
    <3>3. PrefixAt(n, i)' = p /\ SubdomainAt(n, i)' = s
      BY <3>1, <3>2, <1>3 DEF PrefixAt, SubdomainAt
    <3> QED
      BY <2>1, <3>3
  <2>2. CASE i # l + 1
    <3>1. i \in 1..l /\ i \in 0..l
      BY <2>2, <1>2
    <3>2. outer \in Names
      <4>1. Len(Root) = 0
        BY DEF Root
      <4> QED
        BY <3>1, <4>1, <1>1, <1>5
    <3>3. PrefixAt(outer, i)' = PrefixAt(outer, i) /\ SubdomainAt(outer, i)' = SubdomainAt(outer, i)
      BY <3>1, <3>2, <1>1, LevelStays
    <3>4. PICK m : m = SubSeq(n, 1, i)
      OBVIOUS
    <3>5. m = SubSeq(outer, 1, i)
      BY <3>1, <3>4, <1>2
    <3>6. PrefixAt(n, i)' = PrefixAt(outer, i)' /\ SubdomainAt(n, i)' = SubdomainAt(outer, i)'
      BY <3>4, <3>5 DEF PrefixAt, SubdomainAt
    <3> QED
      BY <2>2, <3>3, <3>6
  <2> QED
    BY <2>1, <2>2
<1>9. PICK PP, DD : /\ PP = [i \in 1..(l + 1) |-> PrefixAt(n, i)']
                    /\ DD = [i \in 1..(l + 1) |-> SubdomainAt(n, l + 1 + 1 - i)']
  OBVIOUS
<1>10. FullPrefix(n)' = Concat(PP) /\ FullSubdomain(n)' = Concat(DD)
  BY <1>2, <1>9 DEF FullPrefix, FullSubdomain
<1>11. PP = Append(P, p)
  <2>1. PICK A : A = Append(P, p)
    OBVIOUS
  <2>2. A \in Seq(T) /\ Len(A) = l + 1 /\ A[l + 1] = p /\ \A i \in 1..l : A[i] = P[i]
    BY <2>1, <1>2, <1>4, <1>7
  <2>3. ASSUME NEW i \in 1..(l + 1) PROVE PP[i] = A[i]
    <3>1. PP[i] = IF i = l + 1 THEN p ELSE PrefixAt(outer, i)
      BY <1>8, <1>9
    <3>2. CASE i = l + 1
      BY <3>1, <3>2, <2>2
    <3>3. CASE i # l + 1
      <4>1. i \in 1..l
        BY <3>3, <1>2
      <4>2. P[i] = PrefixAt(outer, i)
        BY <4>1, <1>1, <1>6 DEF PrefixesOf
      <4> QED
        BY <3>1, <3>3, <4>1, <4>2, <2>2
    <3> QED
      BY <3>2, <3>3
  <2>4. \A i \in 1..(l + 1) : A[i] \in T
    BY <2>2
  <2>5. PP \in Seq(T) /\ Len(PP) = l + 1
    <3>1. \A i \in 1..(l + 1) : PP[i] \in T
      BY <2>3, <2>4
    <3>2. PP = [i \in 1..(l + 1) |-> PP[i]] /\ l + 1 \in Nat
      BY <1>2, <1>9
    <3> QED
      BY ONLY <3>1, <3>2, Listed
  <2> QED
    BY <2>1, <2>2, <2>3, <2>5, Equal
<1>12. DD = Front(s, D)
  <2>1. PICK A : A = Front(s, D)
    OBVIOUS
  <2>2. A \in Seq(T) /\ Len(A) = l + 1 /\ A[1] = s /\ \A i \in 2..(l + 1) : A[i] = D[i - 1]
    <3>1. A \in Seq(T) /\ Len(A) = 1 + Len(D) /\ A[1] = s /\ \A i \in 2..Len(A) : A[i] = D[i - 1]
      BY ONLY <2>1, <1>4, <1>7, InFront
    <3>2. 1 + Len(D) = l + 1
      BY <1>2, <1>7
    <3> QED
      BY <3>1, <3>2
  <2>3. ASSUME NEW i \in 1..(l + 1) PROVE DD[i] = A[i]
    <3>1. PICK k : k = l + 1 + 1 - i
      OBVIOUS
    <3>2. k \in 1..(l + 1)
      BY <3>1, <1>2
    <3>3. SubdomainAt(n, k)' = IF k = l + 1 THEN s ELSE SubdomainAt(outer, k)
      BY <3>2, <1>8
    <3>4. DD[i] = SubdomainAt(n, k)'
      BY <3>1, <1>9
    <3>5. CASE i = 1
      <4>1. k = l + 1
        BY <3>1, <3>5, <1>2
      <4> QED
        BY <3>3, <3>4, <3>5, <4>1, <2>2
    <3>6. CASE i # 1
      <4>1. i \in 2..(l + 1) /\ i - 1 \in 1..l /\ k # l + 1 /\ k = l + 1 - (i - 1)
        BY ONLY <3>1, <3>6, <1>2, i \in 1..(l + 1)
      <4>2. D[i - 1] = SubdomainAt(outer, l + 1 - (i - 1))
        BY <4>1, <1>1, <1>6 DEF SubdomainsOf
      <4> QED
        BY <3>3, <3>4, <4>1, <4>2, <2>2
    <3> QED
      BY <3>5, <3>6
  <2>4. \A i \in 1..(l + 1) : A[i] \in T
    BY <2>2
  <2>5. DD \in Seq(T) /\ Len(DD) = l + 1
    <3>1. \A i \in 1..(l + 1) : DD[i] \in T
      BY <2>3, <2>4
    <3>2. DD = [i \in 1..(l + 1) |-> DD[i]] /\ l + 1 \in Nat
      BY <1>2, <1>9
    <3> QED
      BY ONLY <3>1, <3>2, Listed
  <2> QED
    BY <2>1, <2>2, <2>3, <2>5, Equal
<1>13. Concat(PP) = Concat(P) \o p
  BY <1>1, <1>4, <1>7, <1>11, ConcatLast
<1>14. Concat(DD) = s \o Concat(D)
  BY <1>1, <1>4, <1>7, <1>12, ConcatFirst
<1>15. FullPrefix(outer) = Concat(P) /\ FullSubdomain(outer) = Concat(D)
  BY <1>6 DEF FullPrefix, FullSubdomain, PrefixesOf, SubdomainsOf
<1> QED
  BY <1>3, <1>10, <1>13, <1>14, <1>15 DEF Join

LEMMA FullTyped ==
    ASSUME IInv, NamesNested, NEW n, n = Root \/ n \in Names
    PROVE  /\ FullPrefix(n) \in Seq(STRING) /\ FullSubdomain(n) \in Seq(STRING)
           /\ n = Root => FullPrefix(n) = <<>> /\ FullSubdomain(n) = <<>>
<1>1. PICK P, D : P = PrefixesOf(n) /\ D = SubdomainsOf(n)
  OBVIOUS
<1>2. P \in Seq(Seq(STRING)) /\ D \in Seq(Seq(STRING)) /\ Len(P) = Len(n) /\ Len(D) = Len(n)
  BY <1>1, PartsTyped
<1>3. FullPrefix(n) = Concat(P) /\ FullSubdomain(n) = Concat(D)
  BY <1>1 DEF FullPrefix, FullSubdomain, PrefixesOf, SubdomainsOf
<1>4. n = Root => P = <<>> /\ D = <<>>
  BY <1>2 DEF Root
<1> QED
  BY <1>2, <1>3, <1>4, ConcatTyped, ConcatNone

\* A deferred rule, as it is added under a name.
RuleOf(n, d) ==
    [Rule(Append(n, d.ep), FullPrefix(n), FullSubdomain(n), d.view) EXCEPT !.added = TRUE]

\* All rules a name's blueprint deferred are in the map.
AllMapped(n) ==
    \A i \in DOMAIN own[Entry(n).bp].deferred :
        LET d == own[Entry(n).bp].deferred[i] IN d.kind = "rule" => RuleOf(n, d) \in rules

\* A registration works with the prefixes of its name, and has added the rules it passed.
Located(f)  == f.prefix = FullPrefix(f.name) /\ f.subdomain = FullSubdomain(f.name)
MappedTo(f) ==
    \A i \in DOMAIN own[f.bp].deferred :
        LET d == own[f.bp].deferred[i] IN
        d.kind = "rule" /\ i + MergeAt(f) < f.at => RuleOf(f.name, d) \in rules

RulesInv ==
    /\ \A f \in {stack[k] : k \in DOMAIN stack} : Located(f) /\ MappedTo(f)
    /\ \A n \in done : AllMapped(n)

LEMMA RulesGrow == ASSUME [Next]_vars PROVE rules \subseteq rules'
<1>1. CASE UNCHANGED rules
  BY <1>1
<1>2. ASSUME NEW r, MapRule(r) PROVE rules \subseteq rules'
  BY <1>2 DEF MapRule
<1>3. CASE AppSetup
  <2>1. ASSUME NEW t, AddHook(App, t) PROVE rules' = rules
    BY <2>1 DEF AddHook
  <2>2. ASSUME NEW e \in EndpointNames, add_url_rule(e) PROVE rules \subseteq rules'
    BY <1>2, <2>2 DEF add_url_rule
  <2>3. ASSUME NEW b \in BPs, NEW opts \in Options, register_blueprint(b, opts)
        PROVE  rules' = rules
    BY <2>3 DEF register_blueprint, tables
  <2> QED
    BY <1>3, <2>1, <2>2, <2>3 DEF AppSetup, teardown_appcontext, shell_context_processor,
       template_filter, template_test, template_global
<1>4. CASE Registration
  <2>1. CASE DeferredRule
    BY <1>1, <1>2, <2>1 DEF DeferredRule
  <2>2. CASE ~DeferredRule
    BY <1>4, <2>2 DEF Registration, RegisterChild, _merge_blueprint_funcs, DeferredOnce,
       DeferredHandler, DeferredRaise, RegisterCommands, RegisterReturns, tables
  <2> QED
    BY <2>1, <2>2
<1>5. CASE _check_setup_finished \/ FirstRequest \/ ServerReset \/ UNCHANGED vars
  BY <1>5 DEF _check_setup_finished, FirstRequest, ServerReset, vars, tables
<1> QED
  BY <1>3, <1>4, <1>5, SharedKeepRules, BlueprintKeepsTables DEF Next, tables

LEMMA RuleStays ==
    ASSUME IInv, IInv', NamesNested, [Next]_vars, NEW n \in Names, NEW d
    PROVE  RuleOf(n, d)' = RuleOf(n, d)
BY FullStays DEF RuleOf

\* Whatever is registered has deferred all that it will.
LEMMA DeferredStay ==
    ASSUME IInv, [Next]_vars, NEW b \in BPs, own[b].once
    PROVE  own'[b].deferred = own[b].deferred
BY Calms, MergeEffect DEF Calm

LEMMA OnceOf == ASSUME IInv, NEW n \in Names PROVE own[Entry(n).bp].once
<1>1. PICK i \in DOMAIN blueprints : n = blueprints[i].name
  BY DEF Names
<1> QED
  BY <1>1, EntryOf DEF IInv, EntriesOK

LEMMA AllStay ==
    ASSUME IInv, IInv', NamesNested, [Next]_vars, NEW n \in Names, AllMapped(n)
    PROVE  AllMapped(n)'
<1>1. PICK b, D : b = Entry(n).bp /\ D = own[b].deferred
  OBVIOUS
<1>2. b \in BPs /\ own'[b].deferred = D /\ Entry(n)'.bp = b
  BY <1>1, NameTyped, OnceOf, DeferredStay, EntryStays
<1>3. ASSUME NEW i \in DOMAIN D, D[i].kind = "rule" PROVE RuleOf(n, D[i])' \in rules'
  <2>1. PICK d : d = D[i]
    OBVIOUS
  <2>2. RuleOf(n, d)' = RuleOf(n, d)
    BY RuleStays
  <2>3. RuleOf(n, d) \in rules
    BY <1>1, <1>3, <2>1 DEF AllMapped
  <2> QED
    BY <2>1, <2>2, <2>3, RulesGrow
<1> QED
  BY <1>2, <1>3 DEF AllMapped

LEMMA FrameStays ==
    ASSUME IInv, IInv', NamesNested, [Next]_vars, NEW f \in Frames, FrameOK(f),
           Located(f), MappedTo(f)
    PROVE  Located(f)' /\ MappedTo(f)'
<1>1. PICK n, b, D : n = f.name /\ b = f.bp /\ D = own[b].deferred
  OBVIOUS
<1>2. n \in Names /\ b \in BPs /\ Entry(n).bp = b
  <2>1. PICK i \in DOMAIN blueprints : blueprints[i].name = n /\ blueprints[i].bp = b
    BY <1>1 DEF FrameOK
  <2> QED
    BY <2>1, <1>1, EntryOf DEF IInv, Names, Frames
<1>3. own'[b].deferred = D
  BY <1>1, <1>2, OnceOf, DeferredStay
<1>4. FullPrefix(n)' = FullPrefix(n) /\ FullSubdomain(n)' = FullSubdomain(n)
  BY <1>2, FullStays
<1>5. Located(f)'
  BY <1>1, <1>4 DEF Located
<1>6. ASSUME NEW i \in DOMAIN D, D[i].kind = "rule", i + MergeAt(f) < f.at
      PROVE  RuleOf(n, D[i])' \in rules'
  <2>1. PICK d : d = D[i]
    OBVIOUS
  <2>2. RuleOf(n, d)' = RuleOf(n, d)
    BY <1>2, RuleStays
  <2>3. RuleOf(n, d) \in rules
    BY <1>1, <1>6, <2>1 DEF MappedTo
  <2> QED
    BY <2>1, <2>2, <2>3, RulesGrow
<1>7. MappedTo(f)'
  BY <1>1, <1>3, <1>6 DEF MappedTo, MergeAt
<1> QED
  BY <1>5, <1>7

\* The start of a registration, of the application or of a registration that waits for it.
OpensAs(b, opts, given, outer, over) ==
    /\ \/ outer = Root /\ over = <<>> /\ opts = given
       \/ /\ Doing("child") /\ outer = Top.name /\ over = Advanced
          /\ opts = Within(Top, b, given)
    /\ stack' = Append(over, State(b, opts, FullName(b, opts, outer), ~Taken(b)))
    /\ FullName(b, opts, outer) \notin Names
    /\ blueprints' =
          Append(blueprints, [name |-> FullName(b, opts, outer), bp |-> b, opts |-> given])

Opens ==
    \E b \in BPs, opts \in OptRecords, given \in Options :
        \E outer, over : OpensAs(b, opts, given, outer, over)

\* A step that leaves the innermost registration one step further.
Passes ==
    /\ stack # <<>> /\ stack' = Advanced /\ Top.at \in DOMAIN Todo(Top)
    /\ Current.kind = "rule" =>
          [Rule(Append(Top.name, Current.ep), Top.prefix, Top.subdomain, Current.view)
              EXCEPT !.added = TRUE] \in rules'

LEMMA BeginMoves ==
    ASSUME NEW b, NEW opts, NEW given, NEW outer, NEW over, Begin(b, opts, given, outer, over)
    PROVE  \/ stack' = <<>>
           \/ /\ stack' = Append(over, State(b, opts, FullName(b, opts, outer), ~Taken(b)))
              /\ FullName(b, opts, outer) \notin Names
              /\ blueprints' = Append(blueprints, [name |-> FullName(b, opts, outer), bp |-> b,
                                                   opts |-> given])
BY DEF Begin

LEMMA SetupMoves ==
    ASSUME NEW o, SharedSetup(o) \/ BlueprintSetup(o) PROVE UNCHANGED <<stack, done>>
<1>1. ASSUME NEW p, Setup(p) PROVE UNCHANGED <<stack, done>>
  BY <1>1 DEF Setup, history
<1>2. ASSUME NEW p, NEW t, AddHook(p, t) PROVE UNCHANGED <<stack, done>>
  BY <1>1, <1>2 DEF AddHook
<1>3. ASSUME NEW p, NEW d, record(p, d) PROVE UNCHANGED <<stack, done>>
  BY <1>1, <1>3 DEF record
<1>4. ASSUME NEW p, NEW t, OnceFor(p, t) PROVE UNCHANGED <<stack, done>>
  BY <1>3, <1>4 DEF OnceFor, record_once
<1>5. CASE SharedSetup(o)
  BY <1>1, <1>2, <1>5 DEF SharedSetup, before_request, after_request, teardown_request,
     context_processor, url_value_preprocessor, url_defaults, command, register_error_handler,
     endpoint
<1>6. CASE BlueprintSetup(o)
  BY <1>1, <1>3, <1>4, <1>6 DEF BlueprintSetup, before_app_request, after_app_request,
     teardown_app_request, app_context_processor, app_url_value_preprocessor,
     app_url_defaults, app_template_filter, app_template_test, app_template_global,
     app_errorhandler, route, record_raising, nest
<1> QED
  BY <1>5, <1>6

LEMMA RuleMoves == ASSUME IInv, DeferredRule PROVE stack' = <<>> \/ Passes
<1>1. PICK r : r = Rule(Append(Top.name, Current.ep), Top.prefix, Top.subdomain, Current.view)
  OBVIOUS
<1>2. CASE stack' = <<>>
  BY <1>2
<1>3. CASE ~Clash(r) /\ Advance /\ MapRule(r)
  <2>1. [r EXCEPT !.added = ~Clash(r)] = [r EXCEPT !.added = TRUE]
    <3>1. (~Clash(r)) = TRUE
      BY <1>3 DEF Clash
    <3> QED
      BY <3>1
  <2>2. [r EXCEPT !.added = TRUE] \in rules'
    BY <1>3, <2>1 DEF MapRule
  <2> QED
    BY <1>1, <1>3, <2>2, AtMerge DEF DeferredRule, Refused, Advance, Passes, IInv
<1> QED
  BY <1>1, <1>2, <1>3 DEF DeferredRule, Refused, Abort

LEMMA Moves ==
    ASSUME IInv, [Next]_vars
    PROVE  \/ (stack' = stack \/ stack' = <<>> \/ Passes \/ Opens) /\ done' = done
           \/ RegisterReturns
<1>1. CASE UNCHANGED <<stack, done>>
  BY <1>1
<1>2. CASE AppSetup
  <2>1. ASSUME NEW t, AddHook(App, t) PROVE UNCHANGED <<stack, done>>
    BY <2>1 DEF AddHook, Setup, history
  <2>2. ASSUME NEW e, add_url_rule(e) PROVE UNCHANGED <<stack, done>>
    BY <2>2 DEF add_url_rule, Setup, history
  <2>3. ASSUME NEW b \in BPs, NEW opts \in Options, register_blueprint(b, opts)
        PROVE  (stack' = <<>> \/ Opens) /\ done' = done
    <3>0. PICK over : over = <<>>
      OBVIOUS
    <3>1. Begin(b, opts, opts, Root, over) /\ done' = done /\ opts \in OptRecords
      BY <2>3, <3>0, OptionsTyped DEF register_blueprint
    <3>2. \/ stack' = <<>>
          \/ /\ stack' = Append(over, State(b, opts, FullName(b, opts, Root), ~Taken(b)))
             /\ FullName(b, opts, Root) \notin Names
             /\ blueprints' = Append(blueprints, [name |-> FullName(b, opts, Root), bp |-> b,
                                                  opts |-> opts])
      BY <3>1, BeginMoves
    <3> QED
      BY <3>0, <3>1, <3>2 DEF Opens, OpensAs
  <2> QED
    BY <1>1, <1>2, <2>1, <2>2, <2>3 DEF AppSetup, teardown_appcontext, shell_context_processor,
       template_filter, template_test, template_global
<1>3. CASE Registration
  <2>1. CASE RegisterChild
    <3>1. PICK b, given, opts : b = Current.bp /\ given = Current.opts /\ opts = Within(Top, b, given)
      OBVIOUS
    <3>2. /\ Doing("child") /\ Begin(b, opts, given, Top.name, Advanced) /\ done' = done
      BY <2>1, <3>1 DEF RegisterChild
    <3>3. b \in BPs /\ given \in Options /\ opts \in OptRecords
      <4>1. Top \in Frames /\ Current \in Children
        BY <3>2, AtMerge DEF IInv
      <4>2. b \in BPs /\ given \in Options
        BY <4>1, <3>1 DEF Children
      <4> QED
        BY <4>1, <4>2, <3>1, WithinTyped
    <3>4. PICK outer, over : outer = Top.name /\ over = Advanced
      OBVIOUS
    <3>5. \/ stack' = <<>>
          \/ /\ stack' = Append(over, State(b, opts, FullName(b, opts, outer), ~Taken(b)))
             /\ FullName(b, opts, outer) \notin Names
             /\ blueprints' = Append(blueprints, [name |-> FullName(b, opts, outer), bp |-> b,
                                                  opts |-> given])
      BY <3>2, <3>4, BeginMoves
    <3> QED
      BY <3>1, <3>2, <3>3, <3>4, <3>5 DEF Opens, OpensAs
  <2>2. CASE DeferredRule
    BY <2>2, RuleMoves DEF DeferredRule
  <2>3. ASSUME NEW kind, Doing(kind), kind # "rule", Advance PROVE Passes
    BY <2>3, AtMerge DEF Advance, Passes, Current, IInv
  <2>4. CASE _merge_blueprint_funcs \/ RegisterCommands
    BY <2>3, <2>4 DEF _merge_blueprint_funcs, RegisterCommands
  <2>5. CASE DeferredOnce \/ DeferredHandler \/ DeferredRaise
    BY <2>3, <2>5 DEF DeferredOnce, DeferredHandler, DeferredRaise, Refused, Abort
  <2> QED
    BY <1>3, <2>1, <2>2, <2>4, <2>5 DEF Registration
<1>4. CASE _check_setup_finished \/ FirstRequest \/ ServerReset \/ UNCHANGED vars
  BY <1>1, <1>4 DEF _check_setup_finished, FirstRequest, ServerReset, vars, history
<1> QED
  BY <1>1, <1>2, <1>3, <1>4, SetupMoves DEF Next

LEMMA JoinNone ==
    ASSUME NEW S, NEW a \in Seq(S), NEW c \in Seq(S), Join(a, c) = <<>>
    PROVE  a = <<>> /\ c = <<>>
<1>1. PICK l, m : l = Len(a) /\ m = Len(c)
  OBVIOUS
<1>2. l \in Nat /\ m \in Nat
  BY <1>1
<1>3. Len(<<>>) = l + m /\ Len(<<>>) = 0
  BY <1>1, Behind
<1>4. l = 0 /\ m = 0
  BY <1>2, <1>3
<1>5. \A s \in Seq(S) : Len(s) = 0 => s = <<>>
  OBVIOUS
<1> QED
  BY <1>1, <1>4, <1>5

LEMMA PassedRules ==
    ASSUME IInv, IInv', NamesNested, [Next]_vars, RulesInv, stack # <<>>,
           Top.at \in DOMAIN Todo(Top), NEW t, t = Top.name, NEW d, d = Current,
           d.kind = "rule" => RuleOf(t, d) \in rules',
           NEW k \in DOMAIN Advanced, NEW g, g = Advanced[k]
    PROVE  Located(g)' /\ MappedTo(g)'
<1>1. PICK f : f = Top
  OBVIOUS
<1>2. /\ f \in Frames /\ f = stack[Len(stack)] /\ Len(stack) \in DOMAIN stack
      /\ FrameOK(f)
  BY <1>1, TopFacts DEF IInv, Running
<1>3. CASE k # Len(stack)
  <2>1. k \in DOMAIN stack /\ g = stack[k]
    BY <1>3, AdvancedFacts DEF IInv
  <2>2. g \in Frames /\ FrameOK(g)
    BY <2>1 DEF IInv, Typed, Running
  <2>3. Located(g) /\ MappedTo(g)
    BY <2>1 DEF RulesInv
  <2> QED
    BY <2>2, <2>3, FrameStays
<1>4. CASE k = Len(stack)
  <2>1. /\ g.name = f.name /\ g.bp = f.bp /\ g.at = f.at + 1
    BY <1>1, <1>4, AdvancedFacts DEF IInv
  <2>2. g.prefix = f.prefix /\ g.subdomain = f.subdomain
    <3>1. PICK h : h = [f EXCEPT !.at = f.at + 1]
      OBVIOUS
    <3>2. h.prefix = f.prefix /\ h.subdomain = f.subdomain
      BY <3>1, <1>2 DEF Frames
    <3>3. Advanced = [stack EXCEPT ![Len(stack)] = h]
      BY <3>1, <1>2 DEF Advanced
    <3>4. g = h
      BY <3>3, <1>2, <1>4
    <3> QED
      BY <3>2, <3>4
  <2>3. Located(f)' /\ MappedTo(f)'
    <3>1. Located(f) /\ MappedTo(f)
      BY <1>2 DEF RulesInv
    <3> QED
      BY <3>1, <1>2, FrameStays
  <2>4. PICK n, b, D, m : n = f.name /\ b = f.bp /\ D = own[b].deferred /\ m = MergeAt(f)
    OBVIOUS
  <2>5. n \in Names /\ b \in BPs /\ own'[b].deferred = D
    <3>1. PICK i \in DOMAIN blueprints : blueprints[i].name = n /\ blueprints[i].bp = b
      BY <1>2, <2>4 DEF FrameOK
    <3>2. n \in Names /\ Entry(n).bp = b
      BY <3>1, EntryOf DEF IInv, Names
    <3>3. b \in BPs /\ own[b].once
      BY <3>2, NameTyped, OnceOf
    <3> QED
      BY <3>2, <3>3, <2>4, DeferredStay
  <2>6. Located(g)'
    BY <2>1, <2>2, <2>3 DEF Located
  <2>7. ASSUME NEW i \in DOMAIN D, D[i].kind = "rule", i + m < f.at + 1
        PROVE  RuleOf(n, D[i])' \in rules'
    <3>1. PICK w : w = D[i]
      OBVIOUS
    <3>2. /\ Len(D) \in Nat /\ DOMAIN D = 1..Len(D) /\ m \in Nat /\ f.at \in Nat
          /\ \/ f.at < m /\ Todo(f)[f.at] = StaticRule
             \/ f.at = m /\ Todo(f)[f.at].kind = "merge"
             \/ f.at - m \in DOMAIN D /\ Todo(f)[f.at] = D[f.at - m]
             \/ f.at = m + 1 + Len(D) /\ Todo(f)[f.at].kind = "cli"
             \/ f.at > m + 1 + Len(D) /\ Todo(f)[f.at] \in Children
      BY <1>1, <1>2, <2>4, TodoAt DEF IInv, Frames
    <3>3. i \in 1..Len(D)
      BY <3>2
    <3>4. i + m < f.at \/ i = f.at - m
      BY ONLY <3>2, <3>3, <2>7
    <3>5. CASE i + m < f.at
      <4>1. f.bp = b /\ f.name = n /\ MergeAt(f)' = m
        BY <2>4 DEF MergeAt
      <4> QED
        BY <4>1, <3>5, <2>3, <2>5, <2>7 DEF MappedTo
    <3>6. CASE i = f.at - m
      <4>1. /\ ~(f.at < m) /\ ~(f.at = m) /\ ~(f.at = m + 1 + Len(D))
            /\ ~(f.at > m + 1 + Len(D))
        BY ONLY <3>2, <3>3, <3>6
      <4>2. Todo(f)[f.at] = w
        BY <4>1, <3>1, <3>2, <3>6
      <4>3. w = d /\ t = n
        BY <4>2, <1>1, <2>4 DEF Current
      <4>4. RuleOf(n, w) \in rules'
        BY <4>3, <3>1, <2>7
      <4>5. RuleOf(n, w)' = RuleOf(n, w)
        BY <2>5, RuleStays
      <4> QED
        BY <4>4, <4>5, <3>1
    <3> QED
      BY <3>4, <3>5, <3>6
  <2>8. MappedTo(g)'
    <3>1. g.name = n /\ g.bp = b /\ g.at = f.at + 1 /\ MergeAt(g)' = m
      BY <2>1, <2>4 DEF MergeAt
    <3> QED
      BY <3>1, <2>5, <2>7 DEF MappedTo
  <2> QED
    BY <2>6, <2>8
<1> QED
  BY <1>3, <1>4

\* The state of a new registration has the prefix and the subdomain of its name.
LEMMA OpenedRules ==
    ASSUME IInv, IInv', NamesNested, [Next]_vars, RulesInv, Opens,
           NEW g \in {stack'[k] : k \in DOMAIN stack'}
    PROVE  Located(g)' /\ MappedTo(g)'
<1>0. PICK b \in BPs, opts \in OptRecords, given \in Options :
        \E outer, over : OpensAs(b, opts, given, outer, over)
  BY DEF Opens
<1>20. PICK outer, over : OpensAs(b, opts, given, outer, over)
  BY <1>0
<1>1.   /\ \/ outer = Root /\ over = <<>> /\ opts = given
           \/ /\ Doing("child") /\ outer = Top.name /\ over = Advanced
              /\ opts = Within(Top, b, given)
        /\ stack' = Append(over, State(b, opts, FullName(b, opts, outer), ~Taken(b)))
        /\ FullName(b, opts, outer) \notin Names
        /\ blueprints' =
              Append(blueprints, [name |-> FullName(b, opts, outer), bp |-> b, opts |-> given])
  BY <1>20 DEF OpensAs
<1>2. PICK n, e, f : /\ n = FullName(b, opts, outer)
                     /\ e = [name |-> n, bp |-> b, opts |-> given]
                     /\ f = State(b, opts, n, ~Taken(b))
  OBVIOUS
<1>3. Around(outer) /\ outer \in Seq(STRING) /\ (outer = Root \/ outer \in Names)
  <2>1. CASE outer = Root
    BY <2>1 DEF Root, Around
  <2>2. CASE Doing("child") /\ outer = Top.name
    BY <2>2, ChildAround, NameTyped
  <2> QED
    BY <1>1, <2>1, <2>2
<1>4. PICK x : x = IF opts.name = None THEN Name[b] ELSE opts.name
  OBVIOUS
<1>5. x \in STRING /\ n = Append(outer, x)
  BY <1>2, <1>4, NameAssumption DEF OptRecords, FullName
<1>6. n \in Seq(STRING) /\ f \in Frames
  <2>1. PICK first : first = ~Taken(b)
    OBVIOUS
  <2>2. first \in BOOLEAN
    BY <2>1 DEF Taken
  <2> QED
    BY <2>1, <2>2, <1>2, <1>3, NewFrame
<1>7. NewEntry(e)
  <2>1. e \in Entries /\ e.name = n
    BY <1>2, <1>6 DEF Entries
  <2> QED
    BY <2>1, <1>1, <1>2, <1>3, <1>5 DEF NewEntry
<1>8. PICK p, s : p = Own(given.prefix, Prefix[b]) /\ s = Own(given.subdomain, Subdomain[b])
  OBVIOUS
<1>9. /\ FullPrefix(n)' = Join(FullPrefix(outer), p)
      /\ FullSubdomain(n)' = Join(s, FullSubdomain(outer))
  <2>1. e.name = n /\ e.bp = b /\ e.opts = given
    BY <1>2
  <2> QED
    BY <2>1, <1>3, <1>5, <1>7, <1>8, FullOfNew
<1>10. /\ Prefix[b] \in Seq(STRING) /\ Subdomain[b] \in Seq(STRING)
       /\ given.prefix \in Seq(STRING) /\ given.subdomain \in Seq(STRING)
       /\ p \in Seq(STRING) /\ s \in Seq(STRING)
  BY <1>8, NameAssumption DEF Own
<1>11. PICK q, r : q = FullPrefix(n)' /\ r = FullSubdomain(n)'
  OBVIOUS
<1>12. f.prefix = q /\ f.subdomain = r
  <2>1. /\ f.prefix = Own(opts.prefix, Prefix[b]) /\ f.subdomain = Own(opts.subdomain, Subdomain[b])
    BY <1>2 DEF State, Own
  <2>2. CASE outer = Root /\ opts = given
    <3>1. FullPrefix(outer) = <<>> /\ FullSubdomain(outer) = <<>>
      BY <2>2, FullTyped
    <3>2. Join(<<>>, p) = p /\ Join(s, <<>>) = s
      BY <1>10, JoinEmpty DEF Join
    <3> QED
      BY <2>1, <2>2, <3>1, <3>2, <1>8, <1>9, <1>11
  <2>3. CASE Doing("child") /\ outer = Top.name /\ opts = Within(Top, b, given)
    <3>1. PICK u : u = Top
      OBVIOUS
    <3>2. /\ u \in Frames /\ u = stack[Len(stack)] /\ Len(stack) \in DOMAIN stack
      BY <2>3, <3>1, AtMerge, TopFacts DEF IInv
    <3>3. u.prefix = FullPrefix(outer) /\ u.subdomain = FullSubdomain(outer)
      BY <2>3, <3>1, <3>2 DEF RulesInv, Located
    <3>4. opts.prefix = Join(u.prefix, p) /\ opts.subdomain = Join(s, u.subdomain)
      BY <2>3, <3>1, <1>8 DEF Within, Join, Own
    <3>5. opts.prefix = q /\ opts.subdomain = r
      BY <3>3, <3>4, <1>9, <1>11
    <3>6. u.prefix \in Seq(STRING) /\ u.subdomain \in Seq(STRING)
      BY <3>2 DEF Frames
    <3>7. (q = <<>> => p = <<>>) /\ (r = <<>> => s = <<>>)
      BY <3>4, <3>5, <3>6, <1>10, JoinNone
    <3>8. (p = <<>> => Prefix[b] = <<>>) /\ (s = <<>> => Subdomain[b] = <<>>)
      BY <1>8 DEF Own
    <3> QED
      BY <2>1, <3>5, <3>7, <3>8 DEF Own
  <2> QED
    BY <1>1, <2>2, <2>3
<1>13. f.name = n /\ f.bp = b /\ f.at = 1
  BY <1>2 DEF State
<1>14. Located(f)' /\ MappedTo(f)'
  <2>1. Located(f)'
    <3>1. f.prefix = FullPrefix(n)' /\ f.subdomain = FullSubdomain(n)'
      BY <1>11, <1>12
    <3> QED
      BY <3>1, <1>13 DEF Located
  <2>2. own'[b].deferred \in Seq(Deferred)
    BY DEF IInv, Typed, OwnRecord
  <2>3. \A i \in DOMAIN own'[b].deferred : i \in Nat \ {0}
    BY <2>2
  <2>4. MergeAt(f) \in Nat /\ MergeAt(f)' = MergeAt(f)
    BY DEF MergeAt
  <2>5. \A i \in DOMAIN own'[b].deferred : ~(i + MergeAt(f) < f.at)
    BY <2>3, <2>4, <1>13
  <2>6. MappedTo(f)'
    BY <2>4, <2>5, <1>13 DEF MappedTo
  <2> QED
    BY <2>1, <2>6
<1>15. g = f \/ \E k \in DOMAIN over : g = over[k]
  <2>1. over \in Seq(Frames)
    <3>1. CASE over = <<>>
      BY <3>1
    <3>2. CASE Doing("child") /\ over = Advanced
      BY <3>2, AdvancedFacts DEF IInv, Doing
    <3> QED
      BY <1>1, <3>1, <3>2
  <2>2. stack' = Append(over, f)
    BY <1>1, <1>2
  <2>3. PICK k \in DOMAIN stack' : g = stack'[k]
    OBVIOUS
  <2> QED
    BY <2>1, <2>2, <2>3, <1>6, AddedLast
<1>16. ASSUME NEW k \in DOMAIN over, g = over[k] PROVE Located(g)' /\ MappedTo(g)'
  <2>1. over = Advanced /\ Doing("child")
    BY <1>1, <1>16
  <2>2. PICK t, d : t = Top.name /\ d = Current
    OBVIOUS
  <2>3. stack # <<>> /\ Top.at \in DOMAIN Todo(Top) /\ d.kind = "child"
    BY <2>1, <2>2, AtMerge DEF IInv, Current
  <2> QED
    BY <2>1, <2>2, <2>3, <1>16, PassedRules
<1> QED
  BY <1>14, <1>15, <1>16

LEMMA RulesKept ==
    IInv /\ IInv' /\ NamesNested /\ RulesInv /\ [Next]_vars => RulesInv'
<1> SUFFICES ASSUME IInv, IInv', NamesNested, RulesInv, [Next]_vars PROVE RulesInv'
  OBVIOUS
<1>1. ASSUME NEW n \in done PROVE AllMapped(n)'
  <2>1. n \in Names /\ AllMapped(n)
    BY DEF IInv, DoneOK, RulesInv
  <2> QED
    BY <2>1, AllStay
<1>2. ASSUME NEW k \in DOMAIN stack, NEW g, g = stack[k] PROVE Located(g)' /\ MappedTo(g)'
  <2>1. g \in Frames /\ FrameOK(g) /\ Located(g) /\ MappedTo(g)
    BY <1>2 DEF IInv, Typed, Running, RulesInv
  <2> QED
    BY <2>1, FrameStays
<1>3. ASSUME (stack' = stack \/ stack' = <<>> \/ Passes \/ Opens) /\ done' = done
      PROVE  RulesInv'
  <2>1. ASSUME NEW g \in {stack'[k] : k \in DOMAIN stack'} PROVE Located(g)' /\ MappedTo(g)'
    <3>1. CASE stack' = stack
      BY <2>1, <3>1, <1>2
    <3>2. CASE stack' = <<>>
      BY <2>1, <3>2
    <3>3. CASE Opens
      BY <2>1, <3>3, OpenedRules
    <3>4. CASE Passes
      <4>1. PICK t, d : t = Top.name /\ d = Current
        OBVIOUS
      <4>2. PICK k \in DOMAIN Advanced : g = Advanced[k]
        BY <2>1, <3>4 DEF Passes
      <4>3. ASSUME d.kind = "rule" PROVE RuleOf(t, d) \in rules'
        <5>1. Located(Top)
          <6>1. stack # <<>>
            BY <3>4 DEF Passes
          <6>2. Len(stack) \in DOMAIN stack /\ Top = stack[Len(stack)]
            BY <6>1, TopFacts DEF IInv
          <6> QED
            BY <6>2 DEF RulesInv
        <5> QED
          BY <3>4, <4>1, <4>3, <5>1 DEF Passes, RuleOf, Located
      <4> QED
        BY <3>4, <4>1, <4>2, <4>3, PassedRules DEF Passes
    <3> QED
      BY <1>3, <3>1, <3>2, <3>3, <3>4
  <2> QED
    BY <1>1, <1>3, <2>1 DEF RulesInv
<1>4. CASE RegisterReturns
  <2>1. /\ stack # <<>> /\ Top.at \notin DOMAIN Todo(Top)
        /\ stack' = SubSeq(stack, 1, Len(stack) - 1) /\ done' = done \cup {Top.name}
    BY <1>4 DEF RegisterReturns
  <2>2. PICK f : f = Top
    OBVIOUS
  <2>3. /\ f \in Frames /\ Len(stack) \in DOMAIN stack /\ f = stack[Len(stack)]
        /\ stack \in Seq(Frames)
    BY <2>1, <2>2, TopFacts DEF IInv, Typed
  <2>4. ASSUME NEW g \in {stack'[k] : k \in DOMAIN stack'} PROVE Located(g)' /\ MappedTo(g)'
    <3>1. PICK k \in DOMAIN stack' : g = stack'[k]
      BY <2>4
    <3>2. k \in DOMAIN stack /\ g = stack[k]
      BY <2>1, <2>3, <3>1
    <3> QED
      BY <3>2, <1>2
  <2>5. PICK n, b, D, m : n = f.name /\ b = f.bp /\ D = own[b].deferred /\ m = MergeAt(f)
    OBVIOUS
  <2>6. Located(f) /\ MappedTo(f) /\ FrameOK(f)
    BY <2>3 DEF RulesInv, IInv, Running
  <2>7. n \in Names /\ Entry(n).bp = b
    <3>1. PICK i \in DOMAIN blueprints : blueprints[i].name = n /\ blueprints[i].bp = b
      BY <2>5, <2>6 DEF FrameOK
    <3> QED
      BY <3>1, EntryOf DEF IInv, Names
  <2>8. \A i \in DOMAIN D : i + m < f.at
    <3>1. PICK c : c = Len(own[f.bp].children)
      OBVIOUS
    <3>2. /\ Len(D) \in Nat /\ DOMAIN D = 1..Len(D) /\ m \in Nat /\ c \in Nat
          /\ Len(Todo(f)) = m + 1 + Len(D) + c /\ DOMAIN Todo(f) = 1..Len(Todo(f))
      BY <2>3, <2>5, <3>1, TodoAt DEF IInv
    <3>3. f.at \in Nat \ {0} /\ f.at \notin 1..Len(Todo(f))
      BY <2>1, <2>2, <2>3, <3>2 DEF Frames
    <3> QED
      BY ONLY <3>2, <3>3
  <2>9. AllMapped(n)
    BY <2>5, <2>6, <2>7, <2>8 DEF AllMapped, MappedTo
  <2>10. AllMapped(n)'
    BY <2>7, <2>9, AllStay
  <2>11. done' = done \cup {n}
    BY <2>1, <2>2, <2>5
  <2> QED
    BY <1>1, <2>4, <2>10, <2>11 DEF RulesInv
<1> QED
  BY <1>3, <1>4, Moves

LEMMA RulesMeant == ASSUME IInv, RulesInv PROVE RulesOfBlueprint
<1>1. ASSUME NEW n \in Replayed PROVE AllMapped(n)
  <2>1. CASE n \in done
    BY <2>1 DEF RulesInv
  <2>2. CASE n \notin done
    <3>1. PICK k \in DOMAIN stack :
             /\ stack[k].name = n
             /\ stack[k].at + Len(own[stack[k].bp].children) > Len(Todo(stack[k]))
      BY <2>2 DEF Replayed
    <3>2. PICK f : f = stack[k]
      OBVIOUS
    <3>3. f \in Frames /\ FrameOK(f) /\ MappedTo(f) /\ f.name = n
      BY <3>1, <3>2 DEF IInv, Typed, Running, RulesInv
    <3>4. PICK b, D, m, c : /\ b = f.bp /\ D = own[b].deferred /\ m = MergeAt(f)
                            /\ c = Len(own[f.bp].children)
      OBVIOUS
    <3>5. Entry(n).bp = b
      <4>1. PICK i \in DOMAIN blueprints : blueprints[i].name = n /\ blueprints[i].bp = b
        BY <3>3, <3>4 DEF FrameOK
      <4> QED
        BY <4>1, EntryOf DEF IInv
    <3>6. \A i \in DOMAIN D : i + m < f.at
      <4>1. /\ Len(D) \in Nat /\ DOMAIN D = 1..Len(D) /\ m \in Nat /\ c \in Nat
            /\ Len(Todo(f)) = m + 1 + Len(D) + c
        BY <3>3, <3>4, TodoAt DEF IInv
      <4>2. f.at \in Nat /\ f.at + c > Len(Todo(f))
        BY <3>1, <3>2, <3>3, <3>4 DEF Frames
      <4> QED
        BY ONLY <4>1, <4>2
    <3> QED
      BY <3>3, <3>4, <3>5, <3>6 DEF AllMapped, MappedTo
  <2> QED
    BY <2>1, <2>2
<1> QED
  BY <1>1 DEF RulesOfBlueprint, AllMapped, RuleOf

\* The rules of a blueprint are in the map under every name that it is registered
\* under, with the prefixes and the subdomains of all levels, for any nesting.
THEOREM RulesMapped == Spec => []RulesOfBlueprint
<1>1. Init => RulesInv
  BY DEF Init, RulesInv
<1>2. IInv /\ RulesInv => RulesOfBlueprint
  BY RulesMeant
<1> QED
  BY Invariant, Nested, RulesKept, <1>1, <1>2, PTL DEF Spec
===============================================================================
