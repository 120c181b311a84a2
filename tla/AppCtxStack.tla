---------------------------- MODULE AppCtxStack ----------------------------
(***************************************************************************)
(* The linked list of tokens that AppCtx keeps implements the stack that   *)
(* CtxStack describes.                                                     *)
(***************************************************************************)
EXTENDS AppCtx

ASSUME FiniteAssumption == IsFiniteSet(Ctxs)

\* The context that was active before c, if any.
Below(c) == IF c \in Ctxs /\ token[c] \in Ctxs THEN token[c] ELSE NoCtx

\* The list of a worker, unfolded from its active context along the tokens.
Unfolded(w) ==
    LET at[i \in 0..Cardinality(Ctxs)] == IF i = 0 THEN active[w] ELSE Below(at[i - 1])
    IN  at

StackOf(w) ==
    LET at == Unfolded(w)
        depth == Cardinality({i \in 0..Cardinality(Ctxs) : at[i] # NoCtx})
    IN  [i \in 1..depth |-> at[depth - i]]

Abstract == INSTANCE CtxStack WITH stack <- [w \in Workers |-> StackOf(w)]

\* The contexts of each worker behave like a stack: a push by any caller either
\* leaves the stack alone or adds a context that is on no stack, and a context
\* leaves from the top of its own worker's stack, torn down exactly then
\* (AppContext.push and pop against docs/appcontext.rst).
RefinesStack == Abstract!Spec
=============================================================================
