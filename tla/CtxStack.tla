------------------------------ MODULE CtxStack ------------------------------
(***************************************************************************)
(* What docs/appcontext.rst promises of contexts: each worker tracks them  *)
(* like a stack, with the active context at the top, and the teardown      *)
(* callbacks of a context run when it leaves the top of its stack.         *)
(***************************************************************************)
EXTENDS Naturals, Sequences

CONSTANTS Workers, Ctxs

VARIABLES stack,     \* [worker -> its contexts, the active one last]
          torn       \* [ctx -> times its teardown callbacks ran]

vars == <<stack, torn>>

OnStack(w) == {stack[w][i] : i \in 1..Len(stack[w])}

Init == /\ stack = [w \in Workers |-> << >>]
        /\ torn = [c \in Ctxs |-> 0]

Push(w, c) ==
    /\ \A v \in Workers : c \notin OnStack(v)
    /\ stack' = [stack EXCEPT ![w] = Append(@, c)]
    /\ UNCHANGED torn

Pop(w) ==
    /\ stack[w] # << >>
    /\ torn' = [torn EXCEPT ![stack[w][Len(stack[w])]] = @ + 1]
    /\ stack' = [stack EXCEPT ![w] = SubSeq(@, 1, Len(@) - 1)]

Next == \E w \in Workers : Pop(w) \/ \E c \in Ctxs : Push(w, c)

Spec == Init /\ [][Next]_vars
=============================================================================
