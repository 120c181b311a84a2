---------------------------- MODULE MCCookieSession ----------------------------
(* Two requests of one browser, overlapping or not, in any order; and the    *)
(* values a session may hold, up to three containers deep.                   *)
EXTENDS SessionValues, TLC
CONSTANTS r1, r2, c1, c2
Symmetric == Permutations(Reqs) \cup Permutations(Categories)

MCPieces == STRING
Reg(c, f, i)  == [cls |-> c, force |-> f, front |-> i]
\* None; the tag of Foo, and then an OrderedDict at the front as the documentation
\* has it, or at the end, or another tag for dates in place of the first, or refused.
MCRegistrations ==
    { <<>> } \cup
    { << Reg("TagFoo", FALSE, FALSE) >> \o rs :
        rs \in { <<>>, << Reg("TagOrderedDict", FALSE, TRUE) >>,
                 << Reg("TagOrderedDict", FALSE, FALSE) >>,
                 << Reg("TagISO", TRUE, TRUE) >>, << Reg("TagISO", FALSE, TRUE) >> } }

Plain  == {Str(<<"x">>), Str(<<" t">>), Val("int", <<"1">>, <<>>), Unkeyed}
          \cup {Val(t, <<"x">>, <<>>) : t \in {"bytes", "Markup", "html", "UUID", "Decimal"}}
          \cup {Val("datetime", <<"x", us>>, <<>>) : us \in {"0", "5"}}
DictKeys == {Str(<<"x">>), Str(<<" t">>), Str(<<" di">>), Str(<<" od">>), Str(<<" f">>),
             Str(<<" t", "__">>), Str(<<" di", "__">>), Val("int", <<"1">>, <<>>)}
Empty     == {Val(t, <<>>, <<>>) : t \in {"dict", "odict", "list", "tuple"}}
Boxed(X) ==
    {Val(t, <<>>, <<Item(k, x)>>) : t \in {"dict", "odict"}, k \in DictKeys, x \in X}
    \cup {Val(t, <<>>, <<In(x)>>) : t \in {"list", "tuple"}, x \in X}
Wide(X) ==
    {Val(t, <<>>, <<Item(Str(<<" di">>), x), Item(Str(<<" t">>), y)>>) :
         t \in {"dict", "odict"}, x \in X, y \in X}
    \cup {Val("dataclass", <<>>, <<Item(Str(<<"x">>), x), Item(Str(<<"y">>), y)>>) : x \in X, y \in X}
    \cup {Val(t, <<>>, <<In(x), In(y)>>) : t \in {"list", "tuple"}, x \in X, y \in X}
Foos(X)   == {Val("Foo", <<>>, <<In(x)>>) : x \in X}
Shallow   == Plain \cup Empty \cup Boxed(Plain) \cup Wide(Plain)
Few       == {Str(<<"x">>), Val("bytes", <<"x">>, <<>>)}
MCSamples == Shallow \cup Boxed(Boxed(Boxed(Few))) \cup Boxed(Empty \cup Boxed(Plain) \cup Wide(Few))
             \cup Foos(Shallow) \cup Boxed(Foos(Boxed(Few)))
===============================================================================
