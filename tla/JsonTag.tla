------------------------------- MODULE JsonTag -------------------------------
(* The tagged JSON of flask/json/tag.py, in which a session is written into  *)
(* its cookie.  A value is its Python type, its atom (a sequence of pieces   *)
(* of text) and its items; a key is a value too.  The key " t__" is the      *)
(* sequence <<" t", "__">>.  What recurses over a value is a function of it, *)
(* made of what is done with one value when its items have been done.        *)
EXTENDS Naturals, Sequences

CONSTANTS Pieces,           \* pieces of text
          MaxDepth          \* bound: containers around a value that is written
ASSUME DepthAssumption == MaxDepth \in Nat

\* What the serializer itself writes is text.
ASSUME TextAssumption == {"__", "b64", "hex", "http", "iso", "str", "0", " di", " t", " b",
                          " m", " u", " d", " od", " f"} \subseteq Pieces

Val(t, a, s) == [t |-> t, a |-> a, s |-> s]
Str(a)       == Val("str", a, <<>>)
Unkeyed      == Val("none", <<>>, <<>>)
Item(k, v)   == [k |-> k, v |-> v]
In(v)        == Item(Unkeyed, v)              \* an element of a list or tuple
With(s, r)   == [i \in DOMAIN s |-> Item(s[i].k, r[i])]
Front(a)     == SubSeq(a, 1, Len(a) - 1)

------------------------------------------------------------------------------
(* The tag classes: those of default_tags, and three that an application may *)
(* register: the OrderedDict of the module's docstring, the Foo of           *)
(* tests/test_json_tag.py and a date with its microseconds.                  *)

default_tags == << "TagDict", "PassDict", "TagTuple", "PassList",
                   "TagBytes", "TagMarkup", "TagUUID", "TagDateTime" >>

KeyOf == [TagDict |-> <<" di">>, PassDict |-> <<>>, TagTuple |-> <<" t">>,
          PassList |-> <<>>, TagBytes |-> <<" b">>, TagMarkup |-> <<" m">>,
          TagUUID |-> <<" u">>, TagDateTime |-> <<" d">>,
          TagOrderedDict |-> <<" od">>, TagFoo |-> <<" f">>, TagISO |-> <<" d">>]

TagKeys == {KeyOf[c] : c \in DOMAIN KeyOf}

\* An OrderedDict is a dict; whatever has __html__ is taken for Markup.
Instances == [TagDict |-> {"dict", "odict"}, PassDict |-> {"dict", "odict"},
              TagTuple |-> {"tuple"}, PassList |-> {"list"},
              TagBytes |-> {"bytes"}, TagMarkup |-> {"Markup", "html"},
              TagUUID |-> {"UUID"}, TagDateTime |-> {"datetime"},
              TagOrderedDict |-> {"odict"}, TagFoo |-> {"Foo"}, TagISO |-> {"datetime"}]

\* A serializer S has the tags by key and the order in which they are tried.
check(S, c, v) ==
    /\ v.t \in Instances[c]
    /\ c = "TagDict" => Len(v.s) = 1 /\ v.s[1].k.t = "str" /\ v.s[1].k.a \in DOMAIN S.tags

Refuses(S, r) == KeyOf[r.cls] # <<>> /\ ~r.force /\ KeyOf[r.cls] \in DOMAIN S.tags
WithTag(S, r) ==
    IF KeyOf[r.cls] = <<>> THEN S.tags
    ELSE [k \in DOMAIN S.tags \cup {KeyOf[r.cls]} |-> IF k = KeyOf[r.cls] THEN r.cls ELSE S.tags[k]]
registerLast(S, r) ==                                             \* fault: the index is lost
    IF Refuses(S, r) THEN S
    ELSE [tags |-> WithTag(S, r), order |-> Append(S.order, r.cls)]
register(S, r) ==
    IF Refuses(S, r) THEN S                                       \* KeyError
    ELSE [tags  |-> WithTag(S, r),
          order |-> IF r.front THEN <<r.cls>> \o S.order ELSE Append(S.order, r.cls)]

Appended(c) == [cls |-> c, force |-> FALSE, front |-> FALSE]

\* __init__, and then what the application registers.
Registered(S, rs) ==
    LET s[i \in 0..Len(rs)] == IF i = 0 THEN S ELSE register(s[i - 1], rs[i])
    IN  s[Len(rs)]
Initial == Registered([tags |-> <<>>, order |-> <<>>],
                      [i \in DOMAIN default_tags |-> Appended(default_tags[i])])
Serializer(rs) == Registered(Initial, rs)

------------------------------------------------------------------------------
(* Values.                                                                   *)

Scalars == {"str", "int", "none", "Decimal", "bytes", "Markup", "html", "UUID"}
Lists   == {"list", "tuple"}
Maps    == {"dict", "odict", "dataclass"}
Types   == Lists \cup Maps \cup {"Foo"}

Leaves == [t : Scalars, a : Seq(Pieces), s : {<<>>}]
          \cup [t : {"datetime"}, a : Pieces \X Pieces, s : {<<>>}]

\* The keys of one dict are of one type, as they are sorted, and are written
\* differently; a number is not written like a tag.
IsKey(k)  == k.t \in {"str", "int", "none"} /\ (k.t # "str" => k.a \notin TagKeys)
Keyed(s)  == /\ \A i \in DOMAIN s : IsKey(s[i].k)
             /\ \A i, j \in DOMAIN s : /\ s[i].k.t = s[j].k.t
                                       /\ s[i].k.a = s[j].k.a => i = j

\* What a dataclass has in its fields is not tagged: nothing that contains others.
Composed(v) ==
    /\ v.t \in Lists \cup {"Foo"} => \A i \in DOMAIN v.s : v.s[i].k = Unkeyed
    /\ v.t = "Foo" => Len(v.s) = 1
    /\ v.t \in Maps => Keyed(v.s)
    /\ v.t = "dataclass" =>
           \A i \in DOMAIN v.s : /\ v.s[i].k.a \notin TagKeys
                                 /\ v.s[i].v.t \in (Scalars \cup {"datetime"}) \ {"bytes"}

Around(T, X) == {v \in [t : T, a : {<<>>}, s : Seq([k : Leaves, v : X])] : Composed(v)}

\* Values of the types in T by their depth; the tags of one container are three more.
TagDepth  == 3 * (MaxDepth + 1)
Levels(T) == LET vals[n \in 0..TagDepth] ==
                     IF n = 0 THEN Leaves ELSE Leaves \cup Around(T, vals[n - 1])
             IN  vals
Value     == Levels(Types)[TagDepth]

\* A Foo can only be written when its tag is registered.
TypesOf(S)   == {t \in Types : t = "Foo" => \E i \in DOMAIN S.order : S.order[i] = "TagFoo"}
Writable(S)  == Levels(TypesOf(S))[MaxDepth]

------------------------------------------------------------------------------
(* Writing.                                                                  *)

\* The text of a value that is not a JSON type: base64, hex, an HTTP date
\* (which has no microseconds), an ISO date (which has), what __html__ returns.
Text(c, v) == CASE c = "TagBytes"    -> Append(v.a, "b64")
                []  c = "TagUUID"     -> Append(v.a, "hex")
                []  c = "TagDateTime" -> <<v.a[1], "http">>
                []  c = "TagISO"      -> Append(v.a, "iso")
                []  OTHER             -> v.a

Escaped(k) == [k EXCEPT !.a = Append(@, "__")]

\* r has the items of v tagged.
to_json(c, v, r) ==
    CASE c = "TagDict"  -> Val("dict", <<>>, << Item(Escaped(v.s[1].k), r[1]) >>)
      []  c = "PassDict" -> Val("dict", <<>>, With(v.s, r))
      []  c \in {"TagTuple", "PassList"} -> Val("list", <<>>, With(v.s, r))
      []  c = "TagOrderedDict" ->
              Val("list", <<>>, [i \in DOMAIN v.s |->
                  In(Val("list", <<>>, << In(v.s[i].k), In(r[i]) >>))])
      []  c = "TagFoo"   -> r[1]
      []  OTHER          -> Str(Text(c, v))

\* The first class that recognises the value; PassDict and PassList add no tag.
Hits(S, v)  == {i \in DOMAIN S.order : check(S, S.order[i], v)}
First(S, v) == S.order[CHOOSE i \in Hits(S, v) : \A j \in Hits(S, v) : i <= j]
Tagged(S, v, r) ==
    IF Hits(S, v) = {} THEN v
    ELSE LET c == First(S, v)
         IN  IF KeyOf[c] = <<>> THEN to_json(c, v, r)
             ELSE Val("dict", <<>>, << Item(Str(KeyOf[c]), to_json(c, v, r)) >>)
tag(S) == LET t[v \in Value] == Tagged(S, v, [i \in DOMAIN v.s |-> t[v.s[i].v]]) IN t

\* What json.dumps writes and json.loads reads of it: keys are strings, a tuple
\* is a list; _default makes text of what has a text, and a dict of a dataclass.
\* (Bytes and Foo raise when no tag has taken them.)
Jsoned(v, r) ==
    CASE v.t \in Lists -> Val("list", <<>>, With(v.s, r))
      []  v.t \in Maps  -> Val("dict", <<>>, [i \in DOMAIN v.s |-> Item(Str(v.s[i].k.a), r[i])])
      []  v.t \in {"Decimal", "Markup", "html"} -> Str(v.a)
      []  v.t = "UUID"  -> Str(Append(v.a, "str"))
      []  v.t = "datetime" -> Str(<<v.a[1], "http">>)
      []  OTHER -> v
Json == LET json[v \in Value] == Jsoned(v, [i \in DOMAIN v.s |-> json[v.s[i].v]]) IN json

------------------------------------------------------------------------------
(* Reading.                                                                  *)

Unescaped(k) == [k EXCEPT !.a = Front(@)]

to_python(c, x) ==
    CASE c = "TagDict"     -> Val("dict", <<>>, << Item(Unescaped(x.s[1].k), x.s[1].v) >>)
      []  c = "TagTuple"    -> Val("tuple", <<>>, x.s)
      []  c = "TagBytes"    -> Val("bytes", Front(x.a), <<>>)
      []  c = "TagMarkup"   -> Val("Markup", x.a, <<>>)
      []  c = "TagUUID"     -> Val("UUID", Front(x.a), <<>>)
      []  c = "TagDateTime" -> Val("datetime", <<x.a[1], "0">>, <<>>)
      []  c = "TagISO"      -> Val("datetime", Front(x.a), <<>>)
      []  c = "TagFoo"      -> Val("Foo", <<>>, << In(x) >>)
      []  c = "TagOrderedDict" ->
              Val("odict", <<>>, [i \in DOMAIN x.s |-> Item(x.s[i].v.s[1].v, x.s[i].v.s[2].v)])

untag(S, v) == IF Len(v.s) = 1 /\ v.s[1].k.a \in DOMAIN S.tags
               THEN to_python(S.tags[v.s[1].k.a], v.s[1].v) ELSE v

\* r has the items of v scanned.
Scanned(S, v, r) == LET inner == Val(v.t, v.a, With(v.s, r))
                    IN  IF v.t = "dict" THEN untag(S, inner) ELSE inner
_untag_scan(S) ==
    LET scan[v \in Value] == Scanned(S, v, [i \in DOMAIN v.s |-> scan[v.s[i].v]]) IN scan

dumps(S, v) == Json[tag(S)[v]]
loads(S, j) == _untag_scan(S)[j]

------------------------------------------------------------------------------
(* What is promised: "lossless serialization of non-standard JSON types".    *)

Precedes(S, c, d) ==
    \E i \in DOMAIN S.order : /\ S.order[i] = c
                              /\ \A j \in DOMAIN S.order : S.order[j] = d => i < j

\* What a value should be after it was written and read, r being that of its items:
\* itself, but keys are strings, a date has whole seconds unless the application
\* registered a better tag, what is not supported is what the JSON provider makes
\* of it, and a subclass of dict is a dict unless its tag is tried first.
Remains(S, v, r) ==
    LET dict == Val("dict", <<>>, [i \in DOMAIN v.s |-> Item(Str(v.s[i].k.a), r[i])])
    IN CASE v.t = "dict"      -> dict
         []  v.t = "odict"     -> IF Precedes(S, "TagOrderedDict", "PassDict")
                                  THEN Val("odict", <<>>, With(v.s, r)) ELSE dict
         []  v.t \in {"list", "tuple", "Foo"} -> Val(v.t, <<>>, With(v.s, r))
         []  v.t \in {"bytes", "UUID", "Markup"} -> v
         []  v.t = "datetime"  -> IF Precedes(S, "TagISO", "TagDateTime") THEN v
                                  ELSE [v EXCEPT !.a = <<v.a[1], "0">>]
         []  v.t = "html"      -> [v EXCEPT !.t = "Markup"]
         []  OTHER             -> Json[v]
Kept(S) == LET kept[v \in Value] == Remains(S, v, [i \in DOMAIN v.s |-> kept[v.s[i].v]]) IN kept

Lossless(S, v) == loads(S, dumps(S, v)) = Kept(S)[v]
==============================================================================
