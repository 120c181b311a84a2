---------------------------- MODULE SessionValues ----------------------------
(* Sessions whose values are written by the tagged serializer, with the tags *)
(* that an application has registered.                                       *)
EXTENDS CookieSession, JsonTag

CONSTANTS Registrations,    \* what applications register, each a sequence of calls
          Samples           \* values that views store

\* A class of the application; one that replaces another is put in front, as it
\* would otherwise never be tried.
Registration ==
    {r \in [cls : {"TagOrderedDict", "TagFoo", "TagISO"}, force : BOOLEAN, front : BOOLEAN] :
        r.force => r.front}

ASSUME ValuesAssumption == Registrations \subseteq Seq(Registration)

\* Evaluated once, as it depends on no variable.
AllKept == \A rs \in Registrations : LET S == Serializer(rs) IN
               \A v \in Samples : v \in Writable(S) => Lossless(S, v)

\* Whatever was stored in a session whose cookie the browser has is what the
\* next request will find, whichever tags the application registered: a dict
\* whose only key looks like a tag is still that dict, however deep it lies
\* (TaggedJSONSerializer.dumps and loads).
SessionLossless == jar # NoCookie => AllKept
==============================================================================
