----------------------------- MODULE MCBlueprints -----------------------------
(* Two blueprints, one with a static folder, registered, nested and mounted  *)
(* again under another name, prefix and subdomain.                           *)
EXTENDS BlueprintLookup, TLC

MCBPs       == {"b", "c"}
MCName      == [b \in MCBPs |-> b]
MCPrefix    == "b" :> <<"pb">> @@ "c" :> <<>>
MCSubdomain == "b" :> <<>> @@ "c" :> <<"sc">>
MCCliGroup  == "b" :> "own" @@ "c" :> "merged"
MCOptions   == {[name |-> None, prefix |-> <<>>, subdomain |-> <<>>],
                [name |-> "n", prefix |-> <<"po">>, subdomain |-> <<"so">>]}
MCEndpointNames == {<<"b", "x">>}
MCFocuses   == Lists \cup Dicts \cup {"handlers", "rules", "commands"}
MCMaxCalls  == "b" :> 2 @@ "c" :> 1 @@ App :> 2

\* An HTTPException, NotFound with code 404 and a subclass of it with code 410.
MCMro       == "HTTP" :> <<"HTTP">> @@ "NotFound" :> <<"NotFound", "HTTP">>
               @@ "Gone" :> <<"Gone", "NotFound", "HTTP">>
MCCode      == "HTTP" :> None @@ "NotFound" :> "404" @@ "Gone" :> "410"
MCTemplates == App :> {"t1"} @@ "b" :> {"t1", "t2"} @@ "c" :> {"t2", "t3"}
===============================================================================
