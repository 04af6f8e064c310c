------------------------------- MODULE MCCities -------------------------------
(* A small instance of Cities for TLC: two countries, a name that both have, *)
(* one with a space, and one that is part of another.                        *)
EXTENDS Cities, TLC

CONSTANTS us, gb, london, york, newyork

At(k, c) == [country |-> k, city |-> c]

MCPart == {<<york, newyork>>}

Both == <<At(us, newyork), At(us, london), At(gb, london), At(gb, york)>>
Other == <<At(gb, york), At(gb, london), At(us, newyork)>>

(* Two servers at one place.                                                 *)
Servers == <<At(gb, london), At(us, newyork), At(gb, london), At(gb, york)>>

(* One city in a country, never the same one.                                *)
Few == <<At(us, london), At(gb, york)>>
Fewer == <<At(us, newyork), At(gb, london)>>

MCCatalogues ==
    "nord" :> {Both, Few}
    @@ "pia" :> {Both, Fewer}
    @@ "express" :> {Both, Other}
    @@ "surfshark" :> {Servers, Other}
    @@ "purevpn" :> {Other}

Scene(fleets, lists) == [fleets |-> fleets, lists |-> lists]

MCScenes ==
    {Scene({<<"nord", "surfshark">>}, {"surfshark"}),
     Scene({<<"pia", "nord", "surfshark">>}, {}),
     Scene({<<"purevpn", "express", "nord">>}, {}),
     Scene({<<"express", "pia">>, <<"pia">>, <<"express">>}, {}),
     Scene({<<"surfshark", "express">>}, {"express"})}

===============================================================================
