-------------------------------- MODULE Cities --------------------------------
(*****************************************************************************)
(* The search for a city that all VPNs offer, and the tests that are made    *)
(* for the city it comes to: DynamicVPN.get_cities (vpn/dynamic.py) and, for *)
(* each provider, get_cities, login and connect.                             *)
(*                                                                           *)
(* What a provider learns in a search it uses in the tests that follow; by   *)
(* then the VPN may have changed its list of servers, the user the set of    *)
(* providers, or the runner may be at another country.                       *)
(*                                                                           *)
(* A place is a city in a country.  The search is one action per provider;   *)
(* "todo" is what the iterator over the dictionary of providers still has.   *)
(*****************************************************************************)
EXTENDS Integers, Sequences, FiniteSets

LOCAL INSTANCE Functions

CONSTANTS
    Countries,    \* of test groups and of servers, "auto" not among them
    Names,        \* of cities
    Spaced,       \* the names with a space in them
    Part,         \* pairs of names: the first is found in the second as a part
    Catalogues,   \* Catalogues[p]: what VPN p may offer, as sequences of places
    Scenes,       \* what happens around the runner: [fleets: sequences of providers
                  \* that the user configures, lists: the VPNs that change theirs]
    None          \* no city, no table

ASSUME CitiesAssumption ==
    /\ Spaced \subseteq Names /\ Part \subseteq Names \X Names /\ None \notin Names
    /\ "auto" \notin Countries
    /\ None \notin UNION {[names -> Countries] : names \in SUBSET Names}
    /\ DOMAIN Catalogues = {"nord", "pia", "express", "surfshark", "purevpn"}
    /\ \A p \in DOMAIN Catalogues : Catalogues[p] \subseteq Seq([country : Countries, city : Names])

VARIABLES
    offered,      \* provider -> the places its servers are at, in their order
    scene,
    providers,    \* DynamicVPN._providers in the order of insertion
    nord_cities,  \* NordvpnApp._cities, of the class: country -> names
    city_set,     \* SurfShark.__city_set, of the class
    city_map,     \* SurfShark.__city_map, of the class: name -> index
    city_to_id,   \* ExpressVpnApp.__city_to_id of the object: name -> country
    common,       \* Runner._common_cities
    groups,       \* country -> the city that its group was last given
    at, country,  \* where the runner is; the country it searches
    asked, left,  \* how many providers there were, and how many are still to yield
    todo,         \* what the iterator is at and has before it
    replaced,     \* the object that is asked is no longer the configured one
    cities,       \* the intersection so far
    answers,      \* the sets of names answered in this search
    fresh,        \* the providers whose knowledge is still what this search found
    session       \* the test: [app, country, city, ids, how, place]

configVars == <<scene, offered, providers, common>>
knownVars == <<nord_cities, city_set, city_map, city_to_id>>
searchVars == <<country, asked, left, todo, replaced, cities, answers>>
vars == <<configVars, knownVars, searchVars, groups, at, fresh, session>>

Apps == DOMAIN Catalogues
Empty == [x \in {} |-> 0]
NoPlace == [country |-> "none", city |-> None]
NoSession == [app |-> "none", country |-> "auto", city |-> None, ids |-> None,
              how |-> "none", place |-> NoPlace]

PlacesOf(p) == {offered[p][i] : i \in DOMAIN offered[p]}
InCountry(p, k) == {x \in PlacesOf(p) : x.country = k}
NamesIn(places) == {x.city : x \in places}
Overlay(new, old) == [x \in DOMAIN new \cup DOMAIN old |->
                        IF x \in DOMAIN new THEN new[x] ELSE old[x]]

City(k) == IF k = "auto" THEN None ELSE groups[k]

Init ==
    /\ offered \in [Apps -> UNION {Catalogues[p] : p \in Apps}]
    /\ \A p \in Apps : offered[p] \in Catalogues[p]
    /\ scene \in Scenes /\ providers \in scene.fleets /\ common \in BOOLEAN
    /\ nord_cities = Empty /\ city_set = {} /\ city_map = Empty /\ city_to_id = None
    /\ groups = [k \in Countries |-> None]
    /\ at = "between" /\ country = "auto"
    /\ asked = 0 /\ left = 0 /\ todo = <<>> /\ replaced = FALSE
    /\ cities = {} /\ answers = {}
    /\ fresh = {} /\ session = NoSession

-------------------------------------------------------------------------------
Forget ==
    /\ asked' = 0 /\ left' = 0 /\ todo' = <<>> /\ replaced' = FALSE
    /\ cities' = {} /\ answers' = {}

(* Runner.run takes a group of another pair: a search, or the city it has.   *)
Search ==
    /\ at = "between" /\ common
    /\ country' \in Countries
    /\ at' = "asking" /\ asked' = Len(providers) /\ left' = asked' - 1 /\ todo' = providers
    /\ replaced' = FALSE /\ cities' = {} /\ answers' = {} /\ fresh' = {}
    /\ UNCHANGED <<configVars, knownVars, groups, session>>

TakeGroup ==
    /\ at = "between"
    /\ country' \in IF common THEN {"auto"} ELSE Countries \cup {"auto"}
    /\ at' = "group" /\ Forget /\ fresh' = {}
    /\ UNCHANGED <<configVars, knownVars, groups, session>>

(* The loop of get_cities.  An answer that is empty counts for none, and so  *)
(* does an intersection that is.                                             *)
Narrowed_Latest(old, new) == IF new = {} THEN old ELSE new
Narrowed(old, new) == IF old = {} THEN new ELSE IF new = {} THEN old ELSE old \cap new

(* The iterator notices that the dictionary has grown or shrunk, or that it  *)
(* has more to yield than there was.                                         *)
Disturbed_SizeOnly == Len(providers) # asked
Disturbed == Len(providers) # asked \/ (left = 0 /\ Len(todo) > 1)

Asked(p) == at = "asking" /\ todo # <<>> /\ Head(todo) = p

Answered(p, names, knows) ==
    /\ IF Disturbed
       THEN at' = "ended" /\ fresh' = {} /\ Forget
       ELSE /\ answers' = answers \cup {names}
            /\ cities' = Narrowed(cities, names)
            /\ left' = (IF left = 0 THEN 0 ELSE left - 1)
            /\ todo' = Tail(todo) /\ replaced' = FALSE
            /\ fresh' = IF knows THEN fresh \cup {p} ELSE fresh \ {p}
            /\ UNCHANGED <<at, asked>>
    /\ UNCHANGED <<configVars, country, groups, session>>

-------------------------------------------------------------------------------
(* get_cities of the providers: what it leaves behind, and its answer.       *)
Listed(p) == NamesIn(InCountry(p, country))

NordLearns ==
    /\ nord_cities' = IF Listed("nord") = {} THEN nord_cities
                      ELSE Overlay([k \in {country} |-> Listed("nord")], nord_cities)
    /\ UNCHANGED <<city_set, city_map, city_to_id>>

(* The list that Surfshark gives for a country: its lines, and their numbers. *)
Server(i) == offered["surfshark"][i]
Lines_Any(k) == DOMAIN offered["surfshark"]
Lines(k) == {i \in DOMAIN offered["surfshark"] : Server(i).country = k}
Upto(k, i) == {j \in Lines(k) : j <= i}
Number(k, i) == Cardinality(Upto(k, i))

(* The numbers of the names; of a name that comes twice the last counts.     *)
LastAt(k, c) == CHOOSE i \in Lines(k) :
                    Server(i).city = c /\ \A j \in Lines(k) : i < j => Server(j).city # c
Positions_OfNames(k) ==
    [c \in Listed("surfshark") |-> Cardinality({Server(i).city : i \in Upto(k, LastAt(k, c))})]
Positions(k) == [c \in Listed("surfshark") |-> Number(k, LastAt(k, c))]

SurfLearns ==
    /\ city_set' = city_set \cup Listed("surfshark")
    /\ city_map' = Overlay(Positions(country), city_map)
    /\ UNCHANGED <<nord_cities, city_to_id>>

(* A new table, with as many lines as could be read; of an object that is no *)
(* longer in use when it was replaced meanwhile.                             *)
ExpressLearns(names) ==
    /\ city_to_id' = IF replaced THEN city_to_id ELSE [c \in names |-> country]
    /\ UNCHANGED <<nord_cities, city_set, city_map>>

NordCities == Asked("nord") /\ NordLearns /\ Answered("nord", Listed("nord"), TRUE)
PiaCities == Asked("pia") /\ Answered("pia", Listed("pia"), TRUE) /\ UNCHANGED knownVars
SurfCities == Asked("surfshark") /\ SurfLearns /\ Answered("surfshark", city_set', TRUE)
PureCities == Asked("purevpn") /\ Answered("purevpn", {}, FALSE) /\ UNCHANGED knownVars

ExpressCities ==
    /\ Asked("express") /\ ExpressLearns(Listed("express"))
    /\ Answered("express", Listed("express"), ~replaced)
ExpressUnread ==
    /\ Asked("express") /\ \E names \in SUBSET Listed("express") : ExpressLearns(names)
    /\ Answered("express", {}, FALSE)

(* The bare except around login, which catches a cancellation too; and the   *)
(* list that ExpressVPN could not give.                                      *)
LoginCaught ==
    /\ \E p \in {"pia", "express"} : Asked(p) /\ Answered(p, {}, FALSE)
    /\ UNCHANGED knownVars

(* Anything else ends Runner.run, also when the container cannot be deleted  *)
(* after the answer.                                                         *)
SearchRaises ==
    /\ at = "asking" /\ todo # <<>> /\ Head(todo) # "purevpn"
    /\ \/ UNCHANGED knownVars
       \/ Asked("nord") /\ NordLearns
       \/ Asked("express") /\ ExpressLearns(Listed("express"))
    /\ at' = "ended" /\ fresh' = {} /\ Forget
    /\ UNCHANGED <<configVars, country, groups, session>>

(* random_city_check chooses, and the group is renamed.                      *)
Choose ==
    /\ at = "asking" /\ todo = <<>>
    /\ \E c \in IF cities = {} THEN {None} ELSE cities : groups' = [groups EXCEPT ![country] = c]
    /\ at' = "group" /\ left' = 0 /\ cities' = {}
    /\ UNCHANGED <<configVars, knownVars, country, asked, todo, replaced, answers,
                   fresh, session>>

-------------------------------------------------------------------------------
(* A test: login and connect of the provider, in the session of the test.    *)
StartTest ==
    /\ at = "group"
    /\ \E p \in Range(providers) :
         session' = [NoSession EXCEPT !.app = p, !.country = country, !.city = City(country),
                                      !.ids = IF p = "express" THEN city_to_id ELSE None]
    /\ at' = "login"
    /\ UNCHANGED <<configVars, knownVars, searchVars, groups, fresh>>

LoggedIn ==
    /\ at = "login" /\ at' = "connect"
    /\ UNCHANGED <<configVars, knownVars, searchVars, groups, fresh, session>>

LoginFails ==
    /\ at = "login" /\ at' = "group" /\ session' = NoSession
    /\ UNCHANGED <<configVars, knownVars, searchVars, groups, fresh>>

Connecting(p) == at = "connect" /\ session.app = p
Comes(how, place) ==
    /\ session' = [session EXCEPT !.how = how, !.place = place, !.ids = None]
    /\ at' = IF how = "up" THEN "up" ELSE "failed"
    /\ UNCHANGED <<configVars, knownVars, searchVars, groups, fresh>>
Up(place) == Comes("up", place)
NotFound == Comes("not_found", NoPlace)

(* The app is left the choice among the places that fit.                     *)
UpIn(places) == \E place \in places : Up(place)
UpInCountry(p) ==
    UpIn(IF session.country = "auto" THEN PlacesOf(p) ELSE InCountry(p, session.country))
Anywhere == session.country = "auto" \/ session.city = None

(* NordVPN.get_target: the name is looked up in the cities known of every    *)
(* country, and is compared with spaces on one side and "_" on the other.    *)
NordKnows(c) == \E x \in PlacesOf("nord") :
                    x.country \in DOMAIN nord_cities /\ c \in nord_cities[x.country]
NordConnects ==
    /\ Connecting("nord")
    /\ IF Anywhere THEN UpInCountry("nord")
       ELSE IF NordKnows(session.city) /\ session.city \notin Spaced
            THEN UpIn({x \in PlacesOf("nord") : x.city = session.city})
            ELSE NotFound

(* PiaApp.set_region: the first region, of whatever country, that has the    *)
(* name in it.                                                               *)
Fits(c, x) == x.city = c \/ <<c, x.city>> \in Part
FirstOf(p, places) ==
    {offered[p][i] : i \in {j \in DOMAIN offered[p] :
                               /\ offered[p][j] \in places
                               /\ \A l \in 1..j - 1 : offered[p][l] \notin places}}
PiaConnects ==
    /\ Connecting("pia")
    /\ LET fitting == {x \in PlacesOf("pia") : Fits(session.city, x)}
       IN IF session.country = "auto" THEN UpIn(PlacesOf("pia"))
          ELSE IF session.city = None THEN UpIn(FirstOf("pia", InCountry("pia", session.country)))
          ELSE IF fitting = {} THEN NotFound ELSE UpIn(FirstOf("pia", fitting))

(* ExpressVPN goes by the table; "in None" is a TypeError.                   *)
ExpressConnects ==
    /\ Connecting("express")
    /\ IF Anywhere THEN UpInCountry("express")
       ELSE IF session.ids = None THEN NotFound
       ELSE IF session.city \in DOMAIN session.ids
            THEN UpIn({x \in PlacesOf("express") :
                         x.city = session.city /\ x.country = session.ids[session.city]})
            ELSE UpInCountry("express")

(* SurfShark._get_recommended_server: the position that a search has found,  *)
(* in a list that was requested since.                                       *)
SurfIndex == IF session.city \in DOMAIN city_map THEN city_map[session.city] ELSE 1
SurfConnects ==
    /\ Connecting("surfshark")
    /\ LET lines == {i \in Lines(session.country) : Number(session.country, i) = SurfIndex}
       IN IF session.country = "auto" THEN UpIn(PlacesOf("surfshark"))
          ELSE IF lines = {} THEN NotFound ELSE UpIn({Server(i) : i \in lines})

PureConnects == Connecting("purevpn") /\ UpInCountry("purevpn")

(* Technology, protocol, command or request: any of them may fail.           *)
Refused == at = "connect" /\ Comes("refused", NoPlace)

EndTest ==
    /\ at \in {"up", "failed"} /\ at' = "group" /\ session' = NoSession
    /\ UNCHANGED <<configVars, knownVars, searchVars, groups, fresh>>

Leave ==
    /\ at = "group" /\ at' = "between" /\ fresh' = {} /\ Forget /\ country' = "auto"
    /\ UNCHANGED <<configVars, knownVars, groups, session>>

-------------------------------------------------------------------------------
(* What goes on around the runner.                                           *)
ListChanges ==
    /\ \E p \in scene.lists :
         /\ offered' \in {[offered EXCEPT ![p] = list] : list \in Catalogues[p]}
         /\ offered' # offered
         /\ fresh' = fresh \ {p}
    /\ UNCHANGED <<scene, providers, common, knownVars, searchVars, groups, at, session>>

(* up -u: RemoveVPNs, UpdateVPNs and AddVPNs, with no await between them.    *)
Kept(fleet) == SelectSeq(providers, LAMBDA p : p \in Range(fleet))
New(fleet) == SelectSeq(fleet, LAMBDA p : p \notin Range(providers))

UpdateVPNs ==
    /\ \E fleet \in scene.fleets, changed \in {{}, {"express"}} :
         LET gone == (Range(providers) \ Range(fleet)) \cup (changed \cap Range(providers))
         IN /\ gone # {} \/ New(fleet) # <<>>
            /\ providers' = Kept(fleet) \o New(fleet)
            /\ city_to_id' = IF "express" \in gone THEN None ELSE city_to_id
            /\ fresh' = fresh \ (gone \cap {"express"})
            /\ IF todo = <<>> THEN UNCHANGED <<todo, replaced>>
               ELSE /\ replaced' = (replaced \/ Head(todo) \in gone)
                    /\ todo' = <<Head(todo)>>
                         \o SelectSeq(Tail(todo), LAMBDA p : p \in Range(fleet)) \o New(fleet)
    /\ UNCHANGED <<scene, offered, common, nord_cities, city_set, city_map, country, asked,
                   left, cities, answers, groups, at, session>>

Stop ==
    /\ at # "ended" /\ at' = "ended" /\ fresh' = {} /\ Forget /\ session' = NoSession
    /\ country' = "auto"
    /\ UNCHANGED <<configVars, knownVars, groups>>

(* up: new objects; a group that was renamed may not be found to be removed. *)
Start ==
    /\ at = "ended" /\ at' = "between"
    /\ providers' \in scene.fleets /\ common' \in BOOLEAN /\ city_to_id' = None
    /\ groups' \in {groups, [k \in Countries |-> None]}
    /\ country' = "auto"
    /\ UNCHANGED <<scene, offered, nord_cities, city_set, city_map, asked, left, todo,
                   replaced, cities, answers, fresh, session>>

Lookup ==
    \/ NordCities \/ PiaCities \/ SurfCities \/ PureCities \/ ExpressCities \/ ExpressUnread
    \/ LoginCaught \/ SearchRaises \/ Choose

Next ==
    \/ Search \/ TakeGroup \/ Lookup \/ StartTest \/ LoggedIn \/ LoginFails
    \/ NordConnects \/ PiaConnects \/ ExpressConnects \/ SurfConnects \/ PureConnects
    \/ Refused \/ EndTest \/ Leave \/ ListChanges \/ UpdateVPNs \/ Stop \/ Start

Spec == Init /\ [][Next]_vars /\ WF_vars(Lookup)

-------------------------------------------------------------------------------
(* Every variable has its type.                                              *)
TypeOK ==
    /\ \A p \in Apps : offered[p] \in Catalogues[p]
    /\ Range(providers) \subseteq Apps /\ Range(todo) \subseteq Apps /\ fresh \subseteq Apps
    /\ country \in Countries \cup {"auto"} /\ groups \in [Countries -> Names \cup {None}]
    /\ at \in {"between", "asking", "group", "login", "connect", "up", "failed", "ended"}
    /\ city_set \subseteq Names /\ DOMAIN city_map \subseteq city_set
    /\ session.how \in {"none", "up", "not_found", "refused"}

(* The group has the city that the last search came to.                      *)
Found == at \in {"group", "login", "connect", "up", "failed"} /\ answers # {}
Named == UNION answers
CommonNames == {c \in Named : \A names \in answers \ {{}} : c \in names}

(* When there are cities that all VPNs with an answer have named, the group  *)
(* is given one of these; and it is given none that no VPN has named         *)
(* (dynamic.py:76).                                                          *)
CommonIfThereIsOne ==
    Found => /\ CommonNames # {} => City(country) \in CommonNames
             /\ City(country) \in Named \cup {None}

(* Another place that a provider can take for the one it is asked for.       *)
Mistakable(p, c) ==
    \E x \in PlacesOf(p) : x # [country |-> session.country, city |-> c] /\ Fits(c, x)
Place == [country |-> session.country, city |-> session.city]

(* What a VPN offers and has named in the search it serves in the tests: it  *)
(* finds the city, and the server is there.  It takes that the list did not  *)
(* change since and, for the two that look for the name only, that it tells  *)
(* the place; NordVPN never finds a name with a space.                       *)
ServedWhereOffered ==
    /\ session.how \in {"up", "not_found"} /\ session.app \in fresh
    /\ Place \in PlacesOf(session.app)
    /\ session.app \in {"nord", "pia"} => ~Mistakable(session.app, session.city)
    /\ session.app = "nord" => session.city \notin Spaced
    => session.how = "up" /\ session.place = Place

(* A test is never made in another country, whatever changed and whatever    *)
(* other groups were searched for, except by NordVPN and PIA for a name      *)
(* found elsewhere, and by ExpressVPN when this search got no table from it. *)
Abroad == session.how = "up" /\ session.country # "auto" /\ session.place.country # session.country
RightCountry ==
    [][Abroad' /\ ~Abroad =>
        /\ session.city # None /\ Mistakable(session.app, session.city)
        /\ \/ session.app \in {"nord", "pia"}
           \/ session.app = "express" /\ "express" \notin fresh]_vars

(* A search ends, also when the providers change all the time under the      *)
(* iterator.                                                                 *)
SearchEnds == at = "asking" ~> at # "asking"

===============================================================================
