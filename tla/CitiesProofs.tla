----------------------------- MODULE CitiesProofs -----------------------------
(*****************************************************************************)
(* Proofs that the search for a common city finds one when there is one, and *)
(* that the tests are made where it is, for any providers, lists and names.  *)
(*                                                                           *)
(* The intersection starts anew when it has become empty, so what it holds   *)
(* says something about all answers only as long as they have a name in      *)
(* common: then it is what they have in common (Agrees).                     *)
(*                                                                           *)
(* What a provider keeps of its search describes its list until that changes *)
(* (Knowledge), each in the form in which its connect looks the city up.     *)
(*****************************************************************************)
EXTENDS Cities, TLAPS, FiniteSetTheorems, WellFoundedInduction

(* What "cities" is once these answers are given.                            *)
Common(given) == {c \in UNION given : \A names \in given \ {{}} : c \in names}
Agrees(found, given) ==
    /\ Common(given) # {} => found = Common(given)
    /\ found \subseteq UNION given

Asking == at = "asking" => country \in Countries /\ Agrees(cities, answers)

IInv ==
    /\ DOMAIN groups = Countries
    /\ Asking
    /\ CommonIfThereIsOne
    /\ Found => country \in Countries

-------------------------------------------------------------------------------
(* One more answer keeps the intersection and the answers in agreement       *)
(* (dynamic.py:81-87).                                                       *)
LEMMA NarrowedAgrees ==
    ASSUME NEW found, NEW given, NEW names, Agrees(found, given)
    PROVE  Agrees(Narrowed(found, names), given \cup {names})
<1> DEFINE all == given \cup {names}
<1>1. UNION all = (UNION given) \cup names
  OBVIOUS
<1>2. Narrowed(found, names) \subseteq UNION all
  BY <1>1 DEF Narrowed, Agrees
<1>3. CASE names = {}
  <2>1. Common(all) = Common(given)
    BY <1>1, <1>3 DEF Common
  <2>2. Narrowed(found, names) = found
    BY <1>3 DEF Narrowed
  <2> QED
    BY <1>2, <2>1, <2>2 DEF Agrees
<1>4. CASE names # {} /\ Common(all) # {}
  <2>1. \A c : c \in Common(all) <=> c \in names /\ \A other \in given \ {{}} : c \in other
    BY <1>4 DEF Common
  <2>2. CASE given \subseteq {{}}
    <3>1. found = {}
      BY <2>2 DEF Agrees
    <3>2. Narrowed(found, names) = names
      BY <3>1 DEF Narrowed
    <3>3. Common(all) = names
      BY <2>1, <2>2
    <3> QED
      BY <1>2, <3>2, <3>3 DEF Agrees
  <2>3. CASE ~(given \subseteq {{}})
    <3>1. \A c \in Common(all) : c \in Common(given)
      BY <2>1, <2>3 DEF Common
    <3>2. found = Common(given) /\ found # {}
      BY <1>4, <3>1 DEF Agrees
    <3>3. Narrowed(found, names) = found \cap names
      BY <1>4, <3>2 DEF Narrowed
    <3>4. found \cap names \subseteq Common(all)
      BY <2>1, <3>2 DEF Common
    <3>5. Common(all) \subseteq found \cap names
      BY <2>1, <3>1, <3>2
    <3> QED
      BY <1>2, <3>3, <3>4, <3>5 DEF Agrees
  <2> QED
    BY <2>2, <2>3
<1>5. CASE Common(all) = {}
  BY <1>2, <1>5 DEF Agrees
<1> QED
  BY <1>3, <1>4, <1>5

(* The answer of a provider, whoever it is.                                  *)
LEMMA AnswerKeeps ==
    ASSUME NEW p, NEW names, NEW knows, IInv, at = "asking", Answered(p, names, knows)
    PROVE  IInv'
<1>1. DOMAIN groups' = Countries
  BY DEF IInv, Answered
<1>2. CASE Disturbed
  BY <1>1, <1>2 DEF IInv, Asking, CommonIfThereIsOne, Found, Answered
<1>3. CASE ~Disturbed
  <2>1. /\ at' = "asking" /\ country' = country
        /\ cities' = Narrowed(cities, names) /\ answers' = answers \cup {names}
    BY <1>3 DEF Answered
  <2>2. Agrees(cities', answers')
    BY <2>1, NarrowedAgrees DEF IInv, Asking
  <2> QED
    BY <1>1, <2>1, <2>2 DEF IInv, Asking, CommonIfThereIsOne, Found
<1> QED
  BY <1>2, <1>3

(* The choice after the last answer.                                         *)
LEMMA ChooseKeeps == IInv /\ Choose => IInv'
<1> SUFFICES ASSUME IInv, Choose PROVE IInv'
  OBVIOUS
<1>1. /\ at = "asking" /\ at' = "group" /\ country' = country /\ answers' = answers
      /\ country \in Countries /\ Agrees(cities, answers)
  BY DEF IInv, Asking, Choose
<1>2. PICK c \in IF cities = {} THEN {None} ELSE cities :
        groups' = [groups EXCEPT ![country] = c]
  BY DEF Choose
<1>3. DOMAIN groups' = Countries /\ groups'[country] = c
  BY <1>1, <1>2 DEF IInv
<1>4. City(country)' = c
  BY <1>1, <1>3, CitiesAssumption DEF City
<1>5. CommonNames' = Common(answers)
  BY <1>1 DEF CommonNames, Named, Common
<1>6. Common(answers) # {} => c \in Common(answers)
  BY <1>1, <1>2 DEF Agrees
<1>7. c \in (UNION answers) \cup {None}
  BY <1>1, <1>2 DEF Agrees
<1>8. CommonIfThereIsOne'
  BY <1>1, <1>4, <1>5, <1>6, <1>7 DEF CommonIfThereIsOne, Named
<1> QED
  BY <1>1, <1>3, <1>8 DEF IInv, Asking

(* Steps that leave the search and the cities of the groups alone, or begin  *)
(* or forget a search.                                                       *)
LEMMA OtherStepsKeep ==
    ASSUME IInv,
           \/ Search \/ TakeGroup \/ StartTest \/ LoggedIn \/ LoginFails
           \/ NordConnects \/ PiaConnects \/ ExpressConnects \/ SurfConnects \/ PureConnects
           \/ Refused \/ EndTest \/ Leave \/ ListChanges \/ UpdateVPNs \/ Stop \/ Start
           \/ SearchRaises \/ UNCHANGED vars
    PROVE  IInv'
<1>1. CASE Search
  BY <1>1 DEF IInv, Asking, Agrees, Common, CommonIfThereIsOne, Found, Search
<1>2. CASE TakeGroup \/ Leave \/ Stop
  BY <1>2 DEF IInv, Asking, CommonIfThereIsOne, Found, TakeGroup, Leave, Stop, Forget
<1>3. CASE SearchRaises
  BY <1>3 DEF IInv, Asking, CommonIfThereIsOne, Found, SearchRaises, Forget
<1>4. CASE Start
  BY <1>4 DEF IInv, Asking, CommonIfThereIsOne, Found, Start
<1>5. CASE \/ StartTest \/ LoggedIn \/ LoginFails \/ EndTest
           \/ NordConnects \/ PiaConnects \/ ExpressConnects \/ SurfConnects \/ PureConnects
           \/ Refused
  <2>1. UNCHANGED <<searchVars, groups>>
    BY <1>5 DEF StartTest, LoggedIn, LoginFails, EndTest, NordConnects, PiaConnects,
                ExpressConnects, SurfConnects, PureConnects, Refused, UpInCountry, UpIn, Up,
                NotFound, Comes
  <2>2. /\ at \in {"group", "login", "connect", "up", "failed"}
        /\ at' \in {"group", "login", "connect", "up", "failed"}
    BY <1>5 DEF StartTest, LoggedIn, LoginFails, EndTest, NordConnects, PiaConnects,
                ExpressConnects, SurfConnects, PureConnects, Refused, UpInCountry, UpIn, Up,
                NotFound, Comes, Connecting
  <2> QED
    BY <2>1, <2>2 DEF searchVars, IInv, Asking, CommonIfThereIsOne, Found, City, CommonNames,
                      Named
<1>6. CASE ListChanges \/ UpdateVPNs \/ UNCHANGED vars
  <2>1. UNCHANGED <<at, country, cities, answers, groups>>
    BY <1>6 DEF ListChanges, UpdateVPNs, vars, searchVars
  <2> QED
    BY <2>1 DEF IInv, Asking, CommonIfThereIsOne, Found, City, CommonNames, Named
<1> QED
  BY <1>1, <1>2, <1>3, <1>4, <1>5, <1>6

-------------------------------------------------------------------------------
(* What the search has found so far is invariant.                            *)
LEMMA SearchInvariant == Spec => []IInv
<1>1. Init => IInv
  BY DEF Init, IInv, Asking, CommonIfThereIsOne, Found
<1>2. IInv /\ [Next]_vars => IInv'
  <2> SUFFICES ASSUME IInv, [Next]_vars PROVE IInv'
    OBVIOUS
  <2>1. CASE \/ NordCities \/ PiaCities \/ SurfCities \/ PureCities
             \/ ExpressCities \/ ExpressUnread \/ LoginCaught
    <3>1. \E p, names, knows : at = "asking" /\ Answered(p, names, knows)
      BY <2>1 DEF NordCities, PiaCities, SurfCities, PureCities, ExpressCities,
                  ExpressUnread, LoginCaught, Asked
    <3> QED
      BY <3>1, AnswerKeeps
  <2>2. CASE Choose
    BY <2>2, ChooseKeeps
  <2>3. CASE ~Lookup \/ SearchRaises
    BY <2>3, OtherStepsKeep DEF Next, Lookup
  <2> QED
    BY <2>1, <2>2, <2>3 DEF Lookup
<1> QED
  BY <1>1, <1>2, PTL DEF Spec

(* When the VPNs have a city in common, the group is given such a city.      *)
THEOREM CommonCityFound == Spec => []CommonIfThereIsOne
<1>1. IInv => CommonIfThereIsOne
  BY DEF IInv
<1> QED
  BY <1>1, SearchInvariant, PTL

-------------------------------------------------------------------------------
(* What the providers still know of the country that the runner is at.       *)
Typed == DOMAIN offered = Apps /\ \A p \in Apps : offered[p] \in Catalogues[p]

NordKnown ==
    "nord" \in fresh =>
        \A x \in InCountry("nord", country) :
            country \in DOMAIN nord_cities /\ x.city \in nord_cities[country]

SurfKnown ==
    "surfshark" \in fresh =>
        \A c \in Listed("surfshark") :
            /\ c \in DOMAIN city_map
            /\ \E i \in Lines(country) : Server(i).city = c /\ city_map[c] = Number(country, i)

ExpressKnown == "express" \in fresh => city_to_id = [c \in Listed("express") |-> country]

Knowledge ==
    /\ fresh \subseteq {"nord", "pia", "surfshark", "express"}
    /\ fresh # {} => country \in Countries
    /\ NordKnown /\ SurfKnown /\ ExpressKnown

(* A test is made for the country that the runner is at, and with the table  *)
(* that ExpressVPN has.                                                      *)
Testing == {"login", "connect", "up", "failed"}
Tested ==
    /\ at \in {"between", "ended"} => fresh = {}
    /\ at \notin Testing => session.how = "none"
    /\ at \in Testing => session.country = country
    /\ at \in {"login", "connect"} =>
         /\ DOMAIN session = DOMAIN NoSession /\ session.how = "none"
         /\ session.app = "express" /\ "express" \in fresh => session.ids = city_to_id

SInv == Typed /\ Knowledge /\ Tested /\ ServedWhereOffered

(* Places are pairs of a country and a city.                                 *)
LEMMA PlacesTyped ==
    ASSUME Typed, NEW p \in Apps, NEW x \in PlacesOf(p)
    PROVE  /\ x = [country |-> x.country, city |-> x.city]
           /\ x.country \in Countries /\ x.city \in Names
<1>1. offered[p] \in Seq([country : Countries, city : Names])
  BY CitiesAssumption DEF Typed, Apps
<1>2. x \in [country : Countries, city : Names]
  <2>1. PICK i \in DOMAIN offered[p] : x = offered[p][i]
    BY DEF PlacesOf
  <2>2. \A S : \A s \in Seq(S) : \A l \in DOMAIN s : s[l] \in S
    OBVIOUS
  <2> QED
    BY <1>1, <2>1, <2>2
<1> QED
  BY <1>2

-------------------------------------------------------------------------------
(* The lines of a list in the order of their numbers.                        *)
LEMMA FiniteHasLast ==
    ASSUME NEW n \in Nat, NEW S \in SUBSET (1..n), S # {}
    PROVE  \E i \in S : \A j \in S : j <= i
<1> DEFINE below == {n - i : i \in S}
<1>1. below \subseteq Nat /\ below # {}
  <2>1. \A i \in S : n - i \in Nat
    OBVIOUS
  <2> QED
    BY <2>1
<1>2. PICK k \in below : \A l \in below : ~(<<l, k>> \in OpToRel(<, Nat))
  BY <1>1, NatLessThanWellFounded, WFMin
<1>3. PICK i \in S : k = n - i
  BY <1>2
<1>4. ASSUME NEW j \in S PROVE j <= i
  <2>1. n - j \in below /\ n - j \in Nat /\ k \in Nat
    BY <1>1, <1>2
  <2>2. ~(n - j < k)
    BY <1>2, <2>1 DEF OpToRel
  <2> QED
    BY <1>3, <2>2
<1> QED
  BY <1>4

LEMMA LinesTyped ==
    ASSUME Typed, NEW k
    PROVE  /\ IsFiniteSet(Lines(k))
           /\ \E n \in Nat : Lines(k) \subseteq 1..n
           /\ \A i \in Lines(k) : Server(i) \in PlacesOf("surfshark") /\ Server(i).country = k
<1>1. offered["surfshark"] \in Seq([country : Countries, city : Names])
  BY CitiesAssumption DEF Typed, Apps
<1>2. DOMAIN offered["surfshark"] = 1..Len(offered["surfshark"])
      /\ Len(offered["surfshark"]) \in Nat
  BY <1>1
<1>3. Lines(k) \subseteq 1..Len(offered["surfshark"])
  BY <1>2 DEF Lines
<1>4. IsFiniteSet(1..Len(offered["surfshark"]))
  BY <1>2, FS_Interval
<1>5. IsFiniteSet(Lines(k))
  BY <1>3, <1>4, FS_Subset
<1>6. \A i \in Lines(k) : Server(i) \in PlacesOf("surfshark") /\ Server(i).country = k
  BY DEF Lines, Server, PlacesOf
<1> QED
  BY <1>2, <1>3, <1>5, <1>6

(* No two lines have the same number.                                        *)
LEMMA NumberOfOne ==
    ASSUME Typed, NEW k, NEW i \in Lines(k), NEW j \in Lines(k), Number(k, i) = Number(k, j)
    PROVE  i = j
<1>1. i \in Nat /\ j \in Nat /\ Lines(k) \subseteq Nat
  BY LinesTyped
<1>2. ASSUME NEW a \in Lines(k), NEW b \in Lines(k), a < b
      PROVE  Number(k, a) # Number(k, b)
  <2>0. a \in Nat /\ b \in Nat
    BY <1>1
  <2>1. b \in Upto(k, b) /\ b \notin Upto(k, a)
    BY <1>2, <2>0 DEF Upto
  <2>2. ASSUME NEW x \in Upto(k, a) PROVE x \in Upto(k, b)
    <3>1. x \in Lines(k) /\ x <= a /\ x \in Nat
      BY <1>1 DEF Upto
    <3> QED
      BY <1>2, <2>0, <3>1 DEF Upto
  <2>3. IsFiniteSet(Upto(k, b))
    BY LinesTyped, FS_Subset DEF Upto
  <2>4. Upto(k, a) \in SUBSET Upto(k, b) /\ Upto(k, a) # Upto(k, b)
    BY <2>1, <2>2
  <2> QED
    BY <2>3, <2>4, FS_Subset DEF Number
<1>3. ~(i < j) /\ ~(j < i)
  BY <1>2
<1> QED
  BY <1>1, <1>3

(* A city that is listed has a last line, and that line is at the city.      *)
LEMMA LastLine ==
    ASSUME Typed, NEW k, NEW c \in NamesIn(InCountry("surfshark", k))
    PROVE  /\ LastAt(k, c) \in Lines(k)
           /\ Server(LastAt(k, c)).city = c
<1> DEFINE here == {i \in Lines(k) : Server(i).city = c}
<1>1. PICK x \in PlacesOf("surfshark") : x.country = k /\ x.city = c
  BY DEF NamesIn, InCountry
<1>2. PICK l \in DOMAIN offered["surfshark"] : x = offered["surfshark"][l]
  BY DEF PlacesOf
<1>3. l \in here
  BY <1>1, <1>2 DEF Lines, Server
<1>4. PICK n \in Nat : Lines(k) \subseteq 1..n
  BY LinesTyped
<1>5. PICK i \in here : \A j \in here : j <= i
  BY <1>3, <1>4, FiniteHasLast
<1>6. ASSUME NEW j \in Lines(k), i < j PROVE Server(j).city # c
  <2>1. i \in Nat /\ j \in Nat
    BY <1>4
  <2>2. j \notin here
    BY <1>5, <1>6, <2>1
  <2> QED
    BY <2>2
<1> QED
  BY <1>5, <1>6 DEF LastAt

-------------------------------------------------------------------------------
(* What is known stays known of a list that does not change.                 *)
Undisturbed ==
    /\ fresh' \subseteq fresh
    /\ \A p \in fresh' : offered'[p] = offered[p]

Still(p) == p \in fresh' => p \in fresh /\ offered'[p] = offered[p]

LEMMA NordStillKnown ==
    ASSUME NordKnown, Still("nord"), country' = country, nord_cities' = nord_cities
    PROVE  NordKnown'
BY DEF NordKnown, Still, InCountry, PlacesOf

LEMMA ExpressStillKnown ==
    ASSUME ExpressKnown, Still("express"), country' = country,
           "express" \in fresh' => city_to_id' = city_to_id
    PROVE  ExpressKnown'
<1> SUFFICES ASSUME "express" \in fresh' PROVE ExpressKnown'
  BY DEF ExpressKnown
<1>1. PlacesOf("express")' = PlacesOf("express")
  BY DEF Still, PlacesOf
<1>2. Listed("express")' = Listed("express")
  BY <1>1 DEF Listed, NamesIn, InCountry
<1> QED
  BY <1>2 DEF ExpressKnown, Still

LEMMA SurfStillKnown ==
    ASSUME SurfKnown, Still("surfshark"), country' = country, city_map' = city_map
    PROVE  SurfKnown'
<1> SUFFICES ASSUME "surfshark" \in fresh' PROVE SurfKnown'
  BY DEF SurfKnown
<1>1. PlacesOf("surfshark")' = PlacesOf("surfshark")
  BY DEF Still, PlacesOf
<1>2. Listed("surfshark")' = Listed("surfshark")
  BY <1>1 DEF Listed, NamesIn, InCountry
<1>3. \A i : Server(i)' = Server(i)
  BY DEF Still, Server
<1>4. \A k : Lines(k)' = Lines(k)
  BY DEF Still, Server, Lines
<1>5. \A k, i : Number(k, i)' = Number(k, i)
  BY <1>4 DEF Number, Upto
<1> QED
  BY <1>2, <1>3, <1>4, <1>5 DEF SurfKnown, Still

LEMMA StillKnown ==
    ASSUME Knowledge, Undisturbed, country' = country,
           nord_cities' = nord_cities, city_map' = city_map,
           "express" \in fresh' => city_to_id' = city_to_id
    PROVE  Knowledge'
<1>1. Still("nord") /\ Still("surfshark") /\ Still("express")
  BY DEF Undisturbed, Still
<1>2. NordKnown' /\ SurfKnown' /\ ExpressKnown'
  BY <1>1, NordStillKnown, SurfStillKnown, ExpressStillKnown DEF Knowledge
<1> QED
  BY <1>2 DEF Knowledge, Undisturbed

(* A test that has connected is served as before.                            *)
LEMMA StillServed ==
    ASSUME ServedWhereOffered, Undisturbed, session' = session
    PROVE  ServedWhereOffered'
<1>1. \A p \in fresh' : PlacesOf(p)' = PlacesOf(p)
  BY DEF Undisturbed, PlacesOf
<1>2. Place' = Place
  BY DEF Place
<1>3. \A p \in fresh' : \A c : Mistakable(p, c)' = Mistakable(p, c)
  BY <1>1 DEF Mistakable
<1> QED
  BY <1>1, <1>2, <1>3 DEF ServedWhereOffered, Undisturbed

(* Steps that forget what the search has found.                              *)
LEMMA ForgetKeeps ==
    ASSUME SInv, fresh' = {}, offered' = offered, at' \notin Testing, session'.how = "none"
    PROVE  SInv'
<1>1. Typed'
  BY DEF SInv, Typed
<1>2. Knowledge'
  BY DEF Knowledge, NordKnown, SurfKnown, ExpressKnown
<1>3. Tested' /\ ServedWhereOffered'
  BY DEF Tested, Testing, ServedWhereOffered
<1> QED
  BY <1>1, <1>2, <1>3 DEF SInv

LEMMA ForgettingSteps ==
    ASSUME SInv, Search \/ TakeGroup \/ SearchRaises \/ Leave \/ Stop \/ Start
    PROVE  SInv'
<1>1. CASE Search \/ TakeGroup
  BY <1>1, ForgetKeeps DEF SInv, Tested, Testing, Search, TakeGroup, configVars
<1>2. CASE SearchRaises \/ Leave
  BY <1>2, ForgetKeeps DEF SInv, Tested, Testing, SearchRaises, Leave, configVars
<1>3. CASE Stop \/ Start
  BY <1>3, ForgetKeeps DEF SInv, Tested, Testing, Stop, Start, configVars, NoSession
<1> QED
  BY <1>1, <1>2, <1>3

(* Steps that take no part in the search and make no connection.             *)
LEMMA QuietSteps ==
    ASSUME SInv,
           \/ Choose \/ StartTest \/ LoggedIn \/ LoginFails \/ EndTest \/ ListChanges
           \/ UpdateVPNs \/ UNCHANGED vars
    PROVE  SInv'
<1>1. CASE Choose \/ UNCHANGED vars
  <2>1. UNCHANGED <<offered, nord_cities, city_map, city_to_id, country, fresh, session>>
    BY <1>1 DEF Choose, configVars, knownVars, vars, searchVars
  <2>2. at' = at \/ (at = "asking" /\ at' = "group")
    BY <1>1 DEF Choose, vars
  <2>3. Undisturbed
    BY <2>1 DEF Undisturbed
  <2>4. Typed' /\ Tested'
    BY <2>1, <2>2 DEF SInv, Typed, Tested, Testing
  <2> QED
    BY <2>1, <2>3, <2>4, StillKnown, StillServed DEF SInv
<1>2. CASE StartTest \/ LoggedIn \/ LoginFails \/ EndTest
  <2>1. UNCHANGED <<offered, nord_cities, city_map, city_to_id, country, fresh>>
    BY <1>2 DEF StartTest, LoggedIn, LoginFails, EndTest, configVars, knownVars, searchVars
  <2>2. Undisturbed
    BY <2>1 DEF Undisturbed
  <2>3. ASSUME StartTest PROVE Tested' /\ session'.how = "none"
    <3>1. PICK p :
            session' = [NoSession EXCEPT !.app = p, !.country = country, !.city = City(country),
                          !.ids = IF p = "express" THEN city_to_id ELSE None]
      BY <2>3 DEF StartTest
    <3>2. /\ DOMAIN session' = DOMAIN NoSession
          /\ session'.how = "none" /\ session'.country = country
          /\ session'.app = "express" => session'.ids = city_to_id
      BY <3>1 DEF NoSession
    <3>3. at' = "login"
      BY <2>3 DEF StartTest
    <3>4. Tested'
      BY <2>1, <3>2, <3>3 DEF Tested, Testing
    <3> QED
      BY <3>2, <3>4
  <2>4. ASSUME LoggedIn PROVE Tested' /\ session'.how = "none"
    <3>1. at = "login" /\ at' = "connect" /\ session' = session
      BY <2>4 DEF LoggedIn
    <3>2. DOMAIN session = DOMAIN NoSession /\ session.how = "none" /\ session.country = country
          /\ (session.app = "express" /\ "express" \in fresh => session.ids = city_to_id)
      BY <3>1 DEF SInv, Tested, Testing
    <3>3. Tested'
      BY <2>1, <3>1, <3>2 DEF Tested, Testing
    <3> QED
      BY <3>1, <3>2, <3>3
  <2>5. ASSUME LoginFails \/ EndTest PROVE Tested' /\ session'.how = "none"
    <3>1. at' = "group" /\ session'.how = "none"
      BY <2>5 DEF LoginFails, EndTest, NoSession
    <3> QED
      BY <3>1 DEF Tested, Testing
  <2>6. Tested' /\ session'.how = "none"
    BY <1>2, <2>3, <2>4, <2>5
  <2>7. Typed' /\ ServedWhereOffered'
    BY <2>1, <2>6 DEF SInv, Typed, ServedWhereOffered
  <2> QED
    BY <2>1, <2>2, <2>6, <2>7, StillKnown DEF SInv
<1>3. CASE ListChanges
  <2>1. PICK p \in scene.lists :
          /\ \E list \in Catalogues[p] : offered' = [offered EXCEPT ![p] = list]
          /\ offered' # offered
          /\ fresh' = fresh \ {p}
    BY <1>3 DEF ListChanges
  <2>2. UNCHANGED <<nord_cities, city_map, city_to_id, country, at, session>>
    BY <1>3 DEF ListChanges, knownVars, searchVars
  <2>3. Undisturbed
    BY <2>1 DEF SInv, Typed, Undisturbed
  <2>4. Typed'
    BY <2>1 DEF SInv, Typed, Apps
  <2>5. Tested'
    BY <2>1, <2>2 DEF SInv, Tested, Testing
  <2> QED
    BY <2>2, <2>3, <2>4, <2>5, StillKnown, StillServed DEF SInv
<1>4. CASE UpdateVPNs
  <2>1. UNCHANGED <<offered, nord_cities, city_map, country, at, session>>
    BY <1>4 DEF UpdateVPNs
  <2>2. PICK gone : /\ city_to_id' = IF "express" \in gone THEN None ELSE city_to_id
                    /\ fresh' = fresh \ (gone \cap {"express"})
    BY <1>4 DEF UpdateVPNs
  <2>3. Undisturbed /\ ("express" \in fresh' => city_to_id' = city_to_id)
    BY <2>1, <2>2 DEF Undisturbed
  <2>4. Typed' /\ Tested'
    BY <2>1, <2>2 DEF SInv, Typed, Tested, Testing
  <2> QED
    BY <2>1, <2>3, <2>4, StillKnown, StillServed DEF SInv
<1> QED
  BY <1>1, <1>2, <1>3, <1>4

-------------------------------------------------------------------------------
(* An answer keeps the invariant when what its provider has learnt is so.     *)
LEMMA AnswersKeep ==
    ASSUME SInv, at = "asking", NEW p, NEW names, NEW knows, Answered(p, names, knows),
           Disturbed \/ Knowledge'
    PROVE  SInv'
<1>1. session'.how = "none" /\ offered' = offered
  BY DEF SInv, Tested, Testing, Answered, configVars
<1>2. CASE Disturbed
  <2>1. fresh' = {} /\ at' = "ended"
    BY <1>2 DEF Answered
  <2> QED
    BY <1>1, <2>1, ForgetKeeps DEF Testing
<1>3. CASE ~Disturbed
  <2>1. at' = at
    BY <1>3 DEF Answered
  <2>2. Typed' /\ ServedWhereOffered'
    BY <1>1 DEF SInv, Typed, ServedWhereOffered
  <2>3. Tested'
    BY <1>1, <2>1 DEF Tested, Testing
  <2> QED
    BY <1>3, <2>2, <2>3 DEF SInv
<1> QED
  BY <1>2, <1>3

(* What the others know does not depend on who is asked.                     *)
LEMMA OthersStill ==
    ASSUME SInv, NEW p, NEW names, NEW knows, Answered(p, names, knows), ~Disturbed
    PROVE  /\ \A q : q # p => Still(q)
           /\ offered' = offered /\ country' = country
           /\ fresh' = IF knows THEN fresh \cup {p} ELSE fresh \ {p}
BY DEF Answered, Still, configVars

LEMMA NordAnswer == ASSUME IInv, SInv, NordCities PROVE SInv'
<1>1. at = "asking" /\ Answered("nord", Listed("nord"), TRUE) /\ NordLearns
  BY DEF NordCities, Asked
<1>2. country \in Countries
  BY <1>1 DEF IInv, Asking
<1>3. ASSUME ~Disturbed PROVE Knowledge'
  <2>1. Still("surfshark") /\ Still("express") /\ offered' = offered /\ country' = country
    <3>1. \A q : q # "nord" => Still(q)
      BY <1>1, <1>3, OthersStill
    <3> QED
      BY <1>1, <3>1 DEF Answered, configVars
  <2>a. fresh' = fresh \cup {"nord"}
    BY <1>1, <1>3 DEF Answered
  <2>2. SurfKnown' /\ ExpressKnown'
    BY <1>1, <2>1, SurfStillKnown, ExpressStillKnown DEF SInv, Knowledge, NordLearns
  <2>3. ASSUME NEW x \in InCountry("nord", country)
        PROVE  country \in DOMAIN nord_cities' /\ x.city \in nord_cities'[country]
    <3>1. x.city \in Listed("nord")
      BY DEF Listed, NamesIn
    <3>2. nord_cities' = Overlay([k \in {country} |-> Listed("nord")], nord_cities)
      BY <1>1, <3>1 DEF NordLearns
    <3>3. country \in DOMAIN nord_cities' /\ nord_cities'[country] = Listed("nord")
      BY <3>2 DEF Overlay
    <3> QED
      BY <3>1, <3>3
  <2>4. InCountry("nord", country)' = InCountry("nord", country)
    BY <2>1 DEF InCountry, PlacesOf
  <2>5. NordKnown'
    BY <2>1, <2>3, <2>4 DEF NordKnown
  <2> QED
    BY <1>2, <2>1, <2>a, <2>2, <2>5 DEF SInv, Knowledge
<1> QED
  BY <1>1, <1>3, AnswersKeep

LEMMA SurfAnswer == ASSUME IInv, SInv, SurfCities PROVE SInv'
<1>1. PICK names : at = "asking" /\ Answered("surfshark", names, TRUE) /\ SurfLearns
  BY DEF SurfCities, Asked
<1>2. country \in Countries /\ Typed
  BY <1>1 DEF IInv, Asking, SInv
<1>3. ASSUME ~Disturbed PROVE Knowledge'
  <2>1. Still("nord") /\ Still("express") /\ offered' = offered /\ country' = country
    <3>1. \A q : q # "surfshark" => Still(q)
      BY <1>1, <1>3, OthersStill
    <3> QED
      BY <1>1, <3>1 DEF Answered, configVars
  <2>a. fresh' = fresh \cup {"surfshark"}
    BY <1>1, <1>3 DEF Answered
  <2>2. NordKnown' /\ ExpressKnown'
    BY <1>1, <2>1, NordStillKnown, ExpressStillKnown DEF SInv, Knowledge, SurfLearns
  <2>3. ASSUME NEW c \in Listed("surfshark")
        PROVE  /\ c \in DOMAIN city_map'
               /\ \E i \in Lines(country) :
                     Server(i).city = c /\ city_map'[c] = Number(country, i)
    <3>1. LastAt(country, c) \in Lines(country) /\ Server(LastAt(country, c)).city = c
      BY <1>2, LastLine DEF Listed
    <3>2. c \in DOMAIN Positions(country)
          /\ Positions(country)[c] = Number(country, LastAt(country, c))
      BY DEF Positions
    <3>3. c \in DOMAIN city_map' /\ city_map'[c] = Positions(country)[c]
      BY <1>1, <3>2 DEF SurfLearns, Overlay
    <3> QED
      BY <3>1, <3>2, <3>3
  <2>4. Listed("surfshark")' = Listed("surfshark")
    BY <2>1 DEF Listed, InCountry, PlacesOf, NamesIn
  <2>5. (\A i : Server(i)' = Server(i)) /\ Lines(country)' = Lines(country)
    BY <2>1 DEF Server, Lines
  <2>6. \A i : Number(country, i)' = Number(country, i)
    BY <2>1, <2>5 DEF Number, Upto
  <2>7. SurfKnown'
    BY <2>1, <2>3, <2>4, <2>5, <2>6 DEF SurfKnown
  <2> QED
    BY <1>2, <2>1, <2>a, <2>2, <2>7 DEF SInv, Knowledge
<1> QED
  BY <1>1, <1>3, AnswersKeep

LEMMA ExpressAnswer ==
    ASSUME IInv, SInv, ExpressCities \/ ExpressUnread
    PROVE  SInv'
<1>1. /\ at = "asking" /\ UNCHANGED <<nord_cities, city_map>>
      /\ \/ /\ Answered("express", Listed("express"), ~replaced)
            /\ city_to_id' = IF replaced THEN city_to_id ELSE [c \in Listed("express") |-> country]
         \/ Answered("express", {}, FALSE)
  BY DEF ExpressCities, ExpressUnread, ExpressLearns, Asked
<1>2. country \in Countries
  BY <1>1 DEF IInv, Asking
<1>3. PICK names, knows :
        /\ Answered("express", names, knows)
        /\ knows => city_to_id' = [c \in Listed("express") |-> country]
  BY <1>1
<1>4. ASSUME ~Disturbed PROVE Knowledge'
  <2>1. /\ Still("nord") /\ Still("surfshark") /\ offered' = offered /\ country' = country
        /\ fresh' = IF knows THEN fresh \cup {"express"} ELSE fresh \ {"express"}
    BY <1>3, <1>4, OthersStill
  <2>2. NordKnown' /\ SurfKnown'
    BY <1>1, <2>1, NordStillKnown, SurfStillKnown DEF SInv, Knowledge
  <2>3. Listed("express")' = Listed("express")
    BY <2>1 DEF Listed, InCountry, PlacesOf, NamesIn
  <2>4. ExpressKnown'
    BY <1>3, <2>1, <2>3 DEF ExpressKnown
  <2> QED
    BY <1>2, <2>1, <2>2, <2>4 DEF SInv, Knowledge
<1> QED
  BY <1>1, <1>3, <1>4, AnswersKeep

LEMMA OtherAnswers ==
    ASSUME IInv, SInv, PiaCities \/ PureCities \/ LoginCaught
    PROVE  SInv'
<1>1. PICK p, names, knows :
        p \in {"pia", "purevpn", "express"} /\ Answered(p, names, knows) /\ (knows => p = "pia")
  BY DEF PiaCities, PureCities, LoginCaught
<1>2. at = "asking" /\ UNCHANGED <<nord_cities, city_map, city_to_id>> /\ country \in Countries
  BY DEF PiaCities, PureCities, LoginCaught, Asked, knownVars, IInv, Asking
<1>3. ASSUME ~Disturbed PROVE Knowledge'
  <2>1. /\ \A q : q # p => Still(q)
        /\ offered' = offered /\ country' = country
        /\ fresh' = IF knows THEN fresh \cup {p} ELSE fresh \ {p}
    BY <1>1, <1>3, OthersStill
  <2>2. Still("nord") /\ Still("surfshark") /\ Still("express")
    BY <1>1, <2>1 DEF Still
  <2>3. NordKnown' /\ SurfKnown' /\ ExpressKnown'
    BY <1>2, <2>1, <2>2, NordStillKnown, SurfStillKnown, ExpressStillKnown DEF SInv, Knowledge
  <2> QED
    BY <1>1, <1>2, <2>1, <2>3 DEF SInv, Knowledge
<1> QED
  BY <1>1, <1>2, <1>3, AnswersKeep

-------------------------------------------------------------------------------
(* The attempt to connect comes to something, and changes nothing else.      *)
Session(how, place) ==
    /\ session'.how = how /\ session'.place = place
    /\ session'.app = session.app /\ session'.country = session.country
    /\ session'.city = session.city

LEMMA ConnectSession ==
    ASSUME SInv, at = "connect", NEW how, NEW place, Comes(how, place)
    PROVE  Session(how, place)
<1>1. DOMAIN session = {"app", "country", "city", "ids", "how", "place"}
  BY DEF SInv, Tested, NoSession
<1>2. session' = [session EXCEPT !.how = how, !.place = place, !.ids = None]
  BY DEF Comes
<1> QED
  BY <1>1, <1>2 DEF Session

LEMMA ConnectKeeps ==
    ASSUME SInv, at = "connect", NEW how, NEW place, Comes(how, place), ServedWhereOffered'
    PROVE  SInv'
<1>1. UNCHANGED <<offered, nord_cities, city_map, city_to_id, country, fresh>>
  BY DEF Comes, configVars, knownVars, searchVars
<1>2. at' \in {"up", "failed"}
  BY DEF Comes
<1>3. Undisturbed /\ Typed'
  BY <1>1 DEF Undisturbed, SInv, Typed
<1>4. session'.country = session.country
  BY ConnectSession DEF Session
<1>5. Tested'
  BY <1>1, <1>2, <1>4 DEF SInv, Tested, Testing
<1> QED
  BY <1>1, <1>3, <1>5, StillKnown DEF SInv

(* It is enough that where the city is offered the app comes up at the place. *)
ToServe ==
    /\ session.app \in fresh /\ Place \in PlacesOf(session.app)
    /\ session.app \in {"nord", "pia"} => ~Mistakable(session.app, session.city)
    /\ session.app = "nord" => session.city \notin Spaced

LEMMA ServedKeeps ==
    ASSUME SInv, at = "connect", NEW how, NEW place, Comes(how, place),
           ToServe => how = "refused" \/ (how = "up" /\ place = Place)
    PROVE  SInv'
<1>1. offered' = offered /\ fresh' = fresh
  BY DEF Comes, configVars
<1>2. Session(how, place)
  BY ConnectSession
<1>3. Place' = Place
  BY <1>2 DEF Place, Session
<1>4. \A p : PlacesOf(p)' = PlacesOf(p)
  BY <1>1 DEF PlacesOf
<1>5. Mistakable(session.app, session.city)' = Mistakable(session.app, session.city)
  BY <1>2, <1>4 DEF Mistakable, Session
<1>6. ServedWhereOffered'
  <2> SUFFICES ASSUME how \in {"up", "not_found"}, ToServe PROVE how = "up" /\ place = Place
    BY <1>1, <1>2, <1>3, <1>4, <1>5 DEF ServedWhereOffered, ToServe, Session
  <2> QED
    OBVIOUS
<1> QED
  BY <1>6, ConnectKeeps

(* A place of a provider that is fresh is in a country, and has a name.      *)
LEMMA ServeTyped ==
    ASSUME SInv, at = "connect", ToServe
    PROVE  /\ session.country = country /\ session.country # "auto" /\ session.city # None
           /\ Typed /\ session.app \in Apps
<1>1. Typed /\ session.app \in Apps /\ session.country = country
  BY CitiesAssumption DEF SInv, Knowledge, ToServe, Apps, Tested, Testing
<1>2. Place.country \in Countries /\ Place.city \in Names
  BY <1>1, PlacesTyped DEF ToServe
<1> QED
  BY <1>1, <1>2, CitiesAssumption DEF Place

LEMMA NordServes == ASSUME SInv, NordConnects PROVE SInv'
<1>1. at = "connect" /\ session.app = "nord"
  BY DEF NordConnects, Connecting
<1>2. PICK how, place : Comes(how, place) /\ (ToServe => how = "up" /\ place = Place)
  <2>1. CASE ToServe
    <3>1. ~Anywhere /\ session.country = country
      BY <1>1, <2>1, ServeTyped DEF Anywhere
    <3>2. Place \in InCountry("nord", country) /\ Place.city = session.city
      BY <1>1, <2>1, <3>1 DEF ToServe, InCountry, Place
    <3>3. country \in DOMAIN nord_cities /\ session.city \in nord_cities[country]
      BY <1>1, <2>1, <3>2 DEF SInv, Knowledge, NordKnown, ToServe
    <3>4. NordKnows(session.city)
      BY <3>2, <3>3 DEF NordKnows, InCountry
    <3>5. PICK x \in PlacesOf("nord") : x.city = session.city /\ Comes("up", x)
      BY <1>1, <2>1, <3>1, <3>4 DEF NordConnects, ToServe, UpIn, Up
    <3>6. x = Place
      BY <1>1, <2>1, <3>5 DEF ToServe, Mistakable, Fits, Place
    <3> QED
      BY <3>5, <3>6
  <2>2. CASE ~ToServe
    BY <2>2 DEF NordConnects, UpInCountry, UpIn, Up, NotFound
  <2> QED
    BY <2>1, <2>2
<1> QED
  BY <1>1, <1>2, ServedKeeps

LEMMA FirstOfThem == \A p, places : FirstOf(p, places) \subseteq places
BY DEF FirstOf

LEMMA PiaServes == ASSUME SInv, PiaConnects PROVE SInv'
<1>1. at = "connect" /\ session.app = "pia"
  BY DEF PiaConnects, Connecting
<1>2. PICK how, place : Comes(how, place) /\ (ToServe => how = "up" /\ place = Place)
  <2>1. CASE ToServe
    <3>1. session.country # "auto" /\ session.city # None
      BY <1>1, <2>1, ServeTyped
    <3> DEFINE fitting == {x \in PlacesOf("pia") : Fits(session.city, x)}
    <3>2. Place \in fitting
      BY <1>1, <2>1 DEF ToServe, Fits, Place
    <3>3. PICK x \in FirstOf("pia", fitting) : Comes("up", x)
      BY <3>1, <3>2 DEF PiaConnects, UpIn, Up
    <3>4. x \in PlacesOf("pia") /\ Fits(session.city, x)
      BY <3>3, FirstOfThem
    <3>5. x = Place
      BY <1>1, <2>1, <3>4 DEF ToServe, Mistakable, Place
    <3> QED
      BY <3>3, <3>5
  <2>2. CASE ~ToServe
    BY <2>2 DEF PiaConnects, UpInCountry, UpIn, Up, NotFound
  <2> QED
    BY <2>1, <2>2
<1> QED
  BY <1>1, <1>2, ServedKeeps

(* The table that ExpressVPN goes by when what it found is fresh.            *)
LEMMA TableKnown ==
    ASSUME SInv, at = "connect", session.app = "express", "express" \in fresh
    PROVE  /\ session.ids = [c \in Listed("express") |-> country]
           /\ session.ids # None /\ country = session.country
<1>1. session.ids = [c \in Listed("express") |-> country]
  BY DEF SInv, Tested, Knowledge, ExpressKnown
<1>2. country \in Countries /\ country = session.country /\ Typed
  BY DEF SInv, Knowledge, Tested, Testing
<1>3. \A x \in PlacesOf("express") : x.city \in Names
  BY <1>2, PlacesTyped, CitiesAssumption DEF Apps
<1>4. Listed("express") \subseteq Names
  BY <1>3 DEF Listed, NamesIn, InCountry
<1>5. session.ids \in [Listed("express") -> Countries]
  BY <1>1, <1>2
<1>6. session.ids # None
  BY <1>4, <1>5, CitiesAssumption
<1> QED
  BY <1>1, <1>2, <1>6

LEMMA ExpressServes == ASSUME SInv, ExpressConnects PROVE SInv'
<1>1. at = "connect" /\ session.app = "express"
  BY DEF ExpressConnects, Connecting
<1>2. PICK how, place : Comes(how, place) /\ (ToServe => how = "up" /\ place = Place)
  <2>1. CASE ToServe
    <3>1. ~Anywhere /\ session.country = country /\ Typed
      BY <1>1, <2>1, ServeTyped DEF Anywhere
    <3>2. session.ids = [c \in Listed("express") |-> country] /\ session.ids # None
      BY <1>1, <2>1, TableKnown DEF ToServe
    <3>3. Place \in InCountry("express", country) /\ Place.city = session.city
      BY <1>1, <2>1, <3>1 DEF ToServe, InCountry, Place
    <3>4. session.city \in Listed("express")
      BY <3>3 DEF Listed, NamesIn
    <3>5. session.city \in DOMAIN session.ids /\ session.ids[session.city] = session.country
      BY <3>1, <3>2, <3>4
    <3>6. PICK x \in PlacesOf("express") :
            x.city = session.city /\ x.country = session.country /\ Comes("up", x)
      BY <3>1, <3>2, <3>5 DEF ExpressConnects, UpIn, Up
    <3>7. x = [country |-> x.country, city |-> x.city]
      BY <3>1, PlacesTyped, CitiesAssumption DEF Apps
    <3> QED
      BY <3>6, <3>7 DEF Place
  <2>2. CASE ~ToServe
    BY <2>2 DEF ExpressConnects, UpInCountry, UpIn, Up, NotFound
  <2> QED
    BY <2>1, <2>2
<1> QED
  BY <1>1, <1>2, ServedKeeps

LEMMA SurfServes == ASSUME SInv, SurfConnects PROVE SInv'
<1>1. at = "connect" /\ session.app = "surfshark"
  BY DEF SurfConnects, Connecting
<1>2. PICK how, place : Comes(how, place) /\ (ToServe => how = "up" /\ place = Place)
  <2>1. CASE ToServe
    <3>1. session.country # "auto" /\ session.country = country /\ Typed
      BY <1>1, <2>1, ServeTyped
    <3>2. Place \in InCountry("surfshark", country) /\ Place.city = session.city
      BY <1>1, <2>1, <3>1 DEF ToServe, InCountry, Place
    <3>3. session.city \in Listed("surfshark")
      BY <3>2 DEF Listed, NamesIn
    <3>4. session.city \in DOMAIN city_map
      BY <1>1, <2>1, <3>3 DEF SInv, Knowledge, SurfKnown, ToServe
    <3>5. PICK i \in Lines(country) :
            Server(i).city = session.city /\ city_map[session.city] = Number(country, i)
      BY <1>1, <2>1, <3>3 DEF SInv, Knowledge, SurfKnown, ToServe
    <3>6. SurfIndex = Number(country, i)
      BY <3>4, <3>5 DEF SurfIndex
    <3> DEFINE lines == {l \in Lines(session.country) : Number(session.country, l) = SurfIndex}
    <3>7. lines = {i}
      BY <3>1, <3>5, <3>6, NumberOfOne
    <3>8. Comes("up", Server(i))
      <4>1. lines # {}
        BY <3>7
      <4>2. UpIn({Server(l) : l \in lines})
        BY <3>1, <4>1 DEF SurfConnects
      <4> QED
        BY <3>7, <4>2 DEF UpIn, Up
    <3>9. Server(i) = Place
      <4>1. Server(i) \in PlacesOf("surfshark") /\ Server(i).country = country
        BY <3>1, <3>5, LinesTyped
      <4>2. Server(i) = [country |-> Server(i).country, city |-> Server(i).city]
        BY <3>1, <4>1, PlacesTyped, CitiesAssumption DEF Apps
      <4> QED
        BY <3>1, <3>5, <4>1, <4>2 DEF Place
    <3> QED
      BY <3>8, <3>9
  <2>2. CASE ~ToServe
    BY <2>2 DEF SurfConnects, UpInCountry, UpIn, Up, NotFound
  <2> QED
    BY <2>1, <2>2
<1> QED
  BY <1>1, <1>2, ServedKeeps

LEMMA OthersServe == ASSUME SInv, PureConnects \/ Refused PROVE SInv'
<1>1. CASE PureConnects
  <2>1. at = "connect" /\ session.app = "purevpn"
    BY <1>1 DEF PureConnects, Connecting
  <2>2. PICK how, place : Comes(how, place)
    BY <1>1 DEF PureConnects, UpInCountry, UpIn, Up
  <2>3. ~ToServe
    BY <2>1 DEF ToServe, SInv, Knowledge
  <2> QED
    BY <2>1, <2>2, <2>3, ServedKeeps
<1>2. CASE Refused
  BY <1>2, ServedKeeps DEF Refused
<1> QED
  BY <1>1, <1>2

-------------------------------------------------------------------------------
(* What the providers know, and what the tests come to, is invariant.        *)
LEMMA ServedInvariant == Spec => []SInv
<1>1. Init => SInv
  BY DEF Init, SInv, Typed, Knowledge, NordKnown, SurfKnown, ExpressKnown, Tested, Testing,
         NoSession, ServedWhereOffered
<1>2. IInv /\ SInv /\ [Next]_vars => SInv'
  <2> SUFFICES ASSUME IInv, SInv, [Next]_vars PROVE SInv'
    OBVIOUS
  <2>1. CASE \/ NordConnects \/ PiaConnects \/ ExpressConnects \/ SurfConnects
             \/ PureConnects \/ Refused
    BY <2>1, NordServes, PiaServes, ExpressServes, SurfServes, OthersServe
  <2>2. CASE \/ NordCities \/ PiaCities \/ SurfCities \/ PureCities
             \/ ExpressCities \/ ExpressUnread \/ LoginCaught
    BY <2>2, NordAnswer, SurfAnswer, ExpressAnswer, OtherAnswers
  <2>3. CASE Search \/ TakeGroup \/ SearchRaises \/ Leave \/ Stop \/ Start
    BY <2>3, ForgettingSteps
  <2>4. CASE \/ Choose \/ StartTest \/ LoggedIn \/ LoginFails \/ EndTest \/ ListChanges
             \/ UpdateVPNs \/ UNCHANGED vars
    BY <2>4, QuietSteps
  <2> QED
    BY <2>1, <2>2, <2>3, <2>4 DEF Next, Lookup
<1> QED
  BY <1>1, <1>2, SearchInvariant, PTL DEF Spec

(* What a VPN offers and has named in the search it serves in the tests.     *)
THEOREM CitiesServed == Spec => []ServedWhereOffered
<1>1. SInv => ServedWhereOffered
  BY DEF SInv
<1> QED
  BY <1>1, ServedInvariant, PTL

-------------------------------------------------------------------------------
(* A step that connects, and one that does not.                              *)
Right ==
    Abroad' /\ ~Abroad =>
        /\ session.city # None /\ Mistakable(session.app, session.city)
        /\ \/ session.app \in {"nord", "pia"}
           \/ session.app = "express" /\ "express" \notin fresh

(* To come up in the country that was asked for is right.                    *)
LEMMA AtHome ==
    ASSUME SInv, at = "connect", NEW how, NEW place, Comes(how, place),
           how = "up" /\ session.country # "auto" => place.country = session.country
    PROVE  Right
<1>1. Session(how, place)
  BY ConnectSession
<1>2. ~Abroad'
  BY <1>1 DEF Abroad, Session
<1> QED
  BY <1>2 DEF Right

(* So it is to come up at a place that has the name, when that is allowed.   *)
LEMMA NamedAbroad ==
    ASSUME SInv, at = "connect", NEW x \in PlacesOf(session.app), Comes("up", x),
           session.city # None, Fits(session.city, x),
           x.country # session.country =>
             \/ session.app \in {"nord", "pia"}
             \/ session.app = "express" /\ "express" \notin fresh
    PROVE  Right
<1>1. CASE x.country = session.country
  BY <1>1, AtHome
<1>2. CASE x.country # session.country
  <2>1. x # [country |-> session.country, city |-> session.city]
    BY <1>2
  <2>2. Mistakable(session.app, session.city)
    BY <2>1 DEF Mistakable
  <2> QED
    BY <1>2, <2>2 DEF Right
<1> QED
  BY <1>1, <1>2

LEMMA CountryAtHome ==
    ASSUME SInv, at = "connect", NEW p, UpInCountry(p)
    PROVE  Right
BY AtHome DEF UpInCountry, UpIn, Up, InCountry

LEMMA ConnectsRight ==
    ASSUME SInv,
           \/ NordConnects \/ PiaConnects \/ ExpressConnects \/ SurfConnects \/ PureConnects
           \/ Refused
    PROVE  Right
<1>1. ASSUME at = "connect", NotFound \/ Refused PROVE Right
  BY <1>1, AtHome DEF NotFound, Refused
<1>2. CASE NordConnects
  <2>1. at = "connect" /\ session.app = "nord"
    BY <1>2 DEF NordConnects, Connecting
  <2>2. CASE UpInCountry("nord") \/ NotFound
    BY <1>1, <2>1, <2>2, CountryAtHome
  <2>3. CASE ~(UpInCountry("nord") \/ NotFound)
    <3>1. PICK x \in PlacesOf("nord") :
            x.city = session.city /\ Comes("up", x) /\ session.city # None
      BY <1>2, <2>3 DEF NordConnects, Anywhere, UpIn, Up
    <3> QED
      BY <2>1, <3>1, NamedAbroad DEF Fits
  <2> QED
    BY <2>2, <2>3
<1>3. CASE PiaConnects
  <2>1. at = "connect" /\ session.app = "pia"
    BY <1>3 DEF PiaConnects, Connecting
  <2> DEFINE fitting == {x \in PlacesOf("pia") : Fits(session.city, x)}
  <2>2. CASE NotFound
    BY <1>1, <2>1, <2>2
  <2>3. CASE session.country = "auto" /\ UpIn(PlacesOf("pia"))
    BY <2>1, <2>3, AtHome DEF UpIn, Up
  <2>4. CASE UpIn(FirstOf("pia", InCountry("pia", session.country)))
    <3>1. PICK x \in InCountry("pia", session.country) : Comes("up", x)
      BY <2>4, FirstOfThem DEF UpIn, Up
    <3> QED
      BY <2>1, <3>1, AtHome DEF InCountry
  <2>5. CASE session.city # None /\ UpIn(FirstOf("pia", fitting))
    <3>1. PICK x \in fitting : Comes("up", x)
      BY <2>5, FirstOfThem DEF UpIn, Up
    <3> QED
      BY <2>1, <2>5, <3>1, NamedAbroad
  <2> QED
    BY <1>3, <2>2, <2>3, <2>4, <2>5 DEF PiaConnects
<1>4. CASE ExpressConnects
  <2>1. at = "connect" /\ session.app = "express"
    BY <1>4 DEF ExpressConnects, Connecting
  <2>2. CASE UpInCountry("express") \/ NotFound
    BY <1>1, <2>1, <2>2, CountryAtHome
  <2>3. CASE ~(UpInCountry("express") \/ NotFound)
    <3>1. PICK x \in PlacesOf("express") :
            /\ x.city = session.city /\ x.country = session.ids[session.city]
            /\ session.city \in DOMAIN session.ids
            /\ Comes("up", x) /\ session.city # None
      BY <1>4, <2>3 DEF ExpressConnects, Anywhere, UpIn, Up
    <3>2. "express" \in fresh => x.country = session.country
      BY <2>1, <3>1, TableKnown
    <3> QED
      BY <2>1, <3>1, <3>2, NamedAbroad DEF Fits
  <2> QED
    BY <2>2, <2>3
<1>5. CASE SurfConnects
  <2>1. at = "connect"
    BY <1>5 DEF SurfConnects, Connecting
  <2>2. CASE NotFound
    BY <1>1, <2>1, <2>2
  <2>3. CASE session.country = "auto" /\ ~NotFound
    <3>1. PICK x : Comes("up", x)
      BY <1>5, <2>3 DEF SurfConnects, UpIn, Up
    <3> QED
      BY <2>1, <2>3, <3>1, AtHome
  <2>4. CASE session.country # "auto" /\ ~NotFound
    <3>1. PICK i \in Lines(session.country) : Comes("up", Server(i))
      BY <1>5, <2>4 DEF SurfConnects, UpIn, Up
    <3>2. Server(i).country = session.country
      BY <3>1 DEF Lines
    <3> QED
      BY <2>1, <3>1, <3>2, AtHome
  <2> QED
    BY <2>2, <2>3, <2>4
<1>6. CASE PureConnects
  BY <1>6, CountryAtHome DEF PureConnects, Connecting
<1> QED
  BY <1>1, <1>2, <1>3, <1>4, <1>5, <1>6 DEF Refused

LEMMA OthersRight ==
    ASSUME SInv, [Next]_vars,
           ~(\/ NordConnects \/ PiaConnects \/ ExpressConnects \/ SurfConnects \/ PureConnects
             \/ Refused)
    PROVE  Right
<1>1. ASSUME StartTest PROVE session'.how = "none"
  BY <1>1 DEF StartTest, NoSession
<1>2. ASSUME LoginFails \/ EndTest \/ Stop PROVE session'.how = "none"
  BY <1>2 DEF LoginFails, EndTest, Stop, NoSession
<1>3. ASSUME \/ NordCities \/ PiaCities \/ SurfCities \/ PureCities
             \/ ExpressCities \/ ExpressUnread \/ LoginCaught \/ SearchRaises \/ Choose
      PROVE  session' = session
  BY <1>3 DEF NordCities, PiaCities, SurfCities, PureCities, ExpressCities, ExpressUnread,
              LoginCaught, Answered, SearchRaises, Choose
<1>4. ASSUME \/ Search \/ TakeGroup \/ LoggedIn \/ Leave \/ ListChanges \/ UpdateVPNs
             \/ Start \/ UNCHANGED vars
      PROVE  session' = session
  BY <1>4 DEF Search, TakeGroup, LoggedIn, Leave, ListChanges, UpdateVPNs, Start, vars
<1>5. session' = session \/ session'.how = "none"
  BY <1>1, <1>2, <1>3, <1>4 DEF Next, Lookup
<1> QED
  BY <1>5 DEF Right, Abroad

(* No test is made in another country but for a city that is found in both.  *)
THEOREM CountryRight == Spec => RightCountry
<1>1. SInv /\ [Next]_vars => Right
  BY ConnectsRight, OthersRight
<1>2. SInv /\ [Next]_vars => [Right]_vars
  BY <1>1
<1> QED
  BY <1>2, ServedInvariant, PTL DEF Spec, RightCountry, Right

===============================================================================
