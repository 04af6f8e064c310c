------------------------------- MODULE MCService ------------------------------
(* Small instances of Service for TLC: the requests clients post.            *)
EXTENDS Service, TLC

CONSTANTS p1, p2, c1, c2, v1, v2, s1, s2, s3

MCProviderOf == c1 :> v1 @@ c2 :> v2

Config(m, r, cities, vpns, gs, ss) ==
    [mode |-> m, repeats |-> r, common |-> cities, vpns |-> vpns, groups |-> gs,
     sinks |-> [n \in ss |-> "default"]]
Up(config) == [update |-> FALSE, context |-> [state |-> "run", config |-> config]]
UpUpdate(config) == [Up(config) EXCEPT !.update = TRUE]
Down == [update |-> FALSE, context |-> [state |-> "idle", config |-> None]]
Stop == [update |-> FALSE, context |-> [state |-> "quit", config |-> None]]

OneVpn == v1 :> {c1}
TwoVpns == v1 :> {c1} @@ v2 :> {c2}

Client(f, r) == [faults |-> f, requests |-> r]

(* "vpnspeed up", "down" and "stop" with the configurations of one mode.     *)
OnceRequests ==
    {Up(Config("once", 1, FALSE, OneVpn, {p1, p2}, {s1})),
     Up(Config("once", 1, FALSE, TwoVpns, {p2}, {})), Down, Stop}
ContinuousRequests ==
    {Up(Config("continuous", 1, FALSE, OneVpn, {p1, p2}, {s1})),
     Up(Config("continuous", 2, FALSE, TwoVpns, {p2}, {})), Down, Stop}

(* Both modes, so that cleaning the once mode starts the runner again.       *)
MixedRequests ==
    {Up(Config("once", 1, FALSE, TwoVpns, {p1}, {s1})),
     Up(Config("continuous", 1, FALSE, OneVpn, {p1, p2}, {})), Down}

(* "vpnspeed up -u" while tests run: groups, VPNs and sinks come and go, and *)
(* cities are looked up.                                                     *)
WithCities == Up(Config("continuous", 1, TRUE, OneVpn, {p1}, {s1}))
UpdateRequests ==
    {WithCities, UpUpdate(Config("continuous", 1, TRUE, TwoVpns, {p2}, {s2})),
     UpUpdate(Config("once", None, FALSE, v2 :> {c2}, {p1, p2}, {}))}

(* The same while tests fail; one update leaves no VPN at all.               *)
FailingRequests ==
    {WithCities, UpUpdate(Config("continuous", None, FALSE, v2 :> {c2}, {p2}, {})),
     UpUpdate(Config("continuous", None, FALSE, Empty, {p2}, {}))}

(* Updates that fail: s3 has no plugin; the settings of s1 change as well.   *)
Changing(config) == [config EXCEPT !.sinks = s1 :> "changed"]
ErrorRequests ==
    {Up(Config("continuous", 1, FALSE, OneVpn, {p1}, {s1, s3})),
     Up(Changing(Config("continuous", 1, FALSE, v2 :> {c2}, {p1}, {}))),
     UpUpdate(Config("continuous", None, FALSE, TwoVpns, {p1}, {s1, s3})), Down}

AllClients ==
    {Client({"run", "group"}, OnceRequests), Client({}, ContinuousRequests),
     Client({"run"}, MixedRequests), Client({"env"}, ErrorRequests),
     Client({}, UpdateRequests), Client({"case", "group"}, FailingRequests)}

(* The mode is changed with "up -u".                                         *)
ModeUpdate ==
    {Client({}, {Up(Config("once", 1, FALSE, OneVpn, {p1}, {})),
                 UpUpdate(Config("continuous", 1, FALSE, OneVpn, {p1}, {}))})}

(* A configuration with common cities, as in the sample vpnspeed.yaml.       *)
CityLookup ==
    {Client({}, {Up(Config("continuous", 1, TRUE, OneVpn, {p1, p2}, {})), Down})}

(* "vpnspeed up -u" with another VPN.                                        *)
OtherVpn ==
    {Client({}, {Up(Config("continuous", 1, FALSE, OneVpn, {p1}, {})),
                 UpUpdate(Config("continuous", 1, FALSE, v2 :> {c2}, {p1}, {}))})}

(* A runner that is stopped.                                                 *)
Stopping ==
    {Client({}, {Up(Config("continuous", 1, FALSE, OneVpn, {p1, p2}, {})), Down})}

===============================================================================
