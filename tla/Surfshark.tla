------------------------------- MODULE Surfshark ------------------------------
(*****************************************************************************)
(* The provider SurfShark on top of Templated and the technologies it starts *)
(* in a container (vpn/surfshark.py, vpn/templated.py, vpn/technology): what *)
(* its calls leave behind for the tests that come after.                     *)
(*                                                                           *)
(* A request to the API or a command in the container ends an action.        *)
(*****************************************************************************)
EXTENDS Integers, FiniteSets

CONSTANTS
    MaxKeys,      \* bound on the WireGuard keys generated
    MaxDay        \* bound on the days that pass

VARIABLES
    surf,         \* the provider object, see NewProvider
    service,      \* the API: key -> day on which it expires, 0 if never activated
    config,       \* what the configuration of the connection was made from
    day           \* datetime.utcnow().date()

surfVars == <<surf, service, config, day>>

Techs == {"openvpn", "wireguard", "ipsec"}
Keys == 1..MaxKeys
NoConfig == [creds |-> "none", key |-> 0]

(* user: both, half (the name without the password) or none of __username    *)
(* and __password are set; creds: _creds, the account's or those two; key:   *)
(* __private_key; file: what __wg_private_key_file holds; current:           *)
(* __current_tech; env: the test in whose container a technology was         *)
(* started last; proc: the test that started OpenVPN._proc_id.               *)
NewProvider ==
    [user |-> "none", creds |-> "account", key |-> 0,
     file |-> [key |-> 0, expires |-> 0], current |-> "none",
     env |-> [t \in Techs |-> 0], proc |-> 0]

SurfInit ==
    /\ surf = NewProvider /\ service = [k \in Keys |-> 0]
    /\ config = NoConfig /\ day = 1

-------------------------------------------------------------------------------
(* login: the token, then the service's own credentials, the user name       *)
(* before the password; either one makes the next login unnecessary.  A      *)
(* token is renewed before it is used.                                       *)
HasLogin == surf.user # "none"
GetToken == UNCHANGED surfVars

GetCredentials ==
    /\ surf' = [surf EXCEPT !.user = "whole", !.creds = "whole"]
    /\ UNCHANGED <<service, config, day>>

(* The answer has no password: an error, but the user name is kept.          *)
GetCredentialsHalf ==
    /\ surf' = [surf EXCEPT !.user = "half"]
    /\ UNCHANGED <<service, config, day>>

(* login hands on what is set, also when it did not ask the service.         *)
Login_SkippedForgets == UNCHANGED surfVars
Login ==
    /\ surf' = IF HasLogin THEN [surf EXCEPT !.creds = surf.user] ELSE surf
    /\ UNCHANGED <<service, config, day>>

(* _get_wg_config: the saved key, unless it expires today or earlier.        *)
Expired_Never(file) == FALSE
Expired(file) == file.expires <= day
SavedKeyGood == surf.file.key # 0 /\ ~Expired(surf.file)

LoadKey ==
    /\ surf' = IF SavedKeyGood THEN [surf EXCEPT !.key = surf.file.key] ELSE surf
    /\ UNCHANGED <<service, config, day>>

Unused == {k \in Keys : k > surf.key /\ \A j \in Keys : service[j] # 0 => k > j}
GenerateKey ==
    \E k \in Unused :
        /\ \A j \in Unused : k <= j
        /\ surf' = [surf EXCEPT !.key = k]
        /\ UNCHANGED <<service, config, day>>

(* _activate_wg_public_key and _save_wg_key_data.  The service says when the *)
(* key expires; today means within the day.                                  *)
ActivateKey ==
    \E expires \in {day, day + 1} :
        /\ service' = [service EXCEPT ![surf.key] = expires]
        /\ surf' = [surf EXCEPT !.file = [key |-> surf.key, expires |-> expires]]
        /\ UNCHANGED <<config, day>>

(* Activated, but the answer did not arrive or could not be read.            *)
ActivateKeyUnheard ==
    \E expires \in {day, day + 1} :
        /\ service' = [service EXCEPT ![surf.key] = expires]
        /\ UNCHANGED <<surf, config, day>>

(* Templated.connect up to the start of the technology.                      *)
Configure(tech, n) ==
    /\ surf' = [surf EXCEPT !.current = tech, !.env[tech] = n]
    /\ config' = [creds |-> surf.creds, key |-> surf.key]
    /\ UNCHANGED <<service, day>>

(* The server is looked up after __current_tech has been set.                *)
ConfigureFails(tech) ==
    /\ surf' = [surf EXCEPT !.current = tech]
    /\ UNCHANGED <<service, config, day>>

OpenVPNSpawned(n) ==
    /\ surf' = [surf EXCEPT !.proc = n]
    /\ UNCHANGED <<service, config, day>>

OpenVPNKilled == [surf EXCEPT !.proc = 0]

(* Templated.disconnect.                                                     *)
Disconnect ==
    /\ surf' = IF surf.current = "openvpn" THEN [OpenVPNKilled EXCEPT !.current = "none"]
               ELSE [surf EXCEPT !.current = "none"]
    /\ config' = NoConfig
    /\ UNCHANGED <<service, day>>

NextDay ==
    /\ day < MaxDay /\ day' = day + 1
    /\ UNCHANGED <<surf, service, config>>

===============================================================================
