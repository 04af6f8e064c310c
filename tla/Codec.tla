--------------------------------- MODULE Codec --------------------------------
(*****************************************************************************)
(* api/codex: what a posted configuration becomes.                           *)
(*                                                                           *)
(* A document is what yaml.safe_load makes of a configuration file and the   *)
(* command line posts: [mode, repeats, common, groups, vpns, sinks].  Fields *)
(* that the file leaves out are None; common_cities then decodes to False.   *)
(*   groups  [form |-> "list", items |-> set of items] where an item is      *)
(*           [sort |-> "text" or "dict" or "bare", vpn, target];             *)
(*           [form |-> "multi", vpns, targets]; or [form |-> "other"]: null, *)
(*           a lone string, a dictionary without "multi"                     *)
(*   vpns    name -> None (no technologies) or a function from technologies  *)
(*           to sets of protocols, {} when they have none                    *)
(*   sinks   as in a context                                                 *)
(* YAML 1.1 reads some country codes as truth values ("no").                 *)
(*****************************************************************************)
EXTENDS Diff

CONSTANTS
    Code,       \* iso_to_cc: how a country is written -> its internal code
    TruthValues,  \* the countries that YAML reads as truth values
    Supported   \* the technologies of each provider: name -> tech -> protocols

(* preparser.py.  A text without a colon, and a text in a list that has a    *)
(* dictionary too, raises; so does a country that is no string, outside of   *)
(* a text like "no:no".                                                      *)
Readable(groups) ==
    CASE groups = None \/ groups.form = "other" -> TRUE
      [] groups.form = "multi" ->
           \/ (groups.vpns \cup groups.targets) \cap TruthValues = {}
           \/ groups.vpns = {} \/ groups.targets = {}
      [] OTHER ->
           \/ \A i \in groups.items : i.sort = "text"
           \/ \A i \in groups.items :
                i.sort = "dict" /\ {i.vpn, i.target} \cap TruthValues = {}

(* preparse, then format_countries.                                          *)
Expanded(groups) ==
    CASE groups = None -> None
      [] groups.form = "other" -> {}
      [] groups.form = "multi" ->
           {<<Code[src], Code[dest]>> : src \in groups.vpns, dest \in groups.targets}
      [] OTHER -> {<<Code[i.vpn], Code[i.target]>> : i \in groups.items}

(* validate_values: a VPN without technologies raises a TypeError.           *)
Supports(vpns) ==
    vpns # None =>
        \A name \in DOMAIN vpns :
           /\ name \in DOMAIN Supported /\ vpns[name] # None
           /\ \A tech \in DOMAIN vpns[name] :
                /\ tech \in DOMAIN Supported[name]
                /\ vpns[name][tech] \subseteq Supported[name][tech]

(* The test cases of the VPNs, as diff.py permutes them.                     *)
CasesOf(name, techs) ==
    UNION {{<<name, tech, proto>> : proto \in IF techs[tech] = {} THEN {None} ELSE techs[tech]} :
           tech \in DOMAIN techs}

Accepts(doc) == Readable(doc.groups) /\ Supports(doc.vpns)

(* decode, of a document that it accepts.                                    *)
Decode(doc, state) ==
    [state |-> state,
     config |-> [mode |-> doc.mode, repeats |-> doc.repeats, common |-> doc.common,
                 vpns |-> IF doc.vpns = None THEN None
                          ELSE [n \in DOMAIN doc.vpns |-> CasesOf(n, doc.vpns[n])],
                 groups |-> Expanded(doc.groups),
                 sinks |-> IF doc.sinks = None THEN <<>> ELSE doc.sinks]]

===============================================================================
