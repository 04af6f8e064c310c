------------------------------- MODULE Outcomes -------------------------------
(*****************************************************************************)
(* What a test may come to, the way Runner assumes it: the stages are its    *)
(* values of pc.  Only what follows the connection raises errors of a group  *)
(* or a case, a run is counted before its result is sent and at most once,   *)
(* and a cancellation gets lost in a login and nowhere else.                 *)
(*****************************************************************************)
VARIABLES
    stage,        \* "idle" between tests, "city" while a city is looked up
    cancelling,
    counted,      \* add_run is done for this test
    sent          \* its result was handed to send_data

vars == <<stage, cancelling, counted, sent>>

Init == stage = "idle" /\ cancelling = FALSE /\ counted = FALSE /\ sent = FALSE

Goto(s) == ~cancelling /\ stage' = s /\ UNCHANGED <<cancelling, counted, sent>>

Begins ==
    /\ stage = "idle" /\ stage' \in {"city", "env"}
    /\ counted' = FALSE /\ sent' = FALSE /\ cancelling' = FALSE

(* A provider that is logged in already does not suspend the task.           *)
Advances ==
    \/ stage = "city" /\ Goto("idle")
    \/ stage = "env" /\ (Goto("login") \/ Goto("vpn"))
    \/ stage = "login" /\ Goto("vpn")
    \/ stage = "vpn" /\ Goto("add_run")

Counts ==
    /\ stage = "add_run" /\ stage' = "exit" /\ counted' = TRUE
    /\ ~cancelling /\ UNCHANGED <<cancelling, sent>>

Sends ==
    /\ stage = "exit" /\ stage' = "delay" /\ sent' = TRUE
    /\ ~cancelling /\ UNCHANGED <<cancelling, counted>>

Fails ==
    \/ stage \in {"env", "login", "vpn"} /\ Goto("fail_run")
    \/ stage = "vpn" /\ (Goto("fail_group") \/ Goto("fail_case"))

Raises == stage \in {"city", "env", "login", "vpn", "exit"} /\ Goto("idle")

Handled ==
    \/ stage = "fail_run" /\ Goto("delay")
    \/ stage \in {"fail_group", "fail_case", "delay"} /\ Goto("idle")

Cancel ==
    /\ stage # "idle" /\ cancelling' = TRUE
    /\ UNCHANGED <<stage, counted, sent>>

Cancelled ==
    /\ cancelling /\ stage' = "idle" /\ cancelling' = FALSE
    /\ UNCHANGED <<counted, sent>>

Lost ==
    /\ cancelling /\ stage = "login"
    /\ stage' = "fail_run" /\ cancelling' = FALSE
    /\ UNCHANGED <<counted, sent>>

Next ==
    \/ Begins \/ Advances \/ Counts \/ Sends \/ Fails \/ Raises \/ Handled
    \/ Cancel \/ Cancelled \/ Lost

Spec == Init /\ [][Next]_vars

===============================================================================
