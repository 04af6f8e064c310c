------------------------------- MODULE MCSession ------------------------------
(* A small instance of Session for TLC: its constants are numbers.           *)
EXTENDS Session

===============================================================================
