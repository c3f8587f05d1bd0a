------------------------------ MODULE UserSessions ------------------------------
(***************************************************************************)
(* What the VPN server promises of a user's sessions, without saying how:  *)
(* a connection attempt is let in at most once, once it is out it stays    *)
(* out, and until some client has renegotiated it is let in only when no   *)
(* other session of the same user is.                                      *)
(***************************************************************************)
CONSTANTS Clients, Owner

VARIABLES
    status,  \* of each connection attempt: "out", "in" or "gone"
    renewed  \* has any client renegotiated?

Init ==
    /\ status = [c \in Clients |-> "out"]
    /\ renewed = FALSE

Admit(c) ==
    /\ status[c] = "out"
    /\ renewed \/ \A d \in Clients \ {c} : Owner[d] = Owner[c] => status[d] # "in"
    /\ status' = [status EXCEPT ![c] = "in"]
    /\ UNCHANGED renewed

Leave(c) ==
    /\ status[c] \in {"out", "in"}
    /\ status' = [status EXCEPT ![c] = "gone"]
    /\ UNCHANGED renewed

Renew(c) ==
    /\ status[c] = "in"
    /\ renewed' = TRUE
    /\ UNCHANGED status

Next == \E c \in Clients : Admit(c) \/ Leave(c) \/ Renew(c)

Spec == Init /\ [][Next]_<<status, renewed>>
=============================================================================
