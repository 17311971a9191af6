------------------------------ MODULE Transfer ------------------------------
(***************************************************************************)
(* What one stream promises to the sender that started it, without saying  *)
(* how: what arrives at the destination stays there, the destination may   *)
(* go on receiving after the sender has given up, and the sender hears of  *)
(* success only when all of the stream has arrived.                        *)
(***************************************************************************)
EXTENDS Naturals

CONSTANT Blocks     \* the length of the stream

VARIABLES
    received,   \* how much of it the destination has received
    verdict     \* what the sender knows: "none", "ok" or "error"

Init == received = 0 /\ verdict = "none"

Receive ==
    /\ received < Blocks
    /\ received' = received + 1
    /\ UNCHANGED verdict

Succeed ==
    /\ verdict = "none"
    /\ received = Blocks
    /\ verdict' = "ok"
    /\ UNCHANGED received

GiveUp ==
    /\ verdict = "none"
    /\ verdict' = "error"
    /\ UNCHANGED received

Next == Receive \/ Succeed \/ GiveUp

Spec == Init /\ [][Next]_<<received, verdict>>
=============================================================================
