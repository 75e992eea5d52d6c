------------------------------ MODULE FrameStream ------------------------------
(* What one direction of a TCP tunnel promises: the frames that were accepted *)
(* for sending are delivered in their order, each once and none in between   *)
(* left out, for as long as it lasts; nothing is accepted after it is closed. *)
EXTENDS Naturals

VARIABLES
    sent,       \* number of the last frame accepted
    got,        \* number of the last frame delivered
    open

Init == sent = 0 /\ got = 0 /\ open = TRUE

Accept ==
    /\ open
    /\ sent' = sent + 1
    /\ UNCHANGED <<got, open>>

Deliver ==
    /\ got < sent
    /\ got' = got + 1
    /\ UNCHANGED <<sent, open>>

Close ==
    /\ open /\ open' = FALSE
    /\ UNCHANGED <<sent, got>>

Next == Accept \/ Deliver \/ Close

Spec == Init /\ [][Next]_<<sent, got, open>>
=============================================================================
