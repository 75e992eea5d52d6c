------------------------------ MODULE AtMostOnce ------------------------------
(***************************************************************************)
(* What the sealed data path of one tunnel direction promises to its user: *)
(* the frames handed to the receiver are frames the peer sealed under the   *)
(* keys of the current session, and none is handed over twice.  Frames may  *)
(* be lost and may overtake one another.                                   *)
(***************************************************************************)
EXTENDS Naturals

CONSTANT Frame        \* everything that can be sealed: <<key epoch, sequence>>

VARIABLES
    sealed,           \* the frames the sender has sealed so far
    delivered         \* how often each frame was handed to the receiver

avars == <<sealed, delivered>>

ATypeOK ==
    /\ sealed \in SUBSET Frame
    /\ delivered \in [Frame -> 0..1]

AInit ==
    /\ sealed = {}
    /\ delivered = [f \in Frame |-> 0]

ASeal(f) ==
    /\ f \notin sealed
    /\ sealed' = sealed \cup {f}
    /\ UNCHANGED delivered

ADeliver(f) ==
    /\ f \in sealed
    /\ delivered[f] = 0
    /\ delivered' = [delivered EXCEPT ![f] = 1]
    /\ UNCHANGED sealed

ANext == \E f \in Frame : ASeal(f) \/ ADeliver(f)

ASpec == AInit /\ [][ANext]_avars
=============================================================================
