----------------------------- MODULE ReplayChannel -----------------------------
(***************************************************************************)
(* One direction of a tunnel session after the keys are ready: the sender   *)
(* stamps every frame with the next 32-bit sequence number and seals it     *)
(* with AES-GCM; the network loses, duplicates, reorders and invents        *)
(* datagrams; the receiver runs the three steps of handle_frame /           *)
(* handle_framed: too_old, GCM open, accept.                               *)
(*                                                                         *)
(* A key epoch is one set of session keys.  GCM is modelled by what it      *)
(* does: a frame opens only under the keys that sealed it.  The 64-bit      *)
(* bitmap m_window is the set of the ages whose bit is set.                 *)
(***************************************************************************)
EXTENDS Integers, FiniteSets

CONSTANTS
    Window,          \* kWindow: how far behind the highest number is accepted
    SeqRekeyLimit,   \* kSeqRekeyLimit: first number the sender refuses to use
    SeqMod,          \* 2^w, w the width of the sequence field
    MaxEpoch,        \* bound: how many sets of session keys a behaviour sees
    ForgedSeq        \* bound: sequence numbers of datagrams nobody sealed

ASSUME ChannelAssumption ==
    /\ Window \in Nat \ {0}
    /\ SeqRekeyLimit \in Nat \ {0}
    /\ SeqMod \in Nat /\ SeqRekeyLimit < SeqMod
    /\ MaxEpoch \in Nat \ {0}
    /\ ForgedSeq \in SUBSET (0..(SeqMod - 1))

None == -1           \* kNone: no frame accepted yet
Epochs == 1..MaxEpoch
Forged == 0          \* the epoch of a datagram no key of the session opens
SeqNum == 0..(SeqMod - 1)
Frame == Epochs \X SeqNum

VARIABLES
    epoch,           \* the keys both ends hold
    seq,             \* m_seq / Session::seq
    rekey,           \* m_need_reconnect / tcp_drop: the sender gave up the session
    wire,            \* datagrams the network may still deliver, any number of times
    highest,         \* m_highest
    bits,            \* m_window, as the set of ages whose bit is set
    sealed,          \* history: every frame the sender sealed
    delivered        \* history: how often each frame was passed on to the dispatch

vars == <<epoch, seq, rekey, wire, highest, bits, sealed, delivered>>

TypeOK ==
    /\ epoch \in Epochs
    /\ seq \in SeqNum
    /\ rekey \in BOOLEAN
    /\ wire \in SUBSET ((Epochs \cup {Forged}) \X SeqNum)
    /\ highest \in {None} \cup SeqNum
    /\ bits \in SUBSET (0..(Window - 1))
    /\ sealed \in SUBSET Frame
    /\ delivered \in [Frame -> Nat]

Delivered(f) == delivered[f] > 0
-----------------------------------------------------------------------------
(* The window itself.                                                      *)

\* m_window << shift: the ages grow, those past the top of the word fall out.
ShiftedNoTruncation(s) == {a + (s - highest) : a \in bits}
Shifted(s) == {a \in ShiftedNoTruncation(s) : a < Window}

TooOld(s) ==
    /\ highest # None
    /\ s <= highest
    /\ highest - s >= Window

\* accept(): what it returns ...
AcceptsUnlessOld(s) ==
    \/ highest = None
    \/ s > highest
    \/ highest - s < Window
Accepts(s) ==
    \/ highest = None
    \/ s > highest
    \/ highest - s < Window /\ (highest - s) \notin bits

\* ... and what it leaves behind when it returns true.
CommitForgettingShift(s) ==
    IF highest = None \/ s > highest
    THEN highest' = s /\ bits' = bits \cup {0}
    ELSE bits' = bits \cup {highest - s} /\ UNCHANGED highest
Commit(s) ==
    IF highest = None \/ s > highest
    THEN /\ highest' = s
         /\ bits' = IF highest = None \/ s - highest >= Window
                    THEN {0} ELSE Shifted(s) \cup {0}
    ELSE /\ bits' = bits \cup {highest - s}
         /\ UNCHANGED highest

\* aes256_gcm_open under the session key of this direction.
OpensAny(f) == TRUE
Opens(f) == f[1] = epoch
-----------------------------------------------------------------------------
Init ==
    /\ epoch = 1 /\ seq = 0 /\ rekey = FALSE
    /\ wire = {} /\ sealed = {} /\ delivered = [f \in Frame |-> 0]
    /\ highest = None /\ bits = {}

(* send_packet: the number is taken by fetch_add before the limit is tested, *)
(* so a refused frame consumes a number too.                                *)
SendAtMost(limit) ==
    /\ seq < limit
    /\ seq' = (seq + 1) % SeqMod
    /\ wire' = wire \cup {<<epoch, seq>>}
    /\ sealed' = sealed \cup {<<epoch, seq>>}
    /\ UNCHANGED <<epoch, rekey, highest, bits, delivered>>
SendNoLimit == SendAtMost(SeqMod)
Send == SendAtMost(SeqRekeyLimit)

(* The sender keeps calling send_packet until the session is torn down; it   *)
(* would take another SeqMod - SeqRekeyLimit calls (2^31) to wrap, and the   *)
(* guard is the bound that stands for the tear-down coming first.           *)
SendRefused ==
    /\ seq >= SeqRekeyLimit
    /\ seq + 1 < SeqMod
    /\ seq' = (seq + 1) % SeqMod
    /\ rekey' = TRUE
    /\ UNCHANGED <<epoch, wire, highest, bits, sealed, delivered>>

(* A new session: init() on the client, a new Session on the server.  Old    *)
(* datagrams are still in the network.                                      *)
NewSession ==
    /\ epoch < MaxEpoch
    /\ epoch' = epoch + 1
    /\ seq' = 0 /\ rekey' = FALSE
    /\ highest' = None /\ bits' = {}
    /\ UNCHANGED <<wire, sealed, delivered>>

(* handle_frame on a sealed type: the cheap test, the opening, the commit.   *)
(* Every frame that fails one of them is dropped without a trace, which is   *)
(* the stuttering step.  The datagram may arrive again.                     *)
Receive(f) ==
    /\ f \in wire
    /\ ~TooOld(f[2])
    /\ Opens(f)
    /\ Accepts(f[2])
    /\ Commit(f[2])
    /\ delivered' = [delivered EXCEPT ![f] = @ + 1]
    /\ UNCHANGED <<epoch, seq, rekey, wire, sealed>>

Lose(f) ==
    /\ f \in wire
    /\ wire' = wire \ {f}
    /\ UNCHANGED <<epoch, seq, rekey, highest, bits, sealed, delivered>>

(* A datagram that reaches the port without the peer having sealed it:       *)
(* scanners, garbage, a frame damaged on the way.                           *)
Stray(s) ==
    /\ wire' = wire \cup {<<Forged, s>>}
    /\ UNCHANGED <<epoch, seq, rekey, highest, bits, sealed, delivered>>

Next ==
    \/ Send
    \/ SendRefused
    \/ NewSession
    \/ \E f \in wire : Receive(f) \/ Lose(f)
    \/ \E s \in ForgedSeq : Stray(s)

Spec == Init /\ [][Next]_vars
-----------------------------------------------------------------------------
(* The bitmap is exact: the bit of an age is set iff the frame of that      *)
(* number was delivered in this session, whatever order the frames took.    *)
WindowExact ==
    \A a \in 0..(Window - 1) :
        a \in bits <=> /\ highest # None
                       /\ highest - a >= 0
                       /\ Delivered(<<epoch, highest - a>>)

(* Only frames the sender sealed under the current keys move the window: a   *)
(* stray datagram with a high number never pushes it past the peer's own    *)
(* counter, which would shut the genuine frames out.                        *)
HighestIsGenuine ==
    highest # None => <<epoch, highest>> \in sealed /\ highest < seq

(* No sequence number at or above the re-key limit ever reaches the wire, so *)
(* the window never meets a wrapped counter: the numbers sealed in a session *)
(* are exactly those below the counter.                                     *)
NumbersNeverReused ==
    \A s \in SeqNum :
        <<epoch, s>> \in sealed <=> s < seq /\ s < SeqRekeyLimit

(* No false rejection: a genuine frame of this session that was not          *)
(* delivered yet is let through unless it is Window or more behind.         *)
FreshFramesPass ==
    \A f \in wire :
        (/\ f \in sealed /\ f[1] = epoch /\ ~Delivered(f)
         /\ highest # None => highest - f[2] < Window)
        => ~TooOld(f[2]) /\ Accepts(f[2])

(* Every behaviour of the channel is one of the at-most-once promise: a      *)
(* replayed or duplicated datagram is never handed on a second time.        *)
Promise == INSTANCE AtMostOnce
AtMostOnceDelivery == Promise!ASpec
=============================================================================
