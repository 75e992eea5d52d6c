------------------------------ MODULE TcpTransport ------------------------------
(***************************************************************************)
(* One TCP connection of the tunnel: the client's socket with its backlog    *)
(* and its receive buffer (src/tcp.cpp), the server's event thread with the  *)
(* buffers of the connection (server/TCP/tcpserver.cpp), and the queue the   *)
(* server's other threads put sealed frames in (UDP::send_packet).           *)
(*                                                                         *)
(* A frame is FrameLen units of a stream, a unit its frame's number and its  *)
(* place in it; the first carries the header with the magic.                 *)
(*                                                                         *)
(* epoll_wait returns at the latest after 200 ms and every round pumps all   *)
(* connections, so the eventfd and EPOLLOUT only shorten a wait: Idle stands *)
(* for the three ways a round begins without data to read.                   *)
(***************************************************************************)
EXTENDS Integers, Sequences

CONSTANTS
    FrameLen,       \* units of a frame
    Kernel,         \* units the socket buffers of one direction hold
    RecvMax,        \* what one recv of the server takes
    ClientRecvMax,  \* what one recv of the client takes
    Budget,         \* kReadFramesBudget
    MaxRx,          \* kMaxRxBufBytes
    MaxPending,     \* kMaxTxPending
    MaxTx,          \* kMaxTcpTxBufBytes
    MaxFrames       \* bound: frames accepted in each direction

ASSUME TransportAssumption ==
    /\ {FrameLen, Kernel, RecvMax, ClientRecvMax, Budget} \subseteq Nat \ {0}
    /\ {MaxRx, MaxPending, MaxTx, MaxFrames} \subseteq Nat
    /\ RecvMax <= Budget * FrameLen
    /\ FrameLen <= MaxPending
    /\ FrameLen + RecvMax <= MaxRx + 1 /\ RecvMax + RecvMax <= MaxRx + 1

VARIABLES
    sock,           \* the client's socket is open
    sentUp,         \* number of the last frame the client accepted
    mode, rest,     \* raw_send: what it is doing, what is left of its frame
    pend, off,      \* m_txPending, m_txPendingOff
    crx,            \* m_rxBuf of the client, from its read offset
    gotDown,        \* number of the last frame the client handled
    up, down,       \* the kernel's buffers of each direction
    conn,           \* the server has the connection
    ev,             \* where the event thread is
    budget,         \* frames it may still handle in this round
    rxBuf,
    gotUp,          \* number of the last frame the server handled
    sentDown,       \* number of the last frame the server accepted
    tx,             \* tcp_tx; tcp_tx_bytes is its size
    txBuf,          \* txBuf from txOff
    drop            \* tcp_drop

client == <<sock, sentUp, mode, rest, pend, off, crx, gotDown>>
server == <<conn, ev, budget, rxBuf, gotUp, sentDown, tx, txBuf, drop>>
tcpVars == <<client, server, up, down>>

FrameUnits(n) == [i \in 1..FrameLen |-> <<n, i>>]

(* send and recv: as many units of s as there is room for, and what is left. *)
Least(m, n) == IF m < n THEN m ELSE n
First(s, n) == SubSeq(s, 1, Least(n, Len(s)))
Rest(s, n) == SubSeq(s, n + 1, Len(s))
Room(wire) == Kernel - Len(wire)

Complete(buf) == Len(buf) >= FrameLen
BadHeader(buf) == buf # <<>> /\ buf[1][2] # 1
FrameOpens(buf) == First(buf, FrameLen) = FrameUnits(buf[1][1])

TcpInit ==
    /\ sock = TRUE /\ conn = TRUE /\ drop = FALSE
    /\ sentUp = 0 /\ gotUp = 0 /\ sentDown = 0 /\ gotDown = 0
    /\ mode = "idle" /\ rest = <<>> /\ pend = <<>> /\ off = 0
    /\ crx = <<>> /\ rxBuf = <<>>
    /\ up = <<>> /\ down = <<>>
    /\ ev = "wait" /\ budget = 0
    /\ tx = <<>> /\ txBuf = <<>>
-----------------------------------------------------------------------------
(* The client's raw_send, under m_send_mutex: one frame at a time.  With a   *)
(* backlog the frame queues up behind it and the backlog is flushed; with a  *)
(* backlog that grows too large the connection is given up.                  *)
Backlog == Rest(pend, off)

Accept ==
    /\ sentUp' = sentUp + 1
    /\ UNCHANGED <<sock, crx, gotDown, server, up, down>>

SendFlushOnly ==
    /\ mode = "idle" /\ sock /\ sentUp < MaxFrames
    /\ IF Backlog = <<>>
       THEN mode' = "write" /\ rest' = FrameUnits(sentUp + 1)
       ELSE mode' = "flush" /\ UNCHANGED rest
    /\ UNCHANGED <<pend, off>>
    /\ Accept
SendDirect ==
    /\ mode = "idle" /\ sock /\ sentUp < MaxFrames
    /\ mode' = "write" /\ rest' = FrameUnits(sentUp + 1)
    /\ UNCHANGED <<pend, off>>
    /\ Accept
SendRaw ==
    /\ mode = "idle" /\ sock /\ sentUp < MaxFrames
    /\ IF Backlog = <<>>
       THEN /\ mode' = "write" /\ rest' = FrameUnits(sentUp + 1)
            /\ UNCHANGED <<pend, off>>
       ELSE /\ Len(pend) + FrameLen <= MaxPending
            /\ mode' = "flush" /\ UNCHANGED rest
            /\ pend' = Backlog \o FrameUnits(sentUp + 1) /\ off' = 0
    /\ Accept

SendRawRefused ==
    /\ mode = "idle" /\ sock /\ sentUp < MaxFrames
    /\ Backlog # <<>> /\ Len(pend) + FrameLen > MaxPending
    /\ sock' = FALSE
    /\ UNCHANGED <<sentUp, mode, rest, pend, off, crx, gotDown, server, up, down>>

Write ==
    /\ mode = "write" /\ sock /\ Room(up) > 0
    /\ up' = up \o First(rest, Room(up))
    /\ rest' = Rest(rest, Room(up))
    /\ mode' = IF rest' = <<>> THEN "idle" ELSE "write"
    /\ UNCHANGED <<sock, sentUp, pend, off, crx, gotDown, server, down>>

(* 200 ms without room: the rest of the frame becomes the backlog.           *)
WriteTimesOut ==
    /\ mode = "write" /\ sock /\ Room(up) <= 0
    /\ pend' = rest /\ off' = 0
    /\ rest' = <<>> /\ mode' = "idle"
    /\ UNCHANGED <<sock, sentUp, crx, gotDown, server, up, down>>

Flush ==
    /\ mode = "flush" /\ sock /\ Room(up) > 0
    /\ up' = up \o First(Backlog, Room(up))
    /\ IF Len(Backlog) <= Room(up)
       THEN pend' = <<>> /\ off' = 0 /\ mode' = "idle"
       ELSE UNCHANGED <<pend, mode>> /\ off' = off + Room(up)
    /\ UNCHANGED <<sock, sentUp, rest, crx, gotDown, server, down>>

FlushTimesOut ==
    /\ mode = "flush" /\ sock /\ Room(up) <= 0
    /\ mode' = "idle"
    /\ UNCHANGED <<sock, sentUp, rest, pend, off, crx, gotDown, server, up, down>>

(* recv_frame: a frame the buffer holds, else what a recv brings; a header   *)
(* without the magic or the server's close ends the connection.              *)
Take ==
    /\ sock /\ Complete(crx) /\ ~BadHeader(crx)
    /\ gotDown' = IF FrameOpens(crx) THEN crx[1][1] ELSE gotDown
    /\ crx' = Rest(crx, FrameLen)
    /\ UNCHANGED <<sock, sentUp, mode, rest, pend, off, server, up, down>>

Fill ==
    /\ sock /\ ~Complete(crx) /\ ~BadHeader(crx) /\ down # <<>>
    /\ crx' = crx \o First(down, ClientRecvMax)
    /\ down' = Rest(down, ClientRecvMax)
    /\ UNCHANGED <<sock, sentUp, mode, rest, pend, off, gotDown, server, up>>

(* The reconnect manager tears the connection down: a broken stream, the     *)
(* server's close, a heartbeat that timed out, a user who stops.             *)
ClientCloses ==
    /\ sock
    /\ sock' = FALSE
    /\ UNCHANGED <<sentUp, mode, rest, pend, off, crx, gotDown, server, up, down>>
-----------------------------------------------------------------------------
(* UDP::send_packet of a TCP session, on any thread: the sealed frame joins  *)
(* tcp_tx, or the connection is to be dropped.                               *)
Submit ==
    /\ sentDown < MaxFrames /\ conn
    /\ Len(tx) + FrameLen <= MaxTx
    /\ tx' = tx \o FrameUnits(sentDown + 1)
    /\ sentDown' = sentDown + 1
    /\ UNCHANGED <<client, conn, ev, budget, rxBuf, gotUp, txBuf, drop, up, down>>

Overflow ==
    /\ sentDown < MaxFrames /\ conn
    /\ Len(tx) + FrameLen > MaxTx
    /\ drop' = TRUE
    /\ UNCHANGED <<client, conn, ev, budget, rxBuf, gotUp, sentDown, tx, txBuf, up, down>>

(* Another thread asks for the drop: time-out, age, disconnect, a newer      *)
(* session of the same identity.                                            *)
RequestDrop ==
    /\ conn /\ ~drop
    /\ drop' = TRUE
    /\ UNCHANGED <<client, conn, ev, budget, rxBuf, gotUp, sentDown, tx, txBuf, up, down>>
-----------------------------------------------------------------------------
(* The event thread.                                                       *)

DropConn ==
    /\ conn' = FALSE /\ ev' = "wait"
    /\ tx' = <<>> /\ txBuf' = <<>> /\ rxBuf' = <<>>
    /\ UNCHANGED <<client, budget, sentDown, drop, up, down>>

HangUp ==
    /\ conn /\ ev = "wait" /\ ~sock
    /\ UNCHANGED gotUp
    /\ DropConn

Readable ==
    /\ conn /\ ev = "wait" /\ sock /\ up # <<>>
    /\ ev' = "recv" /\ budget' = Budget
    /\ UNCHANGED <<client, conn, rxBuf, gotUp, sentDown, tx, txBuf, drop, up, down>>

Idle ==
    /\ conn /\ ev = "wait"
    /\ ev' = "pump"
    /\ UNCHANGED <<client, conn, budget, rxBuf, gotUp, sentDown, tx, txBuf, drop, up, down>>

(* read_conn: recv until the kernel has no more, and handle what is complete *)
(* after each, up to the budget.                                            *)
Recv ==
    /\ conn /\ ev = "recv" /\ up # <<>>
    /\ Len(rxBuf) + Least(RecvMax, Len(up)) <= MaxRx
    /\ rxBuf' = rxBuf \o First(up, RecvMax)
    /\ up' = Rest(up, RecvMax)
    /\ ev' = "parse"
    /\ UNCHANGED <<client, conn, budget, gotUp, sentDown, tx, txBuf, drop, down>>

RecvNothing ==
    /\ conn /\ ev = "recv" /\ up = <<>> /\ sock
    /\ ev' = "flush"
    /\ UNCHANGED <<client, conn, budget, rxBuf, gotUp, sentDown, tx, txBuf, drop, up, down>>

Handled == gotUp' = IF FrameOpens(rxBuf) THEN rxBuf[1][1] ELSE gotUp

HandleFrame ==
    /\ conn /\ ev = "parse" /\ Complete(rxBuf) /\ ~BadHeader(rxBuf) /\ ~drop
    /\ Handled
    /\ rxBuf' = Rest(rxBuf, FrameLen)
    /\ budget' = budget - 1
    /\ ev' = IF budget = 1 THEN "flush" ELSE "parse"
    /\ UNCHANGED <<client, conn, sentDown, tx, txBuf, drop, up, down>>

HalfFrame ==
    /\ conn /\ ev = "parse" /\ ~Complete(rxBuf) /\ ~BadHeader(rxBuf)
    /\ ev' = "recv"
    /\ UNCHANGED <<client, conn, budget, rxBuf, gotUp, sentDown, tx, txBuf, drop, up, down>>

(* A frame is handled and the drop has been asked for meanwhile.             *)
HandleLast ==
    /\ conn /\ ev = "parse" /\ Complete(rxBuf) /\ ~BadHeader(rxBuf) /\ drop
    /\ Handled
    /\ DropConn

(* read_conn gives up: too much unread, no magic, the end of the stream.     *)
Unreadable ==
    \/ ev = "recv" /\ up # <<>> /\ Len(rxBuf) + Least(RecvMax, Len(up)) > MaxRx
    \/ ev = "recv" /\ up = <<>> /\ ~sock
    \/ ev = "parse" /\ BadHeader(rxBuf)

ReadFails ==
    /\ conn /\ Unreadable
    /\ UNCHANGED gotUp
    /\ DropConn

(* flush_conn_tx: the queue joins the buffer, of which the socket takes what *)
(* it can.                                                                  *)
FlushConnTxOldOnly ==
    /\ tx' = <<>>
    /\ LET b == IF txBuf = <<>> THEN tx ELSE txBuf IN
          txBuf' = Rest(b, Room(down)) /\ down' = down \o First(b, Room(down))
    /\ UNCHANGED <<client, conn, budget, rxBuf, gotUp, sentDown, drop, up>>
FlushConnTx ==
    /\ tx' = <<>>
    /\ txBuf' = Rest(txBuf \o tx, Room(down))
    /\ down' = down \o First(txBuf \o tx, Room(down))
    /\ UNCHANGED <<client, conn, budget, rxBuf, gotUp, sentDown, drop, up>>

FlushAfterRead ==
    /\ conn /\ ev = "flush" /\ ~drop
    /\ FlushConnTx
    /\ ev' = "pump"

(* The end of every round: what waits to be sent is sent, what is to be      *)
(* dropped is dropped.                                                      *)
ToPumpOnlyQueued == tx # <<>>
ToPump == tx # <<>> \/ txBuf # <<>>

Pump ==
    /\ conn /\ ev = "pump" /\ ToPump
    /\ FlushConnTx
    /\ ev' = "scan"

NothingToPump ==
    /\ conn /\ ev = "pump" /\ ~ToPump
    /\ ev' = "scan"
    /\ UNCHANGED <<client, conn, budget, rxBuf, gotUp, sentDown, tx, txBuf, drop, up, down>>

Scan ==
    /\ conn /\ ev = "scan" /\ ~drop
    /\ ev' = "wait"
    /\ UNCHANGED <<client, conn, budget, rxBuf, gotUp, sentDown, tx, txBuf, drop, up, down>>

DropRequested ==
    /\ conn /\ ev \in {"flush", "scan"} /\ drop
    /\ UNCHANGED gotUp
    /\ DropConn

EventLoop ==
    \/ HangUp \/ Readable \/ Idle
    \/ Recv \/ RecvNothing \/ HandleFrame \/ HalfFrame \/ HandleLast \/ ReadFails
    \/ FlushAfterRead \/ Pump \/ NothingToPump \/ Scan \/ DropRequested

RawSend == Write \/ WriteTimesOut \/ Flush \/ FlushTimesOut
RecvFrame == Take \/ Fill

TcpNext ==
    \/ SendRaw \/ SendRawRefused \/ RawSend \/ RecvFrame \/ ClientCloses
    \/ Submit \/ Overflow \/ RequestDrop
    \/ EventLoop

TcpSpec == TcpInit /\ [][TcpNext]_tcpVars

(* The event thread goes round, its wait ends by itself, and the client's    *)
(* receiving thread takes what arrives.                                     *)
TcpFairSpec == TcpSpec /\ WF_tcpVars(EventLoop) /\ WF_tcpVars(RecvFrame)
-----------------------------------------------------------------------------
Unit == (1..MaxFrames) \X (1..FrameLen)

TcpTypeOK ==
    /\ {sock, conn, drop} \subseteq BOOLEAN
    /\ {sentUp, gotUp, sentDown, gotDown} \subseteq 0..MaxFrames
    /\ mode \in {"idle", "write", "flush"}
    /\ {rest, pend, up, down, crx, rxBuf, tx, txBuf} \subseteq Seq(Unit)
    /\ mode = "write" <=> rest # <<>>
    /\ mode = "write" => pend = <<>>
    /\ mode = "flush" => Backlog # <<>>
    /\ off \in 0..Len(pend) /\ Len(pend) <= MaxPending
    /\ Len(up) <= Kernel /\ Len(down) <= Kernel
    /\ ev \in {"wait", "recv", "parse", "flush", "pump", "scan"}
    /\ budget \in 0..Budget
    /\ ev \in {"recv", "parse"} => budget > 0
    /\ Len(tx) <= MaxTx

(* Both directions keep the promise of FrameStream, however the writes are   *)
(* split, backlogged, flushed and read: what was accepted is handled in its  *)
(* order with nothing left out, until the connection ends.                   *)
Uplink == INSTANCE FrameStream WITH sent <- sentUp, got <- gotUp, open <- sock
Downlink == INSTANCE FrameStream WITH sent <- sentDown, got <- gotDown, open <- conn
UplinkInOrder == Uplink!Spec
DownlinkInOrder == Downlink!Spec

(* The server gives a connection up only when it was asked to drop it or the *)
(* client is gone: neither the budget nor a split frame makes a well-formed  *)
(* stream look broken or its buffer overflow.                               *)
NeverGivenUp == [][conn' = conn \/ drop \/ ~sock]_tcpVars

(* What the server accepted reaches the client, unless the connection ends:  *)
(* no frame is left in a queue whose wake-up was missed.                     *)
DownlinkFlows ==
    \A n \in 1..MaxFrames : sentDown = n ~> (gotDown >= n \/ ~conn \/ ~sock)

(* "When the budget is used up or the kernel's buffer is empty it returns:   *)
(* level-triggered epoll continues in the next round" (read_conn): while the *)
(* event thread waits, a frame that is complete does not wait for more data. *)
(* It does not hold (README, section 8).                                    *)
LeftoverIsReadable == conn /\ ev = "wait" /\ Complete(rxBuf) => up # <<>>
=============================================================================
