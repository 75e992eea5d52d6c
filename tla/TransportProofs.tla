---------------------------- MODULE TransportProofs ----------------------------
(***************************************************************************)
(* Proofs about the two ways frames travel: the TCP connection, for every    *)
(* size of a frame, of the sockets and of the buffers, and the anti-replay   *)
(* channel of the datagrams, for every window size, re-key limit and number  *)
(* of key epochs.                                                           *)
(***************************************************************************)
EXTENDS ReplayChannel, TcpTransport, SequenceTheorems, TLAPS

(* The place of a unit in its stream, counted from the first unit of frame   *)
(* 1: the units of n frames come before frame n + 1, and a buffer holds a    *)
(* run after a when its i-th unit is the one at a + i.                       *)
Before(n) == n * FrameLen
Place(u) == Before(u[1] - 1) + u[2]
Contig(s, a) == \A i \in 1..Len(s) : Place(s[i]) = a + i

(* Frames do not overlap: the place where one ends and the next begins grows *)
(* with its number.                                                          *)
LEMMA BeforeFacts ==
    ASSUME NEW m \in Nat, NEW n \in Nat
    PROVE  /\ Before(n) \in Nat
           /\ Before(n + 1) = Before(n) + FrameLen
           /\ Before(0) = 0
           /\ Before(m) + FrameLen <= Before(n) => m < n
           /\ m < n => Before(m) + FrameLen <= Before(n)
<1> DEFINE L == FrameLen
<1>0. L \in Nat \ {0}
    BY TransportAssumption DEF TransportAssumption
<1>1. Before(n) \in Nat /\ Before(n + 1) = Before(n) + FrameLen /\ Before(0) = 0
    BY <1>0 DEF Before
<1>2. \A j, k \in Nat : j <= k => j * L <= k * L
    <2> SUFFICES ASSUME NEW j \in Nat, NEW k \in Nat, j <= k PROVE j * L <= k * L
        OBVIOUS
    <2>1. PICK d \in Nat : k = j + d
        <3>1. k - j \in Nat /\ k = j + (k - j)
            OBVIOUS
        <3> QED
            BY <3>1
    <2>2. k * L = j * L + d * L /\ d * L \in Nat /\ j * L \in Nat
        BY <1>0, <2>1
    <2> QED
        BY <2>2
<1>3. ASSUME m < n PROVE Before(m) + FrameLen <= Before(n)
    <2>1. (m + 1) * L <= n * L
        BY <1>2, <1>3
    <2> QED
        BY <1>0, <2>1 DEF Before
<1>4. ASSUME Before(m) + FrameLen <= Before(n), ~(m < n) PROVE FALSE
    <2>1. n * L <= m * L
        BY <1>2, <1>4
    <2> QED
        BY <1>0, <1>4, <2>1 DEF Before
<1> QED
    BY <1>1, <1>3, <1>4

(* A place belongs to one unit of one frame.                                 *)
LEMMA PlaceInjective ==
    ASSUME NEW m \in Nat, NEW n \in Nat, NEW i \in 1..FrameLen, NEW j \in 1..FrameLen,
           Before(m) + i = Before(n) + j
    PROVE  m = n /\ i = j
<1>0. FrameLen \in Nat \ {0}
    BY TransportAssumption DEF TransportAssumption
<1>1. Before(m) \in Nat /\ Before(n) \in Nat
    BY BeforeFacts
<1>2. /\ m < n => Before(m) + FrameLen <= Before(n)
      /\ n < m => Before(n) + FrameLen <= Before(m)
    BY BeforeFacts
<1>3. m = n
    BY <1>0, <1>1, <1>2
<1> QED
    BY <1>0, <1>1, <1>3

(* What First and Rest of a sequence are: its first n elements, and the      *)
(* others from n + 1 on.                                                     *)
LEMMA Cut ==
    ASSUME NEW S, NEW s \in Seq(S), NEW n \in Nat
    PROVE  /\ First(s, n) \in Seq(S) /\ Len(First(s, n)) = Least(n, Len(s))
           /\ \A i \in 1..Least(n, Len(s)) : First(s, n)[i] = s[i]
           /\ Rest(s, n) \in Seq(S) /\ Len(Rest(s, n)) = Len(s) - Least(n, Len(s))
           /\ \A i \in 1..(Len(s) - Least(n, Len(s))) : Rest(s, n)[i] = s[n + i]
           /\ Least(n, Len(s)) \in 0..Len(s)
           /\ Rest(s, n) = <<>> <=> Len(s) <= n
<1> DEFINE k == Least(n, Len(s))
<1>1. Len(s) \in Nat /\ k \in 0..Len(s) /\ (\A i \in 1..Len(s) : s[i] \in S)
    BY DEF Least
<1>2. /\ First(s, n) \in Seq(S) /\ Len(First(s, n)) = k
      /\ \A i \in 1..k : First(s, n)[i] = s[i]
    <2> HIDE DEF k
    <2>1. /\ SubSeq(s, 1, k) \in Seq(S)
          /\ Len(SubSeq(s, 1, k)) = IF 1 <= k THEN k - 1 + 1 ELSE 0
          /\ \A i \in 1..(k - 1 + 1) : SubSeq(s, 1, k)[i] = s[1 + i - 1]
        BY <1>1, SubSeqProperties
    <2>2. First(s, n) = SubSeq(s, 1, k)
        BY DEF First, k
    <2> QED
        BY <1>1, <2>1, <2>2
<1>3. /\ Rest(s, n) \in Seq(S)
      /\ Len(Rest(s, n)) = IF n + 1 <= Len(s) THEN Len(s) - (n + 1) + 1 ELSE 0
      /\ \A i \in 1..(Len(s) - (n + 1) + 1) : Rest(s, n)[i] = s[n + 1 + i - 1]
    <2>1. \A i \in (n + 1)..Len(s) : s[i] \in S
        BY <1>1
    <2> QED
        BY <1>1, <2>1, SubSeqProperties DEF Rest
<1>4. (n < Len(s) /\ k = n) \/ (Len(s) <= n /\ k = Len(s))
    BY <1>1 DEF Least
<1> HIDE DEF k
<1>5. /\ Len(Rest(s, n)) = Len(s) - k
      /\ \A i \in 1..(Len(s) - k) : Rest(s, n)[i] = s[n + i]
    <2>1. CASE n < Len(s) /\ k = n
        <3>1. Len(Rest(s, n)) = Len(s) - n
            BY <1>1, <1>3, <2>1
        <3>2. ASSUME NEW i \in 1..(Len(s) - n) PROVE Rest(s, n)[i] = s[n + i]
            <4>1. i \in 1..(Len(s) - (n + 1) + 1) /\ n + 1 + i - 1 = n + i
                BY <1>1
            <4>2. Rest(s, n)[i] = s[n + 1 + i - 1]
                BY <1>3, <4>1
            <4> QED
                BY <4>1, <4>2
        <3> QED
            BY <2>1, <3>1, <3>2
    <2>2. CASE Len(s) <= n /\ k = Len(s)
        BY <1>1, <1>3, <2>2
    <2> QED
        BY <1>4, <2>1, <2>2
<1>6. Rest(s, n) = <<>> <=> Len(s) <= n
    BY <1>1, <1>3
<1> QED
    BY <1>1, <1>2, <1>3, <1>4, <1>5, <1>6 DEF k

(* A run and the run that follows it are one run.                            *)
LEMMA JoinRuns ==
    ASSUME NEW s \in Seq(Unit), NEW t \in Seq(Unit), NEW a \in Nat,
           Contig(s, a), Contig(t, a + Len(s))
    PROVE  /\ s \o t \in Seq(Unit) /\ Len(s \o t) = Len(s) + Len(t)
           /\ Contig(s \o t, a)
    BY DEF Contig

(* A run that is cut is two runs, one after the other.                       *)
LEMMA CutRun ==
    ASSUME NEW s \in Seq(Unit), NEW n \in Nat, NEW a \in Nat, Contig(s, a)
    PROVE  /\ First(s, n) \in Seq(Unit) /\ Rest(s, n) \in Seq(Unit)
           /\ Len(First(s, n)) \in Nat /\ Len(Rest(s, n)) \in Nat
           /\ Len(First(s, n)) + Len(Rest(s, n)) = Len(s)
           /\ Len(First(s, n)) <= n /\ Len(First(s, n)) <= Len(s)
           /\ Rest(s, n) = <<>> <=> Len(s) <= n
           /\ Contig(First(s, n), a)
           /\ Contig(Rest(s, n), a + Len(First(s, n)))
<1> DEFINE k == Least(n, Len(s))
<1>1. Len(s) \in Nat /\ k \in 0..Len(s) /\ k <= n /\ (k = n \/ k = Len(s))
    BY DEF Least
<1>2. /\ First(s, n) \in Seq(Unit) /\ Len(First(s, n)) = k
      /\ \A i \in 1..k : First(s, n)[i] = s[i]
      /\ Rest(s, n) \in Seq(Unit) /\ Len(Rest(s, n)) = Len(s) - k
      /\ \A i \in 1..(Len(s) - k) : Rest(s, n)[i] = s[n + i]
      /\ Rest(s, n) = <<>> <=> Len(s) <= n
    BY Cut
<1> HIDE DEF k
<1>3. Contig(First(s, n), a)
    BY <1>1, <1>2 DEF Contig
<1>4. \A i \in 1..(Len(s) - k) : k + i \in 1..Len(s) /\ Rest(s, n)[i] = s[k + i]
    <2> SUFFICES ASSUME NEW i \in 1..(Len(s) - k)
                 PROVE  k + i \in 1..Len(s) /\ Rest(s, n)[i] = s[k + i]
        OBVIOUS
    <2>1. k = n
        BY <1>1
    <2> QED
        BY <1>1, <1>2, <2>1
<1>5. Contig(Rest(s, n), a + k)
    <2> SUFFICES ASSUME NEW i \in 1..(Len(s) - k) PROVE Place(Rest(s, n)[i]) = (a + k) + i
        BY <1>2 DEF Contig
    <2>1. Place(s[k + i]) = a + (k + i)
        BY <1>4 DEF Contig
    <2> QED
        BY <1>1, <1>4, <2>1
<1> QED
    BY <1>1, <1>2, <1>3, <1>5

(* A frame is the run of its units.                                          *)
LEMMA FrameRun ==
    ASSUME NEW n \in Nat, n < MaxFrames
    PROVE  /\ FrameUnits(n + 1) \in Seq(Unit) /\ Len(FrameUnits(n + 1)) = FrameLen
           /\ Contig(FrameUnits(n + 1), Before(n))
<1>0. FrameLen \in Nat \ {0} /\ MaxFrames \in Nat
    BY TransportAssumption DEF TransportAssumption
<1> DEFINE f == FrameUnits(n + 1)
<1>1. f = [i \in 1..FrameLen |-> <<n + 1, i>>]
    BY DEF FrameUnits
<1> HIDE DEF f
<1>2. f \in Seq(Unit) /\ Len(f) = FrameLen
    BY <1>0, <1>1 DEF Unit
<1>3. ASSUME NEW i \in 1..FrameLen PROVE Place(f[i]) = Before(n) + i
    <2>1. f[i][1] = n + 1 /\ f[i][2] = i
        BY <1>1
    <2>2. (n + 1) - 1 = n
        OBVIOUS
    <2> QED
        BY <2>1, <2>2 DEF Place
<1> QED
    BY <1>2, <1>3 DEF Contig, f

(* A run that begins with a frame begins with the header of that frame, and  *)
(* when a whole frame is there it opens.                                     *)
LEMMA HeadOfRun ==
    ASSUME NEW s \in Seq(Unit), NEW n \in Nat, Contig(s, Before(n)), s # <<>>
    PROVE  /\ s[1] = <<n + 1, 1>> /\ ~BadHeader(s)
           /\ Complete(s) => FrameOpens(s)
<1>0. FrameLen \in Nat \ {0} /\ MaxFrames \in Nat
    BY TransportAssumption DEF TransportAssumption
<1>1. ASSUME NEW i \in 1..FrameLen, i <= Len(s) PROVE s[i] = <<n + 1, i>>
    <2>1. s[i] \in Unit /\ Place(s[i]) = Before(n) + i
        BY <1>1 DEF Contig
    <2>2. PICK m \in 1..MaxFrames, j \in 1..FrameLen : s[i] = <<m, j>>
        BY <2>1 DEF Unit
    <2>3. m - 1 \in Nat /\ Before(m - 1) + j = Before(n) + i
        BY <2>1, <2>2, <1>0 DEF Place
    <2>4. m - 1 = n /\ j = i
        BY <2>3, PlaceInjective
    <2> QED
        BY <2>2, <2>4, <1>0
<1>2. s[1] = <<n + 1, 1>>
    BY <1>0, <1>1
<1>3. ASSUME Complete(s) PROVE FrameOpens(s)
    <2>1. First(s, FrameLen) \in Seq(Unit) /\ Len(First(s, FrameLen)) = FrameLen
        BY <1>0, <1>3, Cut DEF Complete, Least
    <2>2. \A i \in 1..FrameLen : First(s, FrameLen)[i] = <<n + 1, i>>
        BY <1>0, <1>1, <1>3, Cut DEF Complete, Least
    <2>3. FrameUnits(n + 1) \in Seq(Unit) /\ Len(FrameUnits(n + 1)) = FrameLen
        BY <1>0, <1>2 DEF FrameUnits, Unit
    <2>4. First(s, FrameLen) = FrameUnits(n + 1)
        BY <2>1, <2>2, <2>3, SeqEqual DEF FrameUnits
    <2> QED
        BY <1>2, <2>4 DEF FrameOpens
<1> QED
    BY <1>2, <1>3 DEF BadHeader

(* Dropping m and then n elements is dropping m + n: the offset of a backlog *)
(* that is flushed in parts.                                                 *)
LEMMA RestOfRest ==
    ASSUME NEW S, NEW s \in Seq(S), NEW m \in 0..Len(s), NEW n \in Nat
    PROVE  Rest(s, m + n) = Rest(Rest(s, m), n)
<1>0. Len(s) \in Nat /\ m \in Nat /\ m + n \in Nat
    OBVIOUS
<1>1. /\ Rest(s, m + n) \in Seq(S) /\ Rest(s, m) \in Seq(S) /\ Rest(Rest(s, m), n) \in Seq(S)
      /\ Len(Rest(s, m)) = Len(s) - m
    BY <1>0, Cut DEF Least
<1>2. CASE m + n < Len(s)
    <2>0. /\ Least(m + n, Len(s)) = m + n /\ Least(m, Len(s)) = m
          /\ Least(n, Len(Rest(s, m))) = n
        BY <1>0, <1>1, <1>2 DEF Least
    <2>1. /\ Len(Rest(s, m + n)) = Len(s) - (m + n)
          /\ Len(Rest(Rest(s, m), n)) = (Len(s) - m) - n
        BY <1>0, <1>1, <2>0, Cut
    <2>2. ASSUME NEW i \in 1..(Len(s) - (m + n))
          PROVE  Rest(s, m + n)[i] = Rest(Rest(s, m), n)[i]
        <3> DEFINE t == Rest(s, m)
        <3>1. Rest(s, m + n)[i] = s[(m + n) + i]
            BY <1>0, <2>0, Cut
        <3>2. \A j \in 1..(Len(t) - Least(n, Len(t))) : Rest(t, n)[j] = t[n + j]
            BY <1>1, Cut
        <3>3. /\ i \in 1..(Len(t) - Least(n, Len(t)))
              /\ n + i \in 1..(Len(s) - m)
            BY <1>0, <1>1, <2>0
        <3>4. \A j \in 1..(Len(s) - m) : t[j] = s[m + j]
            BY <1>0, <2>0, Cut
        <3>5. (m + n) + i = m + (n + i)
            BY <1>0
        <3> QED
            BY <3>1, <3>2, <3>3, <3>4, <3>5
    <2> QED
        BY <1>0, <1>1, <2>1, <2>2, SeqEqual
<1>3. CASE ~(m + n < Len(s))
    <2>1. Rest(s, m + n) = <<>>
        BY <1>0, <1>3, Cut
    <2>2. Rest(Rest(s, m), n) = <<>>
        BY <1>0, <1>1, <1>3, Cut
    <2> QED
        BY <2>1, <2>2
<1> QED
    BY <1>2, <1>3

(* The empty buffer is a run wherever it stands.                             *)
LEMMA EmptyRun == ASSUME NEW a PROVE Contig(<<>>, a)
    BY DEF Contig

(* Dropping nothing.                                                         *)
LEMMA RestOfNone ==
    ASSUME NEW S, NEW s \in Seq(S)
    PROVE  Rest(s, 0) = s
    BY SubSeqFull DEF Rest

(* A send or a recv: the first units of a run move to the end of the run     *)
(* before it, and the two are still one run, cut elsewhere.                  *)
LEMMA MoveRun ==
    ASSUME NEW t \in Seq(Unit), NEW s \in Seq(Unit), NEW n \in Nat, NEW a \in Nat,
           Contig(t, a), Contig(s, a + Len(t))
    PROVE  /\ t \o First(s, n) \in Seq(Unit) /\ Rest(s, n) \in Seq(Unit)
           /\ Contig(t \o First(s, n), a) /\ Contig(Rest(s, n), a + Len(t \o First(s, n)))
           /\ Len(t \o First(s, n)) \in Nat /\ Len(Rest(s, n)) \in Nat
           /\ Len(t \o First(s, n)) + Len(Rest(s, n)) = Len(t) + Len(s)
           /\ Len(t \o First(s, n)) = Len(t) + Least(n, Len(s))
           /\ Len(t \o First(s, n)) <= Len(t) + n /\ Len(Rest(s, n)) <= Len(s)
           /\ Rest(s, n) = <<>> <=> Len(s) <= n
<1> DEFINE f == First(s, n)
           r == Rest(s, n)
<1>1. /\ f \in Seq(Unit) /\ r \in Seq(Unit) /\ Len(f) \in Nat /\ Len(r) \in Nat
      /\ Len(f) + Len(r) = Len(s) /\ (r = <<>> <=> Len(s) <= n)
      /\ Contig(f, a + Len(t)) /\ Contig(r, (a + Len(t)) + Len(f))
    BY CutRun
<1>2. Len(f) = Least(n, Len(s))
    BY Cut
<1> HIDE DEF f, r
<1>3. t \o f \in Seq(Unit) /\ Len(t \o f) = Len(t) + Len(f) /\ Contig(t \o f, a)
    BY <1>1, JoinRuns
<1>5. Len(t \o f) <= Len(t) + n /\ Len(r) <= Len(s)
    <2>1. Least(n, Len(s)) <= n
        BY DEF Least
    <2> QED
        BY <1>1, <1>2, <1>3, <2>1
<1>4. /\ Contig(r, a + Len(t \o f)) /\ Len(t \o f) \in Nat
      /\ Len(t \o f) + Len(r) = Len(t) + Len(s)
    <2>1. Len(t) \in Nat /\ (a + Len(t)) + Len(f) = a + Len(t \o f)
        BY <1>1, <1>3
    <2>2. Contig(r, a + Len(t \o f))
        BY <1>1, <2>1, Zenon
    <2>3. \A x, y, z, w, v \in Nat : x = y + z /\ z + w = v => x + w = y + v
        OBVIOUS
    <2>4. Len(t \o f) \in Nat /\ Len(s) \in Nat
        BY <1>3
    <2>5. Len(t \o f) + Len(r) = Len(t) + Len(s)
        <3>1. Len(f) + Len(r) = Len(s)
            BY <1>1
        <3>2. Len(t \o f) = Len(t) + Len(f)
            BY <1>3
        <3>3. Len(f) \in Nat /\ Len(r) \in Nat /\ Len(t) \in Nat
            BY <1>1, <2>1
        <3> QED
            BY <3>1, <3>2, <3>3, <2>4
    <2> QED
        BY <2>2, <2>4, <2>5
<1> QED
    BY <1>1, <1>2, <1>3, <1>4, <1>5, Zenon DEF f, r

(* The invariant. The buffers hold units of frames, the kernel's no more     *)
(* than it has room for.                                                     *)
TypedStreams ==
    /\ sentUp \in 0..MaxFrames /\ gotUp \in 0..MaxFrames
    /\ sentDown \in 0..MaxFrames /\ gotDown \in 0..MaxFrames
    /\ rest \in Seq(Unit) /\ pend \in Seq(Unit) /\ up \in Seq(Unit) /\ rxBuf \in Seq(Unit)
    /\ crx \in Seq(Unit) /\ down \in Seq(Unit) /\ txBuf \in Seq(Unit) /\ tx \in Seq(Unit)
    /\ off \in 0..Len(pend)
    /\ Len(up) <= Kernel /\ Len(down) <= Kernel

(* raw_send writes a frame only while there is no backlog, and flushes only  *)
(* while there is one.                                                       *)
RawSendState ==
    /\ mode \in {"idle", "write", "flush"}
    /\ mode = "write" <=> rest # <<>>
    /\ rest # <<>> => Backlog = <<>>
    /\ mode = "flush" => Backlog # <<>>
    /\ pend # <<>> => off < Len(pend)

(* The four buffers between the client's sender and the server's dispatch    *)
(* hold, one after the other, exactly the units of the frames that were      *)
(* accepted and are not handled yet.                                         *)
InRxBuf == Before(gotUp) + Len(rxBuf)
InUp == InRxBuf + Len(up)
InRest == InUp + Len(rest)
UpStream ==
    conn =>
      /\ Contig(rxBuf, Before(gotUp)) /\ Contig(up, InRxBuf)
      /\ Contig(rest, InUp) /\ Contig(Backlog, InRest)
      /\ InRest + Len(Backlog) = Before(sentUp)

(* The same towards the client, where what the server's own buffers hold is  *)
(* lost with the connection and what the kernel holds is still a run.        *)
InCrx == Before(gotDown) + Len(crx)
InDown == InCrx + Len(down)
InTxBuf == InDown + Len(txBuf)
DownStream ==
    /\ Contig(crx, Before(gotDown)) /\ Contig(down, InCrx)
    /\ InDown <= Before(sentDown)
    /\ conn =>
         /\ Contig(txBuf, InDown) /\ Contig(tx, InTxBuf)
         /\ InTxBuf + Len(tx) = Before(sentDown)

(* What a round of the event thread leaves in rxBuf: less than a frame or    *)
(* less than one recv, and while it parses no more than that above the       *)
(* frames its budget still allows.                                           *)
Leftover == Len(rxBuf) < FrameLen \/ Len(rxBuf) < RecvMax
ReadRound ==
    /\ ev \in {"wait", "recv", "parse", "flush", "pump", "scan"}
    /\ budget \in 0..Budget
    /\ ev \in {"recv", "parse"} => budget > 0
    /\ ev # "parse" => Leftover
    /\ ev = "recv" /\ budget # Budget => Len(rxBuf) < FrameLen
    /\ ev = "parse" =>
         Len(rxBuf) < Before(budget) + FrameLen \/ Len(rxBuf) < Before(budget) + RecvMax

(* The inductive invariant of the connection.                                *)
StreamIInv == TypedStreams /\ RawSendState /\ UpStream /\ DownStream /\ (conn => ReadRound)

(* It holds at the start.                                                    *)
LEMMA StreamInit == TcpInit => StreamIInv
<1> SUFFICES ASSUME TcpInit PROVE StreamIInv
    OBVIOUS
<1>0. FrameLen \in Nat \ {0} /\ Kernel \in Nat /\ RecvMax \in Nat \ {0} /\ Budget \in Nat /\ MaxFrames \in Nat
    BY TransportAssumption DEF TransportAssumption
<1>1. Backlog = <<>>
    <2>1. <<>> \in Seq(Unit)
        OBVIOUS
    <2>2. Rest(<<>>, 0) = <<>>
        BY <2>1, RestOfNone
    <2> QED
        BY <2>2 DEF TcpInit, Backlog
<1>2. TypedStreams
    BY <1>0 DEF TcpInit, TypedStreams
<1>3. RawSendState
    BY <1>1 DEF TcpInit, RawSendState
<1>4. Before(0) = 0
    BY BeforeFacts
<1>5. UpStream
    BY <1>1, <1>4, EmptyRun DEF TcpInit, UpStream, InRest, InUp, InRxBuf
<1>6. DownStream
    BY <1>4, EmptyRun DEF TcpInit, DownStream, InTxBuf, InDown, InCrx
<1>7. ReadRound
    BY <1>0 DEF TcpInit, ReadRound, Leftover
<1> QED
    BY <1>2, <1>3, <1>5, <1>6, <1>7 DEF StreamIInv

(* The numbers of the invariant are natural numbers.                         *)
LEMMA Sizes ==
    ASSUME TypedStreams
    PROVE  /\ Backlog \in Seq(Unit) /\ Len(Backlog) \in Nat
           /\ Len(Backlog) = Len(pend) - off
           /\ Len(rest) \in Nat /\ Len(up) \in Nat /\ Len(rxBuf) \in Nat
           /\ Len(crx) \in Nat /\ Len(down) \in Nat /\ Len(txBuf) \in Nat /\ Len(tx) \in Nat
           /\ Before(sentUp) \in Nat /\ Before(gotUp) \in Nat
           /\ Before(sentDown) \in Nat /\ Before(gotDown) \in Nat
           /\ InRxBuf \in Nat /\ InUp \in Nat /\ InRest \in Nat
           /\ InCrx \in Nat /\ InDown \in Nat /\ InTxBuf \in Nat
<1>0. MaxFrames \in Nat
    BY TransportAssumption DEF TransportAssumption
<1>1. off \in Nat /\ off <= Len(pend) /\ pend \in Seq(Unit) /\ Len(pend) \in Nat
    BY DEF TypedStreams
<1>2. Backlog \in Seq(Unit) /\ Len(Backlog) = Len(pend) - off
    BY <1>1, Cut DEF Backlog, Least
<1>3. /\ Len(rest) \in Nat /\ Len(up) \in Nat /\ Len(rxBuf) \in Nat
      /\ Len(crx) \in Nat /\ Len(down) \in Nat /\ Len(txBuf) \in Nat /\ Len(tx) \in Nat
    BY DEF TypedStreams
<1>4. /\ sentUp \in Nat /\ gotUp \in Nat /\ sentDown \in Nat /\ gotDown \in Nat
    BY <1>0 DEF TypedStreams
<1>5. /\ Before(sentUp) \in Nat /\ Before(gotUp) \in Nat
      /\ Before(sentDown) \in Nat /\ Before(gotDown) \in Nat
    BY <1>4, BeforeFacts
<1>6. InRxBuf \in Nat /\ InUp \in Nat /\ InRest \in Nat
    BY <1>3, <1>5 DEF InRxBuf, InUp, InRest
<1>7. InCrx \in Nat /\ InDown \in Nat /\ InTxBuf \in Nat
    BY <1>3, <1>5 DEF InCrx, InDown, InTxBuf
<1>8. Len(Backlog) \in Nat
    BY <1>2
<1> QED
    BY <1>2, <1>3, <1>5, <1>6, <1>7, <1>8

(* The sockets' room is what they do not hold.                               *)
LEMMA SocketRoom ==
    ASSUME TypedStreams
    PROVE  /\ Room(up) \in Nat /\ Len(up) + Room(up) = Kernel
           /\ Room(down) \in Nat /\ Len(down) + Room(down) = Kernel
<1>1. Len(up) \in Nat /\ Len(down) \in Nat
    BY Sizes
<1>2. Kernel \in Nat /\ Len(up) <= Kernel /\ Len(down) <= Kernel
    BY TransportAssumption DEF TransportAssumption, TypedStreams
<1> QED
    BY <1>1, <1>2 DEF Room

(* The parts of the invariant whose variables a step leaves alone.           *)
LEMMA UpSame ==
    ASSUME UpStream, UNCHANGED <<conn, gotUp, rxBuf, up, rest, pend, off, sentUp>>
    PROVE  UpStream'
    BY DEF UpStream, InRest, InUp, InRxBuf, Backlog

LEMMA DownSame ==
    ASSUME DownStream, UNCHANGED <<conn, gotDown, crx, down, txBuf, tx, sentDown>>
    PROVE  DownStream'
    BY DEF DownStream, InTxBuf, InDown, InCrx

LEMMA ReadSame ==
    ASSUME conn => ReadRound, UNCHANGED <<conn, ev, budget, rxBuf>>
    PROVE  conn' => ReadRound'
    BY DEF ReadRound, Leftover

(* A frame that raw_send accepts goes to the end of the stream: directly     *)
(* when there is no backlog, behind it otherwise.                            *)
LEMMA SendRawStep ==
    ASSUME StreamIInv, SendRaw
    PROVE  StreamIInv'
<1> DEFINE f == FrameUnits(sentUp + 1)
<1>0. FrameLen \in Nat \ {0} /\ MaxFrames \in Nat
    BY TransportAssumption DEF TransportAssumption
<1>1. /\ TypedStreams /\ RawSendState /\ rest = <<>> /\ sentUp \in Nat /\ sentUp < MaxFrames
      /\ sentUp' = sentUp + 1
      /\ UNCHANGED <<up, rxBuf, conn, gotUp, gotDown, crx, down, txBuf, tx, sentDown, ev, budget>>
    BY DEF StreamIInv, RawSendState, TypedStreams, SendRaw, Accept, server
<1>2. /\ f \in Seq(Unit) /\ Len(f) = FrameLen /\ f # <<>>
      /\ Contig(f, Before(sentUp))
    BY <1>0, <1>1, FrameRun
<1>3. Before(sentUp') = Before(sentUp) + FrameLen /\ Before(sentUp) \in Nat
    BY <1>1, BeforeFacts
<1> HIDE DEF f
<1>4. DownStream' /\ (conn' => ReadRound')
    BY <1>1, DownSame, ReadSame DEF StreamIInv
<1>5. InRxBuf' = InRxBuf /\ InUp' = InUp
    BY <1>1 DEF InRxBuf, InUp
<1>6. CASE Backlog = <<>>
    <2>1. rest' = f /\ mode' = "write" /\ pend' = pend /\ off' = off
        BY <1>6 DEF f, SendRaw
    <2>2. Backlog' = <<>>
        BY <1>6, <2>1 DEF Backlog
    <2>3. TypedStreams' /\ RawSendState'
        BY <1>0, <1>1, <1>2, <1>6, <2>1, <2>2 DEF TypedStreams, RawSendState
    <2>4. ASSUME conn PROVE UpStream'
        <3>1. InUp = Before(sentUp)
            BY <1>1, <1>6, <2>4, Sizes DEF StreamIInv, UpStream, InRest
        <3>2. InRest' = Before(sentUp')
            BY <1>0, <1>2, <1>3, <1>5, <2>1, <3>1 DEF InRest
        <3>3. Contig(rest', InUp') /\ Contig(Backlog', InRest')
            BY <1>2, <1>5, <2>1, <2>2, <3>1, EmptyRun
        <3>4. Contig(rxBuf', Before(gotUp')) /\ Contig(up', InRxBuf')
            BY <1>1, <1>5, <2>4 DEF StreamIInv, UpStream
        <3>5. InRest' + Len(Backlog') = Before(sentUp')
            BY <1>0, <1>3, <2>2, <3>2
        <3> QED
            BY <3>3, <3>4, <3>5 DEF UpStream
    <2>5. ~conn => UpStream'
        BY <1>1 DEF UpStream
    <2> QED
        BY <1>4, <2>3, <2>4, <2>5 DEF StreamIInv
<1>7. CASE Backlog # <<>>
    <2>1. mode' = "flush" /\ pend' = Backlog \o f /\ off' = 0 /\ rest' = rest
        BY <1>7 DEF f, SendRaw
    <2>2. Backlog \in Seq(Unit) /\ Len(Backlog) \in Nat
        BY <1>1, Sizes
    <2>3. /\ pend' \in Seq(Unit) /\ Len(pend') = Len(Backlog) + FrameLen /\ pend' # <<>>
        <3>1. /\ Backlog \o f \in Seq(Unit)
              /\ Len(Backlog \o f) = Len(Backlog) + Len(f)
            BY <1>2, <2>2
        <3> QED
            BY <1>0, <1>2, <2>1, <2>2, <3>1
    <2>4. Backlog' = pend'
        BY <2>1, <2>3, RestOfNone DEF Backlog
    <2>5. TypedStreams' /\ RawSendState'
        <3>1. Len(up') <= Kernel /\ Len(down') <= Kernel
            BY <1>1 DEF TypedStreams
        <3>2. off' \in 0..Len(pend') /\ off' < Len(pend')
            BY <1>0, <2>1, <2>2, <2>3
        <3>3. TypedStreams'
            BY <1>0, <1>1, <2>1, <2>3, <3>1, <3>2 DEF TypedStreams
        <3>4. RawSendState'
            BY <1>1, <2>1, <2>3, <2>4, <3>2 DEF RawSendState
        <3> QED
            BY <3>3, <3>4
    <2>6. ASSUME conn PROVE UpStream'
        <3>1. InRest' = InRest /\ InRest \in Nat
            BY <1>1, <1>5, <2>1, Sizes DEF InRest
        <3>2. InRest + Len(Backlog) = Before(sentUp) /\ Contig(Backlog, InRest)
            BY <2>6 DEF StreamIInv, UpStream
        <3>3. Contig(pend', InRest)
            BY <1>2, <2>1, <2>2, <3>1, <3>2, JoinRuns
        <3>4. /\ Contig(rxBuf', Before(gotUp')) /\ Contig(up', InRxBuf') /\ Contig(rest', InUp')
            BY <1>1, <1>5, <2>1, <2>6 DEF StreamIInv, UpStream
        <3>5. InRest' + Len(Backlog') = Before(sentUp')
            BY <1>0, <1>3, <2>2, <2>3, <2>4, <3>1, <3>2
        <3> QED
            BY <2>4, <3>1, <3>3, <3>4, <3>5 DEF UpStream
    <2>7. ~conn => UpStream'
        BY <1>1 DEF UpStream
    <2> QED
        BY <1>4, <2>5, <2>6, <2>7 DEF StreamIInv
<1> QED
    BY <1>6, <1>7

(* Writing, timing out and flushing move units along, in their order.        *)
LEMMA RawSendStep ==
    ASSUME StreamIInv, SendRawRefused \/ RawSend
    PROVE  StreamIInv'
<1>0. TypedStreams /\ RawSendState /\ Room(up) \in Int
    <2>1. TypedStreams /\ RawSendState
        BY DEF StreamIInv
    <2>2. Len(up) \in Nat /\ Kernel \in Nat
        BY <2>1, TransportAssumption DEF TransportAssumption, TypedStreams
    <2> QED
        BY <2>1, <2>2 DEF Room
<1>1. CASE SendRawRefused
    <2>1. UNCHANGED <<sentUp, mode, rest, pend, off, crx, gotDown, server, up, down>>
        BY <1>1 DEF SendRawRefused
    <2>2. UpStream' /\ DownStream' /\ (conn' => ReadRound')
        BY <2>1, UpSame, DownSame, ReadSame DEF StreamIInv, server
    <2>3. TypedStreams' /\ RawSendState'
        BY <1>0, <2>1 DEF TypedStreams, RawSendState, Backlog, server
    <2> QED
        BY <2>2, <2>3 DEF StreamIInv
<1>2. CASE Write
    <2> DEFINE n == Room(up)
    <2>1. /\ mode = "write" /\ n \in Nat /\ n > 0
          /\ up' = up \o First(rest, n) /\ rest' = Rest(rest, n)
          /\ mode' = IF rest' = <<>> THEN "idle" ELSE "write"
          /\ UNCHANGED <<sock, sentUp, pend, off, crx, gotDown, server, down>>
        BY <1>0, <1>2 DEF Write
    <2> HIDE DEF n
    <2>2. DownStream' /\ (conn' => ReadRound')
        BY <2>1, DownSame, ReadSame DEF StreamIInv, server
    <2>3. rest \in Seq(Unit) /\ up \in Seq(Unit) /\ Backlog = <<>> /\ Backlog' = Backlog
        BY <1>0, <2>1 DEF TypedStreams, RawSendState, Backlog
    <2>4. up' \in Seq(Unit) /\ rest' \in Seq(Unit) /\ Len(up') <= Kernel
        <3>1. Len(up) + n = Kernel /\ Len(up) \in Nat
            BY <1>0, SocketRoom, Sizes DEF n
        <3>2. Len(up \o First(rest, n)) <= Len(up) + n
            <4>1. Len(First(rest, n)) = Least(n, Len(rest)) /\ First(rest, n) \in Seq(Unit)
                BY <2>1, <2>3, Cut
            <4>2. Least(n, Len(rest)) <= n
                BY <2>1, <2>3 DEF Least
            <4>3. Len(up \o First(rest, n)) = Len(up) + Len(First(rest, n))
                BY <2>3, <4>1
            <4> QED
                BY <2>1, <2>3, <3>1, <4>1, <4>2, <4>3
        <3> QED
            BY <2>1, <2>3, <3>1, <3>2, Cut
    <2>5. TypedStreams' /\ RawSendState'
        BY <1>0, <2>1, <2>3, <2>4 DEF TypedStreams, RawSendState, server
    <2>6. ASSUME conn PROVE UpStream'
        <3>1. /\ Contig(rxBuf, Before(gotUp)) /\ Contig(up, InRxBuf) /\ Contig(rest, InUp)
              /\ InRest + Len(Backlog) = Before(sentUp)
            BY <2>6 DEF StreamIInv, UpStream
        <3>2. InRxBuf \in Nat /\ InRxBuf' = InRxBuf /\ InUp = InRxBuf + Len(up)
            BY <1>0, <2>1, Sizes DEF server, InRxBuf, InUp
        <3>3. /\ Contig(up', InRxBuf) /\ Contig(rest', InRxBuf + Len(up'))
              /\ Len(up') \in Nat /\ Len(rest') \in Nat
              /\ Len(up') + Len(rest') = Len(up) + Len(rest)
            BY <2>1, <2>3, <3>1, <3>2, MoveRun
        <3>4. InUp' = InRxBuf + Len(up') /\ InRest' = InRest
            <4>1. InUp' = InRxBuf + Len(up')
                BY <3>2 DEF InUp
            <4>2. InRest = (InRxBuf + Len(up)) + Len(rest) /\ InRest' = (InRxBuf + Len(up')) + Len(rest')
                BY <3>2, <4>1 DEF InRest
            <4>3. Len(up) \in Nat /\ Len(rest) \in Nat
                BY <1>0, Sizes
            <4> QED
                BY <3>2, <3>3, <4>1, <4>2, <4>3
        <3> QED
            BY <2>1, <2>3, <3>1, <3>2, <3>3, <3>4, EmptyRun DEF UpStream, server
    <2>7. ~conn => UpStream'
        BY <2>1 DEF UpStream, server
    <2> QED
        BY <2>2, <2>5, <2>6, <2>7 DEF StreamIInv
<1>3. CASE WriteTimesOut
    <2>1. /\ mode = "write" /\ pend' = rest /\ off' = 0 /\ rest' = <<>> /\ mode' = "idle"
          /\ UNCHANGED <<sock, sentUp, crx, gotDown, server, up, down>>
        BY <1>3 DEF WriteTimesOut
    <2>2. DownStream' /\ (conn' => ReadRound')
        BY <2>1, DownSame, ReadSame DEF StreamIInv, server
    <2>3. rest \in Seq(Unit) /\ rest # <<>> /\ Backlog = <<>>
        BY <1>0, <2>1 DEF TypedStreams, RawSendState
    <2>4. Backlog' = rest
        BY <2>1, <2>3, RestOfNone DEF Backlog
    <2>5. TypedStreams' /\ RawSendState'
        BY <1>0, <2>1, <2>3, <2>4 DEF TypedStreams, RawSendState, server
    <2>6. ASSUME conn PROVE UpStream'
        <3>1. InRxBuf' = InRxBuf /\ InUp' = InUp /\ InRest' = InUp
            BY <1>0, <2>1, Sizes DEF server, InRxBuf, InUp, InRest
        <3>2. InRest + Len(Backlog) = Before(sentUp) /\ InRest = InUp + Len(rest)
            BY <2>6 DEF StreamIInv, UpStream, InRest
        <3>3. InRest' + Len(Backlog') = Before(sentUp')
            BY <1>0, <2>1, <2>3, <2>4, <3>1, <3>2, Sizes
        <3> QED
            BY <2>1, <2>4, <2>6, <3>1, <3>3, EmptyRun DEF StreamIInv, UpStream, server
    <2>7. ~conn => UpStream'
        BY <2>1 DEF UpStream, server
    <2> QED
        BY <2>2, <2>5, <2>6, <2>7 DEF StreamIInv
<1>4. CASE Flush
    <2> DEFINE n == Room(up)
    <2>1. /\ mode = "flush" /\ n \in Nat /\ n > 0
          /\ up' = up \o First(Backlog, n)
          /\ IF Len(Backlog) <= n
             THEN pend' = <<>> /\ off' = 0 /\ mode' = "idle"
             ELSE UNCHANGED <<pend, mode>> /\ off' = off + n
          /\ UNCHANGED <<sock, sentUp, rest, crx, gotDown, server, down>>
        BY <1>0, <1>4 DEF Flush
    <2> HIDE DEF n
    <2>2. DownStream' /\ (conn' => ReadRound')
        BY <2>1, DownSame, ReadSame DEF StreamIInv, server
    <2>3. /\ up \in Seq(Unit) /\ pend \in Seq(Unit) /\ Backlog \in Seq(Unit) /\ Len(Backlog) \in Nat
          /\ off \in 0..Len(pend) /\ Len(Backlog) = Len(pend) - off /\ rest = <<>>
        BY <1>0, <2>1, Sizes DEF TypedStreams, RawSendState
    <2>4. Backlog' = Rest(Backlog, n)
        <3>1. CASE Len(Backlog) <= n
            <4>1. Rest(Backlog, n) = <<>>
                BY <2>1, <2>3, <3>1, Cut
            <4>2. <<>> \in Seq(Unit) /\ Rest(<<>>, 0) = <<>>
                <5>1. <<>> \in Seq(Unit)
                    OBVIOUS
                <5> QED
                    BY <5>1, RestOfNone
            <4> QED
                BY <2>1, <3>1, <4>1, <4>2 DEF Backlog
        <3>2. CASE ~(Len(Backlog) <= n)
            <4>1. Backlog' = Rest(pend, off + n)
                BY <2>1, <3>2 DEF Backlog
            <4>2. Rest(pend, off + n) = Rest(Rest(pend, off), n)
                BY <2>1, <2>3, RestOfRest
            <4> QED
                BY <4>1, <4>2 DEF Backlog
        <3> QED
            BY <3>1, <3>2
    <2>5. up' \in Seq(Unit) /\ (Backlog' = <<>> <=> Len(Backlog) <= n)
        <3>1. First(Backlog, n) \in Seq(Unit) /\ (Rest(Backlog, n) = <<>> <=> Len(Backlog) <= n)
            BY <2>1, <2>3, Cut
        <3>2. up \o First(Backlog, n) \in Seq(Unit)
            BY <2>3, <3>1, ConcatProperties
        <3> QED
            BY <2>1, <2>4, <3>1, <3>2
    <2>8. Len(up') <= Kernel
        <3>1. Len(up) + n = Kernel /\ Len(up) \in Nat
            BY <1>0, SocketRoom, Sizes DEF n
        <3>2. Len(First(Backlog, n)) = Least(n, Len(Backlog)) /\ First(Backlog, n) \in Seq(Unit)
            BY <2>1, <2>3, Cut
        <3>3. Least(n, Len(Backlog)) <= n
            BY <2>1, <2>3 DEF Least
        <3>4. Len(up \o First(Backlog, n)) = Len(up) + Len(First(Backlog, n))
            BY <2>3, <3>2
        <3> QED
            BY <2>1, <2>3, <3>1, <3>2, <3>3, <3>4
    <2>6. TypedStreams' /\ RawSendState'
        <3>1. CASE Len(Backlog) <= n
            BY <1>0, <2>1, <2>3, <2>5, <2>8, <3>1 DEF TypedStreams, RawSendState, server
        <3>2. CASE ~(Len(Backlog) <= n)
            <4>1. /\ pend' = pend /\ mode' = "flush" /\ off' = off + n /\ pend # <<>>
                  /\ off' \in 0..Len(pend) /\ off' < Len(pend) /\ Backlog' # <<>>
                BY <2>1, <2>3, <2>5, <3>2
            <4> QED
                BY <1>0, <2>1, <2>3, <2>5, <2>8, <4>1 DEF TypedStreams, RawSendState, server
        <3> QED
            BY <3>1, <3>2
    <2>7. ASSUME conn PROVE UpStream'
        <3>1. /\ Contig(rxBuf, Before(gotUp)) /\ Contig(up, InRxBuf) /\ Contig(Backlog, InRest)
              /\ InRest + Len(Backlog) = Before(sentUp)
            BY <2>7 DEF StreamIInv, UpStream
        <3>2. /\ InRxBuf \in Nat /\ InRxBuf' = InRxBuf /\ InUp = InRxBuf + Len(up)
              /\ InRest = InUp /\ Len(up) \in Nat
            BY <1>0, <2>1, <2>3, Sizes DEF server, InRxBuf, InUp, InRest
        <3>3. /\ Contig(up', InRxBuf) /\ Contig(Backlog', InRxBuf + Len(up'))
              /\ Len(up') \in Nat /\ Len(Backlog') \in Nat
              /\ Len(up') + Len(Backlog') = Len(up) + Len(Backlog)
            BY <2>1, <2>3, <2>4, <3>1, <3>2, MoveRun
        <3>4. InUp' = InRxBuf + Len(up') /\ InRest' = InRxBuf + Len(up')
            BY <2>1, <2>3, <3>2, <3>3 DEF InUp, InRest
        <3>5. InRest' + Len(Backlog') = Before(sentUp')
            <4>1. Len(rest) = 0
                BY <2>3
            <4>2. InRest = InRxBuf + Len(up) /\ InRest + Len(Backlog) = Before(sentUp) /\ sentUp' = sentUp
                BY <2>1, <3>1, <3>2
            <4>3. /\ Len(up') + Len(Backlog') = Len(up) + Len(Backlog)
                  /\ InRest' = InRxBuf + Len(up')
                BY <3>3, <3>4
            <4>4. Len(up) \in Nat /\ Len(Backlog) \in Nat /\ Len(up') \in Nat /\ Len(Backlog') \in Nat
                BY <2>3, <3>2, <3>3
            <4> QED
                BY <3>2, <4>2, <4>3, <4>4
        <3> QED
            BY <2>1, <2>3, <3>1, <3>2, <3>3, <3>4, <3>5, EmptyRun DEF UpStream, server
    <2>9. ~conn => UpStream'
        BY <2>1 DEF UpStream, server
    <2> QED
        BY <2>2, <2>6, <2>7, <2>9 DEF StreamIInv
<1>5. CASE FlushTimesOut
    <2>1. mode' = "idle" /\ UNCHANGED <<sock, sentUp, rest, pend, off, crx, gotDown, server, up, down>>
        BY <1>5 DEF FlushTimesOut
    <2>2. UpStream' /\ DownStream' /\ (conn' => ReadRound')
        BY <2>1, UpSame, DownSame, ReadSame DEF StreamIInv, server
    <2>3. TypedStreams' /\ RawSendState'
        BY <1>0, <1>5, <2>1 DEF TypedStreams, RawSendState, Backlog, server, FlushTimesOut
    <2> QED
        BY <2>2, <2>3 DEF StreamIInv
<1> QED
    BY <1>1, <1>2, <1>3, <1>4, <1>5 DEF RawSend

(* The frame at the head of a run is the next one of its direction, and what *)
(* is left is the run of those after it.                                     *)
LEMMA TakeFrame ==
    ASSUME NEW s \in Seq(Unit), NEW n \in Nat, Contig(s, Before(n)), Complete(s)
    PROVE  /\ FrameOpens(s) /\ s[1][1] = n + 1 /\ ~BadHeader(s)
           /\ Rest(s, FrameLen) \in Seq(Unit) /\ Contig(Rest(s, FrameLen), Before(n + 1))
           /\ Len(Rest(s, FrameLen)) = Len(s) - FrameLen
           /\ Before(n + 1) + Len(Rest(s, FrameLen)) = Before(n) + Len(s)
           /\ \A m \in Nat : Before(n) + Len(s) <= Before(m) => n < m
<1>0. FrameLen \in Nat \ {0}
    BY TransportAssumption DEF TransportAssumption
<1>1. Len(s) \in Nat /\ FrameLen <= Len(s) /\ s # <<>>
    BY <1>0 DEF Complete
<1>2. FrameOpens(s) /\ s[1] = <<n + 1, 1>> /\ ~BadHeader(s)
    BY <1>1, HeadOfRun
<1>3. /\ Rest(s, FrameLen) \in Seq(Unit) /\ Contig(Rest(s, FrameLen), Before(n) + FrameLen)
      /\ Len(Rest(s, FrameLen)) = Len(s) - FrameLen
    <2>1. Least(FrameLen, Len(s)) = FrameLen
        BY <1>0, <1>1 DEF Least
    <2>2. Len(First(s, FrameLen)) = FrameLen /\ Len(Rest(s, FrameLen)) = Len(s) - FrameLen
        BY <1>0, <2>1, Cut
    <2>3. Before(n) \in Nat
        BY BeforeFacts
    <2> QED
        BY <1>0, <2>2, <2>3, CutRun
<1>4. Before(n + 1) = Before(n) + FrameLen /\ Before(n) \in Nat
    BY BeforeFacts
<1>5. ASSUME NEW m \in Nat, Before(n) + Len(s) <= Before(m) PROVE n < m
    <2>1. Before(m) \in Nat /\ (Before(n) + FrameLen <= Before(m) => n < m)
        BY BeforeFacts
    <2> QED
        BY <1>0, <1>1, <1>4, <1>5, <2>1
<1>6. Before(n + 1) + Len(Rest(s, FrameLen)) = Before(n) + Len(s)
    BY <1>0, <1>1, <1>3, <1>4
<1> QED
    BY <1>2, <1>3, <1>4, <1>5, <1>6

(* The client handles the frame after the last one, and it was sent.         *)
LEMMA TakeStep ==
    ASSUME StreamIInv, Take
    PROVE  /\ StreamIInv'
           /\ gotDown' = gotDown + 1 /\ gotDown < sentDown
<1>0. TypedStreams /\ RawSendState /\ FrameLen \in Nat /\ ClientRecvMax \in Nat /\ MaxFrames \in Nat
    BY TransportAssumption DEF TransportAssumption, StreamIInv
<1>1. /\ Complete(crx)
      /\ gotDown' = IF FrameOpens(crx) THEN crx[1][1] ELSE gotDown
      /\ crx' = Rest(crx, FrameLen)
      /\ UNCHANGED <<sock, sentUp, mode, rest, pend, off, server, up, down>>
    BY DEF Take
<1>2. UpStream' /\ (conn' => ReadRound') /\ RawSendState'
    BY <1>0, <1>1, UpSame, ReadSame DEF StreamIInv, server, RawSendState, Backlog
<1>3. /\ crx \in Seq(Unit) /\ gotDown \in Nat /\ Contig(crx, Before(gotDown))
      /\ sentDown \in Nat /\ InDown <= Before(sentDown)
    BY <1>0 DEF TypedStreams, StreamIInv, DownStream
<1>4. /\ gotDown' = gotDown + 1 /\ crx' \in Seq(Unit) /\ Contig(crx', Before(gotDown'))
      /\ Before(gotDown') + Len(crx') = Before(gotDown) + Len(crx)
    BY <1>1, <1>3, TakeFrame
<1>5. gotDown < sentDown
    <2>1. /\ InCrx = Before(gotDown) + Len(crx) /\ InDown = InCrx + Len(down)
          /\ InCrx \in Nat /\ Len(down) \in Nat /\ Before(sentDown) \in Nat
        BY <1>0, Sizes DEF InCrx, InDown
    <2>2. Before(gotDown) + Len(crx) <= Before(sentDown)
        BY <1>3, <2>1
    <2> QED
        BY <1>1, <1>3, <2>2, TakeFrame
<1>6. TypedStreams'
    BY <1>0, <1>1, <1>3, <1>4, <1>5 DEF TypedStreams, server
<1>7. DownStream'
    <2>1. InCrx' = InCrx /\ InDown' = InDown /\ InTxBuf' = InTxBuf
        BY <1>1, <1>4 DEF InCrx, InDown, InTxBuf, server
    <2> QED
        BY <1>1, <1>4, <2>1 DEF StreamIInv, DownStream, server
<1> QED
    BY <1>2, <1>4, <1>5, <1>6, <1>7 DEF StreamIInv

(* The client's receiving thread and the end of its connection.              *)
LEMMA RecvFrameStep ==
    ASSUME StreamIInv, RecvFrame \/ ClientCloses
    PROVE  StreamIInv'
<1>0. TypedStreams /\ RawSendState /\ FrameLen \in Nat /\ ClientRecvMax \in Nat /\ MaxFrames \in Nat
    BY TransportAssumption DEF TransportAssumption, StreamIInv
<1>1. CASE Take
    BY <1>1, TakeStep
<1>2. CASE Fill
    <2>1. /\ crx' = crx \o First(down, ClientRecvMax) /\ down' = Rest(down, ClientRecvMax)
          /\ UNCHANGED <<sock, sentUp, mode, rest, pend, off, gotDown, server, up>>
        BY <1>2 DEF Fill
    <2>2. UpStream' /\ (conn' => ReadRound') /\ RawSendState'
        BY <1>0, <2>1, UpSame, ReadSame DEF StreamIInv, server, RawSendState, Backlog
    <2>3. /\ crx \in Seq(Unit) /\ down \in Seq(Unit)
          /\ Contig(crx, Before(gotDown)) /\ Contig(down, InCrx)
        BY <1>0 DEF TypedStreams, StreamIInv, DownStream
    <2>4. Before(gotDown) \in Nat /\ InCrx = Before(gotDown) + Len(crx)
        BY <1>0, Sizes DEF InCrx
    <2>5. /\ crx' \in Seq(Unit) /\ down' \in Seq(Unit)
          /\ Contig(crx', Before(gotDown)) /\ Contig(down', Before(gotDown) + Len(crx'))
          /\ Len(crx') \in Nat /\ Len(down') \in Nat
          /\ Len(crx') + Len(down') = Len(crx) + Len(down) /\ Len(down') <= Len(down)
        BY <1>0, <2>1, <2>3, <2>4, MoveRun
    <2>8. Len(down') <= Kernel
        <3>1. Len(down) <= Kernel /\ Len(down) \in Nat /\ Kernel \in Nat
            BY <1>0, Sizes, TransportAssumption DEF TypedStreams, TransportAssumption
        <3> QED
            BY <2>5, <3>1
    <2>6. TypedStreams'
        BY <1>0, <2>1, <2>5, <2>8 DEF TypedStreams, server
    <2>7. DownStream'
        <3>1. InCrx' = Before(gotDown) + Len(crx')
            BY <2>1 DEF InCrx
        <3>2. InDown' = (Before(gotDown) + Len(crx')) + Len(down')
            BY <2>1, <3>1 DEF InDown
        <3>3. InDown = (Before(gotDown) + Len(crx)) + Len(down)
            BY <2>4 DEF InDown
        <3>4. Len(crx) \in Nat /\ Len(down) \in Nat
            BY <1>0, Sizes
        <3>5. InDown' = InDown
            BY <2>4, <2>5, <3>2, <3>3, <3>4
        <3>6. InTxBuf' = InTxBuf
            BY <2>1, <3>5 DEF InTxBuf, server
        <3> QED
            BY <2>1, <2>5, <3>1, <3>5, <3>6 DEF StreamIInv, DownStream, server
    <2> QED
        BY <2>2, <2>6, <2>7 DEF StreamIInv
<1>3. CASE ClientCloses
    <2>1. UNCHANGED <<sentUp, mode, rest, pend, off, crx, gotDown, server, up, down>>
        BY <1>3 DEF ClientCloses
    <2>2. UpStream' /\ DownStream' /\ (conn' => ReadRound')
        BY <2>1, UpSame, DownSame, ReadSame DEF StreamIInv, server
    <2>3. TypedStreams' /\ RawSendState'
        BY <1>0, <2>1 DEF TypedStreams, RawSendState, Backlog, server
    <2> QED
        BY <2>2, <2>3 DEF StreamIInv
<1> QED
    BY <1>1, <1>2, <1>3 DEF RecvFrame

(* The server's other threads: a frame joins the queue behind the others.    *)
LEMMA SubmitStep ==
    ASSUME StreamIInv, Submit \/ Overflow \/ RequestDrop
    PROVE  StreamIInv'
<1>0. TypedStreams /\ RawSendState /\ FrameLen \in Nat \ {0} /\ MaxFrames \in Nat
    BY TransportAssumption DEF TransportAssumption, StreamIInv
<1>1. CASE Submit
    <2> DEFINE f == FrameUnits(sentDown + 1)
    <2>1. /\ conn /\ sentDown < MaxFrames /\ tx' = tx \o f /\ sentDown' = sentDown + 1
          /\ UNCHANGED <<client, conn, ev, budget, rxBuf, gotUp, txBuf, drop, up, down>>
        BY <1>1 DEF Submit
    <2>2. UpStream' /\ (conn' => ReadRound') /\ RawSendState'
        BY <1>0, <2>1, UpSame, ReadSame DEF StreamIInv, client, RawSendState, Backlog
    <2>3. sentDown \in Nat /\ tx \in Seq(Unit) /\ Len(tx) \in Nat
        BY <1>0 DEF TypedStreams
    <2>4. f \in Seq(Unit) /\ Len(f) = FrameLen /\ Contig(f, Before(sentDown))
        BY <2>1, <2>3, FrameRun
    <2> HIDE DEF f
    <2>5. /\ Contig(tx, InTxBuf) /\ InTxBuf + Len(tx) = Before(sentDown)
          /\ InTxBuf \in Nat
        BY <1>0, <2>1, Sizes DEF StreamIInv, DownStream
    <2>6. /\ tx' \in Seq(Unit) /\ Len(tx') = Len(tx) + FrameLen /\ Contig(tx', InTxBuf)
        BY <2>1, <2>3, <2>4, <2>5, JoinRuns
    <2>7. Before(sentDown') = Before(sentDown) + FrameLen /\ Before(sentDown) \in Nat
        BY <2>1, <2>3, BeforeFacts
    <2>8. TypedStreams'
        BY <1>0, <2>1, <2>3, <2>6 DEF TypedStreams, client
    <2>9. DownStream'
        <3>1. InCrx' = InCrx /\ InDown' = InDown /\ InTxBuf' = InTxBuf
            BY <2>1 DEF InCrx, InDown, InTxBuf, client
        <3>2. InTxBuf' + Len(tx') = Before(sentDown')
            BY <1>0, <2>3, <2>5, <2>6, <2>7, <3>1
        <3>3. InDown' <= Before(sentDown')
            <4>1. InDown \in Nat /\ InDown <= Before(sentDown)
                BY <1>0, Sizes DEF StreamIInv, DownStream
            <4> QED
                BY <1>0, <2>7, <3>1, <4>1
        <3> QED
            BY <2>1, <2>6, <3>1, <3>2, <3>3 DEF StreamIInv, DownStream, client
    <2> QED
        BY <2>2, <2>8, <2>9 DEF StreamIInv
<1>2. CASE Overflow \/ RequestDrop
    <2>1. UNCHANGED <<client, conn, ev, budget, rxBuf, gotUp, sentDown, tx, txBuf, up, down>>
        BY <1>2 DEF Overflow, RequestDrop
    <2>2. UpStream' /\ DownStream' /\ (conn' => ReadRound')
        BY <2>1, UpSame, DownSame, ReadSame DEF StreamIInv, client
    <2>3. TypedStreams' /\ RawSendState'
        BY <1>0, <2>1 DEF TypedStreams, RawSendState, Backlog, client
    <2> QED
        BY <2>2, <2>3 DEF StreamIInv
<1> QED
    BY <1>1, <1>2

(* The connection ends: its buffers with it, not what the kernel holds.      *)
LEMMA DropStep ==
    ASSUME StreamIInv, DropConn, gotUp' \in 0..MaxFrames
    PROVE  StreamIInv'
<1>0. TypedStreams /\ RawSendState
    BY DEF StreamIInv
<1>1. /\ conn' = FALSE /\ tx' = <<>> /\ txBuf' = <<>> /\ rxBuf' = <<>>
      /\ UNCHANGED <<client, budget, sentDown, drop, up, down>>
    BY DEF DropConn
<1>2. TypedStreams' /\ RawSendState'
    BY <1>0, <1>1 DEF TypedStreams, RawSendState, Backlog, client
<1>3. UpStream' /\ (conn' => ReadRound')
    BY <1>1 DEF UpStream
<1>4. DownStream'
    <2>1. InCrx' = InCrx /\ InDown' = InDown
        BY <1>1 DEF InCrx, InDown, client
    <2> QED
        BY <1>1, <2>1 DEF StreamIInv, DownStream, client
<1> QED
    BY <1>2, <1>3, <1>4 DEF StreamIInv

(* flush_conn_tx moves what is queued towards the peer, in its order.        *)
LEMMA FlushStep ==
    ASSUME StreamIInv, FlushAfterRead \/ Pump
    PROVE  StreamIInv'
<1> DEFINE n == Room(down)
           all == txBuf \o tx
<1>0. TypedStreams /\ RawSendState /\ n \in Int /\ conn
    <2>1. Len(down) \in Nat /\ Kernel \in Nat
        BY Sizes, TransportAssumption DEF TransportAssumption, StreamIInv
    <2> QED
        BY <2>1 DEF StreamIInv, Room, FlushAfterRead, Pump
<1>1. /\ tx' = <<>> /\ txBuf' = Rest(all, n) /\ down' = down \o First(all, n)
      /\ UNCHANGED <<client, conn, budget, rxBuf, gotUp, sentDown, drop, up>>
      /\ ev \in {"flush", "pump"} /\ ev' \in {"pump", "scan"}
    BY DEF FlushAfterRead, Pump, FlushConnTx
<1>2. RawSendState' /\ UpStream'
    BY <1>0, <1>1, UpSame DEF StreamIInv, client, RawSendState, Backlog
<1>3. conn' => ReadRound'
    BY <1>0, <1>1 DEF StreamIInv, ReadRound, Leftover
<1>4. /\ txBuf \in Seq(Unit) /\ tx \in Seq(Unit) /\ down \in Seq(Unit)
      /\ Contig(crx, Before(gotDown)) /\ Contig(down, InCrx) /\ Contig(txBuf, InDown) /\ Contig(tx, InTxBuf)
      /\ InTxBuf + Len(tx) = Before(sentDown)
    BY <1>0 DEF TypedStreams, StreamIInv, DownStream
<1>5. /\ InCrx \in Nat /\ InDown = InCrx + Len(down) /\ InTxBuf = InDown + Len(txBuf)
      /\ InDown \in Nat /\ Len(down) \in Nat /\ Len(txBuf) \in Nat /\ Len(tx) \in Nat
    BY <1>0, Sizes DEF InDown, InTxBuf
<1>6. all \in Seq(Unit) /\ Len(all) = Len(txBuf) + Len(tx) /\ Contig(all, InDown)
    BY <1>4, <1>5, JoinRuns
<1> HIDE DEF all
<1>7. n \in Nat
    BY <1>0, SocketRoom
<1> HIDE DEF n
<1>8. /\ down' \in Seq(Unit) /\ txBuf' \in Seq(Unit)
      /\ Contig(down', InCrx) /\ Contig(txBuf', InCrx + Len(down'))
      /\ Len(down') \in Nat /\ Len(txBuf') \in Nat
      /\ Len(down') + Len(txBuf') = Len(down) + Len(all) /\ Len(down') <= Len(down) + n
    BY <1>1, <1>4, <1>5, <1>6, <1>7, MoveRun
<1>11. Len(down') <= Kernel
    <2>1. Len(down) + n = Kernel
        BY <1>0, SocketRoom DEF n
    <2> QED
        BY <1>8, <2>1
<1>9. TypedStreams'
    BY <1>0, <1>1, <1>8, <1>11 DEF TypedStreams, client
<1>10. DownStream'
    <2>1. InCrx' = InCrx /\ InDown' = InCrx + Len(down') /\ InTxBuf' = (InCrx + Len(down')) + Len(txBuf')
        BY <1>1 DEF InCrx, InDown, InTxBuf, client
    <2>2. Before(sentDown) = ((InCrx + Len(down)) + Len(txBuf)) + Len(tx)
        BY <1>4, <1>5
    <2>3. InTxBuf' = Before(sentDown)
        <3>1. InCrx \in Nat /\ Len(down) \in Nat /\ Len(txBuf) \in Nat /\ Len(tx) \in Nat
            BY <1>5
        <3>2. Len(down') \in Nat /\ Len(txBuf') \in Nat
            BY <1>8
        <3>3. Len(down') + Len(txBuf') = Len(down) + (Len(txBuf) + Len(tx))
            BY <1>6, <1>8
        <3> QED
            BY <2>1, <2>2, <3>1, <3>2, <3>3
    <2>4. InDown' <= Before(sentDown)
        BY <1>5, <1>8, <2>1, <2>3
    <2>5. InTxBuf' + Len(tx') = Before(sentDown)
        BY <1>1, <1>5, <1>8, <2>1, <2>3
    <2> QED
        BY <1>1, <1>4, <1>8, <2>1, <2>4, <2>5, EmptyRun DEF DownStream, client
<1> QED
    BY <1>2, <1>3, <1>9, <1>10 DEF StreamIInv

(* recv: what the kernel holds moves to the buffer of the connection, which  *)
(* stays short of a budget and one more frame or recv.                       *)
LEMMA RecvStep ==
    ASSUME StreamIInv, Recv
    PROVE  StreamIInv'
<1>0. /\ TypedStreams /\ RawSendState /\ conn /\ ReadRound
      /\ FrameLen \in Nat \ {0} /\ RecvMax \in Nat \ {0} /\ Budget \in Nat
      /\ RecvMax <= Before(Budget)
    BY TransportAssumption DEF TransportAssumption, StreamIInv, Recv, Before
<1>1. /\ ev = "recv" /\ ev' = "parse"
      /\ rxBuf' = rxBuf \o First(up, RecvMax) /\ up' = Rest(up, RecvMax)
      /\ UNCHANGED <<client, conn, budget, gotUp, sentDown, tx, txBuf, drop, down>>
    BY DEF Recv
<1>2. RawSendState' /\ DownStream'
    BY <1>0, <1>1, DownSame DEF StreamIInv, client, RawSendState, Backlog
<1>3. /\ rxBuf \in Seq(Unit) /\ up \in Seq(Unit)
      /\ Contig(rxBuf, Before(gotUp)) /\ Contig(up, InRxBuf)
      /\ Contig(rest, InUp) /\ Contig(Backlog, InRest) /\ InRest + Len(Backlog) = Before(sentUp)
    BY <1>0 DEF TypedStreams, StreamIInv, UpStream
<1>4. /\ Before(gotUp) \in Nat /\ InRxBuf = Before(gotUp) + Len(rxBuf)
      /\ Len(rxBuf) \in Nat /\ Len(up) \in Nat
    BY <1>0, Sizes DEF InRxBuf
<1>5. /\ rxBuf' \in Seq(Unit) /\ up' \in Seq(Unit)
      /\ Contig(rxBuf', Before(gotUp)) /\ Contig(up', Before(gotUp) + Len(rxBuf'))
      /\ Len(rxBuf') \in Nat /\ Len(up') \in Nat
      /\ Len(rxBuf') + Len(up') = Len(rxBuf) + Len(up)
      /\ Len(rxBuf') = Len(rxBuf) + Least(RecvMax, Len(up)) /\ Len(up') <= Len(up)
    <2>1. Contig(up, Before(gotUp) + Len(rxBuf)) /\ RecvMax \in Nat
        BY <1>0, <1>3, <1>4
    <2> QED
        BY <1>1, <1>3, <1>4, <2>1, MoveRun
<1>9. Len(up') <= Kernel
    <2>1. Len(up) <= Kernel /\ Kernel \in Nat
        BY <1>0, TransportAssumption DEF TypedStreams, TransportAssumption
    <2> QED
        BY <1>4, <1>5, <2>1
<1>6. TypedStreams'
    BY <1>0, <1>1, <1>5, <1>9 DEF TypedStreams, client
<1>7. UpStream'
    <2>1. InRxBuf' = Before(gotUp) + Len(rxBuf') /\ InUp' = (Before(gotUp) + Len(rxBuf')) + Len(up')
        BY <1>1 DEF InRxBuf, InUp
    <2>2. InUp = (Before(gotUp) + Len(rxBuf)) + Len(up)
        BY <1>4 DEF InUp
    <2>3. InUp' = InUp
        BY <1>4, <1>5, <2>1, <2>2
    <2>4. InRest' = InRest /\ Backlog' = Backlog /\ UNCHANGED <<rest, gotUp, sentUp>>
        BY <1>1, <2>3 DEF InRest, Backlog, client
    <2> QED
        BY <1>3, <1>5, <2>1, <2>3, <2>4 DEF UpStream
<1>8. ReadRound'
    <2>1. /\ budget \in 0..Budget /\ budget > 0 /\ budget \in Nat /\ Leftover
          /\ (budget # Budget => Len(rxBuf) < FrameLen)
        BY <1>0, <1>1 DEF ReadRound
    <2>2. Len(rxBuf') <= Len(rxBuf) + RecvMax
        BY <1>0, <1>4, <1>5 DEF Least
    <2>3. Before(budget) \in Nat /\ FrameLen <= Before(budget)
        <3>1. Before(0) = 0 /\ Before(budget) \in Nat /\ Before(0) + FrameLen <= Before(budget)
            BY <2>1, BeforeFacts
        <3> QED
            BY <1>0, <3>1
    <2>4. \/ Len(rxBuf') < Before(budget) + FrameLen
          \/ Len(rxBuf') < Before(budget) + RecvMax
        <3>0. /\ Len(rxBuf) \in Nat /\ Len(rxBuf') \in Nat /\ RecvMax \in Nat /\ FrameLen \in Nat
              /\ Before(budget) \in Nat /\ Len(rxBuf') <= Len(rxBuf) + RecvMax
            BY <1>0, <1>4, <1>5, <2>2, <2>3
        <3>1. CASE Len(rxBuf) < FrameLen
            <4>1. Len(rxBuf) < Before(budget)
                BY <2>3, <3>0, <3>1
            <4> QED
                BY <3>0, <4>1
        <3>2. CASE ~(Len(rxBuf) < FrameLen)
            <4>1. budget = Budget /\ Len(rxBuf) < RecvMax
                BY <2>1, <3>2 DEF Leftover
            <4>2. Len(rxBuf) < Before(budget)
                BY <1>0, <3>0, <4>1
            <4> QED
                BY <3>0, <4>2
        <3> QED
            BY <3>1, <3>2
    <2> QED
        BY <1>1, <2>1, <2>4 DEF ReadRound
<1> QED
    BY <1>2, <1>6, <1>7, <1>8 DEF StreamIInv

(* The server handles the frame after the last one, and the client sent it.  *)
LEMMA HandleStep ==
    ASSUME StreamIInv, HandleFrame \/ HandleLast
    PROVE  /\ StreamIInv'
           /\ gotUp' = gotUp + 1 /\ gotUp < sentUp
<1>0. /\ TypedStreams /\ RawSendState /\ conn /\ ReadRound
      /\ FrameLen \in Nat \ {0} /\ MaxFrames \in Nat /\ RecvMax \in Nat \ {0} /\ Budget \in Nat
    BY TransportAssumption DEF TransportAssumption, StreamIInv, HandleFrame, HandleLast
<1>1. ev = "parse" /\ Complete(rxBuf) /\ Handled
    BY DEF HandleFrame, HandleLast
<1>2. /\ rxBuf \in Seq(Unit) /\ gotUp \in Nat /\ sentUp \in Nat /\ gotUp \in 0..MaxFrames /\ sentUp \in 0..MaxFrames
      /\ Contig(rxBuf, Before(gotUp)) /\ Contig(up, InRxBuf)
      /\ Contig(rest, InUp) /\ Contig(Backlog, InRest) /\ InRest + Len(Backlog) = Before(sentUp)
    BY <1>0 DEF TypedStreams, StreamIInv, UpStream
<1> DEFINE r == Rest(rxBuf, FrameLen)
<1>3. /\ gotUp' = gotUp + 1
      /\ r \in Seq(Unit) /\ Contig(r, Before(gotUp + 1)) /\ Len(r) = Len(rxBuf) - FrameLen
      /\ Before(gotUp + 1) + Len(r) = Before(gotUp) + Len(rxBuf)
    BY <1>1, <1>2, TakeFrame DEF Handled
<1> HIDE DEF r
<1>4. gotUp < sentUp
    <2>1. /\ InRxBuf = Before(gotUp) + Len(rxBuf) /\ InUp = InRxBuf + Len(up) /\ InRest = InUp + Len(rest)
          /\ InRxBuf \in Nat /\ Len(up) \in Nat /\ Len(rest) \in Nat /\ Len(Backlog) \in Nat
        BY <1>0, Sizes DEF InRxBuf, InUp, InRest
    <2>2. Before(gotUp) + Len(rxBuf) <= Before(sentUp)
        BY <1>2, <2>1
    <2> QED
        BY <1>1, <1>2, <2>2, TakeFrame
<1>5. gotUp' \in 0..MaxFrames
    BY <1>0, <1>2, <1>3, <1>4
<1>6. CASE HandleLast
    <2>1. StreamIInv'
        BY <1>5, <1>6, DropStep DEF HandleLast
    <2> QED
        BY <1>3, <1>4, <2>1
<1>7. CASE HandleFrame
    <2>1. /\ rxBuf' = r /\ budget' = budget - 1
          /\ ev' = (IF budget = 1 THEN "flush" ELSE "parse")
          /\ UNCHANGED <<client, conn, sentDown, tx, txBuf, drop, up, down>>
        BY <1>7 DEF HandleFrame, r
    <2>2. RawSendState' /\ DownStream'
        BY <1>0, <2>1, DownSame DEF StreamIInv, client, RawSendState, Backlog
    <2>3. TypedStreams'
        BY <1>0, <1>3, <1>5, <2>1 DEF TypedStreams, client
    <2>4. UpStream'
        <3>1. InRxBuf' = InRxBuf
            BY <1>3, <2>1 DEF InRxBuf
        <3>2. InUp' = InUp /\ InRest' = InRest /\ Backlog' = Backlog /\ UNCHANGED <<rest, sentUp>>
            BY <2>1, <3>1 DEF InUp, InRest, Backlog, client
        <3> QED
            BY <1>2, <1>3, <2>1, <3>1, <3>2 DEF UpStream
    <2>5. ReadRound'
        <3>1. /\ budget \in Nat /\ budget \in 1..Budget /\ budget - 1 \in Nat /\ (budget - 1) + 1 = budget
              /\ \/ Len(rxBuf) < Before(budget) + FrameLen
                 \/ Len(rxBuf) < Before(budget) + RecvMax
            BY <1>0, <1>1 DEF ReadRound
        <3>2. Before(budget) = Before(budget - 1) + FrameLen /\ Before(budget - 1) \in Nat /\ Before(0) = 0
            <4>1. Before((budget - 1) + 1) = Before(budget - 1) + FrameLen
                BY <3>1, BeforeFacts
            <4> QED
                BY <3>1, <4>1, BeforeFacts
        <3>3. Len(rxBuf') = Len(rxBuf) - FrameLen /\ Len(rxBuf) \in Nat
            BY <1>0, <1>3, <2>1, Sizes
        <3>4. \/ Len(rxBuf') < Before(budget') + FrameLen
              \/ Len(rxBuf') < Before(budget') + RecvMax
            BY <1>0, <2>1, <3>1, <3>2, <3>3
        <3>5. CASE budget = 1
            <4>1. Leftover'
                BY <1>0, <2>1, <3>2, <3>3, <3>4, <3>5 DEF Leftover
            <4> QED
                BY <1>0, <2>1, <3>1, <3>5, <4>1 DEF ReadRound
        <3>6. CASE budget # 1
            BY <1>0, <2>1, <3>1, <3>4, <3>6 DEF ReadRound
        <3> QED
            BY <3>5, <3>6
    <2>6. StreamIInv'
        BY <2>2, <2>3, <2>4, <2>5 DEF StreamIInv
    <2> QED
        BY <1>3, <1>4, <2>6
<1> QED
    BY <1>6, <1>7

(* The other steps of the event thread only go round: the buffers are as     *)
(* they were, and in every one the bound of ReadRound holds where it ends.   *)
LEMMA EventLoopStep ==
    ASSUME StreamIInv, EventLoop
    PROVE  StreamIInv'
<1>0. TypedStreams /\ RawSendState /\ Budget \in Nat \ {0} /\ gotUp \in 0..MaxFrames
    BY TransportAssumption DEF TransportAssumption, StreamIInv, TypedStreams
<1>1. CASE Recv
    BY <1>1, RecvStep
<1>2. CASE HandleFrame \/ HandleLast
    BY <1>2, HandleStep
<1>3. CASE FlushAfterRead \/ Pump
    BY <1>3, FlushStep
<1>4. CASE HangUp \/ ReadFails \/ DropRequested
    BY <1>0, <1>4, DropStep DEF HangUp, ReadFails, DropRequested
<1>5. CASE Readable \/ Idle \/ RecvNothing \/ HalfFrame \/ NothingToPump \/ Scan
    <2>1. /\ conn
          /\ UNCHANGED <<client, conn, rxBuf, gotUp, sentDown, tx, txBuf, drop, up, down>>
        BY <1>5 DEF Readable, Idle, RecvNothing, HalfFrame, NothingToPump, Scan
    <2>2. UpStream' /\ DownStream'
        BY <2>1, UpSame, DownSame DEF StreamIInv, client
    <2>3. TypedStreams' /\ RawSendState'
        BY <1>0, <2>1 DEF TypedStreams, RawSendState, Backlog, client
    <2>4. ReadRound
        BY <2>1 DEF StreamIInv
    <2>5. ASSUME Readable PROVE ReadRound'
        BY <1>0, <2>1, <2>4, <2>5 DEF ReadRound, Leftover, Readable
    <2>6. ASSUME HalfFrame PROVE ReadRound'
        <3>1. Len(rxBuf) < FrameLen
            <4>1. Len(rxBuf) \in Nat /\ FrameLen \in Nat
                BY <1>0, Sizes, TransportAssumption DEF TransportAssumption
            <4> QED
                BY <2>6, <4>1 DEF HalfFrame, Complete
        <3> QED
            BY <2>1, <2>4, <2>6, <3>1 DEF ReadRound, Leftover, HalfFrame
    <2>7. ASSUME Idle \/ RecvNothing \/ NothingToPump \/ Scan PROVE ReadRound'
        BY <2>1, <2>4, <2>7 DEF ReadRound, Leftover, Idle, RecvNothing, NothingToPump, Scan
    <2> QED
        BY <1>5, <2>2, <2>3, <2>5, <2>6, <2>7 DEF StreamIInv
<1> QED
    BY <1>1, <1>2, <1>3, <1>4, <1>5 DEF EventLoop

(* Every step keeps the invariant.                                           *)
LEMMA StreamNext == StreamIInv /\ [TcpNext]_tcpVars => StreamIInv'
<1> SUFFICES ASSUME StreamIInv, [TcpNext]_tcpVars PROVE StreamIInv'
    OBVIOUS
<1>1. CASE SendRaw
    BY <1>1, SendRawStep
<1>2. CASE SendRawRefused \/ RawSend
    BY <1>2, RawSendStep
<1>3. CASE RecvFrame \/ ClientCloses
    BY <1>3, RecvFrameStep
<1>4. CASE Submit \/ Overflow \/ RequestDrop
    BY <1>4, SubmitStep
<1>5. CASE EventLoop
    BY <1>5, EventLoopStep
<1>6. CASE UNCHANGED tcpVars
    <2>1. TypedStreams' /\ RawSendState'
        BY <1>6 DEF StreamIInv, TypedStreams, RawSendState, Backlog, tcpVars, client, server
    <2> QED
        BY <1>6, <2>1, UpSame, DownSame, ReadSame DEF StreamIInv, tcpVars, client, server
<1> QED
    BY <1>1, <1>2, <1>3, <1>4, <1>5, <1>6 DEF TcpNext

(* The buffers of both directions hold the frames on their way, each once    *)
(* and in their order, however they are split (tcp.cpp and tcpserver.cpp),   *)
(* for all sizes of frames, sockets and buffers.                             *)
THEOREM StreamInvariant == TcpSpec => []StreamIInv
<1> QED
    BY StreamInit, StreamNext, PTL DEF TcpSpec

(* Every step is a step of the promised stream or leaves it alone.           *)
LEMMA UplinkStep ==
    StreamIInv /\ [TcpNext]_tcpVars => [Uplink!Next]_<<sentUp, gotUp, sock>>
<1> SUFFICES ASSUME StreamIInv, [TcpNext]_tcpVars
             PROVE  \/ Uplink!Next
                    \/ UNCHANGED <<sentUp, gotUp, sock>>
    OBVIOUS
<1> USE DEF Uplink!Next, Uplink!Accept, Uplink!Deliver, Uplink!Close
<1>1. CASE SendRaw
    BY <1>1 DEF SendRaw, Accept, server
<1>2. CASE SendRawRefused \/ ClientCloses
    BY <1>2 DEF SendRawRefused, ClientCloses, server
<1>3. CASE RawSend \/ RecvFrame
    BY <1>3 DEF RawSend, RecvFrame, Write, WriteTimesOut, Flush, FlushTimesOut, Take, Fill, server
<1>4. CASE Submit \/ Overflow \/ RequestDrop
    BY <1>4 DEF Submit, Overflow, RequestDrop, client
<1>5. CASE HandleFrame \/ HandleLast
    <2>1. gotUp' = gotUp + 1 /\ gotUp < sentUp
        BY <1>5, HandleStep
    <2>2. UNCHANGED <<sentUp, sock>>
        BY <1>5 DEF HandleFrame, HandleLast, DropConn, client
    <2> QED
        BY <2>1, <2>2
<1>6. CASE HangUp \/ ReadFails \/ DropRequested
    BY <1>6 DEF HangUp, ReadFails, DropRequested, DropConn, client
<1>7. CASE \/ Recv \/ FlushAfterRead \/ Pump
           \/ Readable \/ Idle \/ RecvNothing \/ HalfFrame \/ NothingToPump \/ Scan
    BY <1>7 DEF Recv, FlushAfterRead, Pump, FlushConnTx, Readable, Idle, RecvNothing, HalfFrame,
                NothingToPump, Scan, client
<1>8. CASE UNCHANGED tcpVars
    BY <1>8 DEF tcpVars, client, server
<1> QED
    BY <1>1, <1>2, <1>3, <1>4, <1>5, <1>6, <1>7, <1>8 DEF TcpNext, EventLoop

(* Frames the client accepted are handled by the server in their order with  *)
(* none left out: the backlog and its offset (tcp.cpp) lose, repeat and      *)
(* reorder nothing.                                                          *)
THEOREM UplinkKept == TcpSpec => UplinkInOrder
<1>1. TcpInit => Uplink!Init
    BY DEF TcpInit, Uplink!Init
<1> QED
    BY <1>1, UplinkStep, StreamInvariant, PTL DEF TcpSpec, UplinkInOrder, Uplink!Spec

(* The same towards the client.                                              *)
LEMMA DownlinkStep ==
    StreamIInv /\ [TcpNext]_tcpVars => [Downlink!Next]_<<sentDown, gotDown, conn>>
<1> SUFFICES ASSUME StreamIInv, [TcpNext]_tcpVars
             PROVE  \/ Downlink!Next
                    \/ UNCHANGED <<sentDown, gotDown, conn>>
    OBVIOUS
<1> USE DEF Downlink!Next, Downlink!Accept, Downlink!Deliver, Downlink!Close
<1>1. CASE SendRaw \/ SendRawRefused \/ ClientCloses
    BY <1>1 DEF SendRaw, Accept, SendRawRefused, ClientCloses, server
<1>2. CASE RawSend \/ Fill
    BY <1>2 DEF RawSend, Write, WriteTimesOut, Flush, FlushTimesOut, Fill, server
<1>3. CASE Take
    <2>1. gotDown' = gotDown + 1 /\ gotDown < sentDown
        BY <1>3, TakeStep
    <2>2. UNCHANGED <<sentDown, conn>>
        BY <1>3 DEF Take, server
    <2> QED
        BY <2>1, <2>2
<1>4. CASE Submit \/ Overflow \/ RequestDrop
    BY <1>4 DEF Submit, Overflow, RequestDrop, client
<1>5. CASE HangUp \/ ReadFails \/ DropRequested \/ HandleLast
    <2>1. conn /\ conn' = FALSE /\ UNCHANGED <<sentDown, gotDown>>
        BY <1>5 DEF HangUp, ReadFails, DropRequested, HandleLast, DropConn, client
    <2> QED
        BY <2>1
<1>6. CASE \/ Recv \/ HandleFrame \/ FlushAfterRead \/ Pump
           \/ Readable \/ Idle \/ RecvNothing \/ HalfFrame \/ NothingToPump \/ Scan
    BY <1>6 DEF Recv, HandleFrame, FlushAfterRead, Pump, FlushConnTx, Readable, Idle, RecvNothing,
                HalfFrame, NothingToPump, Scan, client
<1>7. CASE UNCHANGED tcpVars
    BY <1>7 DEF tcpVars, client, server
<1> QED
    BY <1>1, <1>2, <1>3, <1>4, <1>5, <1>6, <1>7 DEF TcpNext, EventLoop, RecvFrame

(* Frames the server accepted are handled by the client in their order with  *)
(* none left out until the connection ends (tcp_tx, txBuf and m_rxBuf).      *)
THEOREM DownlinkKept == TcpSpec => DownlinkInOrder
<1>1. TcpInit => Downlink!Init
    BY DEF TcpInit, Downlink!Init
<1> QED
    BY <1>1, DownlinkStep, StreamInvariant, PTL DEF TcpSpec, DownlinkInOrder, Downlink!Spec

(* A step ends the connection only when it was asked to: the head of rxBuf   *)
(* always is a header, and the buffer never has to hold more than it may.    *)
LEMMA KeptConnection ==
    StreamIInv /\ [TcpNext]_tcpVars => [conn' = conn \/ drop \/ ~sock]_tcpVars
<1> SUFFICES ASSUME StreamIInv, [TcpNext]_tcpVars PROVE conn' = conn \/ drop \/ ~sock
    OBVIOUS
<1>1. CASE SendRaw \/ SendRawRefused \/ ClientCloses \/ RawSend \/ RecvFrame
    BY <1>1 DEF SendRaw, Accept, SendRawRefused, ClientCloses, RawSend, Write, WriteTimesOut, Flush,
                FlushTimesOut, RecvFrame, Fill, Take, server
<1>2. CASE Submit \/ Overflow \/ RequestDrop
    BY <1>2 DEF Submit, Overflow, RequestDrop
<1>3. CASE HangUp \/ DropRequested \/ HandleLast
    BY <1>3 DEF HangUp, DropRequested, HandleLast
<1>4. CASE ReadFails
    <2>0. /\ conn /\ TypedStreams /\ ReadRound
          /\ gotUp \in Nat /\ rxBuf \in Seq(Unit) /\ Contig(rxBuf, Before(gotUp))
        BY <1>4 DEF ReadFails, StreamIInv, TypedStreams, UpStream
    <2>1. ASSUME BadHeader(rxBuf) PROVE FALSE
        BY <2>0, <2>1, HeadOfRun DEF BadHeader
    <2>2. ASSUME ev = "recv", Len(rxBuf) + Least(RecvMax, Len(up)) > MaxRx PROVE FALSE
        <3>1. /\ FrameLen \in Nat /\ RecvMax \in Nat /\ MaxRx \in Nat
              /\ FrameLen + RecvMax <= MaxRx + 1 /\ RecvMax + RecvMax <= MaxRx + 1
            BY TransportAssumption DEF TransportAssumption
        <3>2. Len(rxBuf) \in Nat /\ Len(up) \in Nat
            BY <2>0, Sizes
        <3>3. Least(RecvMax, Len(up)) \in Nat /\ Least(RecvMax, Len(up)) <= RecvMax
            BY <3>1, <3>2 DEF Least
        <3>4. Len(rxBuf) < FrameLen \/ Len(rxBuf) < RecvMax
            BY <2>0, <2>2 DEF ReadRound, Leftover
        <3> QED
            BY <2>2, <3>1, <3>2, <3>3, <3>4
    <2> QED
        BY <1>4, <2>1, <2>2 DEF ReadFails, Unreadable
<1>5. CASE \/ Recv \/ HandleFrame \/ FlushAfterRead \/ Pump
           \/ Readable \/ Idle \/ RecvNothing \/ HalfFrame \/ NothingToPump \/ Scan
    BY <1>5 DEF Recv, HandleFrame, FlushAfterRead, Pump, FlushConnTx, Readable, Idle, RecvNothing,
                HalfFrame, NothingToPump, Scan
<1>6. CASE UNCHANGED tcpVars
    BY <1>6 DEF tcpVars, server
<1> QED
    BY <1>1, <1>2, <1>3, <1>4, <1>5, <1>6 DEF TcpNext, EventLoop

(* The server ends a connection whose client is there only when it was asked *)
(* to (read_conn, tcpserver.cpp): no split of a well-formed stream and no    *)
(* budget makes it look broken.                                              *)
THEOREM NeverBroken == TcpSpec => NeverGivenUp
<1> QED
    BY KeptConnection, StreamInvariant, PTL DEF TcpSpec, NeverGivenUp

(* What the types bound beyond the streams: the backlog stays within         *)
(* kMaxTxPending because a frame that times out is no longer than one, the   *)
(* queue of the senders within kMaxTcpTxBufBytes.                           *)
Bounded ==
    /\ sock \in BOOLEAN /\ conn \in BOOLEAN /\ drop \in BOOLEAN
    /\ Len(rest) <= FrameLen /\ Len(pend) <= MaxPending /\ Len(tx) <= MaxTx
    /\ ev \in {"wait", "recv", "parse", "flush", "pump", "scan"}
    /\ budget \in 0..Budget
    /\ ev \in {"recv", "parse"} => budget > 0

(* They stay within their bounds.                                            *)
LEMMA BoundedStep ==
    ASSUME StreamIInv, Bounded, [TcpNext]_tcpVars
    PROVE  Bounded'
<1>0. /\ TypedStreams /\ RawSendState
      /\ FrameLen \in Nat \ {0} /\ MaxFrames \in Nat /\ Budget \in Nat \ {0}
      /\ MaxTx \in Nat /\ MaxPending \in Nat /\ FrameLen <= MaxPending
    BY TransportAssumption DEF TransportAssumption, StreamIInv
<1>1. CASE SendRaw
    <2> DEFINE f == FrameUnits(sentUp + 1)
    <2>1. sentUp \in Nat /\ sentUp < MaxFrames /\ UNCHANGED <<sock, server>>
        BY <1>0, <1>1 DEF TypedStreams, SendRaw, Accept
    <2>2. f \in Seq(Unit) /\ Len(f) = FrameLen
        BY <2>1, FrameRun
    <2>3. \/ rest' = f /\ pend' = pend
          \/ rest' = rest /\ pend' = Backlog \o f /\ Len(pend) + FrameLen <= MaxPending
        BY <1>1 DEF SendRaw
    <2> HIDE DEF f
    <2>4. Len(rest') <= FrameLen
        BY <1>0, <2>2, <2>3 DEF Bounded
    <2>5. Len(pend') <= MaxPending
        <3>1. CASE pend' = pend
            BY <3>1 DEF Bounded
        <3>2. CASE pend' = Backlog \o f /\ Len(pend) + FrameLen <= MaxPending
            <4>1. /\ Backlog \in Seq(Unit) /\ Len(Backlog) \in Nat /\ Len(Backlog) = Len(pend) - off
                  /\ off \in Nat /\ Len(pend) \in Nat
                BY <1>0, Sizes DEF TypedStreams
            <4>2. Len(pend') = Len(Backlog) + FrameLen
                <5>1. Len(Backlog \o f) = Len(Backlog) + Len(f)
                    BY <2>2, <4>1
                <5> QED
                    BY <2>2, <3>2, <5>1
            <4> QED
                BY <1>0, <3>2, <4>1, <4>2
        <3> QED
            BY <2>3, <3>1, <3>2
    <2> QED
        BY <2>1, <2>4, <2>5 DEF Bounded, server
<1>2. CASE SendRawRefused \/ ClientCloses
    BY <1>2 DEF SendRawRefused, ClientCloses, Bounded, server
<1>3. CASE Write
    <2>1. rest \in Seq(Unit) /\ Room(up) \in Nat
        BY <1>0, SocketRoom DEF TypedStreams
    <2>2. rest' = Rest(rest, Room(up)) /\ UNCHANGED <<sock, pend, server>>
        BY <1>3 DEF Write
    <2>3. Len(rest') \in Nat /\ Len(rest') <= Len(rest)
        <3>1. /\ Len(rest') = Len(rest) - Least(Room(up), Len(rest))
              /\ Least(Room(up), Len(rest)) \in 0..Len(rest)
            BY <2>1, <2>2, Cut
        <3> QED
            BY <2>1, <3>1
    <2>4. Len(rest') <= FrameLen
        BY <1>0, <2>1, <2>3 DEF Bounded
    <2> QED
        BY <2>2, <2>4 DEF Bounded, server
<1>4. CASE WriteTimesOut
    <2>1. pend' = rest /\ rest' = <<>> /\ UNCHANGED <<sock, server>>
        BY <1>4 DEF WriteTimesOut
    <2>2. Len(pend') <= MaxPending /\ Len(rest') <= FrameLen
        BY <1>0, <2>1, Sizes DEF Bounded
    <2> QED
        BY <2>1, <2>2 DEF Bounded, server
<1>5. CASE Flush
    BY <1>0, <1>5 DEF Flush, Bounded, server
<1>6. CASE FlushTimesOut \/ RecvFrame
    BY <1>6 DEF FlushTimesOut, RecvFrame, Take, Fill, Bounded, server
<1>7. CASE Submit
    <2>1. sentDown \in Nat /\ sentDown < MaxFrames /\ tx \in Seq(Unit)
        BY <1>0, <1>7 DEF TypedStreams, Submit
    <2>2. Len(tx') = Len(tx) + FrameLen
        <3> DEFINE f == FrameUnits(sentDown + 1)
        <3>1. f \in Seq(Unit) /\ Len(f) = FrameLen /\ tx' = tx \o f
            BY <1>7, <2>1, FrameRun DEF Submit
        <3> HIDE DEF f
        <3>2. Len(tx \o f) = Len(tx) + Len(f)
            BY <2>1, <3>1, ConcatProperties
        <3> QED
            BY <3>1, <3>2
    <2> QED
        BY <1>7, <2>2 DEF Submit, Bounded, client
<1>8. CASE Overflow \/ RequestDrop
    BY <1>8 DEF Overflow, RequestDrop, Bounded, client
<1>9. CASE HandleFrame
    <2>1. budget' = budget - 1 /\ ev' = (IF budget = 1 THEN "flush" ELSE "parse") /\ ev = "parse"
          /\ UNCHANGED <<client, conn, tx, drop>>
        BY <1>9 DEF HandleFrame
    <2>2. budget' \in 0..Budget /\ (ev' \in {"recv", "parse"} => budget' > 0)
        BY <1>0, <2>1 DEF Bounded
    <2> QED
        BY <2>1, <2>2 DEF Bounded, client
<1>10. CASE HangUp \/ ReadFails \/ DropRequested \/ HandleLast
    <2>1. /\ conn' = FALSE /\ ev' = "wait" /\ tx' = <<>> /\ budget' = budget /\ drop' = drop
          /\ UNCHANGED <<sock, rest, pend>>
        BY <1>10 DEF HangUp, ReadFails, DropRequested, HandleLast, DropConn, client
    <2>2. Len(tx') <= MaxTx
        BY <1>0, <2>1
    <2> QED
        BY <2>1, <2>2 DEF Bounded
<1>11. CASE FlushAfterRead \/ Pump
    BY <1>0, <1>11 DEF FlushAfterRead, Pump, FlushConnTx, Bounded, client
<1>12. CASE Readable
    BY <1>0, <1>12 DEF Readable, Bounded, client
<1>13. CASE Recv \/ Idle \/ RecvNothing \/ HalfFrame \/ NothingToPump \/ Scan
    BY <1>13 DEF Recv, Idle, RecvNothing, HalfFrame, NothingToPump, Scan, Bounded, client
<1>14. CASE UNCHANGED tcpVars
    BY <1>14 DEF tcpVars, client, server, Bounded
<1> QED
    BY <1>1, <1>2, <1>3, <1>4, <1>5, <1>6, <1>7, <1>8, <1>9, <1>10, <1>11, <1>12, <1>13, <1>14
    DEF TcpNext, EventLoop, RawSend

(* Every variable of the connection keeps its type, the backlog its limit    *)
(* kMaxTxPending and the queue of the senders its limit kMaxTcpTxBufBytes.   *)
THEOREM TransportTypes == TcpSpec => []TcpTypeOK
<1>0. /\ FrameLen \in Nat \ {0} /\ MaxFrames \in Nat /\ Budget \in Nat \ {0}
      /\ MaxTx \in Nat /\ MaxPending \in Nat
    BY TransportAssumption DEF TransportAssumption
<1>1. TcpInit => Bounded
    <2> SUFFICES ASSUME TcpInit PROVE Bounded
        OBVIOUS
    <2>1. rest = <<>> /\ pend = <<>> /\ tx = <<>>
        BY DEF TcpInit
    <2>2. Len(rest) <= FrameLen /\ Len(pend) <= MaxPending /\ Len(tx) <= MaxTx
        BY <1>0, <2>1
    <2>3. /\ sock = TRUE /\ conn = TRUE /\ drop = FALSE /\ ev = "wait" /\ budget = 0
          /\ 0 \in 0..Budget
        BY <1>0 DEF TcpInit
    <2>4. sock \in BOOLEAN /\ conn \in BOOLEAN /\ drop \in BOOLEAN
        BY <2>3, Zenon
    <2> QED
        BY <2>2, <2>3, <2>4 DEF Bounded
<1>2. ASSUME StreamIInv, Bounded PROVE TcpTypeOK
    <2>1. TypedStreams /\ RawSendState
        BY <1>2 DEF StreamIInv
    <2>2. mode = "write" => pend = <<>>
        <3>1. Len(Backlog) = Len(pend) - off /\ off \in Nat /\ Len(pend) \in Nat
            BY <2>1, Sizes DEF TypedStreams
        <3>2. ASSUME mode = "write", pend # <<>> PROVE FALSE
            <4>1. Len(Backlog) = 0 /\ off < Len(pend)
                BY <2>1, <3>2 DEF RawSendState
            <4> QED
                BY <3>1, <4>1
        <3> QED
            BY <3>2
    <2> QED
        BY <1>2, <2>1, <2>2 DEF TcpTypeOK, Bounded, TypedStreams, RawSendState
<1>3. StreamIInv /\ Bounded /\ [TcpNext]_tcpVars => Bounded'
    BY BoundedStep
<1> QED
    BY <1>1, <1>2, <1>3, StreamInvariant, PTL DEF TcpSpec
-----------------------------------------------------------------------------
(* The anti-replay channel.                                                *)

(* Datagrams that carry an epoch were sealed by the sender, nothing is       *)
(* sealed under keys that do not exist yet.                                 *)
Provenance ==
    /\ \A f \in wire : f[1] \in Epochs => f \in sealed
    /\ \A f \in sealed : f[1] <= epoch

(* The history of deliveries: each frame at most once, only sealed frames,   *)
(* and in this session nothing above the window's head.                     *)
DeliveryHistory ==
    /\ \A f \in Frame : delivered[f] \in {0, 1}
    /\ \A f \in Frame : Delivered(f) => f \in sealed
    /\ \A s \in SeqNum :
          Delivered(<<epoch, s>>) => highest # None /\ s <= highest

IInv ==
    /\ TypeOK
    /\ Provenance
    /\ DeliveryHistory
    /\ WindowExact
    /\ HighestIsGenuine
    /\ NumbersNeverReused
-----------------------------------------------------------------------------
USE DEF ChannelAssumption, None, Epochs, Forged, SeqNum, Frame

LEMMA InitIInv == Init => IInv
<1> SUFFICES ASSUME Init PROVE IInv
  OBVIOUS
<1> USE ChannelAssumption DEF Init
<1>0. \A f \in Frame : delivered[f] = 0
  OBVIOUS
<1>1. TypeOK
  <2>1. rekey \in BOOLEAN
    BY Zenon
  <2>2. QED
    BY <2>1 DEF TypeOK
<1>2. Provenance /\ HighestIsGenuine
  BY DEF Provenance, HighestIsGenuine
<1>3. DeliveryHistory
  <2>1. \A s \in SeqNum : <<epoch, s>> \in Frame
    OBVIOUS
  <2>2. QED
    BY <1>0, <2>1 DEF DeliveryHistory, Delivered
<1>4. WindowExact /\ NumbersNeverReused
  BY DEF WindowExact, NumbersNeverReused
<1>5. QED
  BY <1>1, <1>2, <1>3, <1>4 DEF IInv

(* A frame that Receive accepts is a sealed one of this session that was not *)
(* delivered before: the three tests of the handler together exclude it.    *)
LEMMA AcceptedIsFresh ==
  ASSUME IInv, NEW f \in wire, ~TooOld(f[2]), Opens(f), Accepts(f[2])
  PROVE  /\ f \in Frame /\ f = <<epoch, f[2]>> /\ f[2] \in SeqNum
         /\ f \in sealed
         /\ delivered[f] = 0
         /\ f[2] < seq
<1>1. /\ f \in Frame /\ f = <<epoch, f[2]>> /\ f[2] \in SeqNum
  BY DEF IInv, TypeOK, Opens
<1>2. f \in sealed
  BY <1>1 DEF IInv, Provenance
<1>3. f[2] < seq
  BY <1>1, <1>2 DEF IInv, NumbersNeverReused
<1>4. ~Delivered(f)
  <2>1. CASE highest = None \/ f[2] > highest
    BY <1>1, <2>1 DEF IInv, TypeOK, DeliveryHistory
  <2>2. CASE /\ highest # None /\ f[2] <= highest
             /\ highest - f[2] < Window /\ (highest - f[2]) \notin bits
    <3>1. highest \in Nat /\ f[2] \in Nat /\ highest - f[2] \in 0..(Window - 1)
      BY <1>1, <2>2, ChannelAssumption DEF IInv, TypeOK
    <3>2. highest - (highest - f[2]) = f[2]
      BY <3>1
    <3>3. QED
      BY <1>1, <2>2, <3>1, <3>2 DEF IInv, WindowExact
  <2>3. QED
    BY <1>1, <2>1, <2>2 DEF Accepts, IInv, TypeOK
<1>5. QED
  BY <1>1, <1>2, <1>3, <1>4 DEF IInv, DeliveryHistory, Delivered

LEMMA SendStep == IInv /\ Send => IInv'
<1> SUFFICES ASSUME IInv, Send PROVE IInv'
  OBVIOUS
<1> USE ChannelAssumption DEF IInv, Send, SendAtMost
<1>0. seq' = seq + 1 /\ seq + 1 \in SeqNum
  BY DEF TypeOK
<1>1. TypeOK'
  BY <1>0 DEF TypeOK
<1>2. Provenance'
  BY DEF Provenance, TypeOK
<1>3. DeliveryHistory'
  BY DEF DeliveryHistory, Delivered, TypeOK
<1>4. WindowExact'
  BY DEF WindowExact, Delivered, TypeOK
<1>5. HighestIsGenuine'
  BY <1>0 DEF HighestIsGenuine, TypeOK
<1>6. NumbersNeverReused'
  BY <1>0 DEF NumbersNeverReused, TypeOK
<1>7. QED
  BY <1>1, <1>2, <1>3, <1>4, <1>5, <1>6

LEMMA SendRefusedStep == IInv /\ SendRefused => IInv'
<1> SUFFICES ASSUME IInv, SendRefused PROVE IInv'
  OBVIOUS
<1> USE ChannelAssumption DEF IInv, SendRefused
<1>0. seq' = seq + 1 /\ seq + 1 \in SeqNum
  BY DEF TypeOK
<1>1. TypeOK'
  BY <1>0 DEF TypeOK
<1>2. Provenance' /\ DeliveryHistory' /\ WindowExact'
  BY DEF Provenance, DeliveryHistory, WindowExact, Delivered
<1>3. HighestIsGenuine'
  BY <1>0 DEF HighestIsGenuine, TypeOK
<1>4. NumbersNeverReused'
  BY <1>0 DEF NumbersNeverReused, TypeOK
<1>5. QED
  BY <1>1, <1>2, <1>3, <1>4

LEMMA NewSessionStep == IInv /\ NewSession => IInv'
<1> SUFFICES ASSUME IInv, NewSession PROVE IInv'
  OBVIOUS
<1> USE ChannelAssumption DEF IInv, NewSession
<1>1. TypeOK'
  <2>1. rekey' \in BOOLEAN
    BY Zenon
  <2>2. QED
    BY <2>1 DEF TypeOK
<1>2. Provenance'
  BY DEF Provenance, TypeOK
<1>3. \A s \in SeqNum : <<epoch', s>> \notin sealed /\ ~Delivered(<<epoch', s>>)
  BY DEF Provenance, DeliveryHistory, TypeOK
<1>4. DeliveryHistory'
  BY <1>3 DEF DeliveryHistory, Delivered, TypeOK
<1>5. WindowExact' /\ HighestIsGenuine'
  BY DEF WindowExact, HighestIsGenuine
<1>6. NumbersNeverReused'
  BY <1>3 DEF NumbersNeverReused, TypeOK
<1>7. QED
  BY <1>1, <1>2, <1>4, <1>5, <1>6

LEMMA ReceiveStep ==
  ASSUME IInv, NEW f \in wire, Receive(f)
  PROVE  IInv'
<1> DEFINE s == f[2]
<1>0. /\ f \in Frame /\ f = <<epoch, s>> /\ s \in SeqNum
      /\ f \in sealed /\ delivered[f] = 0 /\ s < seq
  BY AcceptedIsFresh DEF Receive
<1>1. /\ delivered' = [delivered EXCEPT ![f] = @ + 1]
      /\ delivered'[f] = 1
      /\ \A g \in Frame : g # f => delivered'[g] = delivered[g]
      /\ UNCHANGED <<epoch, seq, rekey, wire, sealed>>
  BY <1>0 DEF Receive, IInv, TypeOK
<1>2. /\ highest' \in SeqNum
      /\ highest' = IF highest = None \/ s > highest THEN s ELSE highest
      /\ s <= highest'
  BY <1>0 DEF Receive, Commit, IInv, TypeOK
<1>3. bits' \in SUBSET (0..(Window - 1))
  <2>1. CASE highest = None \/ s > highest
    BY <1>0, <2>1, ChannelAssumption
    DEF Receive, Commit, Shifted, ShiftedNoTruncation, IInv, TypeOK
  <2>2. CASE highest # None /\ s <= highest
    <3>1. highest \in Nat /\ s \in Nat /\ highest - s \in 0..(Window - 1)
      BY <1>0, <2>2, ChannelAssumption DEF Receive, TooOld, IInv, TypeOK
    <3>2. bits' = bits \cup {highest - s}
      BY <2>2, <3>1 DEF Receive, Commit
    <3>3. QED
      BY <3>1, <3>2 DEF IInv, TypeOK
  <2>3. QED
    BY <1>0, <2>1, <2>2 DEF IInv, TypeOK
<1>4. TypeOK'
  BY <1>0, <1>1, <1>2, <1>3 DEF IInv, TypeOK
<1>5. Provenance'
  BY <1>1 DEF IInv, Provenance
<1>6. DeliveryHistory'
  <2>1. \A g \in Frame : delivered'[g] \in {0, 1} /\ (Delivered(g)' => g \in sealed')
    BY <1>0, <1>1 DEF IInv, DeliveryHistory, Delivered
  <2>2. ASSUME NEW t \in SeqNum, Delivered(<<epoch, t>>)'
        PROVE  highest' # None /\ t <= highest'
    <3>1. CASE t = s
      BY <1>2, <3>1
    <3>2. CASE t # s
      BY <1>0, <1>1, <1>2, <2>2, <3>2 DEF IInv, TypeOK, DeliveryHistory, Delivered
    <3>3. QED
      BY <3>1, <3>2
  <2>3. QED
    BY <1>1, <2>1, <2>2 DEF DeliveryHistory
<1>7. WindowExact'
  <2> SUFFICES ASSUME NEW a \in 0..(Window - 1)
               PROVE  a \in bits' <=> /\ highest' # None
                                      /\ highest' - a >= 0
                                      /\ delivered'[<<epoch, highest' - a>>] > 0
    BY <1>1 DEF WindowExact, Delivered
  <2>1. CASE highest = None
    <3>1. highest' = s /\ bits' = {0}
      BY <1>2, <2>1 DEF Receive, Commit
    <3>2. ASSUME a # 0, s - a >= 0 PROVE ~(delivered'[<<epoch, s - a>>] > 0)
      BY <1>0, <1>1, <2>1, <3>2, ChannelAssumption DEF IInv, DeliveryHistory, Delivered
    <3>3. QED
      BY <1>0, <1>1, <3>1, <3>2 DEF Delivered
  <2>2. CASE highest # None /\ s > highest
    <3>1. /\ highest' = s
          /\ bits' = IF s - highest >= Window THEN {0} ELSE Shifted(s) \cup {0}
      BY <1>2, <2>2 DEF Receive, Commit
    <3>2. CASE a = 0
      BY <1>0, <1>1, <3>1, <3>2 DEF Delivered
    <3>3. CASE a # 0
      <4> DEFINE b == a - (s - highest)
      <4>1. /\ highest \in SeqNum /\ b \in Int /\ s - a = highest - b
            /\ s - highest > 0 /\ b < Window
        BY <1>0, <2>2, ChannelAssumption DEF IInv, TypeOK
      <4>2. a \in bits' <=> b \in bits
        BY <1>0, <3>1, <3>3, <4>1, ChannelAssumption
        DEF Shifted, ShiftedNoTruncation, IInv, TypeOK
      <4>3. CASE s - a < 0
        <5>1. b \notin bits
          <6>1. SUFFICES ASSUME b \in bits PROVE FALSE
            OBVIOUS
          <6>2. b \in 0..(Window - 1)
            BY <6>1 DEF IInv, TypeOK
          <6>3. highest - b >= 0
            BY <6>1, <6>2 DEF IInv, WindowExact
          <6>4. QED
            BY <4>1, <4>3, <6>3
        <5>2. highest' = s /\ ~(s - a >= 0)
          BY <1>0, <3>1, <4>3
        <5>3. QED
          BY <4>2, <5>1, <5>2
      <4>4. CASE s - a >= 0
        <5>1. <<epoch, s - a>> \in Frame /\ <<epoch, s - a>> # f
          BY <1>0, <3>3, <4>4, ChannelAssumption DEF IInv, TypeOK
        <5>2. delivered'[<<epoch, s - a>>] > 0 <=> Delivered(<<epoch, highest - b>>)
          BY <1>1, <4>1, <5>1 DEF Delivered
        <5>3. b \in bits <=> Delivered(<<epoch, highest - b>>)
          <6>1. CASE b >= 0
            <7>1. b \in 0..(Window - 1) /\ highest - b >= 0
              BY <1>0, <4>1, <4>4, <6>1, ChannelAssumption
            <7>2. QED
              BY <2>2, <7>1 DEF IInv, WindowExact
          <6>2. CASE b < 0
            BY <2>2, <4>1, <4>4, <5>1, <6>2
            DEF IInv, TypeOK, DeliveryHistory
          <6>3. QED
            BY <4>1, <6>1, <6>2
        <5>4. QED
          BY <1>0, <3>1, <4>2, <4>4, <5>2, <5>3
      <4>5. QED
        BY <1>0, <4>3, <4>4
    <3>4. QED
      BY <3>2, <3>3
  <2>3. CASE highest # None /\ s <= highest
    <3>1. highest' = highest /\ bits' = bits \cup {highest - s}
      BY <1>0, <2>3 DEF Receive, Commit, IInv, TypeOK
    <3>2. CASE a = highest - s
      <4>1. highest - a = s
        BY <1>0, <2>3, <3>2 DEF IInv, TypeOK
      <4>2. QED
        BY <1>0, <1>1, <2>3, <3>1, <3>2, <4>1 DEF Delivered
    <3>3. CASE a # highest - s
      <4>1. highest \in Nat /\ a \in Nat /\ s \in Nat /\ highest - a # s
        BY <1>0, <2>3, <3>3 DEF IInv, TypeOK
      <4>2. highest - a >= 0 =>
              <<epoch, highest - a>> \in Frame /\ <<epoch, highest - a>> # f
        <5>1. highest < SeqMod /\ epoch \in Epochs
          BY <2>3, ChannelAssumption DEF IInv, TypeOK
        <5>2. highest - a >= 0 => highest - a \in SeqNum
          BY <4>1, <5>1, ChannelAssumption
        <5>3. <<epoch, highest - a>> # f
          BY <1>0, <4>1
        <5>4. QED
          BY <5>1, <5>2, <5>3
      <4>3. QED
        BY <1>1, <3>1, <3>3, <4>2 DEF IInv, WindowExact, Delivered
    <3>4. QED
      BY <3>2, <3>3
  <2>4. QED
    BY <1>0, <2>1, <2>2, <2>3 DEF IInv, TypeOK
<1>8. HighestIsGenuine'
  BY <1>0, <1>1, <1>2 DEF IInv, HighestIsGenuine
<1>9. NumbersNeverReused'
  BY <1>1 DEF IInv, NumbersNeverReused
<1>10. QED
  BY <1>4, <1>5, <1>6, <1>7, <1>8, <1>9 DEF IInv

LEMMA NetworkStep ==
  ASSUME IInv, \/ \E f \in wire : Lose(f)
               \/ \E s \in ForgedSeq : Stray(s)
  PROVE  IInv'
<1>1. UNCHANGED <<epoch, seq, rekey, highest, bits, sealed, delivered>>
  BY DEF Lose, Stray
<1>2. /\ \A f \in wire' : f \in wire \/ f \in {Forged} \X SeqNum
  BY ChannelAssumption DEF Lose, Stray
<1>3. TypeOK'
  BY <1>1, <1>2 DEF IInv, TypeOK
<1>4. Provenance'
  BY <1>1, <1>2, ChannelAssumption DEF IInv, Provenance
<1>5. QED
  BY <1>1, <1>3, <1>4
  DEF IInv, DeliveryHistory, WindowExact, HighestIsGenuine, NumbersNeverReused, Delivered

LEMMA NextIInv == IInv /\ [Next]_vars => IInv'
<1>1. IInv /\ UNCHANGED vars => IInv'
  BY DEF vars, IInv, TypeOK, Provenance, DeliveryHistory, WindowExact,
         HighestIsGenuine, NumbersNeverReused, Delivered
<1>2. QED
  BY <1>1, SendStep, SendRefusedStep, NewSessionStep, ReceiveStep, NetworkStep DEF Next

(* The inductive invariant holds throughout: the bitmap is exact and only    *)
(* genuine frames moved it (replay_window.h).                               *)
THEOREM ChannelInvariant == Spec => []IInv
  BY InitIInv, NextIInv, PTL DEF Spec

(* The window's bits are exactly the delivered numbers, its head a number    *)
(* the peer issued, and no number is used twice under one key.              *)
THEOREM WindowSafety ==
    Spec => [](TypeOK /\ WindowExact /\ HighestIsGenuine /\ NumbersNeverReused)
<1>1. IInv => TypeOK /\ WindowExact /\ HighestIsGenuine /\ NumbersNeverReused
  BY DEF IInv
<1>2. QED
  BY <1>1, ChannelInvariant, PTL

(* No number is sealed twice under the keys of a session, and none at or     *)
(* above kSeqRekeyLimit: the numbers on the wire are those the counter has   *)
(* passed (send_packet, fetch_add before the test).                         *)
THEOREM NumbersStayFresh == Spec => []NumbersNeverReused
<1>1. IInv => NumbersNeverReused
  BY DEF IInv
<1>2. QED
  BY <1>1, ChannelInvariant, PTL

(* The window refuses no frame it should let through: a fresh frame that is  *)
(* less than Window behind the head passes both tests.                      *)
THEOREM NoFalseRejection == Spec => []FreshFramesPass
<1>1. IInv => FreshFramesPass
  <2> SUFFICES ASSUME IInv, NEW f \in wire,
                      f \in sealed, f[1] = epoch, ~Delivered(f),
                      highest # None => highest - f[2] < Window
               PROVE  ~TooOld(f[2]) /\ Accepts(f[2])
    BY DEF FreshFramesPass
  <2>1. f = <<epoch, f[2]>> /\ f[2] \in Nat /\ (highest # None => highest \in Nat)
    BY DEF IInv, TypeOK
  <2>2. ~TooOld(f[2])
    BY <2>1, ChannelAssumption DEF TooOld
  <2>3. ASSUME highest # None, ~(f[2] > highest) PROVE (highest - f[2]) \notin bits
    <3>1. highest - f[2] \in 0..(Window - 1) /\ highest - (highest - f[2]) = f[2]
      BY <2>1, <2>3, ChannelAssumption
    <3>2. QED
      BY <2>1, <2>3, <3>1 DEF IInv, WindowExact
  <2>4. QED
    BY <2>1, <2>2, <2>3 DEF Accepts
<1>2. QED
  BY <1>1, ChannelInvariant, PTL

(* The channel implements the at-most-once promise: the sender's step seals  *)
(* a new frame, the receiver's delivers one that was not delivered yet, and  *)
(* every other step changes nothing the promise speaks of.                  *)
THEOREM ChannelRefinesPromise == Spec => AtMostOnceDelivery
<1> USE DEF Promise!AInit, Promise!ANext, Promise!ASeal, Promise!ADeliver, Promise!avars
<1>1. Init => Promise!AInit
  BY DEF Init
<1>2. IInv /\ [Next]_vars => [Promise!ANext]_Promise!avars
  <2> SUFFICES ASSUME IInv, [Next]_vars
               PROVE  [Promise!ANext]_Promise!avars
    OBVIOUS
  <2>1. CASE Send
    <3>1. <<epoch, seq>> \in Frame /\ <<epoch, seq>> \notin sealed
      BY DEF IInv, TypeOK, NumbersNeverReused
    <3>2. QED
      BY <2>1, <3>1 DEF Send, SendAtMost
  <2>2. ASSUME NEW f \in wire, Receive(f) PROVE Promise!ANext
    <3>1. f \in Frame /\ f \in sealed /\ delivered[f] = 0
      BY <2>2, AcceptedIsFresh DEF Receive
    <3>2. delivered' = [delivered EXCEPT ![f] = 1] /\ UNCHANGED sealed
      BY <2>2, <3>1 DEF Receive
    <3>3. QED
      BY <3>1, <3>2
  <2>3. CASE \/ SendRefused \/ NewSession
             \/ \E f \in wire : Lose(f)
             \/ \E s \in ForgedSeq : Stray(s)
    BY <2>3 DEF SendRefused, NewSession, Lose, Stray
  <2>4. CASE UNCHANGED vars
    BY <2>4 DEF vars
  <2>5. QED
    BY <2>1, <2>2, <2>3, <2>4 DEF Next
<1>3. QED
  BY <1>1, <1>2, ChannelInvariant, PTL DEF Spec, AtMostOnceDelivery, Promise!ASpec
=============================================================================
