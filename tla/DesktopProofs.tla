----------------------------- MODULE DesktopProofs -----------------------------
(***************************************************************************)
(* The proofs about the desktop client, in four parts: the updater and its *)
(* threads (Updater inside Desktop), the cards of the servers (CardFile    *)
(* inside Desktop), config.ini (IniDoc), and the rules that tell a client  *)
(* to update (UpdatePolicy).                                               *)
(***************************************************************************)
EXTENDS Desktop, IniDoc, UpdatePolicy, SequenceTheorems, FiniteSetTheorems,
        WellFoundedInduction, TLAPS

-----------------------------------------------------------------------------
(* Queues and the threads they stand for                                    *)

(* A queue of the model, whatever it holds.                                 *)
IsSequence(s) == \E S : s \in Seq(S)

LEMMA EmptySequence == IsSequence(<<>>)
<1>1. <<>> \in Seq({})
    OBVIOUS
<1> QED
    BY <1>1 DEF IsSequence

LEMMA OneElement ==
    ASSUME NEW e
    PROVE  IsSequence(<<e>>) /\ Len(<<e>>) = 1 /\ <<e>>[1] = e
<1>1. <<e>> \in Seq({e})
    OBVIOUS
<1> QED
    BY <1>1 DEF IsSequence

LEMMA LengthIsNat ==
    ASSUME NEW s, IsSequence(s)
    PROVE  Len(s) \in Nat /\ DOMAIN s = 1 .. Len(s) /\ (s = <<>> <=> Len(s) = 0)
<1>1. PICK S : s \in Seq(S)
    BY DEF IsSequence
<1> QED
    BY <1>1

LEMMA AppendIs ==
    ASSUME NEW s, IsSequence(s), NEW e
    PROVE  /\ IsSequence(Append(s, e)) /\ Len(Append(s, e)) = Len(s) + 1
           /\ \A n \in 1 .. Len(s) : Append(s, e)[n] = s[n]
           /\ Append(s, e)[Len(s) + 1] = e
           /\ Append(s, e) # <<>>
<1>1. PICK S : s \in Seq(S)
    BY DEF IsSequence
<1>2. s \in Seq(S \cup {e}) /\ e \in S \cup {e}
    BY <1>1, SeqMonotonic
<1>3. Append(s, e) \in Seq(S \cup {e})
    BY <1>2
<1>4. /\ Len(Append(s, e)) = Len(s) + 1
      /\ \A n \in 1 .. Len(s) : Append(s, e)[n] = s[n]
      /\ Append(s, e)[Len(s) + 1] = e
    BY <1>2
<1> QED
    BY <1>2, <1>3, <1>4 DEF IsSequence

LEMMA TailIs ==
    ASSUME NEW s, IsSequence(s), s # <<>>
    PROVE  /\ IsSequence(Tail(s)) /\ Len(Tail(s)) = Len(s) - 1
           /\ \A n \in 1 .. Len(s) - 1 : Tail(s)[n] = s[n + 1]
           /\ Head(s) = s[1]
<1>1. PICK S : s \in Seq(S)
    BY DEF IsSequence
<1> QED
    BY <1>1 DEF IsSequence

(* r is s with e in place i.                                                *)
ReplacedAt(s, i, e, r) == r = [n \in DOMAIN s |-> IF n = i THEN e ELSE s[n]]

LEMMA ReplacedIs ==
    ASSUME NEW s, IsSequence(s), NEW i \in DOMAIN s, NEW e, NEW r, ReplacedAt(s, i, e, r)
    PROVE  /\ IsSequence(r) /\ Len(r) = Len(s) /\ r[i] = e
           /\ \A n \in 1 .. Len(s) : n # i => r[n] = s[n]
<1>1. PICK S : s \in Seq(S)
    BY DEF IsSequence
<1>2. s \in Seq(S \cup {e}) /\ e \in S \cup {e}
    BY <1>1, SeqMonotonic
<1>3. r \in Seq(S \cup {e}) /\ Len(r) = Len(s) /\ r[i] = e
    BY <1>2 DEF ReplacedAt
<1>4. \A n \in 1 .. Len(s) : n # i => r[n] = s[n]
    BY <1>1 DEF ReplacedAt
<1> QED
    BY <1>3, <1>4 DEF IsSequence

LEMMA RemovedIs ==
    ASSUME NEW s, IsSequence(s), Len(s) <= 1, NEW i \in DOMAIN s
    PROVE  RemoveAt(s, i) = <<>>
<1>1. PICK S : s \in Seq(S)
    BY DEF IsSequence
<1>2. Len(s) = 1 /\ i = 1
    <2>1. Len(s) \in Nat /\ i \in 1 .. Len(s)
        BY LengthIsNat
    <2>2. i = 1
        BY <2>1
    <2>3. 1 \in 1 .. Len(s)
        BY <2>1, <2>2
    <2> QED
        BY <2>1, <2>2, <2>3
<1>3. SubSeq(s, 1, i - 1) = <<>> /\ SubSeq(s, i + 1, Len(s)) = <<>>
    BY <1>1, <1>2
<1>4. <<>> \o <<>> = <<>>
    OBVIOUS
<1> QED
    BY <1>3, <1>4, Zenon DEF RemoveAt
-----------------------------------------------------------------------------
(* The places of a queue of notices that hold notice d.                     *)
Waits(w, d) == {n \in 1 .. Len(w) : w[n].t = d}

(* One round of a thread that is started under a busy flag: q holds the     *)
(* thread, and when it has ended, its notice d waits in the queue w of the  *)
(* thread of AppBridge, whose slot clears the flag. At most one of the two  *)
(* exists, and only while the flag is set.                                  *)
Once(q, busy, w, d) ==
    /\ IsSequence(q) /\ Len(q) <= 1
    /\ busy \in BOOLEAN
    /\ q # <<>> => busy /\ Waits(w, d) = {}
    /\ Waits(w, d) # {} => busy
    /\ \A m, n \in Waits(w, d) : m = n

(* The process has just started, without a thread or with the one of the    *)
(* first check.                                                             *)
LEMMA OnceEmpty ==
    ASSUME NEW busy \in BOOLEAN, NEW d, NEW e
    PROVE  /\ Once(<<>>, busy, <<>>, d)
           /\ busy => Once(<<e>>, busy, <<>>, d)
<1>1. Len(<<>>) = 0 /\ Len(<<e>>) = 1
    OBVIOUS
<1>2. Waits(<<>>, d) = {}
    BY DEF Waits
<1>3. IsSequence(<<>>) /\ IsSequence(<<e>>)
    BY EmptySequence, OneElement
<1>4. Once(<<>>, busy, <<>>, d)
    BY <1>1, <1>2, <1>3 DEF Once
<1>5. busy => Once(<<e>>, busy, <<>>, d)
    BY <1>1, <1>2, <1>3 DEF Once
<1> QED
    BY <1>4, <1>5

(* Other notices may queue behind and in front of d.                        *)
LEMMA OnceAppend ==
    ASSUME NEW q, NEW busy, NEW w, NEW d, Once(q, busy, w, d), IsSequence(w), NEW e, e.t # d
    PROVE  Once(q, busy, Append(w, e), d)
<1>1. Len(w) \in Nat
    BY LengthIsNat
<1>2. Waits(Append(w, e), d) = Waits(w, d)
    <2>1. /\ Len(Append(w, e)) = Len(w) + 1
          /\ \A n \in 1 .. Len(w) : Append(w, e)[n] = w[n]
          /\ Append(w, e)[Len(w) + 1] = e
        BY AppendIs
    <2> HIDE DEF Once
    <2> QED
        BY <1>1, <2>1 DEF Waits
<1> QED
    BY <1>2 DEF Once

(* The thread of AppBridge takes the first notice; when it is d, the flag   *)
(* falls.                                                                   *)
LEMMA OnceTail ==
    ASSUME NEW q, NEW busy, NEW w, NEW d, Once(q, busy, w, d), IsSequence(w), w # <<>>
    PROVE  /\ Once(q, busy, Tail(w), d)
           /\ Head(w).t = d => Once(q, FALSE, Tail(w), d)
<1>1. Len(w) \in Nat /\ Len(w) # 0
    BY LengthIsNat
<1>2. /\ Len(Tail(w)) = Len(w) - 1 /\ Head(w) = w[1]
      /\ \A n \in 1 .. Len(w) - 1 : Tail(w)[n] = w[n + 1]
    BY TailIs
<1>3. \A n \in Waits(Tail(w), d) : n + 1 \in Waits(w, d) /\ n \in Nat /\ n >= 1
    BY <1>1, <1>2 DEF Waits
<1>4. Once(q, busy, Tail(w), d)
    <2>1. \A m, n \in Waits(Tail(w), d) : m = n
        <3> SUFFICES ASSUME NEW m \in Waits(Tail(w), d), NEW n \in Waits(Tail(w), d) PROVE m = n
            OBVIOUS
        <3>1. m + 1 = n + 1 /\ m \in Nat /\ n \in Nat
            BY <1>3 DEF Once
        <3> QED
            BY <3>1
    <2> QED
        BY <1>3, <2>1 DEF Once
<1>5. ASSUME Head(w).t = d PROVE Once(q, FALSE, Tail(w), d)
    <2>1. 1 \in Waits(w, d)
        BY <1>1, <1>2, <1>5 DEF Waits
    <2>2. Waits(Tail(w), d) = {}
        <3> SUFFICES ASSUME NEW n \in Waits(Tail(w), d) PROVE FALSE
            OBVIOUS
        <3>1. n + 1 = 1 /\ n \in Nat /\ n >= 1
            BY <1>3, <2>1 DEF Once
        <3> QED
            BY <3>1
    <2> QED
        BY <1>5, <2>1, <2>2 DEF Once
<1> QED
    BY <1>4, <1>5

(* A thread is started only while the flag is down, so it is the only one.  *)
LEMMA OnceStarts ==
    ASSUME NEW q, NEW w, NEW d, Once(q, FALSE, w, d), NEW e
    PROVE  Once(Append(q, e), TRUE, w, d) /\ q = <<>>
<1>1. q = <<>> /\ Waits(w, d) = {}
    BY DEF Once
<1>2. IsSequence(Append(q, e)) /\ Len(Append(q, e)) = Len(q) + 1 /\ Len(q) = 0
    BY <1>1, AppendIs, LengthIsNat DEF Once
<1> QED
    BY <1>1, <1>2 DEF Once

(* The thread ends and leaves its notice.                                   *)
LEMMA OnceEnds ==
    ASSUME NEW q, NEW busy, NEW w, NEW d, Once(q, busy, w, d), IsSequence(w),
           NEW i \in DOMAIN q, NEW e, e.t = d
    PROVE  Once(RemoveAt(q, i), busy, Append(w, e), d) /\ RemoveAt(q, i) = <<>>
<1>1. RemoveAt(q, i) = <<>>
    BY RemovedIs DEF Once
<1>2. q # <<>>
    BY LengthIsNat DEF Once
<1>3. busy = TRUE /\ Waits(w, d) = {}
    BY <1>2 DEF Once
<1>4. Len(w) \in Nat
    BY LengthIsNat
<1>5. /\ Len(Append(w, e)) = Len(w) + 1
      /\ \A n \in 1 .. Len(w) : Append(w, e)[n] = w[n]
    BY AppendIs
<1>6. Waits(Append(w, e), d) \in SUBSET {Len(w) + 1}
    <2>1. \A n \in 1 .. Len(w) : w[n].t # d
        BY <1>3 DEF Waits
    <2> QED
        BY <1>4, <1>5, <2>1 DEF Waits
<1>7. Len(<<>>) = 0
    OBVIOUS
<1>8. \A m, n \in Waits(Append(w, e), d) : m = n
    BY <1>6
<1>9. Once(<<>>, busy, Append(w, e), d)
    BY <1>3, <1>7, <1>8, EmptySequence DEF Once
<1> QED
    BY <1>1, <1>9, Zenon

(* The thread goes on to its next step.                                     *)
LEMMA OnceMoves ==
    ASSUME NEW q, NEW busy, NEW w, NEW d, Once(q, busy, w, d), NEW i \in DOMAIN q, NEW e,
           NEW r, ReplacedAt(q, i, e, r)
    PROVE  Once(r, busy, w, d)
<1>1. IsSequence(r) /\ Len(r) = Len(q)
    BY ReplacedIs DEF Once
<1>2. r # <<>> <=> q # <<>>
    BY <1>1, LengthIsNat DEF Once
<1> QED
    BY <1>1, <1>2 DEF Once
-----------------------------------------------------------------------------
(* Every release the update holds anywhere, in the window, in a signal on   *)
(* its way, in a thread or on the disk, came with its own signature; and a  *)
(* thread that is about to install has the package of the policy it was     *)
(* started with.                                                            *)
SignedOnly ==
    /\ installed \in verified \cup {0}
    /\ shown \in verified \cup {0}
    /\ about \in verified \cup {-1, 0}
    /\ \A n \in 1 .. Len(events) : events[n].t = "checked" => events[n].rel \in verified \cup {0}
    /\ \A i \in DOMAIN downloads :
          /\ downloads[i].rel \in verified
          /\ downloads[i].pc = "install" => downloads[i].got = downloads[i].rel

(* Nothing outlives the process.                                            *)
Down == ~up => todo = <<>> /\ checks = <<>> /\ downloads = <<>> /\ svcs = <<>> /\ lists = <<>>

(* The inductive invariant of the updater.                                  *)
UpdatesIInv ==
    /\ IsSequence(events) /\ IsSequence(todo)
    /\ configured \in BOOLEAN
    /\ Once(checks, checkBusy, todo, "checkDone")
    /\ Once(downloads, downloadBusy, todo, "downloadDone")
    /\ SignedOnly
    /\ Down

(* What the rest of the client may do to the signals and notices of the     *)
(* updater: take the first, or add one of its own.                          *)
OtherEvents ==
    \/ events' = events
    \/ events # <<>> /\ events' = Tail(events)
    \/ \E e : e.t # "checked" /\ events' = Append(events, e)

OtherTodo ==
    \/ todo' = todo
    \/ todo # <<>> /\ todo' = Tail(todo)
    \/ \E e : e.t \notin {"checkDone", "downloadDone"} /\ todo' = Append(todo, e)

StaysDown ==
    /\ up' = up
    /\ ~up => todo' = todo /\ svcs' = svcs /\ lists' = lists

(* No step of the rest of the client puts an unsigned release into the      *)
(* queue of signals,                                                        *)
LEMMA EventsSigned ==
    ASSUME IsSequence(events), OtherEvents, verified \subseteq verified',
           \A n \in 1 .. Len(events) : events[n].t = "checked" => events[n].rel \in verified \cup {0}
    PROVE  /\ IsSequence(events')
           /\ \A n \in 1 .. Len(events') :
                 events'[n].t = "checked" => events'[n].rel \in verified' \cup {0}
<1>0. Len(events) \in Nat /\ (events # <<>> => Len(events) # 0)
    BY LengthIsNat
<1>1. CASE events' = events
    BY <1>1
<1>2. CASE events # <<>> /\ events' = Tail(events)
    BY <1>0, <1>2, TailIs
<1>3. ASSUME NEW e, e.t # "checked", events' = Append(events, e)
      PROVE  /\ IsSequence(events')
             /\ \A n \in 1 .. Len(events') :
                   events'[n].t = "checked" => events'[n].rel \in verified' \cup {0}
    <2>1. /\ IsSequence(events') /\ Len(events') = Len(events) + 1
          /\ \A n \in 1 .. Len(events) : events'[n] = events[n]
          /\ events'[Len(events) + 1] = e
        BY <1>3, AppendIs
    <2> QED
        BY <1>0, <1>3, <2>1
<1> QED
    BY <1>1, <1>2, <1>3 DEF OtherEvents

(* nor does it end a round of the updater.                                  *)
LEMMA TodoOnce ==
    ASSUME IsSequence(todo), OtherTodo, NEW q, NEW busy, NEW d \in {"checkDone", "downloadDone"},
           Once(q, busy, todo, d)
    PROVE  IsSequence(todo') /\ Once(q, busy, todo', d)
<1>1. CASE todo' = todo
    BY <1>1
<1>2. CASE todo # <<>> /\ todo' = Tail(todo)
    BY <1>2, TailIs, OnceTail
<1>3. ASSUME NEW e, e.t \notin {"checkDone", "downloadDone"}, todo' = Append(todo, e)
      PROVE  IsSequence(todo') /\ Once(q, busy, todo', d)
    BY <1>3, AppendIs, OnceAppend
<1> QED
    BY <1>1, <1>2, <1>3 DEF OtherTodo

(* A step of the rest of the client.                                         *)
LEMMA OtherStep ==
    ASSUME UpdatesIInv, UNCHANGED updVars, OtherEvents, OtherTodo, StaysDown
    PROVE  UpdatesIInv'
<1>1. UNCHANGED <<configured, checks, checkBusy, downloads, downloadBusy, shown, about, installed, verified>>
    BY DEF updVars
<1>2. IsSequence(todo') /\ Once(checks, checkBusy, todo', "checkDone")
      /\ Once(downloads, downloadBusy, todo', "downloadDone")
    BY TodoOnce DEF UpdatesIInv
<1>3. SignedOnly' /\ IsSequence(events')
    <2>1. verified \subseteq verified'
        BY <1>1
    <2>2. /\ IsSequence(events')
          /\ \A n \in 1 .. Len(events') :
                 events'[n].t = "checked" => events'[n].rel \in verified' \cup {0}
        BY <2>1, EventsSigned DEF UpdatesIInv, SignedOnly
    <2> QED
        BY <1>1, <2>2 DEF UpdatesIInv, SignedOnly
<1>4. Down'
    BY <1>1 DEF UpdatesIInv, Down, StaysDown
<1> QED
    BY <1>1, <1>2, <1>3, <1>4 DEF UpdatesIInv

(* The thread of AppBridge, up to its notice.                               *)
LEMMA BridgeStep ==
    ASSUME UpdatesIInv,
           \/ WritePublicKey \/ WritePrivateKey \/ LoadsConfig \/ SelectServer
           \/ StartClient \/ BridgeStops
    PROVE  UpdatesIInv'
<1>1. CASE WritePublicKey \/ WritePrivateKey
    <2>1. UNCHANGED updVars /\ OtherEvents /\ OtherTodo /\ StaysDown
        BY <1>1 DEF WritePublicKey, WritePrivateKey, OtherEvents, OtherTodo, StaysDown, queues, bridgeVars
    <2> QED
        BY <2>1, OtherStep
<1>2. CASE LoadsConfig
    <2>1. UNCHANGED updVars /\ OtherEvents /\ OtherTodo
        BY <1>2 DEF LoadsConfig, OtherEvents, OtherTodo
    <2>2. StaysDown
        BY <1>2 DEF UpdatesIInv, Down, LoadsConfig, StaysDown, bridgeVars
    <2> QED
        BY <2>1, <2>2, OtherStep
<1>3. CASE SelectServer
    <2>1. UNCHANGED updVars /\ OtherEvents /\ OtherTodo
        BY <1>3 DEF SelectServer, OtherEvents, OtherTodo
    <2>2. StaysDown
        BY <1>3 DEF UpdatesIInv, Down, SelectServer, StaysDown, bridgeVars
    <2> QED
        BY <2>1, <2>2, OtherStep
<1>4. CASE StartClient
    <2>1. UNCHANGED updVars /\ OtherTodo /\ StaysDown
        BY <1>4 DEF StartClient, OtherTodo, StaysDown, bridgeVars
    <2>2. OtherEvents
        BY <1>4 DEF StartClient, Post, OtherEvents
    <2> QED
        BY <2>1, <2>2, OtherStep
<1>5. CASE BridgeStops
    <2>1. UNCHANGED updVars /\ OtherTodo
        BY <1>5 DEF BridgeStops, OtherTodo
    <2>2. StaysDown
        BY <1>5 DEF UpdatesIInv, Down, BridgeStops, StaysDown, bridgeVars
    <2>3. OtherEvents
        BY <1>5 DEF BridgeStops, StopClient, OtherEvents
    <2> QED
        BY <2>1, <2>2, <2>3, OtherStep
<1> QED
    BY <1>1, <1>2, <1>3, <1>4, <1>5

(* The gate, the list and the other threads of the managed service.         *)
LEMMA ServiceStep ==
    ASSUME UpdatesIInv,
           \/ Heartbeat \/ Worker \/ LinkLost \/ News
           \/ \E i \in DOMAIN svcs : ServiceAnswers(i)
           \/ \E i \in DOMAIN lists : ListAnswers(i)
    PROVE  UpdatesIInv'
<1>1. CASE Heartbeat
    <2>1. UNCHANGED updVars /\ OtherEvents /\ OtherTodo /\ StaysDown
        BY <1>1 DEF Heartbeat, OtherEvents, OtherTodo, StaysDown, queues
    <2> QED
        BY <2>1, OtherStep
<1>2. CASE Worker
    <2>1. UNCHANGED updVars /\ OtherTodo /\ StaysDown
        BY <1>2 DEF Worker, Registers, LogsIn, TokenRejected, GivesUp, workerSame, OtherTodo,
                    StaysDown, bridgeVars
    <2>2. OtherEvents
        BY <1>2 DEF Worker, Registers, LogsIn, TokenRejected, GivesUp, Post, OtherEvents
    <2> QED
        BY <2>1, <2>2, OtherStep
<1>3. CASE LinkLost
    <2>1. UNCHANGED updVars /\ OtherEvents /\ OtherTodo /\ StaysDown
        BY <1>3 DEF LinkLost, OtherEvents, OtherTodo, StaysDown, workerSame, bridgeVars
    <2> QED
        BY <2>1, OtherStep
<1>4. CASE News
    <2>1. UNCHANGED updVars /\ OtherEvents /\ OtherTodo /\ StaysDown
        BY <1>4 DEF News, OtherEvents, OtherTodo, StaysDown, queues, bridgeVars
    <2> QED
        BY <2>1, OtherStep
<1>5. ASSUME NEW i \in DOMAIN svcs, ServiceAnswers(i) PROVE UpdatesIInv'
    <2>1. svcs # <<>>
        OBVIOUS
    <2>2. UNCHANGED updVars /\ StaysDown
        BY <1>5, <2>1 DEF ServiceAnswers, StaysDown, UpdatesIInv, Down
    <2>3. OtherTodo
        BY <1>5 DEF ServiceAnswers, OtherTodo
    <2>4. OtherEvents
        BY <1>5 DEF ServiceAnswers, Post, OtherEvents
    <2> QED
        BY <2>2, <2>3, <2>4, OtherStep
<1>6. ASSUME NEW i \in DOMAIN lists, ListAnswers(i) PROVE UpdatesIInv'
    <2>1. lists # <<>>
        OBVIOUS
    <2>2. UNCHANGED updVars /\ StaysDown
        BY <1>6, <2>1 DEF ListAnswers, StaysDown, UpdatesIInv, Down
    <2>3. OtherTodo
        BY <1>6 DEF ListAnswers, OtherTodo
    <2>4. OtherEvents
        BY <1>6 DEF ListAnswers, Post, OtherEvents
    <2> QED
        BY <2>2, <2>3, <2>4, OtherStep
<1> QED
    BY <1>1, <1>2, <1>3, <1>4, <1>5, <1>6
(* The slots that have nothing to do with updates.                          *)
LEMMA SignalStep ==
    ASSUME UpdatesIInv,
           SignalState \/ SignalRejected \/ SignalService \/ SignalRegistered \/ SignalServers
    PROVE  UpdatesIInv'
<1>1. UNCHANGED updVars /\ todo' = todo /\ up /\ up' = up /\ events # <<>> /\ events' = Tail(events)
    BY DEF SignalState, SignalRejected, SignalService, SignalRegistered, SignalServers, TakesSignal
<1>2. OtherEvents /\ OtherTodo /\ StaysDown
    BY <1>1 DEF OtherEvents, OtherTodo, StaysDown
<1> QED
    BY <1>1, <1>2, OtherStep

(* The clicks that have nothing to do with updates.                         *)
LEMMA UserStep ==
    ASSUME UpdatesIInv,
           \/ ClickConnect \/ OpenSwitch \/ CloseSwitch \/ OpenEdit \/ EditDeleted
           \/ ChooseManaged \/ ChooseSelf \/ ApplyForTrial \/ Refresh \/ BoxRefresh
           \/ \E n \in 1 .. 4 : SelectCard(n) \/ SwitchTransport(n)
           \/ \E a \in Own : AddServer(a)
           \/ \E tok \in Tokens \cup {None} : EditAccepted(tok)
    PROVE  UpdatesIInv'
<1>1. CASE ClickConnect
    <2>1. UNCHANGED updVars /\ events' = events /\ up /\ up' = up
        BY <1>1 DEF ClickConnect, MainWindow, Unboxed, userSame
    <2>2. OtherTodo
        BY <1>1 DEF ClickConnect, OtherTodo
    <2>3. OtherEvents /\ StaysDown
        BY <2>1 DEF OtherEvents, StaysDown
    <2> QED
        BY <2>1, <2>2, <2>3, OtherStep
<1>2. CASE ~ClickConnect
    <2>1. UNCHANGED updVars /\ events' = events /\ todo' = todo /\ up /\ up' = up
        BY <1>2 DEF OpenSwitch, CloseSwitch, OpenEdit, EditDeleted, ChooseManaged, ChooseSelf, ApplyForTrial, Refresh,
                    BoxRefresh, SelectCard, SwitchTransport, AddServer, EditAccepted,
                    MainWindow, Switching, Settings, Unboxed, userSame, queues
    <2>2. OtherEvents /\ OtherTodo /\ StaysDown
        BY <2>1 DEF OtherEvents, OtherTodo, StaysDown
    <2> QED
        BY <2>1, <2>2, OtherStep
<1> QED
    BY <1>1, <1>2

(* The slots of the two signals of the updater.                             *)
LEMMA SlotStep ==
    ASSUME UpdatesIInv, SignalChecked \/ SignalDownloaded
    PROVE  UpdatesIInv'
<1>1. /\ UNCHANGED <<configured, checks, checkBusy, downloads, downloadBusy, installed, verified>>
      /\ UNCHANGED <<todo, up, svcs, lists>> /\ up
      /\ events # <<>> /\ events' = Tail(events)
    BY DEF SignalChecked, SignalDownloaded, TakesSignal, OnChecked, OnDownloaded, deskVars, bridgeVars
<1>2. 1 \in 1 .. Len(events) /\ Head(events) = events[1]
    BY <1>1, LengthIsNat, TailIs DEF UpdatesIInv
<1>3. shown' \in verified' \cup {0} /\ about' \in verified' \cup {-1, 0}
    <2>1. CASE SignalChecked
        <3>1. Head(events).rel \in verified \cup {0}
            BY <1>2, <2>1 DEF UpdatesIInv, SignedOnly, SignalChecked
        <3> QED
            BY <1>1, <2>1, <3>1 DEF SignalChecked, OnChecked
    <2>2. CASE SignalDownloaded
        BY <1>1, <2>2 DEF SignalDownloaded, OnDownloaded, UpdatesIInv, SignedOnly
    <2> QED
        BY <2>1, <2>2
<1>4. /\ IsSequence(events')
      /\ \A n \in 1 .. Len(events') :
             events'[n].t = "checked" => events'[n].rel \in verified' \cup {0}
    <2>1. OtherEvents /\ verified \subseteq verified'
        BY <1>1 DEF OtherEvents
    <2> QED
        BY <2>1, EventsSigned DEF UpdatesIInv, SignedOnly
<1>5. SignedOnly'
    BY <1>1, <1>3, <1>4 DEF UpdatesIInv, SignedOnly
<1> QED
    BY <1>1, <1>4, <1>5 DEF UpdatesIInv, Down

(* The settings dialog and the two boxes, from which checks and downloads   *)
(* start.                                                                   *)
LEMMA SettingsStep ==
    ASSUME UpdatesIInv, OpenSettings \/ CloseSettings \/ CheckAgain \/ UpdateNow \/ BoxUpdate
    PROVE  UpdatesIInv'
<1>1. /\ UNCHANGED <<configured, installed, verified, shown, todo, up>> /\ up
    BY DEF OpenSettings, CloseSettings, CheckAgain, UpdateNow, BoxUpdate, MainWindow, Settings, Unboxed,
           userSame, deskVars, queues
<1>2. Down'
    BY <1>1 DEF Down
<1>3. about' \in verified' \cup {-1, 0}
    BY <1>1 DEF UpdatesIInv, SignedOnly, OpenSettings, CloseSettings, CheckAgain, UpdateNow, BoxUpdate
<1>4. /\ IsSequence(events')
      /\ \A n \in 1 .. Len(events') :
             events'[n].t = "checked" => events'[n].rel \in verified' \cup {0}
    <2>1. CASE UpdateNow \/ BoxUpdate
        BY <1>1, <2>1, EventsSigned DEF UpdateNow, BoxUpdate, StopForDownload, StopClient, OtherEvents,
                                        UpdatesIInv, SignedOnly
    <2>2. CASE OpenSettings \/ CloseSettings \/ CheckAgain
        BY <1>1, <2>2 DEF OpenSettings, CloseSettings, CheckAgain, queues, UpdatesIInv, SignedOnly
    <2> QED
        BY <2>1, <2>2
<1>5. Once(checks', checkBusy', todo', "checkDone")
    <2>1. CASE UNCHANGED <<checks, checkBusy>>
        BY <1>1, <2>1 DEF UpdatesIInv
    <2>2. ASSUME checkBusy # TRUE, checkBusy' = TRUE, NEW e, checks' = Append(checks, e)
          PROVE  Once(checks', checkBusy', todo', "checkDone")
        <3>1. checkBusy = FALSE
            BY <2>2 DEF UpdatesIInv, Once
        <3> QED
            BY <1>1, <2>2, <3>1, OnceStarts DEF UpdatesIInv
    <2> QED
        BY <2>1, <2>2 DEF OpenSettings, CloseSettings, CheckAgain, UpdateNow, BoxUpdate, CheckUpdate
<1>6. /\ Once(downloads', downloadBusy', todo', "downloadDone")
      /\ \A i \in DOMAIN downloads' :
            /\ downloads'[i].rel \in verified'
            /\ downloads'[i].pc = "install" => downloads'[i].got = downloads'[i].rel
    <2>1. CASE UNCHANGED <<downloads, downloadBusy>>
        BY <1>1, <2>1 DEF UpdatesIInv, SignedOnly
    <2>2. ASSUME NEW r \in verified, DownloadAndInstall(r), ~UNCHANGED <<downloads, downloadBusy>>
          PROVE  /\ Once(downloads', downloadBusy', todo', "downloadDone")
                 /\ \A i \in DOMAIN downloads' :
                       /\ downloads'[i].rel \in verified'
                       /\ downloads'[i].pc = "install" => downloads'[i].got = downloads'[i].rel
        <3> DEFINE e == [pc |-> "fetch", rel |-> r, got |-> 0]
        <3>1. /\ downloadBusy = FALSE /\ downloadBusy' = TRUE
              /\ downloads' = Append(downloads, e)
            BY <2>2 DEF DownloadAndInstall, UpdatesIInv, Once
        <3>2. e.rel = r /\ e.pc = "fetch"
            OBVIOUS
        <3> HIDE DEF e
        <3>3. Once(downloads', downloadBusy', todo', "downloadDone") /\ downloads = <<>>
            BY <1>1, <3>1, OnceStarts DEF UpdatesIInv
        <3>4. downloads' = <<e>>
            BY <3>1, <3>3
        <3>5. DOMAIN downloads' = {1} /\ downloads'[1] = e
            BY <3>4
        <3> QED
            BY <1>1, <3>2, <3>3, <3>5
    <2>3. CASE UpdateNow
        <3>1. about \in verified /\ DownloadAndInstall(about)
            BY <2>3 DEF UpdateNow, UpdatesIInv, SignedOnly
        <3> QED
            BY <2>1, <2>2, <3>1
    <2>4. CASE BoxUpdate
        <3>1. shown \in verified /\ DownloadAndInstall(shown)
            BY <2>4 DEF BoxUpdate, UpdatesIInv, SignedOnly
        <3> QED
            BY <2>1, <2>2, <3>1
    <2> QED
        BY <2>1, <2>3, <2>4 DEF OpenSettings, CloseSettings, CheckAgain
<1>7. SignedOnly'
    BY <1>1, <1>3, <1>4, <1>6 DEF UpdatesIInv, SignedOnly
<1>8. IsSequence(todo') /\ configured' \in BOOLEAN
    BY <1>1 DEF UpdatesIInv
<1> QED
    BY <1>2, <1>4, <1>5, <1>6, <1>7, <1>8 DEF UpdatesIInv
(* The notices of threads that have ended (the busy flags fall here).       *)
LEMMA DoneStep ==
    ASSUME UpdatesIInv, BridgeDone
    PROVE  UpdatesIInv'
<1>1. /\ todo # <<>> /\ todo' = Tail(todo) /\ up /\ up' = up /\ events' = events
      /\ UNCHANGED <<configured, checks, downloads, shown, about, installed, verified>>
      /\ checkBusy' = (IF Head(todo).t = "checkDone" THEN FALSE ELSE checkBusy)
      /\ downloadBusy' = (IF Head(todo).t = "downloadDone" THEN FALSE ELSE downloadBusy)
    <2>1. todo # <<>> /\ todo' = Tail(todo) /\ up' = up /\ events' = events
        BY DEF BridgeDone
    <2>2. up
        BY <2>1 DEF UpdatesIInv, Down
    <2>3. CASE Head(todo).t = "checkDone"
        BY <2>1, <2>2, <2>3 DEF BridgeDone, OnCheckDone
    <2>4. CASE Head(todo).t = "downloadDone"
        BY <2>1, <2>2, <2>4 DEF BridgeDone, OnDownloadDone
    <2>5. CASE Head(todo).t \notin {"checkDone", "downloadDone"}
        BY <2>1, <2>2, <2>5 DEF BridgeDone, updVars
    <2> QED
        BY <2>3, <2>4, <2>5
<1>2. Once(checks', checkBusy', todo', "checkDone")
    BY <1>1, OnceTail DEF UpdatesIInv
<1>3. Once(downloads', downloadBusy', todo', "downloadDone")
    BY <1>1, OnceTail DEF UpdatesIInv
<1>4. IsSequence(todo')
    BY <1>1, TailIs DEF UpdatesIInv
<1>5. SignedOnly' /\ Down'
    BY <1>1 DEF UpdatesIInv, SignedOnly, Down
<1> QED
    BY <1>1, <1>2, <1>3, <1>4, <1>5 DEF UpdatesIInv

(* The threads of the check.                                                 *)
LEMMA CheckStep ==
    ASSUME UpdatesIInv, NEW i \in DOMAIN checks, FetchPolicy(i) \/ FetchSignature(i), UNCHANGED deskVars
    PROVE  UpdatesIInv'
<1>1. /\ UNCHANGED <<configured, checkBusy, downloads, downloadBusy, shown, about, installed, up>>
      /\ verified \subseteq verified' /\ up
    <2>1. UNCHANGED <<configured, checkBusy, downloads, downloadBusy, shown, about, installed, up>>
        BY DEF FetchPolicy, FetchSignature, deskVars
    <2>2. verified \subseteq verified'
        BY DEF FetchPolicy, FetchSignature
    <2>3. checks # <<>>
        OBVIOUS
    <2>4. up
        BY <2>3 DEF UpdatesIInv, Down
    <2> QED
        BY <2>1, <2>2, <2>4
<1>2. CASE /\ checks' = [checks EXCEPT ![i] = [pc |-> "signature", rel |-> mirror.policy]]
           /\ UNCHANGED queues /\ verified' = verified
    <2> DEFINE e == [pc |-> "signature", rel |-> mirror.policy]
    <2>1. ReplacedAt(checks, i, e, checks')
        <3>1. PICK S : checks \in Seq(S)
            BY DEF UpdatesIInv, Once, IsSequence
        <3> QED
            BY <1>2, <3>1 DEF ReplacedAt
    <2> HIDE DEF e
    <2>2. Once(checks', checkBusy', todo', "checkDone")
        BY <1>1, <1>2, <2>1, OnceMoves DEF UpdatesIInv, queues
    <2> QED
        BY <1>1, <1>2, <2>2 DEF UpdatesIInv, SignedOnly, Down, queues
<1>3. ASSUME NEW st, NEW r, Report(i, st, r), r \in verified' \cup {0}
      PROVE  UpdatesIInv'
    <2> DEFINE e == [t |-> "checked", st |-> st, rel |-> r]
               d == [t |-> "checkDone"]
    <2>1. checks' = RemoveAt(checks, i) /\ events' = Append(events, e) /\ todo' = Append(todo, d)
        BY <1>3 DEF Report
    <2>2. d.t = "checkDone" /\ e.rel = r
        OBVIOUS
    <2> HIDE DEF d, e
    <2>3. Once(checks', checkBusy', todo', "checkDone")
        BY <1>1, <2>1, <2>2, OnceEnds DEF UpdatesIInv
    <2>4. Once(downloads', downloadBusy', todo', "downloadDone")
        BY <1>1, <2>1, <2>2, OnceAppend DEF UpdatesIInv
    <2>5. IsSequence(todo') /\ IsSequence(events')
        BY <2>1, AppendIs DEF UpdatesIInv
    <2>6. \A n \in 1 .. Len(events') :
             events'[n].t = "checked" => events'[n].rel \in verified' \cup {0}
        <3>1. /\ Len(events') = Len(events) + 1 /\ Len(events) \in Nat
              /\ \A n \in 1 .. Len(events) : events'[n] = events[n]
              /\ events'[Len(events) + 1] = e
            BY <2>1, AppendIs, LengthIsNat DEF UpdatesIInv
        <3>2. \A n \in 1 .. Len(events') : n \in 1 .. Len(events) \/ n = Len(events) + 1
            BY <3>1
        <3>3. e.rel \in verified' \cup {0}
            BY <1>3, <2>2
        <3> QED
            BY <1>1, <3>1, <3>2, <3>3 DEF UpdatesIInv, SignedOnly
    <2>7. SignedOnly'
        BY <1>1, <2>6 DEF UpdatesIInv, SignedOnly
    <2> QED
        BY <1>1, <2>3, <2>4, <2>5, <2>7 DEF UpdatesIInv, Down
<1>4. CASE FetchPolicy(i)
    BY <1>2, <1>3, <1>4 DEF FetchPolicy
<1>5. CASE FetchSignature(i)
    <2> DEFINE r == checks[i].rel
               st == CheckText(r, mirror.sig)
               s == IF st = "ok" THEN r ELSE 0
    <2>1. \/ Report(i, st, s) /\ verified' = (IF mirror.sig = r THEN verified \cup {r} ELSE verified)
          \/ Report(i, "network", 0)
        BY <1>5 DEF FetchSignature
    <2>2. verified' = (IF mirror.sig = r THEN verified \cup {r} ELSE verified) => s \in verified' \cup {0}
        BY DEF CheckText
    <2> HIDE DEF st, s
    <2>3. CASE Report(i, "network", 0)
        BY <1>3, <2>3
    <2>4. CASE Report(i, st, s) /\ verified' = (IF mirror.sig = r THEN verified \cup {r} ELSE verified)
        BY <1>3, <2>2, <2>4
    <2> QED
        BY <2>1, <2>3, <2>4
<1> QED
    BY <1>4, <1>5

(* The threads of the download.                                              *)
LEMMA DownloadStep ==
    ASSUME UpdatesIInv, NEW i \in DOMAIN downloads, Fetch(i) \/ Install(i), UNCHANGED deskVars
    PROVE  UpdatesIInv'
<1>1. /\ UNCHANGED <<configured, checks, checkBusy, downloadBusy, shown, about, verified, up>>
      /\ up
    <2>1. UNCHANGED <<configured, checks, checkBusy, downloadBusy, shown, about, verified, up>>
        BY DEF Fetch, Install, deskVars
    <2>2. downloads # <<>>
        OBVIOUS
    <2>3. up
        BY <2>2 DEF UpdatesIInv, Down
    <2> QED
        BY <2>1, <2>3
<1>2. ASSUME NEW got, Digest(downloads[i].rel, got), UNCHANGED <<queues, installed>>,
             downloads' = [downloads EXCEPT ![i].pc = "install", ![i].got = got]
      PROVE  UpdatesIInv'
    <2> DEFINE e == [[downloads[i] EXCEPT !.pc = "install"] EXCEPT !.got = got]
    <2>0. PICK S : downloads \in Seq(S)
        BY DEF UpdatesIInv, Once, IsSequence
    <2>1. ReplacedAt(downloads, i, e, downloads')
        BY <1>2, <2>0 DEF ReplacedAt
    <2>2. e.rel \in verified /\ e.got = e.rel
        BY <1>2 DEF UpdatesIInv, SignedOnly, Digest
    <2> HIDE DEF e
    <2>3. Once(downloads', downloadBusy', todo', "downloadDone")
        BY <1>1, <1>2, <2>1, OnceMoves DEF UpdatesIInv, queues
    <2>4. SignedOnly'
        BY <1>1, <1>2, <2>1, <2>2 DEF UpdatesIInv, SignedOnly, queues, ReplacedAt
    <2> QED
        BY <1>1, <1>2, <2>3, <2>4 DEF UpdatesIInv, Down, queues
<1>3. ASSUME NEW ok, Finish(i, ok), installed' \in verified \cup {0}
      PROVE  UpdatesIInv'
    <2> DEFINE e == [t |-> "downloaded", ok |-> ok]
               d == [t |-> "downloadDone"]
    <2>1. downloads' = RemoveAt(downloads, i) /\ events' = Append(events, e) /\ todo' = Append(todo, d)
        BY <1>3 DEF Finish
    <2>2. d.t = "downloadDone" /\ e.t = "downloaded"
        OBVIOUS
    <2> HIDE DEF d, e
    <2>3. Once(downloads', downloadBusy', todo', "downloadDone") /\ downloads' = <<>>
        BY <1>1, <2>1, <2>2, OnceEnds DEF UpdatesIInv
    <2>4. Once(checks', checkBusy', todo', "checkDone")
        BY <1>1, <2>1, <2>2, OnceAppend DEF UpdatesIInv
    <2>5. IsSequence(todo')
        BY <2>1, AppendIs DEF UpdatesIInv
    <2>6. /\ IsSequence(events')
          /\ \A n \in 1 .. Len(events') :
                 events'[n].t = "checked" => events'[n].rel \in verified' \cup {0}
        <3>1. OtherEvents
            BY <2>1, <2>2 DEF OtherEvents
        <3> QED
            BY <1>1, <3>1, EventsSigned DEF UpdatesIInv, SignedOnly
    <2>7. SignedOnly'
        BY <1>1, <1>3, <2>3, <2>6 DEF UpdatesIInv, SignedOnly
    <2> QED
        BY <1>1, <2>3, <2>4, <2>5, <2>6, <2>7 DEF UpdatesIInv, Down
<1>4. CASE Fetch(i)
    <2>1. installed' = installed /\ installed' \in verified \cup {0}
        BY <1>4 DEF Fetch, UpdatesIInv, SignedOnly
    <2> QED
        BY <1>2, <1>3, <1>4, <2>1 DEF Fetch
<1>5. CASE Install(i)
    <2>1. installed' \in verified \cup {0} /\ \E ok \in BOOLEAN : Finish(i, ok)
        BY <1>5 DEF Install, UpdatesIInv, SignedOnly
    <2> QED
        BY <1>3, <2>1
<1> QED
    BY <1>4, <1>5

(* The process ends and starts; the vendor publishes.                       *)
LEMMA ProcessStep ==
    ASSUME UpdatesIInv,
           \/ Ends \/ Starts
           \/ \E f \in DOMAIN mirror : Publish(f) /\ UNCHANGED deskVars
    PROVE  UpdatesIInv'
<1>0. Len(<<>>) = 0 /\ DOMAIN <<>> = {}
    OBVIOUS
<1>1. CASE Ends
    <2>1. /\ events' = <<>> /\ todo' = <<>> /\ checks' = <<>> /\ downloads' = <<>>
          /\ checkBusy' = FALSE /\ downloadBusy' = FALSE
          /\ shown' = 0 /\ about' = -1 /\ svcs' = <<>> /\ lists' = <<>>
          /\ UNCHANGED <<configured, installed, verified>>
        BY <1>1 DEF Ends, UpdaterRestarts
    <2>2. Once(checks', checkBusy', todo', "checkDone") /\ Once(downloads', downloadBusy', todo', "downloadDone")
        BY <2>1, OnceEmpty
    <2>3. SignedOnly'
        BY <1>0, <2>1 DEF UpdatesIInv, SignedOnly
    <2> QED
        BY <2>1, <2>2, <2>3, EmptySequence DEF UpdatesIInv, Down
<1>2. CASE Starts
    <2> DEFINE e == [pc |-> "policy", rel |-> 0]
    <2>1. /\ UNCHANGED <<events, todo, configured, downloads, downloadBusy, shown, about, installed, verified>>
          /\ ~up /\ up' = TRUE /\ todo = <<>>
          /\ checks' = (IF configured THEN <<e>> ELSE <<>>) /\ checkBusy' = configured
        BY <1>2 DEF Starts, queues, UpdatesIInv, Down
    <2> HIDE DEF e
    <2>2. Once(checks', checkBusy', todo', "checkDone")
        <3>1. CASE configured = TRUE
            BY <2>1, <3>1, OnceEmpty
        <3>2. CASE configured = FALSE
            BY <2>1, <3>2, OnceEmpty
        <3> QED
            BY <3>1, <3>2 DEF UpdatesIInv
    <2> QED
        BY <2>1, <2>2 DEF UpdatesIInv, SignedOnly, Down
<1>3. ASSUME NEW f, Publish(f), UNCHANGED deskVars PROVE UpdatesIInv'
    BY <1>3 DEF Publish, deskVars, queues, bridgeVars, UpdatesIInv, SignedOnly, Down
<1> QED
    BY <1>1, <1>2, <1>3

(* The first start.                                                         *)
LEMMA UpdatesInit == Init => UpdatesIInv
<1> SUFFICES ASSUME Init PROVE UpdatesIInv
    OBVIOUS
<1>1. /\ events = <<>> /\ todo = <<>> /\ checks = <<>> /\ downloads = <<>> /\ svcs = <<>> /\ lists = <<>>
      /\ checkBusy = FALSE /\ downloadBusy = FALSE /\ configured \in BOOLEAN
      /\ installed = 0 /\ shown = 0 /\ about = -1
    BY DEF Init, UpdaterInit
<1>2. Len(<<>>) = 0 /\ DOMAIN <<>> = {}
    OBVIOUS
<1>3. Once(checks, checkBusy, todo, "checkDone") /\ Once(downloads, downloadBusy, todo, "downloadDone")
    BY <1>1, OnceEmpty
<1>4. SignedOnly
    BY <1>1, <1>2 DEF SignedOnly
<1> QED
    BY <1>1, <1>3, <1>4, EmptySequence DEF UpdatesIInv, Down

(* The updater keeps its invariant through every interleaving of the        *)
(* threads of AppBridge with the window, and through every end of the       *)
(* process (AppBridge.cpp: check_update, download_and_install;              *)
(* update_checker.cpp, update_fetcher.cpp).                                 *)
THEOREM UpdatesInvariant == Spec => []UpdatesIInv
<1>1. UpdatesIInv /\ [Next]_vars => UpdatesIInv'
    <2> SUFFICES ASSUME UpdatesIInv, [Next]_vars PROVE UpdatesIInv'
        OBVIOUS
    <2>1. CASE UNCHANGED vars
        BY <2>1 DEF vars, queues, updVars, deskVars, bridgeVars, UpdatesIInv, SignedOnly, Down
    <2>2. CASE UserInterface
        BY <2>2, SignalStep, SlotStep DEF UserInterface
    <2>3. CASE User
        BY <2>3, UserStep, SettingsStep DEF User
    <2>4. CASE BridgeThread
        BY <2>4, BridgeStep, DoneStep DEF BridgeThread
    <2>5. CASE UpdateThread
        BY <2>5, CheckStep, DownloadStep DEF UpdateThread
    <2> QED
        BY <2>1, <2>2, <2>3, <2>4, <2>5, ServiceStep, ProcessStep DEF Next
<1> QED
    BY <1>1, UpdatesInit, PTL DEF Spec

(* Nothing is installed but the package of a policy whose signature was     *)
(* checked, whatever the server published between the three requests        *)
(* (update_checker.cpp, update_fetcher.cpp).                                *)
THEOREM OnlySignedIsInstalled == Spec => []InstalledWasSigned
<1>1. UpdatesIInv => InstalledWasSigned
    BY DEF UpdatesIInv, SignedOnly, InstalledWasSigned
<1> QED
    BY <1>1, UpdatesInvariant, PTL

(* Two checks, or two downloads, never run at a time: the flag of AppBridge *)
(* is cleared by the notice of the thread, after its last step              *)
(* (AppBridge.cpp).                                                         *)
THEOREM OneUpdateAtATime == Spec => []OneThreadEach
<1>1. UpdatesIInv => OneThreadEach
    BY DEF UpdatesIInv, Once, OneThreadEach
<1> QED
    BY <1>1, UpdatesInvariant, PTL
-----------------------------------------------------------------------------
(* The cards: config.ini, the list of the window and the connection         *)

(* The least element of a set of indices, as IniDoc takes it.               *)
LEMMA LeastProperty ==
  ASSUME NEW S \in SUBSET Nat, S # {}
  PROVE  Least(S) \in S /\ \A j \in S : Least(S) <= j
<1>1. PICK i \in S : \A j \in S : <<j, i>> \notin OpToRel(<, Nat)
  BY NatLessThanWellFounded, WFMin
<1>2. \A j \in S : ~(j < i)
  BY <1>1, Zenon DEF OpToRel
<1>3. \E m \in S : \A j \in S : m <= j
  BY <1>2
<1>4. QED
  BY <1>3, Zenon DEF Least

(* The least number of a set of naturals is the one CardFile takes.         *)
LEMMA MinProperty ==
    ASSUME NEW S \in SUBSET Nat, S # {}
    PROVE  Min(S) \in S /\ \A j \in S : Min(S) <= j
<1>1. \E i \in S : \A j \in S : i <= j
    BY LeastProperty
<1> QED
    BY <1>1, Zenon DEF Min

(* The rank of a number in a finite set: how many are below it.             *)
LEMMA RankIsNat ==
    ASSUME NEW P \in SUBSET Nat, IsFiniteSet(P), NEW n \in P
    PROVE  Rank(P, n) \in Nat /\ Rank(P, n) + 1 \in 1 .. Cardinality(P) /\ Cardinality(P) \in Nat
<1> DEFINE B == {m \in P : m < n}
<1>1. B \in SUBSET P /\ B # P
    OBVIOUS
<1>2. IsFiniteSet(B) /\ Cardinality(B) <= Cardinality(P) /\ Cardinality(P) # Cardinality(B)
    BY <1>1, FS_Subset
<1>3. Cardinality(B) \in Nat /\ Cardinality(P) \in Nat
    BY <1>2, FS_CardinalityType
<1>4. Rank(P, n) = Cardinality(B)
    BY DEF Rank
<1> HIDE DEF B
<1> QED
    BY <1>2, <1>3, <1>4

(* A greater number has a greater rank,                                     *)
LEMMA RanksDiffer ==
    ASSUME NEW P \in SUBSET Nat, IsFiniteSet(P), NEW m \in P, NEW n \in P, m < n
    PROVE  Rank(P, m) < Rank(P, n)
<1> DEFINE A == {k \in P : k < m}
           B == {k \in P : k < n}
<1>1. m \in B /\ m \notin A
    OBVIOUS
<1>2. \A k \in P : k \in Nat
    OBVIOUS
<1>3. ASSUME NEW k \in P, k < m PROVE k < n
    <2>1. k \in Nat /\ m \in Nat /\ n \in Nat
        BY <1>2
    <2> QED
        BY <1>3, <2>1
<1>4. A \in SUBSET B /\ B \in SUBSET P
    BY <1>3
<1>5. IsFiniteSet(B)
    BY <1>4, FS_Subset
<1>6. IsFiniteSet(A) /\ Cardinality(A) <= Cardinality(B) /\ Cardinality(A) # Cardinality(B)
    BY <1>1, <1>4, <1>5, FS_Subset
<1>7. Cardinality(A) \in Nat /\ Cardinality(B) \in Nat
    BY <1>5, <1>6, FS_CardinalityType
<1>8. Rank(P, m) = Cardinality(A) /\ Rank(P, n) = Cardinality(B)
    BY DEF Rank
<1> HIDE DEF A, B
<1> QED
    BY <1>6, <1>7, <1>8

(* and every rank below the size of the set is taken, by counting.          *)
LEMMA Ranked ==
    ASSUME NEW P \in SUBSET Nat, IsFiniteSet(P), NEW i \in 1 .. Cardinality(P)
    PROVE  \E n \in P : Rank(P, n) = i - 1
<1> DEFINE c == Cardinality(P)
           r == [n \in P |-> Rank(P, n) + 1]
<1>1. c \in Nat
    BY FS_CardinalityType
<1>2. r \in [P -> 1 .. c]
    BY RankIsNat
<1>3. \A m, n \in P : m # n => r[m] # r[n]
    <2> SUFFICES ASSUME NEW m \in P, NEW n \in P, m # n PROVE r[m] # r[n]
        OBVIOUS
    <2>1. Rank(P, m) \in Nat /\ Rank(P, n) \in Nat
        BY RankIsNat
    <2>2. m < n \/ n < m
        OBVIOUS
    <2>3. Rank(P, m) # Rank(P, n)
        BY <2>1, <2>2, RanksDiffer
    <2> QED
        BY <2>1, <2>3
<1>4. r \in Injection(P, 1 .. c)
    BY <1>2, <1>3 DEF Injection, IsInjective
<1>5. IsFiniteSet(1 .. c) /\ Cardinality(1 .. c) = c
    BY <1>1, FS_Interval
<1>6. r \in Surjection(P, 1 .. c)
    BY <1>4, <1>5, FS_Injection
<1>7. PICK n \in P : r[n] = i
    BY <1>6 DEF Surjection
<1>8. Rank(P, n) \in Nat /\ Rank(P, n) + 1 = i
    BY <1>7, RankIsNat
<1> QED
    BY <1>8

(* Picked is a sequence of the elements of f at P, all of them and no       *)
(* other.                                                                   *)
LEMMA PickedIs ==
    ASSUME NEW P \in SUBSET Nat, IsFiniteSet(P), NEW f
    PROVE  /\ IsSequence(Picked(f, P)) /\ Len(Picked(f, P)) = Cardinality(P)
           /\ Cardinality(P) \in Nat
           /\ \A i \in 1 .. Cardinality(P) : \E n \in P : Picked(f, P)[i] = f[n]
           /\ \A n \in P : \E i \in 1 .. Cardinality(P) : Picked(f, P)[i] = f[n]
<1> DEFINE c == Cardinality(P)
           At(i) == CHOOSE n \in P : Rank(P, n) = i - 1
<1>1. c \in Nat
    BY FS_CardinalityType
<1>2. ASSUME NEW i \in 1 .. c PROVE At(i) \in P /\ Rank(P, At(i)) = i - 1
    BY Ranked
<1>3. ASSUME NEW n \in P PROVE Rank(P, n) + 1 \in 1 .. c /\ At(Rank(P, n) + 1) = n
    <2> DEFINE i == Rank(P, n) + 1
               m == At(i)
    <2>1. i \in 1 .. c /\ Rank(P, n) \in Nat
        BY RankIsNat
    <2>2. m \in P /\ Rank(P, m) = i - 1
        BY <1>2, <2>1
    <2>3. Rank(P, m) = Rank(P, n)
        BY <2>1, <2>2
    <2> HIDE DEF m
    <2>4. ~(m < n) /\ ~(n < m)
        BY <2>1, <2>2, <2>3, RanksDiffer
    <2>5. m = n
        BY <2>2, <2>4
    <2> QED
        BY <2>1, <2>5 DEF m
<1>4. Picked(f, P) = [i \in 1 .. c |-> f[At(i)]]
    BY DEF Picked
<1> HIDE DEF At, c
<1> DEFINE S == {f[n] : n \in P}
<1>5. Picked(f, P) \in [1 .. c -> S]
    BY <1>2, <1>4
<1>6. Picked(f, P) \in Seq(S) /\ Len(Picked(f, P)) = c
    BY <1>1, <1>5
<1>7. \A i \in 1 .. c : Picked(f, P)[i] = f[At(i)]
    BY <1>4
<1>8. \A n \in P : \E i \in 1 .. c : Picked(f, P)[i] = f[n]
    BY <1>3, <1>7
<1>9. \A i \in 1 .. c : \E n \in P : Picked(f, P)[i] = f[n]
    BY <1>2, <1>7
<1> QED
    BY <1>1, <1>6, <1>8, <1>9 DEF IsSequence, c

-----------------------------------------------------------------------------
(* An entry whose key belongs to the server of its address and whose token  *)
(* is meant for it.                                                         *)
GoodEntry(e) == e \in Entry /\ EntryGenuine(e)

(* A config.ini with such entries only. The sections may have gaps and the  *)
(* count may disagree with them.                                            *)
GoodFile(f) == IsFile(f) /\ \A n \in DOMAIN f.sec : GoodEntry(f.sec[n])

(* What every reader of LoadClientConfig leaves behind: the sections that   *)
(* name a server are 1, 2, ... Count.                                       *)
Tidy(f) == Named(f) = 1 .. f.count

(* A list of such entries (write_server_entries), and the list of the       *)
(* window, which shows only entries with an address.                        *)
GoodList(l) == IsSequence(l) /\ \A i \in 1 .. Len(l) : GoodEntry(l[i])
GoodCards(l) == GoodList(l) /\ \A i \in 1 .. Len(l) : l[i].addr # None

(* The file f with other sections and another count.                        *)
With(f, s, c) == [sec |-> s, count |-> c, mode |-> f.mode, record |-> f.record,
                  svc |-> f.svc, fp |-> f.fp]

(* Only the sections decide whether a file is good.                         *)
LEMMA WithIsGood ==
    ASSUME NEW f, GoodFile(f), NEW s, NEW c \in Nat, IsFiniteSet(DOMAIN s),
           DOMAIN s \subseteq Nat \ {0}, \A n \in DOMAIN s : GoodEntry(s[n])
    PROVE  GoodFile(With(f, s, c))
<1>1. /\ With(f, s, c).sec = s /\ With(f, s, c).count = c /\ With(f, s, c).mode = f.mode
      /\ With(f, s, c).record = f.record /\ With(f, s, c).svc = f.svc /\ With(f, s, c).fp = f.fp
    BY DEF With
<1>2. With(f, s, c) = [sec |-> s, count |-> c, mode |-> f.mode, record |-> f.record,
                       svc |-> f.svc, fp |-> f.fp]
    BY DEF With
<1> HIDE DEF With
<1>3. f.record \subseteq Hired
    BY DEF GoodFile, IsFile
<1> QED
    BY <1>1, <1>2, <1>3 DEF GoodFile, IsFile, GoodEntry

(* A file r with the sections, or the sections and the count, of f          *)
(* replaced.                                                                *)
NewSections(f, s, r) == r = [f EXCEPT !.sec = s]
NewList(f, s, c, r) == r = [f EXCEPT !.sec = s, !.count = c]

(* Both are With.                                                           *)
LEMMA ChangedIs ==
    ASSUME NEW f, IsFile(f), NEW s, NEW c, NEW r
    PROVE  /\ NewSections(f, s, r) => r = With(f, s, f.count)
           /\ NewList(f, s, c, r) => r = With(f, s, c)
<1>1. f = [sec |-> f.sec, count |-> f.count, mode |-> f.mode, record |-> f.record,
           svc |-> f.svc, fp |-> f.fp]
    BY DEF IsFile
<1>2. DOMAIN f = {"sec", "count", "mode", "record", "svc", "fp"}
    BY <1>1
<1>3. NewSections(f, s, r) => r = [x \in DOMAIN f |-> IF x = "sec" THEN s ELSE f[x]]
    BY <1>2 DEF NewSections
<1>4. NewList(f, s, c, r) =>
        r = [x \in DOMAIN f |-> IF x = "count" THEN c ELSE IF x = "sec" THEN s ELSE f[x]]
    BY <1>2 DEF NewList
<1> QED
    BY <1>2, <1>3, <1>4 DEF With

(* What a file that is good consists of.                                    *)
LEMMA Sides ==
    ASSUME NEW f, GoodFile(f)
    PROVE  /\ IsFiniteSet(DOMAIN f.sec) /\ DOMAIN f.sec \subseteq Nat \ {0}
           /\ f.count \in Nat /\ f.record \subseteq Hired
           /\ \A n \in DOMAIN f.sec : GoodEntry(f.sec[n])
           /\ Named(f) \in SUBSET DOMAIN f.sec /\ Named(f) \in SUBSET Nat
           /\ IsFiniteSet(Named(f))
           /\ f = With(f, f.sec, f.count)
<1>1. /\ IsFiniteSet(DOMAIN f.sec) /\ DOMAIN f.sec \subseteq Nat \ {0}
      /\ f.count \in Nat /\ f.record \subseteq Hired
      /\ \A n \in DOMAIN f.sec : GoodEntry(f.sec[n])
    BY DEF GoodFile, IsFile
<1>2. Named(f) \in SUBSET DOMAIN f.sec
    BY DEF Named
<1>3. IsFiniteSet(Named(f))
    BY <1>1, <1>2, FS_Subset
<1>4. f = With(f, f.sec, f.count)
    BY DEF GoodFile, IsFile, With
<1> QED
    BY <1>1, <1>2, <1>3, <1>4

(* The list that is read from a good file, every entry of it from a         *)
(* section.                                                                 *)
LEMMA ServersAreGood ==
    ASSUME NEW f, GoodFile(f)
    PROVE  /\ GoodCards(Servers(f)) /\ Len(Servers(f)) = Cardinality(Named(f))
           /\ Len(Servers(f)) \in Nat
           /\ \A n \in Named(f) : \E i \in 1 .. Len(Servers(f)) : Servers(f)[i] = f.sec[n]
<1>1. /\ IsSequence(Servers(f)) /\ Len(Servers(f)) = Cardinality(Named(f))
      /\ Len(Servers(f)) \in Nat
      /\ \A i \in 1 .. Len(Servers(f)) : \E n \in Named(f) : Servers(f)[i] = f.sec[n]
      /\ \A n \in Named(f) : \E i \in 1 .. Len(Servers(f)) : Servers(f)[i] = f.sec[n]
    <2>1. Named(f) \in SUBSET Nat /\ IsFiniteSet(Named(f))
        BY Sides
    <2> DEFINE P == Named(f)
    <2>2. P \in SUBSET Nat /\ IsFiniteSet(P) /\ Servers(f) = Picked(f.sec, P)
        BY <2>1 DEF Servers
    <2> HIDE DEF P
    <2>3. \A g : /\ IsSequence(Picked(g, P)) /\ Len(Picked(g, P)) = Cardinality(P)
                 /\ Cardinality(P) \in Nat
                 /\ \A i \in 1 .. Cardinality(P) : \E n \in P : Picked(g, P)[i] = g[n]
                 /\ \A n \in P : \E i \in 1 .. Cardinality(P) : Picked(g, P)[i] = g[n]
        BY <2>2, PickedIs
    <2>4. /\ IsSequence(Servers(f)) /\ Len(Servers(f)) = Cardinality(P) /\ Len(Servers(f)) \in Nat
          /\ \A i \in 1 .. Len(Servers(f)) : \E n \in P : Servers(f)[i] = f.sec[n]
          /\ \A n \in P : \E i \in 1 .. Len(Servers(f)) : Servers(f)[i] = f.sec[n]
        <3> DEFINE q == Picked(f.sec, P)
        <3>1. /\ IsSequence(q) /\ Len(q) = Cardinality(P) /\ Cardinality(P) \in Nat
              /\ \A i \in 1 .. Cardinality(P) : \E n \in P : q[i] = f.sec[n]
              /\ \A n \in P : \E i \in 1 .. Cardinality(P) : q[i] = f.sec[n]
            BY <2>3, Zenon
        <3>2. Servers(f) = q
            BY <2>2
        <3> HIDE DEF q
        <3> QED
            BY <3>1, <3>2, Zenon
    <2> QED
        BY <2>4 DEF P
<1>2. \A n \in Named(f) : GoodEntry(f.sec[n]) /\ f.sec[n].addr # None
    BY Sides DEF Named
<1> QED
    BY <1>1, <1>2 DEF GoodCards, GoodList

(* The sections of a list of cards.                                         *)
(* A list written as sections 1 .. n, without another section.              *)
LEMMA ListIsFile ==
    ASSUME NEW f, GoodFile(f), NEW l, GoodCards(l)
    PROVE  GoodFile(With(f, Sections(l), Len(l))) /\ Tidy(With(f, Sections(l), Len(l)))
<1>1. Len(l) \in Nat
    BY LengthIsNat DEF GoodCards, GoodList
<1>2. DOMAIN Sections(l) = 1 .. Len(l) /\ \A n \in 1 .. Len(l) : Sections(l)[n] = l[n]
    BY DEF Sections
<1>3. IsFiniteSet(1 .. Len(l))
    BY <1>1, FS_Interval
<1>4. GoodFile(With(f, Sections(l), Len(l)))
    BY <1>1, <1>2, <1>3, WithIsGood DEF GoodCards, GoodList
<1>5. With(f, Sections(l), Len(l)).sec = Sections(l) /\ With(f, Sections(l), Len(l)).count = Len(l)
    BY DEF With
<1> QED
    BY <1>2, <1>4, <1>5 DEF GoodCards, GoodList, Tidy, Named

(* LoadClientConfig leaves a file in order, whatever gaps it had.           *)
LEMMA ReloadedIsGood ==
    ASSUME NEW f, GoodFile(f)
    PROVE  /\ GoodFile(Reloaded(f)) /\ Tidy(Reloaded(f))
           /\ Tidy(f) => Reloaded(f) = f
<1>1. CASE NeedRebuild(f)
    <2> DEFINE s == Sections(Servers(f))
               c == Len(Servers(f))
    <2>0. Reloaded(f) = [f EXCEPT !.sec = s, !.count = c]
        BY <1>1 DEF Reloaded
    <2> HIDE DEF s, c
    <2>1. Reloaded(f) = With(f, s, c)
        BY <2>0, ChangedIs DEF NewList, GoodFile
    <2>2. GoodCards(Servers(f))
        BY ServersAreGood
    <2>3. GoodFile(With(f, s, c)) /\ Tidy(With(f, s, c))
        BY <2>2, ListIsFile DEF s, c
    <2>4. ~Tidy(f)
        BY <1>1 DEF NeedRebuild, Tidy
    <2> QED
        BY <2>1, <2>3, <2>4
<1>2. CASE ~NeedRebuild(f)
    BY <1>2 DEF Reloaded, NeedRebuild, Tidy
<1> QED
    BY <1>1, <1>2

(* ReadIniFile of the window: the file after it and the list.               *)
LEMMA ReadIsGood ==
    ASSUME NEW f, GoodFile(f), NEW k, ReadIniFile(f, k)
    PROVE  /\ ini' = Reloaded(f) /\ GoodFile(ini') /\ Tidy(ini')
           /\ GoodCards(cards') /\ selected' \in 0 .. Len(cards')
<1>1. /\ ini' = Reloaded(f) /\ cards' = Servers(f)
      /\ selected' = (IF k \in DOMAIN Servers(f) THEN k ELSE Len(Servers(f)))
    BY DEF ReadIniFile
<1>2. GoodCards(Servers(f)) /\ Len(Servers(f)) \in Nat /\ DOMAIN Servers(f) = 1 .. Len(Servers(f))
    BY ServersAreGood, LengthIsNat DEF GoodCards, GoodList
<1> QED
    BY <1>1, <1>2, ReloadedIsGood

(* A missing section reads as blank.                                        *)
LEMMA BlankIsGood == GoodEntry(Blank)
    BY DEF GoodEntry, Blank, Entry, EntryGenuine

(* read_server_entries.                                                     *)
LEMMA EntriesAreGood ==
    ASSUME NEW f, GoodFile(f)
    PROVE  /\ DOMAIN Entries(f) = 1 .. f.count
           /\ \A n \in 1 .. f.count : GoodEntry(Entries(f)[n])
<1>1. \A n \in 1 .. f.count : Entries(f)[n] = (IF n \in DOMAIN f.sec THEN f.sec[n] ELSE Blank)
    BY DEF Entries
<1> QED
    BY <1>1, Sides, BlankIsGood DEF Entries

(* The sections whose address is not in the record of the service.          *)
NotRecorded(f) == {n \in 1 .. f.count : Entries(f)[n].addr \notin f.record}

(* The entries that a delivery keeps are exactly those.                     *)
LEMMA UnrecordedIs ==
    ASSUME NEW f, GoodFile(f)
    PROVE  /\ IsSequence(Unrecorded(f)) /\ Len(Unrecorded(f)) \in Nat
           /\ \A i \in 1 .. Len(Unrecorded(f)) : \E n \in NotRecorded(f) : Unrecorded(f)[i] = Entries(f)[n]
           /\ \A n \in NotRecorded(f) : \E i \in 1 .. Len(Unrecorded(f)) : Unrecorded(f)[i] = Entries(f)[n]
<1> DEFINE P == NotRecorded(f)
<1>1. f.count \in Nat
    BY Sides
<1>2. IsFiniteSet(1 .. f.count)
    BY <1>1, FS_Interval
<1>3. P \in SUBSET (1 .. f.count)
    BY DEF NotRecorded
<1>4. P \in SUBSET Nat
    BY <1>3
<1>5. Unrecorded(f) = Picked(Entries(f), P)
    BY DEF Unrecorded, NotRecorded
<1> HIDE DEF P
<1>6. IsFiniteSet(P)
    BY <1>2, <1>3, FS_Subset
<1>7. \A g : /\ IsSequence(Picked(g, P)) /\ Len(Picked(g, P)) = Cardinality(P)
             /\ Cardinality(P) \in Nat
             /\ \A i \in 1 .. Cardinality(P) : \E n \in P : Picked(g, P)[i] = g[n]
             /\ \A n \in P : \E i \in 1 .. Cardinality(P) : Picked(g, P)[i] = g[n]
    BY <1>4, <1>6, PickedIs
<1> QED
    BY <1>5, <1>7 DEF P

(* They keep their keys and tokens.                                         *)
LEMMA UnrecordedIsGood ==
    ASSUME NEW f, GoodFile(f)
    PROVE  GoodList(Unrecorded(f))
<1>1. \A n \in NotRecorded(f) : GoodEntry(Entries(f)[n])
    BY EntriesAreGood DEF NotRecorded
<1> QED
    BY <1>1, UnrecordedIs DEF GoodList

(* write_server_entries.                                                    *)
LEMMA RewrittenIsGood ==
    ASSUME NEW f, GoodFile(f), NEW l, GoodList(l)
    PROVE  GoodFile(Rewritten(f, l))
<1> DEFINE D == (DOMAIN f.sec \ (1 .. f.count)) \cup (1 .. Len(l))
           s == [n \in D |-> IF n <= Len(l) THEN l[n] ELSE f.sec[n]]
<1>1. Len(l) \in Nat
    BY LengthIsNat DEF GoodList
<1>2. Rewritten(f, l) = With(f, s, Len(l))
    <2>1. NewList(f, s, Len(l), Rewritten(f, l))
        BY DEF Rewritten, NewList
    <2> HIDE DEF s
    <2> QED
        BY <2>1, ChangedIs DEF GoodFile
<1>3. IsFiniteSet(D) /\ D \subseteq Nat \ {0}
    <2>1. IsFiniteSet(1 .. Len(l))
        BY <1>1, FS_Interval
    <2>3. IsFiniteSet(DOMAIN f.sec \ (1 .. f.count))
        BY Sides, FS_Subset
    <2>2. IsFiniteSet(D)
        BY <2>1, <2>3, FS_Union
    <2> QED
        BY <1>1, <2>2, Sides
<1>4. ASSUME NEW n \in D PROVE GoodEntry(s[n])
    <2>1. CASE n <= Len(l)
        <3>1. n \in 1 .. Len(l)
            BY <1>1, <1>3, <2>1
        <3> QED
            BY <2>1, <3>1 DEF GoodList
    <2>2. CASE ~(n <= Len(l))
        <3>1. n \in DOMAIN f.sec
            BY <1>1, <2>2
        <3> QED
            BY <2>2, <3>1, Sides
    <2> QED
        BY <2>1, <2>2
<1>5. DOMAIN s = D
    OBVIOUS
<1> HIDE DEF D, s
<1> QED
    BY <1>1, <1>2, <1>3, <1>4, <1>5, WithIsGood

(* An entry of a delivery: its server's key, and no token or the one that   *)
(* the service issued for all its servers.                                  *)
LEMMA DeliveredIsGood ==
    ASSUME NEW f, GoodFile(f), NEW a \in Hired
    PROVE  /\ GoodEntry(Delivered(f, a)) /\ Delivered(f, a).addr = a
           /\ Delivered(f, a).tcp = KeptTcp(f, a)
<1> DEFINE same == {n \in 1 .. f.count : Entries(f)[n].addr = a}
<1>1. KeptTcp(f, a) \in BOOLEAN
    <2>1. CASE same = {}
        BY <2>1 DEF KeptTcp
    <2>2. CASE same # {}
        <3>1. same \in SUBSET Nat
            OBVIOUS
        <3>2. Min(same) \in same
            BY <2>2, <3>1, MinProperty
        <3>3. Entries(f)[Min(same)] \in Entry
            BY <3>2, EntriesAreGood DEF GoodEntry
        <3>4. Entries(f)[Min(same)].tcp \in BOOLEAN
            BY <3>3 DEF Entry
        <3>5. KeptTcp(f, a) = Entries(f)[Min(same)].tcp
            BY <2>2 DEF KeptTcp
        <3> QED
            BY <3>4, <3>5
    <2> QED
        BY <2>1, <2>2
<1>2. a # None /\ a \in Addrs /\ KeyOf(a) = a /\ TokenOf(a) = Service
    BY CardAssumption, DesktopAssumption DEF CardAssumption, DesktopAssumption, Addrs, KeyOf, TokenOf
<1> DEFINE k == KeptTcp(f, a)
           v == IF f.svc THEN Service ELSE None
<1>3. v \in {Service, None}
    OBVIOUS
<1>7. Delivered(f, a) = [[addr |-> a, token |-> Service, key |-> a, tcp |-> k, managed |-> TRUE]
                            EXCEPT !.token = v]
    BY <1>2 DEF Delivered, Genuine
<1> HIDE DEF k, v
<1>4. Delivered(f, a) = [addr |-> a, token |-> v, key |-> a, tcp |-> k, managed |-> TRUE]
    BY <1>7
<1>5. Delivered(f, a) \in Entry
    BY <1>1, <1>2, <1>3, <1>4 DEF Entry, Tokens, k
<1>6. /\ Delivered(f, a).addr = a /\ Delivered(f, a).token = v /\ Delivered(f, a).key = a
      /\ Delivered(f, a).tcp = k
    BY <1>4
<1> QED
    BY <1>2, <1>3, <1>5, <1>6 DEF GoodEntry, EntryGenuine, k

(* Two lists one after the other.                                           *)
LEMMA JoinedIs ==
    ASSUME NEW s, NEW t, IsSequence(s), IsSequence(t)
    PROVE  /\ IsSequence(s \o t) /\ Len(s \o t) = Len(s) + Len(t)
           /\ \A n \in 1 .. Len(s) : (s \o t)[n] = s[n]
           /\ \A n \in 1 .. Len(t) : (s \o t)[Len(s) + n] = t[n]
<1>1. PICK S : s \in Seq(S)
    BY DEF IsSequence
<1>2. PICK T : t \in Seq(T)
    BY DEF IsSequence
<1>3. s \in Seq(S \cup T) /\ t \in Seq(S \cup T)
    BY <1>1, <1>2, SeqMonotonic
<1>4. s \o t \in Seq(S \cup T)
    BY <1>3
<1>5. Len(s \o t) = Len(s) + Len(t)
    BY <1>3
<1>6. /\ \A n \in 1 .. Len(s) : (s \o t)[n] = s[n]
      /\ \A n \in 1 .. Len(t) : (s \o t)[Len(s) + n] = t[n]
    BY <1>3
<1> QED
    BY <1>4, <1>5, <1>6 DEF IsSequence

(* The entries kept and the entries delivered.                              *)
LEMMA JoinedIsGood ==
    ASSUME NEW s, NEW t, GoodList(s), GoodList(t)
    PROVE  GoodList(s \o t)
<1>1. /\ IsSequence(s \o t) /\ Len(s \o t) = Len(s) + Len(t)
      /\ \A n \in 1 .. Len(s) : (s \o t)[n] = s[n]
      /\ \A n \in 1 .. Len(t) : (s \o t)[Len(s) + n] = t[n]
    BY JoinedIs DEF GoodList
<1>2. Len(s) \in Nat /\ Len(t) \in Nat
    BY LengthIsNat DEF GoodList
<1>3. ASSUME NEW n \in 1 .. Len(s) + Len(t), ~(n <= Len(s))
      PROVE  \E m \in 1 .. Len(t) : n = Len(s) + m
    <2>1. n - Len(s) \in 1 .. Len(t) /\ n = Len(s) + (n - Len(s))
        BY <1>2, <1>3
    <2> QED
        BY <2>1
<1>4. ASSUME NEW n \in 1 .. Len(s) + Len(t) PROVE GoodEntry((s \o t)[n])
    <2>1. CASE n <= Len(s)
        <3>1. n \in 1 .. Len(s)
            BY <1>2, <2>1
        <3> QED
            BY <1>1, <3>1 DEF GoodList
    <2>2. CASE ~(n <= Len(s))
        BY <1>1, <1>3, <2>2 DEF GoodList
    <2> QED
        BY <2>1, <2>2
<1> QED
    BY <1>1, <1>4 DEF GoodList

(* The changes the program makes to one entry: the token is cleared         *)
(* (tokenRejected), the transport is chosen on the card, a token is typed   *)
(* in the dialog, the flag of the service is set, and edit_card writes over *)
(* a section without its Transport and Managed keys.                        *)
TokenForgotten(e, r) == r = [e EXCEPT !["token"] = None]
TcpSet(e, b, r) == r = [e EXCEPT !["tcp"] = b]
Typed(e, t, r) == r = [e EXCEPT !.token = t]
Marked(e, m, r) == r = [e EXCEPT !.managed = m]
PutOver(e, b, m, r) == r = [e EXCEPT !.tcp = b, !.managed = m]

(* None of them mixes two servers.                                          *)
LEMMA EntryChanged ==
    ASSUME NEW e, GoodEntry(e), NEW r
    PROVE  /\ TokenForgotten(e, r) => GoodEntry(r) /\ r.addr = e.addr
           /\ \A b \in BOOLEAN : TcpSet(e, b, r) => GoodEntry(r) /\ r.addr = e.addr
           /\ \A t \in {None, e.token, TokenOf(e.addr)} :
                  Typed(e, t, r) => GoodEntry(r) /\ r.addr = e.addr
           /\ \A m \in BOOLEAN : Marked(e, m, r) => GoodEntry(r) /\ r.addr = e.addr
           /\ \A b, m \in BOOLEAN : PutOver(e, b, m, r) => GoodEntry(r) /\ r.addr = e.addr
<1>1. /\ e = [addr |-> e.addr, token |-> e.token, key |-> e.key, tcp |-> e.tcp, managed |-> e.managed]
      /\ {e.addr, e.key} \subseteq Addrs \cup {None} /\ e.token \in Tokens \cup {None}
      /\ e.tcp \in BOOLEAN /\ e.managed \in BOOLEAN
      /\ EntryGenuine(e)
    BY DEF GoodEntry, Entry
<1>2. DOMAIN e = {"addr", "token", "key", "tcp", "managed"}
    BY <1>1
<1> DEFINE Is(t, b, m) == [addr |-> e.addr, token |-> t, key |-> e.key, tcp |-> b, managed |-> m]
<1>3. ASSUME NEW t \in {None, e.token, TokenOf(e.addr)}, NEW b \in BOOLEAN, NEW m \in BOOLEAN
      PROVE  GoodEntry(Is(t, b, m)) /\ Is(t, b, m).addr = e.addr
    <2>1. Is(t, b, m) \in Entry
        BY <1>1, <1>3, CardAssumption DEF Entry, Tokens, TokenOf, Addrs, CardAssumption
    <2>2. Is(t, b, m).addr = e.addr /\ Is(t, b, m).token = t /\ Is(t, b, m).key = e.key
        OBVIOUS
    <2> HIDE DEF Is
    <2> QED
        BY <1>1, <2>1, <2>2 DEF GoodEntry, EntryGenuine
<1>4. TokenForgotten(e, r) => r = Is(None, e.tcp, e.managed)
    <2>1. TokenForgotten(e, r) => r = [x \in DOMAIN e |-> IF x = "token" THEN None ELSE e[x]]
        BY <1>2 DEF TokenForgotten
    <2> QED
        BY <1>2, <2>1
<1>5. ASSUME NEW b \in BOOLEAN PROVE TcpSet(e, b, r) => r = Is(e.token, b, e.managed)
    <2>1. TcpSet(e, b, r) => r = [x \in DOMAIN e |-> IF x = "tcp" THEN b ELSE e[x]]
        BY <1>2 DEF TcpSet
    <2> QED
        BY <1>2, <2>1
<1>6. ASSUME NEW t PROVE Typed(e, t, r) => r = Is(t, e.tcp, e.managed)
    <2>1. Typed(e, t, r) => r = [x \in DOMAIN e |-> IF x = "token" THEN t ELSE e[x]]
        BY <1>2 DEF Typed
    <2> QED
        BY <1>2, <2>1
<1>7. ASSUME NEW b \in BOOLEAN, NEW m \in BOOLEAN PROVE PutOver(e, b, m, r) => r = Is(e.token, b, m)
    <2>1. PutOver(e, b, m, r) =>
            r = [x \in DOMAIN e |-> IF x = "managed" THEN m ELSE IF x = "tcp" THEN b ELSE e[x]]
        BY <1>2 DEF PutOver
    <2> QED
        BY <1>2, <2>1
<1>8. ASSUME NEW m \in BOOLEAN PROVE Marked(e, m, r) => r = Is(e.token, e.tcp, m)
    <2>1. Marked(e, m, r) => r = [x \in DOMAIN e |-> IF x = "managed" THEN m ELSE e[x]]
        BY <1>2 DEF Marked
    <2> QED
        BY <1>2, <2>1
<1> HIDE DEF Is
<1> QED
    BY <1>1, <1>3, <1>4, <1>5, <1>6, <1>7, <1>8

(* One section is written, the others stay.                                 *)
(* One section of a good file replaced or added.                            *)
LEMMA OneSection ==
    ASSUME NEW f, GoodFile(f), NEW n \in Nat \ {0}, NEW s, NEW c \in Nat,
           DOMAIN s = DOMAIN f.sec \cup {n}, GoodEntry(s[n]),
           \A m \in DOMAIN f.sec : m # n => s[m] = f.sec[m]
    PROVE  /\ GoodFile(With(f, s, c))
           /\ c = f.count /\ (IF n \in DOMAIN f.sec THEN f.sec[n].addr ELSE None) = s[n].addr
                 => (Tidy(f) => Tidy(With(f, s, c)))
<1>1. IsFiniteSet(DOMAIN s) /\ DOMAIN s \subseteq Nat \ {0}
    BY Sides, FS_AddElement
<1>2. \A m \in DOMAIN s : GoodEntry(s[m])
    BY Sides
<1>3. GoodFile(With(f, s, c))
    BY <1>1, <1>2, WithIsGood
<1>4. With(f, s, c).sec = s /\ With(f, s, c).count = c
    BY DEF With
<1>5. (IF n \in DOMAIN f.sec THEN f.sec[n].addr ELSE None) = s[n].addr
        => Named(With(f, s, c)) = Named(f)
    BY <1>4 DEF Named
<1> QED
    BY <1>3, <1>4, <1>5 DEF Tidy

(* One key of one section.                                                  *)
KeyPut(e, k, v, r) == r = [e EXCEPT ![k] = v]
(* The section as it is read.                                               *)
SectionOf(f, n) == IF n \in DOMAIN f.sec THEN f.sec[n] ELSE Blank

(* A file in order stays in order when the address of the section stays.    *)
LEMMA PutIsGood ==
    ASSUME NEW f, GoodFile(f), NEW n \in Nat \ {0}, NEW k, NEW v,
           NEW r, KeyPut(SectionOf(f, n), k, v, r), GoodEntry(r), r.addr = SectionOf(f, n).addr
    PROVE  GoodFile(WithKey(f, n, k, v)) /\ (Tidy(f) => Tidy(WithKey(f, n, k, v)))
<1> DEFINE D == DOMAIN f.sec \cup {n}
           s == [m \in D |-> IF m = n THEN [SectionOf(f, m) EXCEPT ![k] = v] ELSE SectionOf(f, m)]
<1>1. WithKey(f, n, k, v) = With(f, s, f.count)
    <2>1. NewSections(f, s, WithKey(f, n, k, v))
        BY DEF WithKey, NewSections, SectionOf
    <2> HIDE DEF s
    <2> QED
        BY <2>1, ChangedIs DEF GoodFile
<1>2. DOMAIN s = D /\ s[n] = [SectionOf(f, n) EXCEPT ![k] = v]
      /\ \A m \in DOMAIN f.sec : m # n => s[m] = f.sec[m]
    BY DEF SectionOf
<1>3. s[n] = r
    BY <1>2 DEF KeyPut
<1>4. (IF n \in DOMAIN f.sec THEN f.sec[n].addr ELSE None) = s[n].addr
    BY <1>3 DEF SectionOf, Blank
<1>5. DOMAIN s = D /\ GoodEntry(s[n])
    BY <1>2, <1>3
<1>6. \A m \in DOMAIN f.sec : m # n => s[m] = f.sec[m]
    BY <1>2
<1>7. f.count \in Nat
    BY Sides
<1> HIDE DEF s
<1>8. GoodFile(With(f, s, f.count)) /\ (Tidy(f) => Tidy(With(f, s, f.count)))
    BY <1>4, <1>5, <1>6, <1>7, OneSection
<1> QED
    BY <1>1, <1>8

(* The transport switched on a card, or the token of a card cleared: the    *)
(* section is one of the list, so the file stays in order.                  *)
LEMMA KeyIsGood ==
    ASSUME NEW f, GoodFile(f), NEW n \in Nat \ {0}
    PROVE  /\ GoodFile(WithKey(f, n, "token", None)) /\ (Tidy(f) => Tidy(WithKey(f, n, "token", None)))
           /\ \A b \in BOOLEAN : /\ GoodFile(WithKey(f, n, "tcp", b))
                                 /\ Tidy(f) => Tidy(WithKey(f, n, "tcp", b))
<1> DEFINE e == SectionOf(f, n)
<1>1. GoodEntry(e)
    BY Sides, BlankIsGood DEF SectionOf
<1> HIDE DEF e
<1>2. GoodFile(WithKey(f, n, "token", None)) /\ (Tidy(f) => Tidy(WithKey(f, n, "token", None)))
    <2> DEFINE r == [e EXCEPT !["token"] = None]
    <2>1. TokenForgotten(e, r) /\ KeyPut(e, "token", None, r)
        BY DEF TokenForgotten, KeyPut
    <2> HIDE DEF r
    <2>2. GoodEntry(r) /\ r.addr = e.addr
        BY <1>1, <2>1, EntryChanged
    <2> QED
        BY <2>1, <2>2, PutIsGood DEF e
<1>3. ASSUME NEW b \in BOOLEAN
      PROVE  GoodFile(WithKey(f, n, "tcp", b)) /\ (Tidy(f) => Tidy(WithKey(f, n, "tcp", b)))
    <2> DEFINE r == [e EXCEPT !["tcp"] = b]
    <2>1. TcpSet(e, b, r) /\ KeyPut(e, "tcp", b, r)
        BY DEF TcpSet, KeyPut
    <2> HIDE DEF r
    <2>2. GoodEntry(r) /\ r.addr = e.addr
        BY <1>1, <2>1, EntryChanged
    <2> QED
        BY <2>1, <2>2, PutIsGood DEF e
<1> QED
    BY <1>2, <1>3

(* edit_card, accepted. The window reads the file again at once.            *)
LEMMA EditedIsGood ==
    ASSUME NEW f, GoodFile(f), NEW n \in Nat \ {0}, NEW e, GoodEntry(e)
    PROVE  GoodFile(WithEdited(f, n, e))
<1> DEFINE D == DOMAIN f.sec \cup {n}
           at == IF n \in DOMAIN f.sec THEN f.sec[n] ELSE Blank
           put == [e EXCEPT !.tcp = at.tcp, !.managed = at.managed]
           s == [m \in D |-> IF m = n THEN put ELSE f.sec[m]]
<1>1. WithEdited(f, n, e) = With(f, s, f.count)
    <2>1. NewSections(f, s, WithEdited(f, n, e))
        BY DEF WithEdited, NewSections
    <2> HIDE DEF s
    <2> QED
        BY <2>1, ChangedIs DEF GoodFile
<1>2. DOMAIN s = D /\ s[n] = put /\ \A m \in DOMAIN f.sec : m # n => s[m] = f.sec[m]
    OBVIOUS
<1>3. GoodEntry(at)
    BY Sides, BlankIsGood
<1>4. PutOver(e, at.tcp, at.managed, put)
    BY DEF PutOver
<1> HIDE DEF at, put, s
<1>5. at.tcp \in BOOLEAN /\ at.managed \in BOOLEAN
    BY <1>3 DEF GoodEntry, Entry
<1>6. GoodEntry(put)
    BY <1>4, <1>5, EntryChanged
<1> QED
    BY <1>1, <1>2, <1>6, Sides, OneSection

(* edit_card, deleted. A gap may stay until the file is read again.         *)
LEMMA DeletedIsGood ==
    ASSUME NEW f, GoodFile(f), NEW n
    PROVE  GoodFile(WithDeleted(f, n))
<1> DEFINE D == DOMAIN f.sec \ {n}
           s == [m \in D |-> f.sec[m]]
           c == IF f.count = 0 THEN 0 ELSE f.count - 1
<1>1. WithDeleted(f, n) = With(f, s, c)
    <2>1. NewList(f, s, c, WithDeleted(f, n))
        BY DEF WithDeleted, NewList
    <2> HIDE DEF s, c
    <2> QED
        BY <2>1, ChangedIs DEF GoodFile
<1>2. c \in Nat
    BY Sides
<1>3. IsFiniteSet(D)
    BY Sides, FS_Subset
<1>4. DOMAIN s = D /\ \A m \in D : s[m] = f.sec[m]
    OBVIOUS
<1> HIDE DEF s, c
<1> QED
    BY <1>1, <1>2, <1>3, <1>4, Sides, WithIsGood

(* write_edit puts the section after the last one, which is free in a file  *)
(* in order.                                                                *)
LEMMA AddedIsGood ==
    ASSUME NEW f, GoodFile(f), NEW e, GoodEntry(e)
    PROVE  GoodFile(WithAdded(f, e))
<1> DEFINE n == f.count + 1
           D == DOMAIN f.sec \cup {n}
           s == [m \in D |-> IF m = n THEN e ELSE f.sec[m]]
<1>0. f.count \in Nat
    BY Sides
<1>1. WithAdded(f, e) = With(f, s, n)
    <2>1. NewList(f, s, n, WithAdded(f, e))
        BY DEF WithAdded, NewList
    <2> HIDE DEF s
    <2> QED
        BY <2>1, ChangedIs DEF GoodFile
<1>2. DOMAIN s = D /\ s[n] = e /\ \A m \in DOMAIN f.sec : m # n => s[m] = f.sec[m]
    OBVIOUS
<1>3. n \in Nat \ {0}
    BY <1>0
<1> HIDE DEF s, n
<1> QED
    BY <1>1, <1>2, <1>3, OneSection

(* A file that differs only outside the sections.                           *)
Relabelled(f, r) ==
    r = [sec |-> f.sec, count |-> f.count, mode |-> r.mode, record |-> r.record,
         svc |-> r.svc, fp |-> r.fp]
(* The ways it does: the record of the service, its mode, its fingerprint,  *)
(* its token.                                                               *)
NewRecord(f, R, r) == r = [f EXCEPT !.record = R]
NewMode(f, m, r) == r = [f EXCEPT !.mode = m]
NewFingerprint(f, v, r) == r = [f EXCEPT !.fp = v]
NewToken(f, v, w, r) == r = [f EXCEPT !.fp = v, !.svc = w]

(* It is as good as before.                                                 *)
LEMMA RelabelledIs ==
    ASSUME NEW f, GoodFile(f), NEW r
    PROVE  /\ Relabelled(f, r) /\ r.record \subseteq Hired => GoodFile(r) /\ (Tidy(f) => Tidy(r))
           /\ \A R : NewRecord(f, R, r) => Relabelled(f, r) /\ r.record = R
           /\ \A m : NewMode(f, m, r) => Relabelled(f, r) /\ r.record = f.record
           /\ \A v : NewFingerprint(f, v, r) => Relabelled(f, r) /\ r.record = f.record
           /\ \A v, w : NewToken(f, v, w, r) => Relabelled(f, r) /\ r.record = f.record
<1>1. /\ f = [sec |-> f.sec, count |-> f.count, mode |-> f.mode, record |-> f.record,
              svc |-> f.svc, fp |-> f.fp]
      /\ DOMAIN f = {"sec", "count", "mode", "record", "svc", "fp"}
    BY DEF GoodFile, IsFile
<1>2. ASSUME Relabelled(f, r), r.record \subseteq Hired PROVE GoodFile(r) /\ (Tidy(f) => Tidy(r))
    <2>1. r.sec = f.sec /\ r.count = f.count
        BY <1>2 DEF Relabelled
    <2>2. r = [sec |-> r.sec, count |-> r.count, mode |-> r.mode, record |-> r.record,
               svc |-> r.svc, fp |-> r.fp]
        BY <1>2, <2>1 DEF Relabelled
    <2> QED
        BY <1>2, <2>1, <2>2 DEF GoodFile, IsFile, Tidy, Named
<1>3. ASSUME NEW R, NewRecord(f, R, r) PROVE Relabelled(f, r) /\ r.record = R
    <2>1. r = [x \in DOMAIN f |-> IF x = "record" THEN R ELSE f[x]]
        BY <1>1, <1>3 DEF NewRecord
    <2> QED
        BY <1>1, <2>1 DEF Relabelled
<1>4. ASSUME NEW m, NewMode(f, m, r) PROVE Relabelled(f, r) /\ r.record = f.record
    <2>1. r = [x \in DOMAIN f |-> IF x = "mode" THEN m ELSE f[x]]
        BY <1>1, <1>4 DEF NewMode
    <2> QED
        BY <1>1, <2>1 DEF Relabelled
<1>5. ASSUME NEW v, NewFingerprint(f, v, r) PROVE Relabelled(f, r) /\ r.record = f.record
    <2>1. r = [x \in DOMAIN f |-> IF x = "fp" THEN v ELSE f[x]]
        BY <1>1, <1>5 DEF NewFingerprint
    <2> QED
        BY <1>1, <2>1 DEF Relabelled
<1>6. ASSUME NEW v, NEW w, NewToken(f, v, w, r) PROVE Relabelled(f, r) /\ r.record = f.record
    <2>1. r = [x \in DOMAIN f |-> IF x = "svc" THEN w ELSE IF x = "fp" THEN v ELSE f[x]]
        BY <1>1, <1>6 DEF NewToken
    <2> QED
        BY <1>1, <2>1 DEF Relabelled
<1> QED
    BY <1>2, <1>3, <1>4, <1>5, <1>6

(* A list written over a file whose sections are 1, 2, 3... is the file.    *)
(* The sections after write_server_entries.                                 *)
LEMMA RewrittenIs ==
    ASSUME NEW f, GoodFile(f), NEW l, GoodList(l)
    PROVE  /\ Rewritten(f, l).count = Len(l) /\ Len(l) \in Nat
           /\ \A n \in 1 .. Len(l) : Entries(Rewritten(f, l))[n] = l[n]
           /\ Tidy(f) /\ GoodCards(l) => Tidy(Rewritten(f, l))
<1> DEFINE D == (DOMAIN f.sec \ (1 .. f.count)) \cup (1 .. Len(l))
           s == [n \in D |-> IF n <= Len(l) THEN l[n] ELSE f.sec[n]]
           r == With(f, s, Len(l))
<1>1. Len(l) \in Nat
    BY LengthIsNat DEF GoodList
<1>2. Rewritten(f, l) = r
    <2>1. NewList(f, s, Len(l), Rewritten(f, l))
        BY DEF Rewritten, NewList
    <2> HIDE DEF s
    <2> QED
        BY <2>1, ChangedIs DEF GoodFile
<1>3. /\ DOMAIN s = D /\ \A n \in 1 .. Len(l) : s[n] = l[n]
      /\ \A n \in D : ~(n <= Len(l)) => s[n] = f.sec[n]
    BY <1>1
<1>4. r.sec = s /\ r.count = Len(l)
    BY DEF With
<1> HIDE DEF s, r
<1>5. \A n \in 1 .. Len(l) : Entries(r)[n] = l[n]
    BY <1>3, <1>4 DEF Entries
<1>6. ASSUME Tidy(f), GoodCards(l) PROVE Tidy(r)
    <2>1. ASSUME NEW n \in D, ~(n <= Len(l)) PROVE s[n].addr = None
        <3>1. n \in DOMAIN f.sec /\ n \notin 1 .. f.count
            BY <1>1, <2>1
        <3>2. f.sec[n].addr = None
            BY <1>6, <3>1 DEF Tidy, Named
        <3> QED
            BY <1>3, <2>1, <3>2
    <2>2. ASSUME NEW n \in D, n <= Len(l) PROVE n \in 1 .. Len(l)
        BY <1>1, <2>2, Sides
    <2>3. \A n \in 1 .. Len(l) : s[n].addr # None
        BY <1>3, <1>6 DEF GoodCards
    <2>4. Named(r) = 1 .. Len(l)
        BY <1>3, <1>4, <2>1, <2>2, <2>3 DEF Named
    <2> QED
        BY <1>4, <2>4 DEF Tidy
<1> QED
    BY <1>1, <1>2, <1>4, <1>5, <1>6

(* The entries of a delivery, each with the transport of its card.          *)
NewServers(f, l) == [i \in 1 .. Len(l) |-> Delivered(f, l[i])]

(* They belong to their servers.                                            *)
LEMMA NewServersAreGood ==
    ASSUME NEW f, GoodFile(f), NEW l \in Seq(Hired)
    PROVE  /\ GoodCards(NewServers(f, l)) /\ Len(NewServers(f, l)) = Len(l)
           /\ \A i \in 1 .. Len(l) : /\ NewServers(f, l)[i] = Delivered(f, l[i])
                                     /\ l[i] \in Hired
<1>1. \A i \in 1 .. Len(l) : l[i] \in Hired
    OBVIOUS
<1>2. \A i \in 1 .. Len(l) :
          /\ NewServers(f, l)[i] = Delivered(f, l[i])
          /\ GoodEntry(Delivered(f, l[i])) /\ Delivered(f, l[i]).addr = l[i]
    BY <1>1, DeliveredIsGood DEF NewServers
<1>3. IsSequence(NewServers(f, l)) /\ Len(NewServers(f, l)) = Len(l)
    <2> DEFINE S == {Delivered(f, l[i]) : i \in 1 .. Len(l)}
    <2>1. NewServers(f, l) \in [1 .. Len(l) -> S]
        BY DEF NewServers
    <2>2. Len(l) \in Nat
        OBVIOUS
    <2> HIDE DEF S
    <2>3. NewServers(f, l) \in Seq(S) /\ Len(NewServers(f, l)) = Len(l)
        BY <2>1, <2>2
    <2> QED
        BY <2>3 DEF IsSequence
<1>4. None \notin Hired
    BY CardAssumption DEF CardAssumption, Addrs
<1> QED
    BY <1>1, <1>2, <1>3, <1>4 DEF GoodCards, GoodList

(* apply_managed_servers.                                                   *)
LEMMA DeliveryIs ==
    ASSUME NEW f, GoodFile(f), NEW l \in Seq(Hired)
    PROVE  \E r : /\ GoodList(Unrecorded(f) \o NewServers(f, l))
                  /\ r = Rewritten(f, Unrecorded(f) \o NewServers(f, l))
                  /\ Relabelled(r, WithDelivery(f, l))
                  /\ GoodFile(r) /\ GoodFile(WithDelivery(f, l))
<1> DEFINE r == Rewritten(f, Unrecorded(f) \o NewServers(f, l))
           d == WithDelivery(f, l)
<1>1. GoodList(Unrecorded(f) \o NewServers(f, l))
    BY UnrecordedIsGood, NewServersAreGood, JoinedIsGood DEF GoodCards
<1>2. GoodFile(r)
    BY <1>1, RewrittenIsGood
<1>3. NewRecord(r, Range(l), d)
    BY DEF WithDelivery, NewServers, NewRecord
<1>4. Range(l) \subseteq Hired
    BY DEF Range
<1> HIDE DEF d
<1>5. Relabelled(r, d) /\ GoodFile(d)
    BY <1>2, <1>3, <1>4, RelabelledIs
<1> QED
    BY <1>1, <1>2, <1>5 DEF d

(* remove_managed_cards.                                                    *)
LEMMA WithoutManagedIsGood ==
    ASSUME NEW f, GoodFile(f)
    PROVE  GoodFile(WithoutManaged(f))
    BY UnrecordedIsGood, RewrittenIsGood DEF WithoutManaged

(* A delivery to a file in order loses no entry of the user's own, and      *)
(* takes the keys, tokens and transports of no other. In a file with gaps a *)
(* section beyond the count would be lost: the numbers of the sections are  *)
(* part of the argument.                                                    *)
LEMMA KeptIsKept ==
    ASSUME NEW f, GoodFile(f), Tidy(f), NEW l \in Seq(Hired)
    PROVE  DeliveryKeeps(f, Reloaded(WithDelivery(f, l)))
<1> DEFINE U == Unrecorded(f)
           N == NewServers(f, l)
           d == WithDelivery(f, l)
           P == NotRecorded(f)
<1>1. /\ IsSequence(U) /\ Len(U) \in Nat
      /\ \A i \in 1 .. Len(U) : \E n \in P : U[i] = Entries(f)[n]
      /\ \A n \in P : \E i \in 1 .. Len(U) : U[i] = Entries(f)[n]
    BY UnrecordedIs
<1>2. \A n \in 1 .. f.count : Entries(f)[n].addr # None
    BY DEF Tidy, Named, Entries
<1>3. GoodCards(U \o N) /\ Len(U \o N) = Len(U) + Len(l) /\ Len(l) \in Nat
      /\ (\A i \in 1 .. Len(U) : (U \o N)[i] = U[i])
      /\ (\A i \in 1 .. Len(l) : (U \o N)[Len(U) + i] = Delivered(f, l[i]) /\ l[i] \in Hired)
    <2>1. /\ GoodCards(N) /\ Len(N) = Len(l)
          /\ \A i \in 1 .. Len(l) : N[i] = Delivered(f, l[i]) /\ l[i] \in Hired
        BY NewServersAreGood
    <2>2. GoodCards(U)
        <3>1. \A n \in P : Entries(f)[n].addr # None
            BY <1>2 DEF NotRecorded
        <3>2. GoodList(U)
            BY UnrecordedIsGood
        <3> HIDE DEF U, P
        <3> QED
            BY <1>1, <3>1, <3>2 DEF GoodCards
    <2>3. Len(l) \in Nat
        OBVIOUS
    <2> HIDE DEF U, N
    <2>4. /\ GoodList(U \o N) /\ Len(U \o N) = Len(U) + Len(N)
          /\ \A i \in 1 .. Len(U) : (U \o N)[i] = U[i]
          /\ \A i \in 1 .. Len(N) : (U \o N)[Len(U) + i] = N[i]
        BY <2>1, <2>2, JoinedIs, JoinedIsGood DEF GoodCards, GoodList
    <2>5. ASSUME NEW i \in 1 .. Len(U \o N) PROVE (U \o N)[i].addr # None
        <3>1. CASE i <= Len(U)
            BY <1>1, <2>2, <2>4, <3>1 DEF GoodCards
        <3>2. CASE ~(i <= Len(U))
            <4>1. i - Len(U) \in 1 .. Len(N) /\ i = Len(U) + (i - Len(U))
                BY <1>1, <2>1, <2>3, <2>4, <3>2
            <4>2. (U \o N)[i] = N[i - Len(U)]
                BY <2>4, <4>1
            <4> QED
                BY <2>1, <4>1, <4>2 DEF GoodCards
        <3> QED
            BY <3>1, <3>2
    <2> QED
        BY <2>1, <2>3, <2>4, <2>5 DEF GoodCards
<1>4. /\ Reloaded(d) = d /\ DOMAIN Entries(d) = 1 .. Len(U \o N)
      /\ \A i \in 1 .. Len(U \o N) : Entries(d)[i] = (U \o N)[i]
    <2> DEFINE r == Rewritten(f, U \o N)
    <2>1. GoodFile(r) /\ Relabelled(r, d) /\ GoodFile(d)
        BY DeliveryIs
    <2> HIDE DEF U, N, d
    <2>2. /\ r.count = Len(U \o N) /\ Tidy(r)
          /\ \A i \in 1 .. Len(U \o N) : Entries(r)[i] = (U \o N)[i]
        BY <1>3, RewrittenIs DEF GoodCards
    <2> HIDE DEF r
    <2>3. d.sec = r.sec /\ d.count = r.count
        BY <2>1 DEF Relabelled
    <2>4. Tidy(d)
        BY <2>2, <2>3 DEF Tidy, Named
    <2>5. Entries(d) = Entries(r) /\ DOMAIN Entries(r) = 1 .. r.count
        BY <2>3 DEF Entries
    <2> QED
        BY <2>1, <2>2, <2>4, <2>5, ReloadedIsGood
<1>5. ASSUME NEW e \in Range(Entries(f)), e.addr \in Own PROVE e \in Range(Entries(d))
    <2>1. PICK n \in 1 .. f.count : e = Entries(f)[n]
        BY DEF Range, Entries
    <2>2. e.addr \notin f.record
        BY <1>5, Sides, CardAssumption DEF CardAssumption
    <2>3. n \in P
        BY <2>1, <2>2 DEF NotRecorded
    <2>4. PICK i \in 1 .. Len(U) : U[i] = e
        BY <1>1, <2>1, <2>3
    <2> HIDE DEF U, N, d, P
    <2>5. i \in 1 .. Len(U \o N)
        BY <1>1, <1>3
    <2>6. Entries(d)[i] = e
        BY <1>3, <1>4, <2>4, <2>5
    <2> QED
        BY <1>4, <2>5, <2>6 DEF Range
<1>6. ASSUME NEW e \in Range(Entries(d)), e.addr \in Hired
      PROVE  LET was == {n \in 1 .. f.count : Entries(f)[n].addr = e.addr}
             IN  was # {} => \E n \in was : Entries(f)[n].tcp = e.tcp
    <2> DEFINE was == {n \in 1 .. f.count : Entries(f)[n].addr = e.addr}
    <2>1. PICK i \in 1 .. Len(U \o N) : e = (U \o N)[i]
        BY <1>4 DEF Range
    <2>2. CASE i <= Len(U)
        <3>1. i \in 1 .. Len(U)
            BY <1>1, <2>2
        <3>2. PICK n \in P : U[i] = Entries(f)[n]
            BY <1>1, <3>1
        <3>3. e = Entries(f)[n]
            BY <1>3, <2>1, <3>1, <3>2
        <3>4. n \in was /\ Entries(f)[n].tcp = e.tcp
            BY <3>2, <3>3 DEF NotRecorded
        <3> QED
            BY <3>4
    <2>3. CASE ~(i <= Len(U))
        <3> DEFINE j == i - Len(U)
        <3>1. j \in 1 .. Len(l) /\ i = Len(U) + j
            BY <1>1, <1>3, <2>3
        <3>2. e = Delivered(f, l[j]) /\ l[j] \in Hired
            BY <1>3, <2>1, <3>1
        <3> HIDE DEF j
        <3>3. e.addr = l[j] /\ e.tcp = KeptTcp(f, e.addr)
            BY <3>2, DeliveredIsGood
        <3>4. ASSUME was # {} PROVE \E n \in was : Entries(f)[n].tcp = e.tcp
            <4>1. was \in SUBSET Nat
                OBVIOUS
            <4>2. Min(was) \in was
                BY <3>4, <4>1, MinProperty
            <4>3. KeptTcp(f, e.addr) = Entries(f)[Min(was)].tcp
                BY <3>4 DEF KeptTcp
            <4> QED
                BY <3>3, <4>2, <4>3
        <3> QED
            BY <3>4
    <2> QED
        BY <2>2, <2>3
<1> QED
    BY <1>4, <1>5, <1>6 DEF DeliveryKeeps

(* The snapshot of the file that the client application works with.         *)
GoodConfig(c) ==
    /\ c = [servers |-> c.servers, token |-> c.token, mode |-> c.mode, record |-> c.record,
            svc |-> c.svc, fp |-> c.fp]
    /\ GoodCards(c.servers) /\ c.record \subseteq Hired

(* SaveClientConfig writes the snapshot over whatever the file has become;  *)
(* each entry of it is whole, and the file is in order. (It may lack cards  *)
(* that were added since: CardsStay is not kept, and is not claimed.)       *)
LEMMA SavedIsGood ==
    ASSUME NEW f, GoodFile(f), NEW c, GoodConfig(c)
    PROVE  GoodFile(Saved(f, c)) /\ Tidy(Saved(f, c))
<1> DEFINE l == c.servers
           s == [n \in 1 .. Len(l) |-> [l[n] EXCEPT !.managed = Flag(f, n)]]
           r == Saved(f, c)
<1>1. Len(l) \in Nat
    BY LengthIsNat DEF GoodConfig, GoodCards, GoodList
<1>2. /\ r.sec = s /\ r.count = Len(l) /\ r.record = c.record
      /\ r = [sec |-> r.sec, count |-> r.count, mode |-> r.mode, record |-> r.record,
              svc |-> r.svc, fp |-> r.fp]
    BY DEF Saved
<1>3. ASSUME NEW n \in 1 .. Len(l) PROVE GoodEntry(s[n]) /\ s[n].addr # None
    <2>1. GoodEntry(l[n]) /\ l[n].addr # None
        BY DEF GoodConfig, GoodCards, GoodList
    <2>2. Flag(f, n) \in BOOLEAN
        BY Sides DEF Flag, GoodEntry, Entry
    <2>3. Marked(l[n], Flag(f, n), s[n])
        BY DEF Marked
    <2> HIDE DEF s, l
    <2> QED
        BY <2>1, <2>2, <2>3, EntryChanged
<1>4. DOMAIN s = 1 .. Len(l)
    OBVIOUS
<1>5. IsFiniteSet(1 .. Len(l))
    BY <1>1, FS_Interval
<1> HIDE DEF s, r, l
<1>6. GoodFile(r)
    BY <1>1, <1>2, <1>3, <1>4, <1>5 DEF GoodFile, IsFile, GoodConfig, GoodEntry
<1>7. Tidy(r)
    BY <1>2, <1>3, <1>4 DEF Tidy, Named
<1> QED
    BY <1>6, <1>7 DEF r

(* One place of a list replaced.                                            *)
PutAt(l, i, e, r) == r = [l EXCEPT ![i] = e]

(* One server of the list replaced,                                         *)
LEMMA PutAtIsGood ==
    ASSUME NEW l, GoodCards(l), NEW i \in DOMAIN l, NEW e, GoodEntry(e), e.addr # None,
           NEW r, PutAt(l, i, e, r)
    PROVE  GoodCards(r) /\ Len(r) = Len(l)
<1>1. PICK S : l \in Seq(S)
    BY DEF GoodCards, GoodList, IsSequence
<1>2. ReplacedAt(l, i, e, r)
    BY <1>1 DEF PutAt, ReplacedAt
<1>3. /\ IsSequence(r) /\ Len(r) = Len(l) /\ r[i] = e
      /\ \A n \in 1 .. Len(l) : n # i => r[n] = l[n]
    BY <1>2, ReplacedIs DEF GoodCards, GoodList
<1> QED
    BY <1>3 DEF GoodCards, GoodList

(* or one added at its end.                                                 *)
LEMMA AppendIsGood ==
    ASSUME NEW l, GoodCards(l), NEW e, GoodEntry(e), e.addr # None
    PROVE  GoodCards(Append(l, e))
<1>1. /\ IsSequence(Append(l, e)) /\ Len(Append(l, e)) = Len(l) + 1
      /\ \A n \in 1 .. Len(l) : Append(l, e)[n] = l[n]
      /\ Append(l, e)[Len(l) + 1] = e
    BY AppendIs DEF GoodCards, GoodList
<1>2. Len(l) \in Nat
    BY LengthIsNat DEF GoodCards, GoodList
<1>3. \A n \in 1 .. Len(l) + 1 : n \in 1 .. Len(l) \/ n = Len(l) + 1
    BY <1>2
<1> HIDE DEF GoodEntry
<1> QED
    BY <1>1, <1>3 DEF GoodCards, GoodList

(* set_server: the chosen server put into the snapshot, by its address.     *)
LEMMA SyncedIsGood ==
    ASSUME NEW l, GoodCards(l), NEW e, GoodEntry(e), e.addr # None
    PROVE  GoodCards(SyncedServers(l, e))
<1> DEFINE at == {i \in DOMAIN l : l[i].addr = e.addr}
           r == [l EXCEPT ![Min(at)] = [e EXCEPT !.managed = l[Min(at)].managed]]
<1>1. CASE at = {}
    BY <1>1, AppendIsGood DEF SyncedServers
<1>2. CASE at # {}
    <2>1. at \in SUBSET Nat
        BY LengthIsNat DEF GoodCards, GoodList
    <2>2. Min(at) \in at
        BY <1>2, <2>1, MinProperty
    <2> DEFINE k == Min(at)
               b == l[k].managed
               x == [e EXCEPT !.managed = b]
    <2>3. k \in DOMAIN l /\ DOMAIN l = 1 .. Len(l)
        BY <2>2, LengthIsNat DEF GoodCards, GoodList
    <2>4. Marked(e, b, x) /\ PutAt(l, k, x, r)
        BY DEF Marked, PutAt
    <2>5. SyncedServers(l, e) = r
        BY <1>2 DEF SyncedServers
    <2> HIDE DEF k, x, r
    <2>6. b \in BOOLEAN
        BY <2>3 DEF GoodCards, GoodList, GoodEntry, Entry
    <2> HIDE DEF b
    <2>7. GoodEntry(x) /\ x.addr = e.addr
        BY <2>4, <2>6, EntryChanged
    <2>8. GoodCards(r)
        BY <2>3, <2>4, <2>7, PutAtIsGood
    <2> QED
        BY <2>5, <2>8
<1> QED
    BY <1>1, <1>2

(* A card of the list is changed in one of its fields.                      *)
(* A card loses its token; a card changes its transport.                    *)
CardForgets(l, i, r) == r = [l EXCEPT ![i].token = None]
CardSwitches(l, i, r) == r = [l EXCEPT ![i].tcp = ~@]

(* The list of the window keeps its addresses through both.                 *)
LEMMA CardChanged ==
    ASSUME NEW l, GoodCards(l), NEW i \in DOMAIN l, NEW r, CardForgets(l, i, r) \/ CardSwitches(l, i, r)
    PROVE  GoodCards(r) /\ Len(r) = Len(l)
<1>1. DOMAIN l = 1 .. Len(l)
    BY LengthIsNat DEF GoodCards, GoodList
<1>2. GoodEntry(l[i]) /\ l[i].addr # None /\ l[i].tcp \in BOOLEAN
    BY <1>1 DEF GoodCards, GoodList, GoodEntry, Entry
<1>3. CASE CardForgets(l, i, r)
    <2> DEFINE x == [l[i] EXCEPT !["token"] = None]
    <2>1. TokenForgotten(l[i], x) /\ PutAt(l, i, x, r)
        BY <1>3 DEF TokenForgotten, PutAt, CardForgets
    <2> HIDE DEF x
    <2>2. GoodEntry(x) /\ x.addr # None
        BY <1>2, <2>1, EntryChanged
    <2> QED
        BY <2>1, <2>2, PutAtIsGood
<1>4. CASE CardSwitches(l, i, r)
    <2> DEFINE b == ~l[i].tcp
               x == [l[i] EXCEPT !["tcp"] = b]
    <2>1. TcpSet(l[i], b, x) /\ PutAt(l, i, x, r)
        BY <1>4 DEF TcpSet, PutAt, CardSwitches
    <2>2. b \in BOOLEAN
        BY <1>2
    <2> HIDE DEF x, b
    <2>3. GoodEntry(x) /\ x.addr # None
        BY <1>2, <2>1, <2>2, EntryChanged
    <2> QED
        BY <2>1, <2>3, PutAtIsGood
<1> QED
    BY <1>3, <1>4

-----------------------------------------------------------------------------
(* The token and the key of a connection are those of the address it goes   *)
(* to.                                                                      *)
Owned(a, t, k) == EntryGenuine([addr |-> a, token |-> t, key |-> k])

(* The file and the window. While the program runs the file is in order,    *)
(* because each handler that may leave a gap reads the file again before it *)
(* returns. The dialog holds the number of a section and an entry typed for *)
(* one server.                                                              *)
WindowHolds ==
    /\ GoodFile(ini) /\ (up => Tidy(ini))
    /\ GoodCards(cards) /\ selected \in 0 .. Len(cards)
    /\ dialog = NoDialog \/ (dialog.idx \in Nat \ {0} /\ GoodEntry(dialog.entry))

(* The connection.                                                          *)
ConnHolds(c) ==
    /\ c = [addr |-> c.addr, token |-> c.token, key |-> c.key, st |-> c.st]
    /\ Owned(c.addr, c.token, c.key)

(* The client application: its snapshot, the server it was told to use and  *)
(* the connection. The token of the snapshot belongs to that server,        *)
(* although the two are written by different handlers.                      *)
ClientHolds ==
    /\ GoodConfig(cfg) /\ Owned(target.addr, cfg.token, target.key)
    /\ ConnHolds(conn)

(* The managed service with the list it offers,                             *)
BrokerHolds(b) ==
    b = [verdict |-> b.verdict, offered |-> b.offered] /\ b.offered \in Seq(Hired)

(* and the list that waits for the window.                                  *)
ServiceHolds == pending \in Seq(Hired) /\ BrokerHolds(broker)

(* A click that waits to be worked off holds the entry of one server.       *)
ToConnect(w) ==
    \A n \in 1 .. Len(w) :
        w[n].t = "connect" => GoodEntry(w[n].entry) /\ w[n].entry.addr # None

(* The inductive invariant of the cards. Every place that holds the         *)
(* address, the token and the key of a server (the file, the list, the      *)
(* dialog, a click on its way, the snapshot, the target, the connection)    *)
(* holds that server's key and no token but the one meant for it: its own,  *)
(* or, at an address of the service, the one the service issued for all it  *)
(* delivers; and the sections of the file are numbered as the list of the   *)
(* window is, which every index from a card into the file relies on.        *)
CardsIInv == WindowHolds /\ ClientHolds /\ ServiceHolds /\ ToConnect(todo)

(* What a step may do to the queue of the thread of AppBridge without       *)
(* breaking that.                                                           *)
QuietTodo ==
    \/ todo' = todo
    \/ todo' = <<>>
    \/ todo # <<>> /\ todo' = Tail(todo)
    \/ \E e : /\ todo' = Append(todo, e)
              /\ e.t = "connect" => GoodEntry(e.entry) /\ e.entry.addr # None

(* It keeps the entries of the waiting clicks.                              *)
LEMMA TodoKept ==
    ASSUME IsSequence(todo), ToConnect(todo), QuietTodo
    PROVE  ToConnect(todo')
<1>0. Len(todo) \in Nat /\ (todo # <<>> => Len(todo) # 0)
    BY LengthIsNat
<1>1. CASE todo' = todo
    BY <1>1
<1>2. CASE todo' = <<>>
    <2>1. Len(<<>>) = 0
        OBVIOUS
    <2> QED
        BY <1>2, <2>1 DEF ToConnect
<1>3. CASE todo # <<>> /\ todo' = Tail(todo)
    <2>1. /\ Len(todo') = Len(todo) - 1
          /\ \A n \in 1 .. Len(todo) - 1 : todo'[n] = todo[n + 1]
        BY <1>3, TailIs
    <2>2. \A n \in 1 .. Len(todo) - 1 : n + 1 \in 1 .. Len(todo)
        BY <1>0, <1>3
    <2> QED
        BY <2>1, <2>2 DEF ToConnect
<1>4. ASSUME NEW e, todo' = Append(todo, e),
             e.t = "connect" => GoodEntry(e.entry) /\ e.entry.addr # None
      PROVE  ToConnect(todo')
    <2>1. /\ Len(todo') = Len(todo) + 1
          /\ \A n \in 1 .. Len(todo) : todo'[n] = todo[n]
          /\ todo'[Len(todo) + 1] = e
        BY <1>4, AppendIs
    <2>2. \A n \in 1 .. Len(todo) + 1 : n \in 1 .. Len(todo) \/ n = Len(todo) + 1
        BY <1>0
    <2> QED
        BY <1>4, <2>1, <2>2 DEF ToConnect
<1> QED
    BY <1>1, <1>2, <1>3, <1>4 DEF QuietTodo

(* The parts of the state that the three conjuncts are about.               *)
windowParts == <<up, ini, cards, selected, dialog>>
clientParts == <<cfg, target, conn>>
serviceParts == <<pending, broker>>

(* A conjunct whose part is left alone is kept.                             *)
LEMMA PartsKept ==
    ASSUME CardsIInv, IsSequence(todo)
    PROVE  /\ UNCHANGED windowParts => WindowHolds'
           /\ UNCHANGED clientParts => ClientHolds'
           /\ UNCHANGED serviceParts => ServiceHolds'
           /\ QuietTodo => ToConnect(todo)'
<1>1. UNCHANGED windowParts => WindowHolds'
    BY DEF CardsIInv, WindowHolds, windowParts
<1>2. UNCHANGED clientParts => ClientHolds'
    BY DEF CardsIInv, ClientHolds, clientParts
<1>3. UNCHANGED serviceParts => ServiceHolds'
    BY DEF CardsIInv, ServiceHolds, serviceParts
<1>4. QuietTodo => ToConnect(todo)'
    BY TodoKept DEF CardsIInv
<1> QED
    BY <1>1, <1>2, <1>3, <1>4

(* A step that leaves all of them alone,                                    *)
LEMMA FrameStep ==
    ASSUME CardsIInv, IsSequence(todo), QuietTodo,
           UNCHANGED <<windowParts, clientParts, serviceParts>>
    PROVE  CardsIInv'
    BY PartsKept DEF CardsIInv

(* and one that is of the window only.                                      *)
LEMMA WindowStep ==
    ASSUME CardsIInv, IsSequence(todo), QuietTodo, UNCHANGED <<clientParts, serviceParts>>, WindowHolds'
    PROVE  CardsIInv'
    BY PartsKept DEF CardsIInv

(* The steps that touch no card: the slots of the updater and of the state  *)
(* of the connection, the dialogs of the settings and of the service, the   *)
(* keys of the installation, the heartbeat and the threads of the update.   *)
LEMMA QuietSteps ==
    ASSUME CardsIInv, IsSequence(todo),
           \/ SignalChecked \/ SignalDownloaded \/ SignalState
           \/ OpenSettings \/ CloseSettings \/ ApplyForTrial \/ Refresh \/ BoxRefresh \/ CheckAgain
           \/ BridgeDone \/ WritePublicKey \/ WritePrivateKey \/ Heartbeat
           \/ UpdateThread
           \/ \E f \in DOMAIN mirror : Publish(f) /\ UNCHANGED deskVars
           \/ UNCHANGED vars
    PROVE  CardsIInv'
<1> USE DEF windowParts, clientParts, serviceParts, QuietTodo, deskVars, winVars, bridgeVars,
            clientVars, worldVars, queues, userSame
<1>1. CASE SignalChecked \/ SignalDownloaded \/ SignalState
    BY <1>1, FrameStep DEF SignalChecked, SignalDownloaded, SignalState
<1>2. CASE OpenSettings \/ CloseSettings
    BY <1>2, FrameStep DEF OpenSettings, CloseSettings
<1>3. CASE ApplyForTrial \/ Refresh \/ BoxRefresh \/ CheckAgain
    BY <1>3, FrameStep DEF ApplyForTrial, Refresh, BoxRefresh, CheckAgain
<1>4. CASE BridgeDone \/ WritePublicKey \/ WritePrivateKey \/ Heartbeat
    BY <1>4, FrameStep DEF BridgeDone, WritePublicKey, WritePrivateKey, Heartbeat
<1>5. CASE UpdateThread
    <2>1. QuietTodo
        <3>1. ASSUME NEW e, e.t \in {"checkDone", "downloadDone"}, todo' = Append(todo, e) PROVE QuietTodo
            BY <3>1
        <3> HIDE DEF QuietTodo
        <3>2. [t |-> "checkDone"].t = "checkDone" /\ [t |-> "downloadDone"].t = "downloadDone"
            OBVIOUS
        <3>3. todo' = todo => QuietTodo
            BY DEF QuietTodo
        <3>4. ASSUME NEW i \in DOMAIN checks, FetchPolicy(i) \/ FetchSignature(i) PROVE QuietTodo
            BY <3>1, <3>2, <3>3, <3>4 DEF FetchPolicy, FetchSignature, Report
        <3>5. ASSUME NEW i \in DOMAIN downloads, Fetch(i) \/ Install(i) PROVE QuietTodo
            BY <3>1, <3>2, <3>3, <3>5 DEF Fetch, Install, Finish
        <3> QED
            BY <1>5, <3>4, <3>5 DEF UpdateThread
    <2>2. UNCHANGED <<windowParts, clientParts, serviceParts>>
        BY <1>5 DEF UpdateThread
    <2> QED
        BY <2>1, <2>2, FrameStep
<1>6. ASSUME NEW f, Publish(f), UNCHANGED deskVars PROVE CardsIInv'
    BY <1>6, FrameStep DEF Publish
<1>7. CASE UNCHANGED vars
    BY <1>7, FrameStep DEF vars
<1> QED
    BY <1>1, <1>2, <1>3, <1>4, <1>5, <1>6, <1>7

(* The slots that write the file: the rejected token, the answers of the    *)
(* service and its list of servers.                                         *)
LEMMA SlotSteps ==
    ASSUME CardsIInv, IsSequence(todo),
           SignalRejected \/ SignalService \/ SignalRegistered \/ SignalServers
    PROVE  CardsIInv'
<1> USE DEF windowParts, clientParts, serviceParts, winVars, bridgeVars, clientVars, worldVars
<1>0. /\ GoodFile(ini) /\ GoodCards(cards) /\ selected \in 0 .. Len(cards) /\ (up => Tidy(ini))
      /\ dialog = NoDialog \/ (dialog.idx \in Nat \ {0} /\ GoodEntry(dialog.entry))
      /\ pending \in Seq(Hired) /\ DOMAIN cards = 1 .. Len(cards) /\ Len(cards) \in Nat
    BY LengthIsNat DEF CardsIInv, WindowHolds, ServiceHolds, GoodCards, GoodList
<1>1. ASSUME NEW r, Relabelled(ini, r), r.record = ini.record PROVE GoodFile(r) /\ (Tidy(ini) => Tidy(r))
    BY <1>0, <1>1, RelabelledIs, Sides
<1>2. CASE SignalRejected
    <2>1. QuietTodo /\ UNCHANGED <<clientParts, serviceParts, up, selected, dialog>>
        BY <1>2 DEF SignalRejected, QuietTodo
    <2>2. CASE selected = 0
        <3>1. UNCHANGED <<ini, cards>>
            BY <1>2, <2>2 DEF SignalRejected, OnTokenRejected
        <3> QED
            BY <1>0, <2>1, <3>1, WindowStep DEF WindowHolds
    <2>3. CASE selected # 0
        <3>1. CardForgets(cards, selected, cards') /\ ini' = WithKey(ini, selected, "token", None)
            BY <1>2, <2>3 DEF SignalRejected, OnTokenRejected, CardForgets
        <3>2. selected \in DOMAIN cards /\ selected \in Nat \ {0}
            BY <1>0, <2>3
        <3>3. GoodCards(cards') /\ Len(cards') = Len(cards)
            BY <1>0, <3>1, <3>2, CardChanged
        <3>4. GoodFile(ini') /\ (Tidy(ini) => Tidy(ini'))
            BY <1>0, <3>1, <3>2, KeyIsGood
        <3>5. WindowHolds'
            BY <1>0, <2>1, <3>3, <3>4 DEF WindowHolds
        <3> QED
            BY <2>1, <3>5, WindowStep
    <2> QED
        BY <2>2, <2>3
<1>3. CASE SignalService
    <2>1. QuietTodo /\ UNCHANGED <<clientParts, serviceParts, up, cards, selected, dialog>>
        BY <1>3 DEF SignalService, QuietTodo
    <2>2. NewFingerprint(ini, ini.fp \/ Head(events).ok, ini')
        BY <1>3 DEF SignalService, OnServiceChecked, NewFingerprint
    <2>3. GoodFile(ini') /\ (Tidy(ini) => Tidy(ini'))
        BY <1>0, <1>1, <2>2, RelabelledIs
    <2>4. WindowHolds'
        BY <1>0, <2>1, <2>3 DEF WindowHolds
    <2> QED
        BY <2>1, <2>4, WindowStep
<1>4. CASE SignalRegistered
    <2>1. QuietTodo /\ UNCHANGED <<clientParts, serviceParts, up, cards, selected, dialog>>
        BY <1>4 DEF SignalRegistered, QuietTodo
    <2>2. ini' = ini \/ NewToken(ini, TRUE, Head(events).token, ini')
        BY <1>4 DEF SignalRegistered, OnRegistered, NewToken
    <2>3. GoodFile(ini') /\ (Tidy(ini) => Tidy(ini'))
        BY <1>0, <1>1, <2>2, RelabelledIs
    <2>4. WindowHolds'
        BY <1>0, <2>1, <2>3 DEF WindowHolds
    <2> QED
        BY <2>1, <2>4, WindowStep
<1>5. CASE SignalServers
    <2>1. /\ QuietTodo /\ UNCHANGED <<clientParts, broker, up, dialog>> /\ pending' = <<>>
          /\ \/ UNCHANGED <<ini, cards, selected>>
             \/ ReadIniFile(WithDelivery(ini, pending), 0)
        BY <1>5 DEF SignalServers, OnServers, QuietTodo
    <2>2. GoodFile(WithDelivery(ini, pending))
        BY <1>0, DeliveryIs
    <2>3. GoodFile(ini') /\ (up => Tidy(ini')) /\ GoodCards(cards') /\ selected' \in 0 .. Len(cards')
        BY <1>0, <2>1, <2>2, ReadIsGood
    <2>4. WindowHolds'
        BY <1>0, <2>1, <2>3 DEF WindowHolds
    <2>5. ServiceHolds'
        BY <2>1 DEF CardsIInv, ServiceHolds, BrokerHolds
    <2> QED
        BY <2>1, <2>4, <2>5, PartsKept DEF CardsIInv
<1> QED
    BY <1>2, <1>3, <1>4, <1>5

(* A handler that changes the file and reads it again.                      *)
LEMMA ReadStep ==
    ASSUME CardsIInv, IsSequence(todo), QuietTodo, UNCHANGED <<up, clientParts, serviceParts>>,
           dialog' = dialog \/ dialog' = NoDialog,
           NEW f, GoodFile(f), NEW k, ReadIniFile(f, k)
    PROVE  CardsIInv'
<1>1. GoodFile(ini') /\ Tidy(ini') /\ GoodCards(cards') /\ selected' \in 0 .. Len(cards')
    BY ReadIsGood
<1>2. WindowHolds'
    BY <1>1 DEF CardsIInv, WindowHolds
<1> QED
    BY <1>2, WindowStep

(* The clicks on cards and in the dialog of a card.                         *)
LEMMA UserSteps ==
    ASSUME CardsIInv, IsSequence(todo),
           \/ ClickConnect \/ OpenSwitch \/ CloseSwitch \/ OpenEdit \/ EditDeleted
           \/ ChooseManaged \/ ChooseSelf
           \/ \E n \in 1 .. 4 : SelectCard(n) \/ SwitchTransport(n)
           \/ \E a \in Own : AddServer(a)
           \/ \E tok \in Tokens \cup {None} : EditAccepted(tok)
    PROVE  CardsIInv'
<1> USE DEF windowParts, clientParts, serviceParts, winVars, bridgeVars, clientVars, worldVars,
            userSame, queues
<1>0. /\ GoodFile(ini) /\ GoodCards(cards) /\ selected \in 0 .. Len(cards) /\ (up => Tidy(ini))
      /\ dialog = NoDialog \/ (dialog.idx \in Nat \ {0} /\ GoodEntry(dialog.entry))
      /\ DOMAIN cards = 1 .. Len(cards) /\ Len(cards) \in Nat
      /\ \A i \in 1 .. Len(cards) : GoodEntry(cards[i]) /\ cards[i].addr # None
    BY LengthIsNat DEF CardsIInv, WindowHolds, GoodCards, GoodList
<1>1. ASSUME NEW r, Relabelled(ini, r), r.record = ini.record PROVE GoodFile(r) /\ (Tidy(ini) => Tidy(r))
    BY <1>0, <1>1, RelabelledIs, Sides
<1>2. CASE ClickConnect
    <2>1. /\ UNCHANGED <<windowParts, clientParts, serviceParts>> /\ selected # 0
          /\ todo' = Append(todo, IF view = "stopped"
                                  THEN [t |-> "connect", entry |-> cards[selected]]
                                  ELSE [t |-> "stop"])
        BY <1>2 DEF ClickConnect
    <2>2. GoodEntry(cards[selected]) /\ cards[selected].addr # None
        BY <1>0, <2>1
    <2>3. QuietTodo
        <3> DEFINE e == IF view = "stopped" THEN [t |-> "connect", entry |-> cards[selected]]
                                            ELSE [t |-> "stop"]
        <3>1. e.t = "connect" => GoodEntry(e.entry) /\ e.entry.addr # None
            BY <2>2
        <3>2. todo' = Append(todo, e)
            BY <2>1
        <3> HIDE DEF e
        <3> QED
            BY <3>1, <3>2 DEF QuietTodo
    <2> QED
        BY <2>1, <2>3, FrameStep
<1>3. CASE OpenEdit
    <2>1. /\ QuietTodo /\ UNCHANGED <<up, ini, cards, selected, clientParts, serviceParts>>
          /\ selected # 0 /\ dialog' = [idx |-> selected, entry |-> cards[selected]]
        BY <1>3 DEF OpenEdit, QuietTodo
    <2>2. dialog'.idx = selected /\ dialog'.entry = cards[selected] /\ selected \in 1 .. Len(cards)
        BY <1>0, <2>1
    <2>3. WindowHolds'
        BY <1>0, <2>1, <2>2 DEF WindowHolds
    <2> QED
        BY <2>1, <2>3, WindowStep
<1>4. CASE EditDeleted
    <2>1. /\ QuietTodo /\ UNCHANGED <<up, clientParts, serviceParts>> /\ dialog' = NoDialog
          /\ ReadIniFile(WithDeleted(ini, selected), 0)
        BY <1>4 DEF EditDeleted, QuietTodo
    <2> QED
        BY <1>0, <2>1, DeletedIsGood, ReadStep
<1>5. CASE ChooseManaged
    <2>1. /\ QuietTodo /\ UNCHANGED <<up, cards, selected, dialog, clientParts, serviceParts>>
          /\ NewMode(ini, "managed", ini')
        BY <1>5 DEF ChooseManaged, QuietTodo, NewMode
    <2>2. GoodFile(ini') /\ (Tidy(ini) => Tidy(ini'))
        BY <1>0, <1>1, <2>1, RelabelledIs
    <2>3. WindowHolds'
        BY <1>0, <2>1, <2>2 DEF WindowHolds
    <2> QED
        BY <2>1, <2>3, WindowStep
<1>6. CASE ChooseSelf
    <2> DEFINE off == [ini EXCEPT !.mode = "off"]
    <2>1. /\ QuietTodo /\ UNCHANGED <<up, dialog, clientParts, serviceParts>>
          /\ \/ ini' = off /\ UNCHANGED <<cards, selected>>
             \/ ReadIniFile(WithoutManaged(off), 0)
        BY <1>6 DEF ChooseSelf, QuietTodo
    <2>2. NewMode(ini, "off", off)
        BY DEF NewMode
    <2> HIDE DEF off
    <2>3. GoodFile(off) /\ (Tidy(ini) => Tidy(off))
        BY <1>0, <1>1, <2>2, RelabelledIs
    <2>4. CASE ini' = off /\ UNCHANGED <<cards, selected>>
        <3>1. WindowHolds'
            BY <1>0, <2>1, <2>3, <2>4 DEF WindowHolds
        <3> QED
            BY <2>1, <3>1, WindowStep
    <2>5. CASE ReadIniFile(WithoutManaged(off), 0)
        BY <2>1, <2>3, <2>5, WithoutManagedIsGood, ReadStep
    <2> QED
        BY <2>1, <2>4, <2>5
<1>7. ASSUME NEW n \in 1 .. 4, SelectCard(n) PROVE CardsIInv'
    <2>1. /\ QuietTodo /\ UNCHANGED <<up, ini, cards, dialog, clientParts, serviceParts>>
          /\ selected' = n /\ n \in 1 .. Len(cards)
        BY <1>7 DEF SelectCard, QuietTodo
    <2>2. WindowHolds'
        BY <1>0, <2>1 DEF WindowHolds
    <2> QED
        BY <2>1, <2>2, WindowStep
<1>8. ASSUME NEW n \in 1 .. 4, SwitchTransport(n) PROVE CardsIInv'
    <2>1. /\ QuietTodo /\ UNCHANGED <<up, selected, dialog, clientParts, serviceParts>>
          /\ n \in 1 .. Len(cards) /\ CardSwitches(cards, n, cards')
          /\ ini' = WithKey(ini, n, "tcp", ~cards[n].tcp)
        BY <1>8 DEF SwitchTransport, QuietTodo, CardSwitches
    <2>2. GoodCards(cards') /\ Len(cards') = Len(cards)
        BY <1>0, <2>1, CardChanged
    <2>3. GoodFile(ini') /\ (Tidy(ini) => Tidy(ini'))
        <3> DEFINE b == ~cards[n].tcp
        <3>1. b \in BOOLEAN /\ n \in Nat \ {0}
            BY <2>1
        <3>2. ini' = WithKey(ini, n, "tcp", b)
            BY <2>1
        <3> HIDE DEF b
        <3> QED
            BY <1>0, <3>1, <3>2, KeyIsGood
    <2>4. WindowHolds'
        BY <1>0, <2>1, <2>2, <2>3 DEF WindowHolds
    <2> QED
        BY <2>1, <2>4, WindowStep
<1>9. ASSUME NEW a \in Own, AddServer(a) PROVE CardsIInv'
    <2> DEFINE e == [Genuine(a, FALSE, FALSE) EXCEPT !.key = KeyOf(a)]
    <2>1. /\ QuietTodo /\ UNCHANGED <<up, dialog, clientParts, serviceParts>>
          /\ ReadIniFile(WithAdded(ini, e), selected)
        BY <1>9 DEF AddServer, QuietTodo
    <2> DEFINE k == KeyOf(a)
    <2>6. TokenOf(a) = a
        BY CardAssumption DEF CardAssumption, TokenOf
    <2>2. e = [[addr |-> a, token |-> a, key |-> a, tcp |-> FALSE, managed |-> FALSE] EXCEPT !.key = k]
        BY <2>6 DEF Genuine
    <2>3. k \in {None, a}
        BY DEF KeyOf
    <2> HIDE DEF e, k
    <2>4. e = [addr |-> a, token |-> a, key |-> k, tcp |-> FALSE, managed |-> FALSE]
        BY <2>2
    <2>5. GoodEntry(e)
        BY <2>3, <2>4, <2>6 DEF GoodEntry, Entry, EntryGenuine, Addrs, Tokens, k
    <2> QED
        BY <1>0, <2>1, <2>5, AddedIsGood, ReadStep
<1>10. ASSUME NEW tok, EditAccepted(tok) PROVE CardsIInv'
    <2> DEFINE e == [dialog.entry EXCEPT !.token = tok]
    <2>1. /\ QuietTodo /\ UNCHANGED <<up, clientParts, serviceParts>> /\ dialog' = NoDialog
          /\ dialog # NoDialog /\ tok \in {dialog.entry.token, TokenOf(dialog.entry.addr)}
          /\ ReadIniFile(WithEdited(ini, dialog.idx, e), selected)
        BY <1>10 DEF EditAccepted, QuietTodo
    <2>2. dialog.idx \in Nat \ {0} /\ GoodEntry(dialog.entry)
        BY <1>0, <2>1
    <2>3. Typed(dialog.entry, tok, e)
        BY DEF Typed
    <2> HIDE DEF e
    <2>4. GoodEntry(e)
        BY <2>1, <2>2, <2>3, EntryChanged
    <2> QED
        BY <1>0, <2>1, <2>2, <2>4, EditedIsGood, ReadStep
<1>11. CASE OpenSwitch
    <2>1. /\ QuietTodo /\ UNCHANGED <<up, dialog, clientParts, serviceParts>>
          /\ ReadIniFile(ini, selected)
        BY <1>11 DEF OpenSwitch, QuietTodo
    <2> QED
        BY <1>0, <2>1, ReadStep
<1>12. CASE CloseSwitch
    BY <1>12, FrameStep DEF CloseSwitch, QuietTodo
<1> QED
    BY <1>2, <1>3, <1>4, <1>5, <1>6, <1>7, <1>8, <1>9, <1>10, <1>11, <1>12

(* No token at all belongs to every server.                                 *)
LEMMA OwnedWithout ==
    ASSUME NEW a, NEW t, NEW k, Owned(a, t, k)
    PROVE  Owned(a, None, k)
    BY DEF Owned, EntryGenuine

(* The changes of a connection: its state, its token, both.                 *)
ConnTo(c, s, r) == r = [c EXCEPT !.st = s]
ConnToken(c, t, r) == r = [c EXCEPT !.token = t]
ConnBoth(c, s, t, r) == r = [c EXCEPT !.st = s, !.token = t]

(* They keep the server of the connection.                                  *)
LEMMA ConnChanged ==
    ASSUME NEW c, ConnHolds(c), NEW r, NEW s, NEW t \in {c.token, None},
           ConnTo(c, s, r) \/ ConnToken(c, t, r) \/ ConnBoth(c, s, t, r)
    PROVE  ConnHolds(r)
<1>1. /\ c = [addr |-> c.addr, token |-> c.token, key |-> c.key, st |-> c.st]
      /\ DOMAIN c = {"addr", "token", "key", "st"}
    BY DEF ConnHolds
<1>2. /\ ConnTo(c, s, r) => r = [x \in DOMAIN c |-> IF x = "st" THEN s ELSE c[x]]
      /\ ConnToken(c, t, r) => r = [x \in DOMAIN c |-> IF x = "token" THEN t ELSE c[x]]
      /\ ConnBoth(c, s, t, r) =>
            r = [x \in DOMAIN c |-> IF x = "token" THEN t ELSE IF x = "st" THEN s ELSE c[x]]
    BY <1>1 DEF ConnTo, ConnToken, ConnBoth
<1>3. /\ r = [addr |-> r.addr, token |-> r.token, key |-> r.key, st |-> r.st]
      /\ r.addr = c.addr /\ r.key = c.key /\ r.token \in {c.token, None}
    BY <1>1, <1>2
<1> QED
    BY <1>3, OwnedWithout DEF ConnHolds

(* The changes of the snapshot: its token, and its token with the list of   *)
(* its servers.                                                             *)
ConfigToken(c, t, r) == r = [c EXCEPT !.token = t]
ConfigServer(c, t, l, r) == r = [c EXCEPT !.token = t, !.servers = l]

(* They keep the entries of the snapshot whole.                             *)
LEMMA ConfigChanged ==
    ASSUME NEW c, GoodConfig(c), NEW t, NEW l, GoodCards(l), NEW r,
           ConfigToken(c, t, r) \/ ConfigServer(c, t, l, r)
    PROVE  GoodConfig(r) /\ r.token = t
<1>1. /\ c = [servers |-> c.servers, token |-> c.token, mode |-> c.mode, record |-> c.record,
              svc |-> c.svc, fp |-> c.fp]
      /\ DOMAIN c = {"servers", "token", "mode", "record", "svc", "fp"}
    BY DEF GoodConfig
<1>2. /\ ConfigToken(c, t, r) => r = [x \in DOMAIN c |-> IF x = "token" THEN t ELSE c[x]]
      /\ ConfigServer(c, t, l, r) =>
            r = [x \in DOMAIN c |-> IF x = "servers" THEN l ELSE IF x = "token" THEN t ELSE c[x]]
    BY <1>1 DEF ConfigToken, ConfigServer
<1>3. /\ r = [servers |-> r.servers, token |-> r.token, mode |-> r.mode, record |-> r.record,
              svc |-> r.svc, fp |-> r.fp]
      /\ r.servers \in {c.servers, l} /\ r.record = c.record /\ r.token = t
    BY <1>1, <1>2
<1> QED
    BY <1>3 DEF GoodConfig

(* The window before it has read the file.                                  *)
LEMMA EmptyCards == GoodCards(<<>>)
<1>1. Len(<<>>) = 0
    OBVIOUS
<1> QED
    BY <1>1, EmptySequence DEF GoodCards, GoodList

(* The client application before its first connection.                      *)
LEMMA NothingHeld == GoodConfig(NoCfg) /\ NoCfg.token = None /\ ConnHolds(NoConn) /\ NoTarget.addr = None
    BY EmptyCards DEF NoCfg, NoConn, NoTarget, GoodConfig, ConnHolds, Owned, EntryGenuine

(* The snapshot as it is read from the file.                                *)
LEMMA SnapshotIsGood ==
    ASSUME NEW f, GoodFile(f)
    PROVE  GoodConfig(Snapshot(f)) /\ Snapshot(f).token = None
<1>1. GoodCards(Servers(f)) /\ f.record \subseteq Hired
    BY ServersAreGood, Sides
<1> QED
    BY <1>1 DEF Snapshot, GoodConfig

(* The thread of AppBridge: the click taken from the queue, the file read,  *)
(* the server put into the snapshot, the connection started.                *)
LEMMA BridgeSteps ==
    ASSUME CardsIInv, IsSequence(todo), LoadsConfig \/ SelectServer \/ StartClient \/ BridgeStops
    PROVE  CardsIInv'
<1> USE DEF windowParts, clientParts, serviceParts, winVars, bridgeVars, clientVars, worldVars,
            queues
<1>0. /\ GoodFile(ini) /\ GoodConfig(cfg) /\ GoodCards(cfg.servers)
      /\ Owned(target.addr, cfg.token, target.key) /\ ConnHolds(conn)
      /\ IsSequence(todo) /\ ToConnect(todo)
    BY DEF CardsIInv, WindowHolds, ClientHolds, GoodConfig
<1>1. CASE LoadsConfig
    <2>1. /\ QuietTodo /\ UNCHANGED <<up, cards, selected, dialog, target, conn, serviceParts>>
          /\ UNCHANGED <<cfg, ini>> \/ (cfg' = Snapshot(ini) /\ ini' = Reloaded(ini))
        BY <1>1 DEF LoadsConfig, QuietTodo
    <2>2. CASE UNCHANGED <<cfg, ini>>
        BY <2>1, <2>2, FrameStep
    <2>3. CASE cfg' = Snapshot(ini) /\ ini' = Reloaded(ini)
        <3>1. GoodFile(ini') /\ Tidy(ini')
            BY <1>0, <2>3, ReloadedIsGood
        <3>2. GoodConfig(cfg') /\ cfg'.token = None
            BY <1>0, <2>3, SnapshotIsGood
        <3>3. WindowHolds'
            BY <2>1, <3>1 DEF CardsIInv, WindowHolds
        <3>4. ClientHolds'
            BY <1>0, <2>1, <3>2, OwnedWithout DEF ClientHolds
        <3> QED
            BY <2>1, <3>3, <3>4, PartsKept DEF CardsIInv
    <2> QED
        BY <2>1, <2>2, <2>3
<1>2. CASE SelectServer
    <2> DEFINE e == Head(todo).entry
    <2>1. /\ QuietTodo /\ UNCHANGED <<windowParts, conn, serviceParts>>
          /\ todo # <<>> /\ Head(todo).t = "connect"
          /\ ConfigServer(cfg, e.token, SyncedServers(cfg.servers, e), cfg')
          /\ target' = [addr |-> e.addr, key |-> e.key]
        BY <1>2 DEF SelectServer, QuietTodo, ConfigServer, PinnedKey
    <2>2. GoodEntry(e) /\ e.addr # None
        <3>1. Head(todo) = todo[1] /\ 1 \in 1 .. Len(todo)
            BY <1>0, <2>1, TailIs, LengthIsNat
        <3> QED
            BY <1>0, <2>1, <3>1 DEF ToConnect
    <2> HIDE DEF e
    <2>3. GoodConfig(cfg') /\ cfg'.token = e.token
        BY <1>0, <2>1, <2>2, SyncedIsGood, ConfigChanged
    <2>4. Owned(target'.addr, cfg'.token, target'.key)
        BY <2>1, <2>2, <2>3 DEF Owned, GoodEntry, EntryGenuine
    <2>5. ClientHolds'
        BY <1>0, <2>1, <2>3, <2>4 DEF ClientHolds
    <2> QED
        BY <2>1, <2>5, PartsKept DEF CardsIInv
<1>3. CASE StartClient
    <2>1. /\ QuietTodo /\ UNCHANGED <<windowParts, cfg, target, serviceParts>>
          /\ \/ UNCHANGED conn
             \/ conn' = [addr |-> target.addr, token |-> cfg.token, key |-> target.key, st |-> "trying"]
        BY <1>3 DEF StartClient, QuietTodo
    <2>2. ConnHolds(conn')
        BY <1>0, <2>1 DEF ConnHolds
    <2>3. ClientHolds'
        BY <1>0, <2>1, <2>2 DEF ClientHolds
    <2> QED
        BY <2>1, <2>3, PartsKept DEF CardsIInv
<1>4. CASE BridgeStops
    <2>1. QuietTodo /\ UNCHANGED <<windowParts, cfg, target, serviceParts>> /\ conn' = NoConn
        BY <1>4 DEF BridgeStops, StopClient, QuietTodo
    <2>2. ClientHolds'
        BY <1>0, <2>1, NothingHeld DEF ClientHolds
    <2> QED
        BY <2>1, <2>2, PartsKept DEF CardsIInv
<1> QED
    BY <1>1, <1>2, <1>3, <1>4

(* The connection stopped from the thread of the user interface.            *)
LEMMA StopSteps ==
    ASSUME CardsIInv, IsSequence(todo), UpdateNow \/ BoxUpdate
    PROVE  CardsIInv'
<1>1. /\ QuietTodo /\ UNCHANGED <<windowParts, cfg, target, serviceParts>>
      /\ conn' = conn \/ conn' = NoConn
    BY DEF UpdateNow, BoxUpdate, StopForDownload, StopClient, QuietTodo, windowParts, serviceParts,
           userSame, winVars, bridgeVars, worldVars
<1>2. ClientHolds'
    BY <1>1, NothingHeld DEF CardsIInv, ClientHolds
<1> QED
    BY <1>1, <1>2, PartsKept DEF CardsIInv

(* The threads of the connection: the login, its refusal and its end.       *)
LEMMA WorkerSteps ==
    ASSUME CardsIInv, IsSequence(todo), Worker \/ LinkLost
    PROVE  CardsIInv'
<1> USE DEF windowParts, clientParts, serviceParts, winVars, bridgeVars, clientVars, worldVars,
            workerSame
<1>0. /\ GoodFile(ini) /\ GoodConfig(cfg) /\ GoodCards(cfg.servers)
      /\ Owned(target.addr, cfg.token, target.key) /\ ConnHolds(conn)
    BY DEF CardsIInv, WindowHolds, ClientHolds, GoodConfig
<1>1. ASSUME ConnHolds(conn'), UNCHANGED <<up, cards, selected, dialog, target, serviceParts, todo>>,
             \/ UNCHANGED <<cfg, ini>>
             \/ ConfigToken(cfg, None, cfg') /\ ini' = Saved(ini, cfg)
      PROVE  CardsIInv'
    <2>1. QuietTodo
        BY <1>1 DEF QuietTodo
    <2>2. GoodConfig(cfg') /\ Owned(target'.addr, cfg'.token, target'.key)
        BY <1>0, <1>1, ConfigChanged, OwnedWithout
    <2>3. ClientHolds'
        BY <1>1, <2>2 DEF ClientHolds
    <2>4. WindowHolds'
        BY <1>0, <1>1, SavedIsGood DEF CardsIInv, WindowHolds
    <2> QED
        BY <1>1, <2>1, <2>3, <2>4, PartsKept DEF CardsIInv
<1>2. ASSUME OnConnected, UNCHANGED workerSame PROVE CardsIInv'
    <2> DEFINE t == IF cfg.token = None THEN conn.token ELSE None
    <2>1. /\ ConnBoth(conn, "up", t, conn')
          /\ \/ UNCHANGED <<cfg, ini>>
             \/ ConfigToken(cfg, None, cfg') /\ ini' = Saved(ini, cfg)
        BY <1>2 DEF OnConnected, ConnBoth, ConfigToken
    <2>2. t \in {conn.token, None}
        OBVIOUS
    <2> HIDE DEF t
    <2>3. ConnHolds(conn')
        BY <1>0, <2>1, <2>2, ConnChanged
    <2> QED
        BY <1>1, <1>2, <2>1, <2>3
<1>3. CASE Registers \/ LogsIn
    BY <1>2, <1>3 DEF Registers, LogsIn
<1>4. CASE TokenRejected
    <2>1. /\ ConnToken(conn, None, conn') /\ UNCHANGED workerSame
          /\ ConfigToken(cfg, None, cfg') /\ ini' = Saved(ini, cfg)
        BY <1>4 DEF TokenRejected, ConnToken, ConfigToken
    <2>2. ConnHolds(conn')
        BY <1>0, <2>1, ConnChanged
    <2> QED
        BY <1>1, <2>1, <2>2
<1>5. CASE GivesUp \/ LinkLost
    <2>1. UNCHANGED <<workerSame, cfg, ini>> /\ (ConnTo(conn, "error", conn') \/ ConnTo(conn, "trying", conn'))
        BY <1>5 DEF GivesUp, LinkLost, ConnTo
    <2>2. ConnHolds(conn')
        BY <1>0, <2>1, ConnChanged
    <2> QED
        BY <1>1, <2>1, <2>2
<1> QED
    BY <1>3, <1>4, <1>5 DEF Worker

(* The service changes its mind, and its list.                              *)
NewVerdict(b, v, r) == r = [b EXCEPT !.verdict = v]
NewOffer(b, l, r) == r = [b EXCEPT !.offered = l]

(* Its list stays a list of its servers.                                    *)
LEMMA BrokerChanged ==
    ASSUME NEW b, BrokerHolds(b), NEW r
    PROVE  /\ \A v : NewVerdict(b, v, r) => BrokerHolds(r)
           /\ \A l \in Seq(Hired) : NewOffer(b, l, r) => BrokerHolds(r)
<1>1. /\ b = [verdict |-> b.verdict, offered |-> b.offered] /\ b.offered \in Seq(Hired)
      /\ DOMAIN b = {"verdict", "offered"}
    BY DEF BrokerHolds
<1>2. ASSUME NEW v, NewVerdict(b, v, r) PROVE BrokerHolds(r)
    <2>1. r = [x \in DOMAIN b |-> IF x = "verdict" THEN v ELSE b[x]]
        BY <1>1, <1>2 DEF NewVerdict
    <2> QED
        BY <1>1, <2>1 DEF BrokerHolds
<1>3. ASSUME NEW l \in Seq(Hired), NewOffer(b, l, r) PROVE BrokerHolds(r)
    <2>1. r = [x \in DOMAIN b |-> IF x = "offered" THEN l ELSE b[x]]
        BY <1>1, <1>3 DEF NewOffer
    <2> QED
        BY <1>1, <1>3, <2>1 DEF BrokerHolds
<1> QED
    BY <1>2, <1>3

(* The threads of the managed service, and the service itself.              *)
LEMMA ServiceSteps ==
    ASSUME CardsIInv, IsSequence(todo),
           \/ \E i \in DOMAIN svcs : ServiceAnswers(i)
           \/ \E i \in DOMAIN lists : ListAnswers(i)
           \/ News
    PROVE  CardsIInv'
<1> USE DEF windowParts, clientParts, serviceParts, winVars, bridgeVars, clientVars, worldVars
<1>0. BrokerHolds(broker) /\ broker.offered \in Seq(Hired) /\ <<>> \in Seq(Hired)
    BY DEF CardsIInv, ServiceHolds, BrokerHolds
<1>1. ASSUME UNCHANGED <<windowParts, clientParts>>, QuietTodo, pending' \in Seq(Hired), BrokerHolds(broker')
      PROVE  CardsIInv'
    <2>1. ServiceHolds'
        BY <1>1 DEF ServiceHolds
    <2> QED
        BY <1>1, <2>1, PartsKept DEF CardsIInv
<1>2. ASSUME NEW i \in DOMAIN svcs, ServiceAnswers(i) PROVE CardsIInv'
    <2>1. /\ UNCHANGED <<windowParts, clientParts, pending>>
          /\ todo' = Append(todo, [t |-> "serviceDone"])
          /\ broker' = broker \/ NewVerdict(broker, "ok", broker')
        BY <1>2 DEF ServiceAnswers, NewVerdict
    <2>2. QuietTodo
        <3>1. [t |-> "serviceDone"].t # "connect"
            OBVIOUS
        <3> QED
            BY <2>1, <3>1 DEF QuietTodo
    <2>3. BrokerHolds(broker')
        BY <1>0, <2>1, BrokerChanged
    <2> QED
        BY <1>1, <2>1, <2>2, <2>3 DEF CardsIInv, ServiceHolds
<1>3. ASSUME NEW i \in DOMAIN lists, ListAnswers(i) PROVE CardsIInv'
    <2>1. /\ UNCHANGED <<windowParts, clientParts, broker>>
          /\ todo' = Append(todo, [t |-> "listDone"])
          /\ pending' \in {broker.offered, <<>>}
        BY <1>3 DEF ListAnswers
    <2>2. QuietTodo
        <3>1. [t |-> "listDone"].t # "connect"
            OBVIOUS
        <3> QED
            BY <2>1, <3>1 DEF QuietTodo
    <2> QED
        BY <1>0, <1>1, <2>1, <2>2
<1>4. CASE News
    <2>1. /\ UNCHANGED <<windowParts, clientParts, pending>> /\ QuietTodo
          /\ \/ broker' = broker
             \/ \E v : NewVerdict(broker, v, broker')
             \/ \E a \in Hired : NewOffer(broker, <<a>>, broker')
        BY <1>4 DEF News, QuietTodo, queues, NewVerdict, NewOffer
    <2>2. \A a \in Hired : <<a>> \in Seq(Hired)
        OBVIOUS
    <2>3. BrokerHolds(broker')
        BY <1>0, <2>1, <2>2, BrokerChanged
    <2> QED
        BY <1>1, <2>1, <2>3 DEF CardsIInv, ServiceHolds
<1> QED
    BY <1>2, <1>3, <1>4

(* The process ends and starts.                                             *)
LEMMA ProcessSteps ==
    ASSUME CardsIInv, IsSequence(todo), Ends \/ Starts
    PROVE  CardsIInv'
<1>1. CASE Ends
    <2>1. /\ up' = FALSE /\ todo' = <<>> /\ cards' = <<>> /\ selected' = 0 /\ dialog' = NoDialog
          /\ pending' = <<>> /\ cfg' = NoCfg /\ target' = NoTarget /\ conn' = NoConn
          /\ UNCHANGED <<ini, broker>>
        BY <1>1 DEF Ends, worldVars
    <2>2. Len(<<>>) = 0 /\ <<>> \in Seq(Hired)
        OBVIOUS
    <2>3. WindowHolds'
        BY <2>1, <2>2, EmptyCards DEF CardsIInv, WindowHolds
    <2>4. ClientHolds'
        BY <2>1, NothingHeld DEF ClientHolds, Owned, EntryGenuine
    <2>5. ServiceHolds'
        BY <2>1, <2>2 DEF CardsIInv, ServiceHolds
    <2>6. QuietTodo
        BY <2>1 DEF QuietTodo
    <2> QED
        BY <2>3, <2>4, <2>5, <2>6, PartsKept DEF CardsIInv
<1>2. CASE Starts
    <2>1. /\ QuietTodo /\ UNCHANGED <<dialog, clientParts, serviceParts>>
          /\ ini' = Reloaded(ini) /\ cards' = Servers(ini) /\ selected' = Len(Servers(ini))
        BY <1>2 DEF Starts, QuietTodo, queues, clientVars, worldVars, clientParts, serviceParts
    <2>2. GoodFile(ini)
        BY DEF CardsIInv, WindowHolds
    <2>3. WindowHolds'
        BY <2>1, <2>2, ReloadedIsGood, ServersAreGood DEF CardsIInv, WindowHolds
    <2> QED
        BY <2>1, <2>3, PartsKept DEF CardsIInv
<1> QED
    BY <1>1, <1>2

(* The first start, with whatever file is there.                            *)
LEMMA CardsInit == Init => CardsIInv
<1> SUFFICES ASSUME Init PROVE CardsIInv
    OBVIOUS
<1>1. /\ todo = <<>> /\ up = FALSE /\ cards = <<>> /\ selected = 0 /\ dialog = NoDialog
      /\ pending = <<>> /\ cfg = NoCfg /\ target = NoTarget /\ conn = NoConn
    BY DEF Init
<1>2. PICK s \in Scenarios :
          ini = s.ini /\ broker = [verdict |-> s.verdict, offered |-> s.offered]
    BY DEF Init
<1>3. /\ IsFile(s.ini) /\ s.offered \in Seq(Hired)
      /\ \A n \in DOMAIN s.ini.sec : EntryGenuine(s.ini.sec[n])
    BY DesktopAssumption DEF DesktopAssumption
<1>4. Len(<<>>) = 0 /\ <<>> \in Seq(Hired)
    OBVIOUS
<1>5. GoodFile(ini)
    BY <1>2, <1>3 DEF GoodFile, GoodEntry, IsFile
<1>6. WindowHolds
    BY <1>1, <1>4, <1>5, EmptyCards DEF WindowHolds
<1>7. ClientHolds
    BY <1>1, NothingHeld DEF ClientHolds, Owned, EntryGenuine
<1>8. ServiceHolds
    BY <1>1, <1>2, <1>3, <1>4 DEF ServiceHolds, BrokerHolds
<1>9. ToConnect(todo)
    BY <1>1, <1>4 DEF ToConnect
<1> QED
    BY <1>6, <1>7, <1>8, <1>9 DEF CardsIInv

(* Cards, file, snapshot and connection keep the invariant through every    *)
(* interleaving of the window, the thread of AppBridge, the threads of the  *)
(* connection and of the service, and every end of the process              *)
(* (QtWidgetsClass.cpp: apply_managed_servers, edit_card; ClientApp.cpp:    *)
(* set_server, save_config; Config.cpp: LoadClientConfig,                   *)
(* SaveClientConfig).                                                       *)
THEOREM CardsInvariant == Spec => []CardsIInv
<1>1. CardsIInv /\ UpdatesIInv /\ [Next]_vars => CardsIInv'
    <2> SUFFICES ASSUME CardsIInv, IsSequence(todo), [Next]_vars PROVE CardsIInv'
        BY DEF UpdatesIInv
    <2>1. CASE UserInterface
        BY <2>1, QuietSteps, SlotSteps DEF UserInterface
    <2>2. CASE User
        BY <2>2, QuietSteps, UserSteps, StopSteps DEF User
    <2>3. CASE BridgeThread
        BY <2>3, QuietSteps, BridgeSteps DEF BridgeThread
    <2> QED
        BY <2>1, <2>2, <2>3, QuietSteps, ServiceSteps, WorkerSteps, ProcessSteps DEF Next
<1> QED
    BY <1>1, CardsInit, UpdatesInvariant, PTL DEF Spec

(* A server of the user's own is sent no token but its own, a server of the *)
(* service none but the service's (which by design is one for all that it   *)
(* delivers), and no server is checked with the key of another, although    *)
(* handlers of several threads write token, address and key (ClientApp.cpp: *)
(* set_server, start; AppBridge.cpp: connect_to_server; QtWidgetsClass.cpp: *)
(* apply_managed_servers, tokenRejected, edit_card).                        *)
THEOREM CardsKeepTheirIdentity == Spec => []IdentityOfTheServer
<1>1. CardsIInv => IdentityOfTheServer
    BY Sides DEF CardsIInv, WindowHolds, ClientHolds, ConnHolds, Owned, EntryGenuine, GoodEntry,
                 IdentityOfTheServer
<1> QED
    BY <1>1, CardsInvariant, PTL

(* A list that is not accepted changes nothing.                             *)
LEMMA NothingDelivered ==
    ASSUME NEW f, GoodFile(f)
    PROVE  DeliveryKeeps(f, f)
<1>1. \A e \in Range(Entries(f)) : \E n \in 1 .. f.count : Entries(f)[n] = e
    BY DEF Range, Entries
<1> QED
    BY <1>1 DEF DeliveryKeeps

(* A delivery of the service keeps every entry of the user's own, whatever  *)
(* the file was before the program started (QtWidgetsClass.cpp:             *)
(* apply_managed_servers).                                                  *)
THEOREM DeliveriesKeepCards == Spec => DeliveryKeepsCards
<1>1. CardsIInv /\ [Next]_vars => [SignalServers => DeliveryKeeps(ini, ini')]_vars
    <2> SUFFICES ASSUME CardsIInv, SignalServers PROVE DeliveryKeeps(ini, ini')
        OBVIOUS
    <2>1. GoodFile(ini) /\ Tidy(ini) /\ pending \in Seq(Hired)
        BY DEF CardsIInv, WindowHolds, ServiceHolds, SignalServers, TakesSignal
    <2>2. ini' = ini \/ ini' = Reloaded(WithDelivery(ini, pending))
        BY DEF SignalServers, OnServers, ReadIniFile
    <2> QED
        BY <2>1, <2>2, KeptIsKept, NothingDelivered
<1> QED
    BY <1>1, CardsInvariant, PTL DEF Spec, DeliveryKeepsCards
-----------------------------------------------------------------------------
(* config.ini: what IniDoc gives back after set, for every document, every  *)
(* set of names and every way to compare them                               *)

(* The first and the last index where something holds.                      *)
LEMMA LeastIs ==
  ASSUME NEW S \in SUBSET Nat, NEW i \in S, \A j \in S : i <= j
  PROVE  Least(S) = i
<1>1. Least(S) \in S /\ \A j \in S : Least(S) <= j
  BY LeastProperty
<1>2. Least(S) <= i /\ i <= Least(S) /\ Least(S) \in Nat /\ i \in Nat
  BY <1>1
<1>3. QED
  BY <1>2

LEMMA GreatestProperty ==
  ASSUME NEW n \in Nat, NEW S \in SUBSET (1 .. n), S # {}
  PROVE  Greatest(S) \in S /\ \A j \in S : j <= Greatest(S)
<1> DEFINE T == {n - i : i \in S}
<1>1. T \in SUBSET Nat /\ T # {}
  <2>1. \A i \in S : n - i \in Nat
    OBVIOUS
  <2>2. QED
    BY <2>1
<1>2. Least(T) \in T /\ \A j \in T : Least(T) <= j
  BY <1>1, LeastProperty
<1>3. PICK i \in S : Least(T) = n - i
  BY <1>2
<1>4. \A j \in S : n - i <= n - j
  BY <1>2, <1>3
<1>5. \A j \in S : j <= i
  BY <1>4
<1>6. QED
  BY <1>5 DEF Greatest

LEMMA GreatestIs ==
  ASSUME NEW n \in Nat, NEW S \in SUBSET (1 .. n), NEW i \in S, \A j \in S : j <= i
  PROVE  Greatest(S) = i
<1>1. Greatest(S) \in S /\ \A j \in S : j <= Greatest(S)
  BY GreatestProperty
<1>2. Greatest(S) \in 1 .. n /\ i \in 1 .. n
  BY <1>1
<1>3. Greatest(S) <= i /\ i <= Greatest(S)
  BY <1>1
<1>4. QED
  BY <1>2, <1>3

-----------------------------------------------------------------------------
LEMMA DocumentType ==
  ASSUME NEW d \in Documents
  PROVE  Len(d) \in Nat /\ DOMAIN d = 1 .. Len(d) /\ \A i \in 1 .. Len(d) : d[i] \in Line
BY DEF Documents

(* The owner of a line by the last header before it.                        *)
LEMMA OwnerIs ==
  ASSUME NEW d \in Documents, NEW i \in 1 .. Len(d), NEW h \in Headers(d), h <= i,
         \A g \in Headers(d) : g <= i => g <= h
  PROVE  Owner(d, i) = d[h].section
<1> DEFINE S == {g \in Headers(d) : g <= i}
<1>1. S \in SUBSET (1 .. Len(d)) /\ h \in S /\ \A g \in S : g <= h
  BY DocumentType DEF Headers
<1>2. Greatest(S) = h
  BY <1>1, DocumentType, GreatestIs
<1>3. QED
  BY <1>1, <1>2 DEF Owner, HeaderOf

LEMMA OwnerCases ==
  ASSUME NEW d \in Documents, NEW i \in 1 .. Len(d)
  PROVE  \/ /\ \A g \in Headers(d) : ~(g <= i)
            /\ Owner(d, i) = Nothing
         \/ \E h \in Headers(d) : /\ h <= i /\ \A g \in Headers(d) : g <= i => g <= h
                                  /\ Owner(d, i) = d[h].section
<1> DEFINE S == {g \in Headers(d) : g <= i}
<1>1. CASE S = {}
  BY <1>1 DEF Owner
<1>2. CASE S # {}
  <2>1. S \in SUBSET (1 .. Len(d))
    BY DocumentType DEF Headers
  <2>2. Greatest(S) \in S /\ \A g \in S : g <= Greatest(S)
    BY <1>2, <2>1, DocumentType, GreatestProperty
  <2>3. QED
    BY <1>2, <2>2 DEF Owner, HeaderOf
<1>3. QED
  BY <1>1, <1>2
-----------------------------------------------------------------------------
(* A line inserted into a document: what is found in it, and in which       *)
(* section the lines stand.                                                 *)
Shift(at, i) == IF i < at THEN i ELSE i + 1

LEMMA InsertedType ==
  ASSUME NEW d \in Documents, NEW at \in 1 .. Len(d) + 1, NEW l \in Line
  PROVE  /\ Inserted(d, at, l) \in Documents
         /\ Len(Inserted(d, at, l)) = Len(d) + 1
         /\ Inserted(d, at, l)[at] = l
         /\ \A i \in 1 .. Len(d) : /\ Shift(at, i) \in 1 .. Len(d) + 1
                                   /\ Inserted(d, at, l)[Shift(at, i)] = d[i]
         /\ \A i \in 1 .. Len(d) + 1 :
               i # at => \E j \in 1 .. Len(d) : i = Shift(at, j)
<1> DEFINE e == Inserted(d, at, l)
<1>1. Len(d) \in Nat /\ \A i \in 1 .. Len(d) : d[i] \in Line
  BY DocumentType
<1>2. e \in [1 .. Len(d) + 1 -> Line]
  BY <1>1 DEF Inserted
<1>3. e \in Seq(Line) /\ Len(e) = Len(d) + 1
  BY <1>1, <1>2
<1>4. e[at] = l
  BY <1>1 DEF Inserted
<1>5. ASSUME NEW i \in 1 .. Len(d)
      PROVE  Shift(at, i) \in 1 .. Len(d) + 1 /\ e[Shift(at, i)] = d[i]
  BY <1>1 DEF Inserted, Shift
<1>6. ASSUME NEW i \in 1 .. Len(d) + 1, i # at
      PROVE  \E j \in 1 .. Len(d) : i = Shift(at, j)
  <2>1. CASE i < at
    BY <1>1, <2>1 DEF Shift
  <2>2. CASE i > at
    <3>1. i - 1 \in 1 .. Len(d) /\ i = Shift(at, i - 1)
      BY <1>1, <2>2 DEF Shift
    <3>2. QED
      BY <3>1
  <2>3. QED
    BY <1>1, <1>6, <2>1, <2>2
<1>7. QED
  BY <1>3, <1>4, <1>5, <1>6 DEF Documents

LEMMA ShiftIsMonotonic ==
  ASSUME NEW at \in Nat, NEW i \in Nat, NEW j \in Nat
  PROVE  /\ i <= j <=> Shift(at, i) <= Shift(at, j)
         /\ Shift(at, i) \in Nat
         /\ Shift(at, i) # at
         /\ at <= Shift(at, i) <=> at <= i
BY DEF Shift

LEMMA InsertedHits ==
  ASSUME NEW d \in Documents, NEW at \in 1 .. Len(d) + 1, NEW l \in Line, NEW s, NEW k
  PROVE  Hits(Inserted(d, at, l), s, k) =
           {Shift(at, i) : i \in Hits(d, s, k)} \cup (IF IsKey(l, s, k) THEN {at} ELSE {})
<1> DEFINE e == Inserted(d, at, l)
<1>1. DOMAIN d = 1 .. Len(d) /\ DOMAIN e = 1 .. Len(d) + 1
  BY InsertedType, DocumentType
<1>2. ASSUME NEW i \in Hits(e, s, k)
      PROVE  i \in {Shift(at, j) : j \in Hits(d, s, k)} \/ (i = at /\ IsKey(l, s, k))
  <2>1. i \in 1 .. Len(d) + 1 /\ IsKey(e[i], s, k)
    BY <1>1 DEF Hits
  <2>2. CASE i = at
    BY <2>1, <2>2, InsertedType
  <2>3. CASE i # at
    <3>1. PICK j \in 1 .. Len(d) : i = Shift(at, j)
      BY <2>1, <2>3, InsertedType
    <3>2. IsKey(d[j], s, k)
      BY <2>1, <3>1, InsertedType
    <3>3. QED
      BY <1>1, <3>1, <3>2 DEF Hits
  <2>4. QED
    BY <2>2, <2>3
<1>3. ASSUME NEW i \in Hits(d, s, k) PROVE Shift(at, i) \in Hits(e, s, k)
  <2>1. i \in 1 .. Len(d) /\ IsKey(d[i], s, k)
    BY <1>1 DEF Hits
  <2>2. Shift(at, i) \in 1 .. Len(d) + 1 /\ e[Shift(at, i)] = d[i]
    BY <2>1, InsertedType
  <2>3. QED
    BY <1>1, <2>1, <2>2 DEF Hits
<1>4. IsKey(l, s, k) => at \in Hits(e, s, k)
  BY <1>1, InsertedType DEF Hits
<1>5. QED
  BY <1>2, <1>3, <1>4

(* A line that is not about a key changes nothing of what is read for it.   *)
LEMMA GetPastInsertion ==
  ASSUME NEW d \in Documents, NEW at \in 1 .. Len(d) + 1, NEW l \in Line,
         NEW s, NEW k, NEW default, ~IsKey(l, s, k)
  PROVE  Get(Inserted(d, at, l), s, k, default) = Get(d, s, k, default)
<1> DEFINE e == Inserted(d, at, l)
           H == Hits(d, s, k)
<1>1. Hits(e, s, k) = {Shift(at, i) : i \in H}
  BY InsertedHits
<1>2. CASE H = {}
  BY <1>1, <1>2 DEF Get
<1>3. CASE H # {}
  <2>1. H \in SUBSET (1 .. Len(d)) /\ H \in SUBSET Nat /\ Len(d) \in Nat
    BY DocumentType DEF Hits
  <2>2. Least(H) \in H /\ \A j \in H : Least(H) <= j
    BY <1>3, <2>1, LeastProperty
  <2>3. /\ {Shift(at, i) : i \in H} \in SUBSET Nat
        /\ Shift(at, Least(H)) \in {Shift(at, i) : i \in H}
        /\ \A j \in {Shift(at, i) : i \in H} : Shift(at, Least(H)) <= j
    BY <2>1, <2>2, ShiftIsMonotonic
  <2>4. Least(Hits(e, s, k)) = Shift(at, Least(H))
    BY <1>1, <2>3, LeastIs
  <2>5. e[Shift(at, Least(H))] = d[Least(H)]
    BY <2>1, <2>2, InsertedType
  <2>6. QED
    BY <1>1, <1>3, <2>4, <2>5 DEF Get
<1>4. QED
  BY <1>2, <1>3

(* A key that was not there is found where it was inserted.                 *)
LEMMA GetInserted ==
  ASSUME NEW d \in Documents, NEW at \in 1 .. Len(d) + 1, NEW l \in Line,
         NEW s, NEW k, NEW default, IsKey(l, s, k), Hits(d, s, k) = {}
  PROVE  Get(Inserted(d, at, l), s, k, default) = l.value
<1>1. Hits(Inserted(d, at, l), s, k) = {at}
  BY InsertedHits
<1>2. at \in Nat
  BY DocumentType
<1>3. Least({at}) = at
  BY <1>2, LeastIs
<1>4. QED
  BY <1>1, <1>3, InsertedType DEF Get
-----------------------------------------------------------------------------
LEMMA AppendIsInsertion ==
  ASSUME NEW d \in Documents, NEW l \in Line
  PROVE  Append(d, l) = Inserted(d, Len(d) + 1, l)
<1> DEFINE e == Inserted(d, Len(d) + 1, l)
           a == Append(d, l)
<1>1. Len(d) \in Nat /\ d \in Seq(Line)
  BY DEF Documents
<1>2. /\ a \in Seq(Line) /\ Len(a) = Len(d) + 1
      /\ \A i \in 1 .. Len(d) : a[i] = d[i]
      /\ a[Len(d) + 1] = l
  BY <1>1, AppendProperties
<1> HIDE DEF a
<1>3. a \in [1 .. Len(d) + 1 -> Line]
  <2>1. a \in [1 .. Len(a) -> Line]
    BY <1>2
  <2>2. QED
    BY <1>2, <2>1
<1>4. e \in [1 .. Len(d) + 1 -> Line]
  <2>1. Len(d) + 1 \in 1 .. Len(d) + 1
    BY <1>1
  <2>2. e \in Seq(Line) /\ Len(e) = Len(d) + 1
    BY <2>1, InsertedType DEF Documents
  <2>3. QED
    BY <1>1, <2>2
<1>5. \A i \in 1 .. Len(d) + 1 : a[i] = e[i]
  BY <1>1, <1>2 DEF Inserted
<1>6. QED
  BY <1>3, <1>4, <1>5 DEF a

(* Where insert_kv puts a key of a section that is there: behind its last   *)
(* header, before the next one of any section.                             *)
LEMMA EndOfSection ==
  ASSUME NEW d \in Documents, NEW h \in Headers(d)
  PROVE  /\ EndOf(d, h) \in 1 .. Len(d) + 1
         /\ h < EndOf(d, h)
         /\ \A g \in Headers(d) : g < EndOf(d, h) => g <= h
<1>1. Headers(d) \in SUBSET (1 .. Len(d)) /\ Len(d) \in Nat
  BY DocumentType DEF Headers
<1>2. NextHeaders(d, h) = {j \in Headers(d) : j > h}
  BY DEF NextHeaders
<1>3. CASE NextHeaders(d, h) = {}
  BY <1>1, <1>2, <1>3 DEF EndOf
<1>4. CASE NextHeaders(d, h) # {}
  <2>1. NextHeaders(d, h) \in SUBSET Nat
    BY <1>1, <1>2
  <2>2. /\ EndOf(d, h) \in NextHeaders(d, h)
        /\ \A j \in NextHeaders(d, h) : EndOf(d, h) <= j
    BY <1>4, <2>1, LeastProperty DEF EndOf
  <2>3. QED
    BY <1>1, <1>2, <2>2
<1>5. QED
  BY <1>3, <1>4
-----------------------------------------------------------------------------
(* Two documents with the same headers in the same places, and with the     *)
(* same keys.                                                               *)
SameHeaders(d, e) ==
  /\ Len(d) = Len(e)
  /\ \A i \in 1 .. Len(d) : /\ d[i].kind = e[i].kind
                            /\ d[i].kind = "section" => d[i].section = e[i].section

LEMMA SameOwners ==
  ASSUME NEW d \in Documents, NEW e \in Documents, SameHeaders(d, e), NEW i \in 1 .. Len(d)
  PROVE  Owner(e, i) = Owner(d, i)
<1>1. Headers(d) = Headers(e)
  BY DocumentType DEF Headers, SameHeaders
<1>2. CASE \A g \in Headers(d) : ~(g <= i)
  BY <1>1, <1>2 DEF Owner
<1>3. CASE \E h \in Headers(d) : /\ h <= i /\ \A g \in Headers(d) : g <= i => g <= h
                                 /\ Owner(d, i) = d[h].section
  <2>1. PICK h \in Headers(d) : /\ h <= i /\ \A g \in Headers(d) : g <= i => g <= h
                                /\ Owner(d, i) = d[h].section
    BY <1>3
  <2>2. h \in 1 .. Len(d) /\ d[h].kind = "section"
    BY DocumentType DEF Headers
  <2>3. Owner(e, i) = e[h].section
    BY <1>1, <2>1, OwnerIs DEF SameHeaders
  <2>4. QED
    BY <2>1, <2>2, <2>3 DEF SameHeaders
<1>4. QED
  BY <1>2, <1>3, OwnerCases

LEMMA SameKeys ==
  ASSUME NEW d \in Documents, NEW e \in Documents, NEW s, NEW k, NEW default,
         Len(d) = Len(e),
         \A i \in 1 .. Len(d) : /\ IsKey(d[i], s, k) <=> IsKey(e[i], s, k)
                                /\ IsKey(d[i], s, k) => d[i].value = e[i].value
  PROVE  Get(e, s, k, default) = Get(d, s, k, default)
<1>0. DOMAIN d = 1 .. Len(d) /\ DOMAIN e = 1 .. Len(d) /\ Len(d) \in Nat
  BY DocumentType
<1>1. Hits(d, s, k) = Hits(e, s, k)
  <2>1. ASSUME NEW i \in Hits(d, s, k) PROVE i \in Hits(e, s, k)
    <3>1. i \in 1 .. Len(d) /\ IsKey(d[i], s, k)
      BY <1>0 DEF Hits
    <3>2. IsKey(e[i], s, k)
      BY <3>1, Zenon
    <3>3. QED
      BY <1>0, <3>1, <3>2 DEF Hits
  <2>2. ASSUME NEW i \in Hits(e, s, k) PROVE i \in Hits(d, s, k)
    <3>1. i \in 1 .. Len(d) /\ IsKey(e[i], s, k)
      BY <1>0 DEF Hits
    <3>2. IsKey(d[i], s, k)
      BY <3>1, Zenon
    <3>3. QED
      BY <1>0, <3>1, <3>2 DEF Hits
  <2>3. QED
    BY <2>1, <2>2
<1>2. CASE Hits(d, s, k) = {}
  BY <1>1, <1>2 DEF Get
<1>3. CASE Hits(d, s, k) # {}
  <2>1. Hits(d, s, k) \in SUBSET Nat
    BY <1>0 DEF Hits
  <2>2. Least(Hits(d, s, k)) \in Hits(d, s, k)
    BY <1>3, <2>1, LeastProperty
  <2>3. d[Least(Hits(d, s, k))].value = e[Least(Hits(d, s, k))].value
    <3>1. /\ Least(Hits(d, s, k)) \in 1 .. Len(d)
          /\ IsKey(d[Least(Hits(d, s, k))], s, k)
      BY <1>0, <2>2 DEF Hits
    <3>2. QED
      BY <3>1, Zenon
  <2>4. QED
    BY <1>1, <1>3, <2>3 DEF Get
<1>4. QED
  BY <1>2, <1>3

(* What load() returns says of every key where it stands, and a document    *)
(* that does is read back from its text as it is.                          *)
LEMMA LoadIsSectioned ==
  ASSUME NEW f \in Documents
  PROVE  Load(f) \in Documents /\ Len(Load(f)) = Len(f) /\ Sectioned(Load(f))
<1> DEFINE d == Load(f)
<1>1. Len(f) \in Nat /\ DOMAIN f = 1 .. Len(f) /\ \A i \in 1 .. Len(f) : f[i] \in Line
  BY DocumentType
<1>2. ASSUME NEW i \in 1 .. Len(f) PROVE Owner(f, i) \in Names \cup {Nothing}
  <2>1. \A h \in Headers(f) : f[h].section \in Names \cup {Nothing}
    BY <1>1 DEF Headers, Line
  <2>2. QED
    BY <2>1, OwnerCases
<1>3. d \in [1 .. Len(f) -> Line]
  BY <1>1, <1>2 DEF Load, Line
<1>4. d \in Documents /\ Len(d) = Len(f) /\ DOMAIN d = 1 .. Len(f)
  BY <1>1, <1>3 DEF Documents
<1>5. SameHeaders(f, d)
  BY <1>1, <1>4 DEF SameHeaders, Load, Line
<1>6. ASSUME NEW i \in 1 .. Len(f), d[i].kind = "key"
      PROVE  d[i].section = Owner(d, i)
  <2>1. f[i].kind = "key"
    BY <1>5, <1>6 DEF SameHeaders
  <2>2. d[i].section = Owner(f, i)
    BY <1>1, <2>1 DEF Load, Line
  <2>3. QED
    BY <1>4, <1>5, <2>2, SameOwners
<1>7. QED
  BY <1>4, <1>6 DEF Sectioned, Same

LEMMA Reload ==
  ASSUME NEW d \in Documents, Sectioned(d), NEW s, NEW k, NEW default
  PROVE  Text(d) \in Documents /\ IniGetStr(Text(d), s, k, default) = Get(d, s, k, default)
<1> DEFINE f == Text(d)
           e == Load(f)
<1>1. Len(d) \in Nat /\ DOMAIN d = 1 .. Len(d) /\ \A i \in 1 .. Len(d) : d[i] \in Line
  BY DocumentType
<1>2. f \in [1 .. Len(d) -> Line]
  BY <1>1 DEF Text, Line
<1>3. f \in Documents /\ Len(f) = Len(d) /\ DOMAIN f = 1 .. Len(d)
  BY <1>1, <1>2 DEF Documents
<1>4. SameHeaders(d, f)
  BY <1>1, <1>3 DEF SameHeaders, Text, Line
<1>5. e \in Documents /\ Len(e) = Len(d)
  BY <1>3, LoadIsSectioned
<1>6. ASSUME NEW i \in 1 .. Len(d)
      PROVE  /\ IsKey(d[i], s, k) <=> IsKey(e[i], s, k)
             /\ IsKey(d[i], s, k) => d[i].value = e[i].value
  <2>1. CASE d[i].kind = "key"
    <3>1. f[i] = [d[i] EXCEPT !.section = Nothing]
      BY <1>1, <2>1 DEF Text
    <3>2. e[i] = [f[i] EXCEPT !.section = Owner(f, i)]
      BY <1>1, <1>3, <2>1, <3>1 DEF Load, Line
    <3>3. /\ e[i].kind = "key" /\ e[i].key = d[i].key /\ e[i].value = d[i].value
          /\ e[i].section = Owner(f, i)
      BY <1>1, <2>1, <3>1, <3>2 DEF Line
    <3>4. Owner(f, i) = Owner(d, i)
      BY <1>3, <1>4, SameOwners
    <3>5. Same(d[i].section, e[i].section)
      BY <1>1, <2>1, <3>3, <3>4 DEF Sectioned
    <3>6. QED
      BY <2>1, <3>3, <3>5 DEF IsKey, Same
  <2>2. CASE d[i].kind # "key"
    <3>1. e[i].kind # "key"
      BY <1>1, <1>3, <2>2 DEF Text, Load
    <3>2. QED
      BY <2>2, <3>1 DEF IsKey
  <2>3. QED
    BY <2>1, <2>2
<1>7. Get(e, s, k, default) = Get(d, s, k, default)
  BY <1>5, <1>6, SameKeys
<1>8. QED
  BY <1>3, <1>7 DEF IniGetStr
-----------------------------------------------------------------------------
(* The steps of insert_kv keep every key where it will be found.            *)
LEMMA OwnersPastInsertion ==
  ASSUME NEW d \in Documents, NEW at \in 1 .. Len(d) + 1, NEW l \in Line,
         l.kind # "section" \/ at = Len(d) + 1, NEW i \in 1 .. Len(d)
  PROVE  Owner(Inserted(d, at, l), Shift(at, i)) = Owner(d, i)
<1> DEFINE e == Inserted(d, at, l)
           n == Shift(at, i)
<1>1. /\ Len(d) \in Nat /\ DOMAIN d = 1 .. Len(d)
      /\ e \in Documents /\ Len(e) = Len(d) + 1 /\ DOMAIN e = 1 .. Len(d) + 1
      /\ n \in 1 .. Len(d) + 1
  BY DocumentType, InsertedType
<1>2. ASSUME NEW g \in Headers(e), g <= n
      PROVE  \E j \in Headers(d) : g = Shift(at, j) /\ j <= i
  <2>1. g \in 1 .. Len(d) + 1 /\ e[g].kind = "section"
    BY <1>1 DEF Headers
  <2>2. CASE g = at
    <3>1. at = Len(d) + 1
      BY <2>1, <2>2, InsertedType
    <3>2. QED
      BY <1>1, <1>2, <2>2, <3>1 DEF Shift
  <2>3. CASE g # at
    <3>1. PICK j \in 1 .. Len(d) : g = Shift(at, j)
      BY <2>1, <2>3, InsertedType
    <3>2. j \in Headers(d)
      <4>1. d[j].kind = "section"
        BY <2>1, <3>1, InsertedType
      <4>2. QED
        BY <1>1, <4>1 DEF Headers
    <3>3. j <= i
      BY <1>1, <1>2, <3>1, ShiftIsMonotonic
    <3>4. QED
      BY <3>1, <3>2, <3>3
  <2>4. QED
    BY <2>2, <2>3
<1>3. CASE /\ \A g \in Headers(d) : ~(g <= i)
           /\ Owner(d, i) = Nothing
  <2>1. {g \in Headers(e) : g <= n} = {}
    BY <1>2, <1>3
  <2>2. QED
    BY <1>3, <2>1 DEF Owner
<1>4. CASE \E h \in Headers(d) : /\ h <= i /\ \A g \in Headers(d) : g <= i => g <= h
                                 /\ Owner(d, i) = d[h].section
  <2>1. PICK h \in Headers(d) : /\ h <= i /\ \A g \in Headers(d) : g <= i => g <= h
                                /\ Owner(d, i) = d[h].section
    BY <1>4
  <2>2. h \in 1 .. Len(d) /\ d[h].kind = "section"
    BY <1>1 DEF Headers
  <2>3. Shift(at, h) \in 1 .. Len(d) + 1 /\ e[Shift(at, h)] = d[h]
    BY <2>2, InsertedType
  <2>4. Shift(at, h) \in Headers(e)
    BY <1>1, <2>2, <2>3 DEF Headers
  <2>5. Shift(at, h) <= n
    BY <1>1, <2>1, <2>2, ShiftIsMonotonic
  <2>6. ASSUME NEW g \in Headers(e), g <= n PROVE g <= Shift(at, h)
    <3>1. PICK j \in Headers(d) : g = Shift(at, j) /\ j <= i
      BY <1>2, <2>6
    <3>2. j <= h /\ j \in 1 .. Len(d)
      BY <1>1, <2>1, <3>1 DEF Headers
    <3>3. QED
      BY <1>1, <2>2, <3>1, <3>2, ShiftIsMonotonic
  <2>7. Owner(e, n) = e[Shift(at, h)].section
    BY <1>1, <2>4, <2>5, <2>6, OwnerIs
  <2>8. QED
    BY <2>1, <2>3, <2>7
<1>5. QED
  BY <1>3, <1>4, OwnerCases

LEMMA InsertedSectioned ==
  ASSUME NEW d \in Documents, NEW at \in 1 .. Len(d) + 1, NEW l \in Line, Sectioned(d),
         l.kind # "section" \/ at = Len(d) + 1,
         l.kind = "key" => Same(l.section, Owner(Inserted(d, at, l), at))
  PROVE  Sectioned(Inserted(d, at, l))
<1> DEFINE e == Inserted(d, at, l)
<1>1. DOMAIN d = 1 .. Len(d) /\ DOMAIN e = 1 .. Len(d) + 1
  BY DocumentType, InsertedType
<1>2. SUFFICES ASSUME NEW i \in 1 .. Len(d) + 1, e[i].kind = "key"
               PROVE  Same(e[i].section, Owner(e, i))
  BY <1>1 DEF Sectioned
<1>3. CASE i = at
  BY <1>2, <1>3, InsertedType
<1>4. CASE i # at
  <2>1. PICK j \in 1 .. Len(d) : i = Shift(at, j)
    BY <1>4, InsertedType
  <2>2. e[i] = d[j] /\ Owner(e, i) = Owner(d, j)
    BY <2>1, InsertedType, OwnersPastInsertion
  <2>3. QED
    BY <1>1, <1>2, <2>2 DEF Sectioned
<1>5. QED
  BY <1>3, <1>4

LEMMA ApartIsSectioned ==
  ASSUME NEW d \in Documents, Sectioned(d)
  PROVE  Apart(d) \in Documents /\ Sectioned(Apart(d))
<1>1. Len(d) \in Nat /\ Len(d) + 1 \in 1 .. Len(d) + 1
  BY DocumentType
<1>2. Empty \in Line /\ Empty.kind = "empty"
  BY DEF Empty, Line
<1>3. Append(d, Empty) \in Documents /\ Sectioned(Append(d, Empty))
  BY <1>1, <1>2, AppendIsInsertion, InsertedType, InsertedSectioned
<1>4. QED
  BY <1>3 DEF Apart

(* insert_kv writes where the key will be found.                            *)
LEMMA InsertKvIsSectioned ==
  ASSUME NEW d \in Documents, Sectioned(d), NEW s \in Names, NEW k \in Names, NEW v \in Values
  PROVE  InsertKv(d, s, k, v) \in Documents /\ Sectioned(InsertKv(d, s, k, v))
<1> DEFINE l == KeyValue(s, k, v)
<1>1. l \in Line /\ l.kind = "key" /\ l.section = s
  BY DEF KeyValue, Line
<1>2. CASE HeadersOf(d, s) = {}
  <2> DEFINE d1 == Apart(d)
             d2 == Append(d1, Header(s))
             e == Append(d2, l)
  <2>1. d1 \in Documents /\ Sectioned(d1)
    BY ApartIsSectioned
  <2>2. Header(s) \in Line /\ Header(s).kind = "section" /\ Header(s).section = s
    BY DEF Header, Line
  <2>3. Len(d1) \in Nat /\ Len(d1) + 1 \in 1 .. Len(d1) + 1
    BY <2>1, DocumentType
  <2> HIDE DEF d1
  <2>4. d2 = Inserted(d1, Len(d1) + 1, Header(s))
    BY <2>1, <2>2, AppendIsInsertion
  <2>5. /\ d2 \in Documents /\ Len(d2) = Len(d1) + 1
        /\ d2[Len(d1) + 1] = Header(s)
        /\ Sectioned(d2)
    BY <2>1, <2>2, <2>3, <2>4, InsertedType, InsertedSectioned
  <2>6. Len(d2) + 1 \in 1 .. Len(d2) + 1 /\ Len(d2) \in 1 .. Len(d2)
    BY <2>3, <2>5
  <2> HIDE DEF d2
  <2>7. e = Inserted(d2, Len(d2) + 1, l)
    BY <1>1, <2>5, AppendIsInsertion
  <2> HIDE DEF e
  <2>8. e \in Documents /\ Len(e) = Len(d2) + 1
    BY <1>1, <2>5, <2>6, <2>7, InsertedType
  <2>9. e[Len(d2)] = Header(s) /\ e[Len(d2) + 1] = l
    <3>1. Inserted(d2, Len(d2) + 1, l)[Len(d2)] = d2[Len(d2)]
      BY <2>6 DEF Inserted
    <3>2. Inserted(d2, Len(d2) + 1, l)[Len(d2) + 1] = l
      BY <1>1, <2>5, <2>6, InsertedType
    <3>3. QED
      BY <2>5, <2>7, <3>1, <3>2
  <2>10. Owner(e, Len(e)) = s
    <3>1. Len(d2) \in Headers(e)
      BY <2>2, <2>6, <2>8, <2>9, DocumentType DEF Headers
    <3>2. \A g \in Headers(e) : g <= Len(d2)
      BY <1>1, <2>6, <2>8, <2>9, DocumentType DEF Headers
    <3>3. Owner(e, Len(e)) = e[Len(d2)].section
      BY <2>6, <2>8, <3>1, <3>2, OwnerIs
    <3>4. QED
      BY <2>2, <2>9, <3>3
  <2>11. Sectioned(e)
    BY <1>1, <2>5, <2>6, <2>7, <2>8, <2>10, InsertedSectioned DEF Same
  <2>12. QED
    BY <1>2, <2>8, <2>11 DEF InsertKv, d1, d2, e
<1>3. CASE HeadersOf(d, s) # {}
  <2> DEFINE h == Greatest(HeadersOf(d, s))
             at == EndOf(d, h)
             e == Inserted(d, at, l)
  <2>1. Len(d) \in Nat /\ DOMAIN d = 1 .. Len(d)
    BY DocumentType
  <2>2. HeadersOf(d, s) \in SUBSET (1 .. Len(d))
    BY <2>1 DEF HeadersOf, Headers
  <2>3. h \in HeadersOf(d, s)
    BY <1>3, <2>1, <2>2, GreatestProperty
  <2> HIDE DEF h
  <2>4. h \in Headers(d) /\ h \in 1 .. Len(d) /\ d[h].kind = "section" /\ Same(d[h].section, s)
    BY <2>1, <2>3 DEF HeadersOf, Headers
  <2>5. at \in 1 .. Len(d) + 1 /\ h < at /\ \A g \in Headers(d) : g < at => g <= h
    BY <2>4, EndOfSection
  <2> HIDE DEF at
  <2>6. e \in Documents /\ Len(e) = Len(d) + 1 /\ e[at] = l /\ DOMAIN e = 1 .. Len(d) + 1
    BY <1>1, <2>5, InsertedType, DocumentType
  <2>7. \A i \in 1 .. Len(d) : i < at => e[i] = d[i]
    BY <1>1, <2>1, <2>5, InsertedType DEF Shift
  <2> HIDE DEF e
  <2>8. h \in Headers(e)
    BY <2>1, <2>4, <2>5, <2>6, <2>7 DEF Headers
  <2>9. ASSUME NEW g \in Headers(e), g <= at PROVE g <= h
    <3>1. g \in 1 .. Len(d) + 1 /\ e[g].kind = "section"
      BY <2>6 DEF Headers
    <3>2. g < at /\ g \in 1 .. Len(d)
      BY <1>1, <2>1, <2>5, <2>6, <2>9, <3>1
    <3>3. g \in Headers(d)
      BY <2>1, <2>7, <3>1, <3>2 DEF Headers
    <3>4. QED
      BY <2>5, <3>2, <3>3
  <2>10. Owner(e, at) = d[h].section
    <3>1. Owner(e, at) = e[h].section
      BY <2>1, <2>4, <2>5, <2>6, <2>8, <2>9, OwnerIs
    <3>2. QED
      BY <2>4, <2>5, <2>7, <3>1
  <2>11. Sectioned(e)
    BY <1>1, <2>4, <2>5, <2>10, InsertedSectioned DEF Same, e
  <2>12. QED
    BY <1>3, <2>6, <2>11 DEF InsertKv, e, at, h
<1>4. QED
  BY <1>2, <1>3

LEMMA SetIsSectioned ==
  ASSUME NEW d \in Documents, Sectioned(d), NEW s \in Names, NEW k \in Names, NEW v \in Values
  PROVE  Set(d, s, k, v) \in Documents /\ Sectioned(Set(d, s, k, v))
<1>1. CASE Hits(d, s, k) = {}
  BY <1>1, InsertKvIsSectioned DEF Set
<1>2. CASE Hits(d, s, k) # {}
  <2> DEFINE n == Least(Hits(d, s, k))
             e == [d EXCEPT ![n].value = v]
  <2>1. /\ Len(d) \in Nat /\ DOMAIN d = 1 .. Len(d) /\ d \in [1 .. Len(d) -> Line]
        /\ \A i \in 1 .. Len(d) : d[i] \in Line
    BY DocumentType DEF Documents
  <2>2. Hits(d, s, k) \in SUBSET Nat
    BY <2>1 DEF Hits
  <2>3. n \in Hits(d, s, k)
    BY <1>2, <2>2, LeastProperty
  <2>4. n \in 1 .. Len(d)
    BY <2>1, <2>3 DEF Hits
  <2> HIDE DEF n
  <2>5. /\ e[n] = [d[n] EXCEPT !.value = v]
        /\ \A i \in 1 .. Len(d) : i # n => e[i] = d[i]
    BY <2>1, <2>4
  <2>6. e[n] \in Line
    BY <2>1, <2>4, <2>5 DEF Line
  <2>7. e \in [1 .. Len(d) -> Line]
    BY <2>1, <2>4, <2>5, <2>6
  <2>8. e \in Documents /\ Len(e) = Len(d) /\ DOMAIN e = 1 .. Len(d)
    BY <2>1, <2>7 DEF Documents
  <2>9. \A i \in 1 .. Len(d) : e[i].kind = d[i].kind /\ e[i].section = d[i].section
    BY <2>1, <2>4, <2>5 DEF Line
  <2> HIDE DEF e
  <2>10. SameHeaders(d, e)
    BY <2>8, <2>9 DEF SameHeaders
  <2>11. \A i \in 1 .. Len(d) : Owner(e, i) = Owner(d, i)
    BY <2>8, <2>10, SameOwners
  <2>12. Sectioned(e)
    BY <2>1, <2>8, <2>9, <2>11 DEF Sectioned
  <2>13. QED
    BY <1>2, <2>8, <2>12 DEF Set, e, n
<1>3. QED
  BY <1>1, <1>2

-----------------------------------------------------------------------------
(* The new header of insert_kv is about no key.                             *)
LEMMA AppendedHeader ==
  ASSUME NEW d \in Documents, NEW s \in Names, NEW s2, NEW k2, NEW default
  PROVE  LET d1 == Append(Apart(d), Header(s))
         IN  /\ d1 \in Documents
             /\ Get(d1, s2, k2, default) = Get(d, s2, k2, default)
             /\ Hits(d1, s2, k2) = {} <=> Hits(d, s2, k2) = {}
<1>1. ASSUME NEW c \in Documents, NEW l \in Line, l.kind # "key"
      PROVE  /\ Append(c, l) \in Documents
             /\ Get(Append(c, l), s2, k2, default) = Get(c, s2, k2, default)
             /\ Hits(Append(c, l), s2, k2) = {} <=> Hits(c, s2, k2) = {}
  <2> DEFINE at == Len(c) + 1
  <2>1. at \in 1 .. Len(c) + 1
    BY DocumentType
  <2>2. Append(c, l) = Inserted(c, at, l)
    BY AppendIsInsertion
  <2> HIDE DEF at
  <2>3. ~IsKey(l, s2, k2)
    BY <1>1 DEF IsKey
  <2>4. Inserted(c, at, l) \in Documents
    BY <2>1, InsertedType
  <2>5. Get(Inserted(c, at, l), s2, k2, default) = Get(c, s2, k2, default)
    BY <2>1, <2>3, GetPastInsertion
  <2>6. Hits(Inserted(c, at, l), s2, k2) = {} <=> Hits(c, s2, k2) = {}
    <3>1. Hits(Inserted(c, at, l), s2, k2) = {Shift(at, i) : i \in Hits(c, s2, k2)}
      BY <2>1, <2>3, InsertedHits
    <3>2. QED
      BY <3>1
  <2>7. QED
    BY <2>2, <2>4, <2>5, <2>6
<1>2. Empty \in Line /\ Empty.kind # "key" /\ Header(s) \in Line /\ Header(s).kind # "key"
  BY DEF Empty, Header, Line
<1>3. /\ Apart(d) \in Documents
      /\ Get(Apart(d), s2, k2, default) = Get(d, s2, k2, default)
      /\ Hits(Apart(d), s2, k2) = {} <=> Hits(d, s2, k2) = {}
  BY <1>1, <1>2 DEF Apart
<1>4. QED
  BY <1>1, <1>2, <1>3

(* The key that was set is read.                                            *)
LEMMA GetWhatWasSet ==
  ASSUME NEW d \in Documents, NEW s \in Names, NEW k \in Names, NEW v \in Values, NEW default
  PROVE  Get(Set(d, s, k, v), s, k, default) = v
<1> DEFINE l == KeyValue(s, k, v)
<1>1. l \in Line /\ IsKey(l, s, k) /\ l.value = v
  BY DEF KeyValue, Line, IsKey, Same
<1>2. CASE Hits(d, s, k) # {}
  <2> DEFINE n == Least(Hits(d, s, k))
             e == [d EXCEPT ![n].value = v]
  <2>1. DOMAIN d = 1 .. Len(d) /\ \A i \in 1 .. Len(d) : d[i] \in Line
    BY DocumentType
  <2>2. Hits(d, s, k) \in SUBSET Nat
    BY <2>1 DEF Hits
  <2>3. n \in Hits(d, s, k)
    BY <1>2, <2>2, LeastProperty
  <2>4. n \in DOMAIN d /\ d[n] \in Line
    BY <2>1, <2>3 DEF Hits
  <2>5. DOMAIN e = DOMAIN d /\ e[n].value = v
    BY <2>4 DEF Line
  <2>6. \A i \in DOMAIN d : IsKey(e[i], s, k) <=> IsKey(d[i], s, k)
    BY <2>1, <2>4 DEF Line, IsKey
  <2>7. Hits(e, s, k) = Hits(d, s, k)
    BY <2>5, <2>6 DEF Hits
  <2>8. QED
    BY <1>2, <2>5, <2>7 DEF Set, Get
<1>3. CASE Hits(d, s, k) = {} /\ HeadersOf(d, s) # {}
  <2> DEFINE h == Greatest(HeadersOf(d, s))
  <2>1. Len(d) \in Nat /\ HeadersOf(d, s) \in SUBSET (1 .. Len(d))
    BY DocumentType DEF HeadersOf, Headers
  <2>2. h \in HeadersOf(d, s)
    BY <1>3, <2>1, GreatestProperty
  <2>3. EndOf(d, h) \in 1 .. Len(d) + 1
    BY <2>2, EndOfSection DEF HeadersOf
  <2>4. QED
    BY <1>1, <1>3, <2>3, GetInserted DEF Set, InsertKv
<1>4. CASE Hits(d, s, k) = {} /\ HeadersOf(d, s) = {}
  <2> DEFINE d1 == Append(Apart(d), Header(s))
  <2>1. d1 \in Documents /\ Hits(d1, s, k) = {}
    BY <1>4, AppendedHeader
  <2>2. Len(d1) + 1 \in 1 .. Len(d1) + 1
    BY <2>1, DocumentType
  <2> HIDE DEF d1
  <2>3. Append(d1, l) = Inserted(d1, Len(d1) + 1, l)
    BY <1>1, <2>1, AppendIsInsertion
  <2>4. Get(Append(d1, l), s, k, default) = v
    BY <1>1, <2>1, <2>2, <2>3, GetInserted
  <2>5. QED
    BY <1>4, <2>4 DEF Set, InsertKv, d1
<1>5. QED
  BY <1>2, <1>3, <1>4

(* Every other key is as it was.                                            *)
LEMMA GetPastSet ==
  ASSUME NEW d \in Documents, NEW s \in Names, NEW k \in Names, NEW v \in Values,
         NEW s2 \in Names, NEW k2 \in Names, ~(Same(s, s2) /\ Same(k, k2)), NEW default
  PROVE  Get(Set(d, s, k, v), s2, k2, default) = Get(d, s2, k2, default)
<1> DEFINE l == KeyValue(s, k, v)
<1>1. l \in Line /\ ~IsKey(l, s2, k2)
  BY DEF KeyValue, Line, IsKey, Same
<1>2. CASE Hits(d, s, k) # {}
  <2> DEFINE n == Least(Hits(d, s, k))
             e == [d EXCEPT ![n].value = v]
  <2>1. /\ Len(d) \in Nat /\ DOMAIN d = 1 .. Len(d) /\ d \in [1 .. Len(d) -> Line]
        /\ \A i \in 1 .. Len(d) : d[i] \in Line
    BY DocumentType DEF Documents
  <2>2. Hits(d, s, k) \in SUBSET Nat
    BY <2>1 DEF Hits
  <2>3. n \in Hits(d, s, k)
    BY <1>2, <2>2, LeastProperty
  <2>4. n \in 1 .. Len(d) /\ IsKey(d[n], s, k)
    BY <2>1, <2>3 DEF Hits
  <2> HIDE DEF n
  <2>5. ~IsKey(d[n], s2, k2)
    BY <2>4 DEF IsKey, Same
  <2>6. /\ e[n] = [d[n] EXCEPT !.value = v]
        /\ \A i \in 1 .. Len(d) : i # n => e[i] = d[i]
    BY <2>1, <2>4
  <2>7. e \in [1 .. Len(d) -> Line] /\ ~IsKey(e[n], s2, k2)
    <3>1. e[n] \in Line /\ ~IsKey(e[n], s2, k2)
      BY <2>1, <2>4, <2>5, <2>6 DEF Line, IsKey
    <3>2. QED
      BY <2>1, <2>4, <2>6, <3>1
  <2>8. e \in Documents /\ Len(e) = Len(d)
    BY <2>1, <2>7 DEF Documents
  <2> HIDE DEF e
  <2>9. ASSUME NEW i \in 1 .. Len(d)
        PROVE  /\ IsKey(d[i], s2, k2) <=> IsKey(e[i], s2, k2)
               /\ IsKey(d[i], s2, k2) => d[i].value = e[i].value
    BY <2>5, <2>6, <2>7, Zenon
  <2>10. Get(e, s2, k2, default) = Get(d, s2, k2, default)
    BY <2>8, <2>9, SameKeys
  <2>11. QED
    BY <1>2, <2>10 DEF Set, e, n
<1>3. CASE Hits(d, s, k) = {} /\ HeadersOf(d, s) # {}
  <2> DEFINE h == Greatest(HeadersOf(d, s))
  <2>1. Len(d) \in Nat /\ HeadersOf(d, s) \in SUBSET (1 .. Len(d))
    BY DocumentType DEF HeadersOf, Headers
  <2>2. h \in HeadersOf(d, s)
    BY <1>3, <2>1, GreatestProperty
  <2>3. EndOf(d, h) \in 1 .. Len(d) + 1
    BY <2>2, EndOfSection DEF HeadersOf
  <2>4. QED
    BY <1>1, <1>3, <2>3, GetPastInsertion DEF Set, InsertKv
<1>4. CASE Hits(d, s, k) = {} /\ HeadersOf(d, s) = {}
  <2> DEFINE d1 == Append(Apart(d), Header(s))
  <2>1. d1 \in Documents /\ Get(d1, s2, k2, default) = Get(d, s2, k2, default)
    BY AppendedHeader
  <2>2. Len(d1) + 1 \in 1 .. Len(d1) + 1
    BY <2>1, DocumentType
  <2> HIDE DEF d1
  <2>3. Append(d1, l) = Inserted(d1, Len(d1) + 1, l)
    BY <1>1, <2>1, AppendIsInsertion
  <2>4. Get(Append(d1, l), s2, k2, default) = Get(d1, s2, k2, default)
    BY <1>1, <2>1, <2>2, <2>3, GetPastInsertion
  <2>5. QED
    BY <1>4, <2>1, <2>4 DEF Set, InsertKv, d1
<1>5. QED
  BY <1>2, <1>3, <1>4
-----------------------------------------------------------------------------
(* A text cut short: the lines before the cut, and a remnant of the one that *)
(* is cut.                                                                  *)
LEMMA CutKeepsLines ==
  ASSUME NEW d \in Documents, NEW n \in DOMAIN d, NEW t \in CutAt(d, n)
  PROVE  /\ t \in Documents /\ Len(t) \in {n - 1, n} /\ n \in 1 .. Len(d)
         /\ \A i \in 1 .. n - 1 : t[i] = Text(d)[i]
<1> DEFINE f == Text(d)
           h == SubSeq(f, 1, n - 1)
<1>1. Len(d) \in Nat /\ DOMAIN d = 1 .. Len(d) /\ \A i \in 1 .. Len(d) : d[i] \in Line
  BY DocumentType
<1>2. f \in [1 .. Len(d) -> Line]
  BY <1>1 DEF Text, Line
<1>3. f \in Seq(Line) /\ Len(f) = Len(d) /\ n \in 1 .. Len(d)
  BY <1>1, <1>2
<1>4. f[n] \in Line
  BY <1>2, <1>3
<1> HIDE DEF f
<1>5. h \in Seq(Line) /\ Len(h) = n - 1 /\ \A i \in 1 .. n - 1 : h[i] = f[i]
  BY <1>1, <1>3
<1> HIDE DEF h
<1>6. Remnants(f[n]) \subseteq Line
  <2>1. Empty \in Line /\ [Empty EXCEPT !.kind = "comment"] \in Line
    BY DEF Empty, Line
  <2>2. \A s \in Names : Header(s) \in Line
    BY DEF Header, Line
  <2>3. \A v \in Values \cup {Nothing} : [f[n] EXCEPT !.value = v] \in Line
    BY <1>4 DEF Line
  <2>4. QED
    BY <2>1, <2>2, <2>3 DEF Remnants
<1>7. CASE t = h
  BY <1>3, <1>5, <1>7 DEF Documents, f
<1>8. ASSUME NEW l \in Line, t = Append(h, l)
      PROVE  t \in Seq(Line) /\ Len(t) = n /\ \A i \in 1 .. n - 1 : t[i] = f[i]
  BY <1>1, <1>3, <1>5, <1>8
<1>9. t = h \/ \E l \in Remnants(f[n]) : t = Append(h, l)
  BY DEF CutAt, f, h
<1>10. CASE \E l \in Remnants(f[n]) : t = Append(h, l)
  <2>1. PICK l \in Line : t = Append(h, l)
    BY <1>6, <1>10
  <2>2. t \in Seq(Line) /\ Len(t) = n /\ \A i \in 1 .. n - 1 : t[i] = f[i]
    BY <1>8, <2>1
  <2>3. QED
    BY <1>3, <2>2 DEF Documents, f
<1>11. QED
  BY <1>7, <1>9, <1>10

(* The section a line stands in is told by the lines up to it.              *)
SameHeadersTo(d, e, m) ==
  /\ m <= Len(d) /\ m <= Len(e)
  /\ \A i \in 1 .. m : /\ d[i].kind = e[i].kind
                       /\ d[i].kind = "section" => d[i].section = e[i].section

LEMMA SameOwnersTo ==
  ASSUME NEW d \in Documents, NEW e \in Documents, NEW m \in Nat, SameHeadersTo(d, e, m),
         NEW i \in 1 .. m
  PROVE  Owner(e, i) = Owner(d, i)
<1>1. /\ Len(d) \in Nat /\ DOMAIN d = 1 .. Len(d) /\ Len(e) \in Nat /\ DOMAIN e = 1 .. Len(e)
      /\ i \in 1 .. Len(d) /\ i \in 1 .. Len(e)
  BY DocumentType DEF SameHeadersTo
<1>2. \A g \in Nat : g <= i => (g \in Headers(d) <=> g \in Headers(e))
  BY <1>1 DEF Headers, SameHeadersTo
<1>3. CASE \A g \in Headers(d) : ~(g <= i)
  <2>1. \A g \in Headers(e) : ~(g <= i)
    BY <1>1, <1>2, <1>3 DEF Headers
  <2>2. QED
    BY <1>3, <2>1 DEF Owner
<1>4. CASE \E h \in Headers(d) : /\ h <= i /\ \A g \in Headers(d) : g <= i => g <= h
                                 /\ Owner(d, i) = d[h].section
  <2>1. PICK h \in Headers(d) : /\ h <= i /\ \A g \in Headers(d) : g <= i => g <= h
                                /\ Owner(d, i) = d[h].section
    BY <1>4
  <2>2. h \in 1 .. m /\ d[h].kind = "section" /\ h \in Headers(e)
    BY <1>1, <1>2, <2>1 DEF Headers
  <2>3. \A g \in Headers(e) : g <= i => g <= h
    BY <1>1, <1>2, <2>1 DEF Headers
  <2>4. Owner(e, i) = e[h].section
    BY <1>1, <2>1, <2>2, <2>3, OwnerIs
  <2>5. QED
    BY <2>1, <2>2, <2>4 DEF SameHeadersTo
<1>5. QED
  BY <1>1, <1>3, <1>4, OwnerCases

(* ... so a key that has a line before the cut reads as it does in the whole *)
(* document.                                                                *)
LEMMA TornKeepsTheHead ==
  ASSUME NEW d \in Documents, Sectioned(d), NEW n \in DOMAIN d, NEW t \in CutAt(d, n),
         NEW s, NEW k, Hits(d, s, k) \cap (1 .. n - 1) # {}, NEW default
  PROVE  IniGetStr(t, s, k, default) = Get(d, s, k, default)
<1> DEFINE e == Load(t)
<1>1. /\ Len(d) \in Nat /\ DOMAIN d = 1 .. Len(d) /\ \A i \in 1 .. Len(d) : d[i] \in Line
      /\ t \in Documents /\ Len(t) \in {n - 1, n} /\ n \in 1 .. Len(d)
      /\ \A i \in 1 .. n - 1 : t[i] = Text(d)[i]
  BY DocumentType, CutKeepsLines
<1>2. /\ e \in Documents /\ Len(e) = Len(t) /\ Len(t) \in Nat
      /\ DOMAIN e = 1 .. Len(t) /\ DOMAIN t = 1 .. Len(t)
  BY <1>1, LoadIsSectioned, DocumentType
<1>3. SameHeadersTo(d, t, n - 1)
  <2>1. ASSUME NEW i \in 1 .. n - 1
        PROVE  /\ d[i].kind = t[i].kind
               /\ d[i].kind = "section" => d[i].section = t[i].section
    <3>1. i \in 1 .. Len(d) /\ d[i] \in Line /\ t[i] = Text(d)[i]
      BY <1>1
    <3>2. t[i] = IF d[i].kind = "key" THEN [d[i] EXCEPT !.section = Nothing] ELSE d[i]
      BY <1>1, <3>1 DEF Text
    <3>3. QED
      BY <3>1, <3>2 DEF Line
  <2>2. n - 1 <= Len(d) /\ n - 1 <= Len(t)
    BY <1>1
  <2>3. QED
    BY <2>1, <2>2 DEF SameHeadersTo
<1>4. ASSUME NEW i \in 1 .. n - 1
      PROVE  /\ IsKey(d[i], s, k) <=> IsKey(e[i], s, k)
             /\ IsKey(d[i], s, k) => d[i].value = e[i].value
  <2>0. i \in 1 .. Len(d) /\ i \in 1 .. Len(t) /\ d[i] \in Line /\ t[i] = Text(d)[i]
    BY <1>1, <1>2
  <2>1. CASE d[i].kind = "key"
    <3>1. t[i] = [d[i] EXCEPT !.section = Nothing]
      BY <1>1, <2>0, <2>1 DEF Text
    <3>2. e[i] = [t[i] EXCEPT !.section = Owner(t, i)]
      BY <1>2, <2>0, <2>1, <3>1 DEF Load, Line
    <3>3. /\ e[i].kind = "key" /\ e[i].key = d[i].key /\ e[i].value = d[i].value
          /\ e[i].section = Owner(t, i)
      BY <2>0, <2>1, <3>1, <3>2 DEF Line
    <3>4. Owner(t, i) = Owner(d, i)
      BY <1>1, <1>3, SameOwnersTo
    <3>5. Same(d[i].section, e[i].section)
      BY <1>1, <2>0, <2>1, <3>3, <3>4 DEF Sectioned
    <3>6. QED
      BY <2>1, <3>3, <3>5 DEF IsKey, Same
  <2>2. CASE d[i].kind # "key"
    <3>1. e[i].kind # "key"
      BY <1>1, <1>2, <2>0, <2>2 DEF Text, Load
    <3>2. QED
      BY <2>2, <3>1 DEF IsKey
  <2>3. QED
    BY <2>1, <2>2
<1> HIDE DEF e
<1> DEFINE m == Least(Hits(d, s, k))
<1>5. /\ m \in Hits(d, s, k) /\ \A j \in Hits(d, s, k) : m <= j
      /\ Hits(d, s, k) \in SUBSET (1 .. Len(d))
  <2>1. Hits(d, s, k) \in SUBSET Nat /\ Hits(d, s, k) # {}
    BY <1>1 DEF Hits
  <2>2. QED
    BY <1>1, <2>1, LeastProperty DEF Hits
<1> HIDE DEF m
<1>6. m \in 1 .. n - 1 /\ m \in 1 .. Len(t)
  BY <1>1, <1>2, <1>5
<1>7. IsKey(d[m], s, k)
  BY <1>5 DEF Hits
<1>8. IsKey(e[m], s, k) /\ d[m].value = e[m].value
  BY <1>4, <1>6, <1>7, Zenon
<1>9. m \in Hits(e, s, k) /\ Hits(e, s, k) \in SUBSET Nat
  BY <1>2, <1>6, <1>8 DEF Hits
<1>10. ASSUME NEW j \in Hits(e, s, k) PROVE m <= j
  <2>1. j \in 1 .. Len(t) /\ IsKey(e[j], s, k)
    BY <1>2 DEF Hits
  <2>2. CASE j \in 1 .. n - 1
    <3>1. IsKey(d[j], s, k)
      BY <1>4, <2>1, <2>2, Zenon
    <3>2. j \in Hits(d, s, k)
      BY <1>1, <2>2, <3>1 DEF Hits
    <3>3. QED
      BY <1>5, <3>2
  <2>3. CASE j \notin 1 .. n - 1
    BY <1>1, <1>2, <1>6, <2>1, <2>3
  <2>4. QED
    BY <2>2, <2>3
<1>11. Least(Hits(e, s, k)) = m
  BY <1>9, <1>10, LeastIs
<1>12. Get(e, s, k, default) = e[m].value
  BY <1>9, <1>11 DEF Get
<1>13. Get(d, s, k, default) = d[m].value
  BY <1>5 DEF Get, m
<1>14. QED
  BY <1>8, <1>12, <1>13 DEF IniGetStr, e
-----------------------------------------------------------------------------
(* The file is torn, and nothing before the cut says what the key is.       *)
Loses(file, d, s, k) ==
  \E n \in DOMAIN d : file \in CutAt(d, n) /\ Hits(d, s, k) \cap (1 .. n - 1) = {}

LEMMA SavedReads ==
  ASSUME NEW f, NEW d \in Documents, Sectioned(d), NEW g \in Saves(f, d), NEW s, NEW k,
         NEW default
  PROVE  \/ ~g.ok /\ g.file = f
         \/ g.ok /\ IniGetStr(g.file, s, k, default) = Get(d, s, k, default)
         \/ g.ok /\ Loses(g.file, d, s, k)
<1>1. CASE g = [file |-> f, ok |-> FALSE]
  BY <1>1
<1>2. CASE g = [file |-> Text(d), ok |-> TRUE]
  BY <1>2, Reload
<1>3. ASSUME NEW t \in Torn(d), g = [file |-> t, ok |-> TRUE]
      PROVE  \/ IniGetStr(t, s, k, default) = Get(d, s, k, default)
             \/ Loses(t, d, s, k)
  <2>1. PICK n \in DOMAIN d : t \in CutAt(d, n)
    BY DEF Torn
  <2>2. QED
    BY <2>1, TornKeepsTheHead DEF Loses
<1>4. CASE \E t \in Torn(d) : g = [file |-> t, ok |-> TRUE]
  <2>1. PICK t \in Torn(d) : g = [file |-> t, ok |-> TRUE]
    BY <1>4
  <2>2. g.ok /\ g.file = t
    BY <2>1
  <2>3. QED
    BY <1>3, <2>1, <2>2
<1>5. QED
  BY <1>1, <1>2, <1>4 DEF Saves

(* IniSetStr of Config.cpp, on any config.ini, whatever comments, repeated  *)
(* sections and spellings of the names it has, whether it could be opened   *)
(* and whichever of its writes is lost: if it answers no, the file is as it *)
(* was; if it answers yes, IniGetStr reads what was written, or the flush   *)
(* that nobody looks at has torn the file before the line of the key, or in *)
(* it.                                                                      *)
THEOREM SetIsReadBack ==
  ASSUME NEW f \in Documents, NEW s \in Names, NEW k \in Names, NEW v \in Values,
         NEW g \in IniSetStr(f, s, k, v), NEW default
  PROVE  \/ ~g.ok /\ g.file = f
         \/ g.ok /\ IniGetStr(g.file, s, k, default) = v
         \/ g.ok /\ \E r \in ReadAs(f) : Loses(g.file, Set(Load(r), s, k, v), s, k)
<1>1. PICK r \in ReadAs(f) : g \in Saves(f, Set(Load(r), s, k, v))
  BY DEF IniSetStr
<1> DEFINE d == Load(r)
           e == Set(d, s, k, v)
<1>2. r \in Documents
  <2>1. <<>> \in Documents
    BY DEF Documents
  <2>2. r = f \/ r = <<>>
    BY Zenon DEF ReadAs
  <2>3. QED
    BY <2>1, <2>2, Zenon
<1>3. d \in Documents /\ Sectioned(d)
  BY <1>2, LoadIsSectioned
<1>4. e \in Documents /\ Sectioned(e)
  BY <1>3, SetIsSectioned
<1>5. Get(e, s, k, default) = v
  BY <1>3, GetWhatWasSet
<1>6. g \in Saves(f, e)
  BY <1>1
<1> HIDE DEF e
<1>7. \/ ~g.ok /\ g.file = f
      \/ g.ok /\ IniGetStr(g.file, s, k, default) = Get(e, s, k, default)
      \/ g.ok /\ Loses(g.file, e, s, k)
  BY <1>4, <1>6, SavedReads
<1>8. CASE g.ok /\ Loses(g.file, e, s, k)
  BY <1>8, Zenon DEF e
<1>9. QED
  BY <1>5, <1>7, <1>8

(* ... and every other key of every section reads as before, if the answer  *)
(* is no or the file could be opened and was not torn before the line of    *)
(* that key, or in it.                                                      *)
THEOREM SetKeepsOthers ==
  ASSUME NEW f \in Documents, NEW s \in Names, NEW k \in Names, NEW v \in Values,
         NEW g \in IniSetStr(f, s, k, v),
         NEW s2 \in Names, NEW k2 \in Names, ~(Same(s, s2) /\ Same(k, k2)), NEW default
  PROVE  \/ IniGetStr(g.file, s2, k2, default) = IniGetStr(f, s2, k2, default)
         \/ g.ok /\ Loses(g.file, Set(Load(f), s, k, v), s2, k2)
         \/ g.ok /\ g \in Saves(f, Set(Load(<<>>), s, k, v))
<1> DEFINE d == Load(f)
           e == Set(d, s, k, v)
<1>1. d \in Documents /\ Sectioned(d)
  BY LoadIsSectioned
<1>2. e \in Documents /\ Sectioned(e)
  BY <1>1, SetIsSectioned
<1>3. Get(e, s2, k2, default) = Get(d, s2, k2, default)
  BY <1>1, GetPastSet
<1>4. g \in Saves(f, e) \/ g \in Saves(f, Set(Load(<<>>), s, k, v))
  BY DEF IniSetStr, ReadAs
<1> HIDE DEF e
<1>5. CASE g \in Saves(f, e)
  <2>1. \/ ~g.ok /\ g.file = f
        \/ g.ok /\ IniGetStr(g.file, s2, k2, default) = Get(e, s2, k2, default)
        \/ g.ok /\ Loses(g.file, e, s2, k2)
    BY <1>2, <1>5, SavedReads
  <2>2. CASE ~g.ok /\ g.file = f
    BY <2>2
  <2>3. CASE g.ok /\ IniGetStr(g.file, s2, k2, default) = Get(e, s2, k2, default)
    BY <1>3, <2>3 DEF IniGetStr
  <2>4. CASE g.ok /\ Loses(g.file, e, s2, k2)
    BY <2>4 DEF e
  <2>5. QED
    BY <2>1, <2>2, <2>3, <2>4
<1>6. CASE g \in Saves(f, Set(Load(<<>>), s, k, v))
  <2> DEFINE u == Set(Load(<<>>), s, k, v)
  <2>1. u \in Documents /\ Sectioned(u)
    <3>1. <<>> \in Documents
      BY DEF Documents
    <3>2. Load(<<>>) \in Documents /\ Sectioned(Load(<<>>))
      BY <3>1, LoadIsSectioned
    <3>3. QED
      BY <3>2, SetIsSectioned
  <2>2. g \in Saves(f, u)
    BY <1>6
  <2> HIDE DEF u
  <2>3. (~g.ok /\ g.file = f) \/ g.ok
    BY <2>1, <2>2, SavedReads
  <2>4. QED
    BY <1>6, <2>3
<1>7. QED
  BY <1>4, <1>5, <1>6
-----------------------------------------------------------------------------
(* The rules of update_policy.cpp, for every policy and every version whose *)
(* first three segments can be read                                         *)

LEMMA ReadableSegments ==
  ASSUME NEW v \in Readable, NEW i \in 1 .. 3
  PROVE  NextSegment(v, i) \in Nat /\ NextSegment(v, i) # Bad
<1>1. v \in Seq(Segments) /\ NextSegment(v, i) # Bad
  BY DEF Readable, Versions
<1>2. CASE i <= Len(v)
  <2>1. v[i] \in Segments
    BY <1>1, <1>2
  <2>2. QED
    BY <1>1, <1>2, <2>1, SegmentAssumption DEF NextSegment, Segments, Bad, SegmentAssumption
<1>3. CASE ~(i <= Len(v))
  BY <1>1, <1>3 DEF NextSegment
<1>4. QED
  BY <1>2, <1>3

(* On readable versions the comparison is the one of their three segments.  *)
LEMMA CompareReadable ==
  ASSUME NEW a \in Readable, NEW b \in Readable
  PROVE  CompareVersion(a, b) =
           IF NextSegment(a, 1) # NextSegment(b, 1)
           THEN IF NextSegment(a, 1) < NextSegment(b, 1) THEN -1 ELSE 1
           ELSE IF NextSegment(a, 2) # NextSegment(b, 2)
           THEN IF NextSegment(a, 2) < NextSegment(b, 2) THEN -1 ELSE 1
           ELSE IF NextSegment(a, 3) # NextSegment(b, 3)
           THEN IF NextSegment(a, 3) < NextSegment(b, 3) THEN -1 ELSE 1
           ELSE 0
<1>1. a # <<>> /\ b # <<>>
  BY DEF Readable
<1>2. \A i \in 1 .. 3 : /\ NextSegment(a, i) # Bad
                        /\ NextSegment(b, i) # Bad
  BY ReadableSegments
<1>3. \A i \in 1 .. 3 : /\ Differ(a, b, i) <=> NextSegment(a, i) # NextSegment(b, i)
                        /\ Verdict(a, b, i) =
                             IF NextSegment(a, i) < NextSegment(b, i) THEN -1 ELSE 1
  BY <1>2 DEF Differ, Verdict
<1>4. QED
  BY <1>1, <1>3 DEF CompareVersion

-----------------------------------------------------------------------------
(* compare_version orders the readable versions: swapped arguments turn its *)
(* answer round, and its answers chain.  (The client relies on it when it   *)
(* compares itself with the minimum and the latest version separately.)     *)
THEOREM CompareIsAnOrder ==
  ASSUME NEW a \in Readable, NEW b \in Readable, NEW c \in Readable
  PROVE  /\ CompareVersion(a, b) \in {-1, 0, 1}
         /\ CompareVersion(b, a) = -CompareVersion(a, b)
         /\ CompareVersion(a, b) <= 0 /\ CompareVersion(b, c) <= 0
              => CompareVersion(a, c) <= 0
         /\ CompareVersion(a, b) <= 0 /\ CompareVersion(b, c) < 0
              => CompareVersion(a, c) < 0
<1> DEFINE A(i) == NextSegment(a, i)
           B(i) == NextSegment(b, i)
           C(i) == NextSegment(c, i)
<1>1. \A i \in 1 .. 3 : A(i) \in Nat /\ B(i) \in Nat /\ C(i) \in Nat
  BY ReadableSegments
<1>2. /\ A(1) \in Nat /\ A(2) \in Nat /\ A(3) \in Nat
      /\ B(1) \in Nat /\ B(2) \in Nat /\ B(3) \in Nat
      /\ C(1) \in Nat /\ C(2) \in Nat /\ C(3) \in Nat
  BY <1>1
<1>3. CompareVersion(a, b) \in {-1, 0, 1}
  BY CompareReadable
<1>4. CompareVersion(b, a) = -CompareVersion(a, b)
  BY <1>2, CompareReadable
<1>5. CompareVersion(a, b) <= 0 /\ CompareVersion(b, c) <= 0 => CompareVersion(a, c) <= 0
  BY <1>2, CompareReadable
<1>6. CompareVersion(a, b) <= 0 /\ CompareVersion(b, c) < 0 => CompareVersion(a, c) < 0
  BY <1>2, CompareReadable
<1>7. QED
  BY <1>3, <1>4, <1>5, <1>6

(* A newer client is never treated more severely than an older one.         *)
THEOREM NewerIsNotWorse ==
  ASSUME NEW p, p.valid \in BOOLEAN, p.latest \in Readable, p.minimum \in Readable,
         NEW old \in Readable, NEW new \in Readable, CompareVersion(old, new) <= 0
  PROVE  Severity[Decision(p, new)] <= Severity[Decision(p, old)]
<1>1. /\ CompareVersion(old, p.latest) \in {-1, 0, 1}
      /\ CompareVersion(new, p.latest) \in {-1, 0, 1}
      /\ CompareVersion(old, p.minimum) \in {-1, 0, 1}
      /\ CompareVersion(new, p.minimum) \in {-1, 0, 1}
  BY CompareIsAnOrder
<1>2. CompareVersion(new, p.latest) = -1 => CompareVersion(old, p.latest) = -1
  BY <1>1, CompareIsAnOrder
<1>3. CompareVersion(new, p.minimum) = -1 => CompareVersion(old, p.minimum) = -1
  BY <1>1, CompareIsAnOrder
<1>4. p.minimum # Unset
  BY DEF Readable, Unset
<1>5. QED
  BY <1>1, <1>2, <1>3, <1>4 DEF Decision, Severity, Unknown

(* Who installs the latest version is left alone, when the minimum is not   *)
(* above it.                                                               *)
THEOREM LatestIsLeftAlone ==
  ASSUME NEW p, p.latest \in Readable, p.minimum \in Readable,
         CompareVersion(p.minimum, p.latest) <= 0,
         NEW current \in Readable, CompareVersion(current, p.latest) = 0
  PROVE  Decision(p, current) = "none"
<1>1. CompareVersion(p.latest, current) <= 0
  BY CompareIsAnOrder
<1>2. CompareVersion(p.minimum, current) <= 0
  BY <1>1, CompareIsAnOrder
<1>3. CompareVersion(current, p.minimum) >= 0 /\ CompareVersion(current, p.minimum) \in {-1, 0, 1}
  BY <1>2, CompareIsAnOrder
<1>4. QED
  BY <1>3 DEF Decision, Unknown

(* When it is above it, nobody is: decide() does not notice, and even the   *)
(* client that has installed the latest version must update.                *)
THEOREM MinimumAboveLatestLocks ==
  ASSUME NEW p, p.valid, p.latest \in Readable, p.minimum \in Readable,
         CompareVersion(p.latest, p.minimum) < 0,
         NEW current \in Readable, CompareVersion(current, p.latest) <= 0
  PROVE  Decision(p, current) = "forced"
<1>1. CompareVersion(current, p.minimum) < 0 /\ CompareVersion(current, p.minimum) \in {-1, 0, 1}
  BY CompareIsAnOrder
<1>2. CompareVersion(current, p.latest) \in {-1, 0, 1} /\ p.minimum # Unset
  BY CompareIsAnOrder DEF Readable, Unset
<1>3. QED
  BY <1>1, <1>2 DEF Decision, Unknown

(* A minimum that cannot be compared with the client forces nobody          *)
(* (update_policy.cpp: a slip of the pen must not lock everybody out).      *)
THEOREM UnreadableMinimumForcesNobody ==
  ASSUME NEW p, NEW current, CompareVersion(current, p.minimum) = Unknown
  PROVE  Decision(p, current) # "forced"
BY DEF Decision, Unknown
=============================================================================
