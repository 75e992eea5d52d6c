--------------------------- MODULE AdminChannelProofs ---------------------------
(***************************************************************************)
(* The token file and the management channel for any number of tokens,       *)
(* threads, connections and commands: no update of the file is lost, a token *)
(* admits one client, and every command keeps the promise of RemoteCall.     *)
(***************************************************************************)
EXTENDS AdminChannel, FiniteSetTheorems, TLAPS

(* Only generated tokens have ever been taken out of the file.              *)
Removed == spent \cup revoked \subseteq 1 .. minted

(* A thread in the middle of a removal has the lock and what it read is what *)
(* the file still is; of the threads of vpn_server one at a time registers.  *)
Removals ==
    \A p \in Procs : job[p].pc = "replace" =>
        /\ lock = p
        /\ job[p].tok \in tokens
        /\ job[p].keep = tokens \ {job[p].tok}
Registrations ==
    \A th \in Threads :
        /\ job[th].pc # "idle" => mutex = th
        /\ job[th].pc = "register" => /\ job[th].tok \in spent
                                      /\ \A a \in admitted : a[1] # job[th].tok
FileInv ==
    /\ FileTypeOK
    /\ TokensAreKept
    /\ Removed
    /\ Removals
    /\ Registrations
    /\ OneAdmissionPerToken
-----------------------------------------------------------------------------
USE TokenFileAssumption DEF TokenFileAssumption, Procs, LockFree

LEMMA FileInitially == FileInit => FileInv
BY DEF FileInit, FileInv, FileTypeOK, TokensAreKept, Removed, Removals, Registrations,
       OneAdmissionPerToken, Idle

(* What is appended is new: no number above minted is in use.               *)
LEMMA AppendStep ==
    ASSUME FileInv, NEW n \in 1 .. MaxTokens, AppendTokens(n)
    PROVE  FileInv'
<1> USE DEF FileInv, FileTypeOK
<1>1. /\ lock = Free
      /\ minted' \in minted .. MaxTokens
      /\ tokens' = tokens \cup ((minted + 1) .. minted')
      /\ UNCHANGED <<lock, mutex, job, revoked, spent, admitted>>
    BY DEF AppendTokens
<1>2. FileTypeOK'
    BY <1>1
<1>3. TokensAreKept' /\ Removed'
    BY <1>1 DEF TokensAreKept, Removed
<1>4. Removals'
    BY <1>1 DEF Removals, TokensAreKept, Removed
<1>5. Registrations' /\ OneAdmissionPerToken'
    BY <1>1 DEF Registrations, OneAdmissionPerToken
<1> QED
    BY <1>2, <1>3, <1>4, <1>5

(* A removal begins: nobody else is between the read and the rename.         *)
LEMMA ReadStep ==
    ASSUME FileInv, NEW p \in Procs, NEW t \in tokens, ReadAllBut(p, t),
           job[p].pc = "idle",
           mutex' \in Threads \cup {Free},
           p \in Threads => mutex = Free /\ mutex' = p,
           p \notin Threads => mutex' = mutex,
           UNCHANGED <<tokens, minted, revoked, spent, admitted>>
    PROVE  FileInv'
<1> USE DEF FileInv, FileTypeOK
<1>1. /\ lock = Free /\ lock' = p
      /\ job' = [job EXCEPT ![p] = [pc |-> "replace", tok |-> t, keep |-> tokens \ {t}]]
    BY DEF ReadAllBut
<1>2. \A q \in Procs : job[q].pc # "replace"
    BY <1>1 DEF Removals
<1>3. FileTypeOK'
    BY <1>1
<1>4. TokensAreKept' /\ Removed' /\ OneAdmissionPerToken'
    BY DEF TokensAreKept, Removed, OneAdmissionPerToken
<1>5. Removals'
    BY <1>1, <1>2 DEF Removals
<1>6. Registrations'
    BY <1>1, <1>2 DEF Registrations
<1> QED
    BY <1>3, <1>4, <1>5, <1>6

LEMMA BurnStep ==
    ASSUME FileInv, NEW th \in Threads, RegisterBurn(th)
    PROVE  FileInv'
<1> USE DEF FileInv, FileTypeOK
<1> DEFINE t == job[th].tok
<1>1. /\ job[th].pc = "replace" /\ lock = th /\ lock' = Free
      /\ t \in tokens /\ tokens' = tokens \ {t}
      /\ spent' = spent \cup {t}
      /\ job' = [job EXCEPT ![th].pc = "register", ![th].keep = {}]
      /\ UNCHANGED <<mutex, minted, revoked, admitted>>
    BY DEF RegisterBurn, RenameKept, Removals
<1>2. \A q \in Procs : job[q].pc = "replace" => q = th
    BY <1>1 DEF Removals
<1>3. t \notin spent \cup revoked
    BY <1>1 DEF TokensAreKept
<1>4. job'[th] = [pc |-> "register", tok |-> t, keep |-> {}]
    BY <1>1
<1>5. \A q \in Procs \ {th} : job'[q] = job[q]
    BY <1>1
<1>6. FileTypeOK'
    BY <1>1, <1>4, <1>5
<1>7. TokensAreKept' /\ Removed'
    BY <1>1 DEF TokensAreKept, Removed
<1>8. Removals'
    BY <1>1, <1>2, <1>4, <1>5 DEF Removals
<1>9. Registrations'
    BY <1>1, <1>3, <1>4, <1>5 DEF Registrations, OneAdmissionPerToken
<1>10. OneAdmissionPerToken'
    BY <1>1, <1>3 DEF OneAdmissionPerToken
<1> QED
    BY <1>6, <1>7, <1>8, <1>9, <1>10

LEMMA AddStep ==
    ASSUME FileInv, NEW th \in Threads, RegisterAdd(th)
    PROVE  FileInv'
<1> USE DEF FileInv, FileTypeOK
<1>1. /\ job[th].pc = "register" /\ mutex = th /\ mutex' = Free
      /\ admitted' \in {admitted, admitted \cup {<<job[th].tok, th>>}}
      /\ job' = [job EXCEPT ![th] = Idle]
      /\ UNCHANGED <<tokens, lock, minted, revoked, spent>>
    BY DEF RegisterAdd, Registrations
<1>2. \A u \in Threads \ {th} : job[u].pc = "idle"
    BY <1>1 DEF Registrations
<1>3. job[th].tok \in 1 .. MaxTokens
    BY <1>1 DEF Registrations
<1>4. FileTypeOK'
    BY <1>1, <1>3 DEF Idle
<1>5. TokensAreKept' /\ Removed'
    BY <1>1 DEF TokensAreKept, Removed
<1>6. Removals'
    BY <1>1 DEF Removals, Idle
<1>7. Registrations'
    BY <1>1, <1>2 DEF Registrations, Idle
<1>8. OneAdmissionPerToken'
    BY <1>1 DEF OneAdmissionPerToken, Registrations
<1> QED
    BY <1>4, <1>5, <1>6, <1>7, <1>8

(* The steps that only give something up: a failed replacement, a death.     *)
LEMMA GiveUpStep ==
    ASSUME FileInv,
           (\E th \in Threads : RegisterFails(th)) \/ VpnServerDies
              \/ DeleteFails \/ AdminServerDies
    PROVE  FileInv'
<1> USE DEF FileInv, FileTypeOK
<1>1. /\ \A p \in Procs : job'[p] \in {job[p], Idle}
      /\ job' \in [Procs -> {job[p] : p \in Procs} \cup {Idle}]
      /\ \A p \in Procs : job'[p].pc = "replace" => lock' = lock
      /\ \A th \in Threads : job'[th].pc # "idle" => mutex' = mutex
      /\ lock' \in {lock, Free} /\ mutex' \in {mutex, Free}
      /\ UNCHANGED <<tokens, minted, revoked, spent, admitted>>
    BY DEF RegisterFails, VpnServerDies, DeleteFails, AdminServerDies, ReplaceFails,
           Removals, Registrations, Idle
<1>2. FileTypeOK'
    BY <1>1 DEF Idle
<1>3. TokensAreKept' /\ Removed' /\ OneAdmissionPerToken'
    BY <1>1 DEF TokensAreKept, Removed, OneAdmissionPerToken
<1>4. Removals'
    BY <1>1 DEF Removals, Idle
<1>5. Registrations'
    BY <1>1 DEF Registrations, Idle
<1> QED
    BY <1>2, <1>3, <1>4, <1>5

LEMMA DeleteEndStep == FileInv /\ DeleteEnd => FileInv'
<1> SUFFICES ASSUME FileInv, DeleteEnd PROVE FileInv'
    OBVIOUS
<1> USE DEF FileInv, FileTypeOK
<1> DEFINE t == job[Admin].tok
<1>1. /\ job[Admin].pc = "replace" /\ lock = Admin /\ lock' = Free
      /\ t \in tokens /\ tokens' = tokens \ {t}
      /\ revoked' = revoked \cup {t}
      /\ job' = [job EXCEPT ![Admin] = Idle]
      /\ UNCHANGED <<mutex, minted, spent, admitted>>
    BY DEF DeleteEnd, RenameKept, Removals
<1>2. \A q \in Procs : job[q].pc = "replace" => q = Admin
    BY <1>1 DEF Removals
<1>3. t \notin spent \cup revoked
    BY <1>1 DEF TokensAreKept
<1>4. FileTypeOK'
    <2>1. t \in 1 .. MaxTokens /\ lock' \in Procs \cup {Free}
        BY <1>1
    <2>2. job' \in [Procs -> [pc: {"idle", "replace", "register"}, tok: 0 .. MaxTokens,
                              keep: SUBSET (1 .. MaxTokens)]]
        BY <1>1 DEF Idle
    <2> QED
        BY <1>1, <2>1, <2>2
<1>5. TokensAreKept' /\ Removed'
    BY <1>1 DEF TokensAreKept, Removed
<1>6. Removals'
    BY <1>1, <1>2 DEF Removals, Idle
<1>7. Registrations'
    BY <1>1 DEF Registrations
<1>8. OneAdmissionPerToken'
    <2>1. revoked' = revoked \cup {t} /\ UNCHANGED <<spent, admitted>>
        BY <1>1
    <2> HIDE DEF t
    <2> QED
        BY <1>3, <2>1 DEF OneAdmissionPerToken
<1> QED
    BY <1>4, <1>5, <1>6, <1>7, <1>8

LEMMA FileStep == FileInv /\ [FileNext]_fileVars => FileInv'
<1> SUFFICES ASSUME FileInv, [FileNext]_fileVars PROVE FileInv'
    OBVIOUS
<1>1. CASE GenToken
    BY <1>1, AppendStep DEF GenToken
<1>2. CASE Enrol
    <2>1. PICK th \in Threads, t \in tokens :
            /\ mutex = Free /\ job[th].pc = "idle" /\ ReadAllBut(th, t)
            /\ mutex' = th /\ UNCHANGED <<tokens, minted, revoked, spent, admitted>>
        BY <1>2 DEF Enrol, RegisterBegin
    <2> QED
        BY <2>1, ReadStep
<1>3. CASE Registration
    BY <1>3, BurnStep, AddStep, GiveUpStep DEF Registration
<1>4. ASSUME NEW t \in 1 .. MaxTokens, DeleteBegin(t) PROVE FileInv'
    <2>1. /\ job[Admin].pc = "idle" /\ ReadAllBut(Admin, t) /\ t \in tokens
          /\ UNCHANGED <<tokens, mutex, minted, revoked, spent, admitted>>
        BY <1>4 DEF DeleteBegin, ReadAllBut
    <2>2. mutex' \in Threads \cup {Free}
        BY <2>1 DEF FileInv, FileTypeOK
    <2> QED
        BY <2>1, <2>2, ReadStep
<1>5. CASE DeleteEnd
    BY <1>5, DeleteEndStep
<1>6. CASE DeleteFails \/ AdminServerDies
    BY <1>6, GiveUpStep
<1>7. CASE UNCHANGED fileVars
    BY <1>7 DEF fileVars, FileInv, FileTypeOK, TokensAreKept, Removed, Removals,
                Registrations, OneAdmissionPerToken
<1> QED
    BY <1>1, <1>2, <1>3, <1>4, <1>5, <1>6, <1>7 DEF FileNext
-----------------------------------------------------------------------------
(* The management channel.                                                  *)
DownFrames == [type: {"challenge", "welcome", "reject", "command"}, id: Nat,
               st: {None}, of: Nat]
UpFrames == [type: {"hello", "reply"}, id: Nat, st: {None, "502", "status"}, of: Nat]
Slots == [id: Nat, done: BOOLEAN, st: {None, "502", "status"}, of: Nat]
Desks == [st: {"none", "open", "asked", "busy", "answered", "dropped"},
          rid: Nat, good: BOOLEAN, size: Nat]

ControllerShape ==
    /\ backlog \in Seq(Conn)
    /\ served \in [pc: {"accept", "hello", "serve"}, conn: Conn \cup {None}]
    /\ served.pc # "accept" => served.conn \in Conn
    /\ agents \in Conn \cup {None}
    /\ http \in [pc: {"accept", "read", "send", "wait"}, rid: Nat, conn: Conn \cup {None}]
    /\ http.pc # "accept" => http.rid \in Calls
    /\ http.pc \in {"send", "wait"} => http.conn \in Conn
SlotShape == slot \in [Conn -> Slots]
WireShape ==
    /\ down \in [Conn -> Seq(DownFrames)]
    /\ up \in [Conn -> Seq(UpFrames)]
HostShape ==
    /\ agent \in [pc: {"backoff", "challenge", "welcome", "serve", "calling"},
                  conn: Conn \cup {None}, cmd: Nat]
    /\ agent.pc # "backoff" => agent.conn \in Conn
    /\ bearer \in BOOLEAN
    /\ cli \in [pc: {"idle", "wait"}, rid: Nat, good: BOOLEAN]
    /\ cli.pc = "wait" => cli.rid \in Calls
DeskShape == desk \in [Clients -> Desks]
LogShape == verdict \in [Calls -> {"unasked", "waiting", "refused", "answered", "unknown"}]
Shapes == ControllerShape /\ SlotShape /\ WireShape /\ HostShape /\ DeskShape /\ LogShape
-----------------------------------------------------------------------------
LEMMA FileStepOfNext ==
    ASSUME FileInv, [Next]_vars
    PROVE  [FileNext]_fileVars
<1>1. ASSUME NEW x \in Clients, ApiGen(x) PROVE [FileNext]_fileVars
    BY <1>1 DEF ApiGen, FileNext, GenToken
<1>2. ASSUME NEW x \in Clients, ApiDel(x) PROVE [FileNext]_fileVars
    BY <1>2 DEF ApiDel, FileNext, DeleteBegin, ReadAllBut, FileInv, FileTypeOK
<1>3. ASSUME NEW x \in Clients, ServerStep(x) PROVE [FileNext]_fileVars
    BY <1>1, <1>2, <1>3 DEF ServerStep, SendRequest, DropBlocked, Unauthorized, ApiList,
        ApiDelMisses, Sweep
<1>4. CASE Controller
    BY <1>4 DEF Controller, AcceptAgent, Admit, Reject, HelloFails, RecvReply, DropAgent,
        HttpAccept, HttpRefuses, ForwardBegin, ForwardSend, ForwardSendFails, ForwardReply,
        ForwardTimeout
<1>5. CASE AgentStep
    BY <1>5 DEF AgentStep, Dial, AnswerChallenge, Welcomed, Refused, AgentTimeout,
        AgentNotices, TakeCommand, SendReply
<1>6. CASE ApiDelEnds \/ AdminStarts \/ CliStart \/ CliAnswered \/ CliGivesUp
    BY <1>6 DEF ApiDelEnds, AdminStarts, CliStart, CliAnswered, CliGivesUp, FileNext
<1>7. CASE OtherPrograms \/ Environment
    BY <1>7 DEF OtherPrograms, Environment, CtlRestarts, AddAgent, AgentDies, LinkDies,
        AdminDies, WindowEnds, FileNext
<1>8. CASE UNCHANGED vars
    BY <1>8 DEF vars
<1> QED
    BY <1>3, <1>4, <1>5, <1>6, <1>7, <1>8 DEF Next

(* Frames appended and consumed: r is q, perhaps with m at the end of q[c].  *)
OneMore(q, r, c, m) ==
    \A d \in Conn : \A i \in 1 .. Len(r[d]) :
        \/ i \in 1 .. Len(q[d]) /\ r[d][i] = q[d][i]
        \/ d = c /\ i = Len(q[c]) + 1 /\ r[d][i] = m

LEMMA PutShape ==
    ASSUME NEW S, NEW q \in [Conn -> Seq(S)], NEW c \in Conn, NEW m \in S
    PROVE  Put(q, c, m) \in [Conn -> Seq(S)] /\ OneMore(q, Put(q, c, m), c, m)
<1>1. CASE peer[c] = "lost"
    BY <1>1 DEF Put, OneMore
<1>2. CASE peer[c] # "lost"
    <2>1. Put(q, c, m) = [q EXCEPT ![c] = Append(@, m)]
        BY <1>2 DEF Put
    <2>2. Append(q[c], m) \in Seq(S) /\ Len(Append(q[c], m)) = Len(q[c]) + 1
        OBVIOUS
    <2>3. \A i \in 1 .. Len(q[c]) + 1 :
             Append(q[c], m)[i] = IF i = Len(q[c]) + 1 THEN m ELSE q[c][i]
        OBVIOUS
    <2>4. Put(q, c, m)[c] = Append(q[c], m) /\ \A d \in Conn \ {c} : Put(q, c, m)[d] = q[d]
        BY <2>1
    <2>5. Put(q, c, m) \in [Conn -> Seq(S)]
        BY <2>1, <2>2
    <2>6. Len(q[c]) \in Nat
        OBVIOUS
    <2>7. ASSUME NEW i \in 1 .. Len(Put(q, c, m)[c])
          PROVE  \/ i \in 1 .. Len(q[c]) /\ Put(q, c, m)[c][i] = q[c][i]
                 \/ i = Len(q[c]) + 1 /\ Put(q, c, m)[c][i] = m
        BY <2>2, <2>3, <2>4, <2>6
    <2> QED
        BY <2>4, <2>5, <2>7 DEF OneMore
<1> QED
    BY <1>1, <1>2

LEMMA TailShape ==
    ASSUME NEW S, NEW q \in [Conn -> Seq(S)], NEW c \in Conn, q[c] # <<>>,
           NEW r, r = [q EXCEPT ![c] = Tail(@)]
    PROVE  /\ r \in [Conn -> Seq(S)]
           /\ Head(q[c]) \in S /\ Head(q[c]) = q[c][1] /\ 1 \in 1 .. Len(q[c])
           /\ \A d \in Conn \ {c} : r[d] = q[d]
           /\ \A i \in 1 .. Len(r[c]) : i + 1 \in 1 .. Len(q[c]) /\ r[c][i] = q[c][i + 1]
<1>1. r[c] = Tail(q[c]) /\ \A d \in Conn \ {c} : r[d] = q[d]
    OBVIOUS
<1>2. Len(q[c]) \in Nat \ {0} /\ Len(Tail(q[c])) = Len(q[c]) - 1
    OBVIOUS
<1>3. \A i \in 1 .. Len(q[c]) - 1 : Tail(q[c])[i] = q[c][i + 1]
    OBVIOUS
<1> QED
    BY <1>1, <1>2, <1>3
-----------------------------------------------------------------------------
USE AdminAssumption DEF AdminAssumption, Clients, ctlVars, wireVars, hostVars, logVars

LEMMA ShapesInitially == Init => Shapes
BY DEF Init, AdminInit, Shapes, ControllerShape, SlotShape, WireShape, HostShape, DeskShape,
       LogShape, NoSlot, NoDesk, Desks, Slots

LEMMA ControllerShapeStep ==
    ASSUME Shapes, [Next]_vars
    PROVE  ControllerShape' /\ SlotShape'
<1> USE DEF Shapes, ControllerShape, SlotShape
<1>1. CASE AcceptAgent
    <2>1. /\ backlog' = Tail(backlog) /\ backlog # <<>>
          /\ served' = [pc |-> "hello", conn |-> Head(backlog)]
          /\ UNCHANGED <<agents, http, slot>>
        BY <1>1 DEF AcceptAgent
    <2>2. Tail(backlog) \in Seq(Conn) /\ Head(backlog) \in Conn
        BY <2>1
    <2> QED
        BY <2>1, <2>2
<1>2. CASE Admit
    BY <1>2 DEF Admit, NoSlot, Slots
<1>3. CASE Reject \/ HelloFails \/ DropAgent
    BY <1>3 DEF Reject, HelloFails, DropAgent
<1>4. CASE RecvReply
    <2>1. up[served.conn] # <<>> /\ served.conn \in Conn
        BY <1>4 DEF RecvReply, HasFrame
    <2>2. Head(up[served.conn]) \in UpFrames
        BY <2>1 DEF WireShape
    <2> DEFINE filled == [slot[served.conn] EXCEPT !.done = TRUE, !.st = Head(up[served.conn]).st,
                                                  !.of = Head(up[served.conn]).of]
    <2>3. filled \in Slots
        <3>1. Head(up[served.conn]).st \in {None, "502", "status"} /\ Head(up[served.conn]).of \in Nat
            BY <2>2 DEF UpFrames
        <3>2. slot[served.conn] \in Slots
            BY <2>1
        <3> QED
            BY <3>1, <3>2 DEF Slots
    <2>4. slot' \in {slot, [slot EXCEPT ![served.conn] = filled]}
        BY <1>4 DEF RecvReply
    <2> HIDE DEF filled
    <2> QED
        BY <1>4, <2>3, <2>4 DEF RecvReply
<1>5. CASE HttpAccept
    BY <1>5 DEF HttpAccept
<1>6. CASE HttpRefuses \/ ForwardSendFails \/ ForwardReply \/ ForwardTimeout
    BY <1>6 DEF HttpRefuses, ForwardSendFails, ForwardReply, ForwardTimeout, HttpAnswers
<1>7. CASE ForwardBegin
    <2>1. [slot[agents] EXCEPT !.id = http.rid, !.done = FALSE] \in Slots /\ agents \in Conn
        BY <1>7 DEF ForwardBegin, Slots
    <2>2. slot' = [slot EXCEPT ![agents] = [slot[agents] EXCEPT !.id = http.rid, !.done = FALSE]]
        BY <1>7, <2>1 DEF ForwardBegin
    <2>3. SlotShape'
        BY <2>1, <2>2
    <2> QED
        BY <1>7, <2>3 DEF ForwardBegin
<1>8. CASE ForwardSend
    BY <1>8 DEF ForwardSend
<1>9. CASE CtlRestarts
    BY <1>9 DEF CtlRestarts
<1>10. CASE AddAgent
    BY <1>10 DEF AddAgent
<1>11. CASE Dial
    <2>1. PICK c \in Conn : backlog' = Append(backlog, c)
        BY <1>11 DEF Dial
    <2>2. backlog' \in Seq(Conn)
        BY <2>1
    <2> QED
        BY <1>11, <2>2 DEF Dial
<1>12. CASE UNCHANGED ctlVars
    BY <1>12
<1>13. AgentStep => Dial \/ UNCHANGED ctlVars
    BY DEF AgentStep, AnswerChallenge, Welcomed, Refused, AgentTimeout, AgentNotices,
           TakeCommand, SendReply
<1>14. (\E x \in Clients : ServerStep(x)) => UNCHANGED ctlVars
    BY DEF ServerStep, SendRequest, DropBlocked, Unauthorized, ApiList, ApiGen, ApiDelMisses,
           ApiDel, Sweep
<1>15. ApiDelEnds \/ AdminStarts \/ CliStart \/ CliAnswered \/ CliGivesUp \/ OtherPrograms
          => UNCHANGED ctlVars
    BY DEF ApiDelEnds, AdminStarts, CliStart, CliAnswered, CliGivesUp, OtherPrograms
<1>16. Environment => CtlRestarts \/ AddAgent \/ UNCHANGED ctlVars
    BY DEF Environment, AgentDies, LinkDies, AdminDies, WindowEnds
<1>17. UNCHANGED vars => UNCHANGED ctlVars
    BY DEF vars, adminVars
<1> QED
    BY <1>1, <1>2, <1>3, <1>4, <1>5, <1>6, <1>7, <1>8, <1>9, <1>10, <1>11, <1>12, <1>13, <1>14,
       <1>15, <1>16, <1>17 DEF Next, Controller

LEMMA WireShapeStep ==
    ASSUME Shapes, [Next]_vars
    PROVE  WireShape'
<1> USE DEF Shapes, WireShape
<1>1. CASE AcceptAgent
    <2>1. /\ down' = Put(down, Head(backlog), Frame("challenge", 0, None, 0))
          /\ Head(backlog) \in Conn /\ up' = up
        BY <1>1 DEF AcceptAgent, ControllerShape
    <2>2. Frame("challenge", 0, None, 0) \in DownFrames
        BY DEF Frame, DownFrames
    <2> QED
        BY <2>1, <2>2, PutShape
<1>2. CASE Admit \/ Reject
    <2>1. PICK c \in Conn, m \in DownFrames :
            /\ up[c] # <<>> /\ up' = [up EXCEPT ![c] = Tail(@)]
            /\ down' = Put(down, c, m)
        <3>1. \A type \in {"welcome", "reject"} : Frame(type, 0, None, 0) \in DownFrames
            BY DEF Frame, DownFrames
        <3> QED
            BY <1>2, <3>1 DEF Admit, Reject, HasFrame, ControllerShape
    <2> QED
        BY <2>1, TailShape, PutShape
<1>3. CASE RecvReply
    <2>1. /\ served.conn \in Conn /\ up[served.conn] # <<>>
          /\ up' = [up EXCEPT ![served.conn] = Tail(@)] /\ down' = down
        BY <1>3 DEF RecvReply, HasFrame, ControllerShape
    <2> QED
        BY <2>1, TailShape
<1>4. CASE ForwardSend
    <2>1. /\ http.conn \in Conn /\ http.rid \in Nat /\ up' = up
          /\ down' = Put(down, http.conn, Frame("command", http.rid, None, http.rid))
        BY <1>4 DEF ForwardSend, ControllerShape
    <2>2. Frame("command", http.rid, None, http.rid) \in DownFrames
        BY <2>1 DEF Frame, DownFrames
    <2> QED
        BY <2>1, <2>2, PutShape
<1>5. CASE Dial
    BY <1>5 DEF Dial
<1>6. CASE AnswerChallenge
    <2>1. /\ up' = Put(up, agent.conn, Frame("hello", 0, None, 0))
          /\ down' = [down EXCEPT ![agent.conn] = Tail(@)]
          /\ down[agent.conn] # <<>> /\ agent.conn \in Conn
        BY <1>6 DEF AnswerChallenge, Received, Consumed, HasFrame, HostShape
    <2>2. Frame("hello", 0, None, 0) \in UpFrames
        BY DEF Frame, UpFrames
    <2>3. up' \in [Conn -> Seq(UpFrames)]
        BY <2>1, <2>2, PutShape
    <2>4. down' \in [Conn -> Seq(DownFrames)]
        BY <2>1, TailShape
    <2> QED
        BY <2>3, <2>4
<1>7. CASE Welcomed \/ Refused \/ TakeCommand
    <2>1. /\ down' = [down EXCEPT ![agent.conn] = Tail(@)] /\ up' = up
          /\ down[agent.conn] # <<>> /\ agent.conn \in Conn
        BY <1>7 DEF Welcomed, Refused, TakeCommand, Received, Consumed, HasFrame, HostShape
    <2> QED
        BY <2>1, TailShape
<1>8. CASE SendReply
    <2>1. CASE up' = up
        BY <1>8, <2>1 DEF SendReply
    <2>2. CASE up' # up
        <3>1. PICK st \in {None, "502", "status"} :
                up' = Put(up, agent.conn, Frame("reply", agent.cmd, st, desk["agent"].rid))
            BY <1>8, <2>2 DEF SendReply
        <3>2. agent.conn \in Conn /\ down' = down
            BY <1>8 DEF SendReply, HostShape
        <3>3. Frame("reply", agent.cmd, st, desk["agent"].rid) \in UpFrames
            BY DEF Frame, UpFrames, HostShape, DeskShape, Desks
        <3> QED
            BY <3>1, <3>2, <3>3, PutShape
    <2> QED
        BY <2>1, <2>2
<1>9. CASE LinkDies
    BY <1>9 DEF LinkDies
<1>10. CASE UNCHANGED <<down, up>>
    BY <1>10
<1>11. Controller => \/ AcceptAgent \/ Admit \/ Reject \/ RecvReply \/ ForwardSend
                     \/ UNCHANGED <<down, up>>
    BY DEF Controller, HelloFails, DropAgent, HttpAccept, HttpRefuses, ForwardBegin,
           ForwardSendFails, ForwardReply, ForwardTimeout
<1>12. AgentStep => \/ Dial \/ AnswerChallenge \/ Welcomed \/ Refused \/ TakeCommand
                    \/ SendReply \/ UNCHANGED <<down, up>>
    BY DEF AgentStep, AgentTimeout, AgentNotices
<1>13. (\E x \in Clients : ServerStep(x)) => UNCHANGED <<down, up>>
    BY DEF ServerStep, SendRequest, DropBlocked, Unauthorized, ApiList, ApiGen, ApiDelMisses,
           ApiDel, Sweep
<1>14. ApiDelEnds \/ AdminStarts \/ CliStart \/ CliAnswered \/ CliGivesUp \/ OtherPrograms
          => UNCHANGED <<down, up>>
    BY DEF ApiDelEnds, AdminStarts, CliStart, CliAnswered, CliGivesUp, OtherPrograms
<1>15. Environment => LinkDies \/ UNCHANGED <<down, up>>
    BY DEF Environment, CtlRestarts, AddAgent, AgentDies, AdminDies, WindowEnds
<1>16. UNCHANGED vars => UNCHANGED <<down, up>>
    BY DEF vars, adminVars
<1> QED
    BY <1>1, <1>2, <1>3, <1>4, <1>5, <1>6, <1>7, <1>8, <1>9, <1>10, <1>11, <1>12, <1>13, <1>14,
       <1>15, <1>16 DEF Next

LEMMA HostShapeStep ==
    ASSUME Shapes, [Next]_vars
    PROVE  HostShape' /\ LogShape'
<1> USE DEF Shapes, HostShape, LogShape, Tell
<1>1. CASE HttpAccept \/ HttpRefuses \/ ForwardSendFails \/ ForwardReply \/ ForwardTimeout
    BY <1>1 DEF HttpAccept, HttpRefuses, ForwardSendFails, ForwardReply, ForwardTimeout,
        HttpAnswers
<1>2. CASE CtlRestarts
    BY <1>2 DEF CtlRestarts
<1>3. CASE Dial
    BY <1>3 DEF Dial
<1>4. CASE AnswerChallenge \/ Welcomed
    BY <1>4 DEF AnswerChallenge, Welcomed
<1>5. CASE Refused \/ AgentTimeout \/ AgentNotices \/ AgentDies
    BY <1>5 DEF Refused, AgentTimeout, AgentNotices, AgentDies, Backoff
<1>6. CASE TakeCommand
    <2>1. down[agent.conn] # <<>> /\ agent.conn \in Conn
        BY <1>6 DEF TakeCommand, Received, HasFrame
    <2>2. Head(down[agent.conn]).id \in Nat
        <3>1. Head(down[agent.conn]) \in DownFrames
            BY <2>1 DEF WireShape
        <3> QED
            BY <3>1 DEF DownFrames
    <2> QED
        BY <1>6, <2>2 DEF TakeCommand
<1>7. CASE SendReply
    <2>1. /\ agent' \in {[agent EXCEPT !.pc = "serve", !.cmd = 0], Backoff}
          /\ UNCHANGED <<bearer, cli, verdict>> /\ agent.pc = "calling"
        BY <1>7 DEF SendReply
    <2>2. CASE agent' = Backoff
        BY <2>1, <2>2 DEF Backoff
    <2>3. CASE agent' = [agent EXCEPT !.pc = "serve", !.cmd = 0]
        <3>1. agent' = [pc |-> "serve", conn |-> agent.conn, cmd |-> 0]
            BY <2>3
        <3> QED
            BY <2>1, <3>1
    <2> QED
        BY <2>1, <2>2, <2>3
<1>8. CASE CliStart
    <2>1. PICK r \in Calls, g \in BOOLEAN, v \in {"waiting", "refused"} :
            /\ verdict' = [verdict EXCEPT ![r] = v]
            /\ cli' \in {cli, [pc |-> "wait", rid |-> r, good |-> g]}
            /\ UNCHANGED <<agent, bearer>>
        BY <1>8 DEF CliStart
    <2>2. LogShape'
        BY <2>1
    <2> QED
        BY <2>1, <2>2
<1>9. CASE CliAnswered \/ CliGivesUp
    <2>1. PICK v \in {"answered", "unknown"} : CliExits(v) /\ UNCHANGED <<agent, bearer>>
        BY <1>9 DEF CliAnswered, CliGivesUp
    <2> QED
        BY <2>1 DEF CliExits
<1>10. CASE UNCHANGED <<agent, bearer, cli, verdict>>
    BY <1>10
<1>11. Controller => \/ HttpAccept \/ HttpRefuses \/ ForwardSendFails \/ ForwardReply
                     \/ ForwardTimeout \/ UNCHANGED <<agent, bearer, cli, verdict>>
    BY DEF Controller, AcceptAgent, Admit, Reject, HelloFails, RecvReply, DropAgent,
           ForwardBegin, ForwardSend
<1>12. (\E x \in Clients : ServerStep(x)) => UNCHANGED <<agent, bearer, cli, verdict>>
    BY DEF ServerStep, SendRequest, DropBlocked, Unauthorized, ApiList, ApiGen, ApiDelMisses,
           ApiDel, Sweep
<1>13. ApiDelEnds \/ AdminStarts \/ OtherPrograms => UNCHANGED <<agent, bearer, cli, verdict>>
    BY DEF ApiDelEnds, AdminStarts, OtherPrograms
<1>14. Environment => CtlRestarts \/ AgentDies \/ UNCHANGED <<agent, bearer, cli, verdict>>
    BY DEF Environment, AddAgent, LinkDies, AdminDies, WindowEnds
<1>15. UNCHANGED vars => UNCHANGED <<agent, bearer, cli, verdict>>
    BY DEF vars, adminVars
<1> QED
    BY <1>1, <1>2, <1>3, <1>4, <1>5, <1>6, <1>7, <1>8, <1>9, <1>10, <1>11, <1>12, <1>13, <1>14,
       <1>15 DEF Next, AgentStep

LEMMA EndsShape ==
    ASSUME DeskShape, NEW x \in Clients, NEW size \in Nat,
           NEW st \in {"none", "open", "asked", "busy", "answered", "dropped"},
           Ends(x, st, size)
    PROVE  /\ DeskShape'
           /\ \A y \in Clients \ {x} : desk'[y] = desk[y]
           /\ \/ ~Present(x) /\ desk'[x] = NoDesk
              \/ Present(x) /\ desk'[x].st = st /\ desk'[x].rid = desk[x].rid
<1> USE DEF DeskShape
<1>1. CASE Present(x)
    <2> DEFINE ended == [desk[x] EXCEPT !.st = st, !.size = size]
    <2>1. ended \in Desks /\ ended.st = st /\ ended.rid = desk[x].rid
        BY DEF Desks
    <2>2. desk' = [desk EXCEPT ![x] = ended]
        BY <1>1 DEF Ends
    <2> HIDE DEF ended
    <2> QED
        BY <1>1, <2>1, <2>2
<1>2. CASE ~Present(x)
    <2>1. desk' = [desk EXCEPT ![x] = NoDesk] /\ NoDesk \in Desks
        BY <1>2 DEF Ends, NoDesk, Desks
    <2> QED
        BY <1>2, <2>1
<1> QED
    BY <1>1, <1>2

(* The list of a token file is finite.                                      *)
LEMMA TokensCounted == FileTypeOK => Cardinality(tokens) \in Nat
<1> SUFFICES ASSUME FileTypeOK PROVE Cardinality(tokens) \in Nat
    OBVIOUS
<1>1. IsFiniteSet(1 .. MaxTokens)
    BY FS_Interval
<1>2. IsFiniteSet(tokens)
    BY <1>1, FS_Subset DEF FileTypeOK
<1> QED
    BY <1>2, FS_CardinalityType

LEMMA DeskShapeStep ==
    ASSUME FileInv, Shapes, [Next]_vars
    PROVE  DeskShape'
<1> USE DEF Shapes, DeskShape
<1>1. NoDesk \in Desks
    BY DEF NoDesk, Desks
<1>2. \A d \in Desks, st \in {"open", "asked", "busy", "dropped"} :
          [d EXCEPT !.st = st] \in Desks
    BY DEF Desks
<1>3. \A st \in {"open", "dropped"}, r \in Nat, g \in BOOLEAN :
          [NoDesk EXCEPT !.st = st, !.rid = r, !.good = g] \in Desks
    BY DEF NoDesk, Desks
<1>4. CASE TakeCommand
    <2>1. down[agent.conn] # <<>> /\ agent.conn \in Conn
        BY <1>4 DEF TakeCommand, Received, HasFrame, HostShape
    <2>2. Head(down[agent.conn]) \in DownFrames
        BY <2>1 DEF WireShape
    <2>3. PICK st \in {"open", "dropped"}, r \in Nat, g \in BOOLEAN :
              desk' = [desk EXCEPT !["agent"] = [NoDesk EXCEPT !.st = st, !.rid = r, !.good = g]]
        BY <1>4, <2>2 DEF TakeCommand, DownFrames, HostShape
    <2>4. PICK d \in Desks : desk' = [desk EXCEPT !["agent"] = d]
        BY <1>3, <2>3
    <2> QED
        BY <2>4
<1>5. CASE CliStart
    <2>1. PICK r \in Nat, g \in BOOLEAN :
              desk' \in {desk, [desk EXCEPT !["cli"] =
                                   [NoDesk EXCEPT !.st = "open", !.rid = r, !.good = g]]}
        BY <1>5 DEF CliStart
    <2>2. PICK d \in Desks : desk' \in {desk, [desk EXCEPT !["cli"] = d]}
        BY <1>3, <2>1
    <2> QED
        BY <2>2
<1>6. CASE SendReply \/ CliAnswered
    BY <1>1, <1>6 DEF SendReply, CliAnswered
<1>7. CASE AgentDies \/ CliGivesUp
    <2>1. PICK x \in Clients : desk' \in {desk, [desk EXCEPT ![x] = NoDesk]}
        BY <1>7 DEF AgentDies, CliGivesUp
    <2> QED
        BY <1>1, <2>1
<1>8. CASE AdminDies
    <2>1. desk' = [x \in Clients |-> IF desk[x].st \in {"open", "asked", "busy"} /\ Present(x)
                                     THEN [desk[x] EXCEPT !.st = "dropped"]
                                     ELSE IF desk[x].st \in {"answered", "dropped"} THEN desk[x]
                                     ELSE NoDesk]
        BY <1>8 DEF AdminDies
    <2>2. \A x \in Clients : desk'[x] \in {[desk[x] EXCEPT !.st = "dropped"], desk[x], NoDesk}
        BY <2>1
    <2> QED
        BY <1>1, <1>2, <2>1, <2>2
<1>9. ASSUME NEW x \in Clients, ServerStep(x) PROVE DeskShape'
    <2>1. CASE SendRequest(x) \/ ApiDel(x)
        <3>1. PICK st \in {"asked", "busy"} :
                  desk' = [desk EXCEPT ![x] = [desk[x] EXCEPT !.st = st]]
            BY <2>1 DEF SendRequest, ApiDel
        <3> QED
            BY <1>2, <3>1
    <2>2. CASE DropBlocked(x) \/ Sweep(x) \/ Unauthorized(x) \/ ApiDelMisses(x)
        <3>1. PICK st \in {"dropped", "answered"} : Ends(x, st, 0)
            BY <2>2 DEF DropBlocked, Sweep, Unauthorized, ApiDelMisses
        <3> QED
            BY <3>1, EndsShape
    <2>3. CASE ApiList(x)
        BY <2>3, EndsShape, TokensCounted DEF ApiList, FileInv
    <2>4. CASE ApiGen(x)
        <3>1. PICK n \in Nat : Ends(x, "answered", n)
            BY <2>4 DEF ApiGen
        <3> QED
            BY <3>1, EndsShape
    <2> QED
        BY <1>9, <2>1, <2>2, <2>3, <2>4 DEF ServerStep
<1>10. CASE ApiDelEnds
    <2>1. PICK x \in Clients : Ends(x, "answered", 0)
        BY <1>10 DEF ApiDelEnds
    <2> QED
        BY <2>1, EndsShape
<1>11. CASE desk' = desk
    BY <1>11
<1>12. Controller => desk' = desk
    BY DEF Controller, AcceptAgent, Admit, Reject, HelloFails, RecvReply, DropAgent, HttpAccept,
           HttpRefuses, ForwardBegin, ForwardSend, ForwardSendFails, ForwardReply, ForwardTimeout
<1>13. AgentStep => TakeCommand \/ SendReply \/ desk' = desk
    BY DEF AgentStep, Dial, AnswerChallenge, Welcomed, Refused, AgentTimeout, AgentNotices
<1>14. AdminStarts \/ OtherPrograms => desk' = desk
    BY DEF AdminStarts, OtherPrograms
<1>15. Environment => AgentDies \/ AdminDies \/ desk' = desk
    BY DEF Environment, CtlRestarts, AddAgent, LinkDies, WindowEnds
<1>16. UNCHANGED vars => desk' = desk
    BY DEF vars, adminVars
<1> QED
    BY <1>4, <1>5, <1>6, <1>7, <1>8, <1>9, <1>10, <1>11, <1>12, <1>13, <1>14, <1>15, <1>16 DEF Next

LEMMA ShapesKept == FileInv /\ Shapes /\ [Next]_vars => Shapes'
BY ControllerShapeStep, WireShapeStep, HostShapeStep, DeskShapeStep DEF Shapes
-----------------------------------------------------------------------------
(* A command that may still be executed is in one place: with the HTTP       *)
(* thread, in a frame to the agent or in a request to admin_server.  The     *)
(* promise of RemoteCall, that it runs at most once, comes down to that.     *)
HttpHas(r) == http.pc \in {"read", "send"} /\ http.rid = r
WireHas(c, i, r) == /\ i \in 1 .. Len(down[c])
                    /\ down[c][i].type = "command"
                    /\ down[c][i].id = r
DeskHas(x, r) == desk[x].st \in {"open", "asked"} /\ desk[x].rid = r
Carried(r) == \/ HttpHas(r)
              \/ \E c \in Conn, i \in Nat : WireHas(c, i, r)
              \/ \E x \in Clients : DeskHas(x, r)
ToRun(r) == r \in Calls /\ verdict[r] \in {"waiting", "unknown"} /\ r \notin ran

CarriedOnce ==
    \A r \in Nat :
        /\ Carried(r) => ToRun(r)
        /\ \A c, d \in Conn, i, j \in Nat :
              WireHas(c, i, r) => ~HttpHas(r) /\ (WireHas(d, j, r) => c = d /\ i = j)
        /\ \A x, y \in Clients :
              DeskHas(x, r) => /\ ~HttpHas(r) /\ (DeskHas(y, r) => x = y)
                               /\ \A c \in Conn, i \in Nat : ~WireHas(c, i, r)

(* Who waits for an answer: the command of the HTTP thread and that of the   *)
(* command line are different ones, the agent and the command line have      *)
(* their request at admin_server.                                           *)
Waiters ==
    /\ http.pc # "accept" => verdict[http.rid] = "waiting"
    /\ cli.pc = "wait" => /\ verdict[cli.rid] = "waiting"
                          /\ desk["cli"].rid = cli.rid
                          /\ desk["cli"].st # "none"
    /\ http.pc # "accept" /\ cli.pc = "wait" => http.rid # cli.rid
    /\ agent.pc = "calling" => /\ desk["agent"].rid = agent.cmd
                               /\ desk["agent"].st # "none"

(* What an answer says has happened: a reply bears the number of the command *)
(* it is about, and unless it is a 502 that command has been executed.       *)
Says(m) == m.id = m.of /\ (m.id # 0 /\ m.st # "502" => m.of \in ran)
Answers ==
    /\ \A r \in ran : r \in Calls /\ verdict[r] \in {"waiting", "unknown", "answered"}
    /\ \A x \in Clients : desk[x].st \in {"busy", "answered"} => desk[x].rid \in ran
    /\ \A c \in Conn : \A i \in 1 .. Len(up[c]) : Says(up[c][i])
    /\ \A c \in Conn : slot[c].done => Says(slot[c])

Inv == FileInv /\ Shapes /\ CarriedOnce /\ Waiters /\ Answers /\ OnlineIsServed
-----------------------------------------------------------------------------
LEMMA InitEstablishes == Init => Inv
<1> SUFFICES ASSUME Init PROVE Inv
    OBVIOUS
<1>1. FileInv /\ Shapes
    BY FileInitially, ShapesInitially DEF Init
<1> USE DEF Init, AdminInit, NoSlot, NoDesk
<1>2. CarriedOnce
    BY DEF CarriedOnce, HttpHas, WireHas, DeskHas, Carried
<1>3. Waiters /\ Answers /\ OnlineIsServed
    BY DEF Waiters, Answers, OnlineIsServed
<1> QED
    BY <1>1, <1>2, <1>3 DEF Inv

(* Carriers may disappear, and frames move up, as long as what they carry    *)
(* may still be executed.                                                   *)
LEMMA FewerCarriers ==
    ASSUME CarriedOnce, NEW k \in [Conn -> Nat],
           \A r \in Nat : HttpHas(r)' => HttpHas(r),
           \A c \in Conn, i, r \in Nat : WireHas(c, i, r)' => WireHas(c, i + k[c], r),
           \A x \in Clients, r \in Nat : DeskHas(x, r)' => DeskHas(x, r),
           \A r \in Nat : Carried(r)' /\ ToRun(r) => ToRun(r)'
    PROVE  CarriedOnce'
<1>1. ASSUME NEW r \in Nat, Carried(r)' PROVE ToRun(r)'
    <2>1. Carried(r)
        <3>1. CASE HttpHas(r)'
            BY <3>1 DEF Carried
        <3>2. CASE \E c \in Conn, i \in Nat : WireHas(c, i, r)'
            BY <3>2 DEF Carried
        <3>3. CASE \E x \in Clients : DeskHas(x, r)'
            BY <3>3 DEF Carried
        <3> QED
            BY <1>1, <3>1, <3>2, <3>3 DEF Carried
    <2> QED
        BY <1>1, <2>1 DEF CarriedOnce
<1>2. ASSUME NEW r \in Nat, NEW c \in Conn, NEW d \in Conn, NEW i \in Nat, NEW j \in Nat,
             WireHas(c, i, r)'
      PROVE  ~HttpHas(r)' /\ (WireHas(d, j, r)' => c = d /\ i = j)
    <2>1. WireHas(c, i + k[c], r) /\ (WireHas(d, j, r)' => WireHas(d, j + k[d], r))
        BY <1>2
    <2>2. i + k[c] \in Nat /\ j + k[d] \in Nat
        OBVIOUS
    <2>3. ~HttpHas(r) /\ (WireHas(d, j + k[d], r) => c = d /\ i + k[c] = j + k[d])
        BY <2>1, <2>2 DEF CarriedOnce
    <2> QED
        BY <2>1, <2>3
<1>3. ASSUME NEW r \in Nat, NEW x \in Clients, NEW y \in Clients, DeskHas(x, r)'
      PROVE  /\ ~HttpHas(r)' /\ (DeskHas(y, r)' => x = y)
             /\ \A c \in Conn, i \in Nat : ~WireHas(c, i, r)'
    BY <1>3 DEF CarriedOnce
<1> QED
    BY <1>1, <1>2, <1>3 DEF CarriedOnce

(* The frames that carry no command.                                        *)
LEMMA PostCarriesNothing ==
    ASSUME Shapes, NEW c \in Conn, NEW m \in DownFrames, m.type # "command",
           down' = Put(down, c, m)
    PROVE  \A d \in Conn, i, r \in Nat : WireHas(d, i, r)' => WireHas(d, i, r)
<1>1. \A d \in Conn : \A i \in 1 .. Len(down'[d]) :
          \/ i \in 1 .. Len(down[d]) /\ down'[d][i] = down[d][i]
          \/ down'[d][i] = m
    <2>1. down \in [Conn -> Seq(DownFrames)]
        BY DEF Shapes, WireShape
    <2>2. OneMore(down, Put(down, c, m), c, m)
        BY <2>1, PutShape
    <2> QED
        BY <2>2 DEF OneMore
<1> QED
    BY <1>1 DEF WireHas

LEMMA ConsumeMovesUp ==
    ASSUME Shapes, NEW c \in Conn, down[c] # <<>>, down' = [down EXCEPT ![c] = Tail(@)]
    PROVE  \A d \in Conn, i, r \in Nat :
              WireHas(d, i, r)' => WireHas(d, i + [e \in Conn |-> IF e = c THEN 1 ELSE 0][d], r)
<1>1. /\ \A d \in Conn \ {c} : down'[d] = down[d]
      /\ \A i \in 1 .. Len(down'[c]) : i + 1 \in 1 .. Len(down[c]) /\ down'[c][i] = down[c][i + 1]
    BY TailShape DEF Shapes, WireShape
<1>2. ASSUME NEW i \in Nat, NEW r \in Nat, WireHas(c, i, r)' PROVE WireHas(c, i + 1, r)
    BY <1>1, <1>2 DEF WireHas
<1>3. ASSUME NEW d \in Conn \ {c}, NEW i \in Nat, NEW r \in Nat, WireHas(d, i, r)'
      PROVE  WireHas(d, i + 0, r)
    BY <1>1, <1>3 DEF WireHas
<1> QED
    BY <1>2, <1>3

LEMMA FewerInPlace ==
    ASSUME CarriedOnce,
           \A r \in Nat : HttpHas(r)' => HttpHas(r),
           \A c \in Conn, i, r \in Nat : WireHas(c, i, r)' => WireHas(c, i, r),
           \A x \in Clients, r \in Nat : DeskHas(x, r)' => DeskHas(x, r),
           \A r \in Nat : Carried(r)' /\ ToRun(r) => ToRun(r)'
    PROVE  CarriedOnce'
<1> DEFINE k == [c \in Conn |-> 0]
<1>1. k \in [Conn -> Nat]
    OBVIOUS
<1>2. \A c \in Conn, i, r \in Nat : WireHas(c, i, r)' => WireHas(c, i + k[c], r)
    OBVIOUS
<1> HIDE DEF k
<1> QED
    BY <1>1, <1>2, FewerCarriers

(* The steps of the controller.                                             *)
LEMMA ControllerCarries ==
    ASSUME Inv, Controller
    PROVE  CarriedOnce'
<1> USE DEF Inv
<1>1. ASSUME UNCHANGED <<http, desk, verdict, ran>>,
             NEW c \in Conn, NEW m \in DownFrames, m.type # "command", down' = Put(down, c, m)
      PROVE  CarriedOnce'
    <2>1. \A d \in Conn, i, r \in Nat : WireHas(d, i, r)' => WireHas(d, i, r)
        BY <1>1, PostCarriesNothing
    <2>2. \A r \in Nat : (HttpHas(r)' <=> HttpHas(r)) /\ (ToRun(r)' <=> ToRun(r))
        BY <1>1 DEF HttpHas, ToRun
    <2>3. \A x \in Clients, r \in Nat : DeskHas(x, r)' <=> DeskHas(x, r)
        BY <1>1 DEF DeskHas
    <2> QED
        BY <2>1, <2>2, <2>3, FewerInPlace
<1>2. \A type \in {"challenge", "welcome", "reject"} :
          Frame(type, 0, None, 0) \in DownFrames /\ Frame(type, 0, None, 0).type # "command"
    BY DEF Frame, DownFrames
<1>3. CASE AcceptAgent \/ Admit \/ Reject
    <2>1. PICK c \in Conn, type \in {"challenge", "welcome", "reject"} :
              down' = Put(down, c, Frame(type, 0, None, 0))
        BY <1>3 DEF AcceptAgent, Admit, Reject, Shapes, ControllerShape
    <2>2. UNCHANGED <<http, desk, verdict, ran>>
        BY <1>3 DEF AcceptAgent, Admit, Reject
    <2> QED
        BY <1>1, <1>2, <2>1, <2>2
<1>4. CASE HttpAccept
    <2>1. PICK q \in Calls : /\ verdict[q] = "unasked"
                             /\ verdict' = [verdict EXCEPT ![q] = "waiting"]
                             /\ http' = [http EXCEPT !.pc = "read", !.rid = q]
                             /\ UNCHANGED <<down, desk, ran>>
        BY <1>4 DEF HttpAccept, NextCall, Tell
    <2>2. q \in Nat /\ ~ToRun(q) /\ ~Carried(q) /\ q \notin ran
        BY <2>1 DEF CarriedOnce, ToRun, Answers
    <2>3. \A r \in Nat : /\ HttpHas(r)' <=> r = q
                         /\ r # q => (ToRun(r)' <=> ToRun(r))
                         /\ ToRun(q)'
        BY <2>1, <2>2 DEF HttpHas, ToRun, Shapes, ControllerShape, LogShape
    <2>4. \A c \in Conn, i, r \in Nat : WireHas(c, i, r)' <=> WireHas(c, i, r)
        BY <2>1 DEF WireHas
    <2>5. \A x \in Clients, r \in Nat : DeskHas(x, r)' <=> DeskHas(x, r)
        BY <2>1 DEF DeskHas
    <2>6. \A r \in Nat : Carried(r)' => r = q \/ Carried(r)
        BY <2>3, <2>4, <2>5 DEF Carried
    <2>7. \A r \in Nat : Carried(r)' => ToRun(r)'
        BY <2>2, <2>3, <2>6 DEF CarriedOnce
    <2>8. \A c \in Conn, i \in Nat : ~WireHas(c, i, q)
        BY <2>2 DEF Carried
    <2>9. \A x \in Clients : ~DeskHas(x, q)
        BY <2>2 DEF Carried
    <2> QED
        BY <2>3, <2>4, <2>5, <2>7, <2>8, <2>9 DEF CarriedOnce
<1>5. CASE HttpRefuses
    <2>1. /\ HttpHas(http.rid) /\ http.rid \in Nat
          /\ http'.pc = "accept"
          /\ verdict' = [verdict EXCEPT ![http.rid] = "refused"]
          /\ UNCHANGED <<down, desk, ran>>
        BY <1>5 DEF HttpRefuses, HttpAnswers, Tell, HttpHas, Shapes, ControllerShape
    <2>2. /\ \A c \in Conn, i \in Nat : ~WireHas(c, i, http.rid)
          /\ \A x \in Clients : ~DeskHas(x, http.rid)
        BY <2>1 DEF CarriedOnce
    <2>3. \A r \in Nat : ~HttpHas(r)' /\ (r # http.rid => (ToRun(r)' <=> ToRun(r)))
        BY <2>1 DEF HttpHas, ToRun, Shapes, LogShape
    <2>4. \A c \in Conn, i, r \in Nat : WireHas(c, i, r)' <=> WireHas(c, i, r)
        BY <2>1 DEF WireHas
    <2>5. \A x \in Clients, r \in Nat : DeskHas(x, r)' <=> DeskHas(x, r)
        BY <2>1 DEF DeskHas
    <2>6. \A r \in Nat : Carried(r)' => r # http.rid
        BY <2>2, <2>3, <2>4, <2>5 DEF Carried
    <2> QED
        BY <2>3, <2>4, <2>5, <2>6, FewerInPlace
<1>6. CASE ForwardSendFails \/ ForwardReply \/ ForwardTimeout
    <2>1. PICK v \in {"unknown", "answered"} :
              /\ http'.pc = "accept"
              /\ verdict' = [verdict EXCEPT ![http.rid] = v]
              /\ v = "answered" => http.rid \in ran
              /\ UNCHANGED <<down, desk, ran>>
        <3>1. CASE ForwardReply
            <4>1. /\ slot[http.conn].done /\ slot[http.conn].id = http.rid
                  /\ http.conn \in Conn /\ http.rid # 0
                BY <3>1 DEF ForwardReply, SlotFilled, Shapes, ControllerShape
            <4>2. slot[http.conn].st # "502" => http.rid \in ran
                BY <4>1 DEF Answers, Says
            <4> QED
                BY <3>1, <4>2 DEF ForwardReply, HttpAnswers, Tell
        <3> QED
            BY <1>6, <3>1 DEF ForwardSendFails, ForwardTimeout, HttpAnswers, Tell
    <2>2. \A r \in Nat : ~HttpHas(r)' /\ (ToRun(r) => ToRun(r)')
        BY <2>1 DEF HttpHas, ToRun, Shapes, LogShape
    <2>3. \A c \in Conn, i, r \in Nat : WireHas(c, i, r)' <=> WireHas(c, i, r)
        BY <2>1 DEF WireHas
    <2>4. \A x \in Clients, r \in Nat : DeskHas(x, r)' <=> DeskHas(x, r)
        BY <2>1 DEF DeskHas
    <2> QED
        BY <2>2, <2>3, <2>4, FewerInPlace
<1>7. CASE ForwardSend
    <2>1. PICK q \in Nat, m \in DownFrames, e \in Conn :
              /\ HttpHas(q) /\ m.id = q
              /\ down' = Put(down, e, m)
              /\ \A r \in Nat : ~HttpHas(r)'
              /\ UNCHANGED <<desk, verdict, ran>>
        <3> DEFINE f == Frame("command", http.rid, None, http.rid)
        <3>1. http.rid \in Nat /\ http.conn \in Conn /\ HttpHas(http.rid)
            BY <1>7 DEF ForwardSend, HttpHas, Shapes, ControllerShape
        <3>2. f \in DownFrames /\ f.id = http.rid
            BY <3>1 DEF Frame, DownFrames
        <3>3. /\ down' = Put(down, http.conn, f) /\ http'.pc = "wait"
              /\ UNCHANGED <<desk, verdict, ran>>
            BY <1>7 DEF ForwardSend, Shapes, ControllerShape
        <3> HIDE DEF f
        <3> QED
            BY <3>1, <3>2, <3>3 DEF HttpHas
    <2> DEFINE last == Len(down[e]) + 1
    <2>2. \A d \in Conn : \A i \in 1 .. Len(down'[d]) :
              \/ i \in 1 .. Len(down[d]) /\ down'[d][i] = down[d][i]
              \/ d = e /\ i = last /\ down'[d][i] = m
        <3>1. down \in [Conn -> Seq(DownFrames)]
            BY DEF Shapes, WireShape
        <3>2. OneMore(down, Put(down, e, m), e, m)
            BY <3>1, PutShape
        <3>3. OneMore(down, down', e, m)
            BY <2>1, <3>2
        <3> QED
            BY <3>3 DEF OneMore
    <2> HIDE DEF last
    <2>3. \A d \in Conn, i, r \in Nat :
              WireHas(d, i, r)' => WireHas(d, i, r) \/ (d = e /\ i = last /\ r = q)
        BY <2>1, <2>2 DEF WireHas
    <2>4. /\ \A c \in Conn, i \in Nat : ~WireHas(c, i, q)
          /\ \A x \in Clients : ~DeskHas(x, q)
          /\ ToRun(q)
        BY <2>1 DEF CarriedOnce, Carried
    <2>5. /\ \A r \in Nat : ToRun(r)' <=> ToRun(r)
          /\ \A x \in Clients, r \in Nat : DeskHas(x, r)' <=> DeskHas(x, r)
        BY <2>1 DEF ToRun, DeskHas
    <2>6. \A r \in Nat : Carried(r)' => r = q \/ Carried(r)
        BY <2>1, <2>3, <2>5 DEF Carried
    <2>7. \A r \in Nat : Carried(r)' => ToRun(r)'
        BY <2>4, <2>5, <2>6 DEF CarriedOnce
    <2>8. \A r \in Nat, c, d \in Conn, i, j \in Nat :
              WireHas(c, i, r)' /\ WireHas(d, j, r)' => c = d /\ i = j
        BY <2>3, <2>4 DEF CarriedOnce
    <2>9. \A r \in Nat, x, y \in Clients :
              DeskHas(x, r)' => /\ DeskHas(y, r)' => x = y
                                /\ \A c \in Conn, i \in Nat : ~WireHas(c, i, r)'
        BY <2>3, <2>4, <2>5 DEF CarriedOnce
    <2> QED
        BY <2>1, <2>7, <2>8, <2>9 DEF CarriedOnce
<1>8. CASE HelloFails \/ RecvReply \/ DropAgent \/ ForwardBegin
    <2>1. /\ UNCHANGED <<down, desk, verdict, ran>> /\ http'.rid = http.rid
          /\ http'.pc \in {"read", "send"} <=> http.pc \in {"read", "send"}
        BY <1>8 DEF HelloFails, RecvReply, DropAgent, ForwardBegin, Shapes, ControllerShape
    <2>2. \A r \in Nat : (HttpHas(r)' <=> HttpHas(r)) /\ (ToRun(r)' <=> ToRun(r))
        BY <2>1 DEF HttpHas, ToRun
    <2>3. \A c \in Conn, i, r \in Nat : WireHas(c, i, r)' <=> WireHas(c, i, r)
        BY <2>1 DEF WireHas
    <2>4. \A x \in Clients, r \in Nat : DeskHas(x, r)' <=> DeskHas(x, r)
        BY <2>1 DEF DeskHas
    <2> QED
        BY <2>2, <2>3, <2>4, FewerInPlace
<1> QED
    BY <1>3, <1>4, <1>5, <1>6, <1>7, <1>8 DEF Controller

(* The steps of the agent.                                                  *)
LEMMA AgentCarries ==
    ASSUME Inv, AgentStep
    PROVE  CarriedOnce'
<1> USE DEF Inv
<1>1. UNCHANGED <<http, verdict, ran>>
    BY DEF AgentStep, Dial, AnswerChallenge, Welcomed, Refused, AgentTimeout, AgentNotices,
           TakeCommand, SendReply
<1>2. \A r \in Nat : (HttpHas(r)' <=> HttpHas(r)) /\ (ToRun(r)' <=> ToRun(r))
    BY <1>1 DEF HttpHas, ToRun
<1>3. CASE AnswerChallenge \/ Welcomed \/ Refused
    <2>1. /\ agent.conn \in Conn /\ down[agent.conn] # <<>> /\ desk' = desk
          /\ down' = [down EXCEPT ![agent.conn] = Tail(@)]
        BY <1>3 DEF AnswerChallenge, Welcomed, Refused, Consumed, Received, HasFrame, Shapes,
            HostShape
    <2> DEFINE k == [c \in Conn |-> IF c = agent.conn THEN 1 ELSE 0]
    <2>2. \A c \in Conn, i, r \in Nat : WireHas(c, i, r)' => WireHas(c, i + k[c], r)
        BY <2>1, ConsumeMovesUp
    <2>3. \A x \in Clients, r \in Nat : DeskHas(x, r)' <=> DeskHas(x, r)
        BY <2>1 DEF DeskHas
    <2>4. k \in [Conn -> Nat]
        OBVIOUS
    <2> HIDE DEF k
    <2> QED
        BY <1>2, <2>2, <2>3, <2>4, FewerCarriers
<1>4. CASE Dial
    <2>1. PICK c \in Conn : down' = [down EXCEPT ![c] = <<>>] /\ desk' = desk
        BY <1>4 DEF Dial
    <2>2. \A d \in Conn : down'[d] = down[d] \/ Len(down'[d]) = 0
        BY <2>1 DEF Shapes, WireShape
    <2>3. \A d \in Conn, i, r \in Nat : WireHas(d, i, r)' => WireHas(d, i, r)
        BY <2>2 DEF WireHas
    <2>4. \A x \in Clients, r \in Nat : DeskHas(x, r)' <=> DeskHas(x, r)
        BY <2>1 DEF DeskHas
    <2> QED
        BY <1>2, <2>3, <2>4, FewerInPlace
<1>5. CASE TakeCommand
    <2>1. PICK c \in Conn, q \in Nat :
              /\ c = agent.conn /\ down[c] # <<>> /\ WireHas(c, 1, q) /\ q = Head(down[c]).id
              /\ down' = [down EXCEPT ![c] = Tail(@)]
        <3>1. /\ agent.conn \in Conn /\ down[agent.conn] # <<>>
              /\ Head(down[agent.conn]).type = "command"
              /\ down' = [down EXCEPT ![agent.conn] = Tail(@)]
            BY <1>5 DEF TakeCommand, Consumed, Received, HasFrame, Shapes, HostShape
        <3>2. PICK c \in Conn : c = agent.conn
            BY <3>1
        <3>3. down[c] \in Seq(DownFrames) /\ down[c] # <<>>
            BY <3>1, <3>2 DEF Shapes, WireShape
        <3>4. Head(down[c]) \in DownFrames /\ Head(down[c]) = down[c][1] /\ 1 \in 1 .. Len(down[c])
            BY <3>3
        <3>5. PICK q \in Nat : q = Head(down[c]).id
            BY <3>4 DEF DownFrames
        <3>6. WireHas(c, 1, q)
            BY <3>1, <3>2, <3>4, <3>5 DEF WireHas
        <3> QED
            BY <3>1, <3>2, <3>3, <3>5, <3>6
    <2> DEFINE at(d, i) == i + [e \in Conn |-> IF e = c THEN 1 ELSE 0][d]
    <2>3. /\ \A d \in Conn, i, r \in Nat : WireHas(d, i, r)' => WireHas(d, at(d, i), r)
          /\ \A d \in Conn, i \in Nat : at(d, i) \in Nat
          /\ \A d \in Conn, i, j \in Nat : at(d, i) = at(d, j) => i = j
          /\ \A i \in Nat : at(c, i) = i + 1
        <3>1. \A d \in Conn, i, r \in Nat : WireHas(d, i, r)' => WireHas(d, at(d, i), r)
            BY <2>1, ConsumeMovesUp
        <3>2. \A d \in Conn : [e \in Conn |-> IF e = c THEN 1 ELSE 0][d] \in Nat
            OBVIOUS
        <3>3. /\ \A d \in Conn, i \in Nat : at(d, i) \in Nat
              /\ \A d \in Conn, i, j \in Nat : at(d, i) = at(d, j) => i = j
            BY <3>2
        <3>4. \A i \in Nat : at(c, i) = i + 1
            OBVIOUS
        <3> QED
            BY <3>1, <3>3, <3>4
    <2>4. PICK st \in {"open", "dropped"}, g \in BOOLEAN :
              desk' = [desk EXCEPT !["agent"] = [NoDesk EXCEPT !.st = st, !.rid = q, !.good = g]]
        BY <1>5, <2>1 DEF TakeCommand, Shapes, HostShape
    <2>5. desk'["agent"].rid = q /\ desk'["cli"] = desk["cli"]
        BY <2>4 DEF Shapes, DeskShape, NoDesk
    <2>6. /\ ToRun(q) /\ ~HttpHas(q)
          /\ \A d \in Conn, j \in Nat : WireHas(d, j, q) => d = c /\ j = 1
          /\ \A x \in Clients : ~DeskHas(x, q)
        BY <2>1 DEF CarriedOnce, Carried
    <2> HIDE DEF at
    <2>7. \A d \in Conn, i \in Nat : ~WireHas(d, i, q)'
        <3> SUFFICES ASSUME NEW d \in Conn, NEW i \in Nat, WireHas(d, i, q)' PROVE FALSE
            OBVIOUS
        <3>1. i # 0
            BY DEF WireHas
        <3>2. WireHas(d, at(d, i), q) /\ at(d, i) \in Nat
            BY <2>3
        <3>3. d = c /\ at(d, i) = 1
            BY <2>6, <3>2
        <3> QED
            BY <2>3, <3>1, <3>3
    <2>8. \A x \in Clients, r \in Nat : DeskHas(x, r)' => DeskHas(x, r) \/ (x = "agent" /\ r = q)
        BY <2>5 DEF DeskHas
    <2>9. \A r \in Nat : Carried(r)' => r = q \/ Carried(r)
        BY <1>2, <2>3, <2>8 DEF Carried
    <2>10. \A r \in Nat : Carried(r)' => ToRun(r)'
        BY <1>2, <2>6, <2>9 DEF CarriedOnce
    <2>11. ASSUME NEW r \in Nat, NEW d \in Conn, NEW e \in Conn, NEW i \in Nat, NEW j \in Nat,
                  WireHas(d, i, r)'
           PROVE  ~HttpHas(r)' /\ (WireHas(e, j, r)' => d = e /\ i = j)
        <3>1. WireHas(d, at(d, i), r) /\ at(d, i) \in Nat
            BY <2>3, <2>11
        <3>2. WireHas(e, j, r)' => WireHas(e, at(e, j), r) /\ at(e, j) \in Nat
            BY <2>3
        <3>3. ~HttpHas(r)
            BY <3>1 DEF CarriedOnce
        <3>4. WireHas(e, j, r)' => d = e /\ at(d, i) = at(e, j)
            BY <3>1, <3>2 DEF CarriedOnce
        <3> QED
            BY <1>2, <2>3, <3>3, <3>4
    <2>12. ASSUME NEW r \in Nat, NEW x \in Clients, NEW y \in Clients, DeskHas(x, r)'
           PROVE  /\ ~HttpHas(r)' /\ (DeskHas(y, r)' => x = y)
                  /\ \A d \in Conn, i \in Nat : ~WireHas(d, i, r)'
        <3>1. CASE r = q
            <4>1. DeskHas(x, q)'
                BY <2>12, <3>1
            <4>2. x = "agent" /\ (DeskHas(y, q)' => y = "agent") /\ ~HttpHas(q)'
                BY <1>2, <2>6, <2>8, <4>1
            <4> QED
                BY <2>7, <3>1, <4>2
        <3>2. CASE r # q
            <4>1. DeskHas(x, r) /\ (DeskHas(y, r)' => DeskHas(y, r))
                BY <2>8, <2>12, <3>2
            <4>2. /\ ~HttpHas(r) /\ (DeskHas(y, r) => x = y)
                  /\ \A d \in Conn, i \in Nat : ~WireHas(d, i, r)
                BY <4>1 DEF CarriedOnce
            <4> QED
                BY <1>2, <2>3, <4>1, <4>2
        <3> QED
            BY <3>1, <3>2
    <2> QED
        BY <2>10, <2>11, <2>12 DEF CarriedOnce
<1>6. CASE AgentTimeout \/ AgentNotices \/ SendReply
    <2>1. down' = down /\ (desk' = desk \/ desk' = [desk EXCEPT !["agent"] = NoDesk])
        BY <1>6 DEF AgentTimeout, AgentNotices, SendReply
    <2>2. \A d \in Conn, i, r \in Nat : WireHas(d, i, r)' => WireHas(d, i, r)
        BY <2>1 DEF WireHas
    <2>3. \A x \in Clients : desk'[x] \in {desk[x], NoDesk}
        BY <2>1 DEF Shapes, DeskShape
    <2>4. \A x \in Clients, r \in Nat : DeskHas(x, r)' => DeskHas(x, r)
        BY <2>3 DEF DeskHas, NoDesk
    <2> QED
        BY <1>2, <2>2, <2>4, FewerInPlace
<1> QED
    BY <1>3, <1>4, <1>5, <1>6 DEF AgentStep

(* What one step of admin_server does to the requests: it closes or answers  *)
(* the one it works on, and what it executes it takes from its carrier.      *)
LEMMA ServerEffect ==
    ASSUME FileInv, Shapes, NEW x \in Clients, ServerStep(x)
    PROVE  /\ UNCHANGED <<served, agents, http, slot, peer, down, up, agent, cli, verdict>>
           /\ \A y \in Clients \ {x} : desk'[y] = desk[y]
           /\ Present(x) => desk'[x].rid = desk[x].rid /\ desk'[x].st # "none"
           /\ \/ /\ ran' = ran
                 /\ desk'[x].st \notin {"busy", "answered"}
                 /\ desk'[x].st = "asked" => desk[x].st = "open" /\ desk'[x].rid = desk[x].rid
                 /\ desk'[x].st # "open"
              \/ /\ ran' = ran \cup {desk[x].rid}
                 /\ desk[x].st = "asked"
                 /\ desk'[x].st \notin {"open", "asked"}
                 /\ desk'[x].st \in {"busy", "answered"} => desk'[x].rid = desk[x].rid
<1> USE DEF Shapes, DeskShape
<1>1. UNCHANGED <<served, agents, http, slot, peer, down, up, agent, cli, verdict>>
    BY DEF ServerStep, SendRequest, DropBlocked, Unauthorized, ApiList, ApiGen, ApiDelMisses,
           ApiDel, Sweep
<1>2. CASE SendRequest(x) \/ ApiDel(x)
    <2>1. PICK st \in {"asked", "busy"} :
              /\ desk' = [desk EXCEPT ![x] = [desk[x] EXCEPT !.st = st]]
              /\ st = "asked" => ran' = ran /\ desk[x].st = "open"
              /\ st = "busy" => ran' = ran \cup {desk[x].rid} /\ desk[x].st = "asked"
        BY <1>2 DEF SendRequest, ApiDel, Authorized, Serving, Executed
    <2>2. [desk[x] EXCEPT !.st = st].st = st /\ [desk[x] EXCEPT !.st = st].rid = desk[x].rid
        BY DEF Desks
    <2>3. desk'[x].st = st /\ desk'[x].rid = desk[x].rid /\ \A y \in Clients \ {x} : desk'[y] = desk[y]
        BY <2>1, <2>2
    <2> QED
        BY <1>1, <2>1, <2>3
<1>3. CASE DropBlocked(x) \/ Sweep(x)
    <2>1. Ends(x, "dropped", 0) /\ ran' = ran
        BY <1>3 DEF DropBlocked, Sweep
    <2>2. /\ \A y \in Clients \ {x} : desk'[y] = desk[y]
          /\ \/ ~Present(x) /\ desk'[x] = NoDesk
             \/ Present(x) /\ desk'[x].st = "dropped" /\ desk'[x].rid = desk[x].rid
        BY <2>1, EndsShape
    <2> QED
        BY <1>1, <2>1, <2>2 DEF NoDesk
<1>4. CASE Unauthorized(x) \/ ApiList(x) \/ ApiGen(x) \/ ApiDelMisses(x)
    <2>1. PICK n \in Nat : Ends(x, "answered", n)
        BY <1>4, TokensCounted DEF Unauthorized, ApiList, ApiGen, ApiDelMisses, FileInv
    <2>2. desk[x].st = "asked" /\ ran' = ran \cup {desk[x].rid}
        BY <1>4 DEF Unauthorized, ApiList, ApiGen, ApiDelMisses, Authorized, Serving, Executed
    <2>3. /\ \A y \in Clients \ {x} : desk'[y] = desk[y]
          /\ \/ ~Present(x) /\ desk'[x] = NoDesk
             \/ Present(x) /\ desk'[x].st = "answered" /\ desk'[x].rid = desk[x].rid
        BY <2>1, EndsShape
    <2> QED
        BY <1>1, <2>2, <2>3 DEF NoDesk
<1> QED
    BY <1>2, <1>3, <1>4 DEF ServerStep

(* The invariant of the commands, and the promise of the step.              *)
Kept == CarriedOnce' /\ Waiters' /\ Answers' /\ [Abstract!CallNext]_<<verdict, ran>>

LEMMA ServerKeeps ==
    ASSUME Inv, NEW x \in Clients, ServerStep(x)
    PROVE  Kept
<1> USE DEF Inv
<1> DEFINE q == desk[x].rid
<1>1. /\ UNCHANGED <<served, agents, http, slot, peer, down, up, agent, cli, verdict>>
      /\ \A y \in Clients \ {x} : desk'[y] = desk[y]
      /\ Present(x) => desk'[x].rid = q /\ desk'[x].st # "none"
    BY ServerEffect
<1>2. \A c \in Conn, i, r \in Nat : WireHas(c, i, r)' <=> WireHas(c, i, r)
    BY <1>1 DEF WireHas
<1>3. \A r \in Nat : HttpHas(r)' <=> HttpHas(r)
    BY <1>1 DEF HttpHas
<1>4. Waiters'
    BY <1>1 DEF Waiters, Present
<1>5. CASE /\ ran' = ran
           /\ desk'[x].st \notin {"busy", "answered"}
           /\ desk'[x].st = "asked" => desk[x].st = "open" /\ desk'[x].rid = q
           /\ desk'[x].st # "open"
    <2>1. \A y \in Clients, r \in Nat : DeskHas(y, r)' => DeskHas(y, r)
        BY <1>1, <1>5 DEF DeskHas
    <2>2. \A r \in Nat : ToRun(r)' <=> ToRun(r)
        BY <1>1, <1>5 DEF ToRun
    <2>3. CarriedOnce'
        BY <1>2, <1>3, <2>1, <2>2, FewerInPlace
    <2>4. Answers'
        BY <1>1, <1>5 DEF Answers, Says
    <2> QED
        BY <1>1, <1>4, <1>5, <2>3, <2>4 DEF Kept
<1>6. CASE /\ ran' = ran \cup {q}
           /\ desk[x].st = "asked"
           /\ desk'[x].st \notin {"open", "asked"}
           /\ desk'[x].st \in {"busy", "answered"} => desk'[x].rid = q
    <2>1. \A y \in Clients, r \in Nat : DeskHas(y, r)' => y # x /\ DeskHas(y, r)
        BY <1>1, <1>6 DEF DeskHas
    <2>2. DeskHas(x, q) /\ q \in Nat
        BY <1>6 DEF DeskHas, Shapes, DeskShape, Desks
    <2>3. ToRun(q) /\ ~HttpHas(q) /\ \A c \in Conn, i \in Nat : ~WireHas(c, i, q)
        BY <2>2 DEF CarriedOnce, Carried
    <2>4. \A y \in Clients \ {x} : ~DeskHas(y, q)
        BY <2>2 DEF CarriedOnce
    <2>5. \A r \in Nat : Carried(r)' => r # q
        BY <1>2, <1>3, <2>1, <2>3, <2>4 DEF Carried
    <2>6. \A r \in Nat : r # q /\ ToRun(r) => ToRun(r)'
        BY <1>1, <1>6 DEF ToRun
    <2>7. CarriedOnce'
        BY <1>2, <1>3, <2>1, <2>5, <2>6, FewerInPlace
    <2>8. Answers'
        <3>1. q \in Calls /\ verdict[q] \in {"waiting", "unknown"}
            BY <2>3 DEF ToRun
        <3>2. \A r \in ran' : r \in Calls /\ verdict'[r] \in {"waiting", "unknown", "answered"}
            BY <1>1, <1>6, <3>1 DEF Answers
        <3>3. \A y \in Clients : desk'[y].st \in {"busy", "answered"} => desk'[y].rid \in ran'
            BY <1>1, <1>6 DEF Answers
        <3>4. /\ \A c \in Conn : \A i \in 1 .. Len(up[c])' : Says(up[c][i])'
              /\ \A c \in Conn : slot[c].done' => Says(slot[c])'
            BY <1>1, <1>6 DEF Answers, Says
        <3> QED
            BY <3>2, <3>3, <3>4 DEF Answers
    <2>9. Abstract!Run(q) /\ q \in Calls
        BY <1>1, <1>6, <2>3 DEF ToRun, Abstract!Run
    <2> QED
        BY <1>4, <2>7, <2>8, <2>9 DEF Kept, Abstract!CallNext
<1> QED
    BY <1>5, <1>6, ServerEffect

(* The steps that touch no command.                                         *)
LEMMA QuietKeeps ==
    ASSUME Inv, UNCHANGED <<http, slot, down, up, agent, cli, desk, verdict, ran>>
    PROVE  Kept
<1> USE DEF Inv
<1>1. CarriedOnce'
    <2>1. \A r \in Nat : (HttpHas(r)' <=> HttpHas(r)) /\ (ToRun(r)' <=> ToRun(r))
        BY DEF HttpHas, ToRun
    <2>2. \A c \in Conn, i, r \in Nat : WireHas(c, i, r)' <=> WireHas(c, i, r)
        BY DEF WireHas
    <2>3. \A x \in Clients, r \in Nat : DeskHas(x, r)' <=> DeskHas(x, r)
        BY DEF DeskHas
    <2> QED
        BY <2>1, <2>2, <2>3, FewerInPlace
<1>2. Waiters'
    BY DEF Waiters
<1>3. Answers'
    BY DEF Answers, Says
<1> QED
    BY <1>1, <1>2, <1>3 DEF Kept

(* A request that ends or is closed while its client may still wait for it. *)
LEMMA DeskKeeps ==
    ASSUME Inv, UNCHANGED <<http, slot, down, up, cli, verdict, ran>>,
           agent' = agent \/ agent'.pc = "backoff",
           \A x \in Clients :
               \/ desk'[x] = desk[x]
               \/ /\ desk'[x].st \notin {"open", "asked"}
                  /\ desk'[x].st \in {"busy", "answered"} => /\ desk[x].st = "busy"
                                                              /\ desk'[x].rid = desk[x].rid
                  /\ Present(x)' => desk'[x].rid = desk[x].rid /\ desk'[x].st # "none"
    PROVE  Kept
<1> USE DEF Inv
<1>1. CarriedOnce'
    <2>1. \A r \in Nat : (HttpHas(r)' <=> HttpHas(r)) /\ (ToRun(r)' <=> ToRun(r))
        BY DEF HttpHas, ToRun
    <2>2. \A c \in Conn, i, r \in Nat : WireHas(c, i, r)' <=> WireHas(c, i, r)
        BY DEF WireHas
    <2>3. \A x \in Clients, r \in Nat : DeskHas(x, r)' => DeskHas(x, r)
        BY DEF DeskHas
    <2> QED
        BY <2>1, <2>2, <2>3, FewerInPlace
<1>2. Waiters'
    BY DEF Waiters, Present
<1>3. Answers'
    BY DEF Answers, Says
<1> QED
    BY <1>1, <1>2, <1>3 DEF Kept

LEMMA EnvironmentKeeps ==
    ASSUME Inv, Environment \/ ApiDelEnds \/ AdminStarts \/ OtherPrograms \/ UNCHANGED vars
    PROVE  Kept
<1> USE DEF Inv, Shapes
<1>1. CASE CtlRestarts
    <2>1. /\ http'.pc = "accept"
          /\ verdict' = IF http.pc = "accept" THEN verdict
                        ELSE [verdict EXCEPT ![http.rid] = "unknown"]
          /\ UNCHANGED <<slot, down, up, agent, cli, desk, ran>>
        BY <1>1 DEF CtlRestarts
    <2>2. http.pc # "accept" => http.rid \in Calls /\ verdict[http.rid] = "waiting"
        BY DEF ControllerShape, Waiters
    <2>3. \A r \in Nat : ~HttpHas(r)' /\ (ToRun(r) => ToRun(r)')
        BY <2>1 DEF HttpHas, ToRun, LogShape
    <2>4. \A c \in Conn, i, r \in Nat : WireHas(c, i, r)' <=> WireHas(c, i, r)
        BY <2>1 DEF WireHas
    <2>5. \A x \in Clients, r \in Nat : DeskHas(x, r)' <=> DeskHas(x, r)
        BY <2>1 DEF DeskHas
    <2>6. CarriedOnce'
        BY <2>3, <2>4, <2>5, FewerInPlace
    <2>7. Waiters'
        BY <2>1, <2>2 DEF Waiters, LogShape, HostShape
    <2>8. Answers'
        BY <2>1, <2>2 DEF Answers, Says, LogShape
    <2>9. [Abstract!CallNext]_<<verdict, ran>>
        BY <2>1, <2>2 DEF Abstract!CallNext, Abstract!Told
    <2> QED
        BY <2>6, <2>7, <2>8, <2>9 DEF Kept
<1>2. CASE LinkDies
    <2>1. PICK c \in Conn : /\ down' = [down EXCEPT ![c] = <<>>] /\ up' = [up EXCEPT ![c] = <<>>]
                            /\ UNCHANGED <<http, slot, agent, cli, desk, verdict, ran>>
        BY <1>2 DEF LinkDies
    <2>2. \A d \in Conn : /\ down'[d] = down[d] \/ Len(down'[d]) = 0
                          /\ up'[d] = up[d] \/ Len(up'[d]) = 0
        BY <2>1 DEF WireShape
    <2>3. \A r \in Nat : (HttpHas(r)' <=> HttpHas(r)) /\ (ToRun(r)' <=> ToRun(r))
        BY <2>1 DEF HttpHas, ToRun
    <2>4. \A d \in Conn, i, r \in Nat : WireHas(d, i, r)' => WireHas(d, i, r)
        BY <2>2 DEF WireHas
    <2>5. \A x \in Clients, r \in Nat : DeskHas(x, r)' <=> DeskHas(x, r)
        BY <2>1 DEF DeskHas
    <2>6. CarriedOnce'
        BY <2>3, <2>4, <2>5, FewerInPlace
    <2>7. Waiters'
        BY <2>1 DEF Waiters
    <2>8. Answers'
        BY <2>1, <2>2 DEF Answers, Says
    <2> QED
        BY <2>1, <2>6, <2>7, <2>8 DEF Kept
<1>3. CASE AgentDies
    <2>1. /\ UNCHANGED <<http, slot, down, up, cli, verdict, ran>>
          /\ agent'.pc = "backoff"
          /\ desk' = [desk EXCEPT !["agent"] =
                         IF desk["agent"].st \in {"asked", "busy"} THEN desk["agent"] ELSE NoDesk]
        BY <1>3 DEF AgentDies, Backoff
    <2>2. desk'["cli"] = desk["cli"] /\ desk'["agent"] \in {desk["agent"], NoDesk}
        BY <2>1 DEF DeskShape
    <2> QED
        BY <2>1, <2>2, DeskKeeps DEF NoDesk, Present
<1>4. CASE AdminDies
    <2>1. /\ UNCHANGED <<http, slot, down, up, agent, cli, verdict, ran>>
          /\ desk' = [x \in Clients |-> IF desk[x].st \in {"open", "asked", "busy"} /\ Present(x)
                                  THEN [desk[x] EXCEPT !.st = "dropped"]
                                  ELSE IF desk[x].st \in {"answered", "dropped"} THEN desk[x]
                                  ELSE NoDesk]
        BY <1>4 DEF AdminDies
    <2>2. \A x \in Clients : Present(x)' <=> Present(x)
        BY <2>1 DEF Present
    <2>3. \A x \in Clients : Present(x) => desk[x].st # "none"
        BY DEF Present, Waiters
    <2>4. \A x \in Clients : /\ [desk[x] EXCEPT !.st = "dropped"].st = "dropped"
                             /\ [desk[x] EXCEPT !.st = "dropped"].rid = desk[x].rid
                             /\ desk[x].st \in {"none", "open", "asked", "busy", "answered", "dropped"}
        BY DEF DeskShape, Desks
    <2>5. \A x \in Clients :
              \/ desk'[x] = desk[x]
              \/ desk'[x] = [desk[x] EXCEPT !.st = "dropped"]
              \/ desk'[x] = NoDesk /\ ~Present(x)
        BY <2>1, <2>3, <2>4
    <2> QED
        BY <2>1, <2>2, <2>4, <2>5, DeskKeeps DEF NoDesk
<1>5. CASE ApiDelEnds
    <2>1. PICK x \in Clients : desk[x].st = "busy" /\ Ends(x, "answered", 0)
        BY <1>5 DEF ApiDelEnds
    <2>2. UNCHANGED <<http, slot, down, up, agent, cli, verdict, ran>>
        BY <1>5 DEF ApiDelEnds
    <2>3. /\ \A y \in Clients \ {x} : desk'[y] = desk[y]
          /\ \/ ~Present(x) /\ desk'[x] = NoDesk
             \/ Present(x) /\ desk'[x].st = "answered" /\ desk'[x].rid = desk[x].rid
        BY <2>1, EndsShape
    <2>4. Present(x)' <=> Present(x)
        BY <2>2 DEF Present
    <2> QED
        BY <2>1, <2>2, <2>3, <2>4, DeskKeeps DEF NoDesk
<1>6. CASE AdminStarts \/ OtherPrograms \/ AddAgent \/ WindowEnds \/ UNCHANGED vars
    BY <1>6, QuietKeeps DEF AdminStarts, OtherPrograms, AddAgent, WindowEnds, vars, adminVars
<1> QED
    BY <1>1, <1>2, <1>3, <1>4, <1>5, <1>6 DEF Environment

(* The steps of the command line.                                           *)
LEMMA CliKeeps ==
    ASSUME Inv, CliStart \/ CliAnswered \/ CliGivesUp
    PROVE  Kept
<1> USE DEF Inv, Shapes
<1>1. UNCHANGED <<http, slot, down, up, agent, ran>>
    BY DEF CliStart, CliAnswered, CliGivesUp
<1>2. /\ \A r \in Nat : HttpHas(r)' <=> HttpHas(r)
      /\ \A c \in Conn, i, r \in Nat : WireHas(c, i, r)' <=> WireHas(c, i, r)
    BY <1>1 DEF HttpHas, WireHas
<1>3. CASE CliStart /\ alive
    <2>1. PICK q \in Calls, g \in BOOLEAN :
              /\ cli.pc = "idle" /\ desk["cli"].st = "none" /\ verdict[q] = "unasked"
              /\ verdict' = [verdict EXCEPT ![q] = "waiting"]
              /\ cli' = [pc |-> "wait", rid |-> q, good |-> g]
              /\ desk' = [desk EXCEPT !["cli"] =
                             [NoDesk EXCEPT !.st = "open", !.rid = q, !.good = g]]
        BY <1>3 DEF CliStart, NextCall, Tell
    <2>2. /\ desk'["cli"].st = "open" /\ desk'["cli"].rid = q
          /\ desk'["agent"] = desk["agent"]
        BY <2>1 DEF DeskShape, NoDesk
    <2>3. q \in Nat /\ ~ToRun(q) /\ ~Carried(q) /\ q \notin ran
        BY <2>1 DEF CarriedOnce, ToRun, Answers
    <2>4. /\ \A r \in Nat : r # q => (ToRun(r)' <=> ToRun(r))
          /\ ToRun(q)'
        BY <1>1, <2>1, <2>3 DEF ToRun, LogShape
    <2>5. \A x \in Clients, r \in Nat :
              DeskHas(x, r)' => (x = "cli" /\ r = q) \/ (x = "agent" /\ DeskHas(x, r))
        BY <2>2 DEF DeskHas
    <2>6. \A r \in Nat : Carried(r)' => r = q \/ Carried(r)
        BY <1>2, <2>5 DEF Carried
    <2>7. \A r \in Nat : Carried(r)' => ToRun(r)'
        BY <2>3, <2>4, <2>6 DEF CarriedOnce
    <2>8. /\ \A c \in Conn, i \in Nat : ~WireHas(c, i, q)
          /\ \A x \in Clients : ~DeskHas(x, q)
          /\ ~HttpHas(q)
        BY <2>3 DEF Carried
    <2>9. CarriedOnce'
        BY <1>2, <2>5, <2>7, <2>8 DEF CarriedOnce
    <2>10. Waiters'
        <3>1. http'.pc # "accept" => http'.rid # q /\ verdict'[http'.rid] = "waiting"
            BY <1>1, <2>1 DEF Waiters, LogShape, ControllerShape
        <3>2. verdict'[q] = "waiting" /\ cli'.rid = q
            BY <2>1 DEF LogShape
        <3>3. agent'.pc = "calling" => desk'["agent"].rid = agent'.cmd /\ desk'["agent"].st # "none"
            BY <1>1, <2>2 DEF Waiters
        <3> QED
            BY <2>2, <3>1, <3>2, <3>3 DEF Waiters
    <2>11. Answers'
        <3>1. \A r \in ran' : r \in Calls /\ verdict'[r] \in {"waiting", "unknown", "answered"}
            BY <1>1, <2>1 DEF Answers, LogShape
        <3>2. \A x \in Clients : desk'[x].st \in {"busy", "answered"} => desk'[x].rid \in ran'
            BY <1>1, <2>2 DEF Answers
        <3> QED
            BY <1>1, <3>1, <3>2 DEF Answers, Says
    <2>12. Abstract!Ask(q)
        BY <1>1, <2>1 DEF Abstract!Ask
    <2> QED
        BY <2>9, <2>10, <2>11, <2>12 DEF Kept, Abstract!CallNext
<1>4. CASE CliStart /\ ~alive
    <2>1. PICK q \in Calls :
              /\ verdict[q] = "unasked" /\ verdict' = [verdict EXCEPT ![q] = "refused"]
              /\ UNCHANGED <<cli, desk>>
        BY <1>4 DEF CliStart, NextCall, Tell
    <2>2. q \in Nat /\ ~ToRun(q) /\ q \notin ran
        BY <2>1 DEF ToRun, Answers
    <2>3. \A r \in Nat : ToRun(r) => ToRun(r)'
        BY <1>1, <2>1, <2>2 DEF ToRun, LogShape
    <2>4. \A x \in Clients, r \in Nat : DeskHas(x, r)' <=> DeskHas(x, r)
        BY <2>1 DEF DeskHas
    <2>5. CarriedOnce'
        BY <1>2, <2>3, <2>4, FewerInPlace
    <2>6. Waiters'
        BY <1>1, <2>1 DEF Waiters, LogShape, ControllerShape, HostShape
    <2>7. Answers'
        BY <1>1, <2>1, <2>2 DEF Answers, Says, LogShape
    <2>8. Abstract!TurnAway(q)
        BY <1>1, <2>1 DEF Abstract!TurnAway
    <2> QED
        BY <2>5, <2>6, <2>7, <2>8 DEF Kept, Abstract!CallNext
<1>5. CASE CliAnswered \/ CliGivesUp
    <2>1. PICK v \in {"answered", "unknown"} :
              /\ cli.pc = "wait" /\ cli'.pc = "idle"
              /\ verdict' = [verdict EXCEPT ![cli.rid] = v]
              /\ v = "answered" => desk["cli"].st = "answered"
        BY <1>5 DEF CliAnswered, CliGivesUp, CliExits, Tell
    <2>2. /\ cli.rid \in Calls /\ verdict[cli.rid] = "waiting" /\ desk["cli"].rid = cli.rid
          /\ http.pc # "accept" => http.rid # cli.rid
        BY <2>1 DEF HostShape, Waiters
    <2>3. v = "answered" => cli.rid \in ran
        BY <2>1, <2>2 DEF Answers
    <2>4. desk'["agent"] = desk["agent"] /\ desk'["cli"] \in {desk["cli"], NoDesk}
        <3>1. desk' \in {[desk EXCEPT !["cli"] = NoDesk], desk}
            BY <1>5 DEF CliAnswered, CliGivesUp, DeskShape
        <3> QED
            BY <3>1 DEF DeskShape
    <2>5. \A x \in Clients, r \in Nat : DeskHas(x, r)' => DeskHas(x, r)
        BY <2>4 DEF DeskHas, NoDesk
    <2>6. \A r \in Nat : ToRun(r) => ToRun(r)'
        BY <1>1, <2>1, <2>3 DEF ToRun, LogShape
    <2>7. CarriedOnce'
        BY <1>2, <2>5, <2>6, FewerInPlace
    <2>8. Waiters'
        BY <1>1, <2>1, <2>2, <2>4 DEF Waiters, LogShape, ControllerShape
    <2>9. Answers'
        <3>1. \A r \in ran' : r \in Calls /\ verdict'[r] \in {"waiting", "unknown", "answered"}
            BY <1>1, <2>1 DEF Answers, LogShape
        <3>2. \A x \in Clients : desk'[x].st \in {"busy", "answered"} => desk'[x].rid \in ran'
            BY <1>1, <2>4 DEF Answers, NoDesk
        <3> QED
            BY <1>1, <3>1, <3>2 DEF Answers, Says
    <2>10. Abstract!Told(cli.rid, v)
        BY <1>1, <2>1, <2>2, <2>3 DEF Abstract!Told
    <2> QED
        BY <2>2, <2>7, <2>8, <2>9, <2>10 DEF Kept, Abstract!CallNext
<1> QED
    BY <1>3, <1>4, <1>5

-----------------------------------------------------------------------------
(* Frames on the way to the controller.                                     *)
UpSays == \A c \in Conn : \A i \in 1 .. Len(up[c]) : Says(up[c][i])

LEMMA PostSays ==
    ASSUME Shapes, UpSays, NEW c \in Conn, NEW m \in UpFrames, Says(m)',
           up' = Put(up, c, m), ran' = ran
    PROVE  UpSays'
<1>1. up \in [Conn -> Seq(UpFrames)]
    BY DEF Shapes, WireShape
<1>2. OneMore(up, up', c, m)
    BY <1>1, PutShape
<1>3. \A d \in Conn : \A i \in 1 .. Len(up'[d]) :
          (i \in 1 .. Len(up[d]) /\ up'[d][i] = up[d][i]) \/ up'[d][i] = m
    BY <1>2 DEF OneMore
<1> QED
    BY <1>3 DEF UpSays, Says

LEMMA ConsumeSays ==
    ASSUME Shapes, UpSays, NEW c \in Conn, up[c] # <<>>, up' = [up EXCEPT ![c] = Tail(@)],
           ran' = ran
    PROVE  UpSays' /\ Says(Head(up[c])) /\ Head(up[c]) \in UpFrames
<1>1. up \in [Conn -> Seq(UpFrames)]
    BY DEF Shapes, WireShape
<1>2. /\ Head(up[c]) \in UpFrames /\ Head(up[c]) = up[c][1] /\ 1 \in 1 .. Len(up[c])
      /\ \A d \in Conn \ {c} : up'[d] = up[d]
      /\ \A i \in 1 .. Len(up'[c]) : i + 1 \in 1 .. Len(up[c]) /\ up'[c][i] = up[c][i + 1]
    BY <1>1, TailShape
<1>3. Says(Head(up[c]))
    BY <1>2 DEF UpSays
<1>4. \A i \in 1 .. Len(up'[c]) : Says(up[c][i + 1])
    BY <1>2 DEF UpSays
<1>5. UpSays'
    BY <1>2, <1>4 DEF UpSays, Says
<1> QED
    BY <1>2, <1>3, <1>5

(* The controller: commands are accepted, forwarded and answered.           *)
LEMMA ControllerKeeps ==
    ASSUME Inv, Controller
    PROVE  Kept
<1> USE DEF Inv
<1>1. CarriedOnce'
    BY ControllerCarries
<1>2. UNCHANGED <<agent, cli, desk, ran>>
    BY DEF Controller, AcceptAgent, Admit, Reject, HelloFails, RecvReply, DropAgent, HttpAccept,
           HttpRefuses, ForwardBegin, ForwardSend, ForwardSendFails, ForwardReply, ForwardTimeout
<1>3. UpSays /\ Shapes /\ \A c \in Conn : slot[c].done => Says(slot[c])
    BY DEF Answers, UpSays
<1>4. \A x \in Clients : desk[x].st \in {"busy", "answered"} => desk[x].rid \in ran
    BY DEF Answers
<1>5. CASE AcceptAgent \/ Admit \/ Reject \/ HelloFails \/ RecvReply \/ DropAgent
    <2>1. UNCHANGED <<http, verdict>>
        BY <1>5 DEF AcceptAgent, Admit, Reject, HelloFails, RecvReply, DropAgent
    <2>2. Waiters'
        BY <1>2, <2>1 DEF Waiters
    <2>3. UpSays' /\ \A c \in Conn : slot[c].done' => Says(slot[c])'
        <3>1. CASE UNCHANGED <<up, slot>>
            BY <1>2, <1>3, <3>1 DEF UpSays, Says
        <3>2. CASE Admit \/ Reject
            <4>1. PICK c \in Conn : /\ up[c] # <<>> /\ up' = [up EXCEPT ![c] = Tail(@)]
                                    /\ slot' \in {slot, [slot EXCEPT ![c] = NoSlot]}
                BY <3>2 DEF Admit, Reject, HasFrame, Shapes, ControllerShape
            <4>2. UpSays'
                BY <1>2, <1>3, <4>1, ConsumeSays
            <4>3. \A d \in Conn : slot'[d] = slot[d] \/ slot'[d] = NoSlot
                BY <4>1 DEF Shapes, SlotShape
            <4> QED
                BY <1>2, <1>3, <4>2, <4>3 DEF Says, NoSlot
        <3>3. CASE RecvReply
            <4>1. PICK c \in Conn, m \in UpFrames :
                      /\ up[c] # <<>> /\ up' = [up EXCEPT ![c] = Tail(@)] /\ m = Head(up[c])
                      /\ slot' = IF m.id = slot[c].id
                                 THEN [slot EXCEPT ![c] = [slot[c] EXCEPT !.done = TRUE, !.st = m.st,
                                                                          !.of = m.of]]
                                 ELSE slot
                <5>1. /\ served.conn \in Conn /\ up[served.conn] # <<>>
                      /\ up' = [up EXCEPT ![served.conn] = Tail(@)]
                    BY <3>3 DEF RecvReply, HasFrame, Shapes, ControllerShape
                <5>2. Head(up[served.conn]) \in UpFrames
                    BY <5>1, <1>2, <1>3, ConsumeSays
                <5> QED
                    BY <3>3, <5>1, <5>2 DEF RecvReply
            <4>2. UpSays' /\ Says(m)
                BY <1>2, <1>3, <4>1, ConsumeSays
            <4> DEFINE filled == [slot[c] EXCEPT !.done = TRUE, !.st = m.st, !.of = m.of]
            <4>3. filled.id = slot[c].id /\ filled.st = m.st /\ filled.of = m.of
                BY DEF Shapes, SlotShape, Slots
            <4>4. \A d \in Conn : slot'[d] = slot[d]
                                  \/ (m.id = slot[c].id /\ slot'[d] = filled)
                BY <4>1 DEF Shapes, SlotShape
            <4> HIDE DEF filled
            <4> QED
                BY <1>2, <1>3, <4>2, <4>3, <4>4 DEF Says
        <3>4. AcceptAgent \/ HelloFails \/ DropAgent => UNCHANGED <<up, slot>>
            BY DEF AcceptAgent, HelloFails, DropAgent
        <3> QED
            BY <1>5, <3>1, <3>2, <3>3, <3>4
    <2>4. Answers'
        BY <1>2, <2>1, <2>3 DEF Answers, UpSays
    <2> QED
        BY <1>1, <1>2, <2>1, <2>2, <2>4 DEF Kept
<1>6. CASE HttpAccept
    <2>1. PICK q \in Calls : /\ verdict[q] = "unasked" /\ http.pc = "accept"
                             /\ verdict' = [verdict EXCEPT ![q] = "waiting"]
                             /\ http' = [http EXCEPT !.pc = "read", !.rid = q]
                             /\ UNCHANGED <<up, slot>>
        BY <1>6 DEF HttpAccept, NextCall, Tell
    <2>2. http'.rid = q
        BY <2>1 DEF Shapes, ControllerShape
    <2>3. Waiters'
        BY <1>2, <2>1, <2>2 DEF Waiters, Shapes, LogShape, HostShape
    <2>4. Answers'
        BY <1>2, <2>1 DEF Answers, Says, Shapes, LogShape
    <2>5. Abstract!Ask(q)
        BY <1>2, <2>1 DEF Abstract!Ask
    <2> QED
        BY <1>1, <2>3, <2>4, <2>5 DEF Kept, Abstract!CallNext
<1>7. CASE HttpRefuses \/ ForwardSendFails \/ ForwardReply \/ ForwardTimeout
    <2>1. /\ http.pc # "accept" /\ http.rid \in Calls /\ http.rid \in Nat /\ http.rid # 0
          /\ verdict[http.rid] = "waiting"
        BY <1>7 DEF HttpRefuses, ForwardSendFails, ForwardReply, ForwardTimeout, Waiters, Shapes,
            ControllerShape
    <2>2. PICK v \in {"refused", "answered", "unknown"} :
              /\ verdict' = [verdict EXCEPT ![http.rid] = v]
              /\ http'.pc = "accept"
              /\ v = "refused" => http.rid \notin ran
              /\ v = "answered" => http.rid \in ran
              /\ UNCHANGED <<up, slot>>
        <3>1. CASE HttpRefuses
            <4>1. HttpHas(http.rid)
                BY <3>1 DEF HttpRefuses, HttpHas
            <4>2. http.rid \notin ran
                BY <2>1, <4>1 DEF CarriedOnce, Carried, ToRun
            <4> QED
                BY <3>1, <4>2 DEF HttpRefuses, HttpAnswers, Tell
        <3>2. CASE ForwardReply
            <4>1. /\ slot[http.conn].done /\ slot[http.conn].id = http.rid /\ http.conn \in Conn
                BY <3>2 DEF ForwardReply, SlotFilled, Shapes, ControllerShape
            <4>2. slot[http.conn].st # "502" => http.rid \in ran
                BY <2>1, <4>1 DEF Answers, Says
            <4> QED
                BY <3>2, <4>2 DEF ForwardReply, HttpAnswers, Tell
        <3> QED
            BY <1>7, <3>1, <3>2 DEF ForwardSendFails, ForwardTimeout, HttpAnswers, Tell
    <2>3. Waiters'
        BY <1>2, <2>1, <2>2 DEF Waiters, Shapes, LogShape, HostShape
    <2>4. Answers'
        BY <1>2, <2>1, <2>2 DEF Answers, Says, Shapes, LogShape
    <2>5. Abstract!Told(http.rid, v)
        BY <1>2, <2>1, <2>2 DEF Abstract!Told
    <2> QED
        BY <1>1, <2>1, <2>3, <2>4, <2>5 DEF Kept, Abstract!CallNext
<1>8. CASE ForwardBegin \/ ForwardSend
    <2>1. /\ http.pc # "accept" /\ http'.rid = http.rid /\ UNCHANGED <<up, verdict>>
        BY <1>8 DEF ForwardBegin, ForwardSend, Shapes, ControllerShape
    <2>2. \A c \in Conn : slot'[c].done => slot'[c] = slot[c]
        BY <1>8 DEF ForwardBegin, ForwardSend, Shapes, SlotShape, Slots
    <2>3. Waiters'
        BY <1>2, <2>1 DEF Waiters
    <2>4. Answers'
        BY <1>2, <2>1, <2>2 DEF Answers, Says
    <2> QED
        BY <1>1, <1>2, <2>1, <2>3, <2>4 DEF Kept
<1> QED
    BY <1>5, <1>6, <1>7, <1>8 DEF Controller

(* The agent: it answers under the number of the command it is calling for. *)
LEMMA AgentKeeps ==
    ASSUME Inv, AgentStep
    PROVE  Kept
<1> USE DEF Inv
<1>1. CarriedOnce'
    BY AgentCarries
<1>2. UNCHANGED <<http, slot, cli, verdict, ran>>
    BY DEF AgentStep, Dial, AnswerChallenge, Welcomed, Refused, AgentTimeout, AgentNotices,
           TakeCommand, SendReply
<1>3. UpSays /\ Shapes
    BY DEF Answers, UpSays
<1>4. UpSays'
    <2>1. CASE AnswerChallenge
        <3>1. agent.conn \in Conn /\ up' = Put(up, agent.conn, Frame("hello", 0, None, 0))
            BY <2>1 DEF AnswerChallenge, Shapes, HostShape
        <3>2. Frame("hello", 0, None, 0) \in UpFrames /\ Says(Frame("hello", 0, None, 0))'
            BY DEF Frame, UpFrames, Says
        <3> QED
            BY <1>2, <1>3, <3>1, <3>2, PostSays
    <2>2. CASE Dial
        <3>1. PICK c \in Conn : up' = [up EXCEPT ![c] = <<>>]
            BY <2>2 DEF Dial
        <3>2. \A d \in Conn : up'[d] = up[d] \/ Len(up'[d]) = 0
            BY <3>1 DEF Shapes, WireShape
        <3> QED
            BY <1>2, <1>3, <3>2 DEF UpSays, Says
    <2>3. CASE SendReply /\ up' # up
        <3> DEFINE m == Frame("reply", agent.cmd,
                              IF desk["agent"].st = "dropped" THEN "502" ELSE "status",
                              desk["agent"].rid)
        <3>1. agent.conn \in Conn /\ up' = Put(up, agent.conn, m)
            BY <2>3 DEF SendReply, Shapes, HostShape
        <3>2. /\ agent.cmd \in Nat /\ desk["agent"].rid = agent.cmd
              /\ desk["agent"].st = "dropped" \/ desk["agent"].rid \in ran
            BY <2>3 DEF SendReply, Shapes, HostShape, Waiters, Answers
        <3>3. m \in UpFrames
            BY <3>2 DEF Frame, UpFrames
        <3>4. Says(m)
            BY <3>2 DEF Frame, Says
        <3>5. PICK f \in UpFrames : f = m
            BY <3>3
        <3> HIDE DEF m
        <3>6. Says(f)'
            BY <1>2, <3>4, <3>5 DEF Says
        <3> QED
            BY <1>2, <1>3, <3>1, <3>5, <3>6, PostSays
    <2>4. CASE up' = up
        BY <1>2, <1>3, <2>4 DEF UpSays, Says
    <2>5. AgentStep => AnswerChallenge \/ Dial \/ SendReply \/ up' = up
        BY DEF AgentStep, Welcomed, Refused, AgentTimeout, AgentNotices, TakeCommand
    <2> QED
        BY <2>1, <2>2, <2>3, <2>4, <2>5
<1>5. /\ desk'["cli"] = desk["cli"]
      /\ desk'["agent"].st \in {"busy", "answered"} => desk'["agent"] = desk["agent"]
      /\ agent'.pc = "calling" => desk'["agent"].rid = agent'.cmd /\ desk'["agent"].st # "none"
    <2>1. CASE TakeCommand
        <3>1. PICK q \in Nat : q = Head(down[agent.conn]).id
            <4>1. agent.conn \in Conn /\ down[agent.conn] # <<>>
                BY <2>1 DEF TakeCommand, Received, HasFrame, Shapes, HostShape
            <4>2. Head(down[agent.conn]) \in DownFrames
                BY <4>1 DEF Shapes, WireShape
            <4> QED
                BY <4>2 DEF DownFrames
        <3>2. PICK st \in {"open", "dropped"}, g \in BOOLEAN :
              desk' = [desk EXCEPT !["agent"] = [NoDesk EXCEPT !.st = st, !.rid = q, !.good = g]]
            BY <2>1, <3>1 DEF TakeCommand, Shapes, HostShape
        <3>3. /\ desk'["agent"].st = st /\ desk'["agent"].rid = q
              /\ desk'["cli"] = desk["cli"]
            BY <3>2 DEF Shapes, DeskShape, NoDesk
        <3>4. agent'.cmd = q
            BY <2>1, <3>1 DEF TakeCommand, Shapes, HostShape
        <3> QED
            BY <3>3, <3>4
    <2>2. CASE SendReply
        <3>1. desk' = [desk EXCEPT !["agent"] = NoDesk]
            BY <2>2 DEF SendReply
        <3>2. agent' = [agent EXCEPT !.pc = "serve", !.cmd = 0] \/ agent' = Backoff
            BY <2>2 DEF SendReply
        <3>3. CASE agent' = [agent EXCEPT !.pc = "serve", !.cmd = 0]
            <4>1. agent' = [pc |-> "serve", conn |-> agent.conn, cmd |-> 0]
                BY <3>3 DEF Shapes, HostShape
            <4> QED
                BY <3>1, <4>1 DEF NoDesk, Shapes, DeskShape
        <3> QED
            BY <3>1, <3>2, <3>3 DEF Backoff, NoDesk, Shapes, DeskShape
    <2>3. CASE Dial \/ AnswerChallenge \/ Welcomed \/ Refused \/ AgentTimeout \/ AgentNotices
        <3>1. desk' = desk /\ agent'.pc # "calling"
            BY <2>3 DEF Dial, AnswerChallenge, Welcomed, Refused, AgentTimeout, AgentNotices,
                Backoff, Shapes, HostShape
        <3> QED
            BY <3>1
    <2> QED
        BY <2>1, <2>2, <2>3 DEF AgentStep
<1>6. Waiters'
    BY <1>2, <1>5 DEF Waiters
<1>7. Answers'
    <2>1. \A x \in Clients : desk'[x].st \in {"busy", "answered"} => desk'[x].rid \in ran'
        BY <1>2, <1>5 DEF Answers
    <2> QED
        BY <1>2, <1>4, <2>1 DEF Answers, UpSays, Says
<1> QED
    BY <1>1, <1>2, <1>6, <1>7 DEF Kept

(* The table of agents.                                                     *)
LEMMA TableStep == Shapes /\ OnlineIsServed /\ [Next]_vars => OnlineIsServed'
<1> SUFFICES ASSUME Shapes, OnlineIsServed, [Next]_vars PROVE OnlineIsServed'
    OBVIOUS
<1> USE DEF OnlineIsServed
<1>1. CASE UNCHANGED <<served, agents>>
    BY <1>1
<1>2. CASE AcceptAgent \/ Reject \/ HelloFails
    BY <1>2 DEF AcceptAgent, Reject, HelloFails
<1>3. CASE Admit
    BY <1>3 DEF Admit, Shapes, ControllerShape
<1>4. CASE DropAgent
    BY <1>4 DEF DropAgent
<1>5. CASE CtlRestarts
    BY <1>5 DEF CtlRestarts
<1>6. Controller => \/ AcceptAgent \/ Reject \/ HelloFails \/ Admit \/ DropAgent
                    \/ UNCHANGED <<served, agents>>
    BY DEF Controller, RecvReply, HttpAccept, HttpRefuses, ForwardBegin, ForwardSend,
           ForwardSendFails, ForwardReply, ForwardTimeout
<1>7. AgentStep => UNCHANGED <<served, agents>>
    BY DEF AgentStep, Dial, AnswerChallenge, Welcomed, Refused, AgentTimeout, AgentNotices,
           TakeCommand, SendReply
<1>8. \A x \in Clients : ServerStep(x) => UNCHANGED <<served, agents>>
    BY DEF ServerStep, SendRequest, DropBlocked, Unauthorized, ApiList, ApiGen, ApiDelMisses,
           ApiDel, Sweep
<1>9. Environment => CtlRestarts \/ UNCHANGED <<served, agents>>
    BY DEF Environment, AddAgent, AgentDies, LinkDies, AdminDies, WindowEnds
<1>10. ApiDelEnds \/ AdminStarts \/ CliStart \/ CliAnswered \/ CliGivesUp \/ OtherPrograms
          \/ UNCHANGED vars => UNCHANGED <<served, agents>>
    BY DEF ApiDelEnds, AdminStarts, CliStart, CliAnswered, CliGivesUp, OtherPrograms, vars, adminVars
<1> QED
    BY <1>1, <1>2, <1>3, <1>4, <1>5, <1>6, <1>7, <1>8, <1>9, <1>10 DEF Next

-----------------------------------------------------------------------------
LEMMA StepKeeps == Inv /\ [Next]_vars => Inv' /\ [Abstract!CallNext]_<<verdict, ran>>
<1> SUFFICES ASSUME Inv, [Next]_vars PROVE Inv' /\ [Abstract!CallNext]_<<verdict, ran>>
    OBVIOUS
<1>1. FileInv'
    BY FileStep, FileStepOfNext DEF Inv
<1>2. Shapes'
    BY ShapesKept DEF Inv
<1>3. OnlineIsServed'
    BY TableStep DEF Inv
<1>4. Kept
    BY ControllerKeeps, AgentKeeps, ServerKeeps, EnvironmentKeeps, CliKeeps DEF Next
<1> QED
    BY <1>1, <1>2, <1>3, <1>4 DEF Inv, Kept

(* The inductive invariant of the channel: where a command that may still   *)
(* run is carried, who waits for it, what the answers under way say.        *)
THEOREM ChannelInvariant == Spec => []Inv
BY InitEstablishes, StepKeeps, PTL DEF Spec

(* The channel works on the token file like one of its users: what holds of *)
(* the file under FileSpec holds whatever the channel does.                 *)
THEOREM ChannelKeepsFileSpec == Spec => FileSpec
<1>1. Init => FileInit
    BY DEF Init
<1>2. Inv /\ [Next]_vars => [FileNext]_fileVars
    BY FileStepOfNext DEF Inv
<1> QED
    BY <1>1, <1>2, ChannelInvariant, PTL DEF Spec, FileSpec

(* No update of the token file is lost, for any number of threads of        *)
(* vpn_server, whatever dies between the read and the rename of a removal.  *)
THEOREM UpdatesAreKept == Spec => []TokensAreKept
<1>1. Inv => TokensAreKept
    BY DEF Inv, FileInv
<1> QED
    BY <1>1, ChannelInvariant, PTL

(* A token admits one client, and none after its deletion was confirmed.    *)
THEOREM TokensAdmitOnce == Spec => []OneAdmissionPerToken
<1>1. Inv => OneAdmissionPerToken
    BY DEF Inv, FileInv
<1> QED
    BY <1>1, ChannelInvariant, PTL

(* The controller passes on the reply to the command that is waited for: a  *)
(* late reply to one that timed out never fills its slot.                   *)
THEOREM RepliesMatch == Spec => []AnswersThisCommand
<1>1. ASSUME Inv, http.pc = "wait", SlotFilled PROVE slot[http.conn].of = http.rid
    <2>1. http.conn \in Conn
        BY <1>1 DEF Inv, Shapes, ControllerShape
    <2> QED
        BY <1>1, <2>1 DEF Inv, Answers, Says, SlotFilled
<1>2. Inv => AnswersThisCommand
    BY <1>1 DEF AnswersThisCommand
<1> QED
    BY <1>2, ChannelInvariant, PTL

(* The table of online agents names the connection that is being served.    *)
THEOREM TableIsServed == Spec => []OnlineIsServed
<1>1. Inv => OnlineIsServed
    BY DEF Inv
<1> QED
    BY <1>1, ChannelInvariant, PTL

(* Every command of the administrator, by either entry, keeps the promise   *)
(* of RemoteCall: it runs at most once, a refusal and an answer are true.   *)
THEOREM ChannelKeepsPromise == Spec => Promise
<1>1. Init => Abstract!CallInit
    BY DEF Init, AdminInit, Abstract!CallInit
<1> QED
    BY <1>1, StepKeeps, ChannelInvariant, PTL DEF Spec, Promise, Abstract!CallSpec
=============================================================================
