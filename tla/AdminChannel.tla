----------------------------- MODULE AdminChannel -----------------------------
(***************************************************************************)
(* The management channel of one VPN host: the administrator's HTTP        *)
(* requests reach vpn_controller, which forwards them over the connection  *)
(* that the host's admin_agent keeps open to it; the agent replays each    *)
(* command as an HTTP request to the admin_server of the host, which works *)
(* on the token file.  admin_cli talks to the same admin_server directly.  *)
(*                                                                         *)
(* Threads: the controller's agent thread and its single HTTP thread, the  *)
(* agent, the event loop of admin_server, admin_cli.  Time is abstracted   *)
(* to timeouts that may fire when their guard allows it.                   *)
(***************************************************************************)
EXTENDS TokenFile, Sequences

CONSTANTS Conn,         \* TCP connections between agent and controller
          Calls,        \* numbers of management commands, 1 .. n
          FailLimit,    \* kAuthFailLimit
          FrameTokens,  \* tokens whose list fits in a frame of kMaxFrame bytes
          CliTokens,    \* tokens whose list fits in the 8 KB of admin_cli
          Budgets       \* bound: how often each event from outside may happen, and
                        \* the commands the administrator gives

Ops == [op: {"list"}, arg: {0}] \cup [op: {"gen"}, arg: {1}] \cup [op: {"del"}, arg: 1 .. 2]

AdminAssumption == /\ IsFiniteSet(Conn)
                   /\ Calls \subseteq Nat \ {0} /\ IsFiniteSet(Calls)
                   /\ {FailLimit, FrameTokens, CliTokens} \subseteq Nat
                   /\ Budgets \subseteq [http: Nat, cli: Nat, file: Nat, fault: Nat,
                                          ops: SUBSET Ops]
ASSUME AdminAssumption

VARIABLES
    \* vpn_controller
    backlog,     \* connections the kernel has accepted for the listening socket
    served,      \* the agent thread: [pc, conn]
    agents,      \* the connection registered under the agent's id, or None
    whitelist,   \* [file, loaded]: is the agent's key in agents.txt, in whitelist_
    http,        \* the HTTP thread: [pc, rid, conn]
    slot,        \* slot[c]: pending_id, pending_done and the reply of the agent object
    \* the connections
    peer,        \* peer[c]: the agent's end
    down,        \* down[c]: frames on the way to the agent
    up,          \* up[c]: frames on the way to the controller
    \* admin_agent
    agent,       \* [pc, conn, cmd]
    \* admin_server
    alive,       \* the process runs
    desk,        \* desk[x]: the HTTP connection of client x
    fails,       \* failed authentications of 127.0.0.1 in the present window
    bearer,      \* the agent was started with the right --token
    \* admin_cli
    cli,         \* [pc, rid, good]
    \* history and bounds
    asked,       \* asked[r]: the operation of command r
    verdict,     \* verdict[r]: what the administrator was told of command r
    ran,         \* commands admin_server has executed
    budget

adminVars == <<backlog, served, agents, whitelist, http, slot, peer, down, up,
               agent, alive, desk, fails, bearer, cli, asked, verdict, ran, budget>>
vars == <<fileVars, adminVars>>

None == "none"
Clients == {"agent", "cli"}          \* of admin_server; both from 127.0.0.1

NoOrder == [op |-> "none", arg |-> 0]
NoSlot == [id |-> 0, done |-> FALSE, st |-> None, of |-> 0]
NoDesk == [st |-> "none", rid |-> 0, good |-> FALSE, size |-> 0]

AdminInit ==
    /\ backlog = <<>>
    /\ served = [pc |-> "accept", conn |-> None]
    /\ agents = None
    /\ whitelist \in {[file |-> b, loaded |-> b] : b \in BOOLEAN}
    /\ http = [pc |-> "accept", rid |-> 0, conn |-> None]
    /\ slot = [c \in Conn |-> NoSlot]
    /\ peer = [c \in Conn |-> "none"]
    /\ down = [c \in Conn |-> <<>>]
    /\ up = [c \in Conn |-> <<>>]
    /\ agent = [pc |-> "backoff", conn |-> None, cmd |-> 0]
    /\ alive = TRUE
    /\ desk = [x \in Clients |-> NoDesk]
    /\ fails = 0
    /\ bearer \in BOOLEAN
    /\ cli = [pc |-> "idle", rid |-> 0, good |-> FALSE]
    /\ asked = [r \in Calls |-> NoOrder]
    /\ verdict = [r \in Calls |-> "unasked"]
    /\ ran = {}
    /\ budget \in Budgets

Init == FileInit /\ AdminInit

ctlVars == <<backlog, served, agents, whitelist, http, slot>>
wireVars == <<peer, down, up>>
hostVars == <<alive, desk, fails, bearer, cli>>
logVars == <<asked, verdict, ran, budget>>

-----------------------------------------------------------------------------
(* Frames.  send_frame puts a whole frame on the wire or fails; recv_frame  *)
(* returns 1 with the next whole frame, 0 when none is complete in time,    *)
(* -1 when the connection is closed and everything before it is read.       *)
Frame(type, id, st, of) == [type |-> type, id |-> id, st |-> st, of |-> of]
HasFrame(q) == q # <<>>
Put(q, c, m) == IF peer[c] = "lost" THEN q ELSE [q EXCEPT ![c] = Append(@, m)]

(* The connection object lives while the agent thread or a forward has it.  *)
HeldByController(c) == \/ served.conn = c
                       \/ http.conn = c
                       \/ \E i \in 1 .. Len(backlog) : backlog[i] = c
Unused(c) == agent.conn # c /\ ~HeldByController(c)

(* The peer's end is gone and its last frames are read: recv returns 0.     *)
AtEof(c) == peer[c] = "closed" /\ ~HasFrame(up[c])

(* The bound on what comes from outside: commands by either entry, other    *)
(* programs at the token file, crashes and lost connections.                *)
Spend(k) == budget[k] > 0 /\ budget' = [budget EXCEPT ![k] = @ - 1]
Fault == Spend("fault")

-----------------------------------------------------------------------------
(*                        vpn_controller: agent channel                    *)

(* Controller::agent_loop: one connection is accepted; the challenge is     *)
(* sent at once (TLS, where configured, is established first).              *)
AcceptAgent ==
    /\ served.pc = "accept"
    /\ backlog # <<>>
    /\ LET c == Head(backlog) IN
         /\ backlog' = Tail(backlog)
         /\ served' = [pc |-> "hello", conn |-> c]
         /\ down' = Put(down, c, Frame("challenge", 0, None, 0))
    /\ UNCHANGED <<agents, whitelist, http, slot, peer, up, agent, hostVars, logVars, fileVars>>

(* A good hello of a registered key: the agent is told welcome and its      *)
(* connection becomes the one of its id.                                    *)
Admit ==
    /\ served.pc = "hello"
    /\ LET c == served.conn IN
         /\ HasFrame(up[c])
         /\ whitelist.loaded
         /\ up' = [up EXCEPT ![c] = Tail(@)]
         /\ down' = Put(down, c, Frame("welcome", 0, None, 0))
         /\ slot' = [slot EXCEPT ![c] = NoSlot]
         /\ agents' = c
         /\ served' = [served EXCEPT !.pc = "serve"]
    /\ UNCHANGED <<backlog, whitelist, http, peer, agent, hostVars, logVars, fileVars>>

(* A key that was not in agents.txt when the controller started.            *)
Reject ==
    /\ served.pc = "hello"
    /\ LET c == served.conn IN
         /\ HasFrame(up[c])
         /\ ~whitelist.loaded
         /\ up' = [up EXCEPT ![c] = Tail(@)]
         /\ down' = Put(down, c, Frame("reject", 0, None, 0))
         /\ served' = [pc |-> "accept", conn |-> None]
    /\ UNCHANGED <<backlog, agents, whitelist, http, slot, peer, agent, hostVars, logVars, fileVars>>

(* The hello does not come: the peer has closed, or five seconds pass.      *)
HelloFails ==
    /\ served.pc = "hello"
    /\ AtEof(served.conn) \/ (peer[served.conn] = "lost" /\ ~HasFrame(up[served.conn]))
    /\ served' = [pc |-> "accept", conn |-> None]
    /\ UNCHANGED <<backlog, agents, whitelist, http, slot, wireVars, agent, hostVars, logVars, fileVars>>

(* Mutant: the id of the reply is not compared with the pending one.        *)
RecvAnyReply ==
    /\ served.pc = "serve"
    /\ LET c == served.conn
           m == Head(up[c]) IN
         /\ HasFrame(up[c])
         /\ up' = [up EXCEPT ![c] = Tail(@)]
         /\ slot' = [slot EXCEPT ![c] = [@ EXCEPT !.done = TRUE, !.st = m.st, !.of = m.of]]
    /\ UNCHANGED <<backlog, served, agents, whitelist, http, peer, down, agent, hostVars, logVars, fileVars>>

(* A reply fills the slot of the command it names, and no other.            *)
RecvReply ==
    /\ served.pc = "serve"
    /\ LET c == served.conn
           m == Head(up[c]) IN
         /\ HasFrame(up[c])
         /\ up' = [up EXCEPT ![c] = Tail(@)]
         /\ slot' = IF m.id = slot[c].id
                    THEN [slot EXCEPT ![c] = [@ EXCEPT !.done = TRUE, !.st = m.st, !.of = m.of]]
                    ELSE slot
    /\ UNCHANGED <<backlog, served, agents, whitelist, http, peer, down, agent, hostVars, logVars, fileVars>>

(* recv_frame fails, or nothing was heard for kHeartbeatGap: the agent sends *)
(* a heartbeat every 15 s unless it is gone or blocked in a local request.  *)
Silent(c) == /\ ~HasFrame(up[c])
             /\ peer[c] = "lost" \/ (peer[c] = "open" /\ agent.conn = c /\ agent.pc = "calling")

(* Mutant: the entry of the agent is not erased.                            *)
DropAgentKeepingEntry ==
    /\ served.pc = "serve"
    /\ AtEof(served.conn) \/ Silent(served.conn)
    /\ served' = [pc |-> "accept", conn |-> None]
    /\ UNCHANGED <<backlog, agents, whitelist, http, slot, wireVars, agent, hostVars, logVars, fileVars>>

(* Mutant: no limit on the silence of an agent.                             *)
DropAgentAtEof ==
    /\ served.pc = "serve"
    /\ AtEof(served.conn)
    /\ agents' = IF agents = served.conn THEN None ELSE agents
    /\ served' = [pc |-> "accept", conn |-> None]
    /\ UNCHANGED <<backlog, whitelist, http, slot, wireVars, agent, hostVars, logVars, fileVars>>

DropAgent ==
    /\ served.pc = "serve"
    /\ AtEof(served.conn) \/ Silent(served.conn)
    /\ agents' = IF agents = served.conn THEN None ELSE agents
    /\ served' = [pc |-> "accept", conn |-> None]
    /\ UNCHANGED <<backlog, whitelist, http, slot, wireVars, agent, hostVars, logVars, fileVars>>

-----------------------------------------------------------------------------
(*                         vpn_controller: HTTP entry                      *)

NextCall(r) == verdict[r] = "unasked" /\ \A q \in Calls : q < r => verdict[q] # "unasked"
Tell(r, v) == verdict' = [verdict EXCEPT ![r] = v]

(* http_loop accepts one client and reads until its request is complete.    *)
HttpAccept ==
    /\ http.pc = "accept"
    /\ Spend("http")
    /\ \E r \in Calls, o \in budget.ops :
         /\ NextCall(r)
         /\ asked' = [asked EXCEPT ![r] = o]
         /\ Tell(r, "waiting")
         /\ http' = [http EXCEPT !.pc = "read", !.rid = r]
    /\ UNCHANGED <<backlog, served, agents, whitelist, slot, wireVars, agent, hostVars, ran, fileVars>>

HttpAnswers(v) ==
    /\ Tell(http.rid, v)
    /\ http' = [pc |-> "accept", rid |-> 0, conn |-> None]

(* handle_http answers by itself: 400, 413, 401, 404, or 503 "agent offline" *)
HttpRefuses ==
    /\ http.pc = "read"
    /\ HttpAnswers("refused")
    /\ UNCHANGED <<backlog, served, agents, whitelist, slot, wireVars, agent, hostVars, asked, ran, budget, fileVars>>

(* Controller::forward: the agent object of the id is found and its slot is *)
(* prepared for this command.                                               *)
ForwardBegin ==
    /\ http.pc = "read"
    /\ agents # None
    /\ slot' = [slot EXCEPT ![agents].id = http.rid, ![agents].done = FALSE]
    /\ http' = [http EXCEPT !.pc = "send", !.conn = agents]
    /\ UNCHANGED <<backlog, served, agents, whitelist, wireVars, agent, hostVars, logVars, fileVars>>

(* The command goes out, or the connection refuses it: 504 "agent send      *)
(* failed".                                                                 *)
ForwardSend ==
    /\ http.pc = "send"
    /\ down' = Put(down, http.conn, Frame("command", http.rid, None, http.rid))
    /\ http' = [http EXCEPT !.pc = "wait"]
    /\ UNCHANGED <<backlog, served, agents, whitelist, slot, peer, up, agent, hostVars, logVars, fileVars>>

ForwardSendFails ==
    /\ http.pc = "send"
    /\ peer[http.conn] # "open"
    /\ HttpAnswers("unknown")
    /\ UNCHANGED <<backlog, served, agents, whitelist, slot, wireVars, agent, hostVars, asked, ran, budget, fileVars>>

SlotFilled == slot[http.conn].done /\ slot[http.conn].id = http.rid

(* The status and body of the reply are passed on as they are.              *)
ForwardReply ==
    /\ http.pc = "wait"
    /\ SlotFilled
    /\ HttpAnswers(IF slot[http.conn].st = "502" THEN "unknown" ELSE "answered")
    /\ UNCHANGED <<backlog, served, agents, whitelist, slot, wireVars, agent, hostVars, asked, ran, budget, fileVars>>

(* kForwardMs pass: 504 "agent timeout".                                    *)
ForwardTimeout ==
    /\ http.pc = "wait"
    /\ ~SlotFilled
    /\ HttpAnswers("unknown")
    /\ UNCHANGED <<backlog, served, agents, whitelist, slot, wireVars, agent, hostVars, asked, ran, budget, fileVars>>

(* The controller is killed or restarted by its administrator: only then is *)
(* agents.txt read again.                                                   *)
CtlRestarts ==
    /\ Fault
    /\ backlog' = <<>>
    /\ served' = [pc |-> "accept", conn |-> None]
    /\ agents' = None
    /\ whitelist' = [whitelist EXCEPT !.loaded = whitelist.file]
    /\ http' = [pc |-> "accept", rid |-> 0, conn |-> None]
    /\ verdict' = IF http.pc = "accept" THEN verdict ELSE [verdict EXCEPT ![http.rid] = "unknown"]
    /\ UNCHANGED <<slot, wireVars, agent, hostVars, asked, ran, fileVars>>

(* vpn_controller --add-agent: a line is added to agents.txt.               *)
AddAgent ==
    /\ ~whitelist.file
    /\ whitelist' = [whitelist EXCEPT !.file = TRUE]
    /\ UNCHANGED <<backlog, served, agents, http, slot, wireVars, agent, hostVars, logVars, fileVars>>

-----------------------------------------------------------------------------
(*                                admin_agent                              *)

Backoff == [pc |-> "backoff", conn |-> None, cmd |-> 0]
HangUp(c) == peer' = [peer EXCEPT ![c] = IF @ = "open" THEN "closed" ELSE @]

(* Agent::run and connect_and_serve: after the backoff the agent dials.     *)
Dial ==
    /\ agent.pc = "backoff"
    /\ \E c \in Conn :
         /\ Unused(c)
         /\ peer' = [peer EXCEPT ![c] = "open"]
         /\ down' = [down EXCEPT ![c] = <<>>]
         /\ up' = [up EXCEPT ![c] = <<>>]
         /\ backlog' = Append(backlog, c)
         /\ agent' = [pc |-> "challenge", conn |-> c, cmd |-> 0]
    /\ UNCHANGED <<served, agents, whitelist, http, slot, hostVars, logVars, fileVars>>

Received(type) == HasFrame(down[agent.conn]) /\ Head(down[agent.conn]).type = type
Consumed == down' = [down EXCEPT ![agent.conn] = Tail(@)]

AnswerChallenge ==
    /\ agent.pc = "challenge"
    /\ Received("challenge")
    /\ Consumed
    /\ up' = Put(up, agent.conn, Frame("hello", 0, None, 0))
    /\ agent' = [agent EXCEPT !.pc = "welcome"]
    /\ UNCHANGED <<ctlVars, peer, hostVars, logVars, fileVars>>

Welcomed ==
    /\ agent.pc = "welcome"
    /\ Received("welcome")
    /\ Consumed
    /\ agent' = [agent EXCEPT !.pc = "serve"]
    /\ UNCHANGED <<ctlVars, peer, up, hostVars, logVars, fileVars>>

(* Refused admission is retried like any other failure.                     *)
Refused ==
    /\ agent.pc = "welcome"
    /\ Received("reject")
    /\ Consumed
    /\ HangUp(agent.conn)
    /\ agent' = Backoff
    /\ UNCHANGED <<ctlVars, up, hostVars, logVars, fileVars>>

(* Five seconds without the frame the agent waits for.  A controller whose  *)
(* agent thread is free answers in time.                                    *)
CtlBusy == \/ served.pc = "serve" /\ served.conn # agent.conn
           \/ served.pc = "hello" /\ served.conn # agent.conn /\ peer[served.conn] = "lost"

AgentTimeout ==
    /\ agent.pc \in {"challenge", "welcome"}
    /\ ~HasFrame(down[agent.conn])
    /\ CtlBusy \/ peer[agent.conn] = "lost"
    /\ HangUp(agent.conn)
    /\ agent' = Backoff
    /\ UNCHANGED <<ctlVars, down, up, hostVars, logVars, fileVars>>

(* recv_frame or a heartbeat fails: the controller has closed the connection *)
(* or the path is dead.                                                     *)
AgentNotices ==
    /\ agent.pc \in {"challenge", "welcome", "serve"}
    /\ \/ ~HeldByController(agent.conn) /\ ~HasFrame(down[agent.conn])
       \/ peer[agent.conn] = "lost"
    /\ HangUp(agent.conn)
    /\ agent' = Backoff
    /\ UNCHANGED <<ctlVars, down, up, hostVars, logVars, fileVars>>

(* A command is turned into one request to the local admin_server, in the   *)
(* order of arrival; the agent does nothing else until it is answered.      *)
TakeCommand ==
    /\ agent.pc = "serve"
    /\ Received("command")
    /\ desk["agent"].st = "none"
    /\ Consumed
    /\ agent' = [agent EXCEPT !.pc = "calling", !.cmd = Head(down[agent.conn]).id]
    /\ desk' = [desk EXCEPT !["agent"] =
                  [NoDesk EXCEPT !.st = IF alive THEN "open" ELSE "dropped",
                                 !.rid = Head(down[agent.conn]).id, !.good = bearer]]
    /\ UNCHANGED <<ctlVars, peer, up, alive, fails, bearer, cli, logVars, fileVars>>

SendRequest(x) ==
    /\ desk[x].st = "open"
    /\ desk' = [desk EXCEPT ![x].st = "asked"]
    /\ UNCHANGED <<ctlVars, wireVars, agent, alive, fails, bearer, cli, logVars, fileVars>>

(* The reply carries the id of the command; a connection that closed without *)
(* a response is reported as status 502.  A reply longer than kMaxFrame      *)
(* cannot be sent: the agent gives the connection up.                        *)
SendReply ==
    /\ agent.pc = "calling"
    /\ desk["agent"].st \in {"answered", "dropped"}
    /\ desk' = [desk EXCEPT !["agent"] = NoDesk]
    /\ IF desk["agent"].size <= FrameTokens
       THEN /\ up' = Put(up, agent.conn,
                         Frame("reply", agent.cmd,
                               IF desk["agent"].st = "dropped" THEN "502" ELSE "status",
                               desk["agent"].rid))
            /\ agent' = [agent EXCEPT !.pc = "serve", !.cmd = 0]
            /\ UNCHANGED peer
       ELSE /\ HangUp(agent.conn)
            /\ agent' = Backoff
            /\ UNCHANGED up
    /\ UNCHANGED <<ctlVars, down, alive, fails, bearer, cli, logVars, fileVars>>

(* The agent is killed; its host's kernel closes the connections.           *)
AgentDies ==
    /\ Fault
    /\ agent.pc # "backoff"
    /\ HangUp(agent.conn)
    /\ agent' = Backoff
    /\ desk' = [desk EXCEPT !["agent"] = IF @.st \in {"asked", "busy"} THEN @ ELSE NoDesk]
    /\ UNCHANGED <<ctlVars, down, up, alive, fails, bearer, cli, asked, verdict, ran, fileVars>>

(* The path between agent and controller dies silently, with what is on it. *)
LinkDies ==
    /\ Fault
    /\ \E c \in Conn :
         /\ peer[c] = "open"
         /\ agent.conn = c
         /\ peer' = [peer EXCEPT ![c] = "lost"]
         /\ down' = [down EXCEPT ![c] = <<>>]
         /\ up' = [up EXCEPT ![c] = <<>>]
    /\ UNCHANGED <<ctlVars, agent, hostVars, asked, verdict, ran, fileVars>>

-----------------------------------------------------------------------------
(*                               admin_server                              *)

Present(x) == IF x = "agent" THEN agent.pc = "calling" ELSE cli.pc = "wait"
Ends(x, st, size) ==
    desk' = [desk EXCEPT ![x] = IF Present(x) THEN [@ EXCEPT !.st = st, !.size = size]
                                ELSE NoDesk]

(* One event loop serves one request at a time, up to its answer.           *)
Serving(x) == /\ alive
              /\ job[Admin].pc = "idle"
              /\ desk[x].st = "asked"
AuthBlocked == fails >= FailLimit
Order(x) == asked[desk[x].rid]
Authorized(x) == Serving(x) /\ ~AuthBlocked /\ desk[x].good
Executed(x) == ran' = ran \cup {desk[x].rid}

(* An address that has failed too often is dropped without an answer,       *)
(* before its token is looked at.                                           *)
DropBlocked(x) ==
    /\ Serving(x)
    /\ AuthBlocked
    /\ Ends(x, "dropped", 0)
    /\ UNCHANGED <<ctlVars, wireVars, agent, alive, fails, bearer, cli, logVars, fileVars>>

(* checkAuth fails: 401, and noteAuthFail counts it.                        *)
Unauthorized(x) ==
    /\ Serving(x)
    /\ ~AuthBlocked
    /\ ~desk[x].good
    /\ fails' = fails + 1
    /\ Executed(x)
    /\ Ends(x, "answered", 0)
    /\ UNCHANGED <<ctlVars, wireVars, agent, alive, bearer, cli, asked, verdict, budget, fileVars>>

(* apiList and apiExport read under the shared lock.                        *)
ApiList(x) ==
    /\ Authorized(x)
    /\ Order(x).op = "list"
    /\ LockFree
    /\ Executed(x)
    /\ Ends(x, "answered", Cardinality(tokens))
    /\ UNCHANGED <<ctlVars, wireVars, agent, alive, fails, bearer, cli, asked, verdict, budget, fileVars>>

(* apiGen: 400 for a bad count (here: above what the bound leaves) and 500   *)
(* without the file leave no trace.                                         *)
ApiGen(x) ==
    /\ Authorized(x)
    /\ Order(x).op = "gen"
    /\ Executed(x)
    /\ \/ /\ Order(x).arg \in 1 .. MaxTokens
          /\ AppendTokens(Order(x).arg)
          /\ Ends(x, "answered", Order(x).arg)
       \/ Ends(x, "answered", 0) /\ UNCHANGED fileVars
    /\ UNCHANGED <<ctlVars, wireVars, agent, alive, fails, bearer, cli, asked, verdict, budget>>

(* apiDel: 404 when the token is not in the file, else removeToken; 500     *)
(* when the lock file cannot be opened.                                     *)
ApiDelMisses(x) ==
    /\ Authorized(x)
    /\ Order(x).op = "del"
    /\ LockFree
    /\ Order(x).arg \notin tokens
    /\ Executed(x)
    /\ Ends(x, "answered", 0)
    /\ UNCHANGED <<ctlVars, wireVars, agent, alive, fails, bearer, cli, asked, verdict, budget, fileVars>>

ApiDel(x) ==
    /\ Authorized(x)
    /\ Order(x).op = "del"
    /\ DeleteBegin(Order(x).arg)
    /\ Executed(x)
    /\ desk' = [desk EXCEPT ![x].st = "busy"]
    /\ UNCHANGED <<ctlVars, wireVars, agent, alive, fails, bearer, cli, asked, verdict, budget>>

ApiDelEnds ==
    /\ DeleteEnd \/ DeleteFails
    /\ \E x \in Clients : desk[x].st = "busy" /\ Ends(x, "answered", 0)
    /\ UNCHANGED <<ctlVars, wireVars, agent, alive, fails, bearer, cli, logVars>>

(* sweep closes a connection that sent nothing for five seconds.            *)
Sweep(x) ==
    /\ alive
    /\ job[Admin].pc = "idle"
    /\ desk[x].st = "open"
    /\ Ends(x, "dropped", 0)
    /\ UNCHANGED <<ctlVars, wireVars, agent, alive, fails, bearer, cli, logVars, fileVars>>

(* kAuthWindowSec after the first failure sweep forgets the window.         *)
WindowEnds ==
    /\ alive
    /\ fails > 0
    /\ fails' = 0
    /\ UNCHANGED <<ctlVars, wireVars, agent, alive, desk, bearer, cli, logVars, fileVars>>

(* admin_server is killed, perhaps between the read and the rename.         *)
AdminDies ==
    /\ alive
    /\ Fault
    /\ alive' = FALSE
    /\ fails' = 0
    /\ desk' = [x \in Clients |-> IF desk[x].st \in {"open", "asked", "busy"} /\ Present(x)
                                  THEN [desk[x] EXCEPT !.st = "dropped"]
                                  ELSE IF desk[x].st \in {"answered", "dropped"} THEN desk[x] ELSE NoDesk]
    /\ AdminServerDies
    /\ UNCHANGED <<ctlVars, wireVars, agent, bearer, cli, asked, verdict, ran>>

AdminStarts ==
    /\ ~alive
    /\ alive' = TRUE
    /\ UNCHANGED <<ctlVars, wireVars, agent, desk, fails, bearer, cli, logVars, fileVars>>

-----------------------------------------------------------------------------
(*                                 admin_cli                               *)

(* ServerAdmin::start connects, with the token of the environment.          *)
CliStart ==
    /\ cli.pc = "idle"
    /\ Spend("cli")
    /\ desk["cli"].st = "none"
    /\ \E r \in Calls, o \in budget.ops, g \in BOOLEAN :
         /\ NextCall(r)
         /\ asked' = [asked EXCEPT ![r] = o]
         /\ IF alive
            THEN /\ Tell(r, "waiting")
                 /\ cli' = [pc |-> "wait", rid |-> r, good |-> g]
                 /\ desk' = [desk EXCEPT !["cli"] =
                               [NoDesk EXCEPT !.st = "open", !.rid = r, !.good = g]]
            ELSE /\ Tell(r, "refused")
                 /\ UNCHANGED <<cli, desk>>
    /\ UNCHANGED <<ctlVars, wireVars, agent, alive, fails, bearer, ran, fileVars>>

CliExits(v) ==
    /\ cli.pc = "wait"
    /\ Tell(cli.rid, v)
    /\ cli' = [pc |-> "idle", rid |-> 0, good |-> FALSE]

(* sendMsg reads until the peer closes; more than 8 KB is an error whatever *)
(* the server has done.                                                     *)
CliAnswered ==
    /\ desk["cli"].st \in {"answered", "dropped"}
    /\ CliExits(IF desk["cli"].st = "answered" /\ desk["cli"].size <= CliTokens
                THEN "answered" ELSE "unknown")
    /\ desk' = [desk EXCEPT !["cli"] = NoDesk]
    /\ UNCHANGED <<ctlVars, wireVars, agent, alive, fails, bearer, asked, ran, budget, fileVars>>

(* Five seconds without an event: the client gives up, its request remains  *)
(* in the socket buffer of the server and is still served.                  *)
CliGivesUp ==
    /\ desk["cli"].st \in {"open", "asked", "busy"}
    /\ CliExits("unknown")
    /\ desk' = [desk EXCEPT !["cli"] = IF @.st = "open" THEN NoDesk ELSE @]
    /\ UNCHANGED <<ctlVars, wireVars, agent, alive, fails, bearer, asked, ran, budget, fileVars>>

-----------------------------------------------------------------------------
Controller ==
    \/ AcceptAgent \/ Admit \/ Reject \/ HelloFails \/ RecvReply \/ DropAgent
    \/ HttpAccept \/ HttpRefuses \/ ForwardBegin \/ ForwardSend \/ ForwardSendFails
    \/ ForwardReply \/ ForwardTimeout

AgentStep ==
    \/ Dial \/ AnswerChallenge \/ Welcomed \/ Refused \/ AgentTimeout \/ AgentNotices
    \/ TakeCommand \/ SendReply

ServerStep(x) ==
    \/ SendRequest(x) \/ DropBlocked(x) \/ Unauthorized(x) \/ ApiList(x)
    \/ ApiGen(x) \/ ApiDelMisses(x) \/ ApiDel(x) \/ Sweep(x)

OtherPrograms ==
    /\ \/ Spend("file") /\ (GenToken \/ Enrol)
       \/ Registration /\ UNCHANGED budget
    /\ UNCHANGED <<ctlVars, wireVars, agent, hostVars, asked, verdict, ran>>

Environment ==
    \/ CtlRestarts \/ AddAgent \/ AgentDies \/ LinkDies \/ AdminDies \/ WindowEnds

Next ==
    \/ Controller
    \/ AgentStep
    \/ \E x \in Clients : ServerStep(x)
    \/ ApiDelEnds
    \/ AdminStarts
    \/ CliStart \/ CliAnswered \/ CliGivesUp
    \/ OtherPrograms
    \/ Environment

Spec == Init /\ [][Next]_vars

(* Every thread that can go on does: the threads of the controller, the     *)
(* agent and admin_server are scheduled, a service manager restarts what    *)
(* dies, a process that holds the lock of the token file lets it go.        *)
Fairness ==
    /\ WF_vars(AcceptAgent) /\ WF_vars(Admit \/ Reject) /\ WF_vars(HelloFails)
    /\ WF_vars(RecvReply) /\ WF_vars(DropAgent)
    /\ WF_vars(HttpRefuses \/ ForwardBegin)
    /\ WF_vars(ForwardSend \/ ForwardSendFails \/ ForwardReply \/ ForwardTimeout)
    /\ WF_vars(Dial) /\ WF_vars(AnswerChallenge) /\ WF_vars(Welcomed) /\ WF_vars(Refused)
    /\ WF_vars(AgentTimeout) /\ WF_vars(AgentNotices)
    /\ WF_vars(TakeCommand) /\ WF_vars(SendReply)
    /\ \A x \in Clients : WF_vars(ServerStep(x))
    /\ WF_vars(ApiDelEnds) /\ WF_vars(AdminStarts)
    /\ WF_vars(Registration /\ UNCHANGED adminVars)

FairSpec == Spec /\ Fairness

-----------------------------------------------------------------------------
TypeOK ==
    /\ FileTypeOK
    /\ backlog \in Seq(Conn)
    /\ served \in [pc: {"accept", "hello", "serve"}, conn: Conn \cup {None}]
    /\ agents \in Conn \cup {None}
    /\ http \in [pc: {"accept", "read", "send", "wait"}, rid: Nat, conn: Conn \cup {None}]
    /\ peer \in [Conn -> {"none", "open", "closed", "lost"}]
    /\ agent.pc \in {"backoff", "challenge", "welcome", "serve", "calling"}
    /\ desk \in [Clients -> [st: {"none", "open", "asked", "busy", "answered", "dropped"},
                             rid: Nat, good: BOOLEAN, size: Nat]]
    /\ fails \in 0 .. FailLimit
    /\ cli.pc \in {"idle", "wait"}

(* An answer that the controller passes on is the answer to the command the *)
(* administrator is waiting for, not the late reply of one that has timed   *)
(* out before (Controller.cpp: the reply is matched with pending_id).       *)
AnswersThisCommand ==
    http.pc = "wait" /\ SlotFilled => slot[http.conn].of = http.rid

(* The table of online agents never offers a connection that nobody reads:  *)
(* what is registered is what the agent thread serves (docs: a command for  *)
(* an agent that is away is answered 503 at once, it is not queued).        *)
OnlineIsServed == agents # None => served = [pc |-> "serve", conn |-> agents]

(* The promise of RemoteCall, for every command however it is sent.         *)
Abstract == INSTANCE RemoteCall
Promise == Abstract!CallSpec

(* Once crashes stop, an agent whose key the controller has loaded comes    *)
(* online and stays, whatever half-open connection it left behind.          *)
AgentComesOnline ==
    <>[](whitelist.loaded) => <>[](agent.pc = "serve" /\ agents = agent.conn)
=============================================================================
