------------------------------- MODULE Handshake -------------------------------
(***************************************************************************)
(* The three-stage authentication between one client and the server over    *)
(* UDP: auth_hello / ServerHello, auth_client_hello and key derivation,     *)
(* identity / identity_ok or identity_deny, with the client's              *)
(* retransmissions, its time-outs and the retries of ReconnectManager.      *)
(*                                                                         *)
(* The server keeps one session per client port.  A connection attempt is   *)
(* a number; it stands for the random nonce_c and for the ephemeral client  *)
(* key of that attempt.  A server nonce is a number too; it stands for      *)
(* nonce_s and for the ephemeral server key, which are generated together.  *)
(* The session keys are a function of the two ephemeral keys (ECDH) and the *)
(* two nonces (HKDF salt), and a sealed frame opens only under its keys.    *)
(* Signatures are those of the genuine client and server.                   *)
(***************************************************************************)
EXTENDS Naturals

CONSTANTS
    Ports,            \* source ports the client's sockets get
    MaxAttempts,      \* bound: connection attempts in a behaviour
    MaxRetries,       \* kAuthMaxRetries: retransmissions of one stage
    MaxConnectRetries,\* kMaxConnectRetries: failures in a row before giving up
    ChaosNonces       \* bound: server nonces spent before the network is calm

ASSUME HandshakeAssumption ==
    /\ Ports # {}
    /\ MaxAttempts \in Nat \ {0}
    /\ MaxRetries \in Nat
    /\ MaxConnectRetries \in Nat \ {0}
    /\ ChaosNonces \in Nat

Attempts == 1..MaxAttempts
Nonces == 1..(ChaosNonces + MaxAttempts)
NoKey == [nc |-> 0, ns |-> 0, dhc |-> 0, dhs |-> 0]
Keys == [nc : 0..MaxAttempts, ns : {0} \cup Nonces,
         dhc : 0..MaxAttempts, dhs : {0} \cup Nonces]

VARIABLES
    tokenLive,        \* the client's token is in register_tokens.txt
    registered,       \* the client's public key is in registered_clients.txt
    lineLost,         \* history: an append to registered_clients.txt was lost
                      \* and file_append_line returned true
    srv,              \* port -> the server's session (Session.h)
    lastNonce,        \* number of server nonces generated so far
    accepted,         \* history: keys of the sessions that were authenticated
    cli,              \* the client's tunnel instance (UDP.h)
    clientKeys,       \* history: attempt -> session keys the client derived
    hasToken,         \* ReconnectManager::m_register_token is set
    failures,         \* retryCount of worker_loop
    wire,             \* datagrams in the network
    calm              \* from here on the network keeps order and loses nothing

db == <<tokenLive, registered, lineLost>>
server == <<srv, lastNonce, accepted>>
client == <<cli, clientKeys, hasToken, failures>>
vars == <<tokenLive, registered, lineLost, srv, lastNonce, accepted, cli,
          clientKeys, hasToken, failures, wire, calm>>

(* A session as get_or_create_session makes it; a released one is gone from  *)
(* the table, and the next datagram from its port gets a new one.           *)
Fresh == [stage |-> "NONE", nc |-> 0, ns |-> 0, dhs |-> 0, dhc |-> 0,
          priv |-> FALSE, key |-> NoKey, auth |-> FALSE, seen |-> {}]

Idle == [phase |-> "idle", att |-> 0, port |-> CHOOSE p \in Ports : TRUE,
         helloOk |-> FALSE, ns |-> 0, dhs |-> 0, shared |-> 0, key |-> NoKey,
         context |-> NoKey, sent |-> 0, authed |-> FALSE, failed |-> FALSE, deny |-> 0]

-----------------------------------------------------------------------------
(* Messages.  A sealed message carries the keys it was sealed under.         *)
Hello(a, p) == [type |-> "hello", att |-> a, port |-> p]
ServerHello(a, p, n) == [type |-> "server_hello", att |-> a, port |-> p, ns |-> n]
ClientHello(a, p) == [type |-> "client_hello", att |-> a, port |-> p]
Identity(a, p, k, c, reg, i) ==
    [type |-> "identity", att |-> a, port |-> p, key |-> k, context |-> c,
     register |-> reg, seq |-> i]
Reply(a, p, k, t, why) == [type |-> t, att |-> a, port |-> p, key |-> k, why |-> why]

ToServer == {m \in wire : m.type \in {"hello", "client_hello", "identity"}}
ToClient == {m \in wire : m.type \notin {"hello", "client_hello", "identity"}}

Stage(m) == CASE m.type = "hello" -> 0 [] m.type = "client_hello" -> 1
              [] m.type = "identity" -> 2 [] OTHER -> 3

(* On a calm network a datagram does not overtake an older one of its        *)
(* direction and is delivered once; otherwise it may arrive in any order     *)
(* and any number of times, or never.                                       *)
Deliverable(m) ==
    calm => \A o \in IF m \in ToServer THEN ToServer ELSE ToClient :
                /\ o.port = m.port
                => \/ o.att > m.att
                   \/ o.att = m.att /\ Stage(o) >= Stage(m)
Used(m) == IF calm THEN {m} ELSE {}
Exchange(m, replies) == wire' = (wire \ Used(m)) \cup replies
-----------------------------------------------------------------------------
Init ==
    /\ tokenLive \in BOOLEAN /\ registered \in BOOLEAN /\ hasToken \in BOOLEAN
    /\ lineLost = FALSE
    /\ srv = [p \in Ports |-> Fresh]
    /\ lastNonce = 0
    /\ accepted = {}
    /\ cli = Idle
    /\ clientKeys = [a \in Attempts |-> NoKey]
    /\ failures = 0
    /\ wire = {}
    /\ calm = FALSE
-----------------------------------------------------------------------------
(* The client: UDP::send_work and handle_frame, ReconnectManager.           *)

(* connect_once: a new tunnel instance, a new socket, a new nonce_c.  The    *)
(* old socket is closed: nothing in flight to it arrives any more.  After    *)
(* the network is calm the port is one nobody has used lately, which is what *)
(* a new socket gets.                                                       *)
Connect(p) ==
    /\ cli.phase = "idle"
    /\ cli.att < MaxAttempts
    /\ calm => srv[p] = Fresh /\ \A m \in wire : m.port # p
    /\ cli' = [Idle EXCEPT !.phase = "hello", !.att = cli.att + 1, !.port = p]
    /\ wire' = ToServer \cup {Hello(cli.att + 1, p)}
    /\ UNCHANGED <<db, server, clientKeys, hasToken, failures, calm>>

RetryHello ==
    /\ cli.phase = "hello" /\ ~cli.helloOk
    /\ cli.sent < MaxRetries
    /\ cli' = [cli EXCEPT !.sent = @ + 1]
    /\ wire' = wire \cup {Hello(cli.att, cli.port)}
    /\ UNCHANGED <<db, server, clientKeys, hasToken, failures, calm>>

(* send_work sees m_server_hello_ok: new ephemeral key, auth_client_hello.   *)
SendClientHello ==
    /\ cli.phase = "hello" /\ cli.helloOk
    /\ cli' = [cli EXCEPT !.phase = "ecdh", !.sent = 0]
    /\ wire' = wire \cup {ClientHello(cli.att, cli.port)}
    /\ UNCHANGED <<db, server, clientKeys, hasToken, failures, calm>>

(* send_work reads m_dh_srv_pub, later m_nonce_s, and the identity message   *)
(* reads both again, while the receive thread may store another ServerHello. *)
SharedSecret ==
    /\ cli.phase = "ecdh"
    /\ cli' = [cli EXCEPT !.phase = "hkdf", !.shared = cli.dhs]
    /\ UNCHANGED <<db, server, clientKeys, hasToken, failures, wire, calm>>

DeriveClientKeys ==
    LET k == [nc |-> cli.att, ns |-> cli.ns, dhc |-> cli.att, dhs |-> cli.shared]
    IN  /\ cli.phase = "hkdf"
        /\ cli' = [cli EXCEPT !.phase = "build", !.key = k]
        /\ clientKeys' = [clientKeys EXCEPT ![cli.att] = k]
        /\ UNCHANGED <<db, server, hasToken, failures, wire, calm>>

BuildIdentity ==
    LET c == [nc |-> cli.att, ns |-> cli.ns, dhc |-> cli.att, dhs |-> cli.dhs]
    IN  /\ cli.phase = "build"
        /\ cli' = [cli EXCEPT !.phase = "identity", !.context = c]
        /\ wire' = wire \cup {Identity(cli.att, cli.port, cli.key, c, hasToken, 0)}
        /\ UNCHANGED <<db, server, clientKeys, hasToken, failures, calm>>

(* Each retransmission seals the same body under the next sequence number.   *)
RetryIdentity ==
    /\ cli.phase = "identity" /\ ~cli.authed /\ ~cli.failed
    /\ cli.sent < MaxRetries
    /\ cli' = [cli EXCEPT !.sent = @ + 1]
    /\ wire' = wire \cup
          {ClientHello(cli.att, cli.port),
           Identity(cli.att, cli.port, cli.key, cli.context, hasToken, cli.sent + 1)}
    /\ UNCHANGED <<db, server, clientKeys, hasToken, failures, calm>>

(* m_authenticated is tested after the loop, before m_auth_failed; the       *)
(* connected callback clears the token.                                     *)
Succeed ==
    /\ cli.phase = "identity" /\ cli.authed
    /\ cli' = [cli EXCEPT !.phase = "up"]
    /\ hasToken' = FALSE
    /\ failures' = 0
    /\ UNCHANGED <<db, server, clientKeys, wire, calm>>

(* connect_once returned false: a refused token is cleared, so that the next *)
(* attempt logs in; worker_loop counts the failure and gives up at the limit.*)
FailAttempt(clear) ==
    /\ hasToken' = IF clear /\ hasToken /\ cli.deny = 1 THEN FALSE ELSE hasToken
    /\ failures' = failures + 1
    /\ cli' = [cli EXCEPT !.phase =
                  IF failures + 1 >= MaxConnectRetries THEN "gaveUp" ELSE "idle"]
    /\ UNCHANGED <<db, server, clientKeys, wire, calm>>

RefusedKeepingToken ==
    /\ cli.phase \in {"hello", "identity"} /\ cli.failed /\ ~cli.authed
    /\ FailAttempt(FALSE)
Refused ==
    /\ cli.phase \in {"hello", "identity"} /\ cli.failed /\ ~cli.authed
    /\ FailAttempt(TRUE)

(* kAuthTimeout, the retransmission limit or kHandshakeWait; on a calm       *)
(* network the answer is there first.                                       *)
TimeOut ==
    /\ cli.phase \in {"hello", "ecdh", "hkdf", "build", "identity"}
    /\ ~calm
    /\ FailAttempt(TRUE)

(* needs_reconnect after a connection, or the user disconnects and connects: *)
(* worker_loop starts over with a cleared failure count.                    *)
LinkBreaks ==
    /\ cli.phase = "up" /\ ~calm
    /\ cli' = [cli EXCEPT !.phase = "idle"]
    /\ UNCHANGED <<db, server, clientKeys, hasToken, failures, wire, calm>>

Listening == cli.phase \notin {"idle", "gaveUp"}

(* handle_frame, ServerHello: the fields are stored before the signature is  *)
(* checked, at whatever stage send_work is; the signature covers nonce_c.    *)
RecvServerHello(m) ==
    /\ m \in ToClient /\ m.type = "server_hello" /\ Deliverable(m)
    /\ Listening /\ m.port = cli.port
    /\ cli' = [cli EXCEPT !.ns = m.ns, !.dhs = m.ns,
                          !.helloOk = @ \/ m.att = cli.att,
                          !.failed = @ \/ m.att # cli.att]
    /\ Exchange(m, {})
    /\ UNCHANGED <<db, server, clientKeys, hasToken, failures, calm>>

OpensOnceKeysAreReady(m) == cli.key # NoKey
ClientOpens(m) == cli.key # NoKey /\ m.key = cli.key

RecvOk(m) ==
    /\ m \in ToClient /\ m.type = "ok" /\ Deliverable(m)
    /\ Listening /\ m.port = cli.port /\ ClientOpens(m)
    /\ cli' = [cli EXCEPT !.authed = TRUE]
    /\ Exchange(m, {})
    /\ UNCHANGED <<db, server, clientKeys, hasToken, failures, calm>>

DenyCode(why) == CASE why = "token" -> 1 [] why = "service" -> 2 [] OTHER -> 0

RecvDeny(m) ==
    /\ m \in ToClient /\ m.type = "deny" /\ Deliverable(m)
    /\ Listening /\ m.port = cli.port /\ ClientOpens(m)
    /\ cli' = [cli EXCEPT !.deny = DenyCode(m.why), !.failed = TRUE]
    /\ Exchange(m, {})
    /\ UNCHANGED <<db, server, clientKeys, hasToken, failures, calm>>

-----------------------------------------------------------------------------
(* The server: handle_framed and the three handlers of UDP.cpp.             *)

Resend(s, m) == {ServerHello(s.nc, m.port, s.ns)}

(* A new handshake on this session: the old keys go, the stage machine       *)
(* restarts at HELLO.  The anti-replay window of the session stays.         *)
Restarted(s, m, n) ==
    [s EXCEPT !.stage = "HELLO", !.nc = m.att, !.ns = n, !.dhs = n, !.priv = TRUE,
              !.key = NoKey, !.auth = FALSE]

(* The same nonce_c is answered again without a reset while the ephemeral    *)
(* key is there.  An authenticated session takes no auth_hello at all, one   *)
(* with derived keys none with another nonce_c.                             *)
SameNonce(s, m) == s.nc = m.att
Answerable(s, m) == SameNonce(s, m) /\ s.priv
RefusesOtherNonceOnly(s, m) ==
    s.stage \in {"KEYS", "AUTHED"} /\ s.nc # 0 /\ ~SameNonce(s, m)
Refuses(s, m) ==
    \/ s.stage = "AUTHED"
    \/ s.stage = "KEYS" /\ s.nc # 0 /\ ~SameNonce(s, m)

NonceBound == IF calm THEN ChaosNonces + MaxAttempts ELSE ChaosNonces

RecvHello(m) ==
    LET s == srv[m.port]
        r == Restarted(s, m, lastNonce + 1)
    IN
    /\ m \in ToServer /\ m.type = "hello" /\ Deliverable(m)
    /\ IF Refuses(s, m)
       THEN Exchange(m, {}) /\ UNCHANGED server
       ELSE IF Answerable(s, m)
       THEN Exchange(m, Resend(s, m)) /\ UNCHANGED server
       ELSE /\ lastNonce < NonceBound
            /\ lastNonce' = lastNonce + 1
            /\ srv' = [srv EXCEPT ![m.port] = r]
            /\ Exchange(m, Resend(r, m))
            /\ UNCHANGED accepted
    /\ UNCHANGED <<db, client, calm>>

(* Only the HELLO stage takes an auth_client_hello; the ephemeral private    *)
(* key is destroyed once the session keys are derived.                      *)
RecvClientHello(m) ==
    LET s == srv[m.port]
        k == [nc |-> s.nc, ns |-> s.ns, dhc |-> m.att, dhs |-> s.dhs]
    IN
    /\ m \in ToServer /\ m.type = "client_hello" /\ Deliverable(m)
    /\ Exchange(m, {})
    /\ srv' = [srv EXCEPT ![m.port] =
                  IF s.stage = "HELLO" /\ s.priv
                  THEN [s EXCEPT !.stage = "KEYS", !.dhc = m.att, !.key = k, !.priv = FALSE]
                  ELSE s]
    /\ UNCHANGED <<db, lastNonce, accepted, client, calm>>

(* What handle_identity decides for a session that is not authenticated yet: *)
(* the context of the identity must be the session's, then a token is spent  *)
(* or the public key looked up, then the managed service and the address     *)
(* pool may still refuse.                                                    *)
Verdict(token, reg, lost, why) ==
    [tokenLive |-> token, registered |-> reg, lost |-> lost, why |-> why]
Context(s) == [nc |-> s.nc, ns |-> s.ns, dhc |-> s.dhc, dhs |-> s.dhs]
LaterChecks(token, reg, lost) ==
    {Verdict(token, reg, lost, "ok")}
      \cup IF calm THEN {} ELSE {Verdict(token, reg, lost, w) : w \in {"service", "pool"}}

(* With a live token, file_remove_line takes it out of its file and          *)
(* file_append_line writes the key.  On a calm network the disk behaves;     *)
(* before, the token may stay where it is (its file cannot be locked,        *)
(* written, synchronised or renamed), the other file cannot be opened after  *)
(* the token is spent, or the line stays in the buffer: file_append_line     *)
(* returns what fprintf says and looks neither at fflush nor at fclose.      *)
RegisterTokenLast == LaterChecks(FALSE, registered, FALSE)
Register ==
    LaterChecks(FALSE, TRUE, FALSE)
      \cup IF calm THEN {}
           ELSE {Verdict(tokenLive, registered, FALSE, "token"),
                 Verdict(FALSE, registered, FALSE, "token")}
                \cup LaterChecks(FALSE, registered, TRUE)
Verdicts(s, m) ==
    IF m.context # Context(s) THEN {Verdict(tokenLive, registered, FALSE, "context")}
    ELSE IF m.register
    THEN IF tokenLive THEN Register
         ELSE {Verdict(tokenLive, registered, FALSE, "token")}
    ELSE IF registered THEN LaterChecks(tokenLive, registered, FALSE)
    ELSE {Verdict(tokenLive, registered, FALSE, "unregistered")}

(* The frame must open under the session's keys and be new to its window.    *)
ServerTakes(s, m) ==
    /\ s.stage \in {"KEYS", "AUTHED"}
    /\ m.key = s.key
    /\ m.seq \notin s.seen

(* The identity of a session that is authenticated already: the client did   *)
(* not get the identity_ok, which is sent again.                            *)
RepeatOk(m) ==
    LET s == srv[m.port] IN
    /\ m \in ToServer /\ m.type = "identity" /\ Deliverable(m)
    /\ ServerTakes(s, m) /\ s.auth
    /\ srv' = [srv EXCEPT ![m.port].seen = @ \cup {m.seq}]
    /\ Exchange(m, {Reply(m.att, m.port, s.key, "ok", "ok")})
    /\ UNCHANGED <<db, lastNonce, accepted, client, calm>>

RecvIdentity(m) ==
    LET s == srv[m.port] IN
    /\ m \in ToServer /\ m.type = "identity" /\ Deliverable(m)
    /\ ServerTakes(s, m) /\ ~s.auth
    /\ \E v \in Verdicts(s, m) :
          /\ tokenLive' = v.tokenLive
          /\ registered' = v.registered
          /\ lineLost' = (lineLost \/ v.lost)
          /\ accepted' = IF v.why = "ok" THEN accepted \cup {s.key} ELSE accepted
          /\ srv' = [srv EXCEPT ![m.port] =
                        [s EXCEPT !.seen = @ \cup {m.seq}, !.auth = v.why = "ok",
                                  !.stage = IF v.why = "ok" THEN "AUTHED" ELSE @]]
          /\ Exchange(m, {Reply(m.att, m.port, s.key,
                                IF v.why = "ok" THEN "ok" ELSE "deny", v.why)})
    /\ UNCHANGED <<lastNonce, client, calm>>

(* The session leaves the table: handshake or heartbeat time-out, eviction,  *)
(* a restart of the server.                                                 *)
ReleaseSession(p) ==
    /\ srv[p] # Fresh
    /\ calm => p # cli.port \/ ~Listening
    /\ srv' = [srv EXCEPT ![p] = Fresh]
    /\ UNCHANGED <<db, lastNonce, accepted, client, wire, calm>>
-----------------------------------------------------------------------------
Lose(m) ==
    /\ m \in wire /\ ~calm
    /\ wire' = wire \ {m}
    /\ UNCHANGED <<db, server, client, calm>>

(* A frame the server drops: keys not ready, other keys, or seen before.  On *)
(* a calm network it is used up, otherwise this is no step at all.          *)
ServerDrops(m) ==
    /\ calm /\ m \in ToServer /\ m.type = "identity" /\ Deliverable(m)
    /\ ~ServerTakes(srv[m.port], m)
    /\ Exchange(m, {})
    /\ UNCHANGED <<db, server, client, calm>>

ClientDrops(m) ==
    /\ calm /\ m \in ToClient /\ Deliverable(m)
    /\ \/ ~Listening \/ m.port # cli.port
       \/ m.type # "server_hello" /\ ~ClientOpens(m)
    /\ Exchange(m, {})
    /\ UNCHANGED <<db, server, client, calm>>

(* From some moment between two attempts on the network behaves, provided    *)
(* enough attempts are left for a spent token to be noticed and a log-in.    *)
CalmDown ==
    /\ ~calm /\ cli.phase = "idle"
    /\ cli.att + 2 <= MaxAttempts
    /\ failures + 2 <= MaxConnectRetries
    /\ calm' = TRUE
    /\ UNCHANGED <<db, server, client, wire>>

ClientStep ==
    \/ \E p \in Ports : Connect(p)
    \/ RetryHello \/ SendClientHello \/ SharedSecret \/ DeriveClientKeys
    \/ BuildIdentity \/ RetryIdentity \/ Succeed \/ Refused
    \/ TimeOut

Deliver ==
    \E m \in wire :
        \/ RecvHello(m) \/ RecvClientHello(m) \/ RepeatOk(m) \/ RecvIdentity(m)
        \/ RecvServerHello(m) \/ RecvOk(m) \/ RecvDeny(m)
        \/ ServerDrops(m) \/ ClientDrops(m)

Next ==
    \/ ClientStep
    \/ LinkBreaks
    \/ Deliver
    \/ \E p \in Ports : ReleaseSession(p)
    \/ \E m \in wire : Lose(m)
    \/ CalmDown

Spec == Init /\ [][Next]_vars

(* The client's threads and the server's run; on a calm network what is in   *)
(* flight arrives; the heartbeat thread releases sessions nobody keeps alive.*)
FairSpec ==
    /\ Spec
    /\ WF_vars(ClientStep)
    /\ WF_vars(Deliver)
    /\ \A p \in Ports : WF_vars(ReleaseSession(p))
-----------------------------------------------------------------------------
Session == [stage : {"NONE", "HELLO", "KEYS", "AUTHED"}, nc : 0..MaxAttempts,
            ns : {0} \cup Nonces, dhs : {0} \cup Nonces, dhc : 0..MaxAttempts,
            priv : BOOLEAN, key : Keys, auth : BOOLEAN, seen : SUBSET (0..MaxRetries)]
Message ==
    [type : {"hello", "client_hello"}, att : Attempts, port : Ports]
      \cup [type : {"server_hello"}, att : Attempts, port : Ports, ns : Nonces]
      \cup [type : {"identity"}, att : Attempts, port : Ports, key : Keys,
            context : Keys, register : BOOLEAN, seq : 0..MaxRetries]
      \cup [type : {"ok", "deny"}, att : Attempts, port : Ports, key : Keys,
            why : {"ok", "context", "token", "unregistered", "service", "pool"}]

(* The state is of the expected shape, and every authenticated session is at *)
(* the last stage of the server's stage machine (Session::hs_stage).        *)
TypeOK ==
    /\ tokenLive \in BOOLEAN /\ registered \in BOOLEAN /\ lineLost \in BOOLEAN
    /\ hasToken \in BOOLEAN /\ calm \in BOOLEAN
    /\ srv \in [Ports -> Session]
    /\ lastNonce \in 0..(ChaosNonces + MaxAttempts)
    /\ clientKeys \in [Attempts -> Keys]
    /\ accepted \subseteq Keys
    /\ failures \in 0..MaxConnectRetries
    /\ wire \subseteq Message
    /\ \A p \in Ports : srv[p].auth => srv[p].stage = "AUTHED"

(* Whatever is delayed, repeated or lost, and across attempts that reuse a   *)
(* port: a session the server calls authenticated holds exactly the keys     *)
(* the client derived in the attempt whose nonce_c the session carries, and  *)
(* a client believes it is connected only if the server accepted the         *)
(* identity of this very attempt, never on the answer to an earlier one.     *)
Agreement ==
    /\ \A p \in Ports : srv[p].auth => srv[p].nc # 0 /\ srv[p].key = clientKeys[srv[p].nc]
    /\ cli.authed => cli.key \in accepted

(* An identity_ok is believed only after the server wrote the public key to  *)
(* registered_clients.txt: a client that connected once, whichever of its    *)
(* identities was answered and whichever write the server saw fail, can log  *)
(* in without its token the next time.  The one exception is a line that was *)
(* lost after file_append_line had called it written.                       *)
ConnectedMeansRegistered ==
    cli.authed \/ (\E p \in Ports : srv[p].auth) => registered \/ lineLost

(* Any step that fails denies (UDP.cpp, the comment on handle_identity):     *)
(* then nobody is let in whose key is not in registered_clients.txt.  False: *)
(* a flush that fails is not seen.                                          *)
LetInMeansWritten == cli.authed => registered

(* While an authenticated session is in the table, no auth_hello or          *)
(* auth_client_hello, old or new, changes its keys, its nonces or its stage. *)
AuthedNeverReset ==
    [][\A p \in Ports : srv[p].auth =>
          \/ srv'[p] = Fresh
          \/ srv'[p] = [srv[p] EXCEPT !.seen = srv'[p].seen]]_vars

(* Once the network is calm, a client that is registered, or that holds a    *)
(* token the server still lists, gets its tunnel: also when the server spent *)
(* the token in an attempt whose identity_ok was lost.                      *)
EventuallyConnected ==
    (calm /\ cli.phase = "idle" /\ (registered \/ (hasToken /\ tokenLive)))
        ~> cli.phase = "up"
=============================================================================
