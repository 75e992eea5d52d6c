---------------------------- MODULE HandshakeProofs ----------------------------
(***************************************************************************)
(* The handshake for any number of attempts, ports, retransmissions and      *)
(* server nonces, over a network that loses, repeats and reorders: Agreement *)
(* and ConnectedMeansRegistered are invariants, and AuthedNeverReset holds.  *)
(***************************************************************************)
EXTENDS Handshake, TLAPS

(* The client's tunnel instance, which TypeOK leaves out.                    *)
Phases == {"idle", "hello", "ecdh", "hkdf", "build", "identity", "up", "gaveUp"}
Tunnel == [phase : Phases, att : 0..MaxAttempts, port : Ports, helloOk : BOOLEAN,
           ns : {0} \cup Nonces, dhs : {0} \cup Nonces, shared : {0} \cup Nonces,
           key : Keys, context : Keys, sent : 0..MaxRetries, authed : BOOLEAN,
           failed : BOOLEAN, deny : 0..2]
Shape ==
    /\ TypeOK
    /\ cli \in Tunnel
    /\ \A p \in Ports : srv[p].priv => srv[p].ns # 0
    /\ cli.phase # "idle" => cli.att # 0
    /\ cli.phase # "gaveUp" => failures < MaxConnectRetries

(* The attempts whose session keys the client has derived and will not       *)
(* derive again.                                                            *)
Derived(a) ==
    \/ a < cli.att
    \/ a = cli.att /\ cli.phase \in {"idle", "build", "identity", "up", "gaveUp"}

(* The client believes nothing before it has keys, and then its keys are     *)
(* those of its attempt.                                                    *)
ClientKnows ==
    /\ cli.phase \in {"hello", "ecdh", "hkdf"} => cli.key = NoKey /\ ~cli.authed
    /\ cli.phase = "build" => cli.key = clientKeys[cli.att]
    /\ cli.phase = "identity" => cli.key = clientKeys[cli.att] /\ cli.context.nc = cli.att
    /\ cli.authed => cli.key \in accepted

(* What a sealed message on its way says about who sealed it.                *)
Sealed ==
    \A m \in wire :
        /\ m.type = "identity" =>
              Derived(m.att) /\ m.key = clientKeys[m.att] /\ m.context.nc = m.att
        /\ m.type = "ok" => m.key \in accepted

(* The key is in registered_clients.txt, or its line was lost unseen.         *)
Recorded == registered \/ lineLost

(* A session is authenticated by an identity of the attempt it carries.      *)
ServerKnows ==
    /\ \A p \in Ports : srv[p].auth =>
          /\ srv[p].stage = "AUTHED"
          /\ srv[p].nc \in Attempts /\ Derived(srv[p].nc)
          /\ srv[p].key = clientKeys[srv[p].nc]
          /\ srv[p].key \in accepted
    /\ accepted # {} => Recorded

IInv == Shape /\ ClientKnows /\ Sealed /\ ServerKnows
-----------------------------------------------------------------------------
USE HandshakeAssumption DEF HandshakeAssumption

(* What the type of a message says about its fields.                         *)
LEMMA MessageFields ==
    ASSUME NEW m \in Message
    PROVE  /\ m.port \in Ports /\ m.att \in Attempts
           /\ m.type = "server_hello" => m.ns \in Nonces
           /\ m.type = "identity" => m.key \in Keys /\ m.context \in Keys /\ m.seq \in 0..MaxRetries
           /\ m.type \in {"ok", "deny"} => m.key \in Keys
BY DEF Message

LEMMA MessagesMade ==
    ASSUME NEW a \in Attempts, NEW p \in Ports
    PROVE  /\ Hello(a, p) \in Message /\ ClientHello(a, p) \in Message
           /\ \A n \in Nonces : ServerHello(a, p, n) \in Message
           /\ \A k, c \in Keys, reg \in BOOLEAN, i \in 0..MaxRetries :
                 Identity(a, p, k, c, reg, i) \in Message
           /\ \A k \in Keys, t \in {"ok", "deny"},
                 why \in {"ok", "context", "token", "unregistered", "service", "pool"} :
                 Reply(a, p, k, t, why) \in Message
BY DEF Message, Hello, ClientHello, ServerHello, Identity, Reply

LEMMA Constants ==
    /\ NoKey \in Keys /\ Idle \in Tunnel /\ Fresh \in Session
    /\ Idle.phase = "idle" /\ Idle.att = 0 /\ ~Idle.authed /\ Idle.key = NoKey
    /\ ~Fresh.auth /\ ~Fresh.priv /\ Fresh.stage = "NONE"
<1>1. NoKey \in Keys
    BY DEF NoKey, Keys
<1>2. (CHOOSE p \in Ports : TRUE) \in Ports
    OBVIOUS
<1>3. Idle \in Tunnel
    BY <1>1, <1>2 DEF Idle, Tunnel, Phases
<1>4. Fresh \in Session
    BY <1>1 DEF Fresh, Session
<1> QED
    BY <1>1, <1>3, <1>4 DEF Idle, Fresh

(* What handle_identity may decide: a client is let in only with its public  *)
(* key registered or its line lost unseen, and nothing takes a registration  *)
(* back.                                                                     *)
LEMMA VerdictShape ==
    ASSUME tokenLive \in BOOLEAN, registered \in BOOLEAN,
           NEW s, NEW m, NEW v \in Verdicts(s, m)
    PROVE  /\ v.tokenLive \in {tokenLive, FALSE} /\ v.registered \in {registered, TRUE}
           /\ v.lost \in BOOLEAN
           /\ v.why \in {"ok", "context", "token", "unregistered", "service", "pool"}
           /\ v.why = "ok" => (v.registered = TRUE \/ v.lost = TRUE) /\ m.context = Context(s)
<1> DEFINE Whys == {"ok", "context", "token", "unregistered", "service", "pool"}
<1>1. ASSUME NEW t \in {tokenLive, FALSE}, NEW r \in {registered, TRUE}, NEW f \in BOOLEAN,
             NEW w \in Whys, w = "ok" => (r = TRUE \/ f = TRUE) /\ m.context = Context(s),
             v = Verdict(t, r, f, w)
      PROVE  /\ v.tokenLive \in {tokenLive, FALSE} /\ v.registered \in {registered, TRUE}
             /\ v.lost \in BOOLEAN /\ v.why \in Whys
             /\ v.why = "ok" => (v.registered = TRUE \/ v.lost = TRUE) /\ m.context = Context(s)
    <2>1. v.tokenLive = t /\ v.registered = r /\ v.lost = f /\ v.why = w
        BY <1>1 DEF Verdict
    <2> QED
        BY <1>1, <2>1, Zenon
<1>2. ASSUME NEW t, NEW r, NEW f, NEW w \in LaterChecks(t, r, f)
      PROVE  \E y \in {"ok", "service", "pool"} : w = Verdict(t, r, f, y)
    BY <1>2 DEF LaterChecks
<1>3. CASE m.context # Context(s)
    <2>1. v = Verdict(tokenLive, registered, FALSE, "context")
        BY <1>3 DEF Verdicts
    <2> QED
        BY <1>1, <2>1
<1>4. CASE m.context = Context(s) /\ m.register /\ tokenLive
    <2>1. \/ v \in LaterChecks(FALSE, TRUE, FALSE) \/ v \in LaterChecks(FALSE, registered, TRUE)
          \/ v = Verdict(tokenLive, registered, FALSE, "token")
          \/ v = Verdict(FALSE, registered, FALSE, "token")
        BY <1>4 DEF Verdicts, Register
    <2>2. CASE v = Verdict(tokenLive, registered, FALSE, "token")
        BY <1>1, <2>2
    <2>3. CASE v = Verdict(FALSE, registered, FALSE, "token")
        BY <1>1, <2>3
    <2>4. CASE v \in LaterChecks(FALSE, TRUE, FALSE)
        <3>1. PICK y \in {"ok", "service", "pool"} : v = Verdict(FALSE, TRUE, FALSE, y)
            BY <1>2, <2>4
        <3> QED
            BY <1>1, <1>4, <3>1
    <2>5. CASE v \in LaterChecks(FALSE, registered, TRUE)
        <3>1. PICK y \in {"ok", "service", "pool"} : v = Verdict(FALSE, registered, TRUE, y)
            BY <1>2, <2>5
        <3> QED
            BY <1>1, <1>4, <3>1
    <2> QED
        BY <2>1, <2>2, <2>3, <2>4, <2>5
<1>5. CASE m.context = Context(s) /\ m.register /\ ~tokenLive
    <2>1. v = Verdict(tokenLive, registered, FALSE, "token")
        BY <1>5 DEF Verdicts
    <2> QED
        BY <1>1, <2>1
<1>6. CASE m.context = Context(s) /\ ~m.register /\ registered
    <2>1. v \in LaterChecks(tokenLive, registered, FALSE)
        BY <1>6 DEF Verdicts
    <2>2. PICK y \in {"ok", "service", "pool"} : v = Verdict(tokenLive, registered, FALSE, y)
        BY <1>2, <2>1
    <2>3. registered = TRUE
        BY <1>6
    <2> QED
        BY <1>1, <1>6, <2>2, <2>3
<1>7. CASE m.context = Context(s) /\ ~m.register /\ ~registered
    <2>1. v = Verdict(tokenLive, registered, FALSE, "unregistered")
        BY <1>7 DEF Verdicts
    <2> QED
        BY <1>1, <2>1
<1> QED
    BY <1>3, <1>4, <1>5, <1>6, <1>7

LEMMA InitIInv == Init => IInv
<1> SUFFICES ASSUME Init PROVE IInv
    OBVIOUS
<1>1. TypeOK
    <2>1. srv \in [Ports -> Session] /\ \A p \in Ports : ~srv[p].auth
        BY Constants DEF Init
    <2>2. clientKeys \in [Attempts -> Keys]
        BY Constants DEF Init
    <2>3. lastNonce \in 0..(ChaosNonces + MaxAttempts) /\ failures \in 0..MaxConnectRetries
        BY DEF Init
    <2> QED
        BY <2>1, <2>2, <2>3 DEF Init, TypeOK
<1>2. Shape
    BY <1>1, Constants DEF Init, Shape
<1>3. ClientKnows /\ Sealed /\ ServerKnows
    BY Constants DEF Init, ClientKnows, Sealed, ServerKnows
<1> QED
    BY <1>2, <1>3 DEF IInv

(* Every step keeps the shape of the state.                                  *)
LEMMA TypeStep ==
    ASSUME Shape, [Next]_vars
    PROVE  TypeOK'
<1> DEFINE Flags == /\ tokenLive \in BOOLEAN /\ registered \in BOOLEAN
                    /\ lineLost \in BOOLEAN /\ hasToken \in BOOLEAN /\ calm \in BOOLEAN
           Server == /\ srv \in [Ports -> Session]
                     /\ lastNonce \in 0..(ChaosNonces + MaxAttempts)
                     /\ accepted \subseteq Keys
                     /\ \A p \in Ports : srv[p].auth => srv[p].stage = "AUTHED"
           Counts == /\ clientKeys \in [Attempts -> Keys]
                     /\ failures \in 0..MaxConnectRetries
           Wire == wire \subseteq Message
<1>a. Flags /\ Server /\ Counts /\ Wire
    BY DEF Shape, TypeOK
<1>b. cli \in Tunnel /\ (cli.phase # "idle" => cli.att \in Attempts)
    BY DEF Shape, Tunnel, Attempts
<1>c. Flags' /\ Server' /\ Counts' /\ Wire' => TypeOK'
    BY DEF TypeOK
<1> HIDE DEF Flags, Server, Counts, Wire
<1>u. /\ UNCHANGED <<tokenLive, registered, lineLost, hasToken, calm>> => Flags'
      /\ UNCHANGED <<srv, lastNonce, accepted>> => Server'
      /\ UNCHANGED <<clientKeys, failures>> => Counts'
      /\ UNCHANGED wire => Wire'
    BY <1>a DEF Flags, Server, Counts, Wire
<1> USE DEF db, server, client
<1>1. \A p \in Ports : Connect(p) => TypeOK'
    <2> SUFFICES ASSUME NEW p \in Ports, Connect(p) PROVE TypeOK'
        OBVIOUS
    <2>1. cli.att + 1 \in Attempts
        BY <1>b DEF Connect, Tunnel, Attempts
    <2>2. Wire'
        BY <2>1, <1>a, MessagesMade DEF Connect, ToServer, Wire
    <2> QED
        BY <2>2, <1>u, <1>c DEF Connect
<1>2. RetryHello => TypeOK'
    <2> SUFFICES ASSUME RetryHello PROVE TypeOK'
        OBVIOUS
    <2>1. Wire'
        BY <1>a, <1>b, MessagesMade DEF RetryHello, Tunnel, Wire
    <2> QED
        BY <2>1, <1>u, <1>c DEF RetryHello
<1>3. SendClientHello => TypeOK'
    <2> SUFFICES ASSUME SendClientHello PROVE TypeOK'
        OBVIOUS
    <2>1. Wire'
        BY <1>a, <1>b, MessagesMade DEF SendClientHello, Tunnel, Wire
    <2> QED
        BY <2>1, <1>u, <1>c DEF SendClientHello
<1>4. SharedSecret => TypeOK'
    BY <1>u, <1>c DEF SharedSecret
<1>5. DeriveClientKeys => TypeOK'
    <2> SUFFICES ASSUME DeriveClientKeys PROVE TypeOK'
        OBVIOUS
    <2>1. [nc |-> cli.att, ns |-> cli.ns, dhc |-> cli.att, dhs |-> cli.shared] \in Keys
        BY <1>b DEF Tunnel, Keys
    <2>2. Counts'
        BY <2>1, <1>a, <1>b DEF DeriveClientKeys, Counts
    <2> QED
        BY <2>2, <1>u, <1>c DEF DeriveClientKeys
<1>6. BuildIdentity => TypeOK'
    <2> SUFFICES ASSUME BuildIdentity PROVE TypeOK'
        OBVIOUS
    <2> DEFINE c == [nc |-> cli.att, ns |-> cli.ns, dhc |-> cli.att, dhs |-> cli.dhs]
    <2>1. c \in Keys /\ cli.key \in Keys /\ cli.port \in Ports /\ cli.att \in Attempts
        BY <1>b DEF BuildIdentity, Tunnel, Keys
    <2>2. Identity(cli.att, cli.port, cli.key, c, hasToken, 0) \in Message
        BY <2>1, <1>a, MessagesMade DEF Flags
    <2>3. Wire'
        BY <2>2, <1>a DEF BuildIdentity, Wire
    <2> QED
        BY <2>3, <1>u, <1>c DEF BuildIdentity
<1>7. RetryIdentity => TypeOK'
    <2> SUFFICES ASSUME RetryIdentity PROVE TypeOK'
        OBVIOUS
    <2>1. /\ cli.context \in Keys /\ cli.key \in Keys /\ cli.port \in Ports
          /\ cli.att \in Attempts /\ cli.sent + 1 \in 0..MaxRetries
        BY <1>b DEF RetryIdentity, Tunnel
    <2>2. /\ Identity(cli.att, cli.port, cli.key, cli.context, hasToken, cli.sent + 1) \in Message
          /\ ClientHello(cli.att, cli.port) \in Message
        BY <2>1, <1>a, MessagesMade DEF Flags
    <2>3. Wire'
        BY <2>2, <1>a DEF RetryIdentity, Wire
    <2> QED
        BY <2>3, <1>u, <1>c DEF RetryIdentity
<1>8. Succeed => TypeOK'
    <2> SUFFICES ASSUME Succeed PROVE TypeOK'
        OBVIOUS
    <2>1. Flags'
        BY <1>a DEF Succeed, Flags
    <2>2. Counts'
        BY <1>a DEF Succeed, Counts
    <2> QED
        BY <2>1, <2>2, <1>u, <1>c DEF Succeed
<1>9. Refused \/ TimeOut => TypeOK'
    <2> SUFFICES ASSUME FailAttempt(TRUE), cli.phase # "gaveUp" PROVE TypeOK'
        BY DEF Refused, TimeOut
    <2>1. failures < MaxConnectRetries
        BY DEF Shape
    <2>2. Flags'
        BY <1>a DEF FailAttempt, Flags
    <2>3. Counts'
        BY <2>1, <1>a DEF FailAttempt, Counts
    <2> QED
        BY <2>2, <2>3, <1>u, <1>c DEF FailAttempt
<1>10. LinkBreaks => TypeOK'
    BY <1>u, <1>c DEF LinkBreaks
<1>11. \A m \in wire : RecvServerHello(m) \/ RecvOk(m) \/ RecvDeny(m) => TypeOK'
    <2> SUFFICES ASSUME NEW m \in wire, RecvServerHello(m) \/ RecvOk(m) \/ RecvDeny(m)
                 PROVE  TypeOK'
        OBVIOUS
    <2>1. Wire'
        BY <1>a DEF RecvServerHello, RecvOk, RecvDeny, Exchange, Wire
    <2> QED
        BY <2>1, <1>u, <1>c DEF RecvServerHello, RecvOk, RecvDeny
<1>12. \A m \in wire : RecvHello(m) => TypeOK'
    <2> SUFFICES ASSUME NEW m \in wire, RecvHello(m) PROVE TypeOK'
        OBVIOUS
    <2> DEFINE s == srv[m.port]
               r == Restarted(s, m, lastNonce + 1)
    <2>1. m \in Message /\ m.port \in Ports /\ m.att \in Attempts /\ s \in Session
        BY <1>a, MessageFields DEF Wire, Server
    <2>2. CASE Refuses(s, m)
        <3>1. Wire'
            BY <2>2, <1>a DEF RecvHello, Exchange, Wire
        <3> QED
            BY <2>2, <3>1, <1>u, <1>c DEF RecvHello
    <2>3. CASE ~Refuses(s, m) /\ Answerable(s, m)
        <3>1. s.ns \in Nonces /\ s.nc = m.att
            BY <2>1, <2>3 DEF Shape, Answerable, SameNonce, Session
        <3>2. Wire'
            BY <2>3, <2>1, <3>1, <1>a, MessagesMade DEF RecvHello, Exchange, Resend, Wire
        <3> QED
            BY <2>3, <3>2, <1>u, <1>c DEF RecvHello
    <2>4. CASE ~Refuses(s, m) /\ ~Answerable(s, m)
        <3>1. lastNonce + 1 \in Nonces /\ lastNonce + 1 \in 0..(ChaosNonces + MaxAttempts)
            BY <2>4, <1>a DEF RecvHello, NonceBound, Nonces, Server
        <3>a. m.att \in 0..MaxAttempts /\ NoKey \in Keys
            BY <2>1, Constants DEF Attempts
        <3>b. r.nc = m.att /\ r.ns = lastNonce + 1 /\ r.auth = FALSE
            BY <2>1 DEF Restarted, Session
        <3>c. r \in Session
            BY <2>1, <3>1, <3>a DEF Restarted, Session
        <3>2. r \in Session /\ ~r.auth /\ r.nc = m.att /\ r.ns = lastNonce + 1
            BY <3>b, <3>c
        <3>3. Wire'
            BY <2>4, <2>1, <3>1, <3>2, <1>a, MessagesMade DEF RecvHello, Exchange, Resend, Wire
        <3>4. Server'
            BY <2>4, <2>1, <3>1, <3>2, <1>a DEF RecvHello, Server
        <3> QED
            BY <2>4, <3>3, <3>4, <1>u, <1>c DEF RecvHello
    <2> QED
        BY <2>2, <2>3, <2>4
<1>13. \A m \in wire : RecvClientHello(m) => TypeOK'
    <2> SUFFICES ASSUME NEW m \in wire, RecvClientHello(m) PROVE TypeOK'
        OBVIOUS
    <2> DEFINE s == srv[m.port]
               k == [nc |-> s.nc, ns |-> s.ns, dhc |-> m.att, dhs |-> s.dhs]
               n == [s EXCEPT !.stage = "KEYS", !.dhc = m.att, !.key = k, !.priv = FALSE]
    <2>1. m \in Message /\ m.port \in Ports /\ m.att \in 0..MaxAttempts /\ s \in Session
        BY <1>a, MessageFields DEF Wire, Server, Attempts
    <2>2. k \in Keys
        BY <2>1 DEF Session, Keys
    <2>3. n \in Session /\ n.auth = s.auth
        BY <2>1, <2>2 DEF Session
    <2>4. s.stage = "HELLO" => ~s.auth
        BY <2>1, <1>a DEF Server
    <2>5. Server'
        BY <2>1, <2>3, <2>4, <1>a DEF RecvClientHello, Server
    <2>6. Wire'
        BY <1>a DEF RecvClientHello, Exchange, Wire
    <2> QED
        BY <2>5, <2>6, <1>u, <1>c DEF RecvClientHello
<1>14. \A m \in wire : RepeatOk(m) => TypeOK'
    <2> SUFFICES ASSUME NEW m \in wire, RepeatOk(m) PROVE TypeOK'
        OBVIOUS
    <2> DEFINE s == srv[m.port]
               n == [s EXCEPT !.seen = @ \cup {m.seq}]
    <2>1. /\ m.port \in Ports /\ m.att \in Attempts /\ s \in Session
          /\ m.seq \in 0..MaxRetries
        BY <1>a, MessageFields DEF RepeatOk, Wire, Server
    <2>2. n \in Session /\ n.auth = s.auth /\ n.stage = s.stage /\ s.key \in Keys
        BY <2>1 DEF Session
    <2>3. Server'
        BY <2>1, <2>2, <1>a DEF RepeatOk, Server
    <2>4. Wire'
        BY <2>1, <2>2, <1>a, MessagesMade DEF RepeatOk, Exchange, Wire
    <2> QED
        BY <2>3, <2>4, <1>u, <1>c DEF RepeatOk
<1>15. \A m \in wire : RecvIdentity(m) => TypeOK'
    <2> SUFFICES ASSUME NEW m \in wire, RecvIdentity(m) PROVE TypeOK'
        OBVIOUS
    <2> DEFINE s == srv[m.port]
               n(v) == [s EXCEPT !.seen = @ \cup {m.seq}, !.auth = v.why = "ok",
                                 !.stage = IF v.why = "ok" THEN "AUTHED" ELSE @]
    <2>1. /\ m.port \in Ports /\ m.att \in Attempts /\ s \in Session
          /\ m.seq \in 0..MaxRetries
        BY <1>a, MessageFields DEF RecvIdentity, Wire, Server
    <2>2. PICK v \in Verdicts(s, m) :
              /\ tokenLive' = v.tokenLive
              /\ registered' = v.registered
              /\ lineLost' = (lineLost \/ v.lost)
              /\ accepted' = IF v.why = "ok" THEN accepted \cup {s.key} ELSE accepted
              /\ srv' = [srv EXCEPT ![m.port] = n(v)]
              /\ Exchange(m, {Reply(m.att, m.port, s.key,
                                    IF v.why = "ok" THEN "ok" ELSE "deny", v.why)})
        BY DEF RecvIdentity
    <2>3. /\ v.tokenLive \in BOOLEAN /\ v.registered \in BOOLEAN /\ v.lost \in BOOLEAN
          /\ v.why \in {"ok", "context", "token", "unregistered", "service", "pool"}
        BY <1>a, <2>2, VerdictShape DEF Flags
    <2>4. /\ n(v) \in Session /\ s.key \in Keys /\ n(v).auth = (v.why = "ok")
          /\ n(v).auth => n(v).stage = "AUTHED"
        BY <2>1, <2>3 DEF Session
    <2>5. Server'
        BY <2>1, <2>2, <2>4, <1>a DEF RecvIdentity, Server
    <2>6. Wire'
        BY <2>1, <2>2, <2>3, <2>4, <1>a, MessagesMade DEF Exchange, Wire
    <2>7. Flags'
        BY <2>2, <2>3, <1>a DEF RecvIdentity, Flags
    <2> QED
        BY <2>5, <2>6, <2>7, <1>u, <1>c DEF RecvIdentity
<1>16. \A p \in Ports : ReleaseSession(p) => TypeOK'
    <2> SUFFICES ASSUME NEW p \in Ports, ReleaseSession(p) PROVE TypeOK'
        OBVIOUS
    <2>1. Server'
        BY Constants, <1>a DEF ReleaseSession, Server
    <2> QED
        BY <2>1, <1>u, <1>c DEF ReleaseSession
<1>17. \A m \in wire : Lose(m) \/ ServerDrops(m) \/ ClientDrops(m) => TypeOK'
    <2> SUFFICES ASSUME NEW m \in wire, Lose(m) \/ ServerDrops(m) \/ ClientDrops(m)
                 PROVE  TypeOK'
        OBVIOUS
    <2>1. Wire'
        BY <1>a DEF Lose, ServerDrops, ClientDrops, Exchange, Wire
    <2> QED
        BY <2>1, <1>u, <1>c DEF Lose, ServerDrops, ClientDrops
<1>18. CalmDown => TypeOK'
    <2> SUFFICES ASSUME CalmDown PROVE TypeOK'
        OBVIOUS
    <2>1. Flags'
        BY <1>a DEF CalmDown, Flags
    <2> QED
        BY <2>1, <1>u, <1>c DEF CalmDown
<1>19. UNCHANGED vars => TypeOK'
    BY <1>u, <1>c DEF vars
<1> QED
    BY <1>1, <1>2, <1>3, <1>4, <1>5, <1>6, <1>7, <1>8, <1>9, <1>10, <1>11, <1>12, <1>13, <1>14, <1>15, <1>16, <1>17, <1>18, <1>19 DEF Next, ClientStep, Deliver

(* The client's instance, the count of failures and the server's ephemeral   *)
(* keys.                                                                    *)
LEMMA ShapeStep ==
    ASSUME Shape, [Next]_vars
    PROVE  Shape'
<1> DEFINE Tun == /\ cli \in Tunnel
                  /\ cli.phase # "idle" => cli.att # 0
                  /\ cli.phase # "gaveUp" => failures < MaxConnectRetries
           Eph == \A p \in Ports : srv[p].priv => srv[p].ns # 0
<1>a. /\ Tun /\ Eph /\ srv \in [Ports -> Session] /\ lastNonce \in Nat
      /\ failures \in Nat /\ wire \subseteq Message
    BY DEF Shape, TypeOK
<1>b. UNCHANGED <<cli, failures>> => Tun'
    BY <1>a
<1>c. UNCHANGED srv => Eph'
    BY <1>a
<1>d. Tun' /\ Eph' => Shape'
    BY TypeStep DEF Shape
<1> HIDE DEF Eph
<1> USE DEF db, server, client
<1>1. \A p \in Ports : Connect(p) => Shape'
    <2> SUFFICES ASSUME NEW p \in Ports, Connect(p) PROVE Shape'
        OBVIOUS
    <2>1. cli.att + 1 \in 0..MaxAttempts /\ cli.att + 1 # 0
        BY <1>a DEF Connect, Tunnel
    <2>2. Tun'
        BY <2>1, <1>a, Constants DEF Connect, Tunnel, Phases
    <2> QED
        BY <2>2, <1>c, <1>d DEF Connect
<1>2. RetryHello \/ RetryIdentity => Shape'
    <2> SUFFICES ASSUME RetryHello \/ RetryIdentity PROVE Shape'
        OBVIOUS
    <2>1. cli' = [cli EXCEPT !.sent = @ + 1] /\ cli.sent + 1 \in 0..MaxRetries
        BY <1>a DEF RetryHello, RetryIdentity, Tunnel
    <2>2. cli' \in Tunnel /\ cli'.phase = cli.phase /\ cli'.att = cli.att
        BY <2>1, <1>a DEF Tunnel
    <2>3. failures' = failures
        BY DEF RetryHello, RetryIdentity
    <2>4. Tun'
        BY <2>2, <2>3, <1>a
    <2> QED
        BY <2>4, <1>c, <1>d DEF RetryHello, RetryIdentity
<1>3. SendClientHello => Shape'
    <2> SUFFICES ASSUME SendClientHello PROVE Shape'
        OBVIOUS
    <2>1. cli' = [cli EXCEPT !.phase = "ecdh", !.sent = 0] /\ failures' = failures
        BY DEF SendClientHello
    <2>2. 0 \in 0..MaxRetries /\ cli.phase # "idle" /\ cli.phase # "gaveUp"
        BY DEF SendClientHello
    <2>3. Tun'
        BY <2>1, <2>2, <1>a DEF Tunnel, Phases
    <2> QED
        BY <2>3, <1>c, <1>d DEF SendClientHello
<1>4. SharedSecret => Shape'
    <2> SUFFICES ASSUME SharedSecret PROVE Shape'
        OBVIOUS
    <2>1. Tun'
        BY <1>a DEF SharedSecret, Tunnel, Phases
    <2> QED
        BY <2>1, <1>c, <1>d DEF SharedSecret
<1>5. DeriveClientKeys => Shape'
    <2> SUFFICES ASSUME DeriveClientKeys PROVE Shape'
        OBVIOUS
    <2>1. [nc |-> cli.att, ns |-> cli.ns, dhc |-> cli.att, dhs |-> cli.shared] \in Keys
        BY <1>a DEF Tunnel, Keys
    <2>2. Tun'
        BY <2>1, <1>a DEF DeriveClientKeys, Tunnel, Phases
    <2> QED
        BY <2>2, <1>c, <1>d DEF DeriveClientKeys
<1>6. BuildIdentity => Shape'
    <2> SUFFICES ASSUME BuildIdentity PROVE Shape'
        OBVIOUS
    <2>1. [nc |-> cli.att, ns |-> cli.ns, dhc |-> cli.att, dhs |-> cli.dhs] \in Keys
        BY <1>a DEF Tunnel, Keys
    <2>2. Tun'
        BY <2>1, <1>a DEF BuildIdentity, Tunnel, Phases
    <2> QED
        BY <2>2, <1>c, <1>d DEF BuildIdentity
<1>7. Succeed => Shape'
    <2> SUFFICES ASSUME Succeed PROVE Shape'
        OBVIOUS
    <2>1. Tun'
        BY <1>a DEF Succeed, Tunnel, Phases
    <2> QED
        BY <2>1, <1>c, <1>d DEF Succeed
<1>8. Refused \/ TimeOut => Shape'
    <2> SUFFICES ASSUME FailAttempt(TRUE), cli.phase \notin {"idle", "gaveUp"} PROVE Shape'
        BY DEF Refused, TimeOut
    <2>1. Tun'
        BY <1>a DEF FailAttempt, Tunnel, Phases
    <2> QED
        BY <2>1, <1>c, <1>d DEF FailAttempt
<1>9. LinkBreaks => Shape'
    <2> SUFFICES ASSUME LinkBreaks PROVE Shape'
        OBVIOUS
    <2>1. Tun'
        BY <1>a DEF LinkBreaks, Tunnel, Phases
    <2> QED
        BY <2>1, <1>c, <1>d DEF LinkBreaks
<1>10. \A m \in wire : RecvServerHello(m) => Shape'
    <2> SUFFICES ASSUME NEW m \in wire, RecvServerHello(m) PROVE Shape'
        OBVIOUS
    <2>1. m.ns \in {0} \cup Nonces /\ m.att \in Attempts
        BY <1>a, MessageFields DEF RecvServerHello
    <2> DEFINE h == cli.helloOk \/ m.att = cli.att
               f == cli.failed \/ m.att # cli.att
    <2>a. h \in BOOLEAN /\ f \in BOOLEAN
        OBVIOUS
    <2>b. cli' = [cli EXCEPT !.ns = m.ns, !.dhs = m.ns, !.helloOk = h, !.failed = f]
        BY DEF RecvServerHello
    <2> HIDE DEF h, f
    <2>2. cli' \in Tunnel /\ cli'.phase = cli.phase /\ cli'.att = cli.att
        BY <2>1, <2>a, <2>b, <1>a DEF Tunnel
    <2>3. Tun'
        BY <2>2, <1>a DEF RecvServerHello
    <2> QED
        BY <2>3, <1>c, <1>d DEF RecvServerHello
<1>11. \A m \in wire : RecvOk(m) \/ RecvDeny(m) => Shape'
    <2> SUFFICES ASSUME NEW m \in wire, RecvOk(m) \/ RecvDeny(m) PROVE Shape'
        OBVIOUS
    <2>a. DenyCode(m.why) \in 0..2
        BY DEF DenyCode
    <2>b. \/ cli' = [cli EXCEPT !.authed = TRUE]
          \/ cli' = [cli EXCEPT !.deny = DenyCode(m.why), !.failed = TRUE]
        BY DEF RecvOk, RecvDeny
    <2>1. cli' \in Tunnel /\ cli'.phase = cli.phase /\ cli'.att = cli.att
        BY <2>a, <2>b, <1>a DEF Tunnel
    <2>2. Tun'
        BY <2>1, <1>a DEF RecvOk, RecvDeny
    <2> QED
        BY <2>2, <1>c, <1>d DEF RecvOk, RecvDeny
<1>12. \A m \in wire : RecvHello(m) => Shape'
    <2> SUFFICES ASSUME NEW m \in wire, RecvHello(m) PROVE Shape'
        OBVIOUS
    <2>1. CASE UNCHANGED srv
        BY <2>1, <1>b, <1>c, <1>d DEF RecvHello
    <2>2. CASE srv' = [srv EXCEPT ![m.port] = Restarted(srv[m.port], m, lastNonce + 1)]
        <3>1. m.port \in Ports /\ srv[m.port] \in Session
            BY <1>a, MessageFields
        <3>2. Restarted(srv[m.port], m, lastNonce + 1).ns = lastNonce + 1
            BY <3>1 DEF Restarted, Session
        <3>3. Eph'
            BY <2>2, <3>1, <3>2, <1>a DEF Eph
        <3> QED
            BY <3>3, <1>b, <1>d DEF RecvHello
    <2> QED
        BY <2>1, <2>2 DEF RecvHello
<1>13. \A m \in wire : RecvClientHello(m) => Shape'
    <2> SUFFICES ASSUME NEW m \in wire, RecvClientHello(m) PROVE Shape'
        OBVIOUS
    <2>1. m.port \in Ports /\ srv[m.port] \in Session
        BY <1>a, MessageFields
    <2>2. srv'[m.port].priv => srv'[m.port] = srv[m.port]
        BY <2>1, <1>a DEF RecvClientHello, Session
    <2>3. Eph'
        BY <2>1, <2>2, <1>a DEF RecvClientHello, Eph
    <2> QED
        BY <2>3, <1>b, <1>d DEF RecvClientHello
<1>14. \A m \in wire : RepeatOk(m) \/ RecvIdentity(m) => Shape'
    <2> SUFFICES ASSUME NEW m \in wire, RepeatOk(m) \/ RecvIdentity(m) PROVE Shape'
        OBVIOUS
    <2>1. m.port \in Ports /\ srv[m.port] \in Session
        BY <1>a, MessageFields
    <2>2. srv'[m.port].priv = srv[m.port].priv /\ srv'[m.port].ns = srv[m.port].ns
        <3>1. CASE RepeatOk(m)
            BY <3>1, <2>1, <1>a DEF RepeatOk, Session
        <3>2. CASE RecvIdentity(m)
            <4>1. PICK v \in Verdicts(srv[m.port], m) :
                     srv' = [srv EXCEPT ![m.port] =
                        [srv[m.port] EXCEPT !.seen = @ \cup {m.seq}, !.auth = v.why = "ok",
                                  !.stage = IF v.why = "ok" THEN "AUTHED" ELSE @]]
                BY <3>2 DEF RecvIdentity
            <4> QED
                BY <4>1, <2>1, <1>a DEF Session
        <3> QED
            BY <3>1, <3>2
    <2>3. \A p \in Ports \ {m.port} : srv'[p] = srv[p]
        BY <1>a DEF RepeatOk, RecvIdentity
    <2>4. Eph'
        BY <2>2, <2>3, <1>a DEF Eph
    <2> QED
        BY <2>4, <1>b, <1>d DEF RepeatOk, RecvIdentity
<1>15. \A p \in Ports : ReleaseSession(p) => Shape'
    <2> SUFFICES ASSUME NEW p \in Ports, ReleaseSession(p) PROVE Shape'
        OBVIOUS
    <2>1. Eph'
        BY <1>a, Constants DEF ReleaseSession, Eph
    <2> QED
        BY <2>1, <1>b, <1>d DEF ReleaseSession
<1>16. \A m \in wire : Lose(m) \/ ServerDrops(m) \/ ClientDrops(m) => Shape'
    BY <1>b, <1>c, <1>d DEF Lose, ServerDrops, ClientDrops
<1>17. CalmDown \/ UNCHANGED vars => Shape'
    BY <1>b, <1>c, <1>d DEF CalmDown, vars
<1> QED
    BY <1>1, <1>2, <1>3, <1>4, <1>5, <1>6, <1>7, <1>8, <1>9, <1>10, <1>11, <1>12, <1>13, <1>14, <1>15, <1>16, <1>17 DEF Next, ClientStep, Deliver

-----------------------------------------------------------------------------
(* What is known stays known: the keys of an attempt that has them are final, *)
(* and nothing accepted or recorded is taken back.                          *)
LEMMA Monotone ==
    ASSUME IInv, [Next]_vars
    PROVE  /\ \A a \in Attempts : Derived(a) => Derived(a)' /\ clientKeys'[a] = clientKeys[a]
           /\ accepted \subseteq accepted'
           /\ Recorded => Recorded'
<1>a. /\ cli \in Tunnel /\ clientKeys \in [Attempts -> Keys] /\ cli.att \in Nat
      /\ registered \in BOOLEAN /\ tokenLive \in BOOLEAN
    BY DEF IInv, Shape, TypeOK, Tunnel
<1> DEFINE Kept == \A a \in Attempts : Derived(a) => Derived(a)' /\ clientKeys'[a] = clientKeys[a]
           Rest == accepted \subseteq accepted' /\ (Recorded => Recorded')
<1> SUFFICES Kept /\ Rest
    OBVIOUS
<1> USE DEF db, server, client
<1>1. UNCHANGED <<cli, clientKeys>> => Kept
    BY DEF Derived
<1>2. UNCHANGED <<accepted, registered, lineLost>> => Rest
    BY <1>a DEF Recorded
<1>3. ASSUME cli' \in Tunnel, cli'.att = cli.att, UNCHANGED clientKeys,
             cli.phase \in {"idle", "build", "identity", "up", "gaveUp"}
               => cli'.phase \in {"idle", "build", "identity", "up", "gaveUp"}
      PROVE  Kept
    BY <1>3 DEF Derived
<1>4. ASSUME NEW p \in Ports, Connect(p) PROVE Kept /\ Rest
    <2>1. cli'.att = cli.att + 1 /\ clientKeys' = clientKeys
        BY <1>4 DEF Connect, Idle
    <2>2. Kept
        BY <2>1, <1>a DEF Derived, Attempts
    <2> QED
        BY <2>2, <1>2, <1>4 DEF Connect
<1>5. ASSUME RetryHello \/ SendClientHello \/ SharedSecret \/ BuildIdentity \/ RetryIdentity
               \/ Succeed \/ LinkBreaks \/ FailAttempt(TRUE)
      PROVE  Kept /\ Rest
    <2>1. /\ cli'.att = cli.att /\ clientKeys' = clientKeys
          /\ cli.phase \in {"idle", "build", "identity", "up", "gaveUp"}
               => cli'.phase \in {"idle", "build", "identity", "up", "gaveUp"}
        BY <1>5, <1>a DEF RetryHello, SendClientHello, SharedSecret, BuildIdentity,
               RetryIdentity, Succeed, LinkBreaks, FailAttempt, Tunnel
    <2>2. UNCHANGED <<accepted, registered, lineLost>>
        BY <1>5 DEF RetryHello, SendClientHello, SharedSecret, BuildIdentity,
               RetryIdentity, Succeed, LinkBreaks, FailAttempt
    <2> QED
        BY <2>1, <2>2, <1>2 DEF Derived
<1>6. ASSUME DeriveClientKeys PROVE Kept /\ Rest
    <2>1. /\ cli'.att = cli.att /\ cli.phase = "hkdf"
          /\ \A a \in Attempts : a # cli.att => clientKeys'[a] = clientKeys[a]
        BY <1>6, <1>a DEF DeriveClientKeys, Tunnel
    <2>2. Kept
        BY <2>1, <1>a DEF Derived, Attempts
    <2> QED
        BY <2>2, <1>2, <1>6 DEF DeriveClientKeys
<1>7. ASSUME NEW m \in wire, RecvServerHello(m) \/ RecvOk(m) \/ RecvDeny(m) PROVE Kept /\ Rest
    <2>1. cli'.att = cli.att /\ cli'.phase = cli.phase /\ clientKeys' = clientKeys
        BY <1>7, <1>a DEF RecvServerHello, RecvOk, RecvDeny, Tunnel
    <2> QED
        BY <2>1, <1>2, <1>7 DEF Derived, RecvServerHello, RecvOk, RecvDeny
<1>8. ASSUME NEW m \in wire, RecvHello(m) \/ RecvClientHello(m) \/ RepeatOk(m) PROVE Kept /\ Rest
    BY <1>1, <1>2, <1>8 DEF RecvHello, RecvClientHello, RepeatOk
<1>9. ASSUME NEW m \in wire, RecvIdentity(m) PROVE Kept /\ Rest
    <2>1. PICK v \in Verdicts(srv[m.port], m) :
              /\ registered' = v.registered
              /\ lineLost' = (lineLost \/ v.lost)
              /\ accepted' = IF v.why = "ok" THEN accepted \cup {srv[m.port].key} ELSE accepted
        BY <1>9 DEF RecvIdentity
    <2>2. v.registered \in {registered, TRUE}
        BY <1>a, VerdictShape
    <2>3. Recorded => Recorded'
        BY <2>1, <2>2 DEF Recorded
    <2> QED
        BY <2>1, <2>3, <1>1, <1>9 DEF RecvIdentity
<1>10. ASSUME NEW p \in Ports, ReleaseSession(p) PROVE Kept /\ Rest
    BY <1>1, <1>2, <1>10 DEF ReleaseSession
<1>11. ASSUME NEW m \in wire, Lose(m) \/ ServerDrops(m) \/ ClientDrops(m) PROVE Kept /\ Rest
    BY <1>1, <1>2, <1>11 DEF Lose, ServerDrops, ClientDrops
<1>12. ASSUME CalmDown \/ UNCHANGED vars PROVE Kept /\ Rest
    BY <1>1, <1>2, <1>12 DEF CalmDown, vars
<1> QED
    BY <1>4, <1>5, <1>6, <1>7, <1>8, <1>9, <1>10, <1>11, <1>12 DEF Next, ClientStep, Deliver, Refused, TimeOut

LEMMA ClientKnowsStep ==
    ASSUME IInv, [Next]_vars
    PROVE  ClientKnows'
<1>a. /\ cli \in Tunnel /\ clientKeys \in [Attempts -> Keys]
      /\ cli.phase # "idle" => cli.att \in Attempts
      /\ accepted \subseteq accepted' /\ ClientKnows /\ Sealed
    <2>1. cli \in Tunnel /\ clientKeys \in [Attempts -> Keys] /\ (cli.phase # "idle" => cli.att # 0)
        BY DEF IInv, Shape, TypeOK
    <2>2. cli.att # 0 => cli.att \in Attempts
        BY <2>1 DEF Tunnel, Attempts
    <2> QED
        BY <2>1, <2>2, Monotone DEF IInv
<1> USE DEF db, server, client
<1>1. UNCHANGED <<cli, clientKeys>> => ClientKnows'
    BY <1>a DEF ClientKnows
<1>2. ASSUME NEW p \in Ports, Connect(p) PROVE ClientKnows'
    <2>1. cli'.phase = "hello" /\ cli'.key = NoKey /\ cli'.authed = FALSE
        BY <1>2 DEF Connect, Idle
    <2> QED
        BY <2>1 DEF ClientKnows
<1>3. ASSUME RetryHello \/ RetryIdentity PROVE ClientKnows'
    <2>1. /\ cli'.phase = cli.phase /\ cli'.att = cli.att /\ cli'.key = cli.key
          /\ cli'.context = cli.context /\ cli'.authed = cli.authed /\ clientKeys' = clientKeys
        BY <1>3, <1>a DEF RetryHello, RetryIdentity, Tunnel
    <2> QED
        BY <2>1, <1>a DEF ClientKnows
<1>4. ASSUME SendClientHello \/ SharedSecret PROVE ClientKnows'
    <2>1. /\ cli'.phase \in {"ecdh", "hkdf"} /\ cli.phase \in {"hello", "ecdh"}
          /\ cli'.key = cli.key /\ cli'.authed = cli.authed
        BY <1>4, <1>a DEF SendClientHello, SharedSecret, Tunnel
    <2> QED
        BY <2>1, <1>a DEF ClientKnows
<1>5. ASSUME DeriveClientKeys PROVE ClientKnows'
    <2>1. /\ cli'.phase = "build" /\ cli'.att = cli.att /\ cli'.authed = cli.authed
          /\ cli.phase = "hkdf" /\ cli'.key = clientKeys'[cli.att]
        BY <1>5, <1>a DEF DeriveClientKeys, Tunnel
    <2>2. ~cli.authed
        BY <2>1, <1>a DEF ClientKnows
    <2> QED
        BY <2>1, <2>2 DEF ClientKnows
<1>6. ASSUME BuildIdentity PROVE ClientKnows'
    <2>1. /\ cli'.phase = "identity" /\ cli'.att = cli.att /\ cli'.authed = cli.authed
          /\ cli.phase = "build" /\ cli'.key = cli.key /\ clientKeys' = clientKeys
          /\ cli'.context.nc = cli.att
        BY <1>6, <1>a DEF BuildIdentity, Tunnel
    <2> QED
        BY <2>1, <1>a DEF ClientKnows
<1>7. ASSUME Succeed \/ LinkBreaks \/ FailAttempt(TRUE) PROVE ClientKnows'
    <2>1. /\ cli'.phase \in {"idle", "up", "gaveUp"} /\ cli'.key = cli.key
          /\ cli'.authed = cli.authed
        BY <1>7, <1>a DEF Succeed, LinkBreaks, FailAttempt, Tunnel
    <2> QED
        BY <2>1, <1>a DEF ClientKnows
<1>8. ASSUME NEW m \in wire, RecvServerHello(m) \/ RecvDeny(m) PROVE ClientKnows'
    <2>1. /\ cli'.phase = cli.phase /\ cli'.att = cli.att /\ cli'.key = cli.key
          /\ cli'.context = cli.context /\ cli'.authed = cli.authed /\ clientKeys' = clientKeys
        BY <1>8, <1>a DEF RecvServerHello, RecvDeny, Tunnel
    <2> QED
        BY <2>1, <1>a DEF ClientKnows
<1>9. ASSUME NEW m \in wire, RecvOk(m) PROVE ClientKnows'
    <2>1. /\ cli'.phase = cli.phase /\ cli'.att = cli.att /\ cli'.key = cli.key
          /\ cli'.context = cli.context /\ clientKeys' = clientKeys
        BY <1>9, <1>a DEF RecvOk, Tunnel
    <2>2. cli.key # NoKey /\ cli.key = m.key /\ m.type = "ok"
        BY <1>9 DEF RecvOk, ClientOpens
    <2>3. cli.key \in accepted
        BY <2>2, <1>a DEF Sealed
    <2> QED
        BY <2>1, <2>2, <2>3, <1>a DEF ClientKnows
<1>10. ASSUME NEW m \in wire, RecvHello(m) \/ RecvClientHello(m) \/ RepeatOk(m) \/ RecvIdentity(m)
       PROVE  ClientKnows'
    BY <1>1, <1>10 DEF RecvHello, RecvClientHello, RepeatOk, RecvIdentity
<1>11. ASSUME NEW p \in Ports, ReleaseSession(p) PROVE ClientKnows'
    BY <1>1, <1>11 DEF ReleaseSession
<1>12. ASSUME NEW m \in wire, Lose(m) \/ ServerDrops(m) \/ ClientDrops(m) PROVE ClientKnows'
    BY <1>1, <1>12 DEF Lose, ServerDrops, ClientDrops
<1>13. ASSUME CalmDown \/ UNCHANGED vars PROVE ClientKnows'
    BY <1>1, <1>13 DEF CalmDown, vars
<1> QED
    BY <1>2, <1>3, <1>4, <1>5, <1>6, <1>7, <1>8, <1>9, <1>10, <1>11, <1>12, <1>13 DEF Next, ClientStep, Deliver, Refused, TimeOut

(* A message that was on its way keeps its meaning, so it is enough to look  *)
(* at what a step adds.                                                     *)
LEMMA SealedStep ==
    ASSUME IInv, [Next]_vars
    PROVE  Sealed'
<1> DEFINE Good(m) ==
        /\ m.type = "identity" =>
              m.att \in Attempts /\ Derived(m.att) /\ m.key = clientKeys[m.att]
                /\ m.context.nc = m.att
        /\ m.type = "ok" => m.key \in accepted
<1>a. /\ cli \in Tunnel /\ clientKeys \in [Attempts -> Keys]
      /\ cli.phase # "idle" => cli.att \in Attempts
      /\ accepted \subseteq accepted' /\ ClientKnows /\ ServerKnows
    <2>1. cli \in Tunnel /\ clientKeys \in [Attempts -> Keys] /\ (cli.phase # "idle" => cli.att # 0)
        BY DEF IInv, Shape, TypeOK
    <2>2. cli.att # 0 => cli.att \in Attempts
        BY <2>1 DEF Tunnel, Attempts
    <2> QED
        BY <2>1, <2>2, Monotone DEF IInv
<1>b. \A m \in wire : Good(m) /\ m.port \in Ports
    BY MessageFields DEF IInv, Shape, TypeOK, Sealed
<1>c. ASSUME NEW m, Good(m) PROVE Good(m)'
    BY <1>a, <1>c, Monotone
<1>d. ASSUME \A m \in wire' \ wire : Good(m)' PROVE Sealed'
    BY <1>b, <1>c, <1>d DEF Sealed
<1>e. ASSUME \A m \in wire' \ wire : m.type \notin {"identity", "ok"} PROVE Sealed'
    BY <1>d, <1>e
<1> HIDE DEF Good
<1> USE DEF db, server, client
<1>1. ASSUME NEW p \in Ports, Connect(p) PROVE Sealed'
    BY <1>1, <1>e DEF Connect, ToServer, Hello
<1>2. ASSUME RetryHello \/ SendClientHello PROVE Sealed'
    BY <1>2, <1>e DEF RetryHello, SendClientHello, Hello, ClientHello
<1>3. ASSUME SharedSecret \/ DeriveClientKeys \/ Succeed \/ LinkBreaks \/ FailAttempt(TRUE)
               \/ CalmDown \/ UNCHANGED vars
      PROVE  Sealed'
    BY <1>3, <1>e DEF SharedSecret, DeriveClientKeys, Succeed, LinkBreaks, FailAttempt,
           CalmDown, vars
<1>4. ASSUME BuildIdentity PROVE Sealed'
    <2> DEFINE c == [nc |-> cli.att, ns |-> cli.ns, dhc |-> cli.att, dhs |-> cli.dhs]
               i == Identity(cli.att, cli.port, cli.key, c, hasToken, 0)
    <2>1. /\ i.type = "identity" /\ i.att = cli.att /\ i.key = cli.key
          /\ i.context.nc = cli.att
        BY DEF Identity
    <2>2. cli.phase = "build" /\ wire' = wire \cup {i} /\ clientKeys' = clientKeys
        BY <1>4 DEF BuildIdentity
    <2>3. cli'.phase = "identity" /\ cli'.att = cli.att
        BY <1>4, <1>a DEF BuildIdentity, Tunnel
    <2>4. cli.key = clientKeys'[cli.att] /\ cli.att \in Attempts
        BY <2>2, <1>a DEF ClientKnows
    <2> HIDE DEF i
    <2>5. ASSUME NEW x, x = i PROVE Good(x)'
        BY <2>1, <2>3, <2>4, <2>5 DEF Good, Derived
    <2> QED
        BY <2>2, <2>5, <1>d
<1>5. ASSUME RetryIdentity PROVE Sealed'
    <2> DEFINE i == Identity(cli.att, cli.port, cli.key, cli.context, hasToken, cli.sent + 1)
    <2>1. /\ i.type = "identity" /\ i.att = cli.att /\ i.key = cli.key
          /\ i.context = cli.context
        BY DEF Identity
    <2>2. /\ cli.phase = "identity" /\ wire' = wire \cup {ClientHello(cli.att, cli.port), i}
          /\ clientKeys' = clientKeys
        BY <1>5 DEF RetryIdentity
    <2>3. cli'.phase = "identity" /\ cli'.att = cli.att
        BY <1>5, <1>a DEF RetryIdentity, Tunnel
    <2>4. /\ cli.key = clientKeys'[cli.att] /\ cli.att \in Attempts
          /\ cli.context.nc = cli.att
        BY <2>2, <1>a DEF ClientKnows
    <2> HIDE DEF i
    <2>5. ASSUME NEW x, x = i PROVE Good(x)'
        BY <2>1, <2>3, <2>4, <2>5 DEF Good, Derived
    <2>6. ASSUME NEW x, x = ClientHello(cli.att, cli.port) PROVE Good(x)'
        BY <2>6 DEF Good, ClientHello
    <2> QED
        BY <2>2, <2>5, <2>6, <1>d
<1>6. ASSUME NEW m \in wire, RecvServerHello(m) \/ RecvOk(m) \/ RecvDeny(m) \/ RecvClientHello(m)
               \/ ServerDrops(m) \/ ClientDrops(m) \/ Lose(m)
      PROVE  Sealed'
    BY <1>6, <1>e DEF RecvServerHello, RecvOk, RecvDeny, RecvClientHello, ServerDrops,
           ClientDrops, Lose, Exchange
<1>7. ASSUME NEW m \in wire, RecvHello(m) PROVE Sealed'
    BY <1>7, <1>e DEF RecvHello, Exchange, Resend, ServerHello
<1>8. ASSUME NEW m \in wire, RepeatOk(m) PROVE Sealed'
    <2> DEFINE r == Reply(m.att, m.port, srv[m.port].key, "ok", "ok")
    <2>1. r.type = "ok" /\ r.key = srv[m.port].key
        BY DEF Reply
    <2>2. srv[m.port].key \in accepted'
        BY <1>8, <1>a, <1>b DEF RepeatOk, ServerKnows
    <2>3. \A x \in wire' \ wire : x = r
        BY <1>8 DEF RepeatOk, Exchange
    <2> HIDE DEF r
    <2> QED
        BY <2>1, <2>2, <2>3, <1>d DEF Good
<1>9. ASSUME NEW m \in wire, RecvIdentity(m) PROVE Sealed'
    <2>1. PICK v \in Verdicts(srv[m.port], m) :
              /\ accepted' = IF v.why = "ok" THEN accepted \cup {srv[m.port].key} ELSE accepted
              /\ Exchange(m, {Reply(m.att, m.port, srv[m.port].key,
                                    IF v.why = "ok" THEN "ok" ELSE "deny", v.why)})
        BY <1>9 DEF RecvIdentity
    <2> DEFINE r == Reply(m.att, m.port, srv[m.port].key,
                          IF v.why = "ok" THEN "ok" ELSE "deny", v.why)
    <2>2. r.type = (IF v.why = "ok" THEN "ok" ELSE "deny") /\ r.key = srv[m.port].key
        BY DEF Reply
    <2>3. \A x \in wire' \ wire : x = r
        BY <2>1 DEF Exchange
    <2> HIDE DEF r
    <2> QED
        BY <2>1, <2>2, <2>3, <1>d DEF Good
<1>10. ASSUME NEW p \in Ports, ReleaseSession(p) PROVE Sealed'
    BY <1>10, <1>e DEF ReleaseSession
<1> QED
    BY <1>1, <1>2, <1>3, <1>4, <1>5, <1>6, <1>7, <1>8, <1>9, <1>10 DEF Next, ClientStep, Deliver, Refused, TimeOut

(* Only an identity makes a session authenticated; it was sealed under the   *)
(* session's keys in the attempt whose nonce the session carries.           *)
LEMMA ServerKnowsStep ==
    ASSUME IInv, [Next]_vars
    PROVE  ServerKnows'
<1> DEFINE Known(s) == s.auth => /\ s.stage = "AUTHED" /\ s.nc \in Attempts /\ Derived(s.nc)
                                 /\ s.key = clientKeys[s.nc] /\ s.key \in accepted
<1>a. /\ srv \in [Ports -> Session] /\ (accepted # {} => Recorded)
      /\ registered \in BOOLEAN /\ tokenLive \in BOOLEAN
    BY DEF IInv, Shape, TypeOK, ServerKnows
<1>b. \A m \in wire : m.port \in Ports /\ m.att \in Attempts
    BY MessageFields DEF IInv, Shape, TypeOK
<1>c. ASSUME NEW s, Known(s) PROVE Known(s)'
    BY <1>c, Monotone
<1>d. \A p \in Ports : Known(srv[p])
    BY DEF IInv, ServerKnows
<1>e. ASSUME \A p \in Ports : srv'[p] = srv[p] \/ srv'[p].auth = FALSE, UNCHANGED accepted
      PROVE  ServerKnows'
    <2>1. ASSUME NEW p \in Ports, NEW s, s = srv'[p] PROVE Known(s)'
        BY <1>c, <1>d, <1>e, <2>1
    <2>2. accepted' # {} => Recorded'
        BY <1>a, <1>e, Monotone
    <2> QED
        BY <2>1, <2>2 DEF ServerKnows
<1> USE DEF db, server, client
<1>1. ASSUME UNCHANGED <<srv, accepted>> PROVE ServerKnows'
    BY <1>1, <1>e
<1>2. ASSUME NEW m \in wire, RecvHello(m) PROVE ServerKnows'
    <2>1. Restarted(srv[m.port], m, lastNonce + 1).auth = FALSE
        BY <1>a, <1>b DEF Restarted, Session
    <2> QED
        BY <2>1, <1>2, <1>a, <1>e DEF RecvHello
<1>3. ASSUME NEW m \in wire, RecvClientHello(m) PROVE ServerKnows'
    <2>1. srv[m.port].stage = "HELLO" => srv[m.port].auth = FALSE
        BY <1>a, <1>b, <1>d DEF Session
    <2>2. \A p \in Ports : srv'[p] = srv[p] \/ srv'[p].auth = FALSE
        BY <2>1, <1>3, <1>a, <1>b DEF RecvClientHello, Session
    <2> QED
        BY <2>2, <1>3, <1>e DEF RecvClientHello
<1>4. ASSUME NEW m \in wire, RepeatOk(m) PROVE ServerKnows'
    <2> DEFINE s == srv[m.port]
    <2>1. /\ srv'[m.port].auth = s.auth /\ srv'[m.port].stage = s.stage
          /\ srv'[m.port].nc = s.nc /\ srv'[m.port].key = s.key
        BY <1>4, <1>a, <1>b DEF RepeatOk, Session
    <2>2. \A p \in Ports \ {m.port} : srv'[p] = srv[p]
        BY <1>4, <1>a DEF RepeatOk
    <2>3. ASSUME NEW x, x = s PROVE Known(x)'
        BY <2>3, <1>b, <1>c, <1>d
    <2>4. ASSUME NEW p \in Ports, NEW x, x = srv'[p] PROVE Known(x)'
        <3>1. CASE p = m.port
            BY <3>1, <2>1, <2>3, <2>4
        <3>2. CASE p # m.port
            BY <3>2, <2>2, <2>4, <1>c, <1>d
        <3> QED
            BY <3>1, <3>2
    <2>5. accepted' # {} => Recorded'
        BY <1>4, <1>a, Monotone DEF RepeatOk
    <2> QED
        BY <2>4, <2>5 DEF ServerKnows
<1>5. ASSUME NEW m \in wire, RecvIdentity(m) PROVE ServerKnows'
    <2> DEFINE s == srv[m.port]
    <2>1. PICK v \in Verdicts(s, m) :
              /\ registered' = v.registered
              /\ lineLost' = (lineLost \/ v.lost)
              /\ accepted' = IF v.why = "ok" THEN accepted \cup {s.key} ELSE accepted
              /\ srv' = [srv EXCEPT ![m.port] =
                            [s EXCEPT !.seen = @ \cup {m.seq}, !.auth = v.why = "ok",
                                      !.stage = IF v.why = "ok" THEN "AUTHED" ELSE @]]
        BY <1>5 DEF RecvIdentity
    <2>2. v.why = "ok" => (v.registered = TRUE \/ v.lost = TRUE) /\ m.context = Context(s)
        BY <1>a, VerdictShape
    <2>6. v.why = "ok" => Recorded'
        BY <2>1, <2>2 DEF Recorded
    <2>3. m.type = "identity" /\ m.key = s.key /\ clientKeys' = clientKeys
        BY <1>5 DEF RecvIdentity, ServerTakes
    <2>4. CASE v.why # "ok"
        <3>1. \A p \in Ports : srv'[p] = srv[p] \/ srv'[p].auth = FALSE
            BY <2>1, <2>4, <1>a, <1>b DEF Session
        <3> QED
            BY <3>1, <2>1, <2>4, <1>e
    <2>5. CASE v.why = "ok"
        <3>1. /\ srv'[m.port].stage = "AUTHED" /\ srv'[m.port].nc = s.nc
              /\ srv'[m.port].key = s.key
            BY <2>1, <2>5, <1>a, <1>b DEF Session
        <3>2. s.nc = m.att
            BY <2>2, <2>3, <2>5 DEF IInv, Sealed, Context
        <3>3. Derived(m.att)' /\ s.key = clientKeys'[m.att]
            BY <2>3, <1>b, Monotone DEF IInv, Sealed
        <3>4. ASSUME NEW p \in Ports, NEW x, x = srv'[p] PROVE Known(x)'
            <4>1. CASE p = m.port
                BY <4>1, <3>1, <3>2, <3>3, <3>4, <2>1, <2>5, <1>b
            <4>2. CASE p # m.port
                <5>1. srv'[p] = srv[p]
                    BY <4>2, <2>1, <1>a
                <5> QED
                    BY <5>1, <3>4, <1>c, <1>d
            <4> QED
                BY <4>1, <4>2
        <3> QED
            BY <3>4, <2>6, <2>5 DEF ServerKnows
    <2> QED
        BY <2>4, <2>5
<1>6. ASSUME NEW p \in Ports, ReleaseSession(p) PROVE ServerKnows'
    <2>1. srv' = [srv EXCEPT ![p] = Fresh] /\ accepted' = accepted
        BY <1>6 DEF ReleaseSession
    <2>2. \A q \in Ports : srv'[q] = srv[q] \/ srv'[q].auth = FALSE
        BY <2>1, <1>a DEF Fresh
    <2> QED
        BY <2>1, <2>2, <1>e
<1>7. ASSUME \/ \E p \in Ports : Connect(p)
             \/ RetryHello \/ SendClientHello \/ SharedSecret \/ DeriveClientKeys
             \/ BuildIdentity \/ RetryIdentity \/ Succeed \/ FailAttempt(TRUE) \/ LinkBreaks
             \/ CalmDown \/ UNCHANGED vars
      PROVE  ServerKnows'
    BY <1>1, <1>7 DEF Connect, RetryHello, SendClientHello, SharedSecret, DeriveClientKeys,
           BuildIdentity, RetryIdentity, Succeed, FailAttempt, LinkBreaks, CalmDown, vars
<1>8. ASSUME NEW m \in wire, RecvServerHello(m) \/ RecvOk(m) \/ RecvDeny(m)
               \/ ServerDrops(m) \/ ClientDrops(m) \/ Lose(m)
      PROVE  ServerKnows'
    BY <1>1, <1>8 DEF RecvServerHello, RecvOk, RecvDeny, ServerDrops, ClientDrops, Lose
<1> QED
    BY <1>2, <1>3, <1>4, <1>5, <1>6, <1>7, <1>8 DEF Next, ClientStep, Deliver, Refused, TimeOut

LEMMA StepIInv == IInv /\ [Next]_vars => IInv'
BY ShapeStep, ClientKnowsStep, SealedStep, ServerKnowsStep DEF IInv

(* The shape of the state, and what each sealed message, each session and    *)
(* the client know of the attempt they belong to.                           *)
THEOREM HandshakeInvariant == Spec => []IInv
BY InitIInv, StepIInv, PTL DEF Spec

(* Whatever the network does: an authenticated session has exactly the keys  *)
(* the client derived in the attempt it carries, and a client that believes  *)
(* it is connected was accepted under its present keys (handle_identity,     *)
(* handle_frame).                                                           *)
THEOREM KeysAgree == Spec => []Agreement
<1>1. IInv => Agreement
    BY DEF IInv, ServerKnows, ClientKnows, Agreement, Attempts
<1> QED
    BY <1>1, HandshakeInvariant, PTL

(* Nobody is let in, and no client believes it is, whose public key the      *)
(* server did not write down, whichever of its writes it saw fail, unless    *)
(* the line was lost by a flush that file_append_line does not look at.      *)
THEOREM OnlyRegistered == Spec => []ConnectedMeansRegistered
<1>1. IInv => ConnectedMeansRegistered
    BY DEF IInv, ServerKnows, ClientKnows, Recorded, ConnectedMeansRegistered
<1> QED
    BY <1>1, HandshakeInvariant, PTL

(* No datagram, old or new, resets a session that is authenticated or moves  *)
(* it to other keys (handle_auth_hello, handle_auth_client_hello).          *)
THEOREM NoReset == Spec => AuthedNeverReset
<1> DEFINE Step == \A p \in Ports : srv[p].auth =>
                      \/ srv'[p] = Fresh
                      \/ srv'[p] = [srv[p] EXCEPT !.seen = srv'[p].seen]
<1>1. ASSUME IInv, [Next]_vars PROVE Step
    <2>a. /\ srv \in [Ports -> Session] /\ \A m \in wire : m.port \in Ports
          /\ \A p \in Ports : srv[p].auth => srv[p].stage = "AUTHED"
        BY <1>1, MessageFields DEF IInv, Shape, TypeOK
    <2>b. \A p \in Ports : srv'[p] = srv[p] => srv'[p] = [srv[p] EXCEPT !.seen = srv'[p].seen]
        BY <2>a DEF Session
    <2> USE DEF db, server, client
    <2>1. CASE UNCHANGED srv
        BY <2>1, <2>b
    <2>2. ASSUME NEW m \in wire, RecvHello(m) \/ RecvClientHello(m) PROVE Step
        <3>1. \A p \in Ports : srv[p].auth => srv'[p] = srv[p]
            BY <2>2, <2>a DEF RecvHello, RecvClientHello, Refuses
        <3> QED
            BY <3>1, <2>b
    <2>3. ASSUME NEW m \in wire, RepeatOk(m) PROVE Step
        <3>1. srv'[m.port] = [srv[m.port] EXCEPT !.seen = srv'[m.port].seen]
            BY <2>3, <2>a DEF RepeatOk, Session
        <3>2. \A p \in Ports \ {m.port} : srv'[p] = srv[p]
            BY <2>3, <2>a DEF RepeatOk
        <3> QED
            BY <3>1, <3>2, <2>b
    <2>4. ASSUME NEW m \in wire, RecvIdentity(m) PROVE Step
        <3>1. ~srv[m.port].auth
            BY <2>4 DEF RecvIdentity
        <3>2. \A p \in Ports \ {m.port} : srv'[p] = srv[p]
            BY <2>4, <2>a DEF RecvIdentity
        <3> QED
            BY <3>1, <3>2, <2>b
    <2>5. ASSUME NEW p \in Ports, ReleaseSession(p) PROVE Step
        BY <2>5, <2>a, <2>b DEF ReleaseSession
    <2>6. \/ UNCHANGED srv
          \/ \E m \in wire : RecvHello(m) \/ RecvClientHello(m) \/ RepeatOk(m) \/ RecvIdentity(m)
          \/ \E p \in Ports : ReleaseSession(p)
        BY <1>1 DEF Next, ClientStep, Deliver, Connect, RetryHello, SendClientHello, SharedSecret,
               DeriveClientKeys, BuildIdentity, RetryIdentity, Succeed, Refused, TimeOut, FailAttempt,
               LinkBreaks, CalmDown, RecvServerHello, RecvOk, RecvDeny, ServerDrops, ClientDrops,
               Lose, vars
    <2> QED
        BY <2>1, <2>2, <2>3, <2>4, <2>5, <2>6
<1>2. IInv /\ [Next]_vars => [Step]_vars
    BY <1>1
<1> QED
    BY <1>2, HandshakeInvariant, PTL DEF Spec, AuthedNeverReset
=============================================================================
