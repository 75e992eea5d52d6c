-------------------------------- MODULE Sessions --------------------------------
(***************************************************************************)
(* The server's session table, its virtual-address pool and the threads      *)
(* that change them: the UDP receive thread and the TCP event thread create  *)
(* and authenticate sessions, every thread may take one down.                *)
(*                                                                         *)
(* A step is what a thread does between two lock operations: the table is    *)
(* guarded by m_sessions_mutex, m_vip_to_key and m_last_vip by m_vip_mutex,  *)
(* the pool by its own lock, and nothing is held from one to the next.       *)
(* The handshake that precedes the identity is the module Handshake: here an *)
(* accepted identity may arrive on any session that can take one.            *)
(***************************************************************************)
EXTENDS FiniteSets, Naturals

CONSTANTS
    Objs,           \* Session objects
    Keys,           \* peer keys, "ip:port/tcp" and "ip:port/udp"
    TcpKeys,        \* those of TCP connections
    IpOf,           \* the source address of a peer key
    Clients,        \* public keys of registered clients
    Vips,           \* the addresses of the pool
    HintOf,         \* preferred_for: the address derived from an identity
    Janitors,       \* threads that take sessions down: heartbeat_work, send_work
    MaxPending,     \* kMaxPendingSessions
    MaxPerIp,       \* kMaxSessionsPerIp
    MaxClients,     \* --max-clients
    None

ASSUME SessionsAssumption ==
    /\ TcpKeys \subseteq Keys
    /\ HintOf \in [Clients -> Vips]
    /\ None \notin Objs \cup Keys \cup Clients \cup Vips
    /\ Janitors \cap {"recv", "epoll"} = {}

Threads == {"recv", "epoll"} \cup Janitors

(* The only thread that runs the authentication of a session.               *)
Server(k) == IF k \in TcpKeys THEN "epoll" ELSE "recv"

VARIABLES
    table,          \* m_sessions
    keyOf,          \* peer_key; None before the object is constructed
    idOf,           \* cli_pub_hex
    vip,            \* virtual_ip; not None when ip_assigned
    auth,           \* authenticated and handshaked
    released,       \* released
    conn,           \* m_conns of TCPServer has a connection with this session
    used,           \* VirtualIpPool::used
    route,          \* m_vip_to_key
    lease,          \* m_last_vip
    pc, me,         \* where a thread is, and the session it authenticates
    todo,           \* sessions the thread has collected under the lock
    dead            \* the session release_session has taken out of the table

objects == <<keyOf, idOf, vip, auth, released, conn>>
addresses == <<used, route, lease>>
locals == <<pc, me, todo, dead>>
vars == <<table, keyOf, idOf, vip, auth, released, conn,
          used, route, lease, pc, me, todo, dead>>

InTable == {table[k] : k \in Keys} \ {None}
Pending == {o \in InTable : ~auth[o]}
OfIp(k) == {o \in InTable : IpOf[keyOf[o]] = IpOf[k]}
IsTcp(o) == keyOf[o] \in TcpKeys

Init ==
    /\ table = [k \in Keys |-> None]
    /\ keyOf = [o \in Objs |-> None]
    /\ idOf = [o \in Objs |-> None]
    /\ vip = [o \in Objs |-> None]
    /\ auth = [o \in Objs |-> FALSE]
    /\ released = [o \in Objs |-> FALSE]
    /\ conn = [o \in Objs |-> FALSE]
    /\ used = {}
    /\ route = [v \in Vips |-> None]
    /\ lease \in [Clients -> Vips \cup {None}]
    /\ pc = [t \in Threads |-> "idle"]
    /\ me = [t \in Threads |-> None]
    /\ todo = [t \in Threads |-> {}]
    /\ dead = [t \in Threads |-> None]
-----------------------------------------------------------------------------
(* get_or_create_session, one critical section of m_sessions_mutex.          *)

Construct(o, k) ==
    /\ keyOf[o] = None
    /\ keyOf' = [keyOf EXCEPT ![o] = k]
    /\ conn' = [conn EXCEPT ![o] = k \in TcpKeys]

(* A new peer: a datagram from an unknown source, or an accepted connection. *)
NewPeer(k) ==
    /\ pc[Server(k)] = "idle"
    /\ table[k] = None
    /\ \A o \in Objs : conn[o] => keyOf[o] # k
    /\ Cardinality(Pending) < MaxPending

Admit(o, k) ==
    /\ NewPeer(k)
    /\ Cardinality(OfIp(k)) < MaxPerIp
    /\ Cardinality(InTable) < MaxClients
    /\ Construct(o, k)
    /\ table' = [table EXCEPT ![k] = o]
    /\ UNCHANGED <<idOf, vip, auth, released, addresses, locals>>

(* The source is at its limit: one of its unauthenticated sessions gives way *)
(* (the oldest; which one it is tells no property apart), its address goes   *)
(* back to the pool under the same lock.                                    *)
EvictReturnsAddress(w) ==
    /\ used' = used \ {vip[w]}
    /\ route' = [v \in Vips |-> IF v = vip[w] THEN None ELSE route[v]]

EvictAndAdmit(o, k, w) ==
    /\ NewPeer(k)
    /\ Cardinality(OfIp(k)) >= MaxPerIp
    /\ w \in OfIp(k) \cap Pending
    /\ Construct(o, k)
    /\ table' = [table EXCEPT ![keyOf[w]] = None, ![k] = o]
    /\ released' = [released EXCEPT ![w] = TRUE]
    /\ EvictReturnsAddress(w)
    /\ UNCHANGED <<idOf, vip, auth, lease, locals>>
-----------------------------------------------------------------------------
(* release_session(key): whatever session has the key now leaves the table;  *)
(* then, each under its own lock, the route and the pool; then the flags.    *)

Detach(t, k, back) ==
    IF table[k] = None
    THEN pc' = [pc EXCEPT ![t] = back] /\ UNCHANGED <<table, dead>>
    ELSE /\ table' = [table EXCEPT ![k] = None]
         /\ dead' = [dead EXCEPT ![t] = table[k]]
         /\ pc' = [pc EXCEPT ![t] = "unroute"]

Unroute(t) ==
    /\ pc[t] = "unroute"
    /\ route' = [v \in Vips |-> IF v = vip[dead[t]] THEN None ELSE route[v]]
    /\ pc' = [pc EXCEPT ![t] = IF vip[dead[t]] = None THEN "flag" ELSE "free"]
    /\ UNCHANGED <<table, objects, used, lease, me, todo, dead>>

Retire(t) ==
    /\ released' = [released EXCEPT ![dead[t]] = TRUE]
    /\ auth' = [auth EXCEPT ![dead[t]] = FALSE]
    /\ dead' = [dead EXCEPT ![t] = None]
    /\ pc' = [pc EXCEPT ![t] = IF me[t] = None THEN "idle" ELSE "kick"]

(* The session had no address when Unroute looked: only the flags.           *)
Flag(t) ==
    /\ pc[t] = "flag"
    /\ Retire(t)
    /\ UNCHANGED <<table, keyOf, idOf, vip, conn, addresses, me, todo>>

(* The pool takes the address back and the flags follow: nobody looks at     *)
(* them in between, the session being out of the table.                     *)
FreeAndFlag(t) ==
    /\ pc[t] = "free"
    /\ used' = used \ {vip[dead[t]]}
    /\ Retire(t)
    /\ UNCHANGED <<table, keyOf, idOf, vip, conn, route, lease, me, todo>>
-----------------------------------------------------------------------------
(* handle_identity, from the moment the identity of client c is accepted.    *)

(* The frame reaches the handler: the session is the one get_or_create found *)
(* (UDP) or the one of the connection (TCP), and not released yet.           *)
Reachable(o) == IF IsTcp(o) THEN conn[o] ELSE table[keyOf[o]] = o

BeginIdentity(t, o, c) ==
    /\ pc[t] = "idle"
    /\ keyOf[o] # None /\ t = Server(keyOf[o])
    /\ Reachable(o) /\ ~released[o] /\ ~auth[o]
    /\ idOf[o] \in {None, c}
    /\ idOf' = [idOf EXCEPT ![o] = c]
    /\ me' = [me EXCEPT ![t] = o]
    /\ pc' = [pc EXCEPT ![t] = "scan"]
    /\ UNCHANGED <<table, keyOf, vip, auth, released, conn, addresses, todo, dead>>

(* Under the lock: the other sessions of the same public key.               *)
SameIdentityAuthenticated(o) == {w \in InTable \ {o} : idOf[w] = idOf[o] /\ auth[w]}
SameIdentity(o) == {w \in InTable \ {o} : idOf[w] = idOf[o]}

Scan(t) ==
    /\ pc[t] = "scan"
    /\ todo' = [todo EXCEPT ![t] = SameIdentity(me[t])]
    /\ pc' = [pc EXCEPT ![t] = "kick"]
    /\ UNCHANGED <<table, objects, addresses, me, dead>>

Kick(t, w) ==
    /\ pc[t] = "kick" /\ w \in todo[t]
    /\ todo' = [todo EXCEPT ![t] = @ \ {w}]
    /\ Detach(t, keyOf[w], "kick")
    /\ UNCHANGED <<objects, addresses, me>>

(* allocate_virtual_ip: the address leased last time, else the one derived   *)
(* from the identity unless it is leased to somebody else, else a free one.  *)
(* The code looks at m_last_vip and at the pool under two locks; the address  *)
(* is given out only by a test-and-set of the pool, so what the earlier looks *)
(* can get wrong is which address is preferred, and they are one step here.  *)
LeasedElsewhere(c, v) == \E d \in Clients \ {c} : lease[d] = v
CandidatesTrustingLease(c) ==
    IF lease[c] # None THEN {lease[c]}
    ELSE IF HintOf[c] \notin used /\ ~LeasedElsewhere(c, HintOf[c]) THEN {HintOf[c]}
    ELSE Vips \ used
Candidates(c) ==
    IF lease[c] \in Vips \ used THEN {lease[c]}
    ELSE IF HintOf[c] \notin used /\ ~LeasedElsewhere(c, HintOf[c]) THEN {HintOf[c]}
    ELSE Vips \ used

Allocate(t) ==
    LET o == me[t] IN
    /\ pc[t] = "kick" /\ todo[t] = {} /\ vip[o] = None
    /\ \E v \in Candidates(idOf[o]) :
          /\ used' = used \cup {v}
          /\ lease' = [lease EXCEPT ![idOf[o]] = v]
          /\ vip' = [vip EXCEPT ![o] = v]
    /\ pc' = [pc EXCEPT ![t] = "publish"]
    /\ UNCHANGED <<table, keyOf, idOf, auth, released, conn, route, me, todo, dead>>

(* The pool is full: identity_deny, although the old sessions are gone.      *)
PoolFull(t) ==
    /\ pc[t] = "kick" /\ todo[t] = {} /\ vip[me[t]] = None
    /\ Candidates(idOf[me[t]]) = {}
    /\ pc' = [pc EXCEPT ![t] = "idle"]
    /\ me' = [me EXCEPT ![t] = None]
    /\ UNCHANGED <<table, objects, addresses, todo, dead>>

(* The downlink route, then the flags that let the client's traffic through. *)
Publish(t) ==
    /\ pc[t] = "publish"
    /\ route' = [route EXCEPT ![vip[me[t]]] = keyOf[me[t]]]
    /\ auth' = [auth EXCEPT ![me[t]] = TRUE]
    /\ me' = [me EXCEPT ![t] = None]
    /\ pc' = [pc EXCEPT ![t] = "idle"]
    /\ UNCHANGED <<table, keyOf, idOf, vip, released, conn, used, lease, todo, dead>>
-----------------------------------------------------------------------------
(* Taking sessions down.                                                   *)

(* heartbeat_work and send_work copy the table under the lock and look at    *)
(* the copies afterwards.                                                   *)
Snapshot(t, o) ==
    /\ t \in Janitors /\ pc[t] = "idle" /\ o \in InTable
    /\ todo' = [todo EXCEPT ![t] = {o}]
    /\ pc' = [pc EXCEPT ![t] = "condemn"]
    /\ UNCHANGED <<table, objects, addresses, me, dead>>

(* A time-out or the age limit: a TCP session is left to the event thread,   *)
(* which closes it when it sees tcp_drop.  It may close any connection at    *)
(* any time, for its peer may be gone, so the flag itself is left out.       *)
RequestDrop(t) ==
    /\ pc[t] = "condemn"
    /\ \E o \in todo[t] : IsTcp(o)
    /\ todo' = [todo EXCEPT ![t] = {}]
    /\ pc' = [pc EXCEPT ![t] = "idle"]
    /\ UNCHANGED <<table, objects, addresses, me, dead>>

(* The same for UDP; a blacklisted machine and a spent quota for both.       *)
Condemn(t) ==
    /\ pc[t] = "condemn"
    /\ \E o \in todo[t] : Detach(t, keyOf[o], "idle")
    /\ todo' = [todo EXCEPT ![t] = {}]
    /\ UNCHANGED <<objects, addresses, me>>

(* The peer says disconnect, or its traffic reaches the quota, on the thread *)
(* that serves it.  The disconnect of a TCP peer only requests the drop.     *)
PeerLeaves(t, o) ==
    /\ pc[t] = "idle"
    /\ keyOf[o] # None /\ t = Server(keyOf[o])
    /\ Reachable(o) /\ ~released[o]
    /\ Detach(t, keyOf[o], "idle")
    /\ UNCHANGED <<objects, addresses, me, todo>>

(* drop_conn: the event thread closes a connection, because it was asked to  *)
(* or because the peer is gone, and releases its session by key.             *)
DropConn(o) ==
    /\ pc["epoll"] = "idle" /\ conn[o]
    /\ conn' = [conn EXCEPT ![o] = FALSE]
    /\ Detach("epoll", keyOf[o], "idle")
    /\ UNCHANGED <<keyOf, idOf, vip, auth, released, addresses, me, todo>>

Authenticate(t) ==
    \/ \E o \in Objs, c \in Clients : BeginIdentity(t, o, c)
    \/ Scan(t)
    \/ \E w \in Objs : Kick(t, w)
    \/ Allocate(t)
    \/ PoolFull(t)
    \/ Publish(t)

Release(t) == Unroute(t) \/ FreeAndFlag(t) \/ Flag(t)

TakeDown(t) ==
    \/ \E o \in Objs : Snapshot(t, o) \/ PeerLeaves(t, o)
    \/ RequestDrop(t)
    \/ Condemn(t)

Next ==
    \/ \E o \in Objs, k \in Keys :
          \/ Admit(o, k)
          \/ \E w \in Objs : EvictAndAdmit(o, k, w)
    \/ \E t \in Threads : Authenticate(t) \/ Release(t) \/ TakeDown(t)
    \/ \E o \in Objs : DropConn(o)

Spec == Init /\ [][Next]_vars
-----------------------------------------------------------------------------
PCs == {"idle", "scan", "kick", "publish", "condemn", "unroute", "free", "flag"}

(* The state is of the expected shape, and the table holds a session under   *)
(* its own peer key.                                                        *)
TypeOK ==
    /\ table \in [Keys -> Objs \cup {None}]
    /\ keyOf \in [Objs -> Keys \cup {None}]
    /\ idOf \in [Objs -> Clients \cup {None}]
    /\ vip \in [Objs -> Vips \cup {None}]
    /\ auth \in [Objs -> BOOLEAN]
    /\ released \in [Objs -> BOOLEAN]
    /\ conn \in [Objs -> BOOLEAN]
    /\ used \subseteq Vips
    /\ route \in [Vips -> Keys \cup {None}]
    /\ lease \in [Clients -> Vips \cup {None}]
    /\ pc \in [Threads -> PCs]
    /\ me \in [Threads -> Objs \cup {None}]
    /\ todo \in [Threads -> SUBSET Objs]
    /\ dead \in [Threads -> Objs \cup {None}]
    /\ \A k \in Keys : table[k] # None => keyOf[table[k]] = k

(* Two sessions in the table never have the same virtual address, and an     *)
(* address a session has is never free in the pool, whatever threads kick,   *)
(* time out, evict and authenticate at the same time.                       *)
AddressExclusive ==
    \A a, b \in InTable :
        vip[a] # None => vip[a] \in used /\ (a # b => vip[a] # vip[b])

(* "One key keeps only its latest session": two sessions in the table that   *)
(* are authenticated have different public keys, also when the UDP thread    *)
(* and the TCP thread authenticate the same client at once.                  *)
OneSessionPerIdentity ==
    \A a, b \in InTable : auth[a] /\ auth[b] /\ a # b => idOf[a] # idOf[b]

(* "A released session must not take an address again, or the pool leaks":   *)
(* every address in use belongs to a session in the table or to one that a   *)
(* thread is taking down or authenticating right now.  False of the code     *)
(* (README, section 8).                                                      *)
NoAddressLeaks ==
    \A v \in used :
        \/ \E o \in InTable : vip[o] = v
        \/ \E t \in Threads : dead[t] # None /\ vip[dead[t]] = v
        \/ \E t \in Threads : me[t] # None /\ vip[me[t]] = v

(* "Nor contend for one address with the session that kicked it": the data   *)
(* of an authenticated session finds it, that is, forward_tun_packet looks   *)
(* up the route of its address and meets its peer key.                      *)
AuthedIsReachable ==
    \A o \in InTable : auth[o] => route[vip[o]] = keyOf[o]
=============================================================================
