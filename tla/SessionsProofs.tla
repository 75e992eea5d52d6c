----------------------------- MODULE SessionsProofs -----------------------------
(***************************************************************************)
(* The properties of the session table for any number of sessions, peers,    *)
(* clients, addresses and janitor threads: TypeOK, AddressExclusive and      *)
(* OneSessionPerIdentity are invariants of Sessions.                         *)
(***************************************************************************)
EXTENDS Sessions, TLAPS

(* o is in the table, under its own key.                                    *)
Here(o) == keyOf[o] # None /\ table[keyOf[o]] = o

(* What the program counters of the threads say about their locals, and      *)
(* that an object no constructor ran for is nowhere.                        *)
Releasing == {"unroute", "free", "flag"}
Locals ==
    /\ \A t \in Threads :
          /\ dead[t] # None <=> pc[t] \in Releasing
          /\ dead[t] # None => keyOf[dead[t]] # None /\ ~Here(dead[t])
          /\ me[t] # None => keyOf[me[t]] # None /\ idOf[me[t]] # None
          /\ me[t] # None => t = Server(keyOf[me[t]]) /\ ~auth[me[t]]
          /\ pc[t] \in {"scan", "kick", "publish"} => me[t] # None
          /\ pc[t] \in {"idle", "condemn"} => me[t] = None
          /\ \A o \in todo[t] : keyOf[o] # None
          /\ pc[t] = "publish" => todo[t] = {} /\ vip[me[t]] # None
    /\ \A t, u \in Threads : t # u /\ dead[t] # None => dead[t] # dead[u]
    /\ \A o \in Objs : keyOf[o] = None => vip[o] = None /\ ~auth[o] /\ ~conn[o]

(* A session keeps its claim on its address until the pool has it back.      *)
Claims(o) ==
    \/ Here(o)
    \/ \E t \in Threads : dead[t] = o /\ pc[t] \in {"unroute", "free"}
Addresses ==
    \A a, b \in Objs :
        Claims(a) /\ vip[a] # None =>
            vip[a] \in used /\ (Claims(b) /\ a # b => vip[a] # vip[b])

(* Of two sessions of one identity that have both looked for the other, one  *)
(* is on the other's list of sessions to kick.                              *)
Scanned(o) ==
    auth[o] \/ \E t \in Threads : me[t] = o /\ pc[t] # "scan"
Identities ==
    \A a, b \in Objs :
        Here(a) /\ Here(b) /\ Scanned(a) /\ Scanned(b) /\ a # b /\ idOf[a] = idOf[b] =>
            \E t \in Threads :
                \/ me[t] = a /\ b \in todo[t]
                \/ me[t] = b /\ a \in todo[t]

IInv == TypeOK /\ Locals /\ Addresses /\ Identities
-----------------------------------------------------------------------------
USE DEF Threads, PCs, Server, IsTcp, objects, addresses, locals

LEMMA InTableHere ==
    ASSUME TypeOK
    PROVE  /\ InTable \subseteq Objs
           /\ \A o \in Objs : o \in InTable <=> Here(o)
BY SessionsAssumption DEF SessionsAssumption, TypeOK, InTable, Here

LEMMA InitIInv == Init => IInv
<1> SUFFICES ASSUME Init PROVE IInv
    OBVIOUS
<1> USE SessionsAssumption DEF SessionsAssumption, Init
<1>1. TypeOK
    BY DEF TypeOK
<1>2. Locals
    BY DEF Locals, Releasing, Here
<1>3. Addresses
    BY DEF Addresses, Claims, Here
<1>4. Identities
    BY DEF Identities, Here
<1> QED
    BY <1>1, <1>2, <1>3, <1>4 DEF IInv

(* Detach empties at most one slot of the table, and gives the session that  *)
(* was there to the thread.                                                 *)
LEMMA DetachShape ==
    ASSUME TypeOK, NEW t \in Threads, NEW k \in Keys, NEW back \in PCs,
           Detach(t, k, back)
    PROVE  /\ table' \in [Keys -> Objs \cup {None}]
           /\ dead' \in [Threads -> Objs \cup {None}]
           /\ pc' \in [Threads -> PCs]
           /\ \A j \in Keys : table'[j] \in {table[j], None}
           /\ table'[k] = None
<1> USE SessionsAssumption DEF SessionsAssumption, TypeOK
<1>1. CASE table[k] = None
    <2>1. pc' = [pc EXCEPT ![t] = back] /\ table' = table /\ dead' = dead
        BY <1>1 DEF Detach
    <2>2. pc' \in [Threads -> PCs]
        BY <2>1
    <2> QED
        BY <1>1, <2>1, <2>2
<1>2. CASE table[k] # None
    <2>1. /\ table' = [table EXCEPT ![k] = None]
          /\ dead' = [dead EXCEPT ![t] = table[k]]
          /\ pc' = [pc EXCEPT ![t] = "unroute"]
        BY <1>2 DEF Detach
    <2>2. table' \in [Keys -> Objs \cup {None}] /\ dead' \in [Threads -> Objs \cup {None}]
        BY <2>1
    <2> QED
        BY <2>1, <2>2
<1> QED
    BY <1>1, <1>2

LEMMA TypeStep ==
    ASSUME IInv, [Next]_vars
    PROVE  TypeOK'
<1> USE SessionsAssumption DEF SessionsAssumption, IInv, TypeOK, Locals, Releasing, Here
<1>1. \A o \in Objs, k \in Keys : Admit(o, k) => TypeOK'
    BY DEF Admit, NewPeer, Construct
<1>2. \A o, w \in Objs, k \in Keys : EvictAndAdmit(o, k, w) => TypeOK'
    BY DEF EvictAndAdmit, NewPeer, Construct, EvictReturnsAddress, Pending
<1>3. \A t \in Threads, o \in Objs, c \in Clients : BeginIdentity(t, o, c) => TypeOK'
    BY DEF BeginIdentity, Reachable
<1>4. \A t \in Threads : Scan(t) => TypeOK'
    BY InTableHere DEF Scan, SameIdentity
<1>5. \A t \in Threads, w \in Objs : Kick(t, w) => TypeOK'
    BY DetachShape DEF Kick
<1>6. \A t \in Threads : Allocate(t) => TypeOK'
    BY DEF Allocate, Candidates
<1>7. \A t \in Threads : PoolFull(t) => TypeOK'
    BY DEF PoolFull
<1>8. \A t \in Threads : Publish(t) => TypeOK'
    BY DEF Publish
<1>9. \A t \in Threads : Unroute(t) => TypeOK'
    BY DEF Unroute
<1>10. \A t \in Threads : FreeAndFlag(t) => TypeOK'
    BY DEF FreeAndFlag, Retire
<1>11. \A t \in Threads : Flag(t) => TypeOK'
    BY DEF Flag, Retire
<1>12. \A t \in Threads, o \in Objs : Snapshot(t, o) => TypeOK'
    BY DEF Snapshot
<1>13. \A t \in Threads, o \in Objs : PeerLeaves(t, o) => TypeOK'
    BY DetachShape DEF PeerLeaves
<1>14. \A t \in Threads : RequestDrop(t) => TypeOK'
    BY DEF RequestDrop
<1>15. \A t \in Threads : Condemn(t) => TypeOK'
    BY DetachShape DEF Condemn
<1>16. \A o \in Objs : DropConn(o) => TypeOK'
    BY DetachShape DEF DropConn
<1>17. UNCHANGED vars => TypeOK'
    BY DEF vars
<1> QED
    BY <1>1, <1>2, <1>3, <1>4, <1>5, <1>6, <1>7, <1>8, <1>9, <1>10, <1>11, <1>12, <1>13, <1>14, <1>15, <1>16, <1>17 DEF Next, Authenticate, Release, TakeDown

LEMMA LocalsStep ==
    ASSUME IInv, [Next]_vars
    PROVE  Locals'
<1> TypeOK'
    BY TypeStep
<1> USE SessionsAssumption DEF SessionsAssumption, IInv, TypeOK, Locals, Releasing, Here
<1>1. \A o \in Objs, k \in Keys : Admit(o, k) => Locals'
    BY DEF Admit, NewPeer, Construct
<1>2. \A o, w \in Objs, k \in Keys : EvictAndAdmit(o, k, w) => Locals'
    BY InTableHere DEF EvictAndAdmit, NewPeer, Construct, EvictReturnsAddress, OfIp, Pending
<1>3. \A t \in Threads, o \in Objs, c \in Clients : BeginIdentity(t, o, c) => Locals'
    BY DEF BeginIdentity, Reachable
<1>4. \A t \in Threads : Scan(t) => Locals'
    BY InTableHere DEF Scan, SameIdentity
<1>5. \A t \in Threads, w \in Objs : Kick(t, w) => Locals'
    BY DEF Kick, Detach
<1>6. \A t \in Threads : Allocate(t) => Locals'
    BY DEF Allocate, Candidates
<1>7. \A t \in Threads : PoolFull(t) => Locals'
    BY DEF PoolFull
<1>8. \A t \in Threads : Publish(t) => Locals'
    BY DEF Publish
<1>9. \A t \in Threads : Unroute(t) => Locals'
    BY DEF Unroute
<1>10. \A t \in Threads : FreeAndFlag(t) => Locals'
    BY DEF FreeAndFlag, Retire
<1>11. \A t \in Threads : Flag(t) => Locals'
    BY DEF Flag, Retire
<1>12. \A t \in Threads, o \in Objs : Snapshot(t, o) => Locals'
    BY InTableHere DEF Snapshot
<1>13. \A t \in Threads, o \in Objs : PeerLeaves(t, o) => Locals'
    BY DEF PeerLeaves, Reachable, Detach
<1>14. \A t \in Threads : RequestDrop(t) => Locals'
    BY DEF RequestDrop
<1>15. \A t \in Threads : Condemn(t) => Locals'
    BY DEF Condemn, Detach
<1>16. \A o \in Objs : DropConn(o) => Locals'
    BY DEF DropConn, Detach
<1>17. UNCHANGED vars => Locals'
    BY DEF vars
<1> QED
    BY <1>1, <1>2, <1>3, <1>4, <1>5, <1>6, <1>7, <1>8, <1>9, <1>10, <1>11, <1>12, <1>13, <1>14, <1>15, <1>16, <1>17 DEF Next, Authenticate, Release, TakeDown

LEMMA AddressesStep ==
    ASSUME IInv, [Next]_vars
    PROVE  Addresses'
<1> TypeOK' /\ Locals'
    BY TypeStep, LocalsStep
<1> USE SessionsAssumption DEF SessionsAssumption, IInv, TypeOK, Locals, Releasing, Here, Addresses, Claims
<1>1. \A o \in Objs, k \in Keys : Admit(o, k) => Addresses'
    BY DEF Admit, NewPeer, Construct
<1>2. \A o, w \in Objs, k \in Keys : EvictAndAdmit(o, k, w) => Addresses'
    BY InTableHere DEF EvictAndAdmit, NewPeer, Construct, EvictReturnsAddress, OfIp, Pending
<1>3. \A t \in Threads, o \in Objs, c \in Clients : BeginIdentity(t, o, c) => Addresses'
    BY DEF BeginIdentity, Reachable
<1>4. \A t \in Threads : Scan(t) => Addresses'
    BY InTableHere DEF Scan, SameIdentity
<1>5. \A t \in Threads, w \in Objs : Kick(t, w) => Addresses'
    BY DEF Kick, Detach
<1>6. \A t \in Threads : Allocate(t) => Addresses'
    BY DEF Allocate, Candidates
<1>7. \A t \in Threads : PoolFull(t) => Addresses'
    BY DEF PoolFull
<1>8. \A t \in Threads : Publish(t) => Addresses'
    BY DEF Publish
<1>9. \A t \in Threads : Unroute(t) => Addresses'
    BY DEF Unroute
<1>10. \A t \in Threads : FreeAndFlag(t) => Addresses'
    BY DEF FreeAndFlag, Retire
<1>11. \A t \in Threads : Flag(t) => Addresses'
    BY DEF Flag, Retire
<1>12. \A t \in Threads, o \in Objs : Snapshot(t, o) => Addresses'
    BY InTableHere DEF Snapshot
<1>13. \A t \in Threads, o \in Objs : PeerLeaves(t, o) => Addresses'
    BY DEF PeerLeaves, Reachable, Detach
<1>14. \A t \in Threads : RequestDrop(t) => Addresses'
    BY DEF RequestDrop
<1>15. \A t \in Threads : Condemn(t) => Addresses'
    BY DEF Condemn, Detach
<1>16. \A o \in Objs : DropConn(o) => Addresses'
    BY DEF DropConn, Detach
<1>17. UNCHANGED vars => Addresses'
    BY DEF vars
<1> QED
    BY <1>1, <1>2, <1>3, <1>4, <1>5, <1>6, <1>7, <1>8, <1>9, <1>10, <1>11, <1>12, <1>13, <1>14, <1>15, <1>16, <1>17 DEF Next, Authenticate, Release, TakeDown

LEMMA IdentitiesStep ==
    ASSUME IInv, [Next]_vars
    PROVE  Identities'
<1> TypeOK' /\ Locals'
    BY TypeStep, LocalsStep
<1> USE SessionsAssumption DEF SessionsAssumption, IInv, TypeOK, Locals, Releasing, Here, Scanned, Identities
<1>1. \A o \in Objs, k \in Keys : Admit(o, k) => Identities'
    <2> SUFFICES ASSUME NEW o \in Objs, NEW k \in Keys, Admit(o, k)
                 PROVE  Identities'
        OBVIOUS
    <2> USE DEF Admit, NewPeer, Construct
    <2>1. ~Scanned(o)'
        OBVIOUS
    <2>2. \A a \in Objs \ {o} : Here(a)' => Here(a)
        OBVIOUS
    <2>3. \A a \in Objs \ {o} : Scanned(a)' => Scanned(a)
        OBVIOUS
    <2> QED
        BY <2>1, <2>2, <2>3 DEF Identities
<1>2. \A o, w \in Objs, k \in Keys : EvictAndAdmit(o, k, w) => Identities'
    <2> SUFFICES ASSUME NEW o \in Objs, NEW w \in Objs, NEW k \in Keys,
                        EvictAndAdmit(o, k, w)
                 PROVE  Identities'
        OBVIOUS
    <2> USE DEF EvictAndAdmit, NewPeer, Construct
    <2>1. ~Scanned(o)'
        OBVIOUS
    <2>2. Here(w)
        BY InTableHere DEF Pending
    <2>3. \A a \in Objs \ {o} : Here(a)' => Here(a)
        BY <2>2
    <2>4. \A a \in Objs \ {o} : Scanned(a)' => Scanned(a)
        OBVIOUS
    <2> QED
        BY <2>1, <2>3, <2>4 DEF Identities
<1>3. \A t \in Threads, o \in Objs, c \in Clients : BeginIdentity(t, o, c) => Identities'
    BY DEF BeginIdentity, Reachable
<1>4. \A t \in Threads : Scan(t) => Identities'
    BY InTableHere DEF Scan, SameIdentity
<1>5. \A t \in Threads, w \in Objs : Kick(t, w) => Identities'
    <2> SUFFICES ASSUME NEW t \in Threads, NEW w \in Objs, Kick(t, w)
                 PROVE  Identities'
        OBVIOUS
    <2> USE DEF Kick
    <2>1. ~Here(w)'
        BY DetachShape
    <2>2. \A a \in Objs : Here(a)' => Here(a)
        BY DetachShape
    <2>3. \A a \in Objs : Scanned(a)' => Scanned(a)
        BY DEF Detach
    <2>4. \A u \in Threads : todo[u] \ {w} \subseteq todo'[u]
        OBVIOUS
    <2> QED
        BY <2>1, <2>2, <2>3, <2>4 DEF Identities
<1>6. \A t \in Threads : Allocate(t) => Identities'
    BY DEF Allocate, Candidates
<1>7. \A t \in Threads : PoolFull(t) => Identities'
    BY DEF PoolFull
<1>8. \A t \in Threads : Publish(t) => Identities'
    <2> SUFFICES ASSUME NEW t \in Threads, Publish(t)
                 PROVE  Identities'
        OBVIOUS
    <2> USE DEF Publish
    <2>1. todo[t] = {} /\ me[t] \in Objs
        OBVIOUS
    <2>2. \A a \in Objs : (Here(a)' => Here(a)) /\ (Scanned(a)' => Scanned(a))
        BY <2>1
    <2>3. \A u \in Threads \ {t} : me'[u] = me[u] /\ todo'[u] = todo[u]
        OBVIOUS
    <2> QED
        BY <2>1, <2>2, <2>3 DEF Identities
<1>9. \A t \in Threads : Unroute(t) => Identities'
    BY DEF Unroute
<1>10. \A t \in Threads : FreeAndFlag(t) => Identities'
    BY DEF FreeAndFlag, Retire
<1>11. \A t \in Threads : Flag(t) => Identities'
    <2> SUFFICES ASSUME NEW t \in Threads, Flag(t)
                 PROVE  Identities'
        OBVIOUS
    <2> USE DEF Flag, Retire
    <2>1. \A a \in Objs : Here(a)' => Here(a)
        OBVIOUS
    <2>2. \A a \in Objs : Scanned(a)' => Scanned(a)
        OBVIOUS
    <2> QED
        BY <2>1, <2>2 DEF Identities
<1>12. \A t \in Threads, o \in Objs : Snapshot(t, o) => Identities'
    BY InTableHere DEF Snapshot
<1>13. \A t \in Threads, o \in Objs : PeerLeaves(t, o) => Identities'
    BY DEF PeerLeaves, Reachable, Detach
<1>14. \A t \in Threads : RequestDrop(t) => Identities'
    BY DEF RequestDrop
<1>15. \A t \in Threads : Condemn(t) => Identities'
    <2> SUFFICES ASSUME NEW t \in Threads, Condemn(t)
                 PROVE  Identities'
        OBVIOUS
    <2> USE DEF Condemn
    <2>1. \A a \in Objs : Here(a)' => Here(a)
        BY DetachShape
    <2>2. \A a \in Objs : Scanned(a)' => Scanned(a)
        BY DEF Detach
    <2>3. me[t] = None /\ \A u \in Threads \ {t} : todo'[u] = todo[u]
        OBVIOUS
    <2> QED
        BY <2>1, <2>2, <2>3 DEF Identities
<1>16. \A o \in Objs : DropConn(o) => Identities'
    BY DEF DropConn, Detach
<1>17. UNCHANGED vars => Identities'
    BY DEF vars
<1> QED
    BY <1>1, <1>2, <1>3, <1>4, <1>5, <1>6, <1>7, <1>8, <1>9, <1>10, <1>11, <1>12, <1>13, <1>14, <1>15, <1>16, <1>17 DEF Next, Authenticate, Release, TakeDown

LEMMA StepIInv == IInv /\ [Next]_vars => IInv'
BY TypeStep, LocalsStep, AddressesStep, IdentitiesStep DEF IInv

(* The locals of the threads, the claims on addresses and the lists of       *)
(* sessions to kick stay consistent in every behaviour of the server.        *)
THEOREM TableInvariant == Spec => []IInv
BY InitIInv, StepIInv, PTL DEF Spec

(* The state keeps its shape, and every session is under its own peer key.   *)
THEOREM TypeCorrect == Spec => []TypeOK
<1>1. IInv => TypeOK
    BY DEF IInv
<1> QED
    BY <1>1, TableInvariant, PTL

(* No two sessions in the table share a virtual address, and none has one    *)
(* that the pool could hand out (allocate_virtual_ip, release_session).      *)
THEOREM AddressSafety == Spec => []AddressExclusive
<1>1. IInv => AddressExclusive
    <2> SUFFICES ASSUME IInv PROVE AddressExclusive
        OBVIOUS
    <2>1. InTable \subseteq Objs /\ \A o \in InTable : Claims(o)
        BY InTableHere DEF IInv, Claims
    <2> QED
        BY <2>1 DEF IInv, Addresses, AddressExclusive
<1> QED
    BY <1>1, TableInvariant, PTL

(* One public key has at most one authenticated session in the table: of two *)
(* that authenticate at once, the one that looks last sees the other.        *)
THEOREM IdentitySafety == Spec => []OneSessionPerIdentity
<1>1. IInv => OneSessionPerIdentity
    <2> SUFFICES ASSUME IInv, NEW a \in InTable, NEW b \in InTable,
                        auth[a], auth[b], a # b, idOf[a] = idOf[b]
                 PROVE  FALSE
        BY DEF OneSessionPerIdentity
    <2>1. a \in Objs /\ b \in Objs /\ Here(a) /\ Here(b)
        BY InTableHere DEF IInv
    <2>2. PICK t \in Threads : \/ me[t] = a /\ b \in todo[t]
                               \/ me[t] = b /\ a \in todo[t]
        BY <2>1 DEF IInv, Identities, Scanned
    <2> QED
        BY <2>1, <2>2, SessionsAssumption DEF SessionsAssumption, IInv, Locals
<1> QED
    BY <1>1, TableInvariant, PTL
=============================================================================
