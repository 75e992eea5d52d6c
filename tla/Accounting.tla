------------------------------- MODULE Accounting -------------------------------
(***************************************************************************)
(* The metering of one managed client (a row of the table trials): bytes are *)
(* counted on the session by the thread that serves it and by send_work,     *)
(* collected by heartbeat_work and release_session, gathered in              *)
(* ServiceDB::m_pendingUsed and written to used_bytes by flush.  A session   *)
(* that reaches the quota is cut by the thread that counted the byte.        *)
(*                                                                         *)
(* A byte stands for a packet.  The client's sessions come one after the     *)
(* other: a new one kicks the old one out after it has read used_bytes.      *)
(***************************************************************************)
EXTENDS Integers, FiniteSets, Functions

CONSTANTS
    Sess,       \* the client's sessions
    Quota,      \* trials.quota_bytes
    MaxBytes,   \* bound: bytes carried in a behaviour
    MaxFailures,\* bound: sqlite statements that fail
    None

ASSUME AccountingAssumption ==
    /\ IsFiniteSet(Sess)
    /\ Quota \in Nat \ {0} /\ MaxBytes \in Nat /\ MaxFailures \in Nat
    /\ None \notin Sess

Threads == {"serve", "send", "heartbeat"}

VARIABLES
    used,       \* trials.used_bytes
    pending,    \* m_pendingUsed[client_id]
    state,      \* of a session: new, on (in the table), off (taken out), gone (flagged)
    base,       \* svc_used_base
    bytes,      \* svc_bytes
    over,       \* svc_over
    pc, at,     \* what each thread does next, and to which session
    flushed,    \* what it does after ServiceDB::flush
    released,   \* what it does after release_session
    entering,   \* the session that is admitted once the old ones are kicked out
    batch,      \* what a thread has swapped out of m_pendingUsed
    carried,    \* history: bytes each session carried
    failed,     \* history: bytes sqlite did not write
    failures    \* history: how often it did not

db == <<used, pending, batch, failed, failures>>
sessions == <<state, base, bytes, over, carried>>
threads == <<pc, at, flushed, released>>
vars == <<db, sessions, threads, entering>>

Init ==
    /\ used = 0 /\ pending = 0 /\ failed = 0 /\ failures = 0
    /\ state = [s \in Sess |-> "new"]
    /\ base = [s \in Sess |-> 0]
    /\ bytes = [s \in Sess |-> 0]
    /\ carried = [s \in Sess |-> 0]
    /\ over = [s \in Sess |-> FALSE]
    /\ pc = [t \in Threads |-> "idle"]
    /\ at = [t \in Threads |-> None]
    /\ flushed = [t \in Threads |-> "idle"]
    /\ released = [t \in Threads |-> "idle"]
    /\ batch = [t \in Threads |-> 0]
    /\ entering = None

(* Thread t goes on with l, still at work on its session; it calls           *)
(* ServiceDB::flush or release_session(s), to go on with l after that; or it *)
(* returns from the one or the other.                                       *)
Goto(t, l) ==
    /\ pc' = [pc EXCEPT ![t] = l]
    /\ at' = [at EXCEPT ![t] = IF l = "idle" THEN None ELSE @]
    /\ UNCHANGED <<flushed, released>>
Flush(t, l) ==
    /\ pc' = [pc EXCEPT ![t] = "swap"]
    /\ flushed' = [flushed EXCEPT ![t] = l]
    /\ UNCHANGED <<at, released>>
ReleaseSession(t, s, l) ==
    /\ pc' = [pc EXCEPT ![t] = "takeout"]
    /\ at' = [at EXCEPT ![t] = s]
    /\ released' = [released EXCEPT ![t] = l]
    /\ UNCHANGED flushed
FlushReturns(t) ==
    /\ pc' = [pc EXCEPT ![t] = flushed[t]]
    /\ at' = [at EXCEPT ![t] = IF flushed[t] = "idle" THEN None ELSE @]
    /\ flushed' = [flushed EXCEPT ![t] = "idle"]
    /\ UNCHANGED released
ReleaseReturns(t) ==
    /\ pc' = [pc EXCEPT ![t] = released[t]]
    /\ at' = [at EXCEPT ![t] = None]
    /\ released' = [released EXCEPT ![t] = "idle"]
    /\ UNCHANGED flushed
-----------------------------------------------------------------------------
(* handle_identity: the trial is read and refused at the quota; then the old *)
(* sessions are kicked out, then the new one is published.                   *)
Login(s) ==
    /\ pc["serve"] = "idle" /\ state[s] = "new"
    /\ used < Quota
    /\ base' = [base EXCEPT ![s] = used]
    /\ entering' = s
    /\ Goto("serve", "kick")
    /\ UNCHANGED <<db, state, bytes, over, carried>>

KickOld(s) ==
    /\ pc["serve"] = "kick" /\ state[s] = "on"
    /\ ReleaseSession("serve", s, "kick")
    /\ UNCHANGED <<db, sessions, entering>>

Enter ==
    /\ pc["serve"] = "kick" /\ \A s \in Sess : state[s] # "on"
    /\ state' = [state EXCEPT ![entering] = "on"]
    /\ entering' = None
    /\ Goto("serve", "idle")
    /\ UNCHANGED <<db, base, bytes, over, carried>>
-----------------------------------------------------------------------------
(* A packet, upwards on the serving thread or downwards on send_work: the    *)
(* session is found in the table and its flags are looked at, then it is     *)
(* sent on, then the bytes are counted, then the quota is checked.           *)
Start(t, s) ==
    /\ t \in {"serve", "send"} /\ pc[t] = "idle"
    /\ state[s] \in {"on", "off"}
    /\ SumFunction(carried) < MaxBytes
    /\ pc' = [pc EXCEPT ![t] = "count"]
    /\ at' = [at EXCEPT ![t] = s]
    /\ UNCHANGED <<db, sessions, flushed, released, entering>>

Count(t) ==
    /\ pc[t] = "count"
    /\ bytes' = [bytes EXCEPT ![at[t]] = @ + 1]
    /\ carried' = [carried EXCEPT ![at[t]] = @ + 1]
    /\ Goto(t, "check")
    /\ UNCHANGED <<db, state, base, over, entering>>

(* The code reads svc_over and sets it without a lock: two threads that pass  *)
(* the check together cut the session twice, which release_session tolerates *)
(* as it tolerates the cut that meets a time-out; the look is one step here.  *)
AboveQuota(s) == base[s] + bytes[s] > Quota
AtQuota(s) == base[s] + bytes[s] >= Quota

Check(t) ==
    /\ pc[t] = "check"
    /\ IF ~over[at[t]] /\ AtQuota(at[t])
       THEN over' = [over EXCEPT ![at[t]] = TRUE] /\ Flush(t, "cut")
       ELSE UNCHANGED over /\ Goto(t, "idle")
    /\ UNCHANGED <<db, state, base, bytes, carried, entering>>

Cut(t) ==
    /\ pc[t] = "cut"
    /\ ReleaseSession(t, at[t], "idle")
    /\ UNCHANGED <<db, sessions, entering>>
-----------------------------------------------------------------------------
(* release_session: out of the table, the rest of the bytes to m_pendingUsed *)
(* and flushed, then the flags.                                             *)
TakeOut(t) ==
    LET s == at[t] IN
    /\ pc[t] = "takeout"
    /\ IF state[s] = "on"
       THEN state' = [state EXCEPT ![s] = "off"] /\ Goto(t, "settle")
       ELSE UNCHANGED state /\ ReleaseReturns(t)
    /\ UNCHANGED <<db, base, bytes, over, carried, entering>>

ToPendingTwice(s) == pending' = pending + bytes[s] /\ bytes' = bytes
ToPending(s) ==
    /\ pending' = pending + bytes[s]
    /\ bytes' = [bytes EXCEPT ![s] = 0]

Settle(t) ==
    LET s == at[t] IN
    /\ pc[t] = "settle"
    /\ ToPending(s)
    /\ IF bytes[s] > 0 THEN Flush(t, "flag") ELSE Goto(t, "flag")
    /\ UNCHANGED <<used, batch, failed, failures, state, base, over, carried, entering>>

FlagForgotten(t) ==
    /\ pc[t] = "flag"
    /\ ReleaseReturns(t)
    /\ UNCHANGED <<db, sessions, entering>>
Flag(t) ==
    /\ pc[t] = "flag"
    /\ state' = [state EXCEPT ![at[t]] = "gone"]
    /\ ReleaseReturns(t)
    /\ UNCHANGED <<db, base, bytes, over, carried, entering>>

(* ServiceDB::flush: the pending sums leave the map under m_mu and are       *)
(* written after it; a statement that fails is not tried again.              *)
Swap(t) ==
    /\ pc[t] = "swap"
    /\ batch' = [batch EXCEPT ![t] = pending]
    /\ pending' = 0
    /\ Goto(t, "write")
    /\ UNCHANGED <<used, failed, failures, sessions, entering>>

Write(t) ==
    /\ pc[t] = "write"
    /\ \/ /\ used' = used + batch[t]
          /\ UNCHANGED <<failed, failures>>
       \/ /\ batch[t] > 0 /\ failures < MaxFailures
          /\ failed' = failed + batch[t] /\ failures' = failures + 1
          /\ UNCHANGED used
    /\ batch' = [batch EXCEPT ![t] = 0]
    /\ FlushReturns(t)
    /\ UNCHANGED <<pending, sessions, entering>>

(* One beat of heartbeat_work: under m_sessions_mutex the counter of the     *)
(* session in the table goes to m_pendingUsed; a blacklisted client's        *)
(* session is released; everything is flushed.  A session whose heartbeat    *)
(* timed out is released later in the beat.                                 *)
Beat(s) ==
    /\ pc["heartbeat"] = "idle" /\ state[s] = "on"
    /\ ToPending(s)
    /\ \/ ReleaseSession("heartbeat", s, "beat")
       \/ Flush("heartbeat", "idle")
    /\ UNCHANGED <<used, batch, failed, failures, state, base, over, carried, entering>>

FlushBeat ==
    /\ pc["heartbeat"] = "beat"
    /\ Flush("heartbeat", "idle")
    /\ UNCHANGED <<db, sessions, entering>>

TimeOut(s) ==
    /\ pc["heartbeat"] = "idle" /\ state[s] = "on"
    /\ ReleaseSession("heartbeat", s, "idle")
    /\ UNCHANGED <<db, sessions, entering>>

Continue(t) ==
    \/ Count(t) \/ Check(t) \/ Cut(t)
    \/ TakeOut(t) \/ Settle(t) \/ Flag(t) \/ Swap(t) \/ Write(t)

Next ==
    \/ \E s \in Sess : Login(s) \/ KickOld(s) \/ Beat(s) \/ TimeOut(s)
    \/ Enter \/ FlushBeat
    \/ \E t \in Threads, s \in Sess : Start(t, s)
    \/ \E t \in Threads : Continue(t)

Spec == Init /\ [][Next]_vars

(* A thread that is in the middle of something goes on with it.              *)
FairSpec == Spec /\ \A t \in Threads : WF_vars(Continue(t))
-----------------------------------------------------------------------------
(* The state is of the expected shape; the serving thread is in the middle   *)
(* of an admission exactly when a session is entering, and a thread holds    *)
(* swapped-out bytes only while it writes them.                             *)
TypeOK ==
    /\ used \in Nat /\ pending \in Nat /\ failed \in Nat
    /\ failures \in 0..MaxFailures
    /\ state \in [Sess -> {"new", "on", "off", "gone"}]
    /\ base \in [Sess -> 0..(Quota - 1)]
    /\ bytes \in [Sess -> Nat]
    /\ carried \in [Sess -> Nat]
    /\ over \in [Sess -> BOOLEAN]
    /\ pc \in [Threads -> {"idle", "kick", "count", "check", "cut", "takeout", "settle",
                           "flag", "swap", "write", "beat"}]
    /\ at \in [Threads -> Sess \cup {None}]
    /\ flushed \in [Threads -> {"idle", "cut", "flag"}]
    /\ released \in [Threads -> {"idle", "kick", "beat"}]
    /\ batch \in [Threads -> Nat]
    /\ entering \in Sess \cup {None}
    /\ pc["serve"] = "kick" => entering # None
    /\ \A t \in Threads : batch[t] # 0 => pc[t] = "write"

(* No byte is billed twice, and none vanishes but by a failed write,         *)
(* whichever threads collect, flush and release at the same time: what the   *)
(* sessions carried is in used_bytes, in m_pendingUsed, in some thread's     *)
(* hands or still on a session.                                             *)
BilledOnce ==
    SumFunction(carried)
        = used + pending + failed + SumFunction(batch) + SumFunction(bytes)

(* Counted first, cut at once: when no thread is at work on a session in the *)
(* table, what it counted since the last beat is below its quota.            *)
AtWork(s) == \E t \in Threads : at[t] = s /\ pc[t] # "idle"
CounterUnderQuota ==
    \A s \in Sess : state[s] = "on" /\ ~AtWork(s) => base[s] + bytes[s] < Quota

(* A session that was found over its quota is released, whichever threads    *)
(* collect or release it at the same time.                                  *)
OverQuotaIsReleased ==
    \A s \in Sess : over[s] ~> state[s] = "gone"

(* "Bill first, then queue: a session over its quota is cut here and gets    *)
(* nothing more into the TUN" (UDP.cpp): no session that no thread is at     *)
(* work on stays in the table with the quota used up.                        *)
QuotaEnforced ==
    \A s \in Sess : state[s] = "on" /\ ~AtWork(s) => base[s] + carried[s] < Quota
=============================================================================
