------------------------------- MODULE ClientNet -------------------------------
(***************************************************************************)
(* What the desktop client changes in the system it runs on while it is      *)
(* connected, and how it gives it back: the routes, the DNS settings of the  *)
(* network adapters and the policy of name resolution.  The threads are the  *)
(* one of AppBridge, the user interface's where it calls ClientApp directly, *)
(* and the worker of ReconnectManager, whose callbacks do the changes.  This *)
(* is the Windows client (DnsLeakGuard.cpp up to line 310).                  *)
(*                                                                         *)
(* The tunnel's adapter, and with it its default route, is gone with the     *)
(* process; the settings of the other adapters and the policy are not.       *)
(***************************************************************************)
EXTENDS Integers, FiniteSets

CONSTANTS
    Adapters,       \* the adapters other than the tunnel's
    Values,         \* lists of name servers a user may set by hand
    AppThreads,     \* threads that stop the client; "bridge" also starts it
    MaxRetries,     \* kMaxConnectRetries
    Split,          \* the routing mode is "split"
    MaxStarts,      \* bound: times the client is started
    MaxConnects,    \* bound: connections made
    MaxEdits        \* bound: changes the user makes

ASSUME ClientAssumption ==
    /\ "bridge" \in AppThreads /\ "worker" \notin AppThreads
    /\ {"dhcp", "hole", "unread"} \cap Values = {}
    /\ Split \in BOOLEAN
    /\ {MaxRetries, MaxStarts, MaxConnects, MaxEdits} \subseteq Nat

VARIABLES
    dns,            \* the name servers of each adapter
    policy,         \* DisableSmartNameResolution
    routes,
    orphans,        \* commands of watchdogs whose process has ended
    dogs,           \* commands of the watchdogs that wait for this one to end
    alive, inited,
    running,        \* ClientApp::m_running
    mgr,            \* there is a ReconnectManager
    mgrRun,         \* its m_running
    retries,
    proxy,          \* DnsProxy runs
    backup,         \* m_backup: what the adapters had
    oldPolicy,      \* m_policyOldValue, "absent" where m_policyKeyExisted is false
    at,             \* where each thread is
    why, todo,      \* restore: on whose behalf, and the adapters it has not done
    user,           \* what the user wants of each adapter
    lost,           \* adapters whose setting protect() could not read
    crashed,
    starts, connects, edits

os == <<dns, policy, routes, user>>
process == <<inited, running, mgr, mgrRun, retries, proxy, backup, oldPolicy, at, why, todo>>
vars == <<os, orphans, dogs, alive, process, lost, crashed, starts, connects, edits>>

Threads == AppThreads \cup {"worker"}
NoBackup == [a \in {} |-> "dhcp"]

Fresh ==
    /\ inited' = FALSE /\ running' = FALSE
    /\ mgr' = FALSE /\ mgrRun' = FALSE /\ retries' = 0
    /\ proxy' = FALSE /\ backup' = NoBackup /\ oldPolicy' = "absent"
    /\ at' = [t \in Threads |-> "idle"]
    /\ why' = [t \in Threads |-> "none"] /\ todo' = [t \in Threads |-> {}]

Init ==
    /\ user \in [Adapters -> Values \cup {"dhcp"}] /\ dns = user
    /\ policy \in {"absent", "own"} /\ routes = {}
    /\ orphans = {} /\ dogs = {}
    /\ alive = TRUE /\ inited = FALSE /\ running = FALSE
    /\ mgr = FALSE /\ mgrRun = FALSE /\ retries = 0
    /\ proxy = FALSE /\ backup = NoBackup /\ oldPolicy = "absent"
    /\ at = [t \in Threads |-> "idle"]
    /\ why = [t \in Threads |-> "none"] /\ todo = [t \in Threads |-> {}]
    /\ lost = {} /\ crashed = FALSE
    /\ starts = 0 /\ connects = 0 /\ edits = 0

Goto(t, place) == at' = [at EXCEPT ![t] = place]
From(t, place) == alive /\ at[t] = place
-----------------------------------------------------------------------------
(* DnsLeakGuard::restore, for thread t: adapters that point into the hole    *)
(* are set to DHCP, then those backed up get back what they had, then the    *)
(* policy.  The guard has no lock.                                          *)
BeginRestore(t, reason) ==
    /\ Goto(t, "clear")
    /\ why' = [why EXCEPT ![t] = reason]
    /\ todo' = [todo EXCEPT ![t] = Adapters]

Clear(t) ==
    /\ From(t, "clear") /\ todo[t] # {}
    /\ \E a \in todo[t] :
          /\ todo' = [todo EXCEPT ![t] = @ \ {a}]
          /\ dns' = [dns EXCEPT ![a] = IF @ = "hole" THEN "dhcp" ELSE @]
    /\ UNCHANGED <<policy, routes, orphans, dogs, alive, inited, running, mgr, mgrRun, retries, proxy,
                   backup, oldPolicy, at, why, user, lost, crashed, starts, connects, edits>>

Cleared(t) ==
    /\ From(t, "clear") /\ todo[t] = {}
    /\ Goto(t, "write")
    /\ todo' = [todo EXCEPT ![t] = DOMAIN backup]
    /\ UNCHANGED <<os, orphans, dogs, alive, inited, running, mgr, mgrRun, retries, proxy,
                   backup, oldPolicy, why, lost, crashed, starts, connects, edits>>

(* A setting that could not be read is backed up as an empty list, and to    *)
(* write an empty list is to choose DHCP.                                   *)
WrittenBack(value) == IF value = "unread" THEN "dhcp" ELSE value

WriteBack(t) ==
    /\ From(t, "write") /\ todo[t] # {}
    /\ \E a \in todo[t] \cap DOMAIN backup :
          /\ todo' = [todo EXCEPT ![t] = @ \ {a}]
          /\ dns' = [dns EXCEPT ![a] = WrittenBack(backup[a])]
    /\ UNCHANGED <<policy, routes, orphans, dogs, alive, inited, running, mgr, mgrRun, retries, proxy,
                   backup, oldPolicy, at, why, user, lost, crashed, starts, connects, edits>>

After(reason) ==
    CASE reason = "init" -> "start"
      [] reason = "stop" -> "idle"
      [] reason = "quit" -> "quit"
      [] reason = "protect" -> "policy"
      [] reason = "reconnect" -> IF mgrRun THEN "try" ELSE "done"

Restored(t) ==
    /\ From(t, "write") /\ todo[t] = {}
    /\ backup' = NoBackup
    /\ policy' = oldPolicy /\ oldPolicy' = "absent"
    /\ Goto(t, After(why[t]))
    /\ why' = [why EXCEPT ![t] = "none"]
    /\ UNCHANGED <<dns, routes, user, orphans, dogs, alive, inited, running, mgr, mgrRun, retries, proxy,
                   todo, lost, crashed, starts, connects, edits>>

Restore(t) == Clear(t) \/ Cleared(t) \/ WriteBack(t) \/ Restored(t)
-----------------------------------------------------------------------------
(* AppBridge::connect_to_server: init() on the first connection, which first *)
(* restores what a crash may have left, then start().                        *)
Connect ==
    /\ From("bridge", "idle") /\ starts < MaxStarts
    /\ starts' = starts + 1
    /\ IF inited
       THEN Goto("bridge", "start") /\ UNCHANGED <<why, todo>>
       ELSE BeginRestore("bridge", "init")
    /\ UNCHANGED <<os, orphans, dogs, alive, inited, running, mgr, mgrRun, retries, proxy,
                   backup, oldPolicy, lost, crashed, connects, edits>>

InitFails ==
    /\ From("bridge", "start") /\ ~inited
    /\ Goto("bridge", "idle")
    /\ UNCHANGED <<os, orphans, dogs, alive, inited, running, mgr, mgrRun, retries, proxy,
                   backup, oldPolicy, why, todo, lost, crashed, starts, connects, edits>>

Start ==
    /\ From("bridge", "start")
    /\ inited' = TRUE /\ running' = TRUE
    /\ Goto("bridge", IF running THEN "idle" ELSE "launch")
    /\ UNCHANGED <<os, orphans, dogs, alive, mgr, mgrRun, retries, proxy,
                   backup, oldPolicy, why, todo, lost, crashed, starts, connects, edits>>

(* A gate is closed, the server's name cannot be resolved, no bypass route.  *)
StartFails ==
    /\ From("bridge", "launch")
    /\ running' = FALSE
    /\ Goto("bridge", "idle")
    /\ UNCHANGED <<os, orphans, dogs, alive, inited, mgr, mgrRun, retries, proxy,
                   backup, oldPolicy, why, todo, lost, crashed, starts, connects, edits>>

Launch ==
    /\ From("bridge", "launch") /\ ~mgr
    /\ routes' = routes \cup {"bypass"}
    /\ mgr' = TRUE /\ mgrRun' = TRUE /\ retries' = 0
    /\ at' = [at EXCEPT !["bridge"] = "idle", !["worker"] = "try"]
    /\ UNCHANGED <<dns, policy, user, orphans, dogs, alive, inited, running, proxy,
                   backup, oldPolicy, why, todo, lost, crashed, starts, connects, edits>>
-----------------------------------------------------------------------------
(* ClientApp::stop, for thread t: the worker is told to end and waited for,  *)
(* the routes are removed, the manager is destroyed (a new one with it),     *)
(* and the DNS settings are restored.                                       *)
StopForUntold(t, reason) ==
    /\ From(t, "idle")
    /\ running' = FALSE
    /\ Goto(t, IF mgr THEN "join" ELSE "unroute")
    /\ why' = [why EXCEPT ![t] = reason]
    /\ UNCHANGED <<os, orphans, dogs, alive, inited, mgr, mgrRun, retries, proxy,
                   backup, oldPolicy, todo, lost, crashed, starts, connects, edits>>

StopForRestoringFirst(t, reason) ==
    /\ From(t, "idle")
    /\ running' = FALSE
    /\ mgrRun' = FALSE
    /\ BeginRestore(t, reason)
    /\ UNCHANGED <<os, orphans, dogs, alive, inited, mgr, retries, proxy,
                   backup, oldPolicy, lost, crashed, starts, connects, edits>>

StopFor(t, reason) ==
    /\ From(t, "idle")
    /\ running' = FALSE
    /\ mgrRun' = FALSE
    /\ Goto(t, IF mgr THEN "join" ELSE "unroute")
    /\ why' = [why EXCEPT ![t] = reason]
    /\ UNCHANGED <<os, orphans, dogs, alive, inited, mgr, retries, proxy,
                   backup, oldPolicy, todo, lost, crashed, starts, connects, edits>>

Stop(t) == StopFor(t, "stop")
Quit == StopFor("bridge", "quit")

Joined(t) ==
    /\ From(t, "join") /\ at["worker"] \in {"done", "idle"}
    /\ Goto(t, "unroute")
    /\ UNCHANGED <<os, orphans, dogs, alive, inited, running, mgr, mgrRun, retries, proxy,
                   backup, oldPolicy, why, todo, lost, crashed, starts, connects, edits>>

ClearRoutes(t) ==
    /\ From(t, "unroute")
    /\ routes' = {}
    /\ mgrRun' = FALSE
    /\ Goto(t, "reset")
    /\ UNCHANGED <<dns, policy, user, orphans, dogs, alive, inited, running, mgr, retries, proxy,
                   backup, oldPolicy, why, todo, lost, crashed, starts, connects, edits>>

Reset(t) ==
    /\ From(t, "reset") /\ at["worker"] \in {"done", "idle"}
    /\ mgr' = FALSE /\ proxy' = FALSE
    /\ at' = [at EXCEPT ![t] = "clear", !["worker"] = "idle"]
    /\ todo' = [todo EXCEPT ![t] = Adapters]
    /\ UNCHANGED <<os, orphans, dogs, alive, inited, running, mgrRun, retries,
                   backup, oldPolicy, why, lost, crashed, starts, connects, edits>>

StopSteps(t) == Joined(t) \/ ClearRoutes(t) \/ Reset(t)
-----------------------------------------------------------------------------
(* ReconnectManager::worker_loop and the callbacks it runs.                  *)

(* The handshake succeeds, be it while a stop waits; the connected callback  *)
(* sets the routes, then the guard.                                         *)
Connected ==
    /\ From("worker", "try") /\ connects < MaxConnects
    /\ connects' = connects + 1 /\ retries' = 0
    /\ Goto("worker", "route")
    /\ UNCHANGED <<os, orphans, dogs, alive, inited, running, mgr, mgrRun, proxy,
                   backup, oldPolicy, why, todo, lost, crashed, starts, edits>>

(* A failed attempt: the reconnecting callback, unless it was the last.      *)
AttemptFails ==
    /\ From("worker", "try")
    /\ retries' = retries + 1
    /\ Goto("worker", IF mgrRun /\ retries' < MaxRetries THEN "undo" ELSE "done")
    /\ UNCHANGED <<os, orphans, dogs, alive, inited, running, mgr, mgrRun, proxy,
                   backup, oldPolicy, why, todo, lost, crashed, starts, connects, edits>>

SetRoutes ==
    /\ From("worker", "route")
    /\ routes' = routes \cup {"bypass", "default"} \cup (IF Split THEN {"split"} ELSE {})
    /\ BeginRestore("worker", "protect")
    /\ UNCHANGED <<dns, policy, user, orphans, dogs, alive, inited, running, mgr, mgrRun, retries, proxy,
                   backup, oldPolicy, lost, crashed, starts, connects, edits>>

(* DnsLeakGuard::protect, after its restore: the policy, then the adapters   *)
(* one by one, then the watchdog.                                           *)
SetPolicy ==
    /\ From("worker", "policy")
    /\ oldPolicy' = policy /\ policy' = "ours"
    /\ todo' = [todo EXCEPT !["worker"] = Adapters]
    /\ Goto("worker", "hole")
    /\ UNCHANGED <<dns, routes, user, orphans, dogs, alive, inited, running, mgr, mgrRun, retries, proxy,
                   backup, why, lost, crashed, starts, connects, edits>>

RedirectThenRead ==
    /\ From("worker", "hole")
    /\ \E a \in todo["worker"] :
          /\ todo' = [todo EXCEPT !["worker"] = @ \ {a}]
          /\ backup' = [b \in DOMAIN backup \cup {a} |-> IF b # a THEN backup[b] ELSE "hole"]
          /\ dns' = [dns EXCEPT ![a] = "hole"]
    /\ UNCHANGED <<policy, routes, user, orphans, dogs, alive, inited, running, mgr, mgrRun, retries, proxy,
                   oldPolicy, at, why, lost, crashed, starts, connects, edits>>

Redirect ==
    /\ From("worker", "hole")
    /\ \E a \in todo["worker"], read \in BOOLEAN, set \in BOOLEAN :
          /\ todo' = [todo EXCEPT !["worker"] = @ \ {a}]
          /\ backup' = [b \in DOMAIN backup \cup {a} |->
                           IF b # a THEN backup[b] ELSE IF read THEN dns[a] ELSE "unread"]
          /\ dns' = [dns EXCEPT ![a] = IF set THEN "hole" ELSE @]
          /\ lost' = IF read THEN lost ELSE lost \cup {a}
    /\ UNCHANGED <<policy, routes, user, orphans, dogs, alive, inited, running, mgr, mgrRun, retries, proxy,
                   oldPolicy, at, why, crashed, starts, connects, edits>>

(* The command line of the watchdog names what the backup holds by now.      *)
CommandsIfStatic == {<<a, backup[a]>> : a \in {b \in DOMAIN backup : backup[b] \in Values}}

Commands == {<<a, backup[a]>> : a \in {b \in DOMAIN backup : backup[b] # "unread"}}

SpawnWatchdog ==
    /\ From("worker", "hole") /\ todo["worker"] = {}
    /\ dogs' = dogs \cup Commands
    /\ Goto("worker", "proxy")
    /\ UNCHANGED <<os, orphans, alive, inited, running, mgr, mgrRun, retries, proxy,
                   backup, oldPolicy, why, todo, lost, crashed, starts, connects, edits>>

StartProxy ==
    /\ From("worker", "proxy")
    /\ proxy' \in IF Split THEN {TRUE, proxy} ELSE {FALSE}
    /\ Goto("worker", "watch")
    /\ UNCHANGED <<os, orphans, dogs, alive, inited, running, mgr, mgrRun, retries,
                   backup, oldPolicy, why, todo, lost, crashed, starts, connects, edits>>

ConnectionLost ==
    /\ From("worker", "watch") /\ mgrRun
    /\ Goto("worker", "undo")
    /\ UNCHANGED <<os, orphans, dogs, alive, inited, running, mgr, mgrRun, retries, proxy,
                   backup, oldPolicy, why, todo, lost, crashed, starts, connects, edits>>

ToldToStop ==
    /\ From("worker", "watch") /\ ~mgrRun
    /\ Goto("worker", "done")
    /\ UNCHANGED <<os, orphans, dogs, alive, inited, running, mgr, mgrRun, retries, proxy,
                   backup, oldPolicy, why, todo, lost, crashed, starts, connects, edits>>

(* The reconnecting callback.  It runs again before the next attempt, with   *)
(* nothing left to undo.                                                    *)
UndoRouteOnly ==
    /\ From("worker", "undo")
    /\ routes' = routes \ {"default"}
    /\ proxy' = FALSE
    /\ Goto("worker", IF mgrRun THEN "try" ELSE "done")
    /\ UNCHANGED <<dns, policy, user, orphans, dogs, alive, inited, running, mgr, mgrRun, retries,
                   backup, oldPolicy, why, todo, lost, crashed, starts, connects, edits>>

Undo ==
    /\ From("worker", "undo")
    /\ routes' = routes \ {"default"}
    /\ proxy' = FALSE
    /\ BeginRestore("worker", "reconnect")
    /\ UNCHANGED <<dns, policy, user, orphans, dogs, alive, inited, running, mgr, mgrRun, retries,
                   backup, oldPolicy, lost, crashed, starts, connects, edits>>

Worker ==
    \/ Connected \/ AttemptFails \/ SetRoutes \/ SetPolicy \/ Redirect \/ SpawnWatchdog
    \/ StartProxy \/ ToldToStop \/ Undo \/ Restore("worker")
-----------------------------------------------------------------------------
(* The process ends, in order or not, and the watchdogs that waited for it   *)
(* run their commands, each PowerShell at its own time.                      *)
Ends ==
    /\ alive' = FALSE /\ routes' = {}
    /\ orphans' = orphans \cup dogs /\ dogs' = {}
    /\ UNCHANGED <<dns, policy, user, lost, starts, connects, edits>>

Exit ==
    /\ From("bridge", "quit") /\ Ends
    /\ UNCHANGED <<process, crashed>>

Crash ==
    /\ alive /\ ~crashed /\ Ends
    /\ crashed' = TRUE
    /\ UNCHANGED process

WatchdogRuns ==
    /\ \E c \in orphans :
          /\ orphans' = orphans \ {c}
          /\ dns' = [dns EXCEPT ![c[1]] = c[2]]
    /\ UNCHANGED <<policy, routes, dogs, alive, process, user, lost, crashed, starts, connects, edits>>

Restart ==
    /\ ~alive /\ crashed /\ starts < MaxStarts
    /\ alive' = TRUE /\ Fresh
    /\ UNCHANGED <<os, orphans, dogs, lost, crashed, starts, connects, edits>>

(* The user sets the servers of an adapter by hand, when it is not in use by *)
(* the guard, and not while the watchdogs of an ended process still run.     *)
UserEdits ==
    /\ edits < MaxEdits /\ backup = NoBackup /\ orphans = {}
    /\ \A t \in Threads : at[t] \in {"idle", "try", "done", "quit"}
    /\ \E a \in Adapters, v \in Values \cup {"dhcp"} :
          /\ dns[a] # "hole" /\ v # user[a]
          /\ user' = [user EXCEPT ![a] = v] /\ dns' = [dns EXCEPT ![a] = v]
          /\ lost' = lost \ {a}
    /\ edits' = edits + 1
    /\ UNCHANGED <<policy, routes, orphans, dogs, alive, process, crashed, starts, connects>>
-----------------------------------------------------------------------------
AppSteps(t) == StopSteps(t) \/ Restore(t)
Bridge == InitFails \/ Start \/ StartFails \/ Launch

Next ==
    \/ Connect \/ Bridge \/ Quit \/ Exit
    \/ \E t \in AppThreads : Stop(t) \/ AppSteps(t)
    \/ Worker \/ ConnectionLost
    \/ Crash \/ WatchdogRuns \/ Restart \/ UserEdits

Spec == Init /\ [][Next]_vars

(* Threads and watchdogs that have something to do get to do it.             *)
FairSpec ==
    /\ Spec
    /\ WF_vars(Bridge) /\ WF_vars(Worker) /\ WF_vars(WatchdogRuns)
    /\ \A t \in AppThreads : WF_vars(AppSteps(t))
-----------------------------------------------------------------------------
Servers == Values \cup {"dhcp", "hole"}
InGuard == {"clear", "write", "policy", "hole"}

TypeOK ==
    /\ dns \in [Adapters -> Servers] /\ user \in [Adapters -> Values \cup {"dhcp"}]
    /\ {policy, oldPolicy} \subseteq {"absent", "own", "ours"}
    /\ routes \subseteq {"bypass", "split", "default"}
    /\ orphans \cup dogs \subseteq Adapters \X (Values \cup {"dhcp"})
    /\ {alive, inited, running, mgr, mgrRun, proxy, crashed} \subseteq BOOLEAN
    /\ retries \in 0..MaxRetries
    /\ DOMAIN backup \subseteq Adapters
    /\ \A a \in DOMAIN backup : backup[a] \in Values \cup {"dhcp", "unread"}
    /\ \A t \in Threads : todo[t] \subseteq Adapters
    /\ lost \subseteq Adapters
    /\ at["worker"] # "idle" => mgr

(* The guard has no lock of its own: the threads that use it never meet in   *)
(* it, because who stops the client waits for the worker first.              *)
OneInTheGuard ==
    \A s, t \in Threads : at[s] \in InGuard /\ at[t] \in InGuard => s = t

(* Whenever the client is not connected the machine can reach the network:   *)
(* no adapter's DNS points into the hole, no default route into a tunnel     *)
(* that is not there, no proxy without a tunnel and no policy of ours; while *)
(* it tries again after a loss, after it has given up, and when stopped.     *)
Untouched ==
    /\ \A a \in Adapters : dns[a] # "hole"
    /\ "default" \notin routes
    /\ ~proxy /\ policy # "ours"

OfflineIsUntouched ==
    /\ alive /\ mgrRun /\ at["worker"] \in {"try", "done"} => Untouched
    /\ alive /\ inited /\ ~mgr /\ (\A t \in Threads : at[t] = "idle") => Untouched

(* Once the guard has let go of the adapters each has what its user chose,   *)
(* through reconnections and changes the user makes in between; except an    *)
(* adapter whose setting could not be read, and until a crash.               *)
UserDnsRestored ==
    /\ alive /\ ~crashed /\ backup = NoBackup
    /\ \A t \in Threads : at[t] \notin InGuard
    => \A a \in Adapters \ lost : dns[a] = user[a]

(* A process that dies while it is connected leaves no adapter in the hole   *)
(* for good, even if it is not started again.                               *)
CrashIsRepaired ==
    ~alive /\ at["worker"] = "watch" /\ lost = {}
        ~> (alive \/ \A a \in Adapters : dns[a] # "hole")

(* stop() returns: the worker it waits for ends, whatever it is doing.       *)
StopReturns == \A t \in AppThreads : at[t] = "join" ~> (at[t] \in {"idle", "quit"} \/ ~alive)

(* "On a normal exit restore() goes first and the watchdog is idempotent and *)
(* harmless" (protect): after an exit in order the adapters have what the    *)
(* user chose, when the watchdogs have run.  It does not hold: a watchdog of  *)
(* an earlier connection writes what it read then (README, section 8).      *)
WatchdogsHarmless ==
    ~alive /\ ~crashed /\ orphans = {} => \A a \in Adapters \ lost : dns[a] = user[a]
=============================================================================
