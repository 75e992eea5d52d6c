---------------------------- MODULE ClientNetProofs ----------------------------
(***************************************************************************)
(* Proofs about what the client changes in its machine (ClientNet) and      *)
(* about the DNS proxy it starts there (DnsProxy).                          *)
(*                                                                         *)
(* ClientNet, for any adapters and bounds: from the place of each thread     *)
(* follows what may still be changed of the machine; who stops the client   *)
(* waits for the worker, so that the two never restore at once.              *)
(*                                                                         *)
(* DnsProxy, for any queries, transaction ids, names and numbers of         *)
(* disturbances: an answer on its way belongs to a query that is still in    *)
(* its transaction or whose transaction has ended before.                   *)
(***************************************************************************)
EXTENDS ClientNet, DnsProxy, TLAPS

(* Where the thread of the bridge can be, and the worker's.                  *)
AppPlaces == {"idle", "start", "launch", "join", "unroute", "reset", "clear", "write", "quit"}
WorkerPlaces == {"idle", "try", "route", "clear", "write", "policy", "hole", "proxy", "watch",
                 "undo", "done"}

(* Only the bridge's thread starts and stops the client, as long as nobody   *)
(* else calls ClientApp: AppBridge.cpp has the one exception, the updater.    *)
Alone == AppThreads = {"bridge"}

Shape ==
    /\ dns \in [Adapters -> Servers] /\ user \in [Adapters -> Values \cup {"dhcp"}]
    /\ policy \in {"absent", "own", "ours"} /\ oldPolicy \in {"absent", "own"}
    /\ at \in [Threads -> AppPlaces \cup WorkerPlaces]
    /\ at["bridge"] \in AppPlaces /\ at["worker"] \in WorkerPlaces
    /\ why \in [Threads -> {"none", "init", "stop", "quit", "protect", "reconnect"}]
    /\ todo \in [Threads -> SUBSET Adapters]
    /\ DOMAIN backup \subseteq Adapters
    /\ backup \in [DOMAIN backup -> Values \cup {"dhcp", "unread"}]
    /\ orphans \cup dogs \subseteq Adapters \X (Values \cup {"dhcp"})

(* What the place of one thread says of the other: who stops the client is   *)
(* past the worker's end when it takes the routes away and restores.         *)
Places ==
    /\ at["worker"] # "idle" => mgr
    /\ mgr \/ at["bridge"] = "launch" => inited
    /\ at["bridge"] \in {"clear", "write"} => ~mgr /\ why["bridge"] \in {"init", "stop", "quit"}
    /\ at["bridge"] \in {"join", "unroute", "reset"} => why["bridge"] \in {"stop", "quit"}
    /\ at["bridge"] \in {"unroute", "reset"} => at["worker"] \in {"idle", "done"}
    /\ at["bridge"] = "reset" => "default" \notin routes /\ ~mgrRun
    /\ at["worker"] \in {"clear", "write"} => why["worker"] \in {"protect", "reconnect"}
    /\ ~alive => routes = {}

(* A process that has not yet repaired what the one before it left; a        *)
(* worker that was told to end while connected, so that the stop restores.   *)
NotReset == ~inited /\ at["bridge"] \in {"idle", "unroute", "reset"}
Held == at["worker"] = "done" /\ ~mgrRun

(* An adapter points into the hole only while connected, or when somebody    *)
(* is about to take it out.                                                 *)
Holes ==
    \A a \in Adapters : alive /\ dns[a] = "hole" =>
        \/ at["worker"] \in {"proxy", "watch", "undo"} \/ Held
        \/ at["worker"] = "hole" /\ a \notin todo["worker"]
        \/ \E t \in Threads : at[t] = "clear" /\ a \in todo[t]
        \/ NotReset

(* The same of the policy of name resolution.                               *)
Policies ==
    alive /\ policy = "ours" =>
        \/ at["worker"] \in {"clear", "write", "hole", "proxy", "watch", "undo"} \/ Held
        \/ at["bridge"] \in {"clear", "write"}
        \/ NotReset

(* And of the default route and the proxy.                                  *)
TunnelRoute ==
    /\ "default" \in routes =>
        \/ at["worker"] \in {"policy", "hole", "proxy", "watch", "undo"} \/ Held
        \/ at["worker"] \in {"clear", "write"} /\ why["worker"] = "protect"
    /\ proxy => at["worker"] \in {"watch", "undo"} \/ Held

(* The backup has what the user wants of each adapter that was read; an      *)
(* adapter that is not as its user wants is in the backup, and a restore     *)
(* that writes the backup has not passed it yet.                            *)
Backups ==
    /\ at["worker"] = "policy" => backup = NoBackup
    /\ at["worker"] = "hole" => todo["worker"] \cap DOMAIN backup = {}
    /\ alive /\ ~crashed =>
        /\ orphans = {}
        /\ \A a \in Adapters \ lost :
              /\ a \in DOMAIN backup => backup[a] = user[a]
              /\ dns[a] # user[a] =>
                    a \in DOMAIN backup /\ \A t \in Threads : at[t] = "write" => a \in todo[t]

GuardIInv == Shape /\ Places /\ Holes /\ Policies /\ TunnelRoute /\ Backups

-----------------------------------------------------------------------------
LEMMA TwoThreads == ASSUME Alone PROVE Threads = {"bridge", "worker"}
BY DEF Alone, Threads

LEMMA GuardInit == ASSUME Alone, Init PROVE GuardIInv
<1> USE ClientAssumption, TwoThreads DEF ClientAssumption
<1>1. Shape
    BY DEF Init, Shape, AppPlaces, WorkerPlaces, Servers, NoBackup
<1>2. Places /\ Holes /\ Policies /\ TunnelRoute /\ Backups
    BY DEF Init, Places, Holes, Policies, TunnelRoute, Backups, NotReset, NoBackup
<1> QED
    BY <1>1, <1>2 DEF GuardIInv

(* The restore of the guard, for either thread.                             *)
LEMMA GuardStep ==
    ASSUME Alone, GuardIInv, NEW t \in Threads, Restore(t)
    PROVE  GuardIInv'
<1> USE ClientAssumption, TwoThreads DEF ClientAssumption, GuardIInv, AppPlaces, WorkerPlaces, From, Goto, os
<1>1. CASE Clear(t)
    <2>1. Shape'
        BY <1>1 DEF Clear, Shape, Servers
    <2>2. Places' /\ Policies' /\ TunnelRoute'
        BY <1>1 DEF Clear, Shape, Places, Policies, TunnelRoute, NotReset, Held
    <2>3. Holes'
        BY <1>1 DEF Clear, Shape, Places, Holes, NotReset, Held
    <2>4. Backups'
        BY <1>1 DEF Clear, Shape, Places, Backups
    <2> QED
        BY <2>1, <2>2, <2>3, <2>4
<1>2. CASE Cleared(t)
    <2>1. Shape'
        BY <1>2 DEF Cleared, Shape
    <2>2. Places' /\ Policies' /\ TunnelRoute'
        BY <1>2 DEF Cleared, Shape, Places, Policies, TunnelRoute, NotReset, Held
    <2>3. Holes'
        BY <1>2 DEF Cleared, Shape, Places, Holes, NotReset, Held
    <2>4. Backups'
        BY <1>2 DEF Cleared, Shape, Places, Backups
    <2> QED
        BY <2>1, <2>2, <2>3, <2>4
<1>3. CASE WriteBack(t)
    <2>1. Shape'
        BY <1>3 DEF WriteBack, Shape, Servers, WrittenBack
    <2>2. Places' /\ Policies' /\ TunnelRoute'
        BY <1>3 DEF WriteBack, Shape, Places, Policies, TunnelRoute, NotReset, Held
    <2>3. Holes'
        BY <1>3 DEF WriteBack, Shape, Places, Holes, NotReset, Held, WrittenBack
    <2>4. Backups'
        BY <1>3 DEF WriteBack, Shape, Places, Backups, WrittenBack
    <2> QED
        BY <2>1, <2>2, <2>3, <2>4
<1>4. CASE Restored(t)
    <2>1. Shape'
        BY <1>4 DEF Restored, Shape, After, NoBackup, Places
    <2>2. Places' /\ Policies' /\ TunnelRoute'
        BY <1>4 DEF Restored, Shape, Places, Policies, TunnelRoute, NotReset, Held, After
    <2>3. Holes'
        BY <1>4 DEF Restored, Shape, Places, Holes, NotReset, Held, After
    <2>4. Backups'
        BY <1>4 DEF Restored, Shape, Places, Backups, After, NoBackup
    <2> QED
        BY <2>1, <2>2, <2>3, <2>4
<1> QED
    BY <1>1, <1>2, <1>3, <1>4 DEF Restore

(* The thread of the bridge starts the client, or begins to quit. *)
LEMMA BridgeStep ==
    ASSUME Alone, GuardIInv, Connect \/ Bridge \/ Quit
    PROVE  GuardIInv'
<1> USE ClientAssumption, TwoThreads DEF ClientAssumption, GuardIInv, AppPlaces, WorkerPlaces, From, Goto, os
<1>1. CASE Connect
    <2>1. Shape'
        BY <1>1 DEF Connect, BeginRestore, Shape
    <2>2. Places' /\ Policies' /\ TunnelRoute'
        BY <1>1 DEF Connect, BeginRestore, Shape, Places, Policies, TunnelRoute, NotReset, Held
    <2>3. Holes'
        BY <1>1 DEF Connect, BeginRestore, Shape, Places, Holes, NotReset, Held
    <2>4. Backups'
        BY <1>1 DEF Connect, BeginRestore, Shape, Places, Backups
    <2> QED
        BY <2>1, <2>2, <2>3, <2>4
<1>2. CASE InitFails
    <2>1. Shape'
        BY <1>2 DEF InitFails, Shape
    <2>2. Places' /\ Policies' /\ TunnelRoute'
        BY <1>2 DEF InitFails, Shape, Places, Policies, TunnelRoute, NotReset, Held
    <2>3. Holes'
        BY <1>2 DEF InitFails, Shape, Places, Holes, NotReset, Held
    <2>4. Backups'
        BY <1>2 DEF InitFails, Shape, Places, Backups
    <2> QED
        BY <2>1, <2>2, <2>3, <2>4
<1>3. CASE Start
    <2>1. Shape'
        BY <1>3 DEF Start, Shape
    <2>2. Places' /\ Policies' /\ TunnelRoute'
        BY <1>3 DEF Start, Shape, Places, Policies, TunnelRoute, NotReset, Held
    <2>3. Holes'
        BY <1>3 DEF Start, Shape, Places, Holes, NotReset, Held
    <2>4. Backups'
        BY <1>3 DEF Start, Shape, Places, Backups
    <2> QED
        BY <2>1, <2>2, <2>3, <2>4
<1>4. CASE StartFails
    <2>1. Shape'
        BY <1>4 DEF StartFails, Shape
    <2>2. Places' /\ Policies' /\ TunnelRoute'
        BY <1>4 DEF StartFails, Shape, Places, Policies, TunnelRoute, NotReset, Held
    <2>3. Holes'
        BY <1>4 DEF StartFails, Shape, Places, Holes, NotReset, Held
    <2>4. Backups'
        BY <1>4 DEF StartFails, Shape, Places, Backups
    <2> QED
        BY <2>1, <2>2, <2>3, <2>4
<1>5. CASE Launch
    <2>1. Shape'
        BY <1>5 DEF Launch, Shape
    <2>2. Places' /\ Policies' /\ TunnelRoute'
        BY <1>5 DEF Launch, Shape, Places, Policies, TunnelRoute, NotReset, Held
    <2>3. Holes'
        BY <1>5 DEF Launch, Shape, Places, Holes, NotReset, Held
    <2>4. Backups'
        BY <1>5 DEF Launch, Shape, Places, Backups
    <2> QED
        BY <2>1, <2>2, <2>3, <2>4
<1>6. CASE Quit
    <2>1. Shape'
        BY <1>6 DEF Quit, StopFor, Shape
    <2>2. Places' /\ Policies' /\ TunnelRoute'
        BY <1>6 DEF Quit, StopFor, Shape, Places, Policies, TunnelRoute, NotReset, Held
    <2>3. Holes'
        BY <1>6 DEF Quit, StopFor, Shape, Places, Holes, NotReset, Held
    <2>4. Backups'
        BY <1>6 DEF Quit, StopFor, Shape, Places, Backups
    <2> QED
        BY <2>1, <2>2, <2>3, <2>4
<1> QED
    BY <1>1, <1>2, <1>3, <1>4, <1>5, <1>6 DEF Bridge

(* stop() up to the restore. *)
LEMMA StopStep ==
    ASSUME Alone, GuardIInv, NEW t \in AppThreads, Stop(t) \/ StopSteps(t)
    PROVE  GuardIInv'
<1> USE ClientAssumption, TwoThreads DEF ClientAssumption, GuardIInv, AppPlaces, WorkerPlaces, From, Goto, os
<1>1. CASE Stop(t)
    <2>1. Shape'
        BY <1>1 DEF Stop, StopFor, Alone, Shape
    <2>2. Places' /\ Policies' /\ TunnelRoute'
        BY <1>1 DEF Stop, StopFor, Alone, Shape, Places, Policies, TunnelRoute, NotReset, Held
    <2>3. Holes'
        BY <1>1 DEF Stop, StopFor, Alone, Shape, Places, Holes, NotReset, Held
    <2>4. Backups'
        BY <1>1 DEF Stop, StopFor, Alone, Shape, Places, Backups
    <2> QED
        BY <2>1, <2>2, <2>3, <2>4
<1>2. CASE Joined(t)
    <2>1. Shape'
        BY <1>2 DEF Joined, Alone, Shape
    <2>2. Places' /\ Policies' /\ TunnelRoute'
        BY <1>2 DEF Joined, Alone, Shape, Places, Policies, TunnelRoute, NotReset, Held
    <2>3. Holes'
        BY <1>2 DEF Joined, Alone, Shape, Places, Holes, NotReset, Held
    <2>4. Backups'
        BY <1>2 DEF Joined, Alone, Shape, Places, Backups
    <2> QED
        BY <2>1, <2>2, <2>3, <2>4
<1>3. CASE ClearRoutes(t)
    <2>1. Shape'
        BY <1>3 DEF ClearRoutes, Alone, Shape
    <2>2. Places' /\ Policies' /\ TunnelRoute'
        BY <1>3 DEF ClearRoutes, Alone, Shape, Places, Policies, TunnelRoute, NotReset, Held
    <2>3. Holes'
        BY <1>3 DEF ClearRoutes, Alone, Shape, Places, Holes, NotReset, Held
    <2>4. Backups'
        BY <1>3 DEF ClearRoutes, Alone, Shape, Places, Backups
    <2> QED
        BY <2>1, <2>2, <2>3, <2>4
<1>4. CASE Reset(t)
    <2>1. Shape'
        BY <1>4 DEF Reset, Alone, Shape
    <2>2. Places' /\ Policies' /\ TunnelRoute'
        BY <1>4 DEF Reset, Alone, Shape, Places, Policies, TunnelRoute, NotReset, Held
    <2>3. Holes'
        BY <1>4 DEF Reset, Alone, Shape, Places, Holes, NotReset, Held
    <2>4. Backups'
        BY <1>4 DEF Reset, Alone, Shape, Places, Backups
    <2> QED
        BY <2>1, <2>2, <2>3, <2>4
<1> QED
    BY <1>1, <1>2, <1>3, <1>4 DEF StopSteps

(* The worker. *)
LEMMA WorkerStep ==
    ASSUME Alone, GuardIInv, Worker \/ ConnectionLost
    PROVE  GuardIInv'
<1> USE ClientAssumption, TwoThreads DEF ClientAssumption, GuardIInv, AppPlaces, WorkerPlaces, From, Goto, os
<1>1. CASE Connected
    <2>1. Shape'
        BY <1>1 DEF Connected, Shape
    <2>2. Places' /\ Policies' /\ TunnelRoute'
        BY <1>1 DEF Connected, Shape, Places, Policies, TunnelRoute, NotReset, Held
    <2>3. Holes'
        BY <1>1 DEF Connected, Shape, Places, Holes, NotReset, Held
    <2>4. Backups'
        BY <1>1 DEF Connected, Shape, Places, Backups
    <2> QED
        BY <2>1, <2>2, <2>3, <2>4
<1>2. CASE AttemptFails
    <2>1. Shape'
        BY <1>2 DEF AttemptFails, Shape
    <2>2. Places' /\ Policies' /\ TunnelRoute'
        BY <1>2 DEF AttemptFails, Shape, Places, Policies, TunnelRoute, NotReset, Held
    <2>3. Holes'
        BY <1>2 DEF AttemptFails, Shape, Places, Holes, NotReset, Held
    <2>4. Backups'
        BY <1>2 DEF AttemptFails, Shape, Places, Backups
    <2> QED
        BY <2>1, <2>2, <2>3, <2>4
<1>3. CASE SetRoutes
    <2>1. Shape'
        BY <1>3 DEF SetRoutes, BeginRestore, Shape
    <2>2. Places' /\ Policies' /\ TunnelRoute'
        BY <1>3 DEF SetRoutes, BeginRestore, Shape, Places, Policies, TunnelRoute, NotReset, Held
    <2>3. Holes'
        BY <1>3 DEF SetRoutes, BeginRestore, Shape, Places, Holes, NotReset, Held
    <2>4. Backups'
        BY <1>3 DEF SetRoutes, BeginRestore, Shape, Places, Backups
    <2> QED
        BY <2>1, <2>2, <2>3, <2>4
<1>4. CASE SetPolicy
    <2>1. Shape'
        BY <1>4 DEF SetPolicy, Shape, Places, Policies, NotReset, Held
    <2>2. Places' /\ Policies' /\ TunnelRoute'
        BY <1>4 DEF SetPolicy, Shape, Places, Policies, TunnelRoute, NotReset, Held
    <2>3. Holes'
        BY <1>4 DEF SetPolicy, Shape, Places, Holes, NotReset, Held
    <2>4. Backups'
        BY <1>4 DEF SetPolicy, Shape, Places, Backups, NoBackup
    <2> QED
        BY <2>1, <2>2, <2>3, <2>4
<1>5. CASE Redirect
    <2>1. \A a \in todo["worker"] : dns[a] # "hole"
        BY <1>5 DEF Redirect, Shape, Places, Holes, NotReset, Held
    <2>2. Shape'
        BY <1>5, <2>1 DEF Redirect, Shape, Servers
    <2>3. Places' /\ Policies' /\ TunnelRoute'
        BY <1>5 DEF Redirect, Shape, Places, Policies, TunnelRoute, NotReset, Held
    <2>4. Holes'
        BY <1>5 DEF Redirect, Shape, Places, Holes, NotReset, Held
    <2>5. Backups'
        BY <1>5 DEF Redirect, Shape, Places, Backups, NoBackup
    <2> QED
        BY <2>2, <2>3, <2>4, <2>5
<1>6. CASE SpawnWatchdog
    <2>1. Shape'
        BY <1>6 DEF SpawnWatchdog, Shape, Commands
    <2>2. Places' /\ Policies' /\ TunnelRoute'
        BY <1>6 DEF SpawnWatchdog, Shape, Places, Policies, TunnelRoute, NotReset, Held
    <2>3. Holes'
        BY <1>6 DEF SpawnWatchdog, Shape, Places, Holes, NotReset, Held
    <2>4. Backups'
        BY <1>6 DEF SpawnWatchdog, Shape, Places, Backups
    <2> QED
        BY <2>1, <2>2, <2>3, <2>4
<1>7. CASE StartProxy
    <2>1. Shape'
        BY <1>7 DEF StartProxy, Shape
    <2>2. Places' /\ Policies' /\ TunnelRoute'
        BY <1>7 DEF StartProxy, Shape, Places, Policies, TunnelRoute, NotReset, Held
    <2>3. Holes'
        BY <1>7 DEF StartProxy, Shape, Places, Holes, NotReset, Held
    <2>4. Backups'
        BY <1>7 DEF StartProxy, Shape, Places, Backups
    <2> QED
        BY <2>1, <2>2, <2>3, <2>4
<1>8. CASE ConnectionLost
    <2>1. Shape'
        BY <1>8 DEF ConnectionLost, Shape
    <2>2. Places' /\ Policies' /\ TunnelRoute'
        BY <1>8 DEF ConnectionLost, Shape, Places, Policies, TunnelRoute, NotReset, Held
    <2>3. Holes'
        BY <1>8 DEF ConnectionLost, Shape, Places, Holes, NotReset, Held
    <2>4. Backups'
        BY <1>8 DEF ConnectionLost, Shape, Places, Backups
    <2> QED
        BY <2>1, <2>2, <2>3, <2>4
<1>9. CASE ToldToStop
    <2>1. Shape'
        BY <1>9 DEF ToldToStop, Shape
    <2>2. Places' /\ Policies' /\ TunnelRoute'
        BY <1>9 DEF ToldToStop, Shape, Places, Policies, TunnelRoute, NotReset, Held
    <2>3. Holes'
        BY <1>9 DEF ToldToStop, Shape, Places, Holes, NotReset, Held
    <2>4. Backups'
        BY <1>9 DEF ToldToStop, Shape, Places, Backups
    <2> QED
        BY <2>1, <2>2, <2>3, <2>4
<1>10. CASE Undo
    <2>1. Shape'
        BY <1>10 DEF Undo, BeginRestore, Shape
    <2>2. Places' /\ Policies' /\ TunnelRoute'
        BY <1>10 DEF Undo, BeginRestore, Shape, Places, Policies, TunnelRoute, NotReset, Held
    <2>3. Holes'
        BY <1>10 DEF Undo, BeginRestore, Shape, Places, Holes, NotReset, Held
    <2>4. Backups'
        BY <1>10 DEF Undo, BeginRestore, Shape, Places, Backups
    <2> QED
        BY <2>1, <2>2, <2>3, <2>4
<1>11. CASE Restore("worker")
    BY <1>11, GuardStep
<1> QED
    BY <1>1, <1>2, <1>3, <1>4, <1>5, <1>6, <1>7, <1>8, <1>9, <1>10, <1>11 DEF Worker

(* What is not the client. *)
LEMMA WorldStep ==
    ASSUME Alone, GuardIInv, Exit \/ Crash \/ WatchdogRuns \/ Restart \/ UserEdits \/ UNCHANGED vars
    PROVE  GuardIInv'
<1> USE ClientAssumption, TwoThreads DEF ClientAssumption, GuardIInv, AppPlaces, WorkerPlaces, From, Goto, os
<1>1. CASE Exit
    <2>1. Shape'
        BY <1>1 DEF Exit, Ends, process, Shape
    <2>2. Places' /\ Policies' /\ TunnelRoute'
        BY <1>1 DEF Exit, Ends, process, Shape, Places, Policies, TunnelRoute, NotReset, Held
    <2>3. Holes'
        BY <1>1 DEF Exit, Ends, process, Shape, Places, Holes, NotReset, Held
    <2>4. Backups'
        BY <1>1 DEF Exit, Ends, process, Shape, Places, Backups
    <2> QED
        BY <2>1, <2>2, <2>3, <2>4
<1>2. CASE Crash
    <2>1. Shape'
        BY <1>2 DEF Crash, Ends, process, Shape
    <2>2. Places' /\ Policies' /\ TunnelRoute'
        BY <1>2 DEF Crash, Ends, process, Shape, Places, Policies, TunnelRoute, NotReset, Held
    <2>3. Holes'
        BY <1>2 DEF Crash, Ends, process, Shape, Places, Holes, NotReset, Held
    <2>4. Backups'
        BY <1>2 DEF Crash, Ends, process, Shape, Places, Backups
    <2> QED
        BY <2>1, <2>2, <2>3, <2>4
<1>3. CASE WatchdogRuns
    <2>1. Shape'
        BY <1>3 DEF WatchdogRuns, process, Shape, Servers
    <2>2. Places' /\ Policies' /\ TunnelRoute'
        BY <1>3 DEF WatchdogRuns, process, Shape, Places, Policies, TunnelRoute, NotReset, Held
    <2>3. Holes'
        BY <1>3 DEF WatchdogRuns, process, Shape, Places, Holes, NotReset, Held
    <2>4. Backups'
        BY <1>3 DEF WatchdogRuns, process, Shape, Places, Backups
    <2> QED
        BY <2>1, <2>2, <2>3, <2>4
<1>4. CASE Restart
    <2>1. Shape'
        BY <1>4 DEF Restart, Fresh, Shape, NoBackup
    <2>2. Places' /\ Policies' /\ TunnelRoute'
        BY <1>4 DEF Restart, Fresh, Shape, Places, Policies, TunnelRoute, NotReset, Held
    <2>3. Holes'
        BY <1>4 DEF Restart, Fresh, Shape, Places, Holes, NotReset, Held
    <2>4. Backups'
        BY <1>4 DEF Restart, Fresh, Shape, Places, Backups, NoBackup
    <2> QED
        BY <2>1, <2>2, <2>3, <2>4
<1>5. CASE UserEdits
    <2>1. Shape'
        BY <1>5 DEF UserEdits, process, Shape, Servers
    <2>2. Places' /\ Policies' /\ TunnelRoute'
        BY <1>5 DEF UserEdits, process, Shape, Places, Policies, TunnelRoute, NotReset, Held
    <2>3. Holes'
        BY <1>5 DEF UserEdits, process, Shape, Places, Holes, NotReset, Held
    <2>4. Backups'
        BY <1>5 DEF UserEdits, process, Shape, Places, Backups, NoBackup
    <2> QED
        BY <2>1, <2>2, <2>3, <2>4
<1>6. CASE UNCHANGED vars
    <2>1. Shape'
        BY <1>6 DEF vars, process, Shape
    <2>2. Places' /\ Policies' /\ TunnelRoute'
        BY <1>6 DEF vars, process, Shape, Places, Policies, TunnelRoute, NotReset, Held
    <2>3. Holes'
        BY <1>6 DEF vars, process, Shape, Places, Holes, NotReset, Held
    <2>4. Backups'
        BY <1>6 DEF vars, process, Shape, Places, Backups
    <2> QED
        BY <2>1, <2>2, <2>3, <2>4
<1> QED
    BY <1>1, <1>2, <1>3, <1>4, <1>5, <1>6

LEMMA GuardNext == ASSUME Alone, GuardIInv, [Next]_vars PROVE GuardIInv'
BY GuardStep, BridgeStep, StopStep, WorkerStep, WorldStep DEF Next, AppSteps, Alone, Threads, Worker

(* What the invariant means for the three promises of the client.           *)
LEMMA GuardPromises ==
    ASSUME Alone, GuardIInv
    PROVE  OneInTheGuard /\ OfflineIsUntouched /\ UserDnsRestored
<1> USE ClientAssumption, TwoThreads DEF ClientAssumption, GuardIInv, AppPlaces, WorkerPlaces, Shape
<1>1. OneInTheGuard
    BY DEF OneInTheGuard, InGuard, Places
<1>2. OfflineIsUntouched
    BY DEF OfflineIsUntouched, Untouched, Places, Holes, Policies, TunnelRoute, NotReset, Held
<1>3. UserDnsRestored
    BY DEF UserDnsRestored, InGuard, Backups, NoBackup
<1> QED
    BY <1>1, <1>2, <1>3

-----------------------------------------------------------------------------
(* Who is where in the guard, what is changed of the machine and what the    *)
(* backup knows, for any adapters, lists of servers and numbers of starts,   *)
(* connections, attempts and changes by the user, while one thread starts    *)
(* and stops the client.                                                   *)
THEOREM GuardInvariant == ASSUME Alone PROVE Spec => []GuardIInv
<1>1. Init => GuardIInv
  BY GuardInit
<1>2. GuardIInv /\ [Next]_vars => GuardIInv'
  BY GuardNext
<1> QED
  BY <1>1, <1>2, PTL DEF Spec

(* The guard needs no lock: ClientApp::stop waits for the worker before it   *)
(* restores, so that two threads never are in it at once.                    *)
THEOREM OneThreadInTheGuard == ASSUME Alone PROVE Spec => []OneInTheGuard
<1>1. GuardIInv => OneInTheGuard
  BY GuardPromises
<1> QED
  BY <1>1, GuardInvariant, PTL

(* While the client is not connected no adapter points into the hole, no     *)
(* route into a tunnel that is gone and no policy of ours is set (the        *)
(* reconnecting callback and ClientApp::stop undo all of it).                *)
THEOREM OfflineMachineUntouched == ASSUME Alone PROVE Spec => []OfflineIsUntouched
<1>1. GuardIInv => OfflineIsUntouched
  BY GuardPromises
<1> QED
  BY <1>1, GuardInvariant, PTL

(* DnsLeakGuard::restore gives each adapter what its user chose, through     *)
(* reconnections and the user's changes, where it could be read and as long  *)
(* as the process does not die.                                             *)
THEOREM UserDnsGivenBack == ASSUME Alone PROVE Spec => []UserDnsRestored
<1>1. GuardIInv => UserDnsRestored
  BY GuardPromises
<1> QED
  BY <1>1, GuardInvariant, PTL

-----------------------------------------------------------------------------
(*                               The DNS proxy                              *)

(* A transaction holds a query with its id; only a transaction in use is    *)
(* past its ten seconds.                                                    *)
Keyed == /\ \A t \in TxIds : pending[t] # None => TxId[pending[t]] = t
         /\ \A t \in due : pending[t] # None

(* What is on its way to an upstream or back.                               *)
InFlight == \A u \in Upstreams, q \in Queries :
               <<u, q>> \in sent \cup answers => q \in over \/ pending[TxId[q]] = q

ProxyIInv == ProxyTypeOK /\ Keyed /\ InFlight /\ NeverMixed

-----------------------------------------------------------------------------
LEMMA IdsOfQueries == \A q \in Queries : TxId[q] \in TxIds
  BY DEF TxIds

LEMMA ProxyInitEstablishes == ProxyInit => ProxyIInv
<1> SUFFICES ASSUME ProxyInit PROVE ProxyIInv
  OBVIOUS
<1> USE DEF ProxyInit, NoPending
<1>1. MaxTrouble \in Nat /\ MaxTunnels \in Nat
  BY ProxyAssumption DEF ProxyAssumption
<1>2. ProxyTypeOK
  <2>1. 0 \in 0 .. MaxTrouble /\ 0 \in 0 .. MaxTunnels
    BY <1>1
  <2>2. pending \in [TxIds -> Queries \cup {None}]
    OBVIOUS
  <2> QED
    BY <2>1, <2>2 DEF ProxyTypeOK
<1>3. Keyed /\ InFlight /\ NeverMixed
  BY DEF Keyed, InFlight, NeverMixed
<1> QED
  BY <1>2, <1>3 DEF ProxyIInv

(* The worker and the world outside change what is on its way, never the    *)
(* table of transactions.                                                   *)
LEMMA ProxyOutsideStep ==
    ASSUME ProxyIInv,
           \/ TunnelConnected \/ StopBegins \/ StopEnds \/ Poll \/ Trouble \/ BecomeCalm
           \/ \E q \in Queries : Ask(q)
           \/ \E q \in Queries, u \in Upstreams : UpstreamAnswers(u, q)
           \/ \E t \in TxIds : TenSecondsPass(t)
    PROVE  ProxyIInv'
<1> USE ProxyAssumption DEF ProxyAssumption, ProxyIInv, ProxyTypeOK, Keyed, InFlight, NeverMixed, workerVars, loopVars, netVars, pastVars
<1>1. CASE TunnelConnected
  <2>1. /\ link' = "up"
        /\ tunnels' \in 0 .. MaxTunnels
        /\ UNCHANGED <<netVars, pastVars, calm, trouble>>
    BY <1>1 DEF TunnelConnected
  <2>2. /\ adapterDns' \in {"servers", "proxy"}
        /\ proxyRunning' \in BOOLEAN /\ loop' \in {"gone", "sweep", "poll", "round"}
        /\ UNCHANGED <<ready, pending, due>>
    BY <1>1 DEF TunnelConnected, ConnectedSplit, ConnectedFull, StartSucceeds, SetDns
  <2> QED
    BY <2>1, <2>2
<1>2. CASE StopBegins
  BY <1>2 DEF StopBegins
<1>3. CASE StopEnds
  BY <1>3 DEF StopEnds
<1>4. CASE Poll
  BY <1>4 DEF Poll, Readable
<1>5. CASE Trouble
  BY <1>5 DEF Trouble
<1>6. CASE BecomeCalm
  BY <1>6 DEF BecomeCalm
<1>7. CASE \E q \in Queries : Ask(q)
  BY <1>7 DEF Ask
<1>8. CASE \E q \in Queries, u \in Upstreams : UpstreamAnswers(u, q)
  BY <1>8 DEF UpstreamAnswers
<1>9. CASE \E t \in TxIds : TenSecondsPass(t)
  BY <1>9 DEF TenSecondsPass
<1> QED
  BY <1>1, <1>2, <1>3, <1>4, <1>5, <1>6, <1>7, <1>8, <1>9

(* Transactions that are swept, or go with the loop, are over.              *)
LEMMA SweepPreserves ==
    ASSUME ProxyIInv, LoopEnds \/ Sweep
    PROVE  ProxyIInv'
<1> USE DEF ProxyIInv, ProxyTypeOK, Keyed, InFlight, NeverMixed, workerVars, netVars
<1>1. CASE LoopEnds
  <2>1. ProxyTypeOK' /\ over \subseteq over'
    BY <1>1 DEF LoopEnds, NoPending, Transactions
  <2>2. InFlight'
    BY <1>1, IdsOfQueries, ProxyAssumption DEF ProxyAssumption, LoopEnds, Transactions
  <2> QED
    BY <1>1, <2>1, <2>2 DEF LoopEnds, NoPending
<1>2. CASE Sweep
  <2>1. ProxyTypeOK' /\ over \subseteq over'
    BY <1>2 DEF Sweep
  <2>2. InFlight'
    BY <1>2, IdsOfQueries DEF Sweep
  <2> QED
    BY <1>2, <2>1, <2>2 DEF Sweep
<1> QED
  BY <1>1, <1>2

(* An answer ends the transaction of its id: if that is not its own, its    *)
(* own has ended before, as two queries never share an id at one time.      *)
LEMMA AnswerPreserves ==
    ASSUME ProxyIInv, NEW q \in Queries, NEW u \in Upstreams, Answer(u, q)
    PROVE  ProxyIInv'
<1> USE DEF ProxyIInv, ProxyTypeOK, Keyed, InFlight, NeverMixed, workerVars, pastVars
<1>1. /\ TxId[q] \in TxIds
      /\ <<u, q>> \in answers
      /\ answers' = answers \ {<<u, q>>}
      /\ ready' \subseteq Upstreams \cup {"listen"}
      /\ loop' \in {"sweep", "round"}
      /\ UNCHANGED <<workerVars, proxyRunning, asked, sent, calm, trouble>>
  BY IdsOfQueries DEF Answer, Turn
<1>2. CASE pending[TxId[q]] = None
  <2>1. UNCHANGED <<pending, due, pastVars>>
    BY <1>2 DEF Answer
  <2> QED
    BY <1>1, <2>1
<1>3. CASE pending[TxId[q]] # None
  <2> DEFINE p == pending[TxId[q]]
  <2>1. /\ p \in Queries
        /\ TxId[p] = TxId[q]
        /\ handed' = handed \cup {<<q, p>>}
        /\ over' = over \cup {p}
        /\ pending' = [pending EXCEPT ![TxId[q]] = None]
        /\ due' = due \ {TxId[q]}
    BY <1>1, <1>3 DEF Answer
  <2>2. q = p \/ q \in over
    BY <1>1
  <2>3. ProxyTypeOK'
    BY <1>1, <2>1
  <2>4. Keyed'
    BY <1>1, <2>1
  <2>5. InFlight'
    <3> SUFFICES ASSUME NEW v \in Upstreams, NEW r \in Queries,
                        <<v, r>> \in sent' \cup answers'
                 PROVE  r \in over' \/ pending'[TxId[r]] = r
      OBVIOUS
    <3>1. r \in over \/ pending[TxId[r]] = r
      BY <1>1
    <3>2. CASE TxId[r] = TxId[q]
      BY <2>1, <3>1, <3>2
    <3>3. CASE TxId[r] # TxId[q]
      BY <1>1, <2>1, <3>1, <3>3, IdsOfQueries
    <3> QED
      BY <3>2, <3>3
  <2>6. NeverMixed'
    BY <2>1, <2>2
  <2> QED
    BY <2>3, <2>4, <2>5, <2>6
<1> QED
  BY <1>2, <1>3

(* A query that is forwarded opens a transaction that nobody has.           *)
LEMMA QueryPreserves ==
    ASSUME ProxyIInv, NEW q \in Queries, Query(q)
    PROVE  ProxyIInv'
<1> USE DEF ProxyIInv, ProxyTypeOK, Keyed, InFlight, NeverMixed, workerVars, pastVars
<1>1. /\ TxId[q] \in TxIds
      /\ asked' \subseteq asked
      /\ ready' \subseteq Upstreams \cup {"listen"}
      /\ loop' \in {"sweep", "round"}
      /\ UNCHANGED <<workerVars, proxyRunning, due, answers, pastVars, calm>>
  BY IdsOfQueries DEF Query, Turn
<1>2. CASE UNCHANGED <<pending, sent>> /\ (UNCHANGED trouble \/ SendFails)
  BY <1>1, <1>2, ProxyAssumption DEF ProxyAssumption, SendFails
<1>3. CASE pending[TxId[q]] = None /\ Forward(q)
  <2>1. /\ pending' = [pending EXCEPT ![TxId[q]] = q]
        /\ sent' = sent \cup {<<UpstreamFor(q), q>>}
        /\ UpstreamFor(q) \in Upstreams
        /\ UNCHANGED trouble
    BY <1>3 DEF Forward, UpstreamFor, Upstreams
  <2>2. ProxyTypeOK'
    BY <1>1, <2>1
  <2>3. Keyed'
    BY <1>1, <1>3, <2>1, ProxyAssumption DEF ProxyAssumption
  <2>4. InFlight'
    <3> SUFFICES ASSUME NEW v \in Upstreams, NEW r \in Queries,
                        <<v, r>> \in sent' \cup answers'
                 PROVE  r \in over' \/ pending'[TxId[r]] = r
      OBVIOUS
    <3>1. r = q \/ r \in over \/ pending[TxId[r]] = r
      BY <1>1, <2>1
    <3>2. CASE TxId[r] = TxId[q]
      BY <1>1, <1>3, <2>1, <3>1, <3>2, ProxyAssumption DEF ProxyAssumption
    <3>3. CASE TxId[r] # TxId[q]
      BY <1>1, <2>1, <3>1, <3>3, IdsOfQueries
    <3> QED
      BY <3>2, <3>3
  <2>5. NeverMixed'
    BY <1>1
  <2> QED
    BY <2>2, <2>3, <2>4, <2>5
<1> QED
  BY <1>2, <1>3 DEF Query, SendFails

LEMMA ProxyStep ==
    ASSUME ProxyIInv, [ProxyNext]_proxyVars
    PROVE  ProxyIInv'
<1>1. CASE UNCHANGED proxyVars
  BY <1>1 DEF ProxyIInv, ProxyTypeOK, Keyed, InFlight, NeverMixed, proxyVars, workerVars, loopVars, netVars, pastVars
<1>2. CASE ProxyNext
  BY <1>2, ProxyOutsideStep, SweepPreserves, AnswerPreserves, QueryPreserves DEF ProxyNext, Loop
<1> QED
  BY <1>1, <1>2

-----------------------------------------------------------------------------
(* The table of run_loop is well formed, each transaction holds a query of  *)
(* its id, and every answer on its way belongs to an open transaction or to *)
(* one that has ended, in every behaviour of the proxy.                     *)
THEOREM ProxyInvariant == ProxySpec => []ProxyIInv
<1>1. ProxyInit => ProxyIInv
  BY ProxyInitEstablishes
<1>2. ProxyIInv /\ [ProxyNext]_proxyVars => ProxyIInv'
  BY ProxyStep
<1> QED
  BY <1>1, <1>2, PTL DEF ProxySpec

(* As long as the transaction of a query has not ended, nobody else gets    *)
(* the answer to it (run_loop drops a query whose id is in use).            *)
THEOREM NoAnswerIsMixed == ProxySpec => []NeverMixed
<1>1. ProxyIInv => NeverMixed
  BY DEF ProxyIInv
<1> QED
  BY <1>1, ProxyInvariant, PTL
=============================================================================
