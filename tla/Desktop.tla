-------------------------------- MODULE Desktop --------------------------------
(***************************************************************************)
(* The desktop client around its tunnel: the window with its cards and     *)
(* dialogs, AppBridge with its thread and its workers, the managed service *)
(* and its gate, ClientApp from a click on connect to the callbacks of the *)
(* reconnect manager, and config.ini, which all of them write.             *)
(*                                                                         *)
(* Threads: the user interface (slots of queued signals, clicks, nested    *)
(* loops of modal dialogs), the thread of AppBridge, the worker of the     *)
(* reconnect manager, the threads of the service, the list, the update     *)
(* check and the download.                                                 *)
(***************************************************************************)
EXTENDS Updater, CardFile

CONSTANTS BuiltIn,      \* addresses whose server uses the built-in key (the service
                        \* delivers every server with its own)
          Scenarios     \* bound: the config.ini of the first start, what the user does and
                        \* how often, how often the world changes and the program is started

(* An entry with the key of its own server and the token meant for it, or   *)
(* without token.                                                           *)
KeyOf(a) == IF a \in BuiltIn THEN None ELSE a
EntryGenuine(e) ==
    e.addr = None \/ (e.token \in {None, TokenOf(e.addr)} /\ e.key = KeyOf(e.addr))

Deeds == {"connect", "select", "add", "edit", "transport", "mode", "apply", "update"}
DesktopAssumption ==
    /\ BuiltIn \subseteq Own
    /\ \A s \in Scenarios : /\ IsFile(s.ini)
                            /\ \A n \in DOMAIN s.ini.sec : EntryGenuine(s.ini.sec[n])
                            /\ s.offered \in Seq(Hired)
                            /\ {s.clicks, s.news, s.starts, s.faults} \subseteq Nat
                            /\ s.deeds \subseteq Deeds
                            /\ {s.policy, s.beats} \subseteq BOOLEAN
ASSUME DesktopAssumption

VARIABLES
    up,          \* the process runs
    ini,         \* config.ini
    keys,        \* the identity files: "none", "pub", "both"
    \* the window
    cards,       \* m_cardServers
    selected,    \* m_selectedCard + 1; 0: none
    dialog,      \* the edit dialog: the card it was opened for, and what it shows
    overlay,     \* m_diaCard is shown: the list of the cards covers the window
    view,        \* m_state, as far as it decides what the button does
    svcBox,      \* the box that the service has blocked this device
    svcPending,  \* m_svcCheckPending
    \* AppBridge
    bridge,      \* the thread of AppBridge: "idle", "keys", "start"
    svcs,        \* threads of check_service and register_service
    svcBusy,     \* m_svcCheckBusy
    lists,       \* threads of apply_server_list
    listBusy,    \* m_svcListBusy
    pending,     \* m_pendingServers
    \* ClientApp
    cfg,         \* m_cfg, or NoCfg before init
    target,      \* what set_server chose: address and key
    running,     \* m_running
    svcBlocked,  \* m_serviceBlocked
    conn,        \* the reconnect manager: its identity and state
    \* the world
    broker,      \* [verdict, offered]: what the service says of this device, its list
    online,      \* the service can be reached
    used,        \* servers that have registered this client and spent its token
    \* history and bounds
    mine,        \* addresses of the cards the user added and did not delete
    budget

winVars == <<cards, selected, dialog, overlay, view, svcBox, svcPending>>
bridgeVars == <<svcs, svcBusy, lists, listBusy, pending>>
clientVars == <<cfg, target, running, conn>>
worldVars == <<broker, online, used>>
deskVars == <<up, ini, keys, winVars, bridge, bridgeVars, clientVars, svcBlocked,
              worldVars, mine, budget>>
vars == <<queues, updVars, deskVars>>

NoDialog == [idx |-> 0, entry |-> Blank]
NoCfg == [servers |-> <<>>, token |-> None, mode |-> "none", record |-> {},
          svc |-> FALSE, fp |-> FALSE]
NoTarget == [addr |-> None, key |-> None]
NoConn == [addr |-> None, token |-> None, key |-> None, st |-> "none"]

Spend(k) == budget[k] > 0 /\ budget' = [budget EXCEPT ![k] = @ - 1]

(* A click of the user, one of those the scenario has.                      *)
Deed(d) == up /\ d \in budget.deeds /\ Spend("clicks")

Post(e) == events' = Append(events, e)

-----------------------------------------------------------------------------
(*                    AppBridge: the threads of the service                *)

(* check_service, register_service and apply_server_list return at once     *)
(* while a thread of theirs runs.                                           *)
StartService(kind) ==
    IF svcBusy THEN UNCHANGED <<svcs, svcBusy>>
    ELSE /\ svcBusy' = TRUE
         /\ svcs' = Append(svcs, kind)

StartList(fp) ==
    IF listBusy THEN UNCHANGED <<lists, listBusy>>
    ELSE /\ listBusy' = TRUE
         /\ lists' = Append(lists, fp)

(* The thread asks the service; evaluate turns the answer into a verdict    *)
(* that goes straight to the gate of ClientApp, and to the window as a      *)
(* signal.  What cannot be fetched or verified does not block.              *)
Evaluate(ok) == ok /\ broker.verdict = "blocked"

ServiceAnswers(i) ==
    LET ok == online
        blocked == Evaluate(ok)
    IN  /\ svcs' = RemoveAt(svcs, i)
        /\ svcBlocked' = blocked
        /\ Post(IF svcs[i] = "check" THEN [t |-> "service", blocked |-> blocked, ok |-> ok]
                                     ELSE [t |-> "registered", ok |-> ok, token |-> ok /\ ~blocked])
        /\ todo' = Append(todo, [t |-> "serviceDone"])
        /\ broker' = IF svcs[i] = "register" /\ ok /\ broker.verdict = "fresh"
                     THEN [broker EXCEPT !.verdict = "ok"] ELSE broker
        /\ UNCHANGED <<updVars, up, ini, keys, winVars, bridge, svcBusy, lists, listBusy,
                       pending, clientVars, online, used, mine, budget>>

(* fetch_server_list: the service hands its list to devices it knows, by    *)
(* the fingerprint config.ini had when the thread started.                  *)
ListAnswers(i) ==
    LET ok == online /\ lists[i] /\ broker.verdict # "fresh"
    IN  /\ lists' = RemoveAt(lists, i)
        /\ pending' = IF ok THEN broker.offered ELSE <<>>
        /\ Post([t |-> "servers", ok |-> ok])
        /\ todo' = Append(todo, [t |-> "listDone"])
        /\ UNCHANGED <<updVars, up, ini, keys, winVars, bridge, svcs, svcBusy, listBusy,
                       clientVars, svcBlocked, worldVars, mine, budget>>

(* QThread::finished reaches the object in the thread of AppBridge: the     *)
(* busy flag of that thread is released.                                    *)
StillBusyForever(busy, done, t) == busy
StillBusy(busy, done, t) == busy /\ done # t

BridgeDone ==
    /\ bridge = "idle" /\ todo # <<>>
    /\ LET t == Head(todo).t IN
         /\ t \in {"checkDone", "downloadDone", "serviceDone", "listDone"}
         /\ IF t = "checkDone" THEN OnCheckDone
            ELSE IF t = "downloadDone" THEN OnDownloadDone ELSE UNCHANGED updVars
         /\ svcBusy' = StillBusy(svcBusy, t, "serviceDone")
         /\ listBusy' = StillBusy(listBusy, t, "listDone")
    /\ todo' = Tail(todo)
    /\ UNCHANGED <<events, up, ini, keys, winVars, bridge, svcs, lists, pending,
                   clientVars, svcBlocked, worldVars, mine, budget>>

(* The heartbeat of AppBridge (30 s after the start, then every 5 minutes)  *)
(* asks whatever the mode; the one of the window only in managed mode.  A   *)
(* scenario without it is a session of less than 30 s; bound: it comes when *)
(* the signals of the one before have been handled.                         *)
Heartbeat ==
    /\ up /\ budget.beats
    /\ ~svcBusy /\ queues = <<<<>>, <<>>>>
    /\ bridge = "idle" \/ ini.mode = "managed"
    /\ StartService("check")
    /\ UNCHANGED <<queues, updVars, up, ini, keys, winVars, bridge, lists, listBusy, pending,
                   clientVars, svcBlocked, worldVars, mine, budget>>

-----------------------------------------------------------------------------
(*                       ClientApp, on the bridge's thread                 *)

(* init, first part: the identity key.  The public file is written, then    *)
(* the protected private one; a public file alone is taken for an identity. *)
WritePublicKey ==
    /\ bridge = "idle" /\ todo # <<>> /\ Head(todo).t = "connect"
    /\ cfg = NoCfg /\ keys = "none"
    /\ keys' = "pub" /\ bridge' = "keys"
    /\ UNCHANGED <<queues, updVars, up, ini, winVars, bridgeVars, clientVars, svcBlocked,
                   worldVars, mine, budget>>

WritePrivateKey ==
    /\ bridge = "keys"
    /\ keys' = "both" /\ bridge' = "idle"
    /\ UNCHANGED <<queues, updVars, up, ini, winVars, bridgeVars, clientVars, svcBlocked,
                   worldVars, mine, budget>>

(* init, the rest: config.ini is loaded into memory, once per process; the  *)
(* adapter may be missing.  A failed init drops the click.                  *)
LoadsConfig ==
    /\ bridge = "idle" /\ todo # <<>> /\ Head(todo).t = "connect"
    /\ cfg = NoCfg /\ keys # "none"
    /\ \/ /\ keys = "both"
          /\ cfg' = Snapshot(ini) /\ ini' = Reloaded(ini)
          /\ UNCHANGED todo
       \/ /\ todo' = Tail(todo)
          /\ UNCHANGED <<cfg, ini>>
    /\ UNCHANGED <<events, updVars, up, keys, winVars, bridge, bridgeVars, target, running,
                   conn, svcBlocked, worldVars, mine, budget>>

(* ClientApp::set_server: the target, its identity, and the same entry in   *)
(* the list that save_config writes; an entry the list lacks is added.      *)
PinnedKeyKept(e, before) == IF e.key = None THEN before ELSE e.key
PinnedKey(e, before) == e.key

SyncedServers(list, e) ==
    LET at == {i \in DOMAIN list : list[i].addr = e.addr}
    IN  IF at = {} THEN Append(list, e)
        ELSE [list EXCEPT ![Min(at)] = [e EXCEPT !.managed = list[Min(at)].managed]]

(* AppBridge::connect_to_server up to the gates in ClientApp::start.        *)
SelectServer ==
    /\ bridge = "idle" /\ todo # <<>> /\ Head(todo).t = "connect"
    /\ cfg # NoCfg
    /\ LET e == Head(todo).entry IN
         /\ cfg' = [cfg EXCEPT !.token = e.token, !.servers = SyncedServers(@, e)]
         /\ target' = [addr |-> e.addr, key |-> PinnedKey(e, target.key)]
    /\ IF running \/ updBlocked \/ svcBlocked
       THEN UNCHANGED <<running, bridge>>
       ELSE running' = TRUE /\ bridge' = "start"
    /\ todo' = Tail(todo)
    /\ UNCHANGED <<events, updVars, up, ini, keys, winVars, bridgeVars, conn, svcBlocked,
                   worldVars, mine, budget>>

(* start, after the gates: the name is resolved and the bypass route added, *)
(* or not; the reconnect manager starts with the identity of this moment.   *)
StartClient ==
    /\ bridge = "start"
    /\ bridge' = "idle"
    /\ \/ /\ conn' = [addr |-> target.addr, token |-> cfg.token, key |-> target.key,
                      st |-> "trying"]
          /\ Post([t |-> "state", view |-> "busy"])
          /\ UNCHANGED running
       \/ running' = FALSE /\ UNCHANGED <<conn, events>>
    /\ UNCHANGED <<todo, updVars, up, ini, keys, winVars, bridgeVars, cfg, target,
                   svcBlocked, worldVars, mine, budget>>

(* ClientApp::stop, on whichever thread: a start under way is not waited    *)
(* for.                                                                     *)
StopClient ==
    /\ running' = FALSE
    /\ conn' = NoConn
    /\ events' = IF conn = NoConn THEN events
                 ELSE Append(events, [t |-> "state", view |-> "stopped"])

BridgeStops ==
    /\ bridge = "idle" /\ todo # <<>> /\ Head(todo).t = "stop"
    /\ todo' = Tail(todo)
    /\ StopClient
    /\ UNCHANGED <<updVars, up, ini, keys, winVars, bridge, bridgeVars, cfg, target,
                   svcBlocked, worldVars, mine, budget>>

-----------------------------------------------------------------------------
(*             Callbacks of the reconnect manager, on its worker           *)

Usable(c) == c.st = "trying"
workerSame == <<todo, updVars, up, keys, winVars, bridge, bridgeVars, target, running,
                svcBlocked, broker, online, mine>>

(* Connected: a client that registered forgets the token and saves.         *)
OnConnected ==
    /\ conn' = [conn EXCEPT !.st = "up",
                            !.token = IF cfg.token = None THEN @ ELSE None]
    /\ IF cfg.token = None THEN UNCHANGED <<cfg, ini>>
       ELSE /\ cfg' = [cfg EXCEPT !.token = None]
            /\ ini' = Saved(ini, cfg)

(* The server accepts an unspent token of its own; the service may have     *)
(* issued a new one since the last registration.                            *)
Registers ==
    /\ Usable(conn) /\ conn.token = TokenOf(conn.addr)
    /\ conn.addr \in Hired \/ conn.addr \notin used
    /\ used' = used \cup {conn.addr}
    /\ OnConnected
    /\ UNCHANGED <<workerSame, events, budget>>

LogsIn ==
    /\ Usable(conn) /\ conn.token = None /\ conn.addr \in used
    /\ OnConnected
    /\ UNCHANGED <<workerSame, events, used, budget>>

(* The token is spent, or the service issued it through another of its      *)
(* servers: it is forgotten, the file saved, the window told.               *)
TokenRejected ==
    /\ Usable(conn) /\ conn.token # None /\ conn.addr \in used \cup Hired
    /\ conn' = [conn EXCEPT !.token = None]
    /\ cfg' = [cfg EXCEPT !.token = None]
    /\ ini' = Saved(ini, cfg)
    /\ Post([t |-> "rejected"])
    /\ UNCHANGED <<workerSame, used, budget>>

GivesUp ==
    /\ Usable(conn)
    /\ conn' = [conn EXCEPT !.st = "error"]
    /\ UNCHANGED <<workerSame, events, cfg, ini, used, budget>>

LinkLost ==
    /\ conn.st = "up" /\ Spend("faults")
    /\ conn' = [conn EXCEPT !.st = "trying"]
    /\ UNCHANGED <<workerSame, events, cfg, ini, used>>

Worker == Registers \/ LogsIn \/ TokenRejected \/ GivesUp

-----------------------------------------------------------------------------
(*                        The window: slots of signals                     *)

(* Read_iniFile: the cards are made anew; a selection out of range becomes  *)
(* the last card.                                                           *)
ReadIniFile(file, sel) ==
    \E f \in {file} :
        /\ ini' = Reloaded(f)
        /\ cards' = Servers(f)
        /\ selected' = IF sel \in DOMAIN Servers(f) THEN sel ELSE Len(Servers(f))

(* tokenRejected: the token of the selected card is cleared.                *)
OnTokenRejected ==
    IF selected = 0 THEN UNCHANGED <<cards, ini>>
    ELSE /\ cards' = [cards EXCEPT ![selected].token = None]
         /\ ini' = WithKey(ini, selected, "token", None)

(* serviceChecked: the answer is kept, the gate set as it says; the box is  *)
(* opened, left open or closed.                                             *)
OnServiceCheckedUnset(e) ==
    /\ svcPending' = FALSE
    /\ ini' = [ini EXCEPT !.fp = @ \/ e.ok]
    /\ svcBlocked' = FALSE
    /\ svcBox' = e.blocked

OnServiceChecked(e) ==
    /\ svcPending' = FALSE
    /\ ini' = [ini EXCEPT !.fp = @ \/ e.ok]
    /\ svcBlocked' = e.blocked
    /\ svcBox' = e.blocked

(* serviceRegistered: the token that came (none for a device that is locked *)
(* out) replaces the last one, the list is fetched.                         *)
OnRegistered(e) ==
    IF e.ok THEN /\ ini' = [ini EXCEPT !.fp = TRUE, !.svc = e.token]
                 /\ StartList(TRUE)
    ELSE UNCHANGED <<ini, lists, listBusy>>

(* serviceServers: take_managed_servers and apply_managed_servers.          *)
OnServers ==
    /\ pending' = <<>>
    /\ IF pending = <<>> THEN UNCHANGED <<ini, cards, selected>>
       ELSE ReadIniFile(WithDelivery(ini, pending), 0)

TakesSignal == up /\ events # <<>> /\ events' = Tail(events)

SignalChecked ==
    /\ TakesSignal /\ Head(events).t = "checked"
    /\ OnChecked(Head(events))
    /\ UNCHANGED <<todo, deskVars>>

SignalDownloaded ==
    /\ TakesSignal /\ Head(events).t = "downloaded"
    /\ OnDownloaded(Head(events))
    /\ UNCHANGED <<todo, deskVars>>

SignalState ==
    /\ TakesSignal /\ Head(events).t = "state"
    /\ view' = Head(events).view
    /\ UNCHANGED <<todo, updVars, up, ini, keys, cards, selected, dialog, overlay, svcBox, svcPending,
                   bridge, bridgeVars, clientVars, svcBlocked, worldVars, mine, budget>>

SignalRejected ==
    /\ TakesSignal /\ Head(events).t = "rejected"
    /\ OnTokenRejected
    /\ UNCHANGED <<todo, updVars, up, keys, selected, dialog, overlay, view, svcBox, svcPending,
                   bridge, bridgeVars, clientVars, svcBlocked, worldVars, mine, budget>>

SignalService ==
    /\ TakesSignal /\ Head(events).t = "service"
    /\ OnServiceChecked(Head(events))
    /\ UNCHANGED <<todo, updVars, up, keys, cards, selected, dialog, overlay, view,
                   bridge, bridgeVars, clientVars, worldVars, mine, budget>>

SignalRegistered ==
    /\ TakesSignal /\ Head(events).t = "registered"
    /\ OnRegistered(Head(events))
    /\ UNCHANGED <<todo, updVars, up, keys, winVars, bridge, svcs, svcBusy, pending,
                   clientVars, svcBlocked, worldVars, mine, budget>>

SignalServers ==
    /\ TakesSignal /\ Head(events).t = "servers"
    /\ OnServers
    /\ UNCHANGED <<todo, updVars, up, keys, dialog, overlay, view, svcBox, svcPending, bridge, svcs,
                   svcBusy, lists, listBusy, clientVars, svcBlocked, worldVars, mine, budget>>

-----------------------------------------------------------------------------
(*                        The window: what the user does                   *)

Unboxed == up /\ box = "none" /\ ~svcBox
MainWindow == Unboxed /\ dialog = NoDialog /\ about = -1 /\ ~overlay
Switching == Unboxed /\ dialog = NoDialog /\ overlay
Settings == Unboxed /\ about # -1
userSame == <<up, keys, bridge, svcBlocked, worldVars>>

(* m_homeBtn: connects to the selected card or stops, as the state says     *)
(* that the window was last told.                                           *)
ClickConnect ==
    /\ MainWindow /\ selected # 0 /\ Deed("connect")
    /\ todo' = Append(todo, IF view = "stopped"
                            THEN [t |-> "connect", entry |-> cards[selected]]
                            ELSE [t |-> "stop"])
    /\ UNCHANGED <<userSame, events, updVars, ini, winVars, bridgeVars, clientVars, mine>>

(* show_switch_dialog: the cards are read anew and shown over the window.   *)
(* The button is enabled while stopped; what it opened stays open when the  *)
(* state changes.  Bound: opened for a deed that the scenario has left.     *)
OpenSwitch ==
    /\ MainWindow /\ view = "stopped"
    /\ budget.clicks > 0 /\ budget.deeds \cap {"select", "transport"} # {}
    /\ ReadIniFile(ini, selected)
    /\ overlay' = TRUE
    /\ UNCHANGED <<userSame, queues, updVars, dialog, view, svcBox, svcPending, bridgeVars,
                   clientVars, mine, budget>>

CloseSwitch ==
    /\ Switching
    /\ overlay' = FALSE
    /\ UNCHANGED <<userSame, queues, updVars, ini, cards, selected, dialog, view, svcBox,
                   svcPending, bridgeVars, clientVars, mine, budget>>

(* select_card.                                                             *)
SelectCard(n) ==
    /\ Switching /\ n \in 1 .. Len(cards) /\ n # selected
    /\ Deed("select")
    /\ selected' = n /\ overlay' = FALSE
    /\ UNCHANGED <<userSame, queues, updVars, ini, cards, dialog, view, svcBox, svcPending,
                   bridgeVars, clientVars, mine>>

(* The transport box of a card writes one key.                              *)
SwitchTransport(n) ==
    /\ Switching /\ n \in 1 .. Len(cards)
    /\ Deed("transport")
    /\ cards' = [cards EXCEPT ![n].tcp = ~@]
    /\ ini' = WithKey(ini, n, "tcp", ~cards[n].tcp)
    /\ UNCHANGED <<userSame, queues, updVars, selected, dialog, overlay, view, svcBox, svcPending,
                   bridgeVars, clientVars, mine>>

(* write_edit: a new server of the user's, in self-hosted mode.             *)
AddServer(a) ==
    /\ MainWindow /\ ini.mode # "managed" /\ a \notin mine
    /\ Deed("add")
    /\ ReadIniFile(WithAdded(ini, [Genuine(a, FALSE, FALSE) EXCEPT !.key = KeyOf(a)]), selected)
    /\ mine' = mine \cup {a}
    /\ UNCHANGED <<userSame, queues, updVars, dialog, overlay, view, svcBox, svcPending, bridgeVars,
                   clientVars>>

(* edit_card: the dialog shows the card; while it is open the slots of the  *)
(* window go on.                                                            *)
OpenEdit ==
    /\ MainWindow /\ selected # 0 /\ ~cards[selected].managed
    /\ Deed("edit")
    /\ dialog' = [idx |-> selected, entry |-> cards[selected]]
    /\ UNCHANGED <<userSame, queues, updVars, ini, cards, selected, overlay, view, svcBox, svcPending,
                   bridgeVars, clientVars, mine>>

EditAccepted(tok) ==
    /\ Unboxed /\ dialog # NoDialog
    /\ tok \in {dialog.entry.token, TokenOf(dialog.entry.addr)}
    /\ ReadIniFile(WithEdited(ini, dialog.idx, [dialog.entry EXCEPT !.token = tok]), selected)
    /\ dialog' = NoDialog
    /\ UNCHANGED <<userSame, queues, updVars, overlay, view, svcBox, svcPending, bridgeVars,
                   clientVars, mine, budget>>

EditDeleted ==
    /\ Unboxed /\ dialog # NoDialog
    /\ ReadIniFile(WithDeleted(ini, selected), 0)
    /\ dialog' = NoDialog
    /\ mine' = mine \ {dialog.entry.addr}
    /\ UNCHANGED <<userSame, queues, updVars, overlay, view, svcBox, svcPending, bridgeVars,
                   clientVars, budget>>

OpenSettings ==
    /\ MainWindow
    /\ budget.clicks > 0 /\ budget.deeds \cap {"mode", "apply", "update"} # {}
    /\ about' = 0
    /\ UNCHANGED <<deskVars, queues, configured, mirror, checks, checkBusy, downloads,
                   downloadBusy, shown, box, boxReady, lastOk, updBlocked, version,
                   installed, instSha, verified>>

CloseSettings ==
    /\ Settings
    /\ about' = -1
    /\ UNCHANGED <<deskVars, queues, configured, mirror, checks, checkBusy, downloads,
                   downloadBusy, shown, box, boxReady, lastOk, updBlocked, version,
                   installed, instSha, verified>>

(* set_service_mode: the signal serviceModeChanged is a direct call here.   *)
ChooseManaged ==
    /\ Settings /\ ini.mode = "off" /\ Deed("mode")
    /\ ini' = [ini EXCEPT !.mode = "managed"]
    /\ StartService("check") /\ StartList(ini.fp)
    /\ UNCHANGED <<userSame, queues, updVars, winVars, pending, clientVars, mine>>

ChooseSelf ==
    /\ Settings /\ ini.mode = "managed" /\ Deed("mode")
    /\ LET off == [ini EXCEPT !.mode = "off"]
       IN  IF WithoutManaged(off) = off
           THEN ini' = off /\ UNCHANGED <<cards, selected>>
           ELSE ReadIniFile(WithoutManaged(off), 0)
    /\ svcBlocked' = FALSE
    /\ UNCHANGED <<up, keys, bridge, worldVars, queues, updVars, dialog, overlay, view, svcBox,
                   svcPending, bridgeVars, clientVars, mine>>

(* The service page: apply for a trial, refresh state and list.             *)
ApplyForTrial ==
    /\ Settings /\ ini.mode = "managed" /\ Deed("apply")
    /\ StartService("register")
    /\ UNCHANGED <<userSame, queues, updVars, ini, winVars, lists, listBusy, pending,
                   clientVars, mine>>

Refresh ==
    /\ Settings /\ ini.mode = "managed" /\ Deed("apply")
    /\ StartService("check") /\ StartList(ini.fp)
    /\ UNCHANGED <<userSame, queues, updVars, ini, winVars, pending, clientVars, mine>>

(* The blocked box: its refresh button asks once until an answer came.      *)
BoxRefresh ==
    /\ up /\ svcBox /\ ~svcPending
    /\ svcPending' = TRUE
    /\ StartService("check")
    /\ UNCHANGED <<userSame, queues, updVars, ini, cards, selected, dialog, overlay, view, svcBox,
                   lists, listBusy, pending, clientVars, mine, budget>>

(* The about page: check again, update now.                                 *)
CheckAgain ==
    /\ Settings /\ Deed("update")
    /\ CheckUpdate
    /\ UNCHANGED <<userSame, queues, configured, mirror, downloads, downloadBusy, shown,
                   about, box, boxReady, lastOk, updBlocked, version, installed, instSha,
                   verified, ini, winVars, bridgeVars, clientVars, mine>>

(* Update now, here or in the blocking box: the client is stopped on the    *)
(* thread of the window, whatever the thread of AppBridge is doing.         *)
StopForDownload ==
    IF downloadBusy THEN UNCHANGED <<running, conn, events>> ELSE StopClient

UpdateNow ==
    /\ Settings /\ about > 0 /\ Deed("update")
    /\ DownloadAndInstall(about)
    /\ StopForDownload
    /\ UNCHANGED <<userSame, todo, configured, mirror, checks, checkBusy, shown, about, box,
                   boxReady, lastOk, updBlocked, version, installed, instSha, verified, ini,
                   winVars, bridgeVars, cfg, target, mine>>

BoxUpdate ==
    /\ up /\ box = "forced" /\ boxReady /\ ~lastOk /\ shown # 0
    /\ boxReady' = FALSE
    /\ DownloadAndInstall(shown)
    /\ StopForDownload
    /\ UNCHANGED <<userSame, todo, configured, mirror, checks, checkBusy, shown, about, box,
                   lastOk, updBlocked, version, installed, instSha, verified, ini, winVars,
                   bridgeVars, cfg, target, mine, budget>>

-----------------------------------------------------------------------------
(*                     The process ends, and starts again                  *)

(* Closed from a box, after an update (on Windows), by the user, or killed: *)
(* what was in memory or under way is gone.                                 *)
Ends ==
    /\ up
    /\ up' = FALSE
    /\ events' = <<>> /\ todo' = <<>>
    /\ UpdaterRestarts
    /\ cards' = <<>> /\ selected' = 0 /\ dialog' = NoDialog
    /\ overlay' = FALSE /\ view' = "stopped" /\ svcBox' = FALSE /\ svcPending' = FALSE
    /\ bridge' = "idle" /\ svcs' = <<>> /\ svcBusy' = FALSE
    /\ lists' = <<>> /\ listBusy' = FALSE /\ pending' = <<>>
    /\ cfg' = NoCfg /\ target' = NoTarget /\ running' = FALSE /\ conn' = NoConn
    /\ svcBlocked' = FALSE
    /\ UNCHANGED <<ini, keys, worldVars, mine, budget>>

(* The constructor of the window, and what it queues for itself: the cards, *)
(* the update check, in managed mode the state and the list of the service. *)
Starts ==
    /\ ~up /\ Spend("starts")
    /\ up' = TRUE
    /\ ini' = Reloaded(ini)
    /\ cards' = Servers(ini) /\ selected' = Len(Servers(ini))
    /\ svcBusy' = (ini.mode = "managed") /\ listBusy' = (ini.mode = "managed")
    /\ svcs' = IF ini.mode = "managed" THEN <<"check">> ELSE <<>>
    /\ lists' = IF ini.mode = "managed" THEN <<ini.fp>> ELSE <<>>
    /\ checks' = IF configured THEN <<[pc |-> "policy", rel |-> 0]>> ELSE <<>>
    /\ checkBusy' = configured
    /\ UNCHANGED <<queues, configured, mirror, downloads, downloadBusy, shown, about, box,
                   boxReady, lastOk, updBlocked, version, installed, instSha, verified, keys,
                   dialog, overlay, view, svcBox, svcPending, bridge, pending, clientVars, svcBlocked,
                   worldVars, mine>>

(* The service changes its mind about the device, or its list; the network  *)
(* of the service goes and comes.                                           *)
News ==
    /\ \/ /\ broker.verdict # "fresh" /\ Spend("news")
          /\ broker' = [broker EXCEPT !.verdict = IF @ = "ok" THEN "blocked" ELSE "ok"]
          /\ UNCHANGED online
       \/ /\ Spend("news")
          /\ \E a \in Hired : <<a>> # broker.offered /\ broker' = [broker EXCEPT !.offered = <<a>>]
          /\ UNCHANGED online
       \/ /\ Spend("faults")
          /\ online' = ~online
          /\ UNCHANGED broker
    /\ UNCHANGED <<queues, updVars, up, ini, keys, winVars, bridge, bridgeVars, clientVars,
                   svcBlocked, used, mine>>

-----------------------------------------------------------------------------
Init ==
    /\ events = <<>> /\ todo = <<>>
    /\ UpdaterInit
    /\ up = FALSE
    /\ keys = "none"
    /\ cards = <<>> /\ selected = 0 /\ dialog = NoDialog
    /\ overlay = FALSE /\ view = "stopped" /\ svcBox = FALSE /\ svcPending = FALSE
    /\ bridge = "idle" /\ svcs = <<>> /\ svcBusy = FALSE
    /\ lists = <<>> /\ listBusy = FALSE /\ pending = <<>>
    /\ cfg = NoCfg /\ target = NoTarget /\ running = FALSE /\ conn = NoConn
    /\ svcBlocked = FALSE
    /\ online = TRUE /\ used = {}
    /\ \E s \in Scenarios :
         /\ configured = s.policy
         /\ ini = s.ini
         /\ broker = [verdict |-> s.verdict, offered |-> s.offered]
         /\ mine = {e.addr : e \in {e \in Range(Servers(s.ini)) : ~e.managed}}
         /\ budget = [clicks |-> s.clicks, news |-> s.news, faults |-> s.faults,
                      starts |-> s.starts, beats |-> s.beats, deeds |-> s.deeds]

UserInterface ==
    \/ SignalChecked \/ SignalDownloaded \/ SignalState \/ SignalRejected
    \/ SignalService \/ SignalRegistered \/ SignalServers

User ==
    \/ ClickConnect \/ OpenSwitch \/ CloseSwitch \/ OpenEdit \/ EditDeleted
    \/ OpenSettings \/ CloseSettings
    \/ ChooseManaged \/ ChooseSelf \/ ApplyForTrial \/ Refresh \/ BoxRefresh
    \/ CheckAgain \/ UpdateNow \/ BoxUpdate
    \/ \E n \in 1 .. 4 : SelectCard(n) \/ SwitchTransport(n)
    \/ \E a \in Own : AddServer(a)
    \/ \E tok \in Tokens \cup {None} : EditAccepted(tok)

BridgeThread ==
    \/ BridgeDone \/ WritePublicKey \/ WritePrivateKey \/ LoadsConfig \/ SelectServer
    \/ StartClient \/ BridgeStops

UpdateThread ==
    /\ \/ \E i \in DOMAIN checks : FetchPolicy(i) \/ FetchSignature(i)
       \/ \E i \in DOMAIN downloads : Fetch(i) \/ Install(i)
    /\ UNCHANGED deskVars

Next ==
    \/ UserInterface
    \/ User
    \/ BridgeThread
    \/ Heartbeat
    \/ \E i \in DOMAIN svcs : ServiceAnswers(i)
    \/ \E i \in DOMAIN lists : ListAnswers(i)
    \/ UpdateThread
    \/ Worker \/ LinkLost
    \/ \E f \in DOMAIN mirror : Publish(f) /\ UNCHANGED deskVars
    \/ Ends \/ Starts \/ News

Spec == Init /\ [][Next]_vars

(* The loops of the window and of AppBridge's thread go on, every request   *)
(* of a thread ends (all have timeouts), the timers fire.                   *)
Fairness ==
    /\ WF_vars(UserInterface)
    /\ WF_vars(BridgeThread)
    /\ WF_vars(Heartbeat)
    /\ WF_vars(\E i \in DOMAIN svcs : ServiceAnswers(i))
    /\ WF_vars(\E i \in DOMAIN lists : ListAnswers(i))
    /\ WF_vars(UpdateThread)

FairSpec == Spec /\ Fairness

-----------------------------------------------------------------------------
(* A server is verified with its own key; one of the user's own is sent no  *)
(* token but its own, one of the service's none but the service's, which    *)
(* all that it delivers share (QtWidgetsClass.cpp: apply_managed_servers).  *)
(* Switching, editing, saving and delivery never mix the identities of two  *)
(* cards (ClientApp.cpp: the key of the last server must not be kept).      *)
IdentityOfTheServer ==
    /\ conn # NoConn => EntryGenuine(conn)
    /\ \A n \in DOMAIN ini.sec : EntryGenuine(ini.sec[n])

(* Every refresh asked for in the blocked box is answered while the program *)
(* runs, also one that found the last request's flag still set and was      *)
(* dropped: the flag is released and the heartbeat asks again.              *)
RefreshAnswered == svcPending /\ budget.beats ~> ~svcPending \/ ~up

(* Once the service has made up its mind and can be reached, the gate of a  *)
(* managed client follows it and stays, whatever older answers were still   *)
(* queued (AppBridge.cpp: the heartbeat keeps state and service together).  *)
Steady(v) == up /\ budget.beats /\ online /\ ini.mode = "managed" /\ broker.verdict = v
GateFollows == /\ <>[]Steady("blocked") => <>[]svcBlocked
               /\ <>[]Steady("ok") => <>[]~svcBlocked

(* A delivery replaces what the service delivered and nothing else: every   *)
(* card at an address it has no record of stays as it is, a card it         *)
(* delivers again keeps the transport the user chose on it.                 *)
DeliveryKeeps(old, new) ==
    /\ \A e \in Range(Entries(old)) : e.addr \in Own => e \in Range(Entries(new))
    /\ \A e \in Range(Entries(new)) :
          e.addr \in Hired =>
              LET was == {n \in 1 .. old.count : Entries(old)[n].addr = e.addr}
              IN  was # {} => \E n \in was : Entries(old)[n].tcp = e.tcp

DeliveryKeepsCards == [][SignalServers => DeliveryKeeps(ini, ini')]_vars

(* The cards the user made stay in config.ini until he deletes them. It does *)
(* not hold: save_config() writes the list of the start (README, section 8). *)
CardsStay == mine \subseteq {ini.sec[n].addr : n \in DOMAIN ini.sec}
=============================================================================
