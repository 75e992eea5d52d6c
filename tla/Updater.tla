-------------------------------- MODULE Updater --------------------------------
(***************************************************************************)
(* The update side of the desktop client: the check of the signed policy   *)
(* (update_checker, update_policy, update_fetcher), what the main window   *)
(* and the about page make of its result, and the download and             *)
(* installation of a package.  A check and a download are threads of their *)
(* own; results reach the user interface through its event queue, the end  *)
(* of a thread is handled by the thread of AppBridge.                      *)
(***************************************************************************)
EXTENDS Integers, Sequences, SequencesExt

CONSTANTS MaxRelease,   \* bound: releases the publisher makes
          Minimum       \* Minimum[r]: the lowest version release r still allows

Releases == 1 .. MaxRelease
Corrupt == MaxRelease + 1           \* a body that is no package of the publisher

UpdaterAssumption == /\ MaxRelease \in Nat
                     /\ Minimum \in [Releases -> 0 .. MaxRelease]
ASSUME UpdaterAssumption

VARIABLES
    configured,    \* config.ini names a policy and the key that signs it
    events,        \* signals queued for the thread of the user interface
    todo,          \* what is queued for the thread of AppBridge
    mirror,        \* the release of each file on the update server; 0: none
    checks,        \* threads of check_update, each [pc, rel]
    checkBusy,     \* m_checkBusy
    downloads,     \* threads of download_and_install, each [pc, rel, got]
    downloadBusy,  \* m_downloadBusy
    shown,         \* m_update*: the release the window offers, 0: none
    about,         \* the same of the settings dialog; -1: the dialog is closed
    box,           \* the blocking box: "none", "forced", "sigbad"
    boxReady,      \* its first button is enabled
    lastOk,        \* m_lastDownloadOk
    updBlocked,    \* m_updateBlocked of ClientApp
    version,       \* the release of the running program
    installed,     \* what the installer last put on the disk
    instSha,       \* [Update] InstalledSha of config.ini, 0: none
    verified       \* history: releases fetched with the signature of that release

updVars == <<configured, mirror, checks, checkBusy, downloads, downloadBusy, shown, about, box, boxReady,
             lastOk, updBlocked, version, installed, instSha, verified>>
queues == <<events, todo>>

UpdaterInit ==
    /\ configured \in BOOLEAN
    /\ mirror = [policy |-> 1, sig |-> 1, pkg |-> 1]
    /\ checks = <<>> /\ checkBusy = FALSE
    /\ downloads = <<>> /\ downloadBusy = FALSE
    /\ shown = 0 /\ about = -1 /\ box = "none" /\ boxReady = FALSE /\ lastOk = FALSE
    /\ updBlocked = FALSE
    /\ version = 0 /\ installed = 0 /\ instSha = 0
    /\ verified = {}

(* A new process: what was in memory is gone.                               *)
UpdaterRestarts ==
    /\ checks' = <<>> /\ checkBusy' = FALSE
    /\ downloads' = <<>> /\ downloadBusy' = FALSE
    /\ shown' = 0 /\ about' = -1 /\ box' = "none" /\ boxReady' = FALSE /\ lastOk' = FALSE
    /\ updBlocked' = FALSE
    /\ version' = installed
    /\ UNCHANGED <<configured, mirror, installed, instSha, verified>>

-----------------------------------------------------------------------------
(* The publisher puts the policy, its signature and the package of the next *)
(* release on the server, one file after the other; only a client that has  *)
(* a policy configured ever looks.                                          *)
Publish(f) ==
    /\ configured
    /\ mirror[f] < MaxRelease
    /\ \A g \in DOMAIN mirror : mirror[f] <= mirror[g]
    /\ mirror' = [mirror EXCEPT ![f] = @ + 1]
    /\ UNCHANGED <<configured, checks, checkBusy, downloads, downloadBusy, shown, about, box,
                   boxReady, lastOk, updBlocked, version, installed, instSha, verified, queues>>

-----------------------------------------------------------------------------
(*                                  Check                                  *)

(* decide: below the minimum the update is forced, below the latest offered.*)
Decide(r) == IF version < Minimum[r] THEN "forced"
             ELSE IF version < r THEN "optional" ELSE "none"

(* AppBridge::check_update, called by the user interface.  Without a policy *)
(* it answers at once that nothing is to be done.                           *)
CheckUpdateEarly ==
    /\ checkBusy' = FALSE
    /\ checks' = IF checkBusy THEN checks ELSE Append(checks, [pc |-> "policy", rel |-> 0])

CheckUpdate ==
    IF checkBusy \/ ~configured THEN UNCHANGED <<checks, checkBusy>>
    ELSE /\ checkBusy' = TRUE
         /\ checks' = Append(checks, [pc |-> "policy", rel |-> 0])

(* The thread emits updateChecked and ends; only ok carries a policy.       *)
Report(i, st, r) ==
    /\ checks' = RemoveAt(checks, i)
    /\ events' = Append(events, [t |-> "checked", st |-> st, rel |-> r])
    /\ todo' = Append(todo, [t |-> "checkDone"])

(* update::check: first the policy, then the signature; what cannot be      *)
(* fetched is a network failure.  check_text verifies before it parses.     *)
FetchPolicy(i) ==
    /\ checks[i].pc = "policy"
    /\ \/ /\ checks' = [checks EXCEPT ![i] = [pc |-> "signature", rel |-> mirror.policy]]
          /\ UNCHANGED queues
       \/ Report(i, "network", 0)
    /\ UNCHANGED <<configured, mirror, checkBusy, downloads, downloadBusy, shown, about, box, boxReady, lastOk,
                   updBlocked, version, installed, instSha, verified>>

CheckTextUnsigned(r, sig) == "ok"
CheckText(r, sig) == IF sig = r THEN "ok" ELSE "sigbad"

FetchSignature(i) ==
    /\ checks[i].pc = "signature"
    /\ LET r == checks[i].rel
           st == CheckText(r, mirror.sig)
       IN  \/ /\ Report(i, st, IF st = "ok" THEN r ELSE 0)
              /\ verified' = IF mirror.sig = r THEN verified \cup {r} ELSE verified
           \/ Report(i, "network", 0) /\ UNCHANGED verified
    /\ UNCHANGED <<configured, mirror, checkBusy, downloads, downloadBusy, shown, about, box, boxReady, lastOk,
                   updBlocked, version, installed, instSha>>

(* The window's slot: what is offered changes with every result; a package  *)
(* that is installed already is not offered again; a bad signature or a     *)
(* forced update blocks the client and the window.  The settings dialog,    *)
(* when it is open, sets the same block from its own reading.               *)
Advice(e) ==
    IF e.st # "ok" THEN e.st
    ELSE IF Decide(e.rel) = "optional" /\ instSha = e.rel THEN "none" ELSE Decide(e.rel)

Blocks(e) == Advice(e) \in {"sigbad", "forced"}

OnChecked(e) ==
    /\ shown' = e.rel
    /\ about' = IF about = -1 THEN -1
                ELSE IF Advice(e) \in {"optional", "forced"} THEN e.rel ELSE 0
    /\ updBlocked' = IF Blocks(e) THEN TRUE ELSE IF about # -1 THEN FALSE ELSE updBlocked
    /\ box' = IF Blocks(e) THEN Advice(e) ELSE box
    /\ boxReady' = (Blocks(e) \/ boxReady)
    /\ UNCHANGED <<configured, mirror, checks, checkBusy, downloads, downloadBusy, lastOk,
                   version, installed, instSha, verified>>

(* QThread::finished, in the thread of AppBridge.                           *)
OnCheckDone ==
    /\ checkBusy' = FALSE
    /\ UNCHANGED <<configured, mirror, checks, downloads, downloadBusy, shown, about, box, boxReady, lastOk,
                   updBlocked, version, installed, instSha, verified>>

-----------------------------------------------------------------------------
(*                                 Download                                *)

(* AppBridge::download_and_install, called by the user interface; it has    *)
(* stopped the client before the thread starts.                             *)
DownloadAndInstall(r) ==
    IF downloadBusy THEN UNCHANGED <<downloads, downloadBusy>>
    ELSE /\ downloadBusy' = TRUE
         /\ downloads' = Append(downloads, [pc |-> "fetch", rel |-> r, got |-> 0])

Finish(i, ok) ==
    /\ downloads' = RemoveAt(downloads, i)
    /\ events' = Append(events, [t |-> "downloaded", ok |-> ok])
    /\ todo' = Append(todo, [t |-> "downloadDone"])

(* update::download_file: the connection may fail or close early, a write   *)
(* may fall short; what is complete is compared with the digest of the      *)
(* policy and removed when it differs.  The digest is taken of the bytes as *)
(* they arrive: the first fwrite and fclose are not looked at, and what they*)
(* lose, so that the file is shorter than what was digested, is left out.   *)
Digest(r, got) == got = r

Fetch(i) ==
    /\ downloads[i].pc = "fetch"
    /\ \/ /\ \E got \in {mirror.pkg, Corrupt} :
                 /\ Digest(downloads[i].rel, got)
                 /\ downloads' = [downloads EXCEPT ![i].pc = "install", ![i].got = got]
          /\ UNCHANGED queues
       \/ Finish(i, FALSE)
    /\ UNCHANGED <<configured, mirror, checks, checkBusy, downloadBusy, shown, about, box, boxReady, lastOk,
                   updBlocked, version, installed, instSha, verified>>

(* update::install_package: the installer is launched, or cannot be.        *)
Install(i) ==
    /\ downloads[i].pc = "install"
    /\ \/ Finish(i, TRUE) /\ installed' = downloads[i].got
       \/ Finish(i, FALSE) /\ UNCHANGED installed
    /\ UNCHANGED <<configured, mirror, checks, checkBusy, downloadBusy, shown, about, box, boxReady, lastOk,
                   updBlocked, version, instSha, verified>>

(* The window's slot; what it records as installed is what it offers now.   *)
OnDownloaded(e) ==
    /\ lastOk' = e.ok
    /\ boxReady' = (box # "none")
    /\ instSha' = IF e.ok THEN shown ELSE instSha
    /\ UNCHANGED <<configured, mirror, checks, checkBusy, downloads, downloadBusy, shown, about, box,
                   updBlocked, version, installed, verified>>

OnDownloadDone ==
    /\ downloadBusy' = FALSE
    /\ UNCHANGED <<configured, mirror, checks, checkBusy, downloads, shown, about, box, boxReady, lastOk,
                   updBlocked, version, installed, instSha, verified>>

-----------------------------------------------------------------------------
UpdaterTypeOK ==
    /\ mirror \in [{"policy", "sig", "pkg"} -> 0 .. MaxRelease]
    /\ checks \in Seq([pc: {"policy", "signature"}, rel: 0 .. MaxRelease])
    /\ downloads \in Seq([pc: {"fetch", "install"}, rel: Releases, got: 0 .. Corrupt])
    /\ {configured, checkBusy, downloadBusy, lastOk, boxReady, updBlocked} \subseteq BOOLEAN
    /\ {shown, instSha, version, installed} \subseteq 0 .. Corrupt
    /\ about \in -1 .. MaxRelease
    /\ box \in {"none", "forced", "sigbad"}
    /\ verified \subseteq 0 .. MaxRelease

(* Nothing is installed but the package of a policy that came with its own  *)
(* signature, whatever the server holds while the three files are fetched   *)
(* (update_checker.cpp checks the signature, update_fetcher.cpp the digest, *)
(* of what it received: see Fetch).                                         *)
InstalledWasSigned == installed # 0 => installed \in verified

(* A check or a download never runs twice at a time: two would write the    *)
(* same file (AppBridge.cpp: the busy flags last until the thread ended).   *)
OneThreadEach == Len(checks) <= 1 /\ Len(downloads) <= 1
=============================================================================
