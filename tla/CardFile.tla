------------------------------- MODULE CardFile -------------------------------
(***************************************************************************)
(* config.ini of the client as Config.cpp and QtWidgetsClass.cpp read and  *)
(* write it: numbered server sections that may have gaps, a count that may *)
(* disagree with them, the mode of the managed service and its record of   *)
(* the servers it delivered.  Every operator is one pass of the program    *)
(* over the file.  A key and a token of the user's are named by the server  *)
(* they belong to; the service issues one token for all it delivers.       *)
(***************************************************************************)
EXTENDS Integers, Sequences, FiniteSetsExt, SequencesExt

CONSTANTS Own,          \* addresses of the user's own servers
          Hired,        \* addresses the service delivers
          Service,      \* the token of the service, one for all it delivers
          None

Addrs == Own \cup Hired

Tokens == Own \cup {Service}

CardAssumption == /\ IsFiniteSet(Addrs)
                  /\ None \notin Addrs \cup {Service}
                  /\ Service \notin Addrs
                  /\ Own \cap Hired = {}
ASSUME CardAssumption

(* A server entry: [ServerN] and struct ServerEntry.  addr is ServerIP and  *)
(* ServerPort, key the pinned server key (None: the built-in one).          *)
Entry == [addr: Addrs \cup {None}, token: Tokens \cup {None}, key: Addrs \cup {None},
          tcp: BOOLEAN, managed: BOOLEAN]
Blank == [addr |-> None, token |-> None, key |-> None, tcp |-> FALSE, managed |-> FALSE]

(* The token a server takes from this client: a server of the user's own    *)
(* the one issued for it, every server of the service the service's.        *)
TokenOf(a) == IF a \in Hired THEN Service ELSE a

(* The entry as typed or delivered: the token and the key of that server.   *)
Genuine(a, m, tcp) == [addr |-> a, token |-> TokenOf(a), key |-> a, tcp |-> tcp, managed |-> m]

(* config.ini, as far as it is modelled: the sections by their numbers.     *)
IsFile(f) ==
    /\ f = [sec |-> f.sec, count |-> f.count, mode |-> f.mode, record |-> f.record,
            svc |-> f.svc, fp |-> f.fp]
    /\ IsFiniteSet(DOMAIN f.sec) /\ DOMAIN f.sec \subseteq Nat \ {0}
    /\ \A n \in DOMAIN f.sec : f.sec[n] \in Entry
    /\ f.count \in Nat /\ f.record \subseteq Hired

Sections(list) == [n \in 1 .. Len(list) |-> list[n]]

-----------------------------------------------------------------------------
(*                                  Config                                 *)

(* The elements of f with a number in P, in the order of their numbers.     *)
Rank(P, n) == Cardinality({m \in P : m < n})
Picked(f, P) == [i \in 1 .. Cardinality(P) |-> f[CHOOSE n \in P : Rank(P, n) = i - 1]]

(* The sections that name a server, in the order of their numbers.          *)
Named(ini) == {n \in DOMAIN ini.sec : ini.sec[n].addr # None}
Servers(ini) == Picked(ini.sec, Named(ini))

(* [Server] Count disagrees with the sections, or they are not 1, 2, 3...   *)
NeedRebuild(ini) == Named(ini) # 1 .. ini.count

(* Config::LoadClientConfig: what the file is after it was read.            *)
Reloaded(ini) ==
    IF NeedRebuild(ini)
    THEN [ini EXCEPT !.sec = Sections(Servers(ini)), !.count = Len(Servers(ini))]
    ELSE ini

(* ... and what the program then holds: the whole file, at that time.       *)
Snapshot(ini) == [servers |-> Servers(ini), token |-> None, mode |-> ini.mode,
                  record |-> ini.record, svc |-> ini.svc, fp |-> ini.fp]

(* Config::SaveClientConfig: sections 1 .. n are overwritten except for     *)
(* their Managed key, those beyond n deleted, every other section written   *)
(* from the snapshot.                                                       *)
Flag(ini, n) == n \in DOMAIN ini.sec /\ ini.sec[n].managed

Saved(ini, cfg) ==
    [sec |-> [n \in 1 .. Len(cfg.servers) |->
                 [cfg.servers[n] EXCEPT !.managed = Flag(ini, n)]],
     count |-> Len(cfg.servers),
     mode |-> cfg.mode, record |-> cfg.record, svc |-> cfg.svc, fp |-> cfg.fp]

-----------------------------------------------------------------------------
(*                              QtWidgetsClass                             *)

(* read_server_entries: sections 1 .. Count, a missing one reads as blank.  *)
Entries(ini) == [n \in 1 .. ini.count |-> IF n \in DOMAIN ini.sec THEN ini.sec[n] ELSE Blank]

(* write_server_entries: sections 1 .. Count replaced by the list.          *)
Rewritten(ini, list) ==
    [ini EXCEPT !.sec = [n \in (DOMAIN @ \ (1 .. ini.count)) \cup (1 .. Len(list)) |->
                            IF n <= Len(list) THEN list[n] ELSE @[n]],
                !.count = Len(list)]

(* apply_managed_servers: the entries at recorded addresses go, the new     *)
(* list follows, all of it with the one [Service] Token as it is now; a     *)
(* server that was there keeps the transport chosen on its card, a new one  *)
(* starts with TCP.                                                         *)
KeptTcp(ini, a) ==
    LET same == {n \in 1 .. ini.count : Entries(ini)[n].addr = a}
    IN  IF same = {} THEN TRUE ELSE Entries(ini)[Min(same)].tcp

Delivered(ini, a) == [Genuine(a, TRUE, KeptTcp(ini, a)) EXCEPT
                         !.token = IF ini.svc THEN Service ELSE None]

UnrecordedByFlag(ini) ==
    Picked(Entries(ini), {n \in 1 .. ini.count : ~Entries(ini)[n].managed})
Unrecorded(ini) ==
    Picked(Entries(ini), {n \in 1 .. ini.count : Entries(ini)[n].addr \notin ini.record})

WithDelivery(ini, list) ==
    [Rewritten(ini, Unrecorded(ini) \o [i \in 1 .. Len(list) |-> Delivered(ini, list[i])])
        EXCEPT !.record = Range(list)]

(* remove_managed_cards: the record stays, for the next delivery.           *)
WithoutManaged(ini) ==
    IF Len(Unrecorded(ini)) = ini.count THEN ini ELSE Rewritten(ini, Unrecorded(ini))

(* edit_card, accepted: address, name, token and key of one section; its    *)
(* Transport and Managed keys are left as they are.                         *)
WithEdited(ini, n, e) ==
    LET at == IF n \in DOMAIN ini.sec THEN ini.sec[n] ELSE Blank
        put == [e EXCEPT !.tcp = at.tcp, !.managed = at.managed]
    IN  [ini EXCEPT !.sec = [m \in DOMAIN @ \cup {n} |-> IF m = n THEN put ELSE @[m]]]

(* edit_card, deleted.                                                      *)
WithDeleted(ini, n) ==
    [ini EXCEPT !.sec = [m \in DOMAIN @ \ {n} |-> @[m]],
                !.count = IF @ = 0 THEN 0 ELSE @ - 1]

(* write_edit: the section after the last.                                  *)
WithAdded(ini, e) ==
    [ini EXCEPT !.sec = [m \in DOMAIN @ \cup {ini.count + 1} |->
                            IF m = ini.count + 1 THEN e ELSE @[m]],
                !.count = @ + 1]

(* One key of one section: the transport of a card, a token to be cleared.  *)
(* Writing to a section that does not exist creates it.                     *)
WithKey(ini, n, f, v) ==
    [ini EXCEPT !.sec = [m \in DOMAIN @ \cup {n} |->
                            LET old == IF m \in DOMAIN @ THEN @[m] ELSE Blank
                            IN  IF m = n THEN [old EXCEPT ![f] = v] ELSE old]]
=============================================================================
