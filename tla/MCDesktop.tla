------------------------------- MODULE MCDesktop -------------------------------
(* Two servers of the user's own (2 uses the built-in key), two of the        *)
(* service; the user's clicks, the news of the service and the faults come in *)
(* one of the scenarios.                                                      *)
EXTENDS Desktop, IniDoc, UpdatePolicy

File(list, mode, record, fp) ==
    [sec |-> Sections(list), count |-> Len(list), mode |-> mode, record |-> record,
     svc |-> fp, fp |-> fp]
Card(a) == [Genuine(a, a \in Hired, FALSE) EXCEPT !.key = KeyOf(a)]

OwnFile == File(<<Card(1)>>, "off", {}, FALSE)
ManagedFile(list) == File(list, "managed", {3}, TRUE)

Scenario(file, verdict, policy, beats, deeds, clicks, news, faults, starts) ==
    [ini |-> file, verdict |-> verdict, offered |-> <<3>>, policy |-> policy, beats |-> beats,
     deeds |-> deeds, clicks |-> clicks, news |-> news, faults |-> faults, starts |-> starts]

-----------------------------------------------------------------------------
(* The document below config.ini, for every file of up to three lines.        *)
MCNames == {"server1", "Server1", "tcp"}
MCNothing == ""
MCFold == [n \in MCNames \cup {MCNothing} |-> IF n = "Server1" THEN "server1" ELSE n]
MCValues == {"old", "new"}

RawLines == {Header(s) : s \in MCNames} \cup {KeyValue(Nothing, k, "old") : k \in MCNames}
              \cup {Empty, [Empty EXCEPT !.kind = "comment"]}
Files == UNION {[1 .. n -> RawLines] : n \in 0 .. 3}

(* A whole save: what is written is read back, what is deleted is gone, every *)
(* other key is as it was (IniSetStr, IniDelKey, IniDelSection of Config.cpp, *)
(* which load, change and save the file), and no section is listed twice.     *)
ASSUME ReadBack ==
    \A f \in Files :
        /\ \A s, k \in MCNames, s2, k2 \in MCNames :
            LET before == IniGetStr(f, s2, k2, Nothing)
                Is(d, v) == IniGetStr(Text(d), s2, k2, Nothing) = v
                touched == Same(s, s2) /\ Same(k, k2)
            IN  /\ Is(Set(Load(f), s, k, "new"), IF touched THEN "new" ELSE before)
                /\ Is(DelKey(Load(f), s, k), IF touched THEN Nothing ELSE before)
                /\ Is(DelSection(Load(f), s), IF Same(s, s2) THEN Nothing ELSE before)
        /\ LET names == IniSections(f)
           IN  \A i, j \in DOMAIN names : i # j => ~Same(names[i], names[j])

(* A torn one keeps what stands before the line that is cut, and some of them *)
(* lose a key nobody changed.                                                 *)
Reads(f, s, k) == IniGetStr(f, s, k, Nothing)
ASSUME TornReads ==
    /\ \A f \in Files, s, k \in MCNames :
          LET d == Load(f)
          IN  \A n \in DOMAIN d :
                 Hits(d, s, k) \cap (1 .. n - 1) # {} =>
                     \A t \in CutAt(d, n) : Reads(t, s, k) = Reads(f, s, k)
    /\ \E f \in Files, s, k, k2 \in MCNames :
          \E g \in IniSetStr(f, s, k, "new") :
             g.ok /\ ~Same(k, k2) /\ Reads(f, s, k2) # Nothing /\ Reads(g.file, s, k2) = Nothing

-----------------------------------------------------------------------------
(* compare_version over all versions of up to four segments: on readable ones *)
(* it is the order of the numbers their first three segments write, and it    *)
(* fails exactly when it reaches a segment it cannot read.                    *)
SmallVersions == UNION {[1 .. n -> Segments] : n \in 0 .. 4}
Number(v) == LET base == MaxSegment + 1
             IN  base * (base * NextSegment(v, 1) + NextSegment(v, 2)) + NextSegment(v, 3)

ASSUME VersionOrder ==
    \A a, b \in SmallVersions :
        LET answer == CompareVersion(a, b)
        IN  /\ {a, b} \subseteq Readable => /\ answer < 0 <=> Number(a) < Number(b)
                                           /\ answer = 0 <=> Number(a) = Number(b)
            /\ answer = Unknown <=>
                  \/ a = <<>> \/ b = <<>>
                  \/ \E i \in 1 .. 3 :
                        /\ Bad \in {NextSegment(a, i), NextSegment(b, i)}
                        /\ \A j \in 1 .. i - 1 : ~Differ(a, b, j)

-----------------------------------------------------------------------------
MCMinimum == <<0, 2>>
MCScenarios ==
    {\* cards are added, edited and deleted while the client connects to them
     Scenario(OwnFile, "ok", FALSE, FALSE, {"connect", "select", "add", "edit"}, 5, 0, 1, 1),
     \* a list is delivered while cards of both kinds are changed
     Scenario(ManagedFile(<<Card(3), Card(1)>>), "ok", FALSE, FALSE,
              {"apply", "transport", "edit"}, 2, 1, 0, 1),
     \* the client connects to a delivered server while the token is renewed
     Scenario(ManagedFile(<<Card(3)>>), "ok", FALSE, FALSE, {"connect", "apply"}, 3, 0, 0, 1),
     \* the service blocks and releases the device; its network fails
     Scenario(ManagedFile(<<Card(1), Card(3)>>), "ok", FALSE, TRUE, {"mode"}, 1, 2, 1, 1),
     \* a new device chooses the service and applies
     Scenario(OwnFile, "fresh", FALSE, TRUE, {"apply", "mode"}, 3, 1, 0, 1),
     \* updates, found and installed while the client connects and stops
     Scenario(OwnFile, "ok", TRUE, FALSE, {"connect", "update"}, 2, 0, 0, 1),
     \* updates over a restart
     Scenario(OwnFile, "ok", TRUE, FALSE, {"update"}, 1, 0, 0, 2)}
=============================================================================
