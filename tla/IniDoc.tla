--------------------------------- MODULE IniDoc ---------------------------------
(***************************************************************************)
(* config.ini as the Linux client edits it (platform/ini_doc.h, and the    *)
(* functions of Config.cpp on top of it): the file is a sequence of lines, *)
(* an operation changes the lines it is about and leaves the others, which *)
(* may be comments or keys the program does not know, where they are.      *)
(* Names are compared without regard to case.                              *)
(***************************************************************************)
EXTENDS Integers, Sequences

CONSTANTS Names,      \* names of sections and keys
          Values,     \* values of keys
          Fold,       \* Fold[n]: n in lower case
          Nothing     \* what stands before the first header, and no value

IniAssumption == Fold \in [Names \cup {Nothing} -> Names \cup {Nothing}]
ASSUME IniAssumption

Same(a, b) == Fold[a] = Fold[b]

(* A line: the header of a section, a key, a comment or anything else that  *)
(* is neither, an empty line.  A key knows the section it was read in; its  *)
(* name and value come without blanks at their ends or line breaks in them, *)
(* as load() trims them and the program writes them.                        *)
Line == [kind: {"section", "key", "comment", "empty"}, section: Names \cup {Nothing},
         key: Names \cup {Nothing}, value: Values \cup {Nothing}]
Header(s) == [kind |-> "section", section |-> s, key |-> Nothing, value |-> Nothing]
KeyValue(s, k, v) == [kind |-> "key", section |-> s, key |-> k, value |-> v]
Empty == [kind |-> "empty", section |-> Nothing, key |-> Nothing, value |-> Nothing]

Documents == Seq(Line)

Least(S) == CHOOSE i \in S : \A j \in S : i <= j
Greatest(S) == CHOOSE i \in S : \A j \in S : j <= i

Headers(d) == {i \in DOMAIN d : d[i].kind = "section"}

(* The section a line stands in: that of the last header up to it.          *)
HeaderOf(d, i) == Greatest({h \in Headers(d) : h <= i})
Owner(d, i) == IF {h \in Headers(d) : h <= i} = {} THEN Nothing
               ELSE d[HeaderOf(d, i)].section

(* load: every key of the file gets the section it stands in.               *)
Load(raw) == [i \in DOMAIN raw |->
                 IF raw[i].kind = "key" THEN [raw[i] EXCEPT !.section = Owner(raw, i)]
                                        ELSE raw[i]]

(* The text of the lines, which names no section in a key's line.           *)
Text(d) == [i \in DOMAIN d |-> IF d[i].kind = "key" THEN [d[i] EXCEPT !.section = Nothing]
                                                   ELSE d[i]]

(* The text cut short in or before its line n.  What is left of that line   *)
(* may be a comment, a header or nothing; a key has the same name or none.  *)
Remnants(l) == {Empty, [Empty EXCEPT !.kind = "comment"]} \cup {Header(s) : s \in Names}
                 \cup {[l EXCEPT !.value = v] : v \in Values \cup {Nothing}}
CutAt(d, n) == {SubSeq(Text(d), 1, n - 1)}
                 \cup {Append(SubSeq(Text(d), 1, n - 1), l) : l \in Remnants(Text(d)[n])}
Torn(d) == UNION {CutAt(d, n) : n \in DOMAIN d}

(* save: written beside the file and renamed over it.  What cannot be       *)
(* opened, written or renamed leaves the file as it was, and save() says    *)
(* so.  It looks at the stream before its buffer is flushed, and at nothing *)
(* when it is closed: what is lost there is not noticed, the torn copy      *)
(* takes the place of the file and save() says that it has written.         *)
Saves(file, d) == {[file |-> Text(d), ok |-> TRUE], [file |-> file, ok |-> FALSE]}
                    \cup {[file |-> t, ok |-> TRUE] : t \in Torn(d)}

(* A document that says of every key what a program that loads the file     *)
(* will say: what load() returns, and what set and the deletions must keep. *)
Sectioned(d) == \A i \in DOMAIN d : d[i].kind = "key" => Same(d[i].section, Owner(d, i))

-----------------------------------------------------------------------------
IsKey(l, s, k) == l.kind = "key" /\ Same(l.section, s) /\ Same(l.key, k)
Hits(d, s, k) == {i \in DOMAIN d : IsKey(d[i], s, k)}

(* get: the first line with that key counts.                               *)
Get(d, s, k, default) ==
    IF Hits(d, s, k) = {} THEN default ELSE d[Least(Hits(d, s, k))].value

Inserted(d, at, l) ==
    [i \in 1 .. Len(d) + 1 |-> IF i < at THEN d[i] ELSE IF i = at THEN l ELSE d[i - 1]]

(* insert_kv: at the end of the last section of that name; a section that   *)
(* is not there yet is appended, after an empty line.                       *)
HeadersOf(d, s) == {h \in Headers(d) : Same(d[h].section, s)}
NextHeaders(d, h) == {j \in Headers(d) : j > h}
EndOf(d, h) == IF NextHeaders(d, h) = {} THEN Len(d) + 1 ELSE Least(NextHeaders(d, h))

Apart(d) == IF d = <<>> THEN d ELSE IF d[Len(d)].kind = "empty" THEN d ELSE Append(d, Empty)

InsertKv(d, s, k, v) ==
    IF HeadersOf(d, s) = {}
    THEN Append(Append(Apart(d), Header(s)), KeyValue(s, k, v))
    ELSE Inserted(d, EndOf(d, Greatest(HeadersOf(d, s))), KeyValue(s, k, v))

(* set: the first line with that key, or a new one.                        *)
Set(d, s, k, v) ==
    IF Hits(d, s, k) = {} THEN InsertKv(d, s, k, v)
    ELSE [d EXCEPT ![Least(Hits(d, s, k))].value = v]

(* del_key, and del_section: every section of that name up to the next      *)
(* header, the comments in it included.                                    *)
DelKey(d, s, k) == SelectSeq(d, LAMBDA l : ~IsKey(l, s, k))

DelSection(d, s) ==
    LET kept == SelectSeq([i \in 1 .. Len(d) |-> i],
                          LAMBDA i : Headers(d) \cap (1 .. i) = {} \/ ~Same(Owner(d, i), s))
    IN  [n \in 1 .. Len(kept) |-> d[kept[n]]]

(* sections: the names of the headers, each once, as first written.         *)
SectionNames(d) ==
    LET firsts == SelectSeq([i \in 1 .. Len(d) |-> i],
                            LAMBDA i : /\ i \in Headers(d)
                                       /\ \A h \in Headers(d) :
                                             h < i => ~Same(d[h].section, d[i].section))
    IN  [n \in 1 .. Len(firsts) |-> d[firsts[n]].section]

-----------------------------------------------------------------------------
(* The operations of Config.cpp: each loads the file; those that change it  *)
(* give the files that may be there afterwards with what save() said, which *)
(* the deletions do not look at.  A file that cannot be opened is changed   *)
(* as if it were empty: load() answers yes all the same.                    *)
ReadAs(file) == {file, <<>>}
IniGetStr(file, s, k, default) == Get(Load(file), s, k, default)
IniSetStr(file, s, k, v) ==
    UNION {Saves(file, Set(Load(r), s, k, v)) : r \in ReadAs(file)}
IniDelKey(file, s, k) == UNION {Saves(file, DelKey(Load(r), s, k)) : r \in ReadAs(file)}
IniDelSection(file, s) == UNION {Saves(file, DelSection(Load(r), s)) : r \in ReadAs(file)}
IniSections(file) == SectionNames(Load(file))
=============================================================================
