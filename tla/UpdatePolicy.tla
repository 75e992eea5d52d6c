------------------------------- MODULE UpdatePolicy -------------------------------
(***************************************************************************)
(* The rules of an update policy (update/update_policy.cpp): how versions  *)
(* compare, what a policy says to one platform, and what the client makes  *)
(* of it.  Updater uses their outcome; here they are the code's own.       *)
(***************************************************************************)
EXTENDS Integers, Sequences

CONSTANT MaxSegment     \* 0xFFFF: a larger number is no segment

SegmentAssumption == MaxSegment \in Nat
ASSUME SegmentAssumption

Bad == -1               \* a segment that is empty, no number or too large
Segments == Bad .. MaxSegment

(* A version: its segments, none for the empty text.  A dot at the end      *)
(* opens no segment.                                                       *)
Versions == Seq(Segments)

(* next_segment: a missing segment counts as 0.                            *)
NextSegment(v, i) == IF i <= Len(v) THEN v[i] ELSE 0

(* compare_version: the first of three segments that differ decides; one    *)
(* that cannot be read makes the comparison fail, if it is reached.         *)
Unknown == -2

Differ(a, b, i) == \/ NextSegment(a, i) = Bad
                   \/ NextSegment(b, i) = Bad
                   \/ NextSegment(a, i) # NextSegment(b, i)

Verdict(a, b, i) == IF NextSegment(a, i) = Bad \/ NextSegment(b, i) = Bad THEN Unknown
                    ELSE IF NextSegment(a, i) < NextSegment(b, i) THEN -1 ELSE 1

CompareVersion(a, b) ==
    IF a = <<>> \/ b = <<>> THEN Unknown
    ELSE IF Differ(a, b, 1) THEN Verdict(a, b, 1)
    ELSE IF Differ(a, b, 2) THEN Verdict(a, b, 2)
    ELSE IF Differ(a, b, 3) THEN Verdict(a, b, 3)
    ELSE 0

-----------------------------------------------------------------------------
(* parse_policy: the lines that set a key, comments and lines without "="   *)
(* left out; the last line of a key counts.  What a platform does not       *)
(* declare for itself it takes from the general keys, each field for itself.*)
Unset == <<>>           \* the empty text: a field the policy does not have

Field(lines, key) ==
    LET at == {i \in DOMAIN lines : lines[i].key = key}
    IN  IF at = {} THEN Unset ELSE lines[CHOOSE i \in at : \A j \in at : j <= i].value

OwnOr(lines, own, general) ==
    IF Field(lines, own) # Unset THEN Field(lines, own) ELSE Field(lines, general)

ParsePolicy(lines) ==
    LET url == OwnOr(lines, "os_url", "url")
        sha256 == OwnOr(lines, "os_sha256", "sha256")
    IN  [latest |-> Field(lines, "latest"), minimum |-> Field(lines, "minimum"),
         url |-> url, sha256 |-> sha256,
         valid |-> Field(lines, "latest") # Unset /\ url # Unset /\ sha256 # Unset]

(* decide: the minimum forces only a client that can compare itself with    *)
(* both versions; a minimum that cannot be read forces nobody.              *)
Decision(p, current) ==
    LET latest == CompareVersion(current, p.latest)
        minimum == CompareVersion(current, p.minimum)
    IN  IF ~p.valid THEN "none"
        ELSE IF latest = Unknown THEN "optional"
        ELSE IF p.minimum # Unset /\ minimum = -1 THEN "forced"
        ELSE IF latest < 0 THEN "optional" ELSE "none"

-----------------------------------------------------------------------------
(* Versions whose first three segments can be read.                        *)
Readable == {v \in Versions : v # <<>> /\ \A i \in 1 .. 3 : NextSegment(v, i) # Bad}

Severity == [none |-> 0, optional |-> 1, forced |-> 2]
=============================================================================
