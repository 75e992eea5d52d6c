---------------------------- MODULE AccountingProofs ----------------------------
(***************************************************************************)
(* No byte of a managed client is billed twice and none is lost but by a    *)
(* failed write, for any number of sessions and any quota.                  *)
(*                                                                         *)
(* The module has three parts: what a sum over a finite set of sessions or  *)
(* threads does when one of them changes (SumZero, SumChanges); the shape   *)
(* of the states, which says where a thread is and what it holds (Shape);   *)
(* and, on top of it, the two sums and the cut at the quota.                *)
(***************************************************************************)
EXTENDS Accounting, FiniteSetTheorems, TLAPS

-----------------------------------------------------------------------------
(* SumFunction folds over the domain by taking one element away at a time:   *)
(* its value on every subset K of the domain is a function g that satisfies  *)
(* SumIs.  Facts about it follow from a subset where they fail first.        *)
Chosen(S) == CHOOSE x \in S : TRUE

SumIs(f, K, g) ==
    g = [S \in K |-> IF S = {} THEN 0 ELSE f[Chosen(S)] + g[S \ {Chosen(S)}]]

SumOf(f, D) == (CHOOSE g : SumIs(f, SUBSET D, g))[D]

(* A set of numbers that is not empty has a least one.                      *)
LEMMA LeastNumber ==
    ASSUME NEW T \in SUBSET Nat, T # {}
    PROVE  \E n \in T : \A m \in T : ~(m < n)
<1>1. PICK n \in T : \A m \in T : <<m, n>> \notin OpToRel(<, Nat)
    BY NatLessThanWellFounded, WFMin
<1> QED
    BY <1>1, Zenon DEF OpToRel

(* The library's sum, with its folds expanded.                              *)
LEMMA SumExpands ==
    ASSUME NEW f
    PROVE  SumFunction(f) = SumOf(f, DOMAIN f)
    BY DEF SumFunction, SumFunctionOnSet, FoldFunctionOnSet, MapThenFoldSet, SumOf, SumIs, Chosen

UpTo(D, n) == {S \in SUBSET D : Cardinality(S) <= n}

(* Taking the chosen element away leaves a smaller subset.                  *)
LEMMA ChosenOne ==
    ASSUME NEW D, IsFiniteSet(D), NEW S \in SUBSET D, S # {}
    PROVE  /\ Chosen(S) \in S /\ Chosen(S) \in D
           /\ S \ {Chosen(S)} \in SUBSET D
           /\ Cardinality(S) \in Nat /\ Cardinality(S \ {Chosen(S)}) \in Nat
           /\ Cardinality(S) = Cardinality(S \ {Chosen(S)}) + 1
<1>1. Chosen(S) \in S
    BY DEF Chosen
<1>2. IsFiniteSet(S)
    BY FS_Subset
<1>3. /\ IsFiniteSet(S \ {Chosen(S)})
      /\ Cardinality(S \ {Chosen(S)}) = Cardinality(S) - 1
    BY <1>1, <1>2, FS_RemoveElement
<1>4. Cardinality(S) \in Nat /\ Cardinality(S \ {Chosen(S)}) \in Nat
    BY <1>2, <1>3, FS_CardinalityType
<1> QED
    BY <1>1, <1>3, <1>4

(* A sum over the subsets of n elements gives one over those of n + 1.      *)
LEMMA SumExistsUpTo ==
    ASSUME NEW f, NEW D, IsFiniteSet(D), NEW n \in Nat,
           NEW g, SumIs(f, UpTo(D, n), g)
    PROVE  \E h : SumIs(f, UpTo(D, n + 1), h)
<1> DEFINE h == [S \in UpTo(D, n + 1) |->
                    IF S = {} THEN 0 ELSE f[Chosen(S)] + g[S \ {Chosen(S)}]]
<1>1. ASSUME NEW S \in UpTo(D, n) PROVE S \in UpTo(D, n + 1) /\ h[S] = g[S]
    <2>1. S \in SUBSET D /\ Cardinality(S) <= n /\ IsFiniteSet(S)
        BY FS_Subset DEF UpTo
    <2>2. Cardinality(S) \in Nat
        BY <2>1, FS_CardinalityType
    <2>3. S \in UpTo(D, n + 1)
        BY <2>1, <2>2 DEF UpTo
    <2>4. g[S] = IF S = {} THEN 0 ELSE f[Chosen(S)] + g[S \ {Chosen(S)}]
        BY DEF SumIs
    <2> QED
        BY <2>3, <2>4
<1>2. ASSUME NEW S \in UpTo(D, n + 1), S # {} PROVE S \ {Chosen(S)} \in UpTo(D, n)
    <2>1. S \in SUBSET D /\ Cardinality(S) <= n + 1
        BY DEF UpTo
    <2> QED
        BY <1>2, <2>1, ChosenOne DEF UpTo
<1>3. h = [S \in UpTo(D, n + 1) |-> IF S = {} THEN 0 ELSE f[Chosen(S)] + h[S \ {Chosen(S)}]]
    <2>1. \A S \in UpTo(D, n + 1) : S # {} => h[S \ {Chosen(S)}] = g[S \ {Chosen(S)}]
        BY <1>1, <1>2
    <2> HIDE DEF h
    <2>2. h = [S \in UpTo(D, n + 1) |->
                    IF S = {} THEN 0 ELSE f[Chosen(S)] + g[S \ {Chosen(S)}]]
        BY DEF h
    <2> QED
        BY <2>1, <2>2
<1> QED
    BY <1>3 DEF SumIs

(* The recursive equation of the sum has a solution over a finite set.      *)
LEMMA SumExists ==
    ASSUME NEW f, NEW D, IsFiniteSet(D)
    PROVE  \E g : SumIs(f, SUBSET D, g)
<1> DEFINE Bad == {n \in Nat : ~ \E g : SumIs(f, UpTo(D, n), g)}
<1>1. Bad = {}
    <2>1. SUFFICES ASSUME Bad # {} PROVE FALSE
        OBVIOUS
    <2>2. PICK n \in Bad : \A m \in Bad : ~(m < n)
        BY <2>1, LeastNumber
    <2>3. n # 0
        <3>1. \A S \in UpTo(D, 0) : S = {}
            <4> SUFFICES ASSUME NEW S \in UpTo(D, 0) PROVE S = {}
                OBVIOUS
            <4>1. S \in SUBSET D /\ Cardinality(S) <= 0 /\ IsFiniteSet(S)
                BY FS_Subset DEF UpTo
            <4>2. Cardinality(S) \in Nat
                BY <4>1, FS_CardinalityType
            <4> QED
                BY <4>1, <4>2, FS_EmptySet
        <3> DEFINE g == [S \in UpTo(D, 0) |-> 0]
        <3>2. SumIs(f, UpTo(D, 0), g)
            BY <3>1 DEF SumIs
        <3> QED
            BY <3>2
    <2>4. n - 1 \in Nat /\ n - 1 < n /\ (n - 1) + 1 = n
        BY <2>3
    <2>5. PICK g : SumIs(f, UpTo(D, n - 1), g)
        BY <2>2, <2>4
    <2>6. \E h : SumIs(f, UpTo(D, (n - 1) + 1), h)
        BY <2>4, <2>5, SumExistsUpTo
    <2> QED
        BY <2>4, <2>6
<1>2. Cardinality(D) \in Nat
    BY FS_CardinalityType
<1>3. UpTo(D, Cardinality(D)) = SUBSET D
    BY FS_Subset DEF UpTo
<1>4. \E g : SumIs(f, UpTo(D, Cardinality(D)), g)
    BY <1>1, <1>2
<1> QED
    BY <1>3, <1>4, Zenon

(* A property of subsets that fails for none when it fails for a smaller one *)
LEMMA Descent ==
    ASSUME NEW D, IsFiniteSet(D), NEW Bad \in SUBSET (SUBSET D),
           \A S \in Bad : S # {} /\ S \ {Chosen(S)} \in Bad
    PROVE  Bad = {}
<1>1. SUFFICES ASSUME Bad # {} PROVE FALSE
    OBVIOUS
<1> DEFINE T == {Cardinality(S) : S \in Bad}
<1>2. \A S \in Bad : IsFiniteSet(S) /\ Cardinality(S) \in Nat
    BY FS_Subset, FS_CardinalityType
<1>3. T \in SUBSET Nat /\ T # {}
    BY <1>1, <1>2
<1>4. PICK n \in T : \A m \in T : ~(m < n)
    BY <1>3, LeastNumber
<1>5. PICK S \in Bad : n = Cardinality(S)
    BY <1>4
<1>6. S # {} /\ S \ {Chosen(S)} \in Bad
    BY <1>5
<1>7. Cardinality(S) \in Nat /\ Cardinality(S \ {Chosen(S)}) \in Nat
      /\ Cardinality(S) = Cardinality(S \ {Chosen(S)}) + 1
    BY <1>6, ChosenOne
<1>8. Cardinality(S \ {Chosen(S)}) \in T /\ Cardinality(S \ {Chosen(S)}) < n
    BY <1>5, <1>6, <1>7
<1> QED
    BY <1>4, <1>8

(* A sum of zeros.                                                          *)
LEMMA SumZero ==
    ASSUME NEW D, IsFiniteSet(D)
    PROVE  SumFunction([x \in D |-> 0]) = 0
<1> DEFINE f == [x \in D |-> 0]
<1>1. PICK g : SumIs(f, SUBSET D, g) /\ g = CHOOSE h : SumIs(f, SUBSET D, h)
    BY SumExists
<1> DEFINE Bad == {S \in SUBSET D : g[S] # 0}
<1>2. ASSUME NEW S \in Bad PROVE S # {} /\ S \ {Chosen(S)} \in Bad
    <2>1. g[S] = IF S = {} THEN 0 ELSE f[Chosen(S)] + g[S \ {Chosen(S)}]
        BY <1>1 DEF SumIs
    <2>2. S # {}
        BY <2>1
    <2>3. f[Chosen(S)] = 0 /\ S \ {Chosen(S)} \in SUBSET D
        BY <2>2, ChosenOne
    <2> QED
        BY <2>1, <2>2, <2>3
<1>3. Bad = {}
    BY <1>2, Descent
<1>4. g[D] = 0
    BY <1>3
<1>5. SumFunction(f) = SumOf(f, D)
    BY SumExpands
<1> QED
    BY <1>1, <1>4, <1>5 DEF SumOf

(* k is f with the value v at x.                                            *)
ChangedAt(D, f, x, v, k) ==
    /\ f \in [D -> Nat] /\ k \in [D -> Nat]
    /\ x \in D /\ v \in Nat /\ k[x] = v
    /\ \A y \in D : y # x => k[y] = f[y]

(* When the value of one element changes, the sum changes by as much.       *)
LEMMA SumChanges ==
    ASSUME NEW D, IsFiniteSet(D), NEW f, NEW x, NEW v, NEW k, ChangedAt(D, f, x, v, k)
    PROVE  /\ SumFunction(f) \in Nat /\ SumFunction(k) \in Nat
           /\ SumFunction(k) + f[x] = SumFunction(f) + v
<1>0. /\ f \in [D -> Nat] /\ k \in [D -> Nat] /\ x \in D /\ v \in Nat
      /\ k[x] = v /\ \A y \in D : y # x => k[y] = f[y]
    BY DEF ChangedAt
<1>1. PICK g : SumIs(f, SUBSET D, g) /\ g = CHOOSE h : SumIs(f, SUBSET D, h)
    BY SumExists
<1>2. PICK q : SumIs(k, SUBSET D, q) /\ q = CHOOSE h : SumIs(k, SUBSET D, h)
    BY SumExists
<1> DEFINE Good(S) == /\ g[S] \in Nat /\ q[S] \in Nat
                      /\ x \notin S => q[S] = g[S]
                      /\ x \in S => q[S] + f[x] = g[S] + v
           Bad == {S \in SUBSET D : ~Good(S)}
<1>3. ASSUME NEW S \in Bad PROVE S # {} /\ S \ {Chosen(S)} \in Bad
    <2> DEFINE c == Chosen(S)
               R == S \ {c}
    <2>1. /\ g[S] = IF S = {} THEN 0 ELSE f[c] + g[R]
          /\ q[S] = IF S = {} THEN 0 ELSE k[c] + q[R]
        BY <1>1, <1>2 DEF SumIs
    <2>2. S # {}
        BY <2>1
    <2>3. c \in S /\ c \in D /\ R \in SUBSET D
        BY <2>2, ChosenOne
    <2>4. ASSUME Good(R) PROVE Good(S)
        <3>1. g[S] = f[c] + g[R] /\ q[S] = k[c] + q[R]
            BY <2>1, <2>2
        <3>2. f[c] \in Nat /\ k[c] \in Nat /\ f[x] \in Nat /\ v \in Nat
            BY <1>0, <2>3
        <3>3. g[S] \in Nat /\ q[S] \in Nat
            BY <2>4, <3>1, <3>2
        <3>4. CASE c = x
            <4>1. x \in S /\ x \notin R
                BY <2>3, <3>4
            <4>2. q[R] = g[R] /\ k[c] = v /\ f[c] = f[x]
                BY <1>0, <2>4, <3>4, <4>1
            <4> QED
                BY <2>4, <3>1, <3>2, <3>3, <4>1, <4>2
        <3>5. CASE c # x
            <4>1. k[c] = f[c] /\ (x \in S <=> x \in R)
                BY <1>0, <2>3, <3>5
            <4> QED
                BY <2>4, <3>1, <3>2, <3>3, <4>1
        <3> QED
            BY <3>4, <3>5
    <2> QED
        BY <2>2, <2>3, <2>4
<1>4. Bad = {}
    BY <1>3, Descent
<1>5. Good(D)
    BY <1>4
<1>6. SumFunction(f) = g[D] /\ SumFunction(k) = q[D]
    BY <1>0, <1>1, <1>2, SumExpands DEF SumOf
<1> QED
    BY <1>0, <1>5, <1>6
-----------------------------------------------------------------------------
(* Thread t is inside release_session.                                      *)
Releasing(t) ==
    \/ pc[t] \in {"takeout", "settle", "flag"}
    \/ pc[t] \in {"swap", "write"} /\ flushed[t] = "flag"

(* What a thread is at, at each place: a session that was admitted once it  *)
(* counts, cuts or releases, one that is out of the table once it settles   *)
(* and flags, and none otherwise.                                           *)
Placed(t) ==
    /\ pc[t] \in {"idle", "kick", "beat"} => at[t] = None
    /\ pc[t] \in {"count", "check", "cut", "takeout", "settle", "flag"} => at[t] \in Sess
    /\ pc[t] \in {"swap", "write"} => (flushed[t] = "idle" <=> at[t] = None)
    /\ at[t] \in Sess => state[at[t]] # "new"
    /\ Releasing(t) /\ pc[t] # "takeout" => state[at[t]] \in {"off", "gone"}
    /\ ~Releasing(t) => released[t] = "idle"

(* The session that is entering was never in the table, and one that was    *)
(* never in the table has counted nothing.                                  *)
Admission ==
    /\ pc["serve"] = "kick" \/ released["serve"] = "kick" => entering # None
    /\ entering # None => state[entering] = "new"
    /\ \A s \in Sess : state[s] = "new" => bytes[s] = 0 /\ ~over[s]

(* Thread t is on its way to take its session out of the table.             *)
CutAhead(t) ==
    \/ pc[t] \in {"cut", "takeout"}
    \/ pc[t] \in {"swap", "write"} /\ flushed[t] = "cut"

CutComes ==
    \A s \in Sess : state[s] = "on" /\ over[s] => \E t \in Threads : at[t] = s /\ CutAhead(t)

(* new, on, off, gone: a session never goes back.                           *)
SessionMoves ==
    \A s \in Sess :
        \/ state'[s] = state[s]
        \/ state[s] = "new" /\ state'[s] = "on"
        \/ state[s] = "on" /\ state'[s] = "off"
        \/ state[s] \in {"off", "gone"} /\ state'[s] = "gone"

(* A thread that does not move stays where it may be, whatever session      *)
(* moves.                                                                   *)
LEMMA OthersPlaced ==
    ASSUME TypeOK, SessionMoves, NEW u \in Threads, Placed(u),
           pc'[u] = pc[u], at'[u] = at[u], flushed'[u] = flushed[u], released'[u] = released[u]
    PROVE  Placed(u)'
<1>1. at[u] \in Sess \cup {None} /\ None \notin Sess
    BY AccountingAssumption DEF AccountingAssumption, TypeOK
<1>2. Releasing(u)' <=> Releasing(u)
    BY DEF Releasing
<1> QED
    BY <1>1, <1>2 DEF Placed, SessionMoves, Releasing

(* The four ways a thread moves on. *)
ThreadTypes ==
    /\ pc \in [Threads -> {"idle", "kick", "count", "check", "cut", "takeout", "settle",
                           "flag", "swap", "write", "beat"}]
    /\ at \in [Threads -> Sess \cup {None}]
    /\ flushed \in [Threads -> {"idle", "cut", "flag"}]
    /\ released \in [Threads -> {"idle", "kick", "beat"}]

Alone(t) ==
    \A u \in Threads : u # t => /\ pc'[u] = pc[u] /\ at'[u] = at[u]
                              /\ flushed'[u] = flushed[u] /\ released'[u] = released[u]

LEMMA GotoMoves ==
    ASSUME ThreadTypes, NEW t \in Threads,
           NEW l \in {"idle", "kick", "check", "settle", "flag", "write"}, Goto(t, l)
    PROVE  /\ ThreadTypes' /\ Alone(t)
           /\ pc'[t] = l /\ at'[t] = (IF l = "idle" THEN None ELSE at[t])
           /\ flushed'[t] = flushed[t] /\ released'[t] = released[t]
    BY DEF ThreadTypes, Goto, Alone

LEMMA FlushMoves ==
    ASSUME ThreadTypes, NEW t \in Threads, NEW l \in {"idle", "cut", "flag"}, Flush(t, l)
    PROVE  /\ ThreadTypes' /\ Alone(t)
           /\ pc'[t] = "swap" /\ at'[t] = at[t]
           /\ flushed'[t] = l /\ released'[t] = released[t]
    BY DEF ThreadTypes, Flush, Alone

LEMMA ReleaseMoves ==
    ASSUME ThreadTypes, NEW t \in Threads, NEW s \in Sess,
           NEW l \in {"idle", "kick", "beat"}, ReleaseSession(t, s, l)
    PROVE  /\ ThreadTypes' /\ Alone(t)
           /\ pc'[t] = "takeout" /\ at'[t] = s
           /\ flushed'[t] = flushed[t] /\ released'[t] = l
    BY DEF ThreadTypes, ReleaseSession, Alone

LEMMA FlushReturnMoves ==
    ASSUME ThreadTypes, NEW t \in Threads, FlushReturns(t)
    PROVE  /\ ThreadTypes' /\ Alone(t)
           /\ pc'[t] = flushed[t] /\ at'[t] = (IF flushed[t] = "idle" THEN None ELSE at[t])
           /\ flushed'[t] = "idle" /\ released'[t] = released[t]
    BY DEF ThreadTypes, FlushReturns, Alone

LEMMA ReleaseReturnMoves ==
    ASSUME ThreadTypes, NEW t \in Threads, ReleaseReturns(t)
    PROVE  /\ ThreadTypes' /\ Alone(t)
           /\ pc'[t] = released[t] /\ at'[t] = None
           /\ flushed'[t] = flushed[t] /\ released'[t] = "idle"
    BY DEF ThreadTypes, ReleaseReturns, Alone

DbTypes ==
    /\ used \in Nat /\ pending \in Nat /\ failed \in Nat
    /\ failures \in 0..MaxFailures
    /\ batch \in [Threads -> Nat]

SessionTypes ==
    /\ state \in [Sess -> {"new", "on", "off", "gone"}]
    /\ base \in [Sess -> 0..(Quota - 1)]
    /\ bytes \in [Sess -> Nat]
    /\ carried \in [Sess -> Nat]
    /\ over \in [Sess -> BOOLEAN]
    /\ entering \in Sess \cup {None}

InHand == \A t \in Threads : batch[t] # 0 => pc[t] = "write"

Shape ==
    /\ DbTypes /\ SessionTypes /\ ThreadTypes /\ InHand
    /\ \A t \in Threads : Placed(t)
    /\ Admission

(* The shape implies the type invariant of the run.                         *)
LEMMA ShapeIsTyped == Shape => TypeOK
    BY DEF Shape, DbTypes, SessionTypes, ThreadTypes, InHand, Admission, TypeOK

(* When one thread moves to where it may be, every thread is.               *)
LEMMA AllPlaced ==
    ASSUME Shape, SessionMoves, NEW t \in Threads, Alone(t), Placed(t)'
    PROVE  \A u \in Threads : Placed(u)'
    BY ShapeIsTyped, OthersPlaced DEF Shape, Alone

(* handle_identity: the admission starts.                                   *)
LEMMA LoginShape ==
    ASSUME Shape, NEW s \in Sess, Login(s)
    PROVE  Shape'
<1> DEFINE t == "serve"
<1>1. /\ t \in Threads /\ pc[t] = "idle" /\ state[s] = "new" /\ used < Quota
      /\ base' = [base EXCEPT ![s] = used] /\ entering' = s
      /\ UNCHANGED <<db, state, bytes, over, carried>>
    BY DEF Login, Threads
<1>2. /\ ThreadTypes' /\ Alone(t)
      /\ pc'[t] = "kick" /\ at'[t] = at[t] /\ flushed'[t] = flushed[t] /\ released'[t] = released[t]
    BY <1>1, GotoMoves DEF Shape, Login
<1> HIDE DEF t
<1>3. DbTypes'
    BY <1>1 DEF Shape, DbTypes, db
<1>4. SessionTypes'
    <2>1. used \in 0..(Quota - 1)
        BY <1>1, AccountingAssumption DEF Shape, DbTypes, AccountingAssumption
    <2> QED
        BY <1>1, <2>1 DEF Shape, SessionTypes
<1>5. InHand'
    BY <1>1, <1>2 DEF Shape, InHand, Alone, db
<1>6. SessionMoves
    BY <1>1 DEF SessionMoves
<1>7. Placed(t)'
    BY <1>1, <1>2 DEF Shape, Placed, Releasing
<1>8. \A u \in Threads : Placed(u)'
    BY <1>1, <1>2, <1>6, <1>7, AllPlaced
<1>9. Admission'
    BY <1>1, AccountingAssumption DEF Shape, Admission, AccountingAssumption
<1> QED
    BY <1>2, <1>3, <1>4, <1>5, <1>8, <1>9 DEF Shape

(* handle_identity: an old session is kicked out.                           *)
LEMMA KickOldShape ==
    ASSUME Shape, NEW s \in Sess, KickOld(s)
    PROVE  Shape'
<1> DEFINE t == "serve"
<1>1. /\ t \in Threads /\ pc[t] = "kick" /\ state[s] = "on"
      /\ UNCHANGED <<db, sessions, entering>>
    BY DEF KickOld, Threads
<1>2. /\ ThreadTypes' /\ Alone(t)
      /\ pc'[t] = "takeout" /\ at'[t] = s /\ flushed'[t] = flushed[t] /\ released'[t] = "kick"
    BY <1>1, ReleaseMoves DEF Shape, KickOld
<1>3. entering # None
    BY <1>1 DEF Shape, Admission, t
<1> HIDE DEF t
<1>4. DbTypes' /\ SessionTypes'
    BY <1>1 DEF Shape, DbTypes, SessionTypes, db, sessions
<1>5. InHand'
    BY <1>1, <1>2 DEF Shape, InHand, Alone, db
<1>6. SessionMoves
    BY <1>1 DEF SessionMoves, sessions
<1>7. Placed(t)'
    BY <1>1, <1>2, AccountingAssumption DEF Shape, Placed, Releasing, sessions, AccountingAssumption
<1>8. \A u \in Threads : Placed(u)'
    BY <1>1, <1>2, <1>6, <1>7, AllPlaced
<1>9. Admission'
    BY <1>1, <1>3 DEF Shape, Admission, sessions
<1> QED
    BY <1>2, <1>4, <1>5, <1>8, <1>9 DEF Shape

(* handle_identity: the new session is published.                           *)
LEMMA EnterShape ==
    ASSUME Shape, Enter
    PROVE  Shape'
<1> DEFINE t == "serve"
<1>1. /\ t \in Threads /\ pc[t] = "kick"
      /\ state' = [state EXCEPT ![entering] = "on"] /\ entering' = None
      /\ UNCHANGED <<db, base, bytes, over, carried>>
    BY DEF Enter, Threads
<1>2. /\ ThreadTypes' /\ Alone(t)
      /\ pc'[t] = "idle" /\ at'[t] = None /\ flushed'[t] = flushed[t] /\ released'[t] = released[t]
    BY <1>1, GotoMoves DEF Shape, Enter
<1>3. entering \in Sess /\ state[entering] = "new"
    BY <1>1 DEF Shape, SessionTypes, Admission, t
<1>3a. released["serve"] # "kick"
    BY <1>1 DEF Shape, Placed, Releasing, t
<1>9. Admission'
    <2>1. pc'["serve"] = "idle" /\ released'["serve"] # "kick"
        BY <1>2, <1>3a DEF t
    <2> QED
        BY <1>1, <1>3, <2>1 DEF Shape, SessionTypes, Admission
<1> HIDE DEF t
<1>4. DbTypes' /\ SessionTypes'
    BY <1>1, <1>3 DEF Shape, DbTypes, SessionTypes, db
<1>5. InHand'
    BY <1>1, <1>2 DEF Shape, InHand, Alone, db
<1>6. SessionMoves
    BY <1>1, <1>3 DEF SessionMoves, Shape, SessionTypes
<1>7. Placed(t)'
    BY <1>1, <1>2, AccountingAssumption DEF Shape, Placed, Releasing, AccountingAssumption
<1>8. \A u \in Threads : Placed(u)'
    BY <1>1, <1>2, <1>6, <1>7, AllPlaced
<1> QED
    BY <1>2, <1>4, <1>5, <1>8, <1>9 DEF Shape

(* The bytes of a packet.                                                    *)
LEMMA PacketShape ==
    ASSUME Shape, NEW t \in Threads,
           (\E s \in Sess : Start(t, s)) \/ Count(t) \/ Check(t) \/ Cut(t)
    PROVE  Shape'
<1>1. CASE \E s \in Sess : Start(t, s)
    <2>1. PICK s \in Sess : Start(t, s)
        BY <1>1
    <2>2. /\ pc[t] = "idle" /\ state[s] \in {"on", "off"}
          /\ pc' = [pc EXCEPT ![t] = "count"] /\ at' = [at EXCEPT ![t] = s]
          /\ UNCHANGED <<db, sessions, flushed, released, entering>>
        BY <2>1 DEF Start
    <2>3. /\ ThreadTypes' /\ Alone(t)
          /\ pc'[t] = "count" /\ at'[t] = s /\ flushed'[t] = flushed[t] /\ released'[t] = released[t]
        BY <2>2 DEF Shape, ThreadTypes, Alone
    <2>4. DbTypes' /\ SessionTypes' /\ SessionMoves
        BY <2>2 DEF Shape, DbTypes, SessionTypes, SessionMoves, db, sessions
    <2>5. InHand'
        BY <2>2, <2>3 DEF Shape, InHand, Alone, db
    <2>6. Placed(t)'
        BY <2>2, <2>3, AccountingAssumption DEF Shape, Placed, Releasing, sessions, AccountingAssumption
    <2>7. \A u \in Threads : Placed(u)'
        BY <2>3, <2>4, <2>6, AllPlaced
    <2>8. Admission'
        BY <2>2, <2>3 DEF Shape, Admission, Alone, sessions, Threads
    <2> QED
        BY <2>3, <2>4, <2>5, <2>7, <2>8 DEF Shape
<1>2. CASE Count(t)
    <2>2. /\ pc[t] = "count" /\ at[t] \in Sess /\ state[at[t]] # "new"
          /\ bytes' = [bytes EXCEPT ![at[t]] = @ + 1] /\ carried' = [carried EXCEPT ![at[t]] = @ + 1]
          /\ UNCHANGED <<db, state, base, over, entering>>
        BY <1>2 DEF Count, Shape, Placed
    <2>3. /\ ThreadTypes' /\ Alone(t)
          /\ pc'[t] = "check" /\ at'[t] = at[t] /\ flushed'[t] = flushed[t] /\ released'[t] = released[t]
        BY <1>2, GotoMoves DEF Shape, Count
    <2>4. DbTypes' /\ SessionTypes' /\ SessionMoves
        BY <2>2 DEF Shape, DbTypes, SessionTypes, SessionMoves, db
    <2>5. InHand'
        BY <2>2, <2>3 DEF Shape, InHand, Alone, db
    <2>6. Placed(t)'
        BY <2>2, <2>3, AccountingAssumption DEF Shape, Placed, Releasing, AccountingAssumption
    <2>7. \A u \in Threads : Placed(u)'
        BY <2>3, <2>4, <2>6, AllPlaced
    <2>8. Admission'
        BY <2>2, <2>3 DEF Shape, Admission, Alone, Threads, SessionTypes
    <2> QED
        BY <2>3, <2>4, <2>5, <2>7, <2>8 DEF Shape
<1>3. CASE Check(t)
    <2>2. /\ pc[t] = "check" /\ at[t] \in Sess /\ state[at[t]] # "new"
          /\ over' \in [Sess -> BOOLEAN] /\ (\A s \in Sess : s # at[t] => over'[s] = over[s])
          /\ UNCHANGED <<db, state, base, bytes, carried, entering>>
        <3>1. pc[t] = "check" /\ at[t] \in Sess /\ state[at[t]] # "new"
            BY <1>3 DEF Check, Shape, Placed
        <3>2. over' = over \/ over' = [over EXCEPT ![at[t]] = TRUE]
            BY <1>3 DEF Check
        <3>3. over' \in [Sess -> BOOLEAN]
            BY <3>2, Zenon DEF Shape, SessionTypes
        <3>4. \A s \in Sess : s # at[t] => over'[s] = over[s]
            BY <3>1, <3>2 DEF Shape, SessionTypes
        <3> QED
            BY <1>3, <3>1, <3>3, <3>4 DEF Check
    <2>3. /\ ThreadTypes' /\ Alone(t)
          /\ \/ pc'[t] = "swap" /\ at'[t] = at[t] /\ flushed'[t] = "cut"
             \/ pc'[t] = "idle" /\ at'[t] = None /\ flushed'[t] = flushed[t]
          /\ released'[t] = released[t]
        <3>1. CASE Flush(t, "cut")
            BY <3>1, FlushMoves DEF Shape
        <3>2. CASE Goto(t, "idle")
            BY <3>2, GotoMoves DEF Shape
        <3> QED
            BY <1>3, <3>1, <3>2 DEF Check
    <2>4. DbTypes' /\ SessionTypes' /\ SessionMoves
        BY <2>2 DEF Shape, DbTypes, SessionTypes, SessionMoves, db
    <2>5. InHand'
        BY <2>2, <2>3 DEF Shape, InHand, Alone, db
    <2>6. Placed(t)'
        BY <2>2, <2>3, AccountingAssumption DEF Shape, Placed, Releasing, AccountingAssumption
    <2>7. \A u \in Threads : Placed(u)'
        BY <2>3, <2>4, <2>6, AllPlaced
    <2>8. Admission'
        BY <2>2, <2>3 DEF Shape, Admission, Alone, Threads, SessionTypes
    <2> QED
        BY <2>3, <2>4, <2>5, <2>7, <2>8 DEF Shape
<1>4. CASE Cut(t)
    <2>2. /\ pc[t] = "cut" /\ at[t] \in Sess /\ state[at[t]] # "new"
          /\ UNCHANGED <<db, sessions, entering>>
        BY <1>4 DEF Cut, Shape, Placed
    <2>3. /\ ThreadTypes' /\ Alone(t)
          /\ pc'[t] = "takeout" /\ at'[t] = at[t] /\ flushed'[t] = flushed[t] /\ released'[t] = "idle"
        BY <1>4, <2>2, ReleaseMoves DEF Shape, Cut
    <2>4. DbTypes' /\ SessionTypes' /\ SessionMoves
        BY <2>2 DEF Shape, DbTypes, SessionTypes, SessionMoves, db, sessions
    <2>5. InHand'
        BY <2>2, <2>3 DEF Shape, InHand, Alone, db
    <2>6. Placed(t)'
        BY <2>2, <2>3, AccountingAssumption DEF Shape, Placed, Releasing, sessions, AccountingAssumption
    <2>7. \A u \in Threads : Placed(u)'
        BY <2>3, <2>4, <2>6, AllPlaced
    <2>8. Admission'
        BY <2>2, <2>3 DEF Shape, Admission, Alone, Threads, sessions
    <2> QED
        BY <2>3, <2>4, <2>5, <2>7, <2>8 DEF Shape
<1> QED
    BY <1>1, <1>2, <1>3, <1>4

(* release_session.                                                          *)
LEMMA ReleaseShape ==
    ASSUME Shape, NEW t \in Threads, TakeOut(t) \/ Settle(t) \/ Flag(t)
    PROVE  Shape'
<1>1. CASE TakeOut(t)
    <2>2. /\ pc[t] = "takeout" /\ at[t] \in Sess /\ state[at[t]] # "new"
          /\ \/ /\ state[at[t]] = "on" /\ state' = [state EXCEPT ![at[t]] = "off"]
                /\ Goto(t, "settle")
             \/ state' = state /\ ReleaseReturns(t)
          /\ UNCHANGED <<db, base, bytes, over, carried, entering>>
        BY <1>1 DEF TakeOut, Shape, Placed
    <2>3. /\ ThreadTypes' /\ Alone(t)
          /\ \/ pc'[t] = "settle" /\ at'[t] = at[t] /\ released'[t] = released[t]
                /\ state'[at[t]] = "off"
             \/ pc'[t] = released[t] /\ at'[t] = None /\ released'[t] = "idle"
          /\ flushed'[t] = flushed[t]
        <3>1. CASE state[at[t]] = "on" /\ state' = [state EXCEPT ![at[t]] = "off"] /\ Goto(t, "settle")
            BY <2>2, <3>1, GotoMoves DEF Shape, SessionTypes
        <3>2. CASE state' = state /\ ReleaseReturns(t)
            BY <3>2, ReleaseReturnMoves DEF Shape
        <3> QED
            BY <2>2, <3>1, <3>2
    <2>4. DbTypes' /\ SessionTypes' /\ SessionMoves
        BY <2>2 DEF Shape, DbTypes, SessionTypes, SessionMoves, db
    <2>9. released[t] \in {"idle", "kick", "beat"}
        BY DEF Shape, ThreadTypes
    <2>5. InHand'
        BY <2>2, <2>3, <2>9 DEF Shape, InHand, Alone, db
    <2>6. Placed(t)'
        BY <2>2, <2>3, <2>9, AccountingAssumption DEF Shape, Placed, Releasing, SessionTypes, AccountingAssumption
    <2>7. \A u \in Threads : Placed(u)'
        BY <2>3, <2>4, <2>6, AllPlaced
    <2>8. Admission'
        BY <2>2, <2>3, <2>4, <2>9 DEF Shape, Admission, Alone, Threads, SessionTypes, SessionMoves
    <2> QED
        BY <2>3, <2>4, <2>5, <2>7, <2>8 DEF Shape
<1>2. CASE Settle(t)
    <2>2. /\ pc[t] = "settle" /\ at[t] \in Sess /\ state[at[t]] \in {"off", "gone"}
          /\ pending' = pending + bytes[at[t]] /\ bytes' = [bytes EXCEPT ![at[t]] = 0]
          /\ Flush(t, "flag") \/ Goto(t, "flag")
          /\ UNCHANGED <<used, batch, failed, failures, state, base, over, carried, entering>>
        BY <1>2 DEF Settle, ToPending, Shape, Placed, Releasing
    <2>3. /\ ThreadTypes' /\ Alone(t)
          /\ (pc'[t] = "swap" /\ flushed'[t] = "flag") \/ (pc'[t] = "flag" /\ flushed'[t] = flushed[t])
          /\ at'[t] = at[t] /\ released'[t] = released[t]
        BY <2>2, FlushMoves, GotoMoves DEF Shape
    <2>4. DbTypes' /\ SessionTypes' /\ SessionMoves
        BY <2>2 DEF Shape, DbTypes, SessionTypes, SessionMoves
    <2>5. InHand'
        BY <2>2, <2>3 DEF Shape, InHand, Alone, db
    <2>6. Placed(t)'
        BY <2>2, <2>3, AccountingAssumption DEF Shape, Placed, Releasing, SessionTypes, sessions, AccountingAssumption
    <2>7. \A u \in Threads : Placed(u)'
        BY <2>3, <2>4, <2>6, AllPlaced
    <2>8. Admission'
        BY <2>2, <2>3 DEF Shape, Admission, Alone, Threads, SessionTypes, sessions
    <2> QED
        BY <2>3, <2>4, <2>5, <2>7, <2>8 DEF Shape
<1>3. CASE Flag(t)
    <2>2. /\ pc[t] = "flag" /\ at[t] \in Sess /\ state[at[t]] \in {"off", "gone"}
          /\ state' = [state EXCEPT ![at[t]] = "gone"]
          /\ UNCHANGED <<db, base, bytes, over, carried, entering>>
        BY <1>3 DEF Flag, Shape, Placed, Releasing
    <2>3. /\ ThreadTypes' /\ Alone(t)
          /\ pc'[t] = released[t] /\ at'[t] = None /\ flushed'[t] = flushed[t] /\ released'[t] = "idle"
        BY <1>3, ReleaseReturnMoves DEF Shape, Flag
    <2>4. DbTypes' /\ SessionTypes' /\ SessionMoves
        BY <2>2 DEF Shape, DbTypes, SessionTypes, SessionMoves, db
    <2>9. released[t] \in {"idle", "kick", "beat"}
        BY DEF Shape, ThreadTypes
    <2>5. InHand'
        BY <2>2, <2>3, <2>9 DEF Shape, InHand, Alone, db
    <2>6. Placed(t)'
        BY <2>2, <2>3, <2>9, AccountingAssumption DEF Shape, Placed, Releasing, SessionTypes, AccountingAssumption
    <2>7. \A u \in Threads : Placed(u)'
        BY <2>3, <2>4, <2>6, AllPlaced
    <2>8. Admission'
        BY <2>2, <2>3, <2>4, <2>9 DEF Shape, Admission, Alone, Threads, SessionTypes, SessionMoves
    <2> QED
        BY <2>3, <2>4, <2>5, <2>7, <2>8 DEF Shape
<1> QED
    BY <1>1, <1>2, <1>3

(* ServiceDB::flush.                                                         *)
LEMMA FlushShape ==
    ASSUME Shape, NEW t \in Threads, Swap(t) \/ Write(t)
    PROVE  Shape'
<1>0. at[t] \in Sess \cup {None} /\ flushed[t] \in {"idle", "cut", "flag"}
    BY DEF Shape, ThreadTypes
<1>1. CASE Swap(t)
    <2>2. /\ pc[t] = "swap" /\ batch' = [batch EXCEPT ![t] = pending] /\ pending' = 0
          /\ UNCHANGED <<used, failed, failures, sessions, entering>>
        BY <1>1 DEF Swap
    <2>3. /\ ThreadTypes' /\ Alone(t)
          /\ pc'[t] = "write" /\ at'[t] = at[t] /\ flushed'[t] = flushed[t] /\ released'[t] = released[t]
        BY <1>1, GotoMoves DEF Shape, Swap
    <2>4. DbTypes' /\ SessionTypes' /\ SessionMoves
        BY <2>2 DEF Shape, DbTypes, SessionTypes, SessionMoves, sessions
    <2>5. InHand'
        BY <2>2, <2>3 DEF Shape, InHand, Alone, DbTypes
    <2>6. Placed(t)'
        BY <1>0, <2>2, <2>3, AccountingAssumption DEF Shape, Placed, Releasing, sessions, AccountingAssumption
    <2>7. \A u \in Threads : Placed(u)'
        BY <2>3, <2>4, <2>6, AllPlaced
    <2>8. Admission'
        BY <2>2, <2>3 DEF Shape, Admission, Alone, Threads, sessions
    <2> QED
        BY <2>3, <2>4, <2>5, <2>7, <2>8 DEF Shape
<1>2. CASE Write(t)
    <2>2. /\ pc[t] = "write" /\ batch' = [batch EXCEPT ![t] = 0]
          /\ \/ used' = used + batch[t] /\ failed' = failed /\ failures' = failures
             \/ used' = used /\ failed' = failed + batch[t] /\ failures' = failures + 1
                /\ failures < MaxFailures
          /\ UNCHANGED <<pending, sessions, entering>>
        BY <1>2 DEF Write
    <2>3. /\ ThreadTypes' /\ Alone(t)
          /\ pc'[t] = flushed[t] /\ at'[t] = (IF flushed[t] = "idle" THEN None ELSE at[t])
          /\ flushed'[t] = "idle" /\ released'[t] = released[t]
        BY <1>2, FlushReturnMoves DEF Shape, Write
    <2>4. DbTypes' /\ SessionTypes' /\ SessionMoves
        <3>1. batch[t] \in Nat /\ MaxFailures \in Nat
            BY AccountingAssumption DEF Shape, DbTypes, AccountingAssumption
        <3> QED
            BY <2>2, <3>1 DEF Shape, DbTypes, SessionTypes, SessionMoves, sessions
    <2>5. InHand'
        BY <2>2, <2>3 DEF Shape, InHand, Alone, DbTypes
    <2>6. Placed(t)'
        BY <1>0, <2>2, <2>3, AccountingAssumption DEF Shape, Placed, Releasing, sessions, AccountingAssumption
    <2>7. \A u \in Threads : Placed(u)'
        BY <2>3, <2>4, <2>6, AllPlaced
    <2>8. Admission'
        BY <1>0, <2>2, <2>3 DEF Shape, Admission, Alone, Threads, sessions
    <2> QED
        BY <2>3, <2>4, <2>5, <2>7, <2>8 DEF Shape
<1> QED
    BY <1>1, <1>2

(* heartbeat_work.                                                          *)
LEMMA HeartbeatShape ==
    ASSUME Shape, FlushBeat \/ (\E s \in Sess : Beat(s) \/ TimeOut(s))
    PROVE  Shape'
<1> DEFINE t == "heartbeat"
<1>0. t \in Threads
    BY DEF Threads
<1>1. CASE FlushBeat
    <2>2. pc[t] = "beat" /\ UNCHANGED <<db, sessions, entering>>
        BY <1>1 DEF FlushBeat
    <2>3. /\ ThreadTypes' /\ Alone(t)
          /\ pc'[t] = "swap" /\ at'[t] = at[t] /\ flushed'[t] = "idle" /\ released'[t] = released[t]
        BY <1>0, <1>1, FlushMoves DEF Shape, FlushBeat
    <2>4. DbTypes' /\ SessionTypes' /\ SessionMoves
        BY <2>2 DEF Shape, DbTypes, SessionTypes, SessionMoves, db, sessions
    <2>5. InHand'
        BY <2>2, <2>3 DEF Shape, InHand, Alone, db
    <2>6. Placed(t)'
        BY <1>0, <2>2, <2>3, AccountingAssumption DEF Shape, Placed, Releasing, sessions, AccountingAssumption
    <2>7. \A u \in Threads : Placed(u)'
        BY <1>0, <2>3, <2>4, <2>6, AllPlaced
    <2>8. Admission'
        BY <2>2, <2>3 DEF Shape, Admission, Alone, Threads, sessions
    <2> QED
        BY <2>3, <2>4, <2>5, <2>7, <2>8 DEF Shape
<1>2. ASSUME NEW s \in Sess, TimeOut(s) PROVE Shape'
    <2>2. pc[t] = "idle" /\ state[s] = "on" /\ UNCHANGED <<db, sessions, entering>>
        BY <1>2 DEF TimeOut
    <2>3. /\ ThreadTypes' /\ Alone(t)
          /\ pc'[t] = "takeout" /\ at'[t] = s /\ flushed'[t] = flushed[t] /\ released'[t] = "idle"
        BY <1>0, <1>2, ReleaseMoves DEF Shape, TimeOut
    <2>4. DbTypes' /\ SessionTypes' /\ SessionMoves
        BY <2>2 DEF Shape, DbTypes, SessionTypes, SessionMoves, db, sessions
    <2>5. InHand'
        BY <2>2, <2>3 DEF Shape, InHand, Alone, db
    <2>6. Placed(t)'
        BY <1>0, <2>2, <2>3, AccountingAssumption DEF Shape, Placed, Releasing, sessions, AccountingAssumption
    <2>7. \A u \in Threads : Placed(u)'
        BY <1>0, <2>3, <2>4, <2>6, AllPlaced
    <2>8. Admission'
        BY <2>2, <2>3 DEF Shape, Admission, Alone, Threads, sessions
    <2> QED
        BY <2>3, <2>4, <2>5, <2>7, <2>8 DEF Shape
<1>3. ASSUME NEW s \in Sess, Beat(s) PROVE Shape'
    <2>2. /\ pc[t] = "idle" /\ state[s] = "on"
          /\ pending' = pending + bytes[s] /\ bytes' = [bytes EXCEPT ![s] = 0]
          /\ UNCHANGED <<used, batch, failed, failures, state, base, over, carried, entering>>
        BY <1>3 DEF Beat, ToPending
    <2>3. /\ ThreadTypes' /\ Alone(t)
          /\ \/ pc'[t] = "takeout" /\ at'[t] = s /\ flushed'[t] = flushed[t] /\ released'[t] = "beat"
             \/ pc'[t] = "swap" /\ at'[t] = at[t] /\ flushed'[t] = "idle" /\ released'[t] = released[t]
        BY <1>0, <1>3, ReleaseMoves, FlushMoves DEF Shape, Beat
    <2>4. DbTypes' /\ SessionTypes' /\ SessionMoves
        BY <2>2 DEF Shape, DbTypes, SessionTypes, SessionMoves
    <2>5. InHand'
        BY <2>2, <2>3 DEF Shape, InHand, Alone
    <2>6. Placed(t)'
        BY <1>0, <2>2, <2>3, AccountingAssumption DEF Shape, Placed, Releasing, AccountingAssumption
    <2>7. \A u \in Threads : Placed(u)'
        BY <1>0, <2>3, <2>4, <2>6, AllPlaced
    <2>8. Admission'
        BY <2>2, <2>3 DEF Shape, Admission, Alone, Threads, SessionTypes
    <2> QED
        BY <2>3, <2>4, <2>5, <2>7, <2>8 DEF Shape
<1> QED
    BY <1>1, <1>2, <1>3

(* Every step keeps the shape.                                              *)
LEMMA ShapeNext == Shape /\ [Next]_vars => Shape'
<1> SUFFICES ASSUME Shape, [Next]_vars PROVE Shape'
    OBVIOUS
<1>1. CASE UNCHANGED vars
    BY <1>1 DEF Shape, DbTypes, SessionTypes, ThreadTypes, InHand, Placed, Releasing, Admission,
                vars, db, sessions, threads
<1> QED
    BY <1>1, LoginShape, KickOldShape, EnterShape, PacketShape, ReleaseShape, FlushShape, HeartbeatShape
    DEF Next, Continue

(* The first state has it.                                                  *)
LEMMA ShapeInit == Init => Shape
<1> SUFFICES ASSUME Init PROVE Shape
    OBVIOUS
<1>1. DbTypes
    BY AccountingAssumption DEF Init, DbTypes, AccountingAssumption
<1>2. SessionTypes
    BY AccountingAssumption DEF Init, SessionTypes, AccountingAssumption
<1>3. ThreadTypes /\ InHand
    BY DEF Init, ThreadTypes, InHand
<1>4. ASSUME NEW t \in Threads PROVE Placed(t)
    BY AccountingAssumption DEF Init, Placed, Releasing, AccountingAssumption
<1>5. Admission
    BY DEF Init, Admission, Threads
<1> QED
    BY <1>1, <1>2, <1>3, <1>4, <1>5 DEF Shape

(* The sum over the sessions,                                               *)
LEMMA SessionSum ==
    ASSUME NEW f, NEW s, NEW v, NEW k, ChangedAt(Sess, f, s, v, k)
    PROVE  /\ SumFunction(f) \in Nat /\ SumFunction(k) \in Nat
           /\ SumFunction(k) + f[s] = SumFunction(f) + v
<1>1. IsFiniteSet(Sess)
    BY AccountingAssumption DEF AccountingAssumption
<1> QED
    BY <1>1, SumChanges

(* a number,                                                                *)
LEMMA SumIsNat ==
    ASSUME NEW f \in [Sess -> Nat]
    PROVE  SumFunction(f) \in Nat
<1>1. CASE Sess = {}
    <2>1. SumFunction([x \in Sess |-> 0]) = 0
        BY SumZero, AccountingAssumption DEF AccountingAssumption
    <2>2. f = [x \in Sess |-> 0]
        BY <1>1
    <2> QED
        BY <2>1, <2>2
<1>2. CASE Sess # {}
    <2>1. PICK s \in Sess : TRUE
        BY <1>2
    <2>2. ChangedAt(Sess, f, s, f[s], f)
        BY <2>1 DEF ChangedAt
    <2> QED
        BY <2>2, SessionSum
<1> QED
    BY <1>1, <1>2

LEMMA ThreadsAreFinite == IsFiniteSet(Threads)
<1>1. IsFiniteSet({})
    BY FS_EmptySet
<1>2. IsFiniteSet({} \cup {"serve"})
    BY <1>1, FS_AddElement
<1>3. IsFiniteSet(({} \cup {"serve"}) \cup {"send"})
    BY <1>2, FS_AddElement
<1>4. IsFiniteSet((({} \cup {"serve"}) \cup {"send"}) \cup {"heartbeat"})
    BY <1>3, FS_AddElement
<1>5. Threads = (({} \cup {"serve"}) \cup {"send"}) \cup {"heartbeat"}
    BY DEF Threads
<1> QED
    BY <1>4, <1>5

(* and the sum over the threads,                                            *)
LEMMA ThreadSum ==
    ASSUME NEW f, NEW t, NEW v, NEW k, ChangedAt(Threads, f, t, v, k)
    PROVE  /\ SumFunction(f) \in Nat /\ SumFunction(k) \in Nat
           /\ SumFunction(k) + f[t] = SumFunction(f) + v
    BY ThreadsAreFinite, SumChanges

(* a number too.                                                            *)
LEMMA BatchIsNat ==
    ASSUME NEW f \in [Threads -> Nat]
    PROVE  SumFunction(f) \in Nat
<1>1. "serve" \in Threads
    BY DEF Threads
<1>2. ChangedAt(Threads, f, "serve", f["serve"], f)
    BY <1>1 DEF ChangedAt
<1> QED
    BY <1>2, ThreadSum

(* A counter that is collected joins the pending bytes.                      *)
LEMMA Collected ==
    ASSUME Shape, BilledOnce, NEW s \in Sess, ToPending(s),
           UNCHANGED <<used, batch, failed, carried>>
    PROVE  BilledOnce'
<1>1. /\ bytes \in [Sess -> Nat] /\ pending' = pending + bytes[s]
      /\ bytes' = [bytes EXCEPT ![s] = 0]
    BY DEF Shape, SessionTypes, ToPending
<1>2. /\ SumFunction(bytes) \in Nat /\ SumFunction(bytes') \in Nat
      /\ SumFunction(bytes') + bytes[s] = SumFunction(bytes) + 0
    <2>1. ChangedAt(Sess, bytes, s, 0, bytes')
        BY <1>1 DEF ChangedAt
    <2> QED
        BY <2>1, SessionSum
<1>3. bytes[s] \in Nat /\ used \in Nat /\ pending \in Nat /\ failed \in Nat
    BY <1>1 DEF Shape, DbTypes
<1>4. SumFunction(batch) \in Nat
    BY BatchIsNat DEF Shape, DbTypes
<1>5. SumFunction(carried) = used + pending + failed + SumFunction(batch) + SumFunction(bytes)
    BY DEF BilledOnce
<1>6. SumFunction(carried)
        = used + (pending + bytes[s]) + failed + SumFunction(batch) + SumFunction(bytes')
    BY <1>2, <1>3, <1>4, <1>5
<1> QED
    BY <1>1, <1>6 DEF BilledOnce

(* Every step moves bytes from one place to another, and counts both sums   *)
(* alike.                                                                   *)
LEMMA BilledNext == Shape /\ BilledOnce /\ [Next]_vars => BilledOnce'
<1> SUFFICES ASSUME Shape, BilledOnce, [Next]_vars PROVE BilledOnce'
    OBVIOUS
<1>0. /\ used \in Nat /\ pending \in Nat /\ failed \in Nat
      /\ bytes \in [Sess -> Nat] /\ carried \in [Sess -> Nat] /\ batch \in [Threads -> Nat]
    BY DEF Shape, DbTypes, SessionTypes
<1>1. SumFunction(batch) \in Nat
    BY <1>0, BatchIsNat
<1>2. SumFunction(carried) = used + pending + failed + SumFunction(batch) + SumFunction(bytes)
    BY DEF BilledOnce
<1>3. ASSUME UNCHANGED <<used, pending, failed, batch, bytes, carried>> PROVE BilledOnce'
    BY <1>2, <1>3 DEF BilledOnce
<1>4. ASSUME NEW t \in Threads, Count(t) PROVE BilledOnce'
    <2> DEFINE s == at[t]
    <2>1. s \in Sess
        BY <1>4 DEF Count, Shape, Placed
    <2>2. /\ bytes' = [bytes EXCEPT ![s] = bytes[s] + 1]
          /\ carried' = [carried EXCEPT ![s] = carried[s] + 1]
          /\ UNCHANGED <<used, pending, failed, batch>>
        BY <1>4 DEF Count, db
    <2> HIDE DEF s
    <2>3. bytes[s] \in Nat /\ carried[s] \in Nat /\ bytes[s] + 1 \in Nat /\ carried[s] + 1 \in Nat
        BY <1>0, <2>1
    <2>4. /\ SumFunction(bytes) \in Nat /\ SumFunction(bytes') \in Nat
          /\ SumFunction(bytes') + bytes[s] = SumFunction(bytes) + (bytes[s] + 1)
        <3>1. ChangedAt(Sess, bytes, s, bytes[s] + 1, bytes')
            BY <1>0, <2>1, <2>2, <2>3 DEF ChangedAt
        <3> QED
            BY <3>1, SessionSum
    <2>5. /\ SumFunction(carried) \in Nat /\ SumFunction(carried') \in Nat
          /\ SumFunction(carried') + carried[s] = SumFunction(carried) + (carried[s] + 1)
        <3>1. ChangedAt(Sess, carried, s, carried[s] + 1, carried')
            BY <1>0, <2>1, <2>2, <2>3 DEF ChangedAt
        <3> QED
            BY <3>1, SessionSum
    <2>6. SumFunction(bytes') = SumFunction(bytes) + 1 /\ SumFunction(carried') = SumFunction(carried) + 1
        BY <2>3, <2>4, <2>5
    <2>7. SumFunction(carried')
            = used + pending + failed + SumFunction(batch) + SumFunction(bytes')
        BY <1>0, <1>1, <1>2, <2>4, <2>5, <2>6
    <2> QED
        BY <2>2, <2>7 DEF BilledOnce
<1>5. ASSUME NEW t \in Threads, Settle(t) PROVE BilledOnce'
    <2>1. at[t] \in Sess
        BY <1>5 DEF Settle, Shape, Placed
    <2> QED
        BY <1>5, <2>1, Collected DEF Settle
<1>6. ASSUME NEW s \in Sess, Beat(s) PROVE BilledOnce'
    BY <1>6, Collected DEF Beat
<1>7. ASSUME NEW t \in Threads, Swap(t) PROVE BilledOnce'
    <2>1. /\ batch' = [batch EXCEPT ![t] = pending] /\ pending' = 0
          /\ UNCHANGED <<used, failed, bytes, carried>>
        BY <1>7 DEF Swap, sessions
    <2>2. batch[t] = 0
        BY <1>0, <1>7 DEF Shape, InHand, Swap
    <2>3. SumFunction(batch') \in Nat /\ SumFunction(batch') + 0 = SumFunction(batch) + pending
        <3>1. ChangedAt(Threads, batch, t, pending, batch')
            BY <1>0, <2>1 DEF ChangedAt
        <3> QED
            BY <2>2, <3>1, ThreadSum
    <2>4. SumFunction(bytes) \in Nat
        BY <1>0, SumIsNat
    <2>5. SumFunction(carried)
            = used + 0 + failed + SumFunction(batch') + SumFunction(bytes)
        BY <1>0, <1>1, <1>2, <2>3, <2>4
    <2> QED
        BY <2>1, <2>5 DEF BilledOnce
<1>8. ASSUME NEW t \in Threads, Write(t) PROVE BilledOnce'
    <2>1. /\ batch' = [batch EXCEPT ![t] = 0]
          /\ \/ used' = used + batch[t] /\ failed' = failed
             \/ used' = used /\ failed' = failed + batch[t]
          /\ UNCHANGED <<pending, bytes, carried>>
        BY <1>8 DEF Write, sessions
    <2>2. batch[t] \in Nat
        BY <1>0
    <2>3. SumFunction(batch') \in Nat /\ SumFunction(batch') + batch[t] = SumFunction(batch) + 0
        <3>1. ChangedAt(Threads, batch, t, 0, batch')
            BY <1>0, <2>1 DEF ChangedAt
        <3> QED
            BY <3>1, ThreadSum
    <2>4. SumFunction(bytes) \in Nat
        BY <1>0, SumIsNat
    <2>5. SumFunction(carried)
            = used' + pending + failed' + SumFunction(batch') + SumFunction(bytes)
        BY <1>0, <1>1, <1>2, <2>1, <2>2, <2>3, <2>4
    <2> QED
        BY <2>1, <2>5 DEF BilledOnce
<1>9. CASE UNCHANGED vars
    BY <1>3, <1>9 DEF vars, db, sessions
<1>10. ASSUME NEW s \in Sess, Login(s) \/ KickOld(s) \/ TimeOut(s) PROVE BilledOnce'
    BY <1>3, <1>10 DEF Login, KickOld, TimeOut, db, sessions
<1>11. CASE Enter \/ FlushBeat
    BY <1>3, <1>11 DEF Enter, FlushBeat, db, sessions
<1>12. ASSUME NEW t \in Threads, (\E s \in Sess : Start(t, s)) \/ Check(t) \/ Cut(t) \/ TakeOut(t) \/ Flag(t)
       PROVE  BilledOnce'
    BY <1>3, <1>12 DEF Start, Check, Cut, TakeOut, Flag, db, sessions
<1> QED
    BY <1>4, <1>5, <1>6, <1>7, <1>8, <1>9, <1>10, <1>11, <1>12 DEF Next, Continue

(* A session over its quota has a thread on its way to cut it, and one that *)
(* no thread is at work on is below it.                                     *)
LEMMA CounterNext ==
    Shape /\ CutComes /\ CounterUnderQuota /\ [Next]_vars => CutComes' /\ CounterUnderQuota'
<1> SUFFICES ASSUME Shape, CutComes, CounterUnderQuota, [Next]_vars
             PROVE  CutComes' /\ CounterUnderQuota'
    OBVIOUS
<1>0. /\ ThreadTypes /\ SessionTypes /\ (\A t \in Threads : Placed(t)) /\ None \notin Sess
      /\ Quota \in Nat
    BY AccountingAssumption DEF Shape, AccountingAssumption
<1>1. ASSUME NEW t \in Threads, Alone(t),
             \A s \in Sess : state'[s] = "on" => state[s] = "on",
             \A s \in Sess : state'[s] = "on" /\ over'[s] /\ ~over[s] => at'[t] = s /\ CutAhead(t)',
             \A s \in Sess : state'[s] = "on" /\ at[t] = s /\ CutAhead(t) => at'[t] = s /\ CutAhead(t)'
      PROVE  CutComes'
    <2> SUFFICES ASSUME NEW s \in Sess, state'[s] = "on", over'[s]
                 PROVE  \E u \in Threads : at'[u] = s /\ CutAhead(u)'
        BY DEF CutComes
    <2>1. CASE ~over[s]
        BY <1>1, <2>1
    <2>2. CASE over[s]
        <3>1. PICK u \in Threads : at[u] = s /\ CutAhead(u)
            BY <1>1, <2>2 DEF CutComes
        <3>2. CASE u = t
            BY <1>1, <3>1, <3>2
        <3>3. CASE u # t
            BY <1>1, <3>1, <3>3 DEF Alone, CutAhead
        <3> QED
            BY <3>2, <3>3
    <2> QED
        BY <2>1, <2>2
<1>2. ASSUME NEW t \in Threads, Alone(t),
             \A s \in Sess : state'[s] = "on" => state[s] = "on" /\ base'[s] = base[s],
             \A s \in Sess : bytes'[s] \in {0, bytes[s]} \/ (at'[t] = s /\ pc'[t] # "idle"),
             \A s \in Sess : state'[s] = "on" /\ at[t] = s /\ pc[t] # "idle" =>
                \/ at'[t] = s /\ pc'[t] # "idle"
                \/ base'[s] + bytes'[s] < Quota
                \/ \E u \in Threads : u # t /\ at[u] = s /\ pc[u] # "idle"
      PROVE  CounterUnderQuota'
    <2> SUFFICES ASSUME NEW s \in Sess, state'[s] = "on",
                        \A u \in Threads : ~(at'[u] = s /\ pc'[u] # "idle")
                 PROVE  base'[s] + bytes'[s] < Quota
        BY DEF CounterUnderQuota, AtWork
    <2>0. base[s] \in 0..(Quota - 1) /\ bytes[s] \in Nat
        BY <1>0 DEF SessionTypes
    <2>1. bytes'[s] \in {0, bytes[s]} /\ state[s] = "on" /\ base'[s] = base[s]
        BY <1>2
    <2>2. CASE bytes'[s] = 0
        BY <1>0, <2>0, <2>1, <2>2
    <2>3. CASE AtWork(s)
        <3>1. PICK u \in Threads : at[u] = s /\ pc[u] # "idle"
            BY <2>3 DEF AtWork
        <3>2. \A w \in Threads : w # t => ~(at[w] = s /\ pc[w] # "idle")
            BY <1>2 DEF Alone
        <3>3. u = t
            BY <3>1, <3>2
        <3> QED
            BY <1>2, <3>1, <3>2, <3>3
    <2>4. CASE ~AtWork(s) /\ bytes'[s] = bytes[s]
        <3>1. base[s] + bytes[s] < Quota
            BY <2>1, <2>4 DEF CounterUnderQuota
        <3> QED
            BY <2>1, <2>4, <3>1
    <2> QED
        BY <2>1, <2>2, <2>3, <2>4
<1>3. ASSUME NEW t \in Threads, Alone(t), over' = over,
             \A s \in Sess : state'[s] = "on" => state[s] = "on" /\ base'[s] = base[s],
             \A s \in Sess : bytes'[s] \in {0, bytes[s]},
             at[t] \in Sess /\ state'[at[t]] = "on" =>
                at'[t] = at[t] /\ pc'[t] # "idle" /\ (CutAhead(t) => CutAhead(t)')
      PROVE  CutComes' /\ CounterUnderQuota'
    <2>1. CutComes'
        BY <1>1, <1>3
    <2>2. CounterUnderQuota'
        BY <1>2, <1>3
    <2> QED
        BY <2>1, <2>2
<1>4. ASSUME NEW s \in Sess, Login(s) PROVE CutComes' /\ CounterUnderQuota'
    <2> DEFINE t == "serve"
    <2>1. /\ t \in Threads /\ at[t] = None /\ state[s] = "new"
          /\ base' = [base EXCEPT ![s] = used] /\ UNCHANGED <<state, bytes, over>>
        BY <1>0, <1>4 DEF Login, Threads, Placed
    <2>2. Alone(t)
        BY <1>0, <1>4, <2>1, GotoMoves DEF Login
    <2>3. \A r \in Sess : state'[r] = "on" => state[r] = "on" /\ base'[r] = base[r]
        BY <1>0, <2>1 DEF SessionTypes
    <2> HIDE DEF t
    <2> QED
        BY <1>0, <1>3, <2>1, <2>2, <2>3
<1>5. ASSUME NEW s \in Sess, KickOld(s) PROVE CutComes' /\ CounterUnderQuota'
    <2> DEFINE t == "serve"
    <2>1. t \in Threads /\ at[t] = None /\ UNCHANGED <<state, base, bytes, over>>
        BY <1>0, <1>5 DEF KickOld, Threads, Placed, sessions
    <2>2. Alone(t)
        BY <1>0, <1>5, <2>1, ReleaseMoves DEF KickOld
    <2> HIDE DEF t
    <2> QED
        BY <1>0, <1>3, <2>1, <2>2
<1>6. CASE Enter
    <2>1. /\ entering \in Sess /\ state[entering] = "new" /\ state' = [state EXCEPT ![entering] = "on"]
          /\ \A s \in Sess : state[s] # "on"
          /\ UNCHANGED <<base, bytes, over>>
        BY <1>0, <1>6 DEF Enter, Shape, Admission, SessionTypes
    <2>2. bytes[entering] = 0 /\ ~over[entering]
        BY <2>1 DEF Shape, Admission
    <2>3. \A s \in Sess : state'[s] = "on" => s = entering
        BY <1>0, <2>1 DEF SessionTypes
    <2>4. CutComes'
        BY <2>1, <2>2, <2>3 DEF CutComes
    <2>5. base[entering] \in 0..(Quota - 1)
        BY <1>0, <2>1 DEF SessionTypes
    <2>6. base[entering] + bytes[entering] < Quota
        BY <1>0, <2>2, <2>5
    <2>7. CounterUnderQuota'
        BY <2>1, <2>3, <2>6 DEF CounterUnderQuota
    <2> QED
        BY <2>4, <2>7
<1>7. ASSUME NEW t \in Threads, NEW s \in Sess, Start(t, s) PROVE CutComes' /\ CounterUnderQuota'
    <2>1. at[t] = None /\ UNCHANGED <<state, base, bytes, over>>
        BY <1>0, <1>7 DEF Start, Placed, sessions
    <2>2. Alone(t)
        BY <1>0, <1>7 DEF Start, ThreadTypes, Alone
    <2> QED
        BY <1>0, <1>3, <2>1, <2>2
<1>8. ASSUME NEW t \in Threads, Count(t) PROVE CutComes' /\ CounterUnderQuota'
    <2>1. /\ pc[t] = "count" /\ at[t] \in Sess /\ UNCHANGED <<state, base, over>>
          /\ \A s \in Sess : s # at[t] => bytes'[s] = bytes[s]
        BY <1>0, <1>8 DEF Count, Placed, SessionTypes
    <2>2. Alone(t) /\ pc'[t] = "check" /\ at'[t] = at[t]
        BY <1>0, <1>8, GotoMoves DEF Count
    <2>3. CutComes'
        BY <1>1, <2>1, <2>2 DEF CutAhead
    <2>4. CounterUnderQuota'
        BY <1>2, <2>1, <2>2
    <2> QED
        BY <2>3, <2>4
<1>9. ASSUME NEW t \in Threads, Check(t) PROVE CutComes' /\ CounterUnderQuota'
    <2>1. pc[t] = "check" /\ at[t] \in Sess /\ ~CutAhead(t) /\ UNCHANGED <<state, base, bytes>>
        BY <1>0, <1>9 DEF Check, Placed, CutAhead
    <2>2. CASE ~over[at[t]] /\ AtQuota(at[t])
        <3>1. over' = [over EXCEPT ![at[t]] = TRUE] /\ Flush(t, "cut")
            BY <1>9, <2>2 DEF Check
        <3>2. Alone(t) /\ pc'[t] = "swap" /\ flushed'[t] = "cut" /\ at'[t] = at[t]
            BY <1>0, <3>1, FlushMoves
        <3>3. \A s \in Sess : s # at[t] => over'[s] = over[s]
            BY <1>0, <2>1, <3>1 DEF SessionTypes
        <3>4. CutAhead(t)'
            BY <3>2 DEF CutAhead
        <3>5. CutComes'
            BY <1>1, <2>1, <3>2, <3>3, <3>4
        <3>6. CounterUnderQuota'
            BY <1>2, <2>1, <3>2
        <3> QED
            BY <3>5, <3>6
    <2>3. CASE ~(~over[at[t]] /\ AtQuota(at[t]))
        <3>1. UNCHANGED over /\ Goto(t, "idle")
            BY <1>9, <2>3 DEF Check
        <3>2. Alone(t)
            BY <1>0, <3>1, GotoMoves
        <3>3. CutComes'
            BY <1>1, <2>1, <3>1, <3>2
        <3>4. ASSUME state[at[t]] = "on"
              PROVE  \/ base[at[t]] + bytes[at[t]] < Quota
                     \/ \E u \in Threads : u # t /\ at[u] = at[t] /\ pc[u] # "idle"
            <4>1. CASE ~AtQuota(at[t])
                <5>1. base[at[t]] \in 0..(Quota - 1) /\ bytes[at[t]] \in Nat
                    BY <1>0, <2>1 DEF SessionTypes
                <5> QED
                    BY <1>0, <4>1, <5>1 DEF AtQuota
            <4>2. CASE over[at[t]]
                <5>1. PICK u \in Threads : at[u] = at[t] /\ CutAhead(u)
                    BY <2>1, <3>4, <4>2 DEF CutComes
                <5> QED
                    BY <2>1, <5>1 DEF CutAhead
            <4> QED
                BY <2>3, <4>1, <4>2
        <3>5. CounterUnderQuota'
            BY <1>2, <2>1, <3>2, <3>4
        <3> QED
            BY <3>3, <3>5
    <2> QED
        BY <2>2, <2>3
<1>10. ASSUME NEW t \in Threads, Cut(t) PROVE CutComes' /\ CounterUnderQuota'
    <2>1. at[t] \in Sess /\ UNCHANGED <<state, base, bytes, over>>
        BY <1>0, <1>10 DEF Cut, Placed, sessions
    <2>2. Alone(t) /\ at'[t] = at[t] /\ pc'[t] = "takeout"
        BY <1>0, <1>10, <2>1, ReleaseMoves DEF Cut
    <2> QED
        BY <1>3, <2>1, <2>2 DEF CutAhead
<1>11. ASSUME NEW t \in Threads, TakeOut(t) PROVE CutComes' /\ CounterUnderQuota'
    <2>1. /\ at[t] \in Sess /\ UNCHANGED <<base, bytes, over>>
          /\ \/ state[at[t]] = "on" /\ state' = [state EXCEPT ![at[t]] = "off"] /\ Goto(t, "settle")
             \/ state[at[t]] # "on" /\ state' = state /\ ReleaseReturns(t)
        BY <1>0, <1>11 DEF TakeOut, Placed
    <2>2. Alone(t)
        BY <1>0, <2>1, GotoMoves, ReleaseReturnMoves
    <2>3. state'[at[t]] # "on" /\ \A s \in Sess : state'[s] = "on" => state[s] = "on"
        BY <1>0, <2>1 DEF SessionTypes
    <2> QED
        BY <1>3, <2>1, <2>2, <2>3
<1>12. ASSUME NEW t \in Threads, Settle(t) PROVE CutComes' /\ CounterUnderQuota'
    <2>1. /\ at[t] \in Sess /\ state[at[t]] # "on" /\ UNCHANGED <<state, base, over>>
          /\ bytes' = [bytes EXCEPT ![at[t]] = 0]
          /\ Flush(t, "flag") \/ Goto(t, "flag")
        BY <1>0, <1>12 DEF Settle, ToPending, Placed, Releasing
    <2>2. Alone(t)
        BY <1>0, <2>1, GotoMoves, FlushMoves
    <2>3. \A s \in Sess : bytes'[s] \in {0, bytes[s]}
        BY <1>0, <2>1 DEF SessionTypes
    <2> QED
        BY <1>3, <2>1, <2>2, <2>3
<1>13. ASSUME NEW t \in Threads, Flag(t) PROVE CutComes' /\ CounterUnderQuota'
    <2>1. /\ at[t] \in Sess /\ UNCHANGED <<base, bytes, over>>
          /\ state' = [state EXCEPT ![at[t]] = "gone"]
        BY <1>0, <1>13 DEF Flag, Placed
    <2>2. Alone(t)
        BY <1>0, <1>13, ReleaseReturnMoves DEF Flag
    <2>3. state'[at[t]] # "on" /\ \A s \in Sess : state'[s] = "on" => state[s] = "on"
        BY <1>0, <2>1 DEF SessionTypes
    <2> QED
        BY <1>3, <2>1, <2>2, <2>3
<1>14. ASSUME NEW t \in Threads, Swap(t) PROVE CutComes' /\ CounterUnderQuota'
    <2>1. pc[t] = "swap" /\ UNCHANGED <<state, base, bytes, over>>
        BY <1>14 DEF Swap, sessions
    <2>2. Alone(t) /\ at'[t] = at[t] /\ pc'[t] = "write" /\ flushed'[t] = flushed[t]
        BY <1>0, <1>14, GotoMoves DEF Swap
    <2>3. CutAhead(t) => CutAhead(t)'
        BY <2>1, <2>2 DEF CutAhead
    <2> QED
        BY <1>3, <2>1, <2>2, <2>3
<1>15. ASSUME NEW t \in Threads, Write(t) PROVE CutComes' /\ CounterUnderQuota'
    <2>1. pc[t] = "write" /\ UNCHANGED <<state, base, bytes, over>>
        BY <1>15 DEF Write, sessions
    <2>2. Alone(t) /\ at'[t] = (IF flushed[t] = "idle" THEN None ELSE at[t]) /\ pc'[t] = flushed[t]
        BY <1>0, <1>15, FlushReturnMoves DEF Write
    <2>3. at[t] \in Sess => flushed[t] # "idle" /\ (CutAhead(t) => CutAhead(t)')
        BY <1>0, <2>1, <2>2 DEF Placed, CutAhead
    <2> QED
        BY <1>3, <2>1, <2>2, <2>3
<1>16. CASE FlushBeat
    <2> DEFINE t == "heartbeat"
    <2>1. t \in Threads /\ at[t] = None /\ UNCHANGED <<state, base, bytes, over>>
        BY <1>0, <1>16 DEF FlushBeat, Threads, Placed, sessions
    <2>2. Alone(t)
        BY <1>0, <1>16, <2>1, FlushMoves DEF FlushBeat
    <2> HIDE DEF t
    <2> QED
        BY <1>0, <1>3, <2>1, <2>2
<1>17. ASSUME NEW s \in Sess, Beat(s) \/ TimeOut(s) PROVE CutComes' /\ CounterUnderQuota'
    <2> DEFINE t == "heartbeat"
    <2>1. /\ t \in Threads /\ at[t] = None /\ UNCHANGED <<state, base, over>>
          /\ \A r \in Sess : bytes'[r] \in {0, bytes[r]}
        BY <1>0, <1>17 DEF Beat, TimeOut, ToPending, Threads, Placed, sessions, SessionTypes
    <2>2. Alone(t)
        BY <1>0, <1>17, <2>1, FlushMoves, ReleaseMoves DEF Beat, TimeOut
    <2> HIDE DEF t
    <2> QED
        BY <1>0, <1>3, <2>1, <2>2
<1>18. CASE UNCHANGED vars
    BY <1>18 DEF vars, sessions, threads, CutComes, CutAhead, CounterUnderQuota, AtWork
<1> QED
    BY <1>4, <1>5, <1>6, <1>7, <1>8, <1>9, <1>10, <1>11, <1>12, <1>13, <1>14, <1>15, <1>16,
       <1>17, <1>18 DEF Next, Continue
-----------------------------------------------------------------------------
(* What holds of the threads, the sessions and the database in every state:  *)
(* the shape above, the sum of the bytes, and that a session over its quota  *)
(* that is still in the table has a thread on its way to cut it.             *)
AccountingIInv == Shape /\ BilledOnce /\ CutComes /\ CounterUnderQuota

THEOREM AccountingInvariant == Spec => []AccountingIInv
<1>1. Init => AccountingIInv
    <2> SUFFICES ASSUME Init PROVE AccountingIInv
        OBVIOUS
    <2>1. Shape
        BY ShapeInit
    <2>2. BilledOnce
        <3>1. /\ carried = [s \in Sess |-> 0] /\ bytes = [s \in Sess |-> 0]
              /\ batch = [t \in Threads |-> 0] /\ used = 0 /\ pending = 0 /\ failed = 0
            BY DEF Init
        <3>2. SumFunction(carried) = 0 /\ SumFunction(bytes) = 0
            BY <3>1, SumZero, AccountingAssumption DEF AccountingAssumption
        <3>3. SumFunction(batch) = 0
            BY <3>1, SumZero, ThreadsAreFinite
        <3> QED
            BY <3>1, <3>2, <3>3 DEF BilledOnce
    <2>3. CutComes /\ CounterUnderQuota
        BY DEF Init, CutComes, CounterUnderQuota
    <2> QED
        BY <2>1, <2>2, <2>3 DEF AccountingIInv
<1>2. AccountingIInv /\ [Next]_vars => AccountingIInv'
    BY ShapeNext, BilledNext, CounterNext DEF AccountingIInv
<1> QED
    BY <1>1, <1>2, PTL DEF Spec

(* The type invariant of the run.                                           *)
THEOREM AccountingTypes == Spec => []TypeOK
<1>1. AccountingIInv => TypeOK
    BY ShapeIsTyped DEF AccountingIInv
<1> QED
    BY <1>1, AccountingInvariant, PTL

(* Whatever threads collect, flush and release at the same time, a byte     *)
(* that a session carried is in used_bytes, in m_pendingUsed, in the hands  *)
(* of one thread, still on the session, or in a write that sqlite refused:  *)
(* never in two of them (ServiceDB::flush, heartbeat_work,                  *)
(* release_session).                                                        *)
THEOREM BytesBilledOnce == Spec => []BilledOnce
<1>1. AccountingIInv => BilledOnce
    BY DEF AccountingIInv
<1> QED
    BY <1>1, AccountingInvariant, PTL

(* A session in the table that no thread is at work on has counted less     *)
(* than its quota since the last beat: whoever counts the byte that reaches *)
(* the quota has cut it (UDP.cpp:956, 1179).                           *)
THEOREM CounterStaysUnder == Spec => []CounterUnderQuota
<1>1. AccountingIInv => CounterUnderQuota
    BY DEF AccountingIInv
<1> QED
    BY <1>1, AccountingInvariant, PTL
=============================================================================
