------------------------------ MODULE BrokerProofs ------------------------------
(***************************************************************************)
(* The trial broker for any number of devices, requests, tokens, decisions   *)
(* and faults: no answered token is lost, the limit of trials holds up to    *)
(* the requests served at once, and a rejection is not undone.               *)
(***************************************************************************)
EXTENDS Broker, FiniteSetTheorems, TLAPS

Places == {"idle", "read", "new", "answer", "expired", "reissue", "log", "create", "append"}
Row == [client : 0..MaxTokens, status : Statuses \cup {"none"},
        expires : {"never", "later", "past"}]
Shape ==
    /\ trials \in [Devices -> Row] /\ row \in [Requests -> Row]
    /\ ipLog \in Nat /\ created \in Nat
    /\ at \in [Requests -> Places] /\ dev \in [Requests -> Devices]
    /\ token \in [Requests -> 0..MaxTokens] /\ held \in [Devices -> 0..MaxTokens]
    /\ decision \in [Devices -> {"none", "approved", "rejected", "revoked"}]
    /\ file \subseteq 1..MaxTokens /\ kept \subseteq 1..MaxTokens
    /\ locked \subseteq Devices /\ bare \subseteq 1..MaxTokens /\ configured \in BOOLEAN
    /\ \A r \in Requests : at[r] = "append" => token[r] # 0

(* What the server will find in the file once it has written it.             *)
Lines == IF locked = {} THEN file ELSE kept

(* A token is in one hand, and is in the file before it is answered, if it    *)
(* was appended under the lock.                                              *)
OneHand ==
    /\ \A d, e \in Devices : held[d] # 0 /\ held[d] = held[e] => d = e
    /\ \A r, q \in Requests : token[r] # 0 /\ token[r] = token[q] => r = q
    /\ \A r \in Requests, d \in Devices : token[r] # 0 => token[r] # held[d]
WrittenFirst ==
    \A r \in Requests :
        /\ at[r] \in {"idle", "read", "new", "expired", "reissue"} => token[r] = 0
        /\ at[r] = "answer" /\ token[r] # 0 /\ token[r] \notin bare /\ configured
             => token[r] \in Lines
Tokens == OneHand /\ WrittenFirst /\ TokenReachesServer

(* The requests that will still write their entry, and those that have.      *)
Logging == {r \in Requests : at[r] = "log"}
Creating == {r \in Requests : at[r] = "create"}
Limits ==
    /\ created + Cardinality(Creating) <= ipLog
    /\ ipLog + Cardinality(Logging) < Limit + Cardinality(Requests)

IInv == Shape /\ Tokens /\ Limits /\ RejectedStaysOut
-----------------------------------------------------------------------------
USE BrokerAssumption DEF BrokerAssumption

LEMMA Choice ==
    ASSUME NEW S, S # {} PROVE AnyOf(S) \in S
BY DEF AnyOf

LEMMA NoRowIsRow == NoRow \in Row /\ NoRow.status = "none" /\ NoRow.expires = "never"
BY DEF NoRow, Row

LEMMA Counted ==
    /\ IsFiniteSet(Logging) /\ Cardinality(Logging) \in Nat
    /\ IsFiniteSet(Creating) /\ Cardinality(Creating) \in Nat
    /\ Cardinality(Requests) \in Nat /\ Cardinality(Requests) > 0
<1>1. Logging \subseteq Requests /\ Creating \subseteq Requests
    BY DEF Logging, Creating
<1> QED
    BY <1>1, FS_Subset, FS_CardinalityType, FS_EmptySet

LEMMA InitIInv == Init => IInv
<1> SUFFICES ASSUME Init PROVE IInv
    OBVIOUS
<1>1. Shape
    BY Choice, NoRowIsRow DEF Init, Shape, Places
<1>2. Tokens
    BY DEF Init, Tokens, OneHand, WrittenFirst, TokenReachesServer, Reached
<1>3. Logging = {} /\ Creating = {}
    BY DEF Init, Logging, Creating
<1>4. Limits
    BY <1>3, Counted, FS_EmptySet DEF Init, Limits
<1>5. RejectedStaysOut
    BY DEF Init, RejectedStaysOut, InBin
<1> QED
    BY <1>1, <1>2, <1>4, <1>5 DEF IInv
-----------------------------------------------------------------------------
(* What is left of the request when it ends: nothing.                        *)
LEMMA ShapeStep ==
    ASSUME Shape, [Next]_vars
    PROVE  Shape'
<1> USE NoRowIsRow, Choice DEF Shape, Goto, Done, db, request, tokenFile
<1>0. AnyOf(Devices) \in Devices
    OBVIOUS
<1>1. ASSUME NEW r \in Requests, NEW d \in Devices, Ask(r, d) PROVE Shape'
    BY <1>1 DEF Ask, Places
<1>2. ASSUME NEW r \in Requests, Read(r) PROVE Shape'
    <2>1. Route(trials[dev[r]]) \in Places \ {"append"}
        BY DEF Route, Places
    <2> QED
        BY <1>2, <2>1 DEF Read
<1>3. ASSUME NEW r \in Requests,
             Refuse(r) \/ Duplicate(r) \/ AnswerLost(r) \/ AppendFails(r)
      PROVE  Shape'
    <2>1. Done(r)
        BY <1>3 DEF Refuse, Duplicate, AnswerLost, AppendFails
    <2>2. /\ at' \in [Requests -> Places] /\ row' \in [Requests -> Row]
          /\ token' \in [Requests -> 0..MaxTokens] /\ dev' \in [Requests -> Devices]
          /\ \A q \in Requests : at'[q] = "append" => token'[q] # 0
        BY <1>0, <2>1 DEF Places
    <2>3. UNCHANGED <<trials, ipLog, created, held, decision, file, kept, locked, bare, configured>>
        BY <1>3 DEF Refuse, Duplicate, AnswerLost, AppendFails
    <2> QED
        BY <2>2, <2>3
<1>4. ASSUME NEW r \in Requests, Allow(r) PROVE Shape'
    <2>1. AnyOf(NewNames(dev[r])) \in 1..MaxTokens /\ AnyOf(NewTokens) \in 1..MaxTokens
        BY <1>4 DEF Allow, Prepare, NewNames, NewTokens
    <2>2. /\ [client |-> AnyOf(NewNames(dev[r])), status |-> "pending", expires |-> "never"] \in Row
          /\ [client |-> AnyOf(NewNames(dev[r])), status |-> "trial", expires |-> "later"] \in Row
        BY <2>1 DEF Row, Statuses
    <2>3. row' \in [Requests -> Row] /\ token' \in [Requests -> 0..MaxTokens]
        BY <1>4, <2>1, <2>2 DEF Allow, Prepare
    <2>4. at' \in [Requests -> Places]
        BY <1>4 DEF Allow, Prepare, Places
    <2> QED
        BY <1>4, <2>3, <2>4 DEF Allow, Prepare
<1>5. ASSUME NEW r \in Requests, LogIp(r) PROVE Shape'
    BY <1>5 DEF LogIp, Places
<1>6. ASSUME NEW r \in Requests, Create(r) PROVE Shape'
    BY <1>6 DEF Create, Places
<1>7. ASSUME NEW r \in Requests, Expired(r) PROVE Shape'
    <2>1. [trials[dev[r]] EXCEPT !.status = "pending"] \in Row
        BY DEF Row, Statuses
    <2>2. trials' \in [Devices -> Row]
        BY <1>7, <2>1 DEF Expired
    <2> QED
        BY <1>7, <2>2 DEF Expired, Places
<1>8. ASSUME NEW r \in Requests, Reissue(r) PROVE Shape'
    <2>1. AnyOf(NewTokens) \in NewTokens
        BY <1>8 DEF Reissue
    <2>2. AnyOf(NewTokens) \in 0..MaxTokens /\ AnyOf(NewTokens) # 0
        BY <2>1 DEF NewTokens
    <2> QED
        BY <1>8, <2>2 DEF Reissue, Places
<1>9. ASSUME NEW r \in Requests, Append(r) \/ AppendWithoutLock(r) PROVE Shape'
    <2>1. Appended(r) /\ bare' \in {bare \cup {token[r]}, bare \ {token[r]}}
        BY <1>9 DEF Append, AppendWithoutLock
    <2>2. token[r] \in 1..MaxTokens
        BY <2>1 DEF Appended
    <2> QED
        BY <2>1, <2>2 DEF Appended, Places
<1>10. ASSUME NEW r \in Requests, Answer(r) PROVE Shape'
    BY <1>0, <1>10 DEF Answer, Places
<1>11. ASSUME NEW d \in Devices, ServerReads(d) PROVE Shape'
    BY <1>11 DEF ServerReads
<1>12. ASSUME ServerRenames PROVE Shape'
    BY <1>12 DEF ServerRenames
<1>17. ASSUME NEW d \in Devices, ServerRefuses(d) PROVE Shape'
    BY <1>17 DEF ServerRefuses
<1>13. ASSUME NEW d \in Devices, Administrator(d) PROVE Shape'
    <2>1. ASSUME NEW n \in Row, NEW w \in {"none", "approved", "rejected", "revoked"}, Decide(d, n, w)
          PROVE  Shape'
        BY <2>1 DEF Decide
    <2>2. ASSUME NEW s \in {"approved", "rejected", "revoked"}, SetStatus(d, s) PROVE Shape'
        <3> DEFINE x == IF s = "approved" THEN "never" ELSE trials[d].expires
        <3>1. x \in {"never", "later", "past"}
            BY DEF Row
        <3>2. Decide(d, [trials[d] EXCEPT !.status = s, !.expires = x], s)
            BY <2>2 DEF SetStatus
        <3> HIDE DEF x
        <3>a. trials[d] \in Row /\ s \in Statuses
            BY DEF Statuses
        <3>3. [trials[d] EXCEPT !.status = s, !.expires = x] \in Row
            BY <3>1, <3>a DEF Row
        <3> QED
            BY <2>1, <3>2, <3>3
    <2>3. ASSUME RestoreTrial(d) PROVE Shape'
        <3>1. [trials[d] EXCEPT !.status = "trial", !.expires = "later"] \in Row
            BY DEF Row, Statuses
        <3> QED
            BY <2>1, <2>3, <3>1 DEF RestoreTrial
    <2>4. ASSUME PurgeTrial(d) PROVE Shape'
        BY <2>1, <2>4 DEF PurgeTrial
    <2> QED
        BY <1>13, <2>2, <2>3, <2>4 DEF Administrator
<1>14. ASSUME NEW d \in Devices, TrialEnds(d) PROVE Shape'
    <2>1. [trials[d] EXCEPT !.expires = "past"] \in Row
        BY DEF Row
    <2> QED
        BY <1>14, <2>1 DEF TrialEnds
<1>15. ASSUME SetMode \/ WindowPasses \/ UNCHANGED vars PROVE Shape'
    <2>1. CASE SetMode
        BY <2>1 DEF SetMode
    <2>2. CASE WindowPasses
        BY <2>2 DEF WindowPasses
    <2>3. CASE UNCHANGED vars
        BY <2>3 DEF vars
    <2> QED
        BY <1>15, <2>1, <2>2, <2>3
<1>16. ASSUME Crash PROVE Shape'
    <2>1. /\ at' \in [Requests -> Places] /\ row' \in [Requests -> Row]
          /\ token' \in [Requests -> 0..MaxTokens] /\ dev' \in [Requests -> Devices]
          /\ \A q \in Requests : at'[q] = "append" => token'[q] # 0
        BY <1>0, <1>16 DEF Crash, Places
    <2>2. UNCHANGED <<trials, ipLog, created, held, decision, file, kept, locked, bare, configured>>
        BY <1>16 DEF Crash
    <2> QED
        BY <2>1, <2>2
<1> QED
    BY <1>1, <1>2, <1>3, <1>4, <1>5, <1>6, <1>7, <1>8, <1>9, <1>10, <1>11, <1>12, <1>13, <1>14, <1>15, <1>16, <1>17
       DEF Next, Handler, Presents

(* Steps that move no token keep what is known of the tokens.                *)
LEMMA TokensStay ==
    ASSUME Shape, Tokens, UNCHANGED <<tokenFile, token, held>>,
           \A q \in Requests :
              /\ at'[q] \in {"idle", "read", "new", "expired", "reissue"} => token[q] = 0
              /\ at'[q] = "answer" => at[q] = "answer" \/ token[q] = 0
    PROVE  Tokens'
<1>1. OneHand' /\ TokenReachesServer'
    BY DEF Tokens, OneHand, TokenReachesServer, Reached, tokenFile
<1>2. Lines' = Lines /\ token' = token
    BY DEF Lines, tokenFile
<1>3. WrittenFirst'
    BY <1>2 DEF Tokens, WrittenFirst, tokenFile
<1> QED
    BY <1>1, <1>3 DEF Tokens

(* A request that ends drops its token.                                      *)
LEMMA TokensDropped ==
    ASSUME Shape, Tokens, NEW r \in Requests, Done(r), UNCHANGED <<tokenFile, held>>
    PROVE  Tokens'
<1>1. /\ token'[r] = 0 /\ at'[r] = "idle"
      /\ \A q \in Requests \ {r} : token'[q] = token[q] /\ at'[q] = at[q]
    BY DEF Shape, Done, Goto
<1>2. OneHand' /\ TokenReachesServer'
    BY <1>1 DEF Tokens, OneHand, TokenReachesServer, Reached, tokenFile
<1>3. Lines' = Lines
    BY DEF Lines, tokenFile
<1>4. WrittenFirst'
    BY <1>1, <1>3 DEF Tokens, WrittenFirst, tokenFile
<1> QED
    BY <1>2, <1>4 DEF Tokens

(* A token that is made is in nobody's hand yet.                             *)
LEMMA TokensMade ==
    ASSUME Shape, Tokens, NEW r \in Requests, NewTokens # {},
           token' = [token EXCEPT ![r] = AnyOf(NewTokens)],
           at' = [at EXCEPT ![r] = "log"] \/ at' = [at EXCEPT ![r] = "append"],
           UNCHANGED <<tokenFile, held>>
    PROVE  Tokens'
<1>1. AnyOf(NewTokens) \in NewTokens
    BY Choice
<1>2. /\ token'[r] \in NewTokens /\ at'[r] \in {"log", "append"}
      /\ \A q \in Requests \ {r} : token'[q] = token[q] /\ at'[q] = at[q]
    BY <1>1 DEF Shape
<1>3. /\ \A q \in Requests : token'[r] # token[q]
      /\ \A d \in Devices : token'[r] # held[d]
    BY <1>2 DEF NewTokens
<1>4. OneHand' /\ TokenReachesServer'
    BY <1>2, <1>3 DEF Tokens, OneHand, TokenReachesServer, Reached, tokenFile
<1>5. Lines' = Lines
    BY DEF Lines, tokenFile
<1>6. WrittenFirst'
    BY <1>2, <1>5 DEF Tokens, WrittenFirst, tokenFile
<1> QED
    BY <1>4, <1>6 DEF Tokens

LEMMA TokensStep ==
    ASSUME Shape, Tokens, [Next]_vars
    PROVE  Tokens'
<1>a. /\ at \in [Requests -> Places] /\ token \in [Requests -> 0..MaxTokens]
      /\ held \in [Devices -> 0..MaxTokens] /\ dev \in [Requests -> Devices]
      /\ file \subseteq 1..MaxTokens
    BY DEF Shape
<1>b. \A q \in Requests :
          /\ at[q] \in {"idle", "read", "new", "expired", "reissue"} => token[q] = 0
          /\ at[q] = "answer" /\ token[q] # 0 /\ token[q] \notin bare /\ configured
               => token[q] \in Lines
    BY DEF Tokens, WrittenFirst
<1> USE DEF db, request, tokenFile
<1>1. ASSUME NEW r \in Requests, NEW d \in Devices, Ask(r, d) PROVE Tokens'
    BY <1>1, <1>a, <1>b, TokensStay DEF Ask, Goto
<1>2. ASSUME NEW r \in Requests, Read(r) PROVE Tokens'
    BY <1>2, <1>a, <1>b, TokensStay DEF Read, Goto
<1>3. ASSUME NEW r \in Requests, Refuse(r) \/ Duplicate(r) \/ AnswerLost(r) \/ AppendFails(r)
      PROVE  Tokens'
    BY <1>3, TokensDropped DEF Refuse, Duplicate, AnswerLost, AppendFails
<1>4. ASSUME NEW r \in Requests, Allow(r) PROVE Tokens'
    <2>1. /\ at[r] = "new" /\ at' = [at EXCEPT ![r] = "log"] /\ NewTokens # {}
          /\ UNCHANGED <<tokenFile, held>>
        BY <1>4 DEF Allow, Prepare, Goto
    <2>2. CASE UNCHANGED token
        BY <2>1, <2>2, <1>a, <1>b, TokensStay
    <2>3. CASE token' = [token EXCEPT ![r] = AnyOf(NewTokens)]
        BY <2>1, <2>3, TokensMade
    <2> QED
        BY <1>4, <2>2, <2>3 DEF Allow, Prepare
<1>5. ASSUME NEW r \in Requests, LogIp(r) PROVE Tokens'
    BY <1>5, <1>a, <1>b, TokensStay DEF LogIp, Goto
<1>6. ASSUME NEW r \in Requests, Create(r) PROVE Tokens'
    BY <1>6, <1>a, <1>b, TokensStay DEF Create, Goto
<1>7. ASSUME NEW r \in Requests, Expired(r) PROVE Tokens'
    BY <1>7, <1>a, <1>b, TokensStay DEF Expired, Goto
<1>8. ASSUME NEW r \in Requests, Reissue(r) PROVE Tokens'
    BY <1>8, TokensMade DEF Reissue, Goto
<1>9. ASSUME NEW r \in Requests, Append(r) \/ AppendWithoutLock(r) PROVE Tokens'
    <2>1. /\ configured' = configured /\ locked' = locked /\ kept' = kept
          /\ file' = IF configured THEN file \cup {token[r]} ELSE file
          /\ token' = token /\ held' = held
          /\ at[r] = "append" /\ at'[r] = "answer"
          /\ \A q \in Requests \ {r} : at'[q] = at[q]
        BY <1>9, <1>a DEF Append, AppendWithoutLock, Appended, Goto
    <2>2. \/ bare' = bare \cup {token[r]}
          \/ bare' = bare \ {token[r]} /\ (configured => locked = {})
        BY <1>9 DEF Append, AppendWithoutLock
    <2>3. /\ token[r] # 0
          /\ \A q \in Requests \ {r} : token[q] # token[r]
          /\ \A d \in Devices : held[d] # token[r]
        BY <2>1 DEF Shape, Tokens, OneHand
    <2>4. OneHand'
        BY <2>1 DEF Tokens, OneHand
    <2>5. \A x : x \in Lines => x \in Lines'
        BY <2>1 DEF Lines
    <2>6. configured /\ token[r] \notin bare' => token[r] \in Lines'
        BY <2>1, <2>2 DEF Lines
    <2>7. \A x : x # token[r] /\ x \notin bare' => x \notin bare
        BY <2>2
    <2>8. WrittenFirst'
        BY <2>1, <2>3, <2>5, <2>6, <2>7, <1>b DEF WrittenFirst
    <2>9. \A d \in Devices : Reached(d) => Reached(d)'
        BY <2>1, <2>5 DEF Reached, Lines
    <2>10. TokenReachesServer'
        BY <2>1, <2>3, <2>7, <2>9 DEF Tokens, TokenReachesServer
    <2> QED
        BY <2>4, <2>8, <2>10 DEF Tokens
<1>10. ASSUME NEW r \in Requests, Answer(r) PROVE Tokens'
    <2>1. /\ at[r] = "answer" /\ Done(r) /\ UNCHANGED tokenFile
          /\ token'[r] = 0 /\ at'[r] = "idle" /\ Lines' = Lines
          /\ \A q \in Requests \ {r} : token'[q] = token[q] /\ at'[q] = at[q]
        BY <1>10, <1>a DEF Answer, Done, Goto, Lines
    <2>2. CASE held' = held
        BY <2>1, <2>2, TokensDropped
    <2>3. CASE token[r] # 0 /\ held' = [held EXCEPT ![dev[r]] = token[r]]
        <3>1. /\ held'[dev[r]] = token[r] /\ dev[r] \in Devices
              /\ \A d \in Devices \ {dev[r]} : held'[d] = held[d]
            BY <2>3, <1>a
        <3>2. configured /\ token[r] \notin bare => token[r] \in Lines
            BY <2>1, <2>3, <1>b
        <3>3. OneHand'
            BY <2>1, <2>3, <3>1 DEF Tokens, OneHand
        <3>4. WrittenFirst'
            BY <2>1, <1>b DEF WrittenFirst
        <3>5. TokenReachesServer'
            BY <2>1, <3>1, <3>2 DEF Tokens, TokenReachesServer, Reached, Lines
        <3> QED
            BY <3>3, <3>4, <3>5 DEF Tokens
    <2> QED
        BY <1>10, <2>2, <2>3, <1>a DEF Answer
<1>11. ASSUME NEW d \in Devices, ServerReads(d) PROVE Tokens'
    <2>1. /\ locked = {} /\ locked' = {d} /\ kept' = file \ {held[d]}
          /\ held[d] # 0 /\ UNCHANGED <<at, token, held, bare, configured>>
        BY <1>11, <1>a DEF ServerReads
    <2>2. OneHand'
        BY <2>1 DEF Tokens, OneHand
    <2>3. WrittenFirst'
        <3>1. \A q \in Requests : token[q] # 0 => token[q] # held[d]
            BY DEF Tokens, OneHand
        <3>2. Lines = file /\ Lines' = file \ {held[d]}
            BY <2>1 DEF Lines
        <3> QED
            BY <2>1, <3>1, <3>2, <1>b DEF WrittenFirst
    <2>4. TokenReachesServer'
        BY <2>1 DEF Tokens, OneHand, TokenReachesServer, Reached
    <2> QED
        BY <2>2, <2>3, <2>4 DEF Tokens
<1>12. ASSUME ServerRenames PROVE Tokens'
    <2>1. /\ locked # {} /\ file' = kept /\ locked' = {} /\ UNCHANGED <<at, token, bare, configured>>
          /\ \A d \in Devices : held'[d] = IF d \in locked THEN 0 ELSE held[d]
        BY <1>12 DEF ServerRenames
    <2>2. OneHand'
        BY <2>1, <1>a DEF Tokens, OneHand
    <2>3. Lines' = Lines
        BY <2>1 DEF Lines
    <2>4. WrittenFirst'
        BY <2>1, <2>3, <1>b DEF WrittenFirst
    <2>5. TokenReachesServer'
        BY <2>1 DEF Tokens, TokenReachesServer, Reached
    <2> QED
        BY <2>2, <2>4, <2>5 DEF Tokens
<1>16. ASSUME NEW d \in Devices, ServerRefuses(d) PROVE Tokens'
    <2>1. /\ UNCHANGED <<tokenFile, at, token>> /\ held'[d] = 0
          /\ \A e \in Devices \ {d} : held'[e] = held[e]
        BY <1>16, <1>a DEF ServerRefuses
    <2>2. OneHand'
        BY <2>1, <1>a DEF Tokens, OneHand
    <2>3. Lines' = Lines
        BY <2>1 DEF Lines
    <2>4. WrittenFirst'
        BY <2>1, <2>3, <1>b DEF WrittenFirst
    <2>5. TokenReachesServer'
        BY <2>1 DEF Tokens, TokenReachesServer, Reached
    <2> QED
        BY <2>2, <2>4, <2>5 DEF Tokens
<1>13. ASSUME NEW d \in Devices, Administrator(d) \/ TrialEnds(d) PROVE Tokens'
    <2>1. UNCHANGED <<tokenFile, request, held>>
        BY <1>13 DEF Administrator, SetStatus, RestoreTrial, PurgeTrial, Decide, TrialEnds
    <2> QED
        BY <2>1, <1>b, TokensStay
<1>14. ASSUME SetMode \/ WindowPasses \/ UNCHANGED vars PROVE Tokens'
    <2>1. UNCHANGED <<tokenFile, request, held>>
        BY <1>14 DEF SetMode, WindowPasses, vars
    <2> QED
        BY <2>1, <1>b, TokensStay
<1>15. ASSUME Crash PROVE Tokens'
    <2>1. /\ UNCHANGED <<tokenFile, held>>
          /\ \A q \in Requests : at'[q] = "idle" /\ token'[q] = 0
        BY <1>15 DEF Crash
    <2>2. OneHand' /\ WrittenFirst' /\ TokenReachesServer'
        BY <2>1 DEF Tokens, OneHand, WrittenFirst, TokenReachesServer, Reached
    <2> QED
        BY <2>2 DEF Tokens
<1> QED
    BY <1>1, <1>2, <1>3, <1>4, <1>5, <1>6, <1>7, <1>8, <1>9, <1>10, <1>11, <1>12, <1>13, <1>14, <1>15, <1>16
       DEF Next, Handler, Presents

LEMMA LimitsStep ==
    ASSUME Shape, Limits, [Next]_vars
    PROVE  Limits'
<1>a. /\ at \in [Requests -> Places] /\ ipLog \in Nat /\ created \in Nat
      /\ created + Cardinality(Creating) <= ipLog
      /\ ipLog + Cardinality(Logging) < Limit + Cardinality(Requests)
    BY DEF Shape, Limits
<1>b. ASSUME Creating' \subseteq Creating, Logging' \subseteq Logging, UNCHANGED <<ipLog, created>>
      PROVE  Limits'
    <2>1. Cardinality(Creating') <= Cardinality(Creating) /\ Cardinality(Creating') \in Nat
        BY <1>b, Counted, FS_Subset, FS_CardinalityType
    <2>2. Cardinality(Logging') <= Cardinality(Logging) /\ Cardinality(Logging') \in Nat
        BY <1>b, Counted, FS_Subset, FS_CardinalityType
    <2> QED
        BY <1>a, <1>b, <2>1, <2>2, Counted DEF Limits
<1>c. ASSUME UNCHANGED <<ipLog, created>>,
             \A q \in Requests : at'[q] = at[q] \/ at'[q] \notin {"log", "create"}
      PROVE  Limits'
    BY <1>b, <1>c DEF Creating, Logging
<1> USE DEF db, request, tokenFile
<1>1. ASSUME NEW r \in Requests, NEW d \in Devices, Ask(r, d) PROVE Limits'
    BY <1>1, <1>a, <1>c DEF Ask, Goto
<1>2. ASSUME NEW r \in Requests,
             Read(r) \/ Refuse(r) \/ Duplicate(r) \/ AnswerLost(r) \/ Expired(r) \/ Reissue(r)
               \/ Append(r) \/ AppendWithoutLock(r) \/ AppendFails(r) \/ Answer(r)
      PROVE  Limits'
    <2>1. Route(trials[dev[r]]) \notin {"log", "create"}
        BY DEF Route
    <2>2. \E p : p \notin {"log", "create"} /\ at' = [at EXCEPT ![r] = p]
        BY <1>2, <2>1 DEF Read, Refuse, Duplicate, AnswerLost, Expired, Reissue, Append, AppendWithoutLock,
               Appended, AppendFails, Answer, Done, Goto
    <2>3. UNCHANGED <<ipLog, created>>
        BY <1>2 DEF Read, Refuse, Duplicate, AnswerLost, Expired, Reissue, Append, AppendWithoutLock,
               Appended, AppendFails, Answer
    <2> QED
        BY <2>2, <2>3, <1>a, <1>c
<1>3. ASSUME NEW r \in Requests, Allow(r) PROVE Limits'
    <2>1. /\ ipLog < Limit /\ at[r] = "new" /\ at' = [at EXCEPT ![r] = "log"]
          /\ UNCHANGED <<ipLog, created>>
        BY <1>3 DEF Allow, Prepare, Goto
    <2>2. Creating' = Creating /\ Logging' \subseteq Requests
        BY <2>1, <1>a DEF Creating, Logging
    <2>3. Cardinality(Logging') <= Cardinality(Requests) /\ Cardinality(Logging') \in Nat
        BY <2>2, FS_Subset, FS_CardinalityType
    <2> QED
        BY <2>1, <2>2, <2>3, <1>a, Counted DEF Limits
<1>4. ASSUME NEW r \in Requests, LogIp(r) PROVE Limits'
    <2>1. /\ at[r] = "log" /\ at' = [at EXCEPT ![r] = "create"]
          /\ ipLog' = ipLog + 1 /\ created' = created
        BY <1>4 DEF LogIp, Goto
    <2>2. Creating' = Creating \cup {r} /\ Logging' = Logging \ {r} /\ r \in Logging /\ r \notin Creating
        BY <2>1, <1>a DEF Creating, Logging
    <2>3. /\ Cardinality(Creating') = Cardinality(Creating) + 1
          /\ Cardinality(Logging') = Cardinality(Logging) - 1
        BY <2>2, Counted, FS_AddElement, FS_RemoveElement
    <2> QED
        BY <2>1, <2>3, <1>a, Counted DEF Limits
<1>5. ASSUME NEW r \in Requests, Create(r) PROVE Limits'
    <2>1. /\ at[r] = "create" /\ created' = created + 1 /\ ipLog' = ipLog
          /\ \E p \in {"answer", "append"} : at' = [at EXCEPT ![r] = p]
        BY <1>5 DEF Create, Goto
    <2>2. Creating' = Creating \ {r} /\ Logging' = Logging /\ r \in Creating
        BY <2>1, <1>a DEF Creating, Logging
    <2>3. Cardinality(Creating') = Cardinality(Creating) - 1
        BY <2>2, Counted, FS_RemoveElement
    <2> QED
        BY <2>1, <2>2, <2>3, <1>a, Counted DEF Limits
<1>6. ASSUME NEW d \in Devices, Presents(d) \/ Administrator(d) \/ TrialEnds(d) PROVE Limits'
    BY <1>6, <1>c DEF Presents, ServerReads, ServerRefuses, Administrator, SetStatus, RestoreTrial, PurgeTrial, Decide, TrialEnds
<1>7. ASSUME ServerRenames \/ SetMode \/ UNCHANGED vars PROVE Limits'
    BY <1>7, <1>c DEF ServerRenames, SetMode, vars
<1>8. ASSUME WindowPasses PROVE Limits'
    <2>1. /\ Creating' = {} /\ Logging' = {} /\ ipLog' = 0 /\ created' = 0
        BY <1>8 DEF WindowPasses, Creating, Logging
    <2> QED
        BY <2>1, Counted, FS_EmptySet DEF Limits
<1>9. ASSUME Crash PROVE Limits'
    BY <1>9, <1>c DEF Crash
<1> QED
    BY <1>1, <1>2, <1>3, <1>4, <1>5, <1>6, <1>7, <1>8, <1>9 DEF Next, Handler

(* A late request finds the row of a rejected device or makes it pending.    *)
LEMMA RejectedStep ==
    ASSUME Shape, RejectedStaysOut, [Next]_vars
    PROVE  RejectedStaysOut'
<1>a. /\ trials \in [Devices -> Row] /\ dev \in [Requests -> Devices]
      /\ decision \in [Devices -> {"none", "approved", "rejected", "revoked"}]
    BY DEF Shape
<1>b. ASSUME NEW e, UNCHANGED decision,
             \A d \in Devices \ {e} : trials'[d] = trials[d],
             e \in Devices =>
                 \/ trials'[e].status \in {trials[e].status, "pending"}
                 \/ trials[e].status = "none"
      PROVE  RejectedStaysOut'
    BY <1>b DEF RejectedStaysOut, InBin
<1> USE DEF db, request, tokenFile
<1>1. ASSUME UNCHANGED <<trials, decision>> PROVE RejectedStaysOut'
    BY <1>1 DEF RejectedStaysOut
<1>2. ASSUME NEW r \in Requests, Create(r) PROVE RejectedStaysOut'
    <2>1. /\ trials[dev[r]].status = "none" /\ UNCHANGED decision
          /\ \A d \in Devices \ {dev[r]} : trials'[d] = trials[d]
        BY <1>2, <1>a, NoRowIsRow DEF Create
    <2> QED
        BY <2>1, <1>b
<1>3. ASSUME NEW r \in Requests, Expired(r) PROVE RejectedStaysOut'
    <2>1. /\ trials'[dev[r]].status \in {trials[dev[r]].status, "pending"} /\ UNCHANGED decision
          /\ \A d \in Devices \ {dev[r]} : trials'[d] = trials[d]
        BY <1>3, <1>a, NoRowIsRow DEF Expired, Row
    <2> QED
        BY <2>1, <1>b
<1>4. ASSUME NEW d \in Devices, TrialEnds(d) PROVE RejectedStaysOut'
    <2>1. /\ trials'[d].status = trials[d].status /\ UNCHANGED decision
          /\ \A e \in Devices \ {d} : trials'[e] = trials[e]
        BY <1>4, <1>a DEF TrialEnds, Row
    <2> QED
        BY <2>1, <1>b
<1>5. ASSUME NEW d \in Devices, Administrator(d) PROVE RejectedStaysOut'
    <2>1. ASSUME NEW n, NEW w, Decide(d, n, w), w \in InBin => n.status = w
          PROVE  RejectedStaysOut'
        BY <2>1, <1>a DEF Decide, RejectedStaysOut
    <2>2. ASSUME NEW s \in {"approved", "rejected", "revoked"}, SetStatus(d, s)
          PROVE  RejectedStaysOut'
        <3>1. [trials[d] EXCEPT !.status = s, !.expires = IF s = "approved" THEN "never" ELSE @].status = s
            BY <1>a DEF Row
        <3> QED
            BY <2>1, <2>2, <3>1 DEF SetStatus
    <2>3. ASSUME RestoreTrial(d) \/ PurgeTrial(d) PROVE RejectedStaysOut'
        BY <2>1, <2>3 DEF RestoreTrial, PurgeTrial, InBin
    <2> QED
        BY <1>5, <2>2, <2>3 DEF Administrator
<1>6. ASSUME NEW r \in Requests,
             \/ \E d \in Devices : Ask(r, d)
             \/ Read(r) \/ Refuse(r) \/ Allow(r) \/ LogIp(r) \/ Duplicate(r) \/ Reissue(r)
             \/ Append(r) \/ AppendWithoutLock(r) \/ AppendFails(r) \/ Answer(r) \/ AnswerLost(r)
      PROVE  RejectedStaysOut'
    BY <1>1, <1>6 DEF Ask, Read, Refuse, Allow, Prepare, LogIp, Duplicate, Reissue, Append,
           AppendWithoutLock, Appended, AppendFails, Answer, AnswerLost
<1>7. ASSUME \/ \E d \in Devices : Presents(d)
             \/ ServerRenames \/ SetMode \/ WindowPasses \/ Crash \/ UNCHANGED vars
      PROVE  RejectedStaysOut'
    BY <1>1, <1>7 DEF Presents, ServerReads, ServerRefuses, ServerRenames, SetMode, WindowPasses, Crash, vars
<1> QED
    BY <1>2, <1>3, <1>4, <1>5, <1>6, <1>7 DEF Next, Handler

LEMMA StepIInv == IInv /\ [Next]_vars => IInv'
BY ShapeStep, TokensStep, LimitsStep, RejectedStep DEF IInv

(* In whose hand each token is, and how many requests may still add to the   *)
(* log and to the table, however the requests and the faults interleave.     *)
THEOREM BrokerInvariant == Spec => []IInv
BY InitIInv, StepIInv, PTL DEF Spec

(* A token a device was answered with stays in the file until the server     *)
(* takes it out for that device, if the broker knows the file and held its   *)
(* lock for this append; appends of other tokens without the lock do not     *)
(* harm it (append_token_to_server, file_remove_line).                       *)
THEOREM AnsweredTokensCount == Spec => []TokenReachesServer
<1>1. IInv => TokenReachesServer
    BY DEF IInv, Tokens
<1> QED
    BY <1>1, BrokerInvariant, PTL

(* The rows created within the window exceed the limit at most by the        *)
(* requests served at once (_handle_register).                              *)
THEOREM LimitHolds == Spec => []CreatedWithinLimit
<1>1. IInv => CreatedWithinLimit
    BY Counted DEF IInv, Shape, Limits, CreatedWithinLimit
<1> QED
    BY <1>1, BrokerInvariant, PTL

(* No request, however late, gives a rejected device its trial back          *)
(* (_handle_register: the update of an expired trial, the insertion).        *)
THEOREM RejectionHolds == Spec => []RejectedStaysOut
<1>1. IInv => RejectedStaysOut
    BY DEF IInv
<1> QED
    BY <1>1, BrokerInvariant, PTL

(* Of the requests of one device only the first creates its row, so the name *)
(* its traffic is counted by never changes (_handle_register, create_trial). *)
THEOREM NameStays == Spec => NameIsStable
<1> DEFINE Stable == \A d \in Devices : trials[d] # NoRow /\ trials'[d] # NoRow
                        => trials'[d].client = trials[d].client
<1>1. ASSUME IInv, [Next]_vars PROVE Stable
    <2>a. trials \in [Devices -> Row] /\ dev \in [Requests -> Devices]
        BY <1>1 DEF IInv, Shape
    <2> USE DEF db, request, tokenFile
    <2>1. ASSUME UNCHANGED trials PROVE Stable
        BY <2>1
    <2>2. ASSUME NEW r \in Requests, Create(r) \/ Expired(r) PROVE Stable
        BY <2>2, <2>a DEF Create, Expired, Row
    <2>3. ASSUME NEW d \in Devices, Administrator(d) \/ TrialEnds(d) PROVE Stable
        <3>1. ASSUME NEW n \in Row, NEW w, Decide(d, n, w),
                     n.client = trials[d].client \/ n = NoRow
              PROVE  Stable
            BY <2>a, <3>1 DEF Decide
        <3>2. ASSUME NEW s \in {"approved", "rejected", "revoked"}, SetStatus(d, s) PROVE Stable
            <4> DEFINE x == IF s = "approved" THEN "never" ELSE trials[d].expires
                       n == [trials[d] EXCEPT !.status = s, !.expires = x]
            <4>1. x \in {"never", "later", "past"}
                BY <2>a DEF Row
            <4>2. Decide(d, n, s)
                BY <3>2 DEF SetStatus
            <4> HIDE DEF x
            <4>3. n \in Row /\ n.client = trials[d].client
                <5>1. trials[d] \in Row /\ s \in Statuses
                    BY <2>a DEF Statuses
                <5> QED
                    BY <4>1, <5>1 DEF Row
            <4> HIDE DEF n
            <4> QED
                BY <3>1, <4>2, <4>3
        <3>3. ASSUME RestoreTrial(d) PROVE Stable
            <4>1. /\ [trials[d] EXCEPT !.status = "trial", !.expires = "later"] \in Row
                  /\ [trials[d] EXCEPT !.status = "trial", !.expires = "later"].client = trials[d].client
                BY <2>a DEF Row, Statuses
            <4> QED
                BY <3>1, <3>3, <4>1 DEF RestoreTrial
        <3>4. ASSUME PurgeTrial(d) PROVE Stable
            BY <3>1, <3>4, NoRowIsRow DEF PurgeTrial
        <3>5. ASSUME TrialEnds(d) PROVE Stable
            BY <2>a, <3>5 DEF TrialEnds, Row
        <3> QED
            BY <2>3, <3>2, <3>3, <3>4, <3>5 DEF Administrator
    <2>4. ASSUME NEW r \in Requests,
                 \/ \E d \in Devices : Ask(r, d)
                 \/ Read(r) \/ Refuse(r) \/ Allow(r) \/ LogIp(r) \/ Duplicate(r) \/ Reissue(r)
                 \/ Append(r) \/ AppendWithoutLock(r) \/ AppendFails(r) \/ Answer(r) \/ AnswerLost(r)
          PROVE  Stable
        BY <2>1, <2>4 DEF Ask, Read, Refuse, Allow, Prepare, LogIp, Duplicate, Reissue, Append,
           AppendWithoutLock, Appended, AppendFails, Answer, AnswerLost
    <2>5. ASSUME \/ \E d \in Devices : Presents(d)
                 \/ ServerRenames \/ SetMode \/ WindowPasses \/ Crash \/ UNCHANGED vars
          PROVE  Stable
        BY <2>1, <2>5 DEF Presents, ServerReads, ServerRefuses, ServerRenames, SetMode, WindowPasses, Crash, vars
    <2> QED
        BY <1>1, <2>2, <2>3, <2>4, <2>5 DEF Next, Handler
<1>2. IInv /\ [Next]_vars => [Stable]_vars
    BY <1>1
<1> QED
    BY <1>2, BrokerInvariant, PTL DEF Spec, NameIsStable
=============================================================================
