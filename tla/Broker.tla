--------------------------------- MODULE Broker ---------------------------------
(***************************************************************************)
(* The trial broker (tools/broker): requests served by threads of one        *)
(* process over a database and the file of register tokens, which the VPN    *)
(* server takes tokens out of, while an administrator decides on trials from *)
(* another process.  Every statement of SQL commits by itself, so each is a  *)
(* step.  Columns that are only shown (addresses, hardware, the token's      *)
(* hash) are left out, and with them GET /trial/status.                      *)
(*                                                                         *)
(* The devices of a model are behind one address.  Tokens and client names   *)
(* are numbers, used again when nothing refers to them any more.             *)
(***************************************************************************)
EXTENDS Naturals, FiniteSets

CONSTANTS
    Devices,        \* fingerprints
    Requests,       \* requests served at once
    Limit,          \* IP_LIMIT
    MaxTokens,      \* bound: tokens and names in use at once
    MaxDecisions,   \* bound: decisions of the administrator
    MaxFaults       \* bound: kills of the broker, lost answers, failing files

ASSUME BrokerAssumption ==
    /\ Devices # {} /\ Requests # {} /\ IsFiniteSet(Requests)
    /\ {Limit, MaxTokens, MaxDecisions, MaxFaults} \subseteq Nat

VARIABLES
    trials,         \* the table: a row or NoRow for each device
    mode,           \* issue_mode
    ipLog,          \* entries of register_ip_log within the window
    file,           \* register_tokens.txt
    locked,         \* {d}: the server holds the lock, taking out d's token
    kept,           \* what the server is about to write back
    bare,           \* history: tokens that were appended without the lock
    configured,     \* SERVICE_TOKENS_FILE names the file
    at, dev, row, token,    \* of each request; token 0: none was made
    held,           \* the token each device was answered with, 0 for none
    member,         \* devices the server has registered
    decision,       \* the administrator's last word on a device
    created,        \* rows created within the window
    decisions, faults

db == <<trials, mode, ipLog>>
request == <<at, dev, row, token>>
tokenFile == <<file, locked, kept, bare, configured>>
vars == <<db, tokenFile, request, held, member, decision, created, decisions, faults>>

Statuses == {"trial", "pending", "approved", "rejected", "revoked"}
NoRow == [client |-> 0, status |-> "none", expires |-> "never"]
InBin == {"rejected", "revoked"}
AnyOf(S) == CHOOSE x \in S : TRUE

Init ==
    /\ trials = [d \in Devices |-> NoRow] /\ mode \in {"auto", "manual"} /\ ipLog = 0
    /\ file = {} /\ locked = {} /\ kept = {} /\ bare = {} /\ configured \in BOOLEAN
    /\ at = [r \in Requests |-> "idle"] /\ dev = [r \in Requests |-> AnyOf(Devices)]
    /\ row = [r \in Requests |-> NoRow] /\ token = [r \in Requests |-> 0]
    /\ held = [d \in Devices |-> 0] /\ member = {}
    /\ decision = [d \in Devices |-> "none"] /\ created = 0
    /\ decisions = 0 /\ faults = 0

Goto(r, place) == at' = [at EXCEPT ![r] = place]

Done(r) ==
    /\ Goto(r, "idle")
    /\ row' = [row EXCEPT ![r] = NoRow] /\ token' = [token EXCEPT ![r] = 0]
    /\ dev' = [dev EXCEPT ![r] = AnyOf(Devices)]

NewTokens == (1..MaxTokens) \ ((file \cup kept) \cup {held[d] : d \in Devices}
                                  \cup {token[r] : r \in Requests})
NewNames(d) == (1..MaxTokens) \ ({trials[d].client}
                                  \cup {row[r].client : r \in {q \in Requests : dev[q] = d}})
-----------------------------------------------------------------------------
(* _handle_register, step by step.  A device asks, again and again and while *)
(* a request it no longer waits for still runs, until it has a token or is   *)
(* registered.                                                               *)
Ask(r, d) ==
    /\ at[r] = "idle" /\ d \notin member /\ held[d] = 0
    /\ Goto(r, "read") /\ dev' = [dev EXCEPT ![r] = d]
    /\ UNCHANGED <<db, tokenFile, row, token, held, member, decision, created, decisions, faults>>

Route(seen) ==
    CASE seen = NoRow -> "new"
      [] seen.status \in InBin \cup {"pending"} -> "answer"
      [] seen.status = "trial" /\ seen.expires = "past" -> "expired"
      [] OTHER -> "reissue"

Read(r) ==
    /\ at[r] = "read"
    /\ Goto(r, Route(trials[dev[r]]))
    /\ UNCHANGED <<db, tokenFile, dev, row, token, held, member, decision, created, decisions, faults>>

Refuse(r) ==
    /\ at[r] = "new" /\ ipLog >= Limit
    /\ Done(r)
    /\ UNCHANGED <<db, tokenFile, held, member, decision, created, decisions, faults>>

(* The mode, read just before the log, decides what the row will be; only a  *)
(* trial gets a token.                                                       *)
Prepare(r) ==
    /\ NewNames(dev[r]) # {} /\ NewTokens # {}
    /\ LET name == AnyOf(NewNames(dev[r])) IN
          IF mode = "manual"
          THEN /\ row' = [row EXCEPT ![r] =
                             [client |-> name, status |-> "pending", expires |-> "never"]]
               /\ UNCHANGED token
          ELSE /\ row' = [row EXCEPT ![r] =
                             [client |-> name, status |-> "trial", expires |-> "later"]]
               /\ token' = [token EXCEPT ![r] = AnyOf(NewTokens)]
    /\ Goto(r, "log")
    /\ UNCHANGED <<db, tokenFile, dev, held, member, decision, created, decisions, faults>>
Allow(r) == at[r] = "new" /\ ipLog < Limit /\ Prepare(r)

LogIpUncommitted(r) ==
    /\ at[r] = "log"
    /\ Goto(r, "create")
    /\ UNCHANGED <<db, tokenFile, dev, row, token, held, member, decision, created,
                   decisions, faults>>
LogIp(r) ==
    /\ at[r] = "log"
    /\ ipLog' = ipLog + 1
    /\ Goto(r, "create")
    /\ UNCHANGED <<trials, mode, tokenFile, dev, row, token, held, member, decision, created,
                   decisions, faults>>

CreateOrReplace(r) ==
    /\ at[r] = "create"
    /\ trials' = [trials EXCEPT ![dev[r]] = row[r]]
    /\ created' = created + 1
    /\ row' = [row EXCEPT ![r] = NoRow]
    /\ Goto(r, IF token[r] = 0 THEN "answer" ELSE "append")
    /\ UNCHANGED <<mode, ipLog, tokenFile, dev, token, held, member, decision, decisions, faults>>
Create(r) ==
    /\ at[r] = "create" /\ trials[dev[r]] = NoRow
    /\ trials' = [trials EXCEPT ![dev[r]] = row[r]]
    /\ created' = created + 1
    /\ row' = [row EXCEPT ![r] = NoRow]
    /\ Goto(r, IF token[r] = 0 THEN "answer" ELSE "append")
    /\ UNCHANGED <<mode, ipLog, tokenFile, dev, token, held, member, decision, decisions, faults>>

(* The primary key is taken: the request ends with an exception.             *)
Duplicate(r) ==
    /\ at[r] = "create" /\ trials[dev[r]] # NoRow
    /\ Done(r)
    /\ UNCHANGED <<db, tokenFile, held, member, decision, created, decisions, faults>>

(* The row may have been deleted or decided on since it was read.            *)
Expired(r) ==
    /\ at[r] = "expired"
    /\ trials' = [trials EXCEPT ![dev[r]] =
                     IF @ = NoRow THEN NoRow ELSE [@ EXCEPT !.status = "pending"]]
    /\ Goto(r, "answer")
    /\ UNCHANGED <<mode, ipLog, tokenFile, dev, row, token, held, member, decision, created,
                   decisions, faults>>

ReissueKnown(r) ==
    /\ at[r] = "reissue" /\ NewTokens # {}
    /\ token' = [token EXCEPT ![r] = AnyOf(NewTokens)]
    /\ Goto(r, "answer")
    /\ UNCHANGED <<db, tokenFile, dev, row, held, member, decision, created, decisions, faults>>
Reissue(r) ==
    /\ at[r] = "reissue" /\ NewTokens # {}
    /\ token' = [token EXCEPT ![r] = AnyOf(NewTokens)]
    /\ Goto(r, "append")
    /\ UNCHANGED <<db, tokenFile, dev, row, held, member, decision, created, decisions, faults>>

(* append_token_to_server waits for the lock of the file.  Without a name    *)
(* for the file it does nothing.                                             *)
Appended(r) ==
    /\ at[r] = "append"
    /\ file' = IF configured THEN file \cup {token[r]} ELSE file
    /\ Goto(r, "answer")
    /\ UNCHANGED <<db, locked, kept, configured, dev, row, token, held, member, decision,
                   created, decisions>>
AppendUnlocked(r) ==
    /\ Appended(r)
    /\ bare' = bare \ {token[r]}
    /\ UNCHANGED faults
Append(r) ==
    /\ locked = {} \/ ~configured
    /\ Appended(r)
    /\ bare' = bare \ {token[r]}
    /\ UNCHANGED faults

(* The lock cannot be opened or taken (or the system has none): the token is *)
(* appended all the same.  A line that goes to a file the server has just    *)
(* replaced is lost like one written right before the replacement.           *)
AppendWithoutLock(r) ==
    /\ configured /\ faults < MaxFaults
    /\ Appended(r)
    /\ bare' = bare \cup {token[r]}
    /\ faults' = faults + 1

(* The file cannot be opened or written: the request ends with an exception. *)
AppendFails(r) ==
    /\ at[r] = "append" /\ configured /\ faults < MaxFaults
    /\ faults' = faults + 1
    /\ Done(r)
    /\ UNCHANGED <<db, tokenFile, held, member, decision, created, decisions>>

(* The row is read again for the answer; without it there is none.           *)
Answer(r) ==
    /\ at[r] = "answer"
    /\ held' = [held EXCEPT ![dev[r]] =
                   IF token[r] = 0 \/ trials[dev[r]] = NoRow THEN @ ELSE token[r]]
    /\ Done(r)
    /\ UNCHANGED <<db, tokenFile, member, decision, created, decisions, faults>>

(* The connection of the client is gone: nobody learns the token.            *)
AnswerLost(r) ==
    /\ at[r] = "answer" /\ faults < MaxFaults
    /\ faults' = faults + 1
    /\ Done(r)
    /\ UNCHANGED <<db, tokenFile, held, member, decision, created, decisions>>

Handler(r) ==
    \/ Read(r) \/ Refuse(r) \/ Allow(r) \/ LogIp(r) \/ Create(r) \/ Duplicate(r)
    \/ Expired(r) \/ Reissue(r) \/ Append(r) \/ Answer(r)
-----------------------------------------------------------------------------
(* The VPN server registers a device that presents a token of the file: it   *)
(* takes the lock, reads the lines, writes them without that one to a new    *)
(* file and renames it.  A device forgets its token once it is registered,   *)
(* and also when the server does not find it: then it has to ask again.      *)
ServerReads(d) ==
    /\ locked = {} /\ d \notin member /\ held[d] \in file
    /\ locked' = {d}
    /\ kept' = file \ {held[d]}
    /\ UNCHANGED <<db, file, bare, configured, request, held, member, decision, created,
                   decisions, faults>>

ServerRenames ==
    /\ locked # {}
    /\ file' = kept /\ kept' = {} /\ locked' = {}
    /\ member' = member \cup locked
    /\ held' = [d \in Devices |-> IF d \in locked THEN 0 ELSE held[d]]
    /\ UNCHANGED <<db, bare, configured, request, decision, created, decisions, faults>>

ServerRefuses(d) ==
    /\ locked = {} /\ held[d] # 0 /\ held[d] \notin file
    /\ held' = [held EXCEPT ![d] = 0]
    /\ UNCHANGED <<db, tokenFile, request, member, decision, created, decisions, faults>>

Presents(d) == ServerReads(d) \/ ServerRefuses(d)
-----------------------------------------------------------------------------
(* The administrator.  A row must exist to be decided on, and be in the bin  *)
(* to be taken out of it or deleted.                                        *)
Decide(d, new, word) ==
    /\ decisions < MaxDecisions
    /\ trials' = [trials EXCEPT ![d] = new]
    /\ decision' = [decision EXCEPT ![d] = word]
    /\ decisions' = decisions + 1
    /\ UNCHANGED <<mode, ipLog, tokenFile, request, held, member, created, faults>>

SetStatus(d, s) ==
    /\ trials[d] # NoRow
    /\ Decide(d, [trials[d] EXCEPT !.status = s,
                                   !.expires = IF s = "approved" THEN "never" ELSE @], s)

RestoreTrial(d) ==
    /\ trials[d].status \in InBin
    /\ Decide(d, [trials[d] EXCEPT !.status = "trial", !.expires = "later"], "none")

PurgeTrial(d) ==
    /\ trials[d].status \in InBin
    /\ Decide(d, NoRow, "none")

SetMode ==
    /\ decisions < MaxDecisions
    /\ mode' = IF mode = "auto" THEN "manual" ELSE "auto"
    /\ decisions' = decisions + 1
    /\ UNCHANGED <<trials, ipLog, tokenFile, request, held, member, decision, created, faults>>

Administrator(d) ==
    \/ \E s \in {"approved", "rejected", "revoked"} : SetStatus(d, s)
    \/ RestoreTrial(d) \/ PurgeTrial(d)
-----------------------------------------------------------------------------
(* A trial expires; the log's window passes; the broker is killed with the   *)
(* requests it was serving and started again.                               *)
TrialEnds(d) ==
    /\ trials[d].expires = "later"
    /\ trials' = [trials EXCEPT ![d].expires = "past"]
    /\ UNCHANGED <<mode, ipLog, tokenFile, request, held, member, decision, created,
                   decisions, faults>>

WindowPasses ==
    /\ ipLog > 0 /\ \A r \in Requests : at[r] \notin {"log", "create"}
    /\ ipLog' = 0 /\ created' = 0
    /\ UNCHANGED <<trials, mode, tokenFile, request, held, member, decision, decisions, faults>>

Crash ==
    /\ faults < MaxFaults /\ \E r \in Requests : at[r] # "idle"
    /\ faults' = faults + 1
    /\ at' = [r \in Requests |-> "idle"]
    /\ row' = [r \in Requests |-> NoRow] /\ token' = [r \in Requests |-> 0]
    /\ dev' = [r \in Requests |-> AnyOf(Devices)]
    /\ UNCHANGED <<db, tokenFile, held, member, decision, created, decisions>>

Next ==
    \/ \E r \in Requests : Handler(r)
    \/ \E r \in Requests, d \in Devices : Ask(r, d)
    \/ \E d \in Devices : Presents(d) \/ Administrator(d) \/ TrialEnds(d)
    \/ \E r \in Requests : AnswerLost(r) \/ AppendWithoutLock(r) \/ AppendFails(r)
    \/ ServerRenames \/ SetMode \/ WindowPasses \/ Crash

Spec == Init /\ [][Next]_vars

(* A thread of its own serves each request, the server serves, and the user  *)
(* of a device goes on asking: of the code, only the first two.              *)
FairSpec ==
    /\ Spec
    /\ \A r \in Requests : WF_vars(Handler(r))
    /\ \A d \in Devices : WF_vars(Presents(d)) /\ SF_vars(\E r \in Requests : Ask(r, d))
    /\ WF_vars(ServerRenames)
-----------------------------------------------------------------------------
TypeOK ==
    /\ \A d \in Devices :
          \/ trials[d] = NoRow
          \/ trials[d] \in [client : 1..MaxTokens, status : Statuses,
                            expires : {"never", "later", "past"}]
    /\ mode \in {"auto", "manual"}
    /\ ipLog \in 0..(Limit + Cardinality(Requests) - 1)
    /\ file \cup kept \cup bare \subseteq 1..MaxTokens /\ configured \in BOOLEAN
    /\ held \in [Devices -> 0..MaxTokens] /\ token \in [Requests -> 0..MaxTokens]
    /\ dev \in [Requests -> Devices] /\ member \subseteq Devices
    /\ \A r \in Requests : (at[r] \in {"log", "create"}) = (row[r] # NoRow)

(* However many requests one device has under way, its client name never     *)
(* changes while its row exists: the trial's usage is counted by that name.  *)
NameIsStable ==
    [][\A d \in Devices : trials[d] # NoRow /\ trials'[d] # NoRow
            => trials'[d].client = trials[d].client]_vars

(* A token a device was answered with is in the file the server reads, also  *)
(* when that is being rewritten, until the server takes it out for it: if    *)
(* the broker knows the file and the token was appended under the lock.      *)
Reached(d) ==
    held[d] # 0 /\ d \notin locked => held[d] \in (IF locked = {} THEN file ELSE kept)
TokenReachesServer ==
    configured => \A d \in Devices : held[d] \notin bare => Reached(d)

(* The docstring of append_token_to_server promises the same flock as        *)
(* --gen-token, so that no append is lost.  False: when the lock fails the   *)
(* token is appended without it, and the server's rewriting drops it.        *)
NoAppendIsLost == configured => \A d \in Devices : Reached(d)

(* The entry in the log comes before the row: the rows created from one      *)
(* address within the window exceed the limit only by the requests that were *)
(* served at the same time, whatever crashed in between.                     *)
CreatedWithinLimit == created <= ipLog /\ created < Limit + Cardinality(Requests)

(* A device the administrator approved gets in, if that remains his word,    *)
(* even if a crash came between its row and its token, and if a token it was *)
(* answered with was lost on the way to the file.                            *)
ApprovedGetsIn ==
    configured =>
        \A d \in Devices : <>[](trials[d].status = "approved") => <>(d \in member)

(* A device the administrator rejected or cancelled gets neither a trial nor  *)
(* an approval back from requests that still carry what they read before;    *)
(* at most it is pending again.                                              *)
RejectedStaysOut ==
    \A d \in Devices : decision[d] \in InBin
        => trials[d].status \in {decision[d], "pending"}
=============================================================================
