# ScholarVPN: specification and verification

TLA+ models of ScholarVPN, the configurations with which TLC checks them, and
theorems about them that TLAPS proves. `PROJECT.json` is the index: components,
runs, the mutations that show each property can fail, the correspondence of every
definition with lines of the source, the hazards and the theorems.

To check a run: `tlc -workers 2 -config MCSessions.cfg MCSessions.tla`.
To check the proofs: `tlapm SessionsProofs.tla`.

## 1. The system

A **server** (C++, Linux) gives each **client** (C++, desktop; Kotlin, Android) an
address of a private network. Packets of the TUN device travel as frames of a
datagram session (UDP) or of a stream (TCP) that share one table of sessions. A
**trial broker** (Python) hands out tokens and trials that the server meters, a
**web administration** decides on them, and a **controller with agents** manages the
servers.

| Component | State | Operations | Interacts through | What is hard | What makes it correct |
|---|---|---|---|---|---|
| Frame numbering and anti-replay window (`Session.h`, `src/replay_window.h`, `UDP.cpp` of both sides) | counter, window head and bitmap | seal and send, receive, reset at new keys | datagrams | loss, duplication, reordering, strays, the end of the counter | delivered at most once, nothing fresh refused, no number used twice under one key |
| Handshake (`server/UDP/UDP.cpp`, `src/UDP.cpp`) | stage, nonces, keys, registered clients, one-shot tokens | hello, client hello, identity and their answers, retransmission, refusals | datagrams, two files | late messages of earlier attempts, lost answers after the effect, failed writes | both ends agree on keys, connected implies registered, the client recovers |
| Session table, address pool, leases, routes (`server/UDP`) | table by peer key, pool, `m_vip_to_key`, `m_last_vip` | admit, evict, authenticate (scan, allocate, kick, publish), release, time out | shared memory of the UDP thread, the TCP thread, the heartbeat and the TUN sender, under three locks | every step runs between two locks | an address has one owner, an identity has one session, nothing leaks |
| Metering of managed clients (`server/UDP`, `ServiceDB.cpp`) | byte counter, base and flag of a session; pending usage; database | count, check, cut, collect, flush, release | shared memory, SQLite | counters emptied and batches swapped by one thread while another reads them | billed once, cut at the quota |
| TCP transport (`tcpserver.cpp`, `src/tcp.cpp`) | kernel buffers, backlog, receive buffers, send queue, drop flag | send, partial write, flush, read with a budget, pump, drop | stream, queue filled by other threads | frames cut anywhere, backlog before new frames, missed wake-ups | order, nothing lost while open, no well-formed stream given up, no starvation |
| Reconnect manager (`reconnect_manager.cpp`) | worker, attempts, retries, token | start, stop, attempt, monitor, give up | callbacks into the application | stop during an attempt or a callback | stop returns, retries are bounded, refusals end |
| Client application, DNS guard, routes (`ClientApp.cpp`, `DnsLeakGuard.cpp`, `route_manager.cpp`, `AppBridge.cpp`) | adapters' DNS, policy, routes, backup, watchdogs | start, stop, protect, restore, connected and reconnecting callbacks | operating system; a watchdog process | crash while redirected, many reconnections, the user's own edits | not connected means untouched, what the user chose comes back |
| Trial broker (`tools/broker`), the web administration's decisions (`tools/webadmin`) | trials, log of addresses, mode, token file | register, approve, reject, revoke, restore, purge | database, a file the server rewrites | requests at once, rows read and written in different transactions, crash in between | limit per address, stable client name, tokens reach the server, a rejection holds |
| DNS proxy (`DnsProxy.cpp`, its use in `ClientApp.cpp`) | pending queries by transaction id, the adapter's DNS setting | start and stop with the tunnel; a round: sweep, wait, answers first, then a query | sockets, the reconnect worker's callbacks | late answers, ids reused by another query, a start that fails while the adapter still points at the proxy | nobody gets another's answer while a transaction is open; every asker hears |
| Server administration (`server/ServerAdmin`) | controller: the table of online agents and the slot of the pending command; agent: one connection, one command; `admin_server`: its clients, the counter of failed logins; the token file, shared with `vpn_server` | admit an agent, forward a command, reply, list, generate and delete tokens, `admin_cli` | TCP between agent and controller, loopback HTTP, `flock` on the token file | agents served one after the other inside the accept loop, time-outs while the command still runs, half-open connections, a process that dies between read and rename | a command runs at most once and its answer belongs to it, no token is lost or used twice, an agent that keeps trying comes online |
| Updates (`src/update`, the window's update dialogs) | signed policy, installed version, package on disk; one flag for a running check, one for a download | check, compare, decide, download, install | HTTP, detached threads whose results come back as queued events | policy and signature fetched one after the other, results of an earlier check, restart in between | what is installed was signed; one thread of each kind; the decision is monotone in the version |
| Desktop window, bridge and managed service (`QtWidgetsClass.cpp`, `AppBridge.cpp`, `ClientApp.cpp`, `service_client.cpp`) | cards, selected card, dialogs; busy flags and queued results; what `set_server` chose; the gate of a blocked device; the identity's files | connect, edit, deliver, apply, check, update | queued signals, the bridge's thread, worker threads, `config.ini` | results that arrive after the user moved on, dialogs with a loop of their own, two programs' worth of state in one file | every server is checked with its own key and gets only the token meant for it, a delivery loses no card of the user, the gate follows the service |
| `config.ini` (`Config.cpp`, `platform/ini_doc.h`) | lines of a file people edit by hand | load, get, set, delete keys and sections | every setting is a load, a change and a save, from several threads | repeated sections, comments, spellings that differ by case; calls that fail, two writers | what was set is read back, nothing else changes |
| Packet queues and TUN pipeline | bounded queues | push, pop, drop when full | one producer, one consumer | little | order |
| Others: cryptographic wrappers, address arithmetic, web front end, Android client | | | | | see section 7 |

`PROJECT.json` lists every component with its status, and under "hazards" each place
of the source where the hard behaviours bite, with the properties aimed at it.

## 2. Plan

The order is that of importance: first what every packet relies on, then what a
session relies on, then the client's host, then the services around them.

| | Module | Composes / refines | Proofs | State |
|---|---|---|---|---|
| 1 | `ReplayChannel` | refines `AtMostOnce` | `TransportProofs` | done |
| 2 | `Handshake` | | `HandshakeProofs` | done |
| 3 | `Sessions` | what Handshake admits | `SessionsProofs` | done |
| 4 | `Accounting` | the release of `Sessions` | `AccountingProofs` | done |
| 5 | `TcpTransport` | refines `FrameStream` twice | `TransportProofs` | done |
| 6 | `ClientNet` | Reconnect manager and guard | `ClientNetProofs` | done |
| 7 | `Broker` | the token file of Handshake | `BrokerProofs` | done |
| 8 | `TokenFile`, `AdminChannel` | AdminChannel extends TokenFile and refines `RemoteCall` | `AdminChannelProofs` | done |
| 9 | `DnsProxy` | with the callbacks of ClientApp that start and stop it | `ClientNetProofs` | done |
| 10 | `IniDoc` | the document below `config.ini`, pure | `DesktopProofs` | done |
| 11 | `UpdatePolicy` | comparison and decision, pure | `DesktopProofs` | done |
| 12 | `CardFile`, `Updater`, `Desktop` | Desktop extends both; the client's identity files are in it | `DesktopProofs` | done |
| 13 | two writers of `config.ini` | `IniDoc` from two threads | | planned |
| 14 | `DnsGuardLinux` | same promise as `ClientNet` | | planned |

Planned extensions of what exists: the domain audit and the blacklists in `Accounting`.

## 3. Modules and how they correspond to the code

Each definition has its lines in "map". Definitions whose name appears after a
near-namesake (`Shifted` after `ShiftedNoTruncation`, `ReadAllBut` after
`ReadAllButUnlocked`) have that namesake as their mutation: a bug the code could have,
listed under "mutants", which must break the property named there.

**AtMostOnce** is what one direction of a session promises: a sealed frame is
delivered at most once. **ReplayChannel** is the sender's counter (`m_seq`,
`Session::seq`, refusing `kSeqRekeyLimit`), a network that holds any set of
datagrams and strays, and the receiver: `TooOld`, `Opens` (AES-GCM under the keys of
the direction), `Accepts` and `Commit` in the order of `handle_frame` and
`handle_framed`. The bitmap is the set of ages whose bit is set; `Shifted` drops what
leaves the word. `NewSession` is `UDP::init` and its server-side counterpart: new
keys, counter and window from the start. The server's copy (`Session.h`) and the
client's (`replay_window.h`) have the same text; one module stands for both.

**Handshake**: one client, its ports, and the server's session for each. A server
session carries the stage of `hs_stage`, the nonces, the ephemeral keys and the
session keys; a key is the pair of ephemerals and nonces it is derived from, so keys
are equal exactly when they were derived from the same things. Actions are the
handlers `RecvHello`, `RecvClientHello`, `RecvIdentity`, `RecvServerHello`, `RecvOk`,
`RecvDeny` and the client's steps and time-outs; `Verdicts` is the order of checks in
`handle_identity`, and `Register` what the two files make of a registration: the token stays
where it is (`file_remove_line` cannot lock, write, synchronise or rename) and the client is
denied; the token is gone and the other file cannot be opened, and it is denied; or
`file_append_line` says that the key is written and the flush it does not look at loses the line
(`lineLost`): then the client is let in. ConnectedMeansRegistered is claimed but for that
case; `LetInMeansWritten` is the statement without the exception, and false (section 8).

**Sessions**: one step is what a thread does between two lock operations.
`Authenticate` goes through scan, address, kick, publish; `Release` through detach
from the table, unroute, free, flag; `TakeDown` is the heartbeat's (and the TUN
sender's) use of a copy of the table. A session object exists under a peer key.

**Accounting**: a byte (a packet) is counted, compared and cut by the serving thread
and by the sender; the heartbeat takes the counter with `exchange(0)` and flushes;
`flush` swaps the pending usage under the lock, then writes without it.

**FrameStream** is the promise of one direction of a connection: frames accepted are
delivered in order, none left out. **TcpTransport** is the connection in units of a
stream: `raw_send` with its partial write and the backlog, `read_conn` with the
budget, `flush_conn_tx` and `pump_tx` with the queue other threads fill.

**ClientNet**: threads of `AppBridge` and the reconnect worker; `at` is where each is.
`protect()` and `restore()` are done adapter by adapter; a watchdog is the set of
commands a helper process will run when the client's process ends.

**Broker**: `_handle_register` step by step, one per SQL statement that commits; the
administrator's decisions; the token file with its lock, which the server's
`file_remove_line` holds while it rewrites the file. `Append` waits for the lock;
`AppendWithoutLock` is the path of `broker.py:79-83`, where it cannot be had, and `bare` remembers
the tokens appended so; `AppendFails` is a file that cannot be written, which ends the request.
`configured` is whether `SERVICE_TOKENS_FILE` is set: without it the broker answers with tokens no
server knows. TokenReachesServer is claimed of a configured broker and of tokens that were
appended under the lock; `NoAppendIsLost` is the statement of all tokens, and false (section 8). A device whose
token the server does not find forgets it and asks again, so ApprovedGetsIn holds over such a loss.

**TokenFile** is the file of one-time tokens and the file of registered clients:
`vpn_server`'s threads remove a token and register a client, `admin_server` deletes,
generators append. A removal is two steps (read all lines but one under the lock,
then rename) between which a process may die. **RemoteCall** is what the administrator
is promised of one command: it is executed at most once; "refused" means it never will
be; "answered" means that this very command has run; otherwise the outcome is
unknown and it may run even later. **AdminChannel** joins them: the controller's
agent thread, which serves one agent inside its accept loop, and its HTTP thread; the
connections with the frames under way; the agent, which does one command at a time;
`admin_server`'s event loop with its block after failed attempts; `admin_cli`, which
reaches the same server from the same address. `desk[x]` is the HTTP connection of a
client of `admin_server`, from opening to answer; a request whose client has gone is
still served.

**CardFile** is `config.ini` as far as the cards go: sections with gaps, the count,
the record of delivered servers, and every function of `Config.cpp` that rewrites it
(loading with renumbering, saving a snapshot, delivery, editing, deletion). A key and a token of
the user's own servers are named by the server; what is delivered carries the one token of
`[Service]`, `Service`, which all delivered cards share (`apply_managed_servers`). `TokenOf` is
the token meant for a server.
**Updater** is the check (policy, then signature, from a server where someone
publishes meanwhile), the decision, the download with its digest and the boxes.
**Desktop** extends both with the window, `AppBridge` and its threads, `ClientApp` from
a click to the callbacks and the managed service. Signals queued to the window are
sequences, taken in order by the thread of the user interface; nested loops of modal
dialogs are why a result may arrive while a dialog is open. `overlay` is the list of cards over the
window (`m_diaCard`): opening it reads `config.ini` anew, only in the stopped state, and what is
open stays open when the client starts or loses its connection meanwhile.

**IniDoc** is `ini_doc.h` line by line: a document is a sequence of lines, `Set` edits
the first line of the key or inserts one at the end of its section. `Saves` is what a save may
leave with what it answers: the whole text, the file as it was with a refusal, or, with
a success, a text cut anywhere (`Torn`), because the flush is not looked at. `ReadAs`: a file that cannot be
opened is changed as if it were empty.
**UpdatePolicy** is `compare_version`, the reading of the policy's fields and `decide`.
Both are operators without state, so that the theorems hold for every document and
version.

**DnsProxy**: one round of `run_loop` is sweep, poll, the upstreams' sockets, then one
query; `Connected` and `StopBegins` are the callbacks of the reconnect worker with the
setting of the adapter's DNS, which may fail.

## 4. Runs

| Run | States | Shows | Bounds, and why they suffice |
|---|---|---|---|
| `replay` | 666,260 | the window is exact, numbers never reused, fresh frames pass; refines `AtMostOnce` | window 3, limit 5 of 7 numbers, 2 key epochs, 3 datagrams in flight, a forged number: the window shifts by less, exactly and more than its width, and the limit is reached. The theorems remove the bounds. |
| `handshake` | 382,308 | Agreement, ConnectedMeansRegistered, AuthedNeverReset; after the disturbance ends the client connects (EventuallyConnected) | 3 attempts on one port (so that two earlier ones leave datagrams, and one failure can be the disturbance's), 1 retransmission of each stage, 2 server nonces while the network is disturbed, either file failing in each way at every registration until then, 3 datagrams in flight; after the second nonce 3 only if an `identity_ok` is one of them, which is what an earlier attempt must leave behind to mislead a later one. Nothing is bounded once the network is calm. |
| `sessions` | 1,273,586 (up to symmetry) | AddressExclusive, OneSessionPerIdentity | 3 sessions, 2 UDP keys and a TCP key, 2 identities, 2 addresses, three threads: an eviction, a kick by either thread and a late release all fit together. The theorems remove the bounds. |
| `accounting` | 590,483 | BilledOnce, CounterUnderQuota, OverQuotaIsReleased | 2 successive sessions, a quota of 2 packets and 3 carried, a failed write |
| `tcp` | 197,071 | both directions refine `FrameStream`; NeverGivenUp, DownlinkFlows | frames of 2 units and buffers of 3, so that every cut of a frame happens; 4 frames against a budget of 2 and queues of 4, so that every limit is met |
| `client_net` | 172,707 | OneInTheGuard, OfflineIsUntouched, UserDnsRestored, CrashIsRepaired, StopReturns | 1 adapter (adapters are done in turn and do not affect each other), 2 starts, 2 connections, 2 edits, 2 retries, any number of crashes within them |
| `broker` | 303,041 | TokenReachesServer, CreatedWithinLimit, RejectedStaysOut, ApprovedGetsIn | 2 requests of one device at once, a limit of 1, 2 decisions, 1 fault: a kill, a lost answer, a file that cannot be written or a lock that cannot be had (a broker without `fcntl` has none at any request; then nothing is claimed of its tokens, see section 3), with and without the file's name. A second device would share only the limit, the mode and the file, which the two requests already contend for. |
| `admin` | 413,226 | TokensAreKept, OneAdmissionPerToken, AnswersThisCommand, OnlineIsServed, AgentComesOnline; refines `RemoteCall` | 2 commands, 2 connections (so that an agent dials while its old connection is served), 2 tokens, 1 failed login allowed, and seven mixes of outside events ("Budgets"): two commands at once by either entry, deletions against registrations, faults of each process and of the link, `admin_server` down. The theorems remove the bounds of everything but liveness. |
| `desktop` | 275,767 | IdentityOfTheServer, DeliveryKeepsCards, InstalledWasSigned, OneThreadEach, RefreshAnswered, GateFollows | 4 servers, two of them the service's and one delivered while the program runs, and seven scenarios: cards edited while connecting; a list delivered while cards change; connecting to a delivered server while its token is renewed; the service blocks and releases while the network fails; a new device chooses the service; updates while the client connects and stops; updates over a restart. As assumptions of its module it also evaluates that a whole save is read back on all files of up to 3 lines, that a torn one keeps what stands before the cut, and that versions of up to 4 segments are ordered. |
| `dns_proxy` | 254,624 | NeverMixed, EveryAskerHears | 2 queries with one id and different upstreams, 2 connections, 1 disturbance (a lost, late or repeated answer, a failing start). The theorem removes the bounds of NeverMixed. |

Two runs show where the code departs from what its comments say ("findings"):

* `accounting_quota`: the heartbeat empties the counter that the quota is checked
  with and leaves the base as it was at login, so a session passes its quota
  (`UDP.cpp:1714`, against `UDP.cpp:1175-1176`).
* `sessions_downlink`: the route of an address is written without looking at the release
  that another receiving thread has just made, so the route of a client that is logged in
  can name its earlier, released session and no packet reaches it (`UDP.cpp:1664`,
  against 252-254).

Statements that are in the modules and false of the code without a run of their own are
in section 8.

`CHECK_DEADLOCK FALSE` stands where the bounds are used up (attempts, starts, bytes,
decisions) and where the program may stop: a client that gave up or has quit,
sessions that are gone, devices that are registered.

## 5. Fairness

* Threads that are in the middle of something go on (`WF` on a thread's next step): the
  loops of the code have no wait without a time-out, or wait for one of the others.
* `Handshake`: client and server threads run; on a **calm** network a datagram in flight
  arrives (UDP gives no such promise in general, so liveness is claimed only from then
  on); the heartbeat releases sessions nobody keeps alive.
* `Accounting`: `WF` of each thread's continuation only; traffic and log-ins are free to stop.
* `TcpTransport`: the event thread goes round, because its wait ends after 200 ms at the
  latest, and the client's receiving thread reads.
* `ClientNet`: threads go on; a watchdog whose process has ended gets to run its
  commands. Nothing is assumed of the user, the link or of a restart.
* `Broker`: each request has a thread of its own (`ThreadingHTTPServer`); the server
  finishes a rewriting it began and serves a device that presents a token; the user of
  an approved device that has neither token nor registration asks again. The last is
  an assumption on the user (the request is sent on a click), without which there is
  nothing to promise.
* `AdminChannel`: the threads of the controller, the agent and `admin_server` go on; waits
  with a time-out end; a service manager restarts what has died; a holder of the token
  file's lock lets it go. Commands, faults and other programs at the file come from a bounded
  budget. `AgentComesOnline` is claimed for a controller that has loaded the agent's key.
* `Desktop`: the event loop of the window, the bridge's thread and the workers go on; in the
  scenarios that beat, the timers (30 s, 5 min) fire. Nothing is assumed of the user.
  `GateFollows` speaks of a service that has made up its mind and can be reached.
* `DnsProxy`: the loop goes round because a poll lasts 500 ms at most; a datagram that is
  readable again and again is read (strong fairness: the set of readable datagrams
  here stands for a first-in-first-out socket buffer). Only once the network is calm:
  upstreams answer within ten seconds, resolvers repeat, the proxy stays up.

## 6. Proofs

A proof module covers what travels or is kept together; each theorem is of the
specification its module's run checks.

`TransportProofs`, the datagrams (for every window width, limit below the modulus,
number of epochs and set of forged numbers; assumption `ChannelAssumption`):

* `ChannelInvariant`: the inductive invariant. The window's exactness is not inductive
  alone: that a set bit means "delivered" needs that nothing above the head was
  delivered (`DeliveryHistory`), which needs that what opens was sealed under the
  current keys (`Provenance`), and that a new number is above all sealed ones
  (`NumbersNeverReused`).
* `WindowSafety` and `NoFalseRejection`: WindowExact, HighestIsGenuine,
  NumbersNeverReused and FreshFramesPass follow from it. `AcceptedIsFresh` is the lemma that
  the three tests of the receiver together admit only an undelivered sealed frame.
* `NumbersStayFresh`: no number is sealed twice under one set of keys and none reaches the
  re-key limit, the property by itself.
* `ChannelRefinesPromise`: each step is a step of `AtMostOnce` or a stutter.

`TransportProofs`, the stream (for every length of a frame and size of socket, queue,
backlog and budget; assumption `TransportAssumption`):

* `StreamInvariant`: the inductive invariant `StreamIInv`. That frames come out in order is
  not inductive, since a frame is somewhere cut in two at any time. `Place` counts the units of
  the stream from its first; `Contig` says that a buffer holds the units from some place
  on without a gap. `UpStream` and `DownStream` say that the buffers of a direction, taken
  from the receiver's to the sender's, are one such run, from the last frame handed out to the last
  accepted; `RawSendState` says where a thread in the middle of `raw_send` is in its frame, and
  `ReadRound` what the receive buffer may hold at each point of a round, from which
  follows that a well-formed stream never fills it.
* `UplinkKept`, `DownlinkKept`: each step is a step of `FrameStream` or a stutter, in
  each direction. `NeverBroken`: NeverGivenUp, step by step.
* `TransportTypes`: the type invariant with the limits of backlog and queue.

What `TransportAssumption` asks of the constants is what the code's numbers give: a frame
has at most 1,441 bytes and 64 sealed ones are more than one `recv` of 1,505; the receive buffer of
512 KB and the backlog of 4 MB hold many frames.

`HandshakeProofs` (for every set of ports and number of attempts, retransmissions and
server nonces; assumption `HandshakeAssumption`):

* `HandshakeInvariant`: Agreement is not inductive, since a session gets its keys one
  message before it is authenticated and the client derives its own in between. `Derived` names
  the attempts whose keys are final; `Sealed` says that an identity on its way belongs to
  such an attempt, carries its keys and its context, and that an `identity_ok` is sealed
  under keys that were accepted; `ServerKnows` and `ClientKnows` that each end holds the keys
  of the attempt it is in. `Monotone` is the lemma that none of this is taken back.
* `KeysAgree`, `OnlyRegistered`: Agreement and ConnectedMeansRegistered follow from it. The
  latter has the exception of a line that was lost unnoticed; without it the statement is false
  (`LetInMeansWritten`, section 8).
* `NoReset`: AuthedNeverReset, step by step; only the identity's sequence number, or the
  release of the session, changes an authenticated one.

`BrokerProofs` (for every set of devices and finite set of requests, every limit and number
of tokens, decisions and faults; assumption `BrokerAssumption`):

* `BrokerInvariant`: a token is in one hand (`OneHand`: two devices or requests never have
  the same) and is in the file before it is answered (`WrittenFirst`); both are needed for
  TokenReachesServer, or the server would take out one device's token for another. The
  limit needs the requests between their entry in the log and their row (`Limits`).
* `AnsweredTokensCount`, `LimitHolds`, `RejectionHolds` follow from it. `WrittenFirst`, and with
  it `AnsweredTokensCount`, speaks of a broker that knows the file and of tokens appended under the
  lock; how often the lock fails is not bounded there.
* `NameStays`: the client name of a device's row never changes (`NameIsStable`), step by step.

`SessionsProofs` (for every set of sessions, keys, identities, addresses and janitor
threads; assumption `SessionsAssumption`):

* `TableInvariant`: TypeOK and three parts. `Locals` ties each thread's locals to
  its program counter, and says that no two threads release one session: it rests
  on each session being taken out of the table under the lock by one of them.
  `Addresses` extends exclusiveness to sessions that are out of the table and whose
  address is not yet back in the pool: without them an address could be given out
  twice. `Identities` says that of two sessions of an identity that have both been
  scanned for, one is on the other's list: it is what the race of the UDP and the TCP
  thread comes down to, as the scan and the mark are one critical section.
* `TypeCorrect`, `AddressSafety`, `IdentitySafety` follow from it.

`AdminChannelProofs` (for every number of tokens, threads, connections, commands and
outside events; assumptions `TokenFileAssumption`, `AdminAssumption`):

* `ChannelInvariant`: the inductive invariant. For the file (`FileInv`): whoever is
  between read and rename has the lock, and what it read is what the file still is
  (`Removals`); of the threads one at a time registers (`Registrations`). For the
  commands: one that may still be executed is in exactly one place, with the HTTP
  thread, in one frame or in one request (`CarriedOnce`); whoever waits for an answer waits
  for his own command (`Waiters`); what a reply says has happened (`Answers`). At most
  once is not inductive without `CarriedOnce`, since the second copy would do the harm.
* `ChannelKeepsFileSpec`: the composition uses the file only as `TokenFile` allows.
* `UpdatesAreKept`, `TokensAdmitOnce`, `RepliesMatch`, `TableIsServed`: the properties of
  the run, for every instance.
* `ChannelKeepsPromise`: each step is a step of `RemoteCall` or a stutter. The proof found a
  case the run's first mixes did not contain: a command given while `admin_server` is
  down is refused at once.

`AccountingProofs` (for every finite set of sessions, every quota, number of bytes and of failing
writes; assumption `AccountingAssumption`):

* `AccountingInvariant`: the inductive invariant `AccountingIInv`. `Shape` ties each thread's
  locals to its place and says that no two threads release a session. BilledOnce is then
  kept by each step, because a step moves an amount from one place to another. `CutComes`
  is what CounterUnderQuota lacks: a session over its quota that is still in the table has a
  thread on its way to take it out. TLC checked `AccountingIInv` on the run's states first.
* `AccountingTypes`, `BytesBilledOnce`, `CounterStaysUnder` follow from it.
* The sums over sessions and threads are folds. That one changes by as much as one of its
  elements (`SumChanges`) would be an induction over sets; it is proved from a smallest
  subset on which it would fail.

`ClientNetProofs`, the guard (for every set of adapters and servers and every bound):

* `GuardInvariant`: the inductive invariant `GuardIInv`, from which the rest follows. `Places` says
  where the two threads can be together: `stop` waits for the worker, so the two are
  never in the guard at once; that is why it needs no lock. `Holes`, `Policies` and `TunnelRoute`
  say which changes of the machine a thread's place leaves possible; `Backups` that a redirected
  adapter is in the backup with its user's setting until it was written back.
* `OneThreadInTheGuard`, `OfflineMachineUntouched`, `UserDnsGivenBack`: the properties of the run.

These have a hypothesis, `Alone`: one thread of the application starts and stops the
client (`AppThreads = {"bridge"}`, as in the run). The code obeys it with one exception, the
updater's stop (`AppBridge.cpp:228`, section 8), about which they say nothing.

`ClientNetProofs`, the DNS proxy (for every set of queries, ids and names; assumption
`ProxyAssumption`): `ProxyInvariant` and `NoAnswerIsMixed`. That an answer goes to its
question is not inductive: the strengthening (`InFlight`) says that what is on its way
belongs to the open transaction of its id or to a query whose transaction is over.

`DesktopProofs`, the updater (for every set of releases and servers and every scenario):

* `UpdatesInvariant`: the inductive invariant `UpdatesIInv` of `Desktop`'s specification, so
  under every step of the window, the connection and the service, not of the updater alone.
  For each busy flag there is at most one thread or one notice of its end in the queue of
  `AppBridge`'s thread, and only while the flag is up (`Once`); whatever is offered, downloaded or about to be
  installed was verified (`SignedOnly`); nothing outlives the process (`Down`).
* `OnlySignedIsInstalled`, `OneUpdateAtATime` follow from it.

`DesktopProofs`, the cards (for every set of servers, every `config.ini` to start with and
every number of clicks, deliveries, faults and starts; assumptions `CardAssumption`,
`DesktopAssumption`):

* `CardsInvariant`: the inductive invariant `CardsIInv`. IdentityOfTheServer speaks of the file and
  the connection; between them an entry passes through the list of the window, a dialog, a click in
  the queue, the snapshot, and the target and token of the client application, which two handlers
  write. Each of these must hold whole entries (`WindowHolds`, `ToConnect`,
  `ClientHolds`), and a delivery on its way only servers of the service (`ServiceHolds`). TLC
  checked `CardsIInv` on the run's states first.
  `WindowHolds` also says that while the program runs the sections are 1, 2, ... Count
  (`Tidy`): cards are numbers into the file, so a gap would put a token into the wrong section.
  A whole entry has the key of its server and `TokenOf` it, or no token: for a delivered
  server that is the service's one token, which is sent to each server of the service by
  design, so what is proved of it is that no server of the user's own ever gets it.
* `CardsKeepTheirIdentity` follows; `DeliveriesKeepCards` (DeliveryKeepsCards, step by
  step) needs `Tidy`, since apply_managed_servers reads and deletes sections 1 .. Count only, and
  a card beyond them would be lost.
* The lists that Config.cpp makes by sorting are `Picked`, by the rank of a section's number;
  `PickedIs` says that they hold all of the sections and no other.

The assumptions on the data: the entries of the first `config.ini` are genuine (what a user or
the service typed together), and a server the service delivers has a key of its own
(`BuiltIn \subseteq Own`), as the broker stores no other (`tools/broker/db.py:45-50`,
`tools/broker/broker.py:498`).

`DesktopProofs`, `config.ini` (for every file, section, key, value and folding of names;
assumption `IniAssumption`): `SetIsReadBack` and `SetKeepsOthers`. The argument is that every
key line knows the section it stands in: loading establishes it, inserting and setting keep
it, and the saved text loads to the same keys. Both are stated of each outcome of a save: a
refused one leaves the file; one that answers yes is read back and leaves other keys alone, unless
the file is torn, and then only keys without a line before the cut are lost (`Loses`; the lemma
`TornKeepsTheHead` is the reason), or, for the other keys, could not be opened before. Deletions filter the sequence (`SelectSeq`,
defined by recursion) and stay with TLC.

`DesktopProofs`, the rules of updates (for every largest segment; assumption
`SegmentAssumption`): `CompareIsAnOrder`, `NewerIsNotWorse`; `LatestIsLeftAlone` needs that the
minimum is not above the latest, and `MinimumAboveLatestLocks` shows that this is no technicality.

Only model-checked, because it is out of the prover's reach: every liveness property
(`EventuallyConnected`, `OverQuotaIsReleased`, `DownlinkFlows`, `CrashIsRepaired`,
`StopReturns`, `ApprovedGetsIn`, `AgentComesOnline`, `RefreshAnswered`, `GateFollows`,
`EveryAskerHears`), which need `ENABLED`. Every safety property of a passing run has a
theorem. What the two runs that expect a violation check is false, as are the
statements of section 8; none of them is used in a proof.

## 7. Abstractions, and what is not modelled

Within the modules:

* Cryptography is terms: a frame opens under the keys that sealed it, a signature is
  its signer's, keys derived from different inputs differ.
* `Handshake`: the limit on recomputations (`allow_handshake_recompute`) is a lost
  datagram. One client, whose own files are intact. A line of registered_clients.txt is written
  or lost; of one that is written in part the rest would spoil the next client's line, which a
  second client would be needed for.
* `Sessions`: the clearing of `m_last_vip` beyond 10,000 entries is left out, as a lease is
  only a hint. Times are nondeterministic.
* `TcpTransport`: the eventfd and `EPOLLOUT` only shorten a wait of at most 200 ms. Frames
  have one length. The bounds keep the relation of the code's constants: one `recv`
  (1,505 bytes) never holds more frames than the budget (64, each longer than 23
  bytes). `SendRefused` merges `need_reconnect` with the close that follows.
* `ClientNet`: the Windows guard. The tunnel's own adapter and default route are gone with
  the process; creation of routes and `GetAdaptersAddresses` succeed; the gate
  `m_tunIpReady` and exceptions of the worker are left out; watchdogs of an ended
  process run before the user edits again.
* `Broker`: the mode is read together with the log of addresses; an entry does not leave
  the log between the two steps of one request; a decision of the
  administrator, a read followed by a write in one handler, is one step; the
  server's rewriting of the token file does not fail (Handshake has its
  failures). A line that goes to the file the server has just replaced is lost like one
  appended right before the replacement. Client names are told apart for one device only.
* `AdminChannel`: TLS and the agent's key are an authenticated channel; time is time-outs that
  fire when their guard allows; the frame's 1 MB and the command line's 8 KB are a
  number of tokens; the static page, the wording of answers and the whitelist's file format
  are left out. One agent.
* `TokenFile`: the order of the lines.
* `Desktop`: each handler's rewriting of `config.ini` is one step that
  succeeds (`IniDoc` has its failures, section 8 two writers);
  scenarios bound clicks, news and faults; a version is the number of a release, which
  `CompareIsAnOrder` justifies. A failing write of an identity file is a crash before it.
* `IniDoc`: names and values are values with a folding; blanks and the marks of a comment
  are abstracted. What is left of a torn line is over-approximated (`Remnants`): a header of
  any name, a comment, nothing, or the key with any value. What a crash of the machine does to
  a file renamed without `fsync` is left out.
* `Updater`: the transfer is one step that fails or yields what the server holds; a download's
  first `fwrite` and its `fclose` (`update_fetcher.cpp:979`, 437, 1018) are not looked at, and the
  digest is taken of the bytes received, so a file that a full disk cut short can pass:
  InstalledWasSigned is about what was received.
* `DnsProxy`: sockets are sets of datagrams; a query is an id and a name, its parsing
  (with the limit of 16 labels) is abstracted. On Windows the listening socket that stop
  closes behaves as an open one that drops.

Not modelled: the TUN adapter's settings (one system call after another), the transfer of
updates over TLS and HTTP (the greater part of `update_fetcher.cpp`: a library's calls in
sequence), packet queues (one producer, one consumer, drop when full), cryptographic
wrappers (`Crypt.cpp`, `crypt.cpp`), CIDR arithmetic and string conversions, the layout of
the window and the web front end (presentation), the Android client (a second
implementation of the client side of `Handshake` and `ReplayChannel`); and, until the
plan reaches it, the guard on Linux.

## 8. Remarks for the maintainers

Met while modelling, and not the subject of a run. First what is stated in a module,
and false of the code:

* `server/UDP/UDP.cpp:1654`, `NoAddressLeaks` in `Sessions`: a session that is released between the
  checks of handle_identity and its allocation takes an address that nobody returns;
  `Session.h:197-199` gives the flag `released` that purpose.
* `server/TCP/tcpserver.cpp:427`, `LeftoverIsReadable` in `TcpTransport`: after 64 frames the loop
  leaves complete frames in rxBuf, which wait until the peer sends again; the comment at 363-364
  counts on epoll to come back.
* `server/UDP/UDP.cpp:1833`, `LetInMeansWritten` in `Handshake`: `file_append_line` returns what
  `fprintf` says of the buffer and looks neither at `fflush` nor at `fclose`. With a full disk
  `handle_identity` has spent the token, takes the client for registered and sends `identity_ok`,
  while its key is not in `registered_clients.txt`: the next login is refused. The comment at
  1448-1454 says that any step that fails denies 「任一失败即 deny 断开」, and its fourth step is
  the writing of that file. TLC finds it with the instance of `MCHandshake.cfg`.
* `tools/broker/broker.py:79`, `NoAppendIsLost` in `Broker`: when `fcntl` cannot be imported or the
  lock not be opened or taken, the token is appended without it, and one that is appended between the
  server's read and its rename is dropped. The docstring at 70 says 「与 server --gen-token 同 flock
  语义」, and `UDP.cpp:1841-1843` that appends at the same time are not lost. TLC finds it with the
  instance of `MCBroker.cfg`.
* `src/DnsLeakGuard.cpp:155`, `WatchdogsHarmless` in `ClientNet`: the watchdog of an earlier run can
  restore the adapters of a later one, against 153-154.
* `src/client/ClientApp.cpp:127`, `CardsStay` in `Desktop`: save_config writes back the list of cards
  loaded at the start (`Config.cpp:570-588`), which deletes cards added since the first connection;
  the comments at `ClientApp.cpp:1107-1110` and `QtWidgetsClass.cpp:522-524` expect them to stay.
* `src/DnsProxy.cpp:259`, `LateIsDropped` in `DnsProxy`: an answer that arrives after its transaction
  expired goes to the client of another query with the same id; neither the question nor the
  upstream (`viaDomestic`, stored at 296, never read) is compared, against the comment at 261.
* `src/client/ClientApp.cpp:608`, `FallsBack` in `DnsProxy`: when the proxy cannot start on a
  reconnection the adapter keeps pointing at it, against the comment at 597.

The server and its sessions:

* `server/TCP/tcpserver.cpp:445`: the limit of 2 MB (`Session.h:100-102`) bounds the queue the senders
  fill; the buffer the event thread moves it to is not bounded for a client that does not read.
* `server/TCP/tcpserver.cpp:220`: a connection the peer has half closed is dropped before
  its last data is read.
* `server/UDP/UDP.cpp:1364`: an auth_hello of a later attempt resets a session at the KEYS stage,
  where the comment at 1433-1434 speaks of the first hello only.
* `src/DnsLeakGuard.cpp:305`: protect() begins with restore(), which deletes a value of
  `DisableSmartNameResolution` that an administrator had set before protect() reads
  it; 287 writes an empty list, that is DHCP, for an adapter whose setting could not be
  read, where 134-136 says that nothing is changed.
* `src/client/ClientApp.cpp:961`: routes of split and bypass mode keep the gateway they were made with
  when the machine changes networks.
* `src/gui/AppBridge.cpp:228`: the updater's stop() on the user interface's thread, while the
  bridge's thread is inside start(), leaves a connection with `m_running` false. `ClientNet` with
  a second thread in `AppThreads` shows it.
* `tools/broker/broker.py:268`: a request that read an expired trial makes it pending after the
  administrator rejected it: the rejection must be repeated (`RejectedStaysOut`
  shows that nothing worse follows). The comment at 261 says a rejected device stays locked.
* `tools/broker/broker.py:71`: without `SERVICE_TOKENS_FILE` the broker still mints and answers
  tokens, which no server will accept.

Administration:

* `docs/中转站通信协议.md` (6.6) and the comment at `Controller.cpp:342` describe a reconnection that
  replaces an agent's old connection. Agents are served one after the other inside the accept loop,
  so a second `hello` of the same id is read only after the first connection has ended.
* `Controller.cpp:410`: "one command in flight for an agent" ends with a 504; the agent may still
  execute the last one when the next arrives. The slot's number keeps the answers apart
  (`AnswersThisCommand`), but a 502 or 504 may follow a command that was executed.
* `AdminServer.cpp`: agent and CLI share 127.0.0.1, so failed logins of one count against the other.
* Errors of `fprintf`, `fflush` and `fclose` in `appendTokens` and `--gen-token` are not looked at:
  with a full disk tokens are handed out that are not in the file, or only in part.
* `file_remove_line` looks at its flush and `fsync` (1882-1891), `file_append_line` does not.
* A token is spent before its client is registered: a crash in between costs the token.

Desktop client:

* `ClientApp.cpp:676-683`: after a registration only `m_cfg.RegisterToken` is cleared, not the token of
  the card in the list, which the comment expects.
* save_config also writes `[Service]` keys back as they were at the start.
* A refused token clears the selected card's token (`QtWidgetsClass.cpp:485`), which need not be the
  active one: the list of cards stays open over the start of a connection and selects another.
* `platform/ini_doc.h:185`: `save` looks at `f.good()` before the buffer of the stream is flushed and
  at nothing when it is closed: with a full disk an empty or torn temporary file is renamed over
  `config.ini`, and `IniSetStr` answers yes; 131: `load` answers yes for a file that cannot be
  opened (63-70), and what is then saved is the one key that was set. Both against
  `Config.cpp:153-154`, that no step that fails leaves half a file 「任何一步失败都不会留下半截文件」.
  `Saves` and `ReadAs` in `IniDoc` have both.
* `Config.cpp:172`, `ini_doc.h:177`: on Linux the threads of the window, of the bridge and of the
  reconnect manager save without a lock through one temporary name: one can truncate the other's
  file between its close and its rename, and an empty file is renamed over `config.ini`,
  against `ini_doc.h:17` (replaced atomically, no half file).
* `update_fetcher.cpp:979`, 437, 1018: a package that the disk cut short at the first `fwrite` or at
  `fclose` passes the digest, which is taken of the bytes received.
* `ClientApp.cpp:219`: a crash between the two key files leaves an identity that never loads.
* A failed service check (network) while the settings are open clears a forced block.
* In "off" mode a list that arrives late adds the delivered cards again.
* In the forced-update box "retry" before the busy flag is reset leaves the button disabled; in the
  box of a bad signature it does nothing. A policy read while the publisher has replaced it and not
  yet its signature counts as a bad signature.
* The update policy has no protection against an older signed one, although
  `update_policy.h` says of `generated` 「用于防重放旧策略」.
* `update_policy.cpp:185`: a minimum above the latest version locks everybody out (theorem
  `MinimumAboveLatestLocks`), where the comment says that a slip must not; 165-171: a `latest` that
  cannot be read makes a forced update optional; 122-132: a platform's own url may be
  combined with the general sha256.

DNS proxy:

* Two resolvers that repeat one id can stay out of phase, each getting the answer of the other.
* `DnsProxy.cpp:280`: a repetition within ten seconds is dropped although the first was lost.
* `DnsProxy.cpp:143-146`: when one socket cannot be made the others stay open.
