-------------------------------- MODULE DnsProxy --------------------------------
(***************************************************************************)
(* The DNS proxy of the client's split mode (src/DnsProxy.cpp) between the *)
(* resolvers of the machine and two upstream servers, and what the         *)
(* callbacks of ClientApp do with it: the nameserver of the tunnel's       *)
(* adapter is the proxy or a list of servers.                              *)
(*                                                                         *)
(* Threads: the loop of the proxy, the worker of the reconnect manager.    *)
(* A datagram socket is the set of datagrams that wait in it.              *)
(***************************************************************************)
EXTENDS Integers, Sequences, FiniteSets

CONSTANTS Queries,      \* what the resolvers ask, each from a port of its own
          TxId,         \* TxId[q]: the transaction id of q
          Name,         \* Name[q]: the labels of the name q asks for
          Domestic,     \* the names of chn-domains.txt
          None,
          MaxTrouble,   \* bound: datagrams lost, repeated or not sent
          MaxTunnels   \* bound: connections of the tunnel

TxIds == {TxId[q] : q \in Queries}

ProxyAssumption == /\ None \notin Queries
                   /\ {MaxTrouble, MaxTunnels} \subseteq Nat
ASSUME ProxyAssumption

VARIABLES
    link,         \* the worker: "down", "up" (connected), "stopping" the proxy
    adapterDns,   \* nameserver of the tunnel's adapter: "servers" or "proxy"
    proxyRunning,      \* m_running
    loop,         \* run_loop: "gone", "sweep", "poll", "round"
    ready,        \* what poll found readable and is not yet read
    pending,      \* pending[t]: the query in transaction t, or None
    asked,        \* datagrams in the listening socket
    sent,         \* <<u, q>>: q is on its way to upstream u, or u works at it
    answers,      \* <<u, q>>: the answer to q is in the socket of upstream u
    due,          \* transactions older than ten seconds
    calm,         \* from now on upstreams answer in time and nothing is lost
    trouble, tunnels,      \* what is used of the bounds
    handed,       \* history: <<q, p>>, the answer to q went to who asked p
    over          \* history: queries that had a transaction which has ended

workerVars == <<link, adapterDns, tunnels>>
loopVars == <<proxyRunning, loop, ready, pending, due>>
netVars == <<asked, sent, answers>>
pastVars == <<handed, over>>
proxyVars == <<workerVars, loopVars, netVars, pastVars, calm, trouble>>

Upstreams == {"domestic", "foreign"}
NoPending == [t \in TxIds |-> None]
Transactions == {pending[t] : t \in TxIds} \ {None}

ProxyInit ==
    /\ link = "down" /\ adapterDns = "servers" /\ tunnels = 0
    /\ proxyRunning = FALSE /\ loop = "gone" /\ ready = {}
    /\ pending = NoPending /\ due = {}
    /\ asked = {} /\ sent = {} /\ answers = {}
    /\ handed = {} /\ over = {}
    /\ calm = FALSE /\ trouble = 0

-----------------------------------------------------------------------------
(*                           ClientApp, the worker                          *)

(* start: the list of names, the sockets and port 53 are there.             *)
StartSucceeds ==
    /\ proxyRunning' = TRUE
    /\ loop' = "sweep"
    /\ UNCHANGED <<ready, pending, due>>

(* set_DNS_IPv4 may fail: nobody looks at its result.                       *)
SetDns(d) == adapterDns' \in {d, adapterDns}

(* The connected callback in split mode.                                    *)
ConnectedSplit ==
    \/ StartSucceeds /\ SetDns("proxy")
    \/ UNCHANGED <<loopVars, adapterDns>>

(* In full mode the adapter gets the configured servers.                    *)
ConnectedFull ==
    /\ SetDns("servers")
    /\ UNCHANGED loopVars

TunnelConnected ==
    /\ link = "down"
    /\ tunnels < MaxTunnels
    /\ tunnels' = tunnels + 1
    /\ link' = "up"
    /\ ConnectedSplit \/ ConnectedFull
    /\ UNCHANGED <<netVars, pastVars, calm, trouble>>

(* DnsProxy::stop, from the callback of a lost connection or the stop of    *)
(* the client: the flag falls, then the loop's thread is joined.            *)
StopBegins ==
    /\ link = "up"
    /\ link' = "stopping"
    /\ proxyRunning' = FALSE
    /\ UNCHANGED <<adapterDns, tunnels, loop, ready, pending, due, netVars, pastVars, calm, trouble>>

StopEnds ==
    /\ link = "stopping"
    /\ loop = "gone"
    /\ link' = "down"
    /\ asked' = {} /\ sent' = {} /\ answers' = {}
    /\ UNCHANGED <<adapterDns, tunnels, loopVars, pastVars, calm, trouble>>

-----------------------------------------------------------------------------
(*                                 run_loop                                 *)

(* The flag is down: the loop returns, and its table with it.               *)
LoopEnds ==
    /\ loop = "sweep"
    /\ ~proxyRunning
    /\ loop' = "gone"
    /\ over' = over \cup Transactions
    /\ pending' = NoPending
    /\ due' = {}
    /\ UNCHANGED <<workerVars, proxyRunning, ready, netVars, handed, calm, trouble>>

(* Mutant: transactions do not expire.                                      *)
SweepNothing ==
    /\ loop = "sweep"
    /\ proxyRunning
    /\ loop' = "poll"
    /\ UNCHANGED <<workerVars, proxyRunning, ready, pending, due, netVars, pastVars, calm, trouble>>

(* Transactions of more than ten seconds are forgotten.                     *)
Sweep ==
    /\ loop = "sweep"
    /\ proxyRunning
    /\ loop' = "poll"
    /\ pending' = [t \in TxIds |-> IF t \in due THEN None ELSE pending[t]]
    /\ over' = over \cup {pending[t] : t \in due}
    /\ due' = {}
    /\ UNCHANGED <<workerVars, proxyRunning, ready, netVars, handed, calm, trouble>>

Readable == {u \in Upstreams : \E q \in Queries : <<u, q>> \in answers}
                \cup (IF asked = {} THEN {} ELSE {"listen"})

(* poll: the readable sockets, or nothing for half a second.                *)
Poll ==
    /\ loop = "poll"
    /\ ready' = Readable
    /\ loop' = IF Readable = {} THEN "sweep" ELSE "round"
    /\ UNCHANGED <<workerVars, proxyRunning, pending, due, netVars, pastVars, calm, trouble>>

(* One datagram of each readable socket, the upstreams first.               *)
Turn(s) ==
    /\ loop = "round"
    /\ s \in ready
    /\ s = "foreign" => "domestic" \notin ready
    /\ s = "listen" => ready \cap Upstreams = {}
    /\ ready' = ready \ {s}
    /\ loop' = IF ready = {s} THEN "sweep" ELSE "round"

(* An answer goes to whoever is in the transaction that its id names, and   *)
(* ends it; without a transaction it is dropped.                            *)
Answer(u, q) ==
    /\ Turn(u)
    /\ <<u, q>> \in answers
    /\ answers' = answers \ {<<u, q>>}
    /\ LET t == TxId[q] IN
         IF pending[t] = None
         THEN UNCHANGED <<pending, due, pastVars>>
         ELSE /\ handed' = handed \cup {<<q, pending[t]>>}
              /\ over' = over \cup {pending[t]}
              /\ pending' = [pending EXCEPT ![t] = None]
              /\ due' = due \ {t}
    /\ UNCHANGED <<workerVars, proxyRunning, asked, sent, calm, trouble>>

(* A name of the list, or below one.                                        *)
DomesticMatch(name) == \E i \in 1 .. Len(name) : SubSeq(name, i, Len(name)) \in Domestic
UpstreamFor(q) == IF DomesticMatch(Name[q]) THEN "domestic" ELSE "foreign"

Forward(q) ==
    /\ pending' = [pending EXCEPT ![TxId[q]] = q]
    /\ sent' = sent \cup {<<UpstreamFor(q), q>>}
    /\ UNCHANGED trouble

(* The datagram cannot be sent: the query is dropped.                       *)
SendFails ==
    /\ ~calm
    /\ trouble < MaxTrouble
    /\ trouble' = trouble + 1
    /\ UNCHANGED <<pending, sent>>

(* Mutant: a query takes the transaction over from the one that has its id. *)
TakeOver(q) ==
    /\ Turn("listen")
    /\ q \in asked
    /\ asked' = asked \ {q}
    /\ Forward(q) \/ SendFails
    /\ UNCHANGED <<workerVars, proxyRunning, due, answers, pastVars, calm>>

(* A query opens a transaction, unless its id is in one.                    *)
Query(q) ==
    /\ Turn("listen")
    /\ q \in asked
    /\ asked' = asked \ {q}
    /\ IF pending[TxId[q]] # None THEN UNCHANGED <<pending, sent, trouble>>
       ELSE Forward(q) \/ SendFails
    /\ UNCHANGED <<workerVars, proxyRunning, due, answers, pastVars, calm>>

Loop ==
    \/ LoopEnds \/ Sweep \/ Poll
    \/ \E q \in Queries : Query(q) \/ \E u \in Upstreams : Answer(u, q)

-----------------------------------------------------------------------------
(*                       Resolvers, upstreams and time                      *)

(* A resolver asks, and asks again, until the answer to its question comes. *)
Ask(q) ==
    /\ proxyRunning
    /\ adapterDns = "proxy"
    /\ <<q, q>> \notin handed
    /\ q \notin asked
    /\ asked' = asked \cup {q}
    /\ UNCHANGED <<workerVars, loopVars, sent, answers, pastVars, calm, trouble>>

UpstreamAnswers(u, q) ==
    /\ <<u, q>> \in sent
    /\ sent' = sent \ {<<u, q>>}
    /\ answers' = answers \cup {<<u, q>>}
    /\ UNCHANGED <<workerVars, loopVars, asked, pastVars, calm, trouble>>

(* A query or its answer is lost, or the answer comes twice.                *)
Trouble ==
    /\ ~calm
    /\ trouble < MaxTrouble
    /\ trouble' = trouble + 1
    /\ \/ \E d \in sent : sent' = sent \ {d} /\ UNCHANGED answers
       \/ \E d \in sent : answers' = answers \cup {d} /\ UNCHANGED sent
    /\ UNCHANGED <<workerVars, loopVars, asked, pastVars, calm>>

OnItsWay(q) == \E u \in Upstreams : <<u, q>> \in sent \cup answers

(* Ten seconds pass for a transaction: when calm, only if no answer comes.  *)
TenSecondsPass(t) ==
    /\ pending[t] # None
    /\ calm => ~OnItsWay(pending[t])
    /\ t \notin due
    /\ due' = due \cup {t}
    /\ UNCHANGED <<workerVars, proxyRunning, loop, ready, pending, netVars, pastVars, calm, trouble>>

BecomeCalm ==
    /\ ~calm
    /\ calm' = TRUE
    /\ UNCHANGED <<workerVars, loopVars, netVars, pastVars, trouble>>

-----------------------------------------------------------------------------
ProxyNext ==
    \/ TunnelConnected \/ StopBegins \/ StopEnds
    \/ Loop
    \/ \E q \in Queries : Ask(q) \/ \E u \in Upstreams : UpstreamAnswers(u, q)
    \/ \E t \in TxIds : TenSecondsPass(t)
    \/ Trouble \/ BecomeCalm

ProxySpec == ProxyInit /\ [][ProxyNext]_proxyVars

(* The loop goes round, as poll waits half a second at most, and takes the  *)
(* datagrams of a socket in their order (SF, as a socket is a set here);    *)
(* the join ends; upstreams work; clocks run; a resolver repeats its query. *)
Fairness ==
    /\ WF_proxyVars(Loop) /\ WF_proxyVars(StopEnds)
    /\ \A q \in Queries : WF_proxyVars(Ask(q))
    /\ \A q \in Queries, u \in Upstreams :
          WF_proxyVars(UpstreamAnswers(u, q)) /\ SF_proxyVars(Answer(u, q))
    /\ \A q \in Queries : SF_proxyVars(Query(q))
    /\ \A t \in TxIds : WF_proxyVars(TenSecondsPass(t))

ProxyFairSpec == ProxySpec /\ Fairness

-----------------------------------------------------------------------------
ProxyTypeOK ==
    /\ link \in {"down", "up", "stopping"}
    /\ adapterDns \in {"servers", "proxy"}
    /\ proxyRunning \in BOOLEAN
    /\ loop \in {"gone", "sweep", "poll", "round"}
    /\ ready \subseteq Upstreams \cup {"listen"}
    /\ pending \in [TxIds -> Queries \cup {None}]
    /\ asked \subseteq Queries
    /\ sent \subseteq Upstreams \X Queries
    /\ answers \subseteq Upstreams \X Queries
    /\ due \subseteq TxIds
    /\ calm \in BOOLEAN
    /\ trouble \in 0 .. MaxTrouble
    /\ tunnels \in 0 .. MaxTunnels
    /\ handed \subseteq Queries \X Queries
    /\ over \subseteq Queries

(* Of two queries with one transaction id the proxy drops one rather than   *)
(* mix them: as long as the transaction of a query has not ended, nobody    *)
(* else gets its answer (DnsProxy.cpp: a query whose id is in use is        *)
(* dropped).                                                                *)
NeverMixed == \A h \in handed : h[1] # h[2] => h[1] \in over

(* Whoever keeps asking hears something in the end, whatever was lost       *)
(* before, if the network becomes calm and the proxy stays: a transaction   *)
(* whose answer was lost does not keep its id forever, nor does one query   *)
(* keep another of the same id away (run_loop: the sweep at ten seconds).   *)
EveryAskerHears ==
    <>[](calm /\ proxyRunning /\ adapterDns = "proxy")
       => \A q \in Queries : <>(\E p \in Queries : <<p, q>> \in handed)

(* An answer that comes late is dropped (comment in run_loop): it goes only *)
(* to who asked that question.  False of the code (README, section 8).      *)
LateIsDropped == \A h \in handed : h[1] = h[2]

(* Where the proxy does not start the adapter has the DNS it had without it *)
(* (comment in the connected callback of ClientApp): a connected tunnel     *)
(* never points at a proxy that does not run.  False of the code (README,   *)
(* section 8).                                                              *)
FallsBack == link = "up" /\ adapterDns = "proxy" => proxyRunning
=============================================================================
