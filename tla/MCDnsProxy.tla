------------------------------- MODULE MCDnsProxy -------------------------------
(* Queries 1 and 2 have one transaction id and different upstreams, as the    *)
(* name of the first is below one of the list; query 3 has an id of its own.  *)
EXTENDS DnsProxy

MCTxId == [q \in Queries |-> IF q = 3 THEN 2 ELSE 1]
MCName == <<<<"www", "cn">>, <<"org">>, <<"cn">>>>
MCDomestic == {<<"cn">>}
=============================================================================
