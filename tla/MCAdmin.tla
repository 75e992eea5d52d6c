-------------------------------- MODULE MCAdmin --------------------------------
(* One VPN host, two connections (one may be half open), at most two          *)
(* commands; the events from outside come in one of seven mixes.               *)
EXTENDS AdminChannel

Mix(h, c, f, x, o) == [http |-> h, cli |-> c, file |-> f, fault |-> x, ops |-> o]
Order1(op, n) == [op |-> op, arg |-> n]

MCBudgets ==
    {Mix(2, 0, 0, 1, {Order1("gen", 1)}),                    \* a late reply, a half-open link
     Mix(1, 0, 1, 1, {Order1("list", 0), Order1("del", 1)}), \* a reply too long, a crash
     Mix(1, 1, 1, 0, {Order1("del", 1)}),                    \* two clients of admin_server
     Mix(0, 1, 3, 0, {Order1("del", 1)}),                    \* three programs at the file
     Mix(0, 1, 1, 0, {Order1("list", 0)}),
     Mix(0, 2, 0, 1, {Order1("gen", 1)}),                    \* admin_server down
     Mix(0, 0, 2, 1, {})}                                    \* vpn_server dies registering
=============================================================================
