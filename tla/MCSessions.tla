------------------------------- MODULE MCSessions -------------------------------
(* Two UDP peers of one source and a TCP peer of another, two clients that may  *)
(* use any of them, three sessions in a behaviour, two addresses.            *)
EXTENDS Sessions, TLC

CONSTANTS u1, u2, t1, c1, c2, v1, v2, o1, o2, o3

MCObjs == {o1, o2, o3}
MCKeys == {u1, u2, t1}
MCTcpKeys == {t1}
MCIpOf == u1 :> "home" @@ u2 :> "home" @@ t1 :> "office"
MCClients == {c1, c2}
MCVips == {v1, v2}
MCHintOf == c1 :> v1 @@ c2 :> v2

(* The two UDP peers are alike, and so are the clients with their addresses. *)
Swap(a, b) == {a :> a @@ b :> b, a :> b @@ b :> a}
SwapPairs(a, b, x, y) ==
    {a :> a @@ b :> b @@ x :> x @@ y :> y, a :> b @@ b :> a @@ x :> y @@ y :> x}
Symmetry ==
    {f @@ g @@ h : f \in Permutations(MCObjs), g \in Swap(u1, u2),
                   h \in SwapPairs(c1, c2, v1, v2)}
=============================================================================
