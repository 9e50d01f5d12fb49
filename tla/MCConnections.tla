---------------------------- MODULE MCConnections ----------------------------
(* Constant values for the model-checking run of Connections.                 *)
EXTENDS Connections, TLC

CONSTANTS c1, c2, p1, p2, eA, eB, sG, sX

Scene(clients, ports, n) == [clients |-> clients, ports |-> ports, faults |-> n]

(* One client that sends options, and a port more than it needs; two clients and  *)
(* one port; none.                                                           *)
MCScenes == {Scene({c2}, {p1, p2}, 2), Scene({c1, c2}, {p1}, 2), Scene({}, {}, 0)}

Link(va, vb, knows, moves, says, refuses, far, n) ==
    [enhanced |-> knows # {}, ver |-> (eA :> va) @@ (eB :> vb), knows |-> knows,
     moves |-> moves, says |-> says, refuses |-> refuses \cup far, far |-> far, mishaps |-> n]

(* Versions that do not understand each other; an end on a dynamic address that    *)
(* only knows the other; a refused stream beside a healthy one; a stream that has  *)
(* come too far; no link.                                                     *)
MCPairs == {
    Link(1, 5, {eA, eB}, {}, {<<eA, sG>>}, {}, {}, 1),
    Link(3, 2, {eA, eB}, {}, {<<eA, sG>>}, {}, {}, 1),
    Link(4, 5, {eB}, {eB}, {}, {}, {}, 2),
    Link(4, 5, {eA, eB}, {}, {<<eA, sX>>, <<eB, sG>>}, {<<eB, sX>>}, {}, 1),
    Link(1, 1, {eA, eB}, {}, {<<eA, sX>>}, {}, {<<eB, sX>>}, 1),
    Link(5, 5, {}, {}, {}, {}, {}, 0)}
=============================================================================
