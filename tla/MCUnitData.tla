----------------------------- MODULE MCUnitData -----------------------------
(* Constant values for the model-checking runs of LoopControl and UnitData.     *)
EXTENDS UnitData, TLC

CONSTANTS O1, O2, H1, H2, s1, s2, s3, d1, d2, r1, r2, r3, r4, g1, g2, p1

Groups    == [s \in Streams |-> IF s = s3 THEN g2 ELSE g1]
Radios    == (s1 :> r1) @@ (s2 :> r2) @@ (s3 :> r2) @@ (d1 :> r4) @@ (d2 :> r3)
To        == (d1 :> r3) @@ (d2 :> r4)
OneHotspot == [s \in Streams |-> p1]
Owned     == (r3 :> {p1}) @@ (r4 :> {})

On(pairs, enhanced, moves) == [hears |-> pairs, enhanced |-> enhanced, moves |-> moves]

(* One stream that reaches the server twice; two streams that meet on a leg; a   *)
(* link that is only sent a stream, and may refuse it or fall silent.            *)
VoiceNetworks == {
    On({<<O1, s1>>, <<O2, s1>>}, {}, {}),
    On({<<O1, s1>>, <<H1, s1>>}, {}, {}),
    On({<<H1, s1>>, <<H2, s1>>}, {}, {}),
    On({<<H1, s1>>, <<H1, s3>>}, {}, {}),
    On({<<O1, s1>>, <<O1, s2>>}, {}, {}),
    On({<<O1, s1>>}, {O2}, {}),
    On({<<H1, s1>>}, {O2}, {})}

(* A data stream that arrives twice; one for a radio that is heard on two systems *)
(* as its hotspot moves; one that meets a voice call.                         *)
DataNetworks == {
    On({<<O1, d1>>, <<O2, d1>>}, {O2}, {}),
    On({<<H1, d1>>, <<O1, d1>>}, {}, {}),
    On({<<H1, d2>>, <<H2, d2>>, <<O1, d1>>}, {}, {p1}),
    On({<<H1, s1>>, <<O1, d1>>}, {}, {})}

Mixed == VoiceNetworks \cup DataNetworks
=============================================================================
