---------------------------- MODULE MCBridgeTable ----------------------------
(* Constant values for the model-checking runs of BridgeTable.               *)
EXTENDS BridgeTable

Plain(t) == [timer |-> t, ts1 |-> None, ts2 |-> None, dial |-> None]

NoLinks    == [h \in Hotspots |-> {}]
AllLinked  == [h \in Hotspots |-> IPSCs]
OneLinked  == [h \in Hotspots |-> IPSCs \cap SingleMode]
NoConfig   == [m \in Masters |-> Plain(1)]
DialConfig == [m \in Masters |-> [Plain(1) EXCEPT !.dial = 91]]
StaticConfig == [m \in Masters |-> IF IPSCs = {} \/ m \in IPSCs THEN [Plain(1) EXCEPT !.ts2 = 91] ELSE Plain(1)]

DialOptions   == {Plain(1), Plain(2), [Plain(1) EXCEPT !.dial = 91]}
StaticOptions == {Plain(1), [Plain(1) EXCEPT !.ts2 = 91]}

=============================================================================
