---------------------------- MODULE MCSlotOptions ----------------------------
(* Constant values for the model-checking runs of SlotOptions.               *)
EXTENDS SlotOptions

Plain(t) == [timer |-> t, ts1 |-> None, ts2 |-> None, dial |-> None]

NoLinks      == [h \in Hotspots |-> {}]
NoConfig     == [m \in Masters |-> Plain(1)]
StaticConfig == [m \in Masters |-> [Plain(1) EXCEPT !.ts2 = 91]]

SentOptions  == {Plain(1), [Plain(None) EXCEPT !.ts2 = 91]}
OneTimer     == [timer : {1}, ts1 : {None}, ts2 : {None, 91}, dial : {None}]

=============================================================================
