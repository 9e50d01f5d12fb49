----------------------------- MODULE SlotOptions -----------------------------
(***************************************************************************)
(* When options change: the OPTIONS string of every master, who rewrites it  *)
(* (a hotspot's RPTO, the two selfcare polls, the end of a session), and the *)
(* options_config loop that brings BRIDGES into line with it.  Each step of  *)
(* this module is a step of BridgeTable or leaves the table alone.           *)
(*                                                                          *)
(* A slot holds one peer (MAX_PEERS: 1 in the configurations that run behind *)
(* a proxy).                                                                *)
(***************************************************************************)
EXTENDS BridgeTable

CONSTANTS
    Generated,   \* masters made by GENERATOR: they have _default_options
    Strings      \* what peers and selfcare send as OPTIONS; timer None = not given

VARIABLES
    OPTIONS,     \* per master: CONFIG['SYSTEMS'][s]['OPTIONS'], or NoOptions
    reset,       \* per master: _reset
    dirty,       \* _OPTIONS_DIRTY, "absent" once popped
    conn,        \* per master: CONNECTION of its peer, "gone" without one
    todo         \* masters the running pass of options_config has yet to do

optvars == <<OPTIONS, reset, dirty, conn, todo>>
allvars == <<vars, optvars>>

NoOptions == [none |-> TRUE]
Empty     == [timer |-> None, ts1 |-> None, ts2 |-> None, dial |-> None]

ASSUME StringsAssumption ==
    /\ Generated \subseteq Masters
    /\ Strings \subseteq Options

Default(s) == IF s \in Generated THEN Configured[s] ELSE NoOptions

(* Without TIMER in the string the master keeps its DEFAULT_UA_TIMER.        *)
Parsed(s, o) == IF o.timer = None THEN [o EXCEPT !.timer = CONFIG[s].timer] ELSE o

(* Only parsed options are ever applied.                                     *)
ASSUME ParsedAssumption ==
    \A o \in Strings \cup {Empty} \cup {Configured[m] : m \in Masters} :
        \A q \in OptionSets \cup {Configured[m] : m \in Masters} :
            (IF o.timer = None THEN [o EXCEPT !.timer = q.timer] ELSE o) \in OptionSets

OptionsInit ==
    /\ Init
    /\ OPTIONS = [m \in Masters |-> IF m \in IPSCs THEN Empty ELSE NoOptions]
    /\ reset = [m \in Masters |-> FALSE]
    /\ dirty = "absent"
    /\ conn = [m \in Masters |-> "gone"]
    /\ todo = Masters               \* the loop's first call is part of start-up

-----------------------------------------------------------------------------
(* options_config.  The pass is one handler: while todo is not empty nothing *)
(* else runs.                                                                *)

Reactor == Running /\ todo = {}

(* CONFIG.pop('_OPTIONS_DIRTY', True)                                        *)
PopDirty == IF dirty = "absent" THEN TRUE ELSE dirty = "set"

(* Mutant: the mark is set to False and not popped.                          *)
OptionsConfigClears ==
    /\ Reactor
    /\ PopDirty
    /\ todo' = Masters
    /\ dirty' = "clear"
    /\ UNCHANGED <<vars, OPTIONS, reset, conn>>

OptionsConfig ==
    /\ Reactor
    /\ PopDirty
    /\ todo' = Masters
    /\ dirty' = "absent"
    /\ UNCHANGED <<vars, OPTIONS, reset, conn>>

(* Mutant: the reset stays pending, and hides the options for ever.          *)
ResetPassAgain(s) ==
    /\ reset[s]
    /\ ResetSlot(s)
    /\ dirty' = "set"
    /\ UNCHANGED reset

(* A pending reset comes first; the options wait for the next pass.          *)
ResetPass(s) ==
    /\ reset[s]
    /\ ResetSlot(s)
    /\ reset' = [reset EXCEPT ![s] = FALSE]
    /\ dirty' = "set"

Parse(s) ==
    /\ Running
    /\ s \in todo
    /\ todo' = todo \ {s}
    /\ \/ ResetPass(s)
       \/ /\ ~reset[s] /\ OPTIONS[s] # NoOptions
          /\ Reconfigure(s, Parsed(s, OPTIONS[s]))
          /\ UNCHANGED <<reset, dirty>>
       \/ /\ ~reset[s] /\ OPTIONS[s] = NoOptions
          /\ UNCHANGED <<vars, reset, dirty>>
    /\ UNCHANGED <<OPTIONS, conn>>

-----------------------------------------------------------------------------
(* The sessions of a hotspot: RPTL and RPTK, RPTC, RPTO, RPTCL, ping timeout. *)

(* A login from another address than the session's starts over, at whatever point  *)
(* the session is; a copy from its own address changes nothing.                  *)
Login(s) ==
    /\ Reactor /\ s \in Hotspots
    /\ conn' = [conn EXCEPT ![s] = "CHALLENGE_SENT"]
    /\ UNCHANGED <<vars, OPTIONS, reset, dirty, todo>>

Answer(s) ==
    /\ Reactor /\ s \in Hotspots /\ conn[s] = "CHALLENGE_SENT"
    /\ \E next \in {"WAITING_CONFIG", "gone"} : conn' = [conn EXCEPT ![s] = next]
    /\ UNCHANGED <<vars, OPTIONS, reset, dirty, todo>>

Configure(s) ==
    /\ Reactor /\ s \in Hotspots /\ conn[s] = "WAITING_CONFIG"
    /\ SessionChange(s)
    /\ \E next \in {"YES", "gone"} : conn' = [conn EXCEPT ![s] = next]
    /\ UNCHANGED <<OPTIONS, reset, dirty, todo>>

(* Mutant: the handler leaves no mark.                                       *)
SendOptionsUnmarked(s, o, disc) ==
    /\ Reactor /\ s \in Hotspots /\ conn[s] # "gone"
    /\ OPTIONS' = [OPTIONS EXCEPT ![s] = o]
    /\ IF disc THEN SelfcareDISC(s) ELSE UNCHANGED vars
    /\ UNCHANGED <<reset, dirty, conn, todo>>

SendOptions(s, o, disc) ==
    /\ Reactor /\ s \in Hotspots /\ conn[s] # "gone"
    /\ OPTIONS' = [OPTIONS EXCEPT ![s] = o]
    /\ dirty' = "set"
    /\ IF disc THEN SelfcareDISC(s) ELSE UNCHANGED vars
    /\ UNCHANGED <<reset, conn, todo>>

(* The last peer is gone: default options back, or none.                     *)
LastPeerGone(s, resets) ==
    IF OPTIONS[s] = NoOptions
    THEN UNCHANGED <<OPTIONS, reset, dirty>>
    ELSE /\ OPTIONS' = [OPTIONS EXCEPT ![s] = Default(s)]
         /\ reset' = [reset EXCEPT ![s] = @ \/ resets]
         /\ dirty' = "set"

Close(s) ==
    /\ Reactor /\ s \in Hotspots /\ conn[s] = "YES"
    /\ SessionChange(s)
    /\ LastPeerGone(s, TRUE)
    /\ conn' = [conn EXCEPT ![s] = "gone"]
    /\ UNCHANGED todo

(* master_maintenance_loop: the peer has been silent too long ...            *)
Timeout(s) ==
    /\ Reactor /\ s \in Hotspots /\ conn[s] # "gone"
    /\ SessionChange(s)
    /\ LastPeerGone(s, s \in Generated)
    /\ conn' = [conn EXCEPT ![s] = "gone"]
    /\ UNCHANGED todo

(* ... or there is none, on every run of the loop while the slot is empty.   *)
EmptySlot(s) ==
    /\ Reactor /\ s \in Hotspots /\ conn[s] = "gone"
    /\ LastPeerGone(s, s \in Generated)
    /\ UNCHANGED <<vars, conn, todo>>

-----------------------------------------------------------------------------
(* The sessions of an IPSC repeater, and selfcare.                            *)

Register(s) ==
    /\ Reactor /\ s \in IPSCs /\ conn[s] = "gone"
    /\ conn' = [conn EXCEPT ![s] = "YES"]
    /\ UNCHANGED <<vars, OPTIONS, reset, dirty, todo>>

(* Keepalive lost, de-registration, or PRCL, for a peer id known or not.      *)
RemoveIpscPeer(s, known) ==
    /\ Reactor /\ s \in IPSCs
    /\ known => conn[s] = "YES"
    /\ SessionChange(s)
    /\ IF known THEN LastPeerGone(s, TRUE) /\ conn' = [conn EXCEPT ![s] = "gone"]
                ELSE UNCHANGED <<OPTIONS, reset, dirty, conn>>
    /\ UNCHANGED todo

(* Options from the database.  Without DISC the poll calls options_config; with *)
(* DISC it waits for the database first, and the call is OptionsConfig.       *)
Polled(s, o, disc) ==
    /\ Reactor /\ conn[s] = "YES"
    /\ OPTIONS' = [OPTIONS EXCEPT ![s] = o]
    /\ IF disc
       THEN SelfcareDISC(s) /\ dirty' = "set" /\ UNCHANGED todo
       ELSE dirty' = "absent" /\ todo' = Masters /\ UNCHANGED vars
    /\ UNCHANGED <<reset, conn>>

IpscSelfcarePoll(s, o, disc) == s \in IPSCs /\ Polled(s, o, disc)
HotspotDiscPoll(s, o)        == s \in Hotspots /\ Polled(s, o, TRUE)

-----------------------------------------------------------------------------
OptionsLoop == OptionsConfig \/ \E s \in Masters : Parse(s)

Session(s) ==
    \/ Login(s) \/ Answer(s) \/ Configure(s) \/ Close(s)
    \/ Timeout(s) \/ EmptySlot(s)
    \/ Register(s)
    \/ \E known \in BOOLEAN : RemoveIpscPeer(s, known)
    \/ \E o \in Strings, disc \in BOOLEAN :
          SendOptions(s, o, disc) \/ IpscSelfcarePoll(s, o, disc)
    \/ \E o \in Strings : HotspotDiscPoll(s, o)

(* Start-up, calls and the other loops.                                      *)
Rest ==
    /\ \/ \E m \in Masters : Boot(m)
       \/ todo = {} /\ (Traffic \/ Housekeeping)
    /\ UNCHANGED optvars

OptionsNext == OptionsLoop \/ (\E s \in Masters : Session(s)) \/ Rest

OptionsFairness ==
    /\ \A m \in Masters : WF_allvars(Boot(m) /\ UNCHANGED optvars) /\ WF_allvars(Parse(m))
    /\ WF_allvars(OptionsConfig)
    /\ \A m \in Masters : WF_allvars(EmptySlot(m))

(* The reactor never stops, and the two loops are rescheduled for ever; no     *)
(* peer owes the server a login or a timeout.                                *)
OptionsSpec     == OptionsInit /\ [][OptionsNext]_allvars
OptionsLiveSpec == OptionsSpec /\ OptionsFairness

-----------------------------------------------------------------------------
(* Correctness.                                                              *)

(* Every variable of the options layer holds a value of its type. *)
OptionsTypeOK ==
    /\ OPTIONS \in [Masters -> Strings \cup {Empty, NoOptions}
                               \cup {Configured[m] : m \in Masters}]
    /\ reset \in [Masters -> BOOLEAN]
    /\ dirty \in {"absent", "set"}
    /\ conn \in [Masters -> {"gone", "CHALLENGE_SENT", "WAITING_CONFIG", "YES"}]
    /\ todo \subseteq Masters

(* mark_options_dirty: "Schedule one reactor-owned OPTIONS rebuild after       *)
(* configuration changes".  Whatever rewrites OPTIONS or asks for a reset      *)
(* leaves the mark: options that differ from those in force are never         *)
(* forgotten, whichever of login, RPTO, poll, logout and pass comes last.     *)
InForce(s) ==
    ~reset[s] /\ (OPTIONS[s] # NoOptions => CONFIG[s] = Parsed(s, OPTIONS[s]))

NoLostOptions == \A s \in Masters : InForce(s) \/ dirty = "set" \/ s \in todo

(* The options a peer settles on are in force in the end, with the static     *)
(* legs they ask for, although a reset of the previous session may be due.    *)
OptionsApplied ==
    \A s \in Hotspots, o \in Strings :
        <>[](conn[s] = "YES" /\ OPTIONS[s] = o) =>
            <>[](/\ CONFIG[s] = Parsed(s, o)
                 /\ o.ts2 # None => HasStatic(s, 2, o.ts2))

(* "never rebuild unchanged bridge state on the reactor": a timer tick that    *)
(* finds no mark returns before the scan.                                    *)
UnchangedTickSkipped == [][OptionsConfig /\ dirty # "set" => todo' = {}]_allvars

(* The options in force come from the configuration file or from a peer.      *)
OptionsHaveSource ==
    [][\A s \in Masters : CONFIG'[s] # CONFIG[s] =>
          OPTIONS[s] \in Strings \cup {Configured[s]}]_allvars

=============================================================================
