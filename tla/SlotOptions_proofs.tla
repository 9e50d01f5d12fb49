-------------------------- MODULE SlotOptions_proofs --------------------------
(***************************************************************************)
(* The options layer is BridgeTable with a reason for every change of       *)
(* options, and it forgets no change: proofs for every set of masters,      *)
(* option strings and configurations.                                       *)
(*                                                                          *)
(* The invariant adds to the types that the options in force come from       *)
(* OptionSets or the configuration file: that is what makes a parsed string  *)
(* one of the options BridgeTable allows.                                   *)
(***************************************************************************)
EXTENDS SlotOptions, BridgeLinks_proofs

Sent == Strings \cup {Empty} \cup {Configured[m] : m \in Masters}

Conns == {"gone", "CHALLENGE_SENT", "WAITING_CONFIG", "YES"}

ConfigOK == CONFIG \in [Masters -> OptionSets \cup {Configured[m] : m \in Masters}]

OptionsInv == OptionsTypeOK /\ ConfigOK /\ NoLostOptions

-----------------------------------------------------------------------------
(* What a step may do to the options state.                                  *)

(* CONFIG is as it was, and a change of OPTIONS or of a reset left a mark.    *)
Marked ==
    /\ CONFIG' = CONFIG
    /\ \/ dirty' = "set"
       \/ todo' = Masters
       \/ UNCHANGED <<OPTIONS, reset, dirty, todo>>

LEMMA MarkedKeeps ==
  ASSUME NoLostOptions, Marked
  PROVE  NoLostOptions'
  BY DEF NoLostOptions, Marked, InForce, Parsed

LEMMA DefaultType == ASSUME NEW s \in Masters PROVE Default(s) \in Sent \cup {NoOptions}
  BY DEF Default, Sent

LEMMA OptionsTypeMeaning ==
  OptionsTypeOK <=> /\ OPTIONS \in [Masters -> Sent \cup {NoOptions}]
                    /\ reset \in [Masters -> BOOLEAN]
                    /\ dirty \in {"absent", "set"}
                    /\ conn \in [Masters -> Conns]
                    /\ todo \subseteq Masters
<1>1. Sent \cup {NoOptions}
        = Strings \cup {Empty, NoOptions} \cup {Configured[m] : m \in Masters}
  BY DEF Sent
<1> QED BY <1>1 DEF OptionsTypeOK, Conns

(* The same for the next state.                                              *)
LEMMA OptionsTypeNext ==
  ASSUME OPTIONS' \in [Masters -> Sent \cup {NoOptions}],
         reset' \in [Masters -> BOOLEAN],
         dirty' \in {"absent", "set"},
         conn' \in [Masters -> Conns],
         todo' \subseteq Masters
  PROVE  OptionsTypeOK'
<1>1. Sent \cup {NoOptions}
        = Strings \cup {Empty, NoOptions} \cup {Configured[m] : m \in Masters}
  BY DEF Sent
<1> QED BY <1>1 DEF OptionsTypeOK, Conns

LEMMA LastPeerGoneType ==
  ASSUME OptionsTypeOK, NEW s \in Masters, NEW resets, LastPeerGone(s, resets)
  PROVE  /\ OPTIONS' \in [Masters -> Sent \cup {NoOptions}]
         /\ reset' \in [Masters -> BOOLEAN]
         /\ dirty' \in {"absent", "set"}
         /\ dirty' = "set" \/ UNCHANGED <<OPTIONS, reset, dirty>>
  BY OptionsTypeMeaning, DefaultType DEF LastPeerGone

-----------------------------------------------------------------------------
(* Sessions and selfcare.                                                    *)

LEMMA SessionKeeps ==
  ASSUME OptionsTypeOK, NEW s \in Masters, Session(s)
  PROVE  OptionsTypeOK' /\ Marked
<1> USE OptionsTypeMeaning
<1>1. ASSUME SessionChange(s) \/ SelfcareDISC(s) \/ UNCHANGED vars PROVE CONFIG' = CONFIG
  BY <1>1 DEF SessionChange, SelfcareDISC, vars
<1>2. ASSUME Login(s) \/ Register(s) PROVE OptionsTypeOK' /\ Marked
  BY <1>1, <1>2, OptionsTypeNext DEF Login, Register, Marked, Conns
<1>3. ASSUME Answer(s) \/ Configure(s) PROVE OptionsTypeOK' /\ Marked
  BY <1>1, <1>3, OptionsTypeNext DEF Answer, Configure, Marked, Conns
<1>4. ASSUME Close(s) \/ Timeout(s) \/ EmptySlot(s) PROVE OptionsTypeOK' /\ Marked
  <2>1. /\ OPTIONS' \in [Masters -> Sent \cup {NoOptions}]
        /\ reset' \in [Masters -> BOOLEAN]
        /\ dirty' \in {"absent", "set"}
        /\ dirty' = "set" \/ UNCHANGED <<OPTIONS, reset, dirty>>
    <3>1. LastPeerGone(s, TRUE) \/ LastPeerGone(s, s \in Generated)
      BY <1>4 DEF Close, Timeout, EmptySlot
    <3> QED BY <3>1, LastPeerGoneType
  <2>2. CONFIG' = CONFIG /\ conn' \in [Masters -> Conns] /\ todo' = todo
    BY <1>1, <1>4 DEF Close, Timeout, EmptySlot, Conns
  <2> QED BY <2>1, <2>2, OptionsTypeNext DEF Marked
<1>5. ASSUME NEW known \in BOOLEAN, RemoveIpscPeer(s, known) PROVE OptionsTypeOK' /\ Marked
  <2>1. /\ OPTIONS' \in [Masters -> Sent \cup {NoOptions}]
        /\ reset' \in [Masters -> BOOLEAN]
        /\ dirty' \in {"absent", "set"}
        /\ dirty' = "set" \/ UNCHANGED <<OPTIONS, reset, dirty>>
    BY <1>5, LastPeerGoneType DEF RemoveIpscPeer
  <2>2. CONFIG' = CONFIG /\ conn' \in [Masters -> Conns] /\ todo' = todo
    BY <1>1, <1>5 DEF RemoveIpscPeer, Conns
  <2> QED BY <2>1, <2>2, OptionsTypeNext DEF Marked
<1>6. ASSUME NEW o \in Strings, NEW disc \in BOOLEAN, SendOptions(s, o, disc)
      PROVE  OptionsTypeOK' /\ Marked
  <2>1. CONFIG' = CONFIG
    BY <1>1, <1>6 DEF SendOptions
  <2>2. OPTIONS' \in [Masters -> Sent \cup {NoOptions}]
    BY <1>6 DEF SendOptions, Sent
  <2> QED BY <1>6, <2>1, <2>2, OptionsTypeNext DEF SendOptions, Marked
<1>7. ASSUME NEW o \in Strings, NEW disc \in BOOLEAN, Polled(s, o, disc)
      PROVE  OptionsTypeOK' /\ Marked
  <2>1. CONFIG' = CONFIG
    BY <1>1, <1>7 DEF Polled
  <2>2. OPTIONS' \in [Masters -> Sent \cup {NoOptions}]
    BY <1>7 DEF Polled, Sent
  <2> QED BY <1>7, <2>1, <2>2, OptionsTypeNext DEF Polled, Marked
<1> QED BY <1>2, <1>3, <1>4, <1>5, <1>6, <1>7 DEF Session, IpscSelfcarePoll, HotspotDiscPoll

-----------------------------------------------------------------------------
(* options_config.                                                           *)

(* What is parsed from a string is among the options BridgeTable allows.     *)
LEMMA ParsedType ==
  ASSUME ConfigOK, OptionsTypeOK, NEW s \in Masters, OPTIONS[s] # NoOptions
  PROVE  Parsed(s, OPTIONS[s]) \in OptionSets
<1> DEFINE o == OPTIONS[s]
           q == CONFIG[s]
<1>1. o \in Sent /\ q \in OptionSets \cup {Configured[m] : m \in Masters}
  BY OptionsTypeMeaning DEF ConfigOK
<1>2. Parsed(s, OPTIONS[s]) = IF o.timer = None THEN [o EXCEPT !.timer = q.timer] ELSE o
  BY DEF Parsed
<1> HIDE DEF o, q
<1> QED BY <1>1, <1>2, ParsedAssumption DEF Sent

(* Parsing a string under the options it was parsed into changes nothing.    *)
LEMMA ParsedTwice ==
  ASSUME NEW s \in Masters, NEW o \in Options, CONFIG \in [Masters -> Options],
         CONFIG' = [CONFIG EXCEPT ![s] = Parsed(s, o)]
  PROVE  CONFIG'[s] = Parsed(s, o) /\ Parsed(s, o)' = Parsed(s, o)
  BY DEF Parsed, Options

LEMMA ParseKeeps ==
  ASSUME OptionsInv, NEW s \in Masters, Parse(s)
  PROVE  OptionsInv'
<1> USE DEF OptionsInv
<1>1. OPTIONS' = OPTIONS /\ conn' = conn /\ todo' = todo \ {s}
  BY DEF Parse
<1>2. CASE ResetPass(s)
  <2>1. CONFIG' = CONFIG
    BY <1>2 DEF ResetPass, ResetSlot
  <2>2. NoLostOptions'
    BY <1>2 DEF ResetPass, NoLostOptions
  <2> QED BY <1>1, <1>2, <2>1, <2>2, OptionsTypeMeaning, OptionsTypeNext DEF ResetPass, ConfigOK
<1>3. CASE /\ ~reset[s] /\ OPTIONS[s] # NoOptions
           /\ Reconfigure(s, Parsed(s, OPTIONS[s])) /\ UNCHANGED <<reset, dirty>>
  <2>1. Parsed(s, OPTIONS[s]) \in OptionSets
    BY <1>3, ParsedType
  <2>2. CONFIG' = [CONFIG EXCEPT ![s] = Parsed(s, OPTIONS[s])]
    BY <1>3 DEF Reconfigure
  <2>3. ConfigOK'
    BY <2>1, <2>2 DEF ConfigOK
  <2>4. OptionsTypeOK'
    BY <1>1, <1>3, OptionsTypeMeaning, OptionsTypeNext
  <2>5. InForce(s)'
    <3>1. PICK o : o = OPTIONS[s]
      OBVIOUS
    <3>2. o \in Options /\ CONFIG \in [Masters -> Options]
      <4>1. \A m \in Masters : Configured[m] \in Options
        BY NoneAssumption
      <4>2. o \in Strings \cup {Empty} \cup {Configured[m] : m \in Masters}
        BY <1>3, <3>1, OptionsTypeMeaning DEF Sent
      <4>3. Empty \in Options
        BY DEF Empty, Options, None
      <4> QED BY <4>1, <4>2, <4>3, StringsAssumption, TrafficAssumption DEF ConfigOK
    <3>3. OPTIONS'[s] = o /\ ~reset'[s]
      BY <1>1, <1>3, <3>1, OptionsTypeMeaning
    <3>4. CONFIG'[s] = Parsed(s, o) /\ Parsed(s, o)' = Parsed(s, o)
      BY <2>2, <3>2, <3>1, ParsedTwice
    <3> QED BY <3>3, <3>4 DEF InForce, Parsed
  <2>6. ASSUME NEW m \in Masters, m # s, InForce(m) \/ dirty = "set" \/ m \in todo
        PROVE  InForce(m)' \/ dirty' = "set" \/ m \in todo'
    <3>1. CONFIG'[m] = CONFIG[m]
      BY <2>2, <2>6 DEF ConfigOK
    <3> QED BY <1>1, <1>3, <2>6, <3>1 DEF InForce, Parsed
  <2> QED BY <2>3, <2>4, <2>5, <2>6 DEF NoLostOptions
<1>4. CASE ~reset[s] /\ OPTIONS[s] = NoOptions /\ UNCHANGED <<vars, reset, dirty>>
  <2>1. CONFIG' = CONFIG
    BY <1>4 DEF vars
  <2>2. InForce(s)'
    BY <1>1, <1>4 DEF InForce
  <2>3. NoLostOptions'
    BY <1>1, <1>4, <2>1, <2>2 DEF NoLostOptions, InForce, Parsed
  <2> QED BY <1>1, <1>4, <2>1, <2>3, OptionsTypeMeaning, OptionsTypeNext DEF ConfigOK
<1> QED BY <1>2, <1>3, <1>4 DEF Parse

-----------------------------------------------------------------------------
(* The invariant.                                                            *)

LEMMA OptionsInitInv == OptionsInit => OptionsInv
<1> SUFFICES ASSUME OptionsInit PROVE OptionsInv
  OBVIOUS
<1>1. OptionsTypeOK
  BY OptionsTypeMeaning DEF OptionsInit, Sent, Conns
<1>2. ConfigOK
  BY NoneAssumption DEF OptionsInit, Init, ConfigOK
<1>3. NoLostOptions
  BY DEF OptionsInit, NoLostOptions
<1> QED BY <1>1, <1>2, <1>3 DEF OptionsInv

LEMMA OptionsStepInv ==
  ASSUME OptionsInv, [OptionsNext]_allvars
  PROVE  OptionsInv'
<1> USE DEF OptionsInv
<1>1. CASE OptionsConfig
  <2>1. CONFIG' = CONFIG /\ OptionsTypeOK'
    BY <1>1, OptionsTypeMeaning, OptionsTypeNext DEF OptionsConfig, vars
  <2>2. Marked
    BY <1>1, <2>1 DEF OptionsConfig, Marked
  <2> QED BY <2>1, <2>2, MarkedKeeps DEF ConfigOK, Marked
<1>2. ASSUME NEW s \in Masters, Parse(s) PROVE OptionsInv'
  BY <1>2, ParseKeeps
<1>3. ASSUME NEW s \in Masters, Session(s) PROVE OptionsInv'
  <2>1. OptionsTypeOK' /\ Marked
    BY <1>3, SessionKeeps
  <2> QED BY <2>1, MarkedKeeps DEF ConfigOK, Marked
<1>4. CASE Rest
  <2>1. CONFIG' = CONFIG
    BY <1>4 DEF Rest, Boot, Traffic, Keyup, GroupCallStart, GroupCallEnd, PrivateCallStart,
                PrivateCallEnd, ObpPacket, Housekeeping, RuleTimer, StatTrim, Tick
  <2>2. UNCHANGED optvars
    BY <1>4 DEF Rest
  <2>3. Marked /\ OptionsTypeOK'
    BY <2>1, <2>2, OptionsTypeMeaning, OptionsTypeNext DEF Marked, optvars
  <2> QED BY <2>3, MarkedKeeps DEF ConfigOK, Marked
<1>5. CASE UNCHANGED allvars
  <2>1. Marked /\ OptionsTypeOK'
    BY <1>5, OptionsTypeMeaning, OptionsTypeNext DEF Marked, allvars, optvars, vars
  <2> QED BY <2>1, MarkedKeeps DEF ConfigOK, Marked
<1> QED BY <1>1, <1>2, <1>3, <1>4, <1>5 DEF OptionsNext, OptionsLoop

LEMMA OptionsInvariance == OptionsSpec => []OptionsInv
<1> QED BY OptionsInitInv, OptionsStepInv, PTL DEF OptionsSpec

-----------------------------------------------------------------------------
(* Refinement.                                                               *)

LEMMA OptionsStep ==
  ASSUME OptionsInv, [OptionsNext]_allvars
  PROVE  [Next]_vars
<1> USE DEF OptionsInv
<1>1. CASE OptionsConfig
  BY <1>1 DEF OptionsConfig
<1>2. ASSUME NEW s \in Masters, Parse(s) PROVE [Next]_vars
  <2>1. ASSUME Reconfigure(s, Parsed(s, OPTIONS[s])), OPTIONS[s] # NoOptions PROVE Next
    <3>1. Parsed(s, OPTIONS[s]) \in OptionSets
      BY <2>1, ParsedType
    <3> QED BY <2>1, <3>1 DEF Next, Reoptions
  <2>2. ASSUME ResetSlot(s) PROVE Next
    BY <2>2 DEF Next, Reoptions
  <2> QED BY <1>2, <2>1, <2>2 DEF Parse, ResetPass
<1>3. ASSUME NEW s \in Masters, Session(s) PROVE [Next]_vars
  <2>1. ASSUME SessionChange(s) \/ SelfcareDISC(s) PROVE Next
    BY <2>1 DEF Next, Sessions
  <2>2. SessionChange(s) \/ SelfcareDISC(s) \/ UNCHANGED vars
    BY <1>3 DEF Session, Login, Answer, Configure, Close, Timeout, EmptySlot, Register,
                RemoveIpscPeer, SendOptions, IpscSelfcarePoll, HotspotDiscPoll, Polled
  <2> QED BY <2>1, <2>2
<1>4. CASE Rest
  BY <1>4 DEF Rest, Next
<1>5. CASE UNCHANGED allvars
  BY <1>5 DEF allvars
<1> QED BY <1>1, <1>2, <1>3, <1>4, <1>5 DEF OptionsNext, OptionsLoop

-----------------------------------------------------------------------------
(* The results.                                                              *)

(* Every step of the options layer is a step of BridgeTable or leaves the      *)
(* table alone, so what is proved of the table holds with the loop and the    *)
(* sessions that drive it.                                                   *)
THEOREM OptionsRefineTable == OptionsSpec => Spec
<1>1. OptionsInit => Init
  BY DEF OptionsInit
<1>2. OptionsInv /\ [OptionsNext]_allvars => [Next]_vars
  BY OptionsStep
<1> QED BY <1>1, <1>2, OptionsInvariance, PTL DEF OptionsSpec, Spec

(* The index is exact under that schedule too.                               *)
THEOREM OptionsIndexCorrect == OptionsSpec => []IndexConsistent
  BY OptionsRefineTable, IndexCorrect, PTL

(* Whatever string a peer sends, a poll reads or a logout leaves behind, and    *)
(* whenever the loop comes to it, the static talkgroups of the options in      *)
(* force have their TO_TYPE OFF legs.                                        *)
THEOREM OptionsKeepStatics ==
  ASSUME StaticsApart
  PROVE  OptionsSpec => []StaticLegKept
  BY OptionsRefineTable, StaticsStay, PTL

(* A change of options, at whatever moment of a call, leaves neither two links *)
(* nor an owner without a link.                                              *)
THEOREM OptionsKeepLinks ==
  ASSUME PrivateSlots \subseteq {2}
  PROVE  OptionsSpec => [](OneDynamicReflector /\ OwnerOnlyWhileLinked)
  BY OptionsRefineTable, LinksAlone, OwnersLeave, PTL

(* Every variable of the options layer always has its type.                  *)
THEOREM OptionsTypeCorrect == OptionsSpec => []OptionsTypeOK
<1>1. OptionsInv => OptionsTypeOK
  BY DEF OptionsInv
<1> QED BY <1>1, OptionsInvariance, PTL

(* Options that are not in force are always marked for a pass of the loop,     *)
(* whichever of login, RPTO, poll, logout and pass comes last.               *)
THEOREM NoOptionsLost == OptionsSpec => []NoLostOptions
<1>1. OptionsInv => NoLostOptions
  BY DEF OptionsInv
<1> QED BY <1>1, OptionsInvariance, PTL

=============================================================================
