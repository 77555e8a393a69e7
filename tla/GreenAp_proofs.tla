---------------------------- MODULE GreenAp_proofs ----------------------------
(* Proofs about the Green-AP state machine for every build constant and    *)
(* client bound.                                                           *)
EXTENDS GreenAp, TLAPS

\* hdd_wlan_green_ap_mc only stores PS_WAIT or PS_ON in ps_event, and attach
\* stores 0; the timer replays that event, so an expiry is never an
\* ADD_STA that could push num_nodes past its bound.
StoredEvents == {"PS_WAIT", "PS_ON", "ZERO"}

EventStored == ps_event \in StoredEvents

IInv == TypeOK /\ EventStored

\* The state part of hdd_wlan_green_ap_mc keeps the state, the stored event,
\* the timer and the firmware setting in their types.
LEMMA PsTransitionType ==
    ASSUME IInv, NEW en \in {0, 1}, NEW n \in Nat, NEW tmr \in BOOLEAN,
           NEW adapter \in BOOLEAN, NEW ok \in BOOLEAN,
           PsTransition(en, n, tmr, adapter, ok)
    PROVE  /\ ps_state' \in PsStates
           /\ ps_event' \in StoredEvents
           /\ timerRunning' \in BOOLEAN
           /\ fwPs' \in BOOLEAN
BY DEF PsTransition, GreenApEnable, IInv, TypeOK, EventStored, StoredEvents,
       PsStates

\* One run of hdd_wlan_green_ap_mc for an event that does not push
\* num_nodes past MaxNodes.
LEMMA McType ==
    ASSUME IInv, NEW event \in Events, NEW tmr \in BOOLEAN,
           event = "ADD_STA" => num_nodes < MaxNodes,
           HddWlanGreenApMc(event, tmr)
    PROVE  /\ ps_enable' \in {0, 1}
           /\ num_nodes' \in 0..MaxNodes
           /\ ps_state' \in PsStates
           /\ ps_event' \in StoredEvents
           /\ timerRunning' \in BOOLEAN
           /\ fwPs' \in BOOLEAN
<1>1. PICK sapMask, adapter, ok \in BOOLEAN :
        /\ ps_enable' = EnableAfter(event, sapMask)
        /\ num_nodes' = NodesAfter(event)
        /\ PsTransition(EnableAfter(event, sapMask), NodesAfter(event), tmr,
                        adapter, ok)
  BY DEF HddWlanGreenApMc
<1>2. EnableAfter(event, sapMask) \in {0, 1}
  BY DEF EnableAfter, IInv, TypeOK
<1>3. NodesAfter(event) \in 0..MaxNodes
  BY MaxNodesAssumption DEF NodesAfter, IInv, TypeOK
<1>4. /\ ps_state' \in PsStates
      /\ ps_event' \in StoredEvents
      /\ timerRunning' \in BOOLEAN
      /\ fwPs' \in BOOLEAN
  BY <1>1, <1>2, <1>3, PsTransitionType
<1>. QED BY <1>1, <1>2, <1>3, <1>4

LEMMA InitIInv == Init => IInv
<1> SUFFICES ASSUME Init PROVE IInv
  OBVIOUS
<1>1. TypeOK
  <2>1. attached \in BOOLEAN /\ timerRunning \in BOOLEAN /\ fwPs \in BOOLEAN
    BY Zenon DEF Init
  <2>2. ps_enable \in {0, 1} /\ num_nodes \in 0..MaxNodes
    BY MaxNodesAssumption DEF Init
  <2>3. ps_state \in PsStates /\ ps_event \in Events
    BY DEF Init, PsStates, Events
  <2>. QED BY <2>1, <2>2, <2>3 DEF TypeOK
<1>2. EventStored
  BY DEF Init, EventStored, StoredEvents
<1>. QED BY <1>1, <1>2 DEF IInv

\* The typed part of IInv after a step that ran hdd_wlan_green_ap_mc with
\* attached unchanged.
LEMMA McIInv ==
    ASSUME IInv, attached, attached' = attached,
           /\ ps_enable' \in {0, 1}
           /\ num_nodes' \in 0..MaxNodes
           /\ ps_state' \in PsStates
           /\ ps_event' \in StoredEvents
           /\ timerRunning' \in BOOLEAN
           /\ fwPs' \in BOOLEAN
    PROVE  IInv'
BY DEF IInv, TypeOK, EventStored, StoredEvents, Events

LEMMA NextIInv == IInv /\ [Next]_vars => IInv'
<1> SUFFICES ASSUME IInv, [Next]_vars PROVE IInv'
  OBVIOUS
<1>1. ASSUME NEW event \in Events, event = "ADD_STA" => num_nodes < MaxNodes,
             GreenApEvent(event)
      PROVE  IInv'
  <2>1. attached /\ attached' = attached /\ HddWlanGreenApMc(event, timerRunning)
    BY <1>1 DEF GreenApEvent
  <2>2. timerRunning \in BOOLEAN
    BY DEF IInv, TypeOK
  <2>. QED BY <1>1, <2>1, <2>2, McType, McIInv
<1>2. CASE HddWlanGreenApStartBss
  <2>1. PICK staConc \in BOOLEAN :
          GreenApEvent(IF ~staConc /\ GreenApCfg THEN "START" ELSE "STOP")
    BY <1>2 DEF HddWlanGreenApStartBss
  <2>2. CASE ~staConc /\ GreenApCfg
    BY <2>1, <2>2, <1>1 DEF Events
  <2>3. CASE ~(~staConc /\ GreenApCfg)
    BY <2>1, <2>3, <1>1 DEF Events
  <2>. QED BY <2>2, <2>3
<1>3. CASE HddWlanGreenApStopBss
  BY <1>3, <1>1 DEF HddWlanGreenApStopBss, Events
<1>4. CASE HddWlanGreenApAddSta
  BY <1>4, <1>1 DEF HddWlanGreenApAddSta, Events
<1>5. CASE HddWlanGreenApDelSta
  BY <1>5, <1>1 DEF HddWlanGreenApDelSta, Events
<1>6. CASE HddWlanGreenApTimerFn
  <2>1. CASE attached /\ HddWlanGreenApMc(ps_event, FALSE) /\ attached' = attached
    <3>1. ps_event \in Events /\ (ps_event = "ADD_STA" => num_nodes < MaxNodes)
      BY DEF IInv, EventStored, StoredEvents, Events
    <3>. QED BY <2>1, <3>1, McType, McIInv
  <2>2. CASE /\ timerRunning' = FALSE
             /\ UNCHANGED <<ps_enable, ps_state, ps_event, num_nodes, fwPs, attached>>
    BY <2>2 DEF IInv, TypeOK, EventStored
  <2>. QED BY <1>6, <2>1, <2>2 DEF HddWlanGreenApTimerFn
<1>7. CASE HddWlanGreenApDeattach
  BY <1>7 DEF HddWlanGreenApDeattach, IInv, TypeOK, EventStored
<1>8. CASE UNCHANGED vars
  BY <1>8 DEF vars, IInv, TypeOK, EventStored
<1>. QED BY <1>2, <1>3, <1>4, <1>5, <1>6, <1>7, <1>8 DEF Next

\* The Green-AP model stays within its types for every GREEN_AP_PS_ON_TIME,
\* configuration and client bound.
THEOREM TypeCorrect == Spec => []TypeOK
<1>1. IInv => TypeOK
  BY DEF IInv
<1>. QED BY InitIInv, NextIInv, <1>1, PTL DEF Spec
====
