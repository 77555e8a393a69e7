------------------------------- MODULE GreenAp -------------------------------
(***************************************************************************)
(* The Green-AP power-save state machine of HDD                            *)
(* (src/core/hdd/src/wlan_hdd_green_ap.c).                                 *)
(*                                                                         *)
(* hdd_wlan_green_ap_mc is run for the SAP events (start/stop BSS, add/del *)
(* station) and, with the stored ps_event, when ps_timer expires.  It      *)
(* first applies the event to ps_enable and num_nodes, then moves ps_state *)
(* and tells the firmware to enable or disable Green-AP power save         *)
(* (WMI_PDEV_GREEN_AP_PS_ENABLE_CMDID through wma_cli_set_command, which   *)
(* may fail).  fwPs is the setting the firmware last accepted.             *)
(*                                                                         *)
(* What HDD keeps outside this file is an input chosen at each call: the   *)
(* SAP adapter's presence (hdd_get_adapter), the SAP and STA bits of the   *)
(* concurrency mode, and whether the HDD context is valid when the timer   *)
(* fires.                                                                  *)
(***************************************************************************)
EXTENDS Naturals

CONSTANTS
    PsOnTime,        \* GREEN_AP_PS_ON_TIME
    GreenApCfg,      \* cfg->enable2x2 && cfg->enableGreenAP
    MaxNodes         \* bound on num_nodes (connected clients)

ASSUME PsOnTimeAssumption == PsOnTime \in Nat
ASSUME GreenApCfgAssumption == GreenApCfg \in BOOLEAN
ASSUME MaxNodesAssumption == MaxNodes \in Nat \ {0}

\* enum hdd_green_ap_ps_state, and the value 0 that the WAIT branch stores
\* when ps_on_time is non-zero.
PsStates == {"IDLE", "OFF", "WAIT", "ON", "ZERO"}

\* enum hdd_green_ap_event, and the 0 that attach stores in ps_event.
Events == {"START", "STOP", "ADD_STA", "DEL_STA", "PS_ON", "PS_WAIT", "ZERO"}

VARIABLES
    attached,        \* hdd_ctx->green_ap_ctx != NULL
    ps_enable,
    ps_state,
    ps_event,
    num_nodes,
    timerRunning,    \* ps_timer is armed
    fwPs             \* Green-AP power save enabled in the firmware

vars == <<attached, ps_enable, ps_state, ps_event, num_nodes, timerRunning,
          fwPs>>

-----------------------------------------------------------------------------
(* Helpers translated from wlan_hdd_green_ap.c                             *)

\* The event part of hdd_wlan_green_ap_mc: ps_enable after the event.
\* sapMask is cds_get_concurrency_mode() & CDF_SAP_MASK.
EnableAfter(event, sapMask) ==
    CASE event = "START" -> 1
      [] event = "STOP" /\ ~sapMask -> 0
      [] OTHER -> ps_enable

\* Variant: DEL_STA decrements num_nodes without testing it first.
NodesAfterUnguarded(event) ==
    CASE event = "ADD_STA" -> num_nodes + 1
      [] event = "DEL_STA" -> num_nodes - 1
      [] OTHER -> num_nodes

\* The event part of hdd_wlan_green_ap_mc: num_nodes after the event.
NodesAfter(event) ==
    CASE event = "ADD_STA" -> num_nodes + 1
      [] event = "DEL_STA" /\ num_nodes > 0 -> num_nodes - 1
      [] OTHER -> num_nodes

\* hdd_wlan_green_ap_enable(adapter, en): the firmware takes the new
\* setting when wma_cli_set_command succeeds (ok).
GreenApEnable(en, ok) == fwPs' = IF ok THEN en ELSE fwPs

\* The state part of hdd_wlan_green_ap_mc, once ps_enable is en and
\* num_nodes is n; tmr is the timer state when the call starts, adapter
\* whether a SAP adapter exists and ok the outcome of the firmware command.
PsTransition(en, n, tmr, adapter, ok) ==
    \/ /\ en = 0
       /\ ps_state' = "IDLE" /\ ps_event' = "PS_WAIT"
       /\ UNCHANGED fwPs /\ timerRunning' = tmr
    \/ /\ en = 1 /\ ~adapter
       /\ UNCHANGED <<ps_state, ps_event, fwPs>> /\ timerRunning' = tmr
    \/ /\ en = 1 /\ adapter
       /\ \/ /\ ps_state \in {"IDLE", "ZERO"}
             /\ ps_state' = "OFF" /\ ps_event' = "PS_WAIT"
             /\ UNCHANGED fwPs /\ timerRunning' = tmr
          \/ /\ ps_state = "OFF" /\ n = 0
             /\ ps_state' = "WAIT" /\ ps_event' = "PS_WAIT"
             /\ UNCHANGED fwPs /\ timerRunning' = TRUE
          \/ /\ ps_state = "WAIT" /\ n = 0
             /\ ps_state' = IF PsOnTime # 0 THEN "ZERO" ELSE "ON"
             /\ ps_event' = "PS_WAIT"
             /\ GreenApEnable(TRUE, ok)
             /\ timerRunning' = (tmr \/ PsOnTime # 0)
          \/ /\ ps_state = "OFF" /\ n > 0
             /\ UNCHANGED <<ps_state, ps_event, fwPs>> /\ timerRunning' = tmr
          \/ /\ ps_state = "WAIT" /\ n > 0
             /\ ps_state' = "OFF" /\ ps_event' = "PS_WAIT"
             /\ UNCHANGED fwPs /\ timerRunning' = tmr
          \/ /\ ps_state = "ON" /\ n > 0
             /\ GreenApEnable(FALSE, ok)
             /\ IF ok THEN ps_state' = "OFF" /\ ps_event' = "PS_WAIT"
                      ELSE UNCHANGED <<ps_state, ps_event>>
             /\ timerRunning' = tmr
          \/ /\ ps_state = "ON" /\ n = 0
             /\ IF ps_event = "PS_WAIT" /\ PsOnTime # 0
                THEN \* ps_on_time expired: back to WAIT, firmware PS off
                     /\ ps_state' = "WAIT" /\ ps_event' = "PS_ON"
                     /\ GreenApEnable(FALSE, ok)
                     /\ timerRunning' = (tmr \/ ok)
                ELSE /\ UNCHANGED <<ps_state, ps_event, fwPs>>
                     /\ timerRunning' = tmr

\* hdd_wlan_green_ap_mc(hdd_ctx, event), with the inputs it reads from the
\* rest of HDD; tmr is the timer state when the call starts.
HddWlanGreenApMc(event, tmr) ==
    \E sapMask, adapter, ok \in BOOLEAN :
        LET en == EnableAfter(event, sapMask)
            n  == NodesAfter(event)
        IN  /\ ps_enable' = en
            /\ num_nodes' = n
            /\ PsTransition(en, n, tmr, adapter, ok)

-----------------------------------------------------------------------------
(* Actions                                                                 *)

\* hdd_wlan_green_ap_init -> hdd_wlan_green_ap_attach at driver start; the
\* allocation may fail, leaving green_ap_ctx NULL.
Init ==
    /\ attached \in BOOLEAN
    /\ ps_enable = 0
    /\ ps_state = "OFF"
    /\ ps_event = "ZERO"
    /\ num_nodes = 0
    /\ timerRunning = FALSE
    /\ fwPs = FALSE

\* Every entry point calls hdd_wlan_green_ap_mc, which returns at once
\* when green_ap_ctx is NULL.
GreenApEvent(event) ==
    /\ attached
    /\ HddWlanGreenApMc(event, timerRunning)
    /\ UNCHANGED attached

\* hdd_wlan_green_ap_start_bss: START unless a STA is up or Green AP is
\* not configured, STOP otherwise.
HddWlanGreenApStartBss ==
    \E staConc \in BOOLEAN :
        GreenApEvent(IF ~staConc /\ GreenApCfg THEN "START" ELSE "STOP")

\* hdd_wlan_green_ap_stop_bss
HddWlanGreenApStopBss == GreenApEvent("STOP")

\* hdd_wlan_green_ap_add_sta (a client associates); at most MaxNodes.
HddWlanGreenApAddSta ==
    /\ num_nodes < MaxNodes
    /\ GreenApEvent("ADD_STA")

\* hdd_wlan_green_ap_del_sta (a client leaves)
HddWlanGreenApDelSta == GreenApEvent("DEL_STA")

\* hdd_wlan_green_ap_timer_fn: ps_timer expires; the callback runs the
\* state machine with the stored ps_event unless the HDD context is
\* invalid (load/unload or recovery in progress) or the Green-AP context
\* is gone.
HddWlanGreenApTimerFn ==
    /\ timerRunning
    /\ \/ /\ attached
          /\ HddWlanGreenApMc(ps_event, FALSE)
       \/ /\ timerRunning' = FALSE
          /\ UNCHANGED <<ps_enable, ps_state, ps_event, num_nodes, fwPs>>
    /\ UNCHANGED attached

\* hdd_wlan_green_ap_deinit -> hdd_wlan_green_ap_deattach: stop the timer
\* if it is running, destroy it and free the context.
HddWlanGreenApDeattach ==
    /\ attached
    /\ attached' = FALSE
    /\ timerRunning' = FALSE
    /\ UNCHANGED <<ps_enable, ps_state, ps_event, num_nodes, fwPs>>

Next ==
    \/ HddWlanGreenApStartBss
    \/ HddWlanGreenApStopBss
    \/ HddWlanGreenApAddSta
    \/ HddWlanGreenApDelSta
    \/ HddWlanGreenApTimerFn
    \/ HddWlanGreenApDeattach

Spec == Init /\ [][Next]_vars

-----------------------------------------------------------------------------
(* Properties                                                              *)

TypeOK ==
    /\ attached \in BOOLEAN
    /\ ps_enable \in {0, 1}
    /\ ps_state \in PsStates
    /\ ps_event \in Events
    /\ num_nodes \in 0..MaxNodes
    /\ timerRunning \in BOOLEAN
    /\ fwPs \in BOOLEAN

====
