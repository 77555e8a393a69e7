----------------------------- MODULE LimBeaconRx -----------------------------
(***************************************************************************)
(* One associated STA session of LIM (src/core/mac/src/pe/lim/lim_api.c)  *)
(* receiving Beacons and Probe Responses from its AP.                     *)
(*                                                                         *)
(*  - admission: lim_is_pkt_candidate_for_drop for Beacon/Probe-Rsp, with *)
(*    lim_is_beacon_miss_scenario and lim_is_system_in_scan_state;         *)
(*  - heartbeat: lim_received_hb_handler and the firmware missed-beacon   *)
(*    indication lim_ps_offload_handle_missed_beacon_ind;                  *)
(*  - lim_detect_change_in_ap_capabilities with lim_enc_type_matched,     *)
(*    which sends a directed Probe Request on a mismatch and notifies SME *)
(*    (eSIR_SME_AP_CAPS_CHANGED) when the mismatch is seen again.         *)
(*                                                                         *)
(* The AP is the environment: it may reconfigure what it advertises at    *)
(* any time, answers a pending directed probe, and the probe may be lost. *)
(* A frame's content is abstracted to the fields the detector compares:   *)
(* SSID, the Privacy bit, one bit standing for ESS/Short-Preamble/QoS,    *)
(* whether a WPA or RSN IE is present, and the DS-parameter channel       *)
(* (0 when the IE is absent).                                              *)
(***************************************************************************)
EXTENDS Naturals

CONSTANTS
    Channels,        \* channel numbers an AP may advertise (0 excluded)
    OperChannel,     \* psessionEntry->currentOperChannel
    EncType,         \* psessionEntry->encryptType, grouped as in lim_enc_type_matched
    CurPrivacy,      \* SIR_MAC_GET_PRIVACY(psessionEntry->limCurrentBssCaps)
    CurMisc          \* ESS/Short-Preamble/QoS bits of limCurrentBssCaps

ASSUME ChannelsAssumption == 0 \notin Channels /\ OperChannel \in Channels
ASSUME EncTypeAssumption == EncType \in {"NONE", "WEP", "WPA"}
ASSUME CapsAssumption == CurPrivacy \in {0, 1} /\ CurMisc \in {0, 1}

\* eLIM_SME_* states; the first four are the ones lim_is_system_in_scan_state
\* reports as scan/learn states, LINK_EST is the associated state.
ScanStates == {"CHANNEL_SCAN", "NORMAL_CHANNEL_SCAN", "LINK_EST_WT_SCAN", "WT_SCAN"}
SmeStates == ScanStates \cup {"LINK_EST"}

\* SSID of a frame: the session's own, another one, or a null (hidden) SSID.
Ssids == {"own", "other", "null"}

\* What an AP can advertise in a Beacon or Probe Response.
Adverts == [ssid : Ssids, privacy : {0, 1}, misc : {0, 1},
            secIe : BOOLEAN, chan : Channels \cup {0}]

FrameKinds == {"Beacon", "ProbeRsp"}

VARIABLES
    ap,                    \* what the AP currently advertises
    probeOut,              \* a directed Probe Request awaits the AP's answer
    gLimSmeState,          \* pMac->lim.gLimSmeState
    bcnmiss,               \* psessionEntry->pmmOffloadInfo.bcnmiss
    hbTimeoutPending,      \* SIR_LIM_HEART_BEAT_TIMEOUT posted to the LIM queue
    fWaitForProbeRsp,
    fIgnoreCapsChange,
    limSentCapsChangeNtf,
    fwInScan               \* firmware runs an offloaded scan: frames it
                           \* delivers carry WMA_IS_RX_IN_SCAN

vars == <<ap, probeOut, gLimSmeState, bcnmiss, hbTimeoutPending,
          fWaitForProbeRsp, fIgnoreCapsChange, limSentCapsChangeNtf, fwInScan>>

detector == <<fWaitForProbeRsp, fIgnoreCapsChange, limSentCapsChangeNtf>>

-----------------------------------------------------------------------------
(* Helpers translated from lim_api.c                                       *)

\* lim_is_system_in_scan_state
LimIsSystemInScanState == gLimSmeState \in ScanStates

\* Variant: beacons are not recognised as the beacon-miss scenario.
LimIsBeaconMissScenarioNeverMatches == FALSE

\* lim_is_beacon_miss_scenario (the frame's BSSID is the session's)
LimIsBeaconMissScenario == bcnmiss

\* lim_is_pkt_candidate_for_drop for a Beacon or Probe Response: the first
\* branch returns in every case, so only the scan marker can drop it.
BeaconAdmitted ==
    \/ LimIsBeaconMissScenario
    \/ LimIsSystemInScanState
    \/ ~fwInScan

\* lim_enc_type_matched; a Privacy-bit mismatch counts as matched.
LimEncTypeMatched(f) ==
    \/ f.privacy # CurPrivacy
    \/ f.privacy = 0 /\ EncType = "NONE"
    \/ f.privacy = 1 /\ ~f.secIe /\ EncType = "WEP"
    \/ f.privacy = 1 /\ f.secIe /\ EncType = "WPA"

\* The mismatch test at the head of lim_detect_change_in_ap_capabilities.
CapsMismatch(f) ==
    \/ f.ssid = "other"
    \/ f.privacy # CurPrivacy
    \/ f.misc # CurMisc
    \/ f.chan # OperChannel /\ f.chan # 0
    \/ ~LimEncTypeMatched(f)

\* The four outcomes of lim_detect_change_in_ap_capabilities(f), in the
\* order of its branches (they exclude each other).  A mismatch while not waiting sends a directed
\* Probe Request (unless the ignore flag is set); a mismatch while waiting
\* notifies SME unless the channel differs or Privacy=0 comes with a
\* WPA/RSN IE; a match while waiting sets the ignore flag.
\* Variant: the fIgnoreCapsChange early return is missing.
SendsProbeIgnoringFlag(f) ==
    /\ ~limSentCapsChangeNtf /\ CapsMismatch(f)
    /\ ~fWaitForProbeRsp

SendsProbe(f) ==
    /\ ~limSentCapsChangeNtf /\ CapsMismatch(f)
    /\ ~fWaitForProbeRsp
    /\ ~fIgnoreCapsChange

NotifiesChange(f) ==
    /\ ~limSentCapsChangeNtf /\ CapsMismatch(f)
    /\ fWaitForProbeRsp
    /\ f.chan = OperChannel
    /\ ~(f.privacy = 0 /\ f.secIe)

AbsorbsMismatch(f) ==
    /\ ~(~limSentCapsChangeNtf /\ CapsMismatch(f))
    /\ fWaitForProbeRsp

\* probeOk is the outcome of lim_send_probe_req_mgmt_frame when it is called.
LimDetectChangeInApCapabilities(f, probeOk) ==
    \/ /\ SendsProbe(f)
       /\ fWaitForProbeRsp' = probeOk
       /\ UNCHANGED <<fIgnoreCapsChange, limSentCapsChangeNtf>>
    \/ /\ NotifiesChange(f)
       /\ fIgnoreCapsChange' = FALSE
       /\ fWaitForProbeRsp' = FALSE
       /\ limSentCapsChangeNtf' = TRUE
    \/ /\ AbsorbsMismatch(f)
       /\ fIgnoreCapsChange' = TRUE
       /\ fWaitForProbeRsp' = FALSE
       /\ UNCHANGED limSentCapsChangeNtf
    \/ /\ ~SendsProbe(f) /\ ~NotifiesChange(f) /\ ~AbsorbsMismatch(f)
       /\ UNCHANGED detector

\* lim_received_hb_handler: a frame reaching the heartbeat handler clears
\* the firmware beacon miss.  The handler also counts frames on the
\* operating channel in LimRxedBeaconCntDuringHB (an unbounded ++); only
\* the heartbeat check outside these sources reads that count, and no
\* property here depends on it, so the count is left out.
LimReceivedHbHandler == bcnmiss' = FALSE

-----------------------------------------------------------------------------
(* Actions                                                                 *)

Init ==
    /\ ap \in {a \in Adverts : ~CapsMismatch(a)}
    /\ probeOut = FALSE
    /\ gLimSmeState = "LINK_EST"
    /\ bcnmiss = FALSE
    /\ hbTimeoutPending = FALSE
    /\ fWaitForProbeRsp = FALSE
    /\ fIgnoreCapsChange = FALSE
    /\ limSentCapsChangeNtf = FALSE
    /\ fwInScan \in BOOLEAN

\* A Beacon (any time) or the answer to the directed probe reaches PE,
\* marked as a scan frame when the firmware is scanning.  If lim_is_pkt_candidate_for_drop admits it, the
\* session processes it: lim_received_hb_handler, then
\* lim_detect_change_in_ap_capabilities.  The answer consumes the pending
\* probe; a probe sent now becomes the pending one.
RxFrame(kind, probeOk) ==
    /\ kind = "ProbeRsp" => probeOut
    /\ IF BeaconAdmitted
       THEN /\ LimReceivedHbHandler
            /\ LimDetectChangeInApCapabilities(ap, probeOk)
            /\ probeOut' = \/ probeOut /\ kind = "Beacon"
                           \/ SendsProbe(ap) /\ probeOk
       ELSE UNCHANGED <<bcnmiss, detector, probeOut>>
    /\ UNCHANGED <<ap, gLimSmeState, hbTimeoutPending, fwInScan>>

\* The AP changes what it advertises (environment).
ApReconfigure ==
    /\ \E a \in Adverts \ {ap} : ap' = a
    /\ UNCHANGED <<probeOut, gLimSmeState, bcnmiss, hbTimeoutPending, detector,
                   fwInScan>>

\* The directed probe or its answer is lost on the air (environment).
ProbeLost ==
    /\ probeOut
    /\ probeOut' = FALSE
    /\ UNCHANGED <<ap, gLimSmeState, bcnmiss, hbTimeoutPending, detector,
                   fwInScan>>

\* SME enters or leaves a scan state (lim_process_sme_req_messages, outside
\* the sources here).
SmeStateChange ==
    /\ \E s \in SmeStates \ {gLimSmeState} : gLimSmeState' = s
    /\ UNCHANGED <<ap, probeOut, bcnmiss, hbTimeoutPending, detector, fwInScan>>

\* lim_ps_offload_handle_missed_beacon_ind: firmware reports a beacon miss;
\* bcnmiss is set and lim_send_heart_beat_timeout_ind posts
\* SIR_LIM_HEART_BEAT_TIMEOUT, whose posting may fail (logged only).
LimPsOffloadHandleMissedBeaconInd ==
    /\ bcnmiss' = TRUE
    /\ \E postOk \in BOOLEAN :
         hbTimeoutPending' = (hbTimeoutPending \/ postOk)
    /\ UNCHANGED <<ap, probeOut, gLimSmeState, detector, fwInScan>>

\* LIM dequeues SIR_LIM_HEART_BEAT_TIMEOUT and runs its heartbeat check
\* (lim_handle_heart_beat_timeout_for_session, outside the sources here).
LimHeartBeatTimeout ==
    /\ hbTimeoutPending
    /\ hbTimeoutPending' = FALSE
    /\ UNCHANGED <<ap, probeOut, gLimSmeState, bcnmiss, detector, fwInScan>>

\* The firmware starts or ends an offloaded (roam) scan (environment).
FwScanToggle ==
    /\ fwInScan' = ~fwInScan
    /\ UNCHANGED <<ap, probeOut, gLimSmeState, bcnmiss, hbTimeoutPending,
                   detector>>

Next ==
    \/ \E kind \in FrameKinds, probeOk \in BOOLEAN : RxFrame(kind, probeOk)
    \/ FwScanToggle
    \/ ApReconfigure
    \/ ProbeLost
    \/ SmeStateChange
    \/ LimPsOffloadHandleMissedBeaconInd
    \/ LimHeartBeatTimeout

\* The AP keeps beaconing and its beacons keep reaching PE.
RxApBeacon == \E probeOk \in BOOLEAN : RxFrame("Beacon", probeOk)

Spec == Init /\ [][Next]_vars
FairSpec == Spec /\ WF_vars(RxApBeacon)

-----------------------------------------------------------------------------
(* Properties                                                              *)

TypeOK ==
    /\ ap \in Adverts
    /\ probeOut \in BOOLEAN
    /\ gLimSmeState \in SmeStates
    /\ bcnmiss \in BOOLEAN
    /\ hbTimeoutPending \in BOOLEAN
    /\ fWaitForProbeRsp \in BOOLEAN
    /\ fIgnoreCapsChange \in BOOLEAN
    /\ limSentCapsChangeNtf \in BOOLEAN
    /\ fwInScan \in BOOLEAN

\* The detector's flags never contradict each other: the session is never
\* waiting for a verification probe while it ignores capability changes,
\* and once SME has been notified it neither waits nor ignores.  Breaking
\* it takes a mismatch, a probe and a further frame in a bad order.
DetectorFlagsConsistent ==
    /\ ~(fWaitForProbeRsp /\ fIgnoreCapsChange)
    /\ limSentCapsChangeNtf => ~fWaitForProbeRsp /\ ~fIgnoreCapsChange

\* While the AP keeps beaconing, a firmware-reported beacon miss is always
\* cleared by lim_received_hb_handler, even when the firmware scans for a
\* roam candidate for ever and marks every beacon as a scan frame:
\* lim_is_pkt_candidate_for_drop must not drop them during a beacon miss.
BeaconMissResolves == bcnmiss ~> ~bcnmiss

\* A change the detector would report if it saw it while waiting: a
\* mismatch on the operating channel that is not the Cisco 1262 anomaly.
GenuineChange ==
    /\ CapsMismatch(ap)
    /\ ap.chan = OperChannel
    /\ ~(ap.privacy = 0 /\ ap.secIe)

\* spec 4.3 describes fIgnoreCapsChange as "ignore the next" mismatch: a
\* genuine change of the AP's capabilities that persists is eventually
\* reported to SME (eSIR_SME_AP_CAPS_CHANGED) by
\* lim_detect_change_in_ap_capabilities.
PersistentChangeNotified == <>[]GenuineChange => <>limSentCapsChangeNtf

====
