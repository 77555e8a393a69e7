------------------------- MODULE LimBeaconRx_proofs -------------------------
(* Proofs about LimBeaconRx for every value of its constants.              *)
EXTENDS LimBeaconRx, TLAPS

\* The invariant the proofs carry: the types, and the detector flags'
\* consistency, which is inductive as it stands.
IInv == TypeOK /\ DetectorFlagsConsistent

\* One run of lim_detect_change_in_ap_capabilities keeps the detector flags
\* Boolean and consistent: no branch leaves the session both waiting for a
\* probe response and ignoring changes, or waiting after notifying SME.
LEMMA DetectorStep ==
    ASSUME NEW f, NEW probeOk \in BOOLEAN, IInv,
           LimDetectChangeInApCapabilities(f, probeOk)
    PROVE  /\ DetectorFlagsConsistent'
           /\ fWaitForProbeRsp' \in BOOLEAN
           /\ fIgnoreCapsChange' \in BOOLEAN
           /\ limSentCapsChangeNtf' \in BOOLEAN
<1>1. CASE SendsProbe(f) /\ fWaitForProbeRsp' = probeOk
             /\ UNCHANGED <<fIgnoreCapsChange, limSentCapsChangeNtf>>
  BY <1>1 DEF SendsProbe, IInv, TypeOK, DetectorFlagsConsistent
<1>2. CASE fIgnoreCapsChange' = FALSE /\ fWaitForProbeRsp' = FALSE
             /\ limSentCapsChangeNtf' = TRUE
  BY <1>2 DEF DetectorFlagsConsistent
<1>3. CASE AbsorbsMismatch(f) /\ fIgnoreCapsChange' = TRUE
             /\ fWaitForProbeRsp' = FALSE /\ UNCHANGED limSentCapsChangeNtf
  BY <1>3 DEF AbsorbsMismatch, IInv, TypeOK, DetectorFlagsConsistent
<1>4. CASE UNCHANGED detector
  BY <1>4 DEF detector, IInv, TypeOK, DetectorFlagsConsistent
<1>. QED BY <1>1, <1>2, <1>3, <1>4 DEF LimDetectChangeInApCapabilities

LEMMA InitIInv == Init => IInv
<1> SUFFICES ASSUME Init PROVE IInv
  OBVIOUS
<1>1. ap \in Adverts
  BY DEF Init
<1>. QED BY <1>1 DEF Init, IInv, TypeOK, DetectorFlagsConsistent, SmeStates

\* Every step of the model preserves IInv.
LEMMA NextIInv == IInv /\ [Next]_vars => IInv'
<1> SUFFICES ASSUME IInv, [Next]_vars PROVE IInv'
  OBVIOUS
<1>1. CASE \E kind \in FrameKinds, probeOk \in BOOLEAN : RxFrame(kind, probeOk)
  <2>1. PICK kind \in FrameKinds, probeOk \in BOOLEAN : RxFrame(kind, probeOk)
    BY <1>1
  <2>2. CASE BeaconAdmitted
    <3>1. LimReceivedHbHandler /\ LimDetectChangeInApCapabilities(ap, probeOk)
          /\ probeOut' \in BOOLEAN
          /\ UNCHANGED <<ap, gLimSmeState, hbTimeoutPending, fwInScan>>
      BY <2>1, <2>2 DEF RxFrame
    <3>2. bcnmiss' \in BOOLEAN
      BY <3>1 DEF LimReceivedHbHandler
    <3>3. DetectorFlagsConsistent' /\ fWaitForProbeRsp' \in BOOLEAN
          /\ fIgnoreCapsChange' \in BOOLEAN /\ limSentCapsChangeNtf' \in BOOLEAN
      BY <3>1, DetectorStep
    <3>. QED BY <3>1, <3>2, <3>3 DEF IInv, TypeOK
  <2>3. CASE ~BeaconAdmitted
    <3>1. UNCHANGED vars
      BY <2>1, <2>3 DEF RxFrame, vars, detector
    <3>. QED BY <3>1 DEF vars, IInv, TypeOK, DetectorFlagsConsistent
  <2>. QED BY <2>2, <2>3
<1>2. CASE ApReconfigure
  BY <1>2 DEF ApReconfigure, IInv, TypeOK, DetectorFlagsConsistent, detector
<1>3. CASE ProbeLost
  BY <1>3 DEF ProbeLost, IInv, TypeOK, DetectorFlagsConsistent, detector
<1>4. CASE SmeStateChange
  BY <1>4 DEF SmeStateChange, IInv, TypeOK, DetectorFlagsConsistent, detector
<1>5. CASE LimPsOffloadHandleMissedBeaconInd
  BY <1>5 DEF LimPsOffloadHandleMissedBeaconInd, IInv, TypeOK,
              DetectorFlagsConsistent, detector
<1>6. CASE LimHeartBeatTimeout
  BY <1>6 DEF LimHeartBeatTimeout, IInv, TypeOK, DetectorFlagsConsistent,
              detector
<1>7. CASE FwScanToggle
  BY <1>7 DEF FwScanToggle, IInv, TypeOK, DetectorFlagsConsistent, detector
<1>8. CASE UNCHANGED vars
  BY <1>8 DEF vars, IInv, TypeOK, DetectorFlagsConsistent
<1>. QED BY <1>1, <1>2, <1>3, <1>4, <1>5, <1>6, <1>7, <1>8 DEF Next

\* Type correctness of the model of the session's beacon reception.
THEOREM TypeCorrect == Spec => []TypeOK
<1>1. Spec => []IInv
  BY InitIInv, NextIInv, PTL DEF Spec
<1>. QED BY <1>1, PTL DEF IInv

\* For every channel set, encryption type and capability setting, the
\* capability-change detector of lim_detect_change_in_ap_capabilities never
\* waits for a probe response while ignoring changes, and never waits or
\* ignores after it has notified SME.
THEOREM DetectorFlagsAlwaysConsistent == Spec => []DetectorFlagsConsistent
<1>1. Spec => []IInv
  BY InitIInv, NextIInv, PTL DEF Spec
<1>. QED BY <1>1, PTL DEF IInv
====
