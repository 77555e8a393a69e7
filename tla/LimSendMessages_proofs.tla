----------------------- MODULE LimSendMessages_proofs -----------------------
(* Proofs about the message side of LimSendMessages for every pool size.   *)
EXTENDS LimSendMessages, TLAPS

RspType == "WMA_SWITCH_CHANNEL_RSP"

\* MsgBodiesOwned with the typing it needs and the pool bound that makes a
\* post fail instead of overrunning the queues.
MsgInv ==
    /\ gLimProcessDefdMsgs \in BOOLEAN
    /\ wmaQ \in Seq(MsgTypes)
    /\ peQ \in Seq({RspType})
    /\ InFlight <= QMax
    /\ MsgBodiesOwned

\* What every builder establishes about the message state it changes.
Kept == /\ wmaQ' \in Seq(MsgTypes)
        /\ Len(wmaQ') + Len(peQ) <= QMax
        /\ msgBodies' = Len(wmaQ') + Len(peQ)

\* The post step: on success a body is allocated and one more message is
\* queued, within the pool; on failure neither changes.
LEMMA PostKeeps ==
    ASSUME MsgInv, NEW t \in MsgTypes, NEW postOk \in BOOLEAN,
           LimPost(t, postOk)
    PROVE  Kept
<1>1. Len(wmaQ) \in Nat /\ Len(peQ) \in Nat
  BY DEF MsgInv
<1>2. CASE postOk /\ InFlight < QMax
  <2>1. wmaQ' = Append(wmaQ, t) /\ msgBodies' = msgBodies + 1
    BY <1>2 DEF LimPost
  <2>. QED BY <1>1, <1>2, <2>1, QMaxAssumption DEF MsgInv, MsgBodiesOwned, InFlight, Kept
<1>3. CASE ~(postOk /\ InFlight < QMax)
  <2>1. UNCHANGED <<wmaQ, msgBodies>>
    BY <1>3 DEF LimPost
  <2>. QED BY <1>1, <2>1 DEF MsgInv, MsgBodiesOwned, InFlight, Kept
<1>. QED BY <1>2, <1>3

\* A builder that only allocates and posts: a failed allocation changes
\* nothing.
LEMMA SendMsgKeeps ==
    ASSUME MsgInv, NEW t \in MsgTypes, NEW allocOk \in BOOLEAN,
           NEW postOk \in BOOLEAN, LimSendMsg(t, allocOk, postOk)
    PROVE  Kept
<1>1. CASE UNCHANGED <<wmaQ, msgBodies>>
  BY <1>1 DEF MsgInv, MsgBodiesOwned, InFlight, Kept
<1>2. CASE LimPost(t, postOk)
  BY <1>2, PostKeeps
<1>. QED BY <1>1, <1>2 DEF LimSendMsg

LEMMA InitMsgInv == Init => MsgInv
BY QMaxAssumption DEF Init, MsgInv, MsgBodiesOwned, InFlight

LEMMA NextMsgInv == MsgInv /\ [Next]_vars => MsgInv'
<1> SUFFICES ASSUME MsgInv, [Next]_vars PROVE MsgInv'
  OBVIOUS
<1>1. CASE EdcaUpdate
  BY <1>1 DEF EdcaUpdate, msgVars, MsgInv, MsgBodiesOwned, InFlight
<1>2. CASE LimSend
  <2>1. PICK sessionOk, allocOk, postOk \in BOOLEAN :
          \/ LimSendCfParams(allocOk, postOk)
          \/ LimSendBeaconParams(sessionOk, allocOk, postOk)
          \/ LimSendEdcaParams(allocOk, postOk)
          \/ LimSetLinkState(allocOk, postOk)
          \/ LimSetLinkStateFt(allocOk, postOk)
          \/ LimSendBeaconFilterInfo(sessionOk, allocOk, postOk)
          \/ LimSendModeUpdate(allocOk, postOk)
          \/ LimSendRxNssUpdate(allocOk, postOk)
          \/ LimSetMembership(allocOk, postOk)
          \/ LimSetUserPos(allocOk, postOk)
          \/ LimSendExcludeUnencryptInd(allocOk, postOk)
    BY <1>2 DEF LimSend
  <2>2. UNCHANGED <<gLimProcessDefdMsgs, peQ>>
    BY <1>2 DEF LimSend
  <2>3. Kept
    <3>1. CASE \/ UNCHANGED <<wmaQ, msgBodies>>
               \/ LimPost("WMA_UPDATE_BEACON_IND", postOk)
      BY <3>1, PostKeeps DEF MsgInv, MsgBodiesOwned, InFlight, Kept, MsgTypes
    <3>2. CASE \E t \in MsgTypes : LimSendMsg(t, allocOk, postOk)
      BY <3>2, SendMsgKeeps
    <3>. QED
      BY <2>1, <3>1, <3>2
      DEF LimSendCfParams, LimSendBeaconParams, LimSendEdcaParams,
          LimSetLinkState, LimSetLinkStateFt, LimSendBeaconFilterInfo,
          LimSendModeUpdate, LimSendRxNssUpdate, LimSetMembership,
          LimSetUserPos, LimSendExcludeUnencryptInd, MsgTypes
  <2>. QED BY <2>2, <2>3 DEF MsgInv, MsgBodiesOwned, InFlight, Kept
<1>3. CASE LimSwitchChannel
  <2>1. PICK sessionOk, allocOk, postOk \in BOOLEAN :
          LimSendSwitchChnlParams(sessionOk, allocOk, postOk)
    BY <1>3 DEF LimSwitchChannel
  <2>2. UNCHANGED peQ /\ gLimProcessDefdMsgs' \in BOOLEAN
    BY <1>3, <2>1 DEF LimSwitchChannel, LimSendSwitchChnlParams, MsgInv
  <2>3. Kept
    <3>1. CASE UNCHANGED <<wmaQ, msgBodies>>
      BY <3>1 DEF MsgInv, MsgBodiesOwned, InFlight, Kept
    <3>2. CASE LimPost(ChnlSwitchReq, postOk)
      BY <3>2, PostKeeps DEF MsgTypes
    <3>. QED BY <2>1, <3>1, <3>2 DEF LimSendSwitchChnlParams
  <2>. QED BY <2>2, <2>3 DEF MsgInv, MsgBodiesOwned, InFlight, Kept
<1>4. CASE WmaProcessCtrlMsg
  <2>1. wmaQ # <<>> /\ wmaQ' = Tail(wmaQ) /\ Head(wmaQ) \in MsgTypes
        /\ Tail(wmaQ) \in Seq(MsgTypes) /\ Len(Tail(wmaQ)) = Len(wmaQ) - 1
    BY <1>4 DEF WmaProcessCtrlMsg, MsgInv
  <2>2. CASE Head(wmaQ) = ChnlSwitchReq
    <3>1. peQ' = Append(peQ, RspType) /\ UNCHANGED <<msgBodies, gLimProcessDefdMsgs>>
      BY <1>4, <2>2 DEF WmaProcessCtrlMsg, RspType
    <3>. QED BY <2>1, <3>1, QMaxAssumption DEF MsgInv, MsgBodiesOwned, InFlight
  <2>3. CASE Head(wmaQ) # ChnlSwitchReq
    <3>1. msgBodies' = msgBodies - 1 /\ UNCHANGED <<peQ, gLimProcessDefdMsgs>>
      BY <1>4, <2>3 DEF WmaProcessCtrlMsg
    <3>. QED BY <2>1, <3>1, QMaxAssumption DEF MsgInv, MsgBodiesOwned, InFlight
  <2>. QED BY <2>2, <2>3
<1>5. CASE LimProcessSwitchChannelRsp
  <2>1. peQ # <<>> /\ peQ' = Tail(peQ) /\ Tail(peQ) \in Seq({RspType})
        /\ Len(Tail(peQ)) = Len(peQ) - 1
    BY <1>5 DEF LimProcessSwitchChannelRsp, MsgInv
  <2>2. gLimProcessDefdMsgs' = TRUE /\ msgBodies' = msgBodies - 1 /\ UNCHANGED wmaQ
    BY <1>5 DEF LimProcessSwitchChannelRsp
  <2>. QED BY <2>1, <2>2, QMaxAssumption DEF MsgInv, MsgBodiesOwned, InFlight
<1>6. CASE UNCHANGED vars
  BY <1>6 DEF vars, msgVars, MsgInv, MsgBodiesOwned, InFlight
<1>. QED BY <1>1, <1>2, <1>3, <1>4, <1>5, <1>6 DEF Next

\* Spec 7(d), for every size of the wrapper pool: whatever order the
\* builders, their allocation and post failures, WMA's thread and PE's
\* switch-response handler run in, every allocated message body is owned by
\* exactly one message in flight.
THEOREM BodiesOwned == Spec => []MsgBodiesOwned
<1>1. MsgInv => MsgBodiesOwned
  BY DEF MsgInv
<1>. QED BY InitMsgInv, NextMsgInv, <1>1, PTL DEF Spec

-----------------------------------------------------------------------------
(* The composed EDCA resolver                                              *)

EP == INSTANCE EdcaResolver_proofs

\* Every step of the composed system is a step of the EDCA resolver or
\* leaves its state alone: only lim_set_active_edca_params writes it.
LEMMA EdcaStep == [Next]_vars => [Edca!Next]_edcaVars
BY DEF Next, vars, edcaVars, EdcaUpdate, LimSend, LimSwitchChannel,
       WmaProcessCtrlMsg, LimProcessSwitchChannelRsp

\* EP!X and Edca!X are the same definitions of EdcaResolver reached along
\* two instantiations; the provers see two names, so they are identified here.
LEMMA SameEdca ==
  /\ EP!ACs = Edca!ACs
  /\ EP!BE = Edca!BE
  /\ \A a, adm : EP!LimSetActiveEdcaParams(a, adm) = Edca!LimSetActiveEdcaParams(a, adm)
  /\ EP!Init <=> Edca!Init
  /\ EP!Next <=> Edca!Next
  /\ EP!TypeOK <=> Edca!TypeOK
  /\ EP!ActiveParamsUsable <=> Edca!ActiveParamsUsable
  /\ EP!vars = edcaVars
<1>1. EP!ACs = Edca!ACs /\ EP!BE = Edca!BE
  BY DEF EP!ACs, Edca!ACs, EP!BE, Edca!BE, EP!BK, Edca!BK, EP!VI, Edca!VI,
         EP!VO, Edca!VO
<1>2. \A a, adm : EP!LimSetActiveEdcaParams(a, adm) = Edca!LimSetActiveEdcaParams(a, adm)
  BY <1>1 DEF EP!LimSetActiveEdcaParams, Edca!LimSetActiveEdcaParams,
              EP!NeedsDowngrade, Edca!NeedsDowngrade, EP!DowngradeTarget,
              Edca!DowngradeTarget
<1>3. EP!Init <=> Edca!Init
  BY <1>1 DEF EP!Init, Edca!Init
<1>4. EP!Next <=> Edca!Next
  BY <1>1, <1>2 DEF EP!Next, Edca!Next, EP!NewEdcaParams, Edca!NewEdcaParams,
                    EP!AdmissionChange, Edca!AdmissionChange
<1>5. EP!TypeOK <=> Edca!TypeOK
  BY <1>1 DEF EP!TypeOK, Edca!TypeOK
<1>6. EP!ActiveParamsUsable <=> Edca!ActiveParamsUsable
  BY <1>1 DEF EP!ActiveParamsUsable, Edca!ActiveParamsUsable
<1>7. EP!vars = edcaVars
  BY DEF EP!vars, edcaVars
<1>. QED BY <1>1, <1>2, <1>3, <1>4, <1>5, <1>6, <1>7

LInv == MsgInv /\ EP!EInv

LEMMA InitLInv == Init => LInv
<1> SUFFICES ASSUME Init PROVE LInv
  OBVIOUS
<1>1. EP!Init
  BY SameEdca DEF Init
<1>. QED BY <1>1, InitMsgInv, EP!InitEInv DEF LInv

LEMMA NextLInv == LInv /\ [Next]_vars => LInv'
<1> SUFFICES ASSUME LInv, [Next]_vars PROVE LInv'
  OBVIOUS
<1>1. [Edca!Next]_edcaVars
  BY EdcaStep
<1>2. [EP!Next]_(EP!vars)
  <2>1. CASE Edca!Next
    BY <2>1, SameEdca
  <2>2. CASE UNCHANGED edcaVars
    BY <2>2 DEF edcaVars, EP!vars
  <2>. QED BY <1>1, <2>1, <2>2
<1>3. EP!EInv'
  BY <1>2, EP!NextEInv DEF LInv
<1>. QED BY <1>3, NextMsgInv DEF LInv

\* The composed system keeps its types for every wrapper-pool size: the
\* queues hold message types, at most QMax messages are in flight and the
\* EDCA state is well formed.
THEOREM TypeCorrect == Spec => []TypeOK
<1>1. LInv => TypeOK
  <2> SUFFICES ASSUME LInv PROVE TypeOK
    OBVIOUS
  <2>1. Edca!TypeOK
    BY SameEdca DEF LInv, EP!EInv
  <2>2. msgBodies \in Nat
    BY DEF LInv, MsgInv, MsgBodiesOwned, InFlight
  <2>. QED BY <2>1, <2>2 DEF LInv, MsgInv, TypeOK, RspType
<1>. QED BY InitLInv, NextLInv, <1>1, PTL DEF Spec

\* Interleaved with every builder, WMA and the switch response, the active
\* EDCA set lim_set_active_edca_params computes stays usable: no AC
\* transmits with parameters its ACM bit forbids it without admission.
THEOREM EdcaParamsUsable == Spec => []ActiveParamsUsable
<1>1. LInv => ActiveParamsUsable
  BY EP!EInvUsable, SameEdca DEF LInv, ActiveParamsUsable
<1>. QED BY InitLInv, NextLInv, <1>1, PTL DEF Spec
====
