--------------------------- MODULE LimSendMessages ---------------------------
(***************************************************************************)
(* The outbound side of PE (src/core/mac/src/pe/lim/lim_send_messages.c):  *)
(* each lim_send_* / lim_set_* builder allocates a message body, fills it  *)
(* and posts it to WMA with wma_post_ctrl_msg; on a failed post it frees   *)
(* the body.  lim_send_switch_chnl_params in addition stops PE from        *)
(* processing deferred messages (SET_LIM_PROCESS_DEFD_MESGS(pMac, false))  *)
(* until WMA's WMA_SWITCH_CHANNEL_RSP comes back.  The active EDCA set     *)
(* that lim_set_active_edca_params computes in the same file is the        *)
(* EdcaResolver module, composed here by INSTANCE.                         *)
(*                                                                         *)
(* A message is its WMA type; a body is counted, not named.  WMA and the   *)
(* channel-switch response handler of PE are outside src/ and are modelled *)
(* from the spec.                                                          *)
(***************************************************************************)
EXTENDS Naturals, Sequences

CONSTANTS
    QMax             \* message wrappers of the CDS pool shared by the queues

ASSUME QMaxAssumption == QMax \in Nat \ {0}

VARIABLES
    acm, admitted, active,   \* the EDCA state of EdcaResolver
    gLimProcessDefdMsgs,     \* pMac->lim.gLimProcessDefdMsgs
    wmaQ,                    \* WMA's control queue: types of posted messages
    peQ,                     \* WMA's responses queued to PE
    msgBodies                \* message bodies allocated and not yet freed

Edca == INSTANCE EdcaResolver

edcaVars == <<acm, admitted, active>>
msgVars == <<gLimProcessDefdMsgs, wmaQ, peQ, msgBodies>>
vars == <<edcaVars, msgVars>>

ChnlSwitchReq == "WMA_CHNL_SWITCH_REQ"

MsgTypes == {"WMA_UPDATE_CF_IND", "WMA_UPDATE_BEACON_IND", ChnlSwitchReq,
             "WMA_UPDATE_EDCA_PROFILE_IND", "WMA_SET_LINK_STATE",
             "WMA_BEACON_FILTER_IND", "WMA_UPDATE_OP_MODE", "WMA_UPDATE_RX_NSS",
             "WMA_UPDATE_MEMBERSHIP", "WMA_UPDATE_USERPOS",
             "WMA_EXCLUDE_UNENCRYPTED_IND"}

InFlight == Len(wmaQ) + Len(peQ)

-----------------------------------------------------------------------------
(* The post-and-free step every builder ends with                          *)

\* Variant: the post does not need a free wrapper.
LimPostNoPoolCheck(type, postOk) ==
    \/ /\ postOk
       /\ wmaQ' = Append(wmaQ, type)
       /\ msgBodies' = msgBodies + 1
    \/ /\ ~postOk
       /\ UNCHANGED <<wmaQ, msgBodies>>

\* Variant: the body is not freed when the post fails.
LimPostLeaks(type, postOk) ==
    \/ /\ postOk /\ InFlight < QMax
       /\ wmaQ' = Append(wmaQ, type)
       /\ msgBodies' = msgBodies + 1
    \/ /\ ~(postOk /\ InFlight < QMax)
       /\ msgBodies' = msgBodies + 1
       /\ UNCHANGED wmaQ

\* retCode = wma_post_ctrl_msg(pMac, &msgQ); if it fails, cdf_mem_free(body).
\* The post fails when no wrapper of the shared pool is free, and may fail
\* for reasons the caller only sees as a status (postOk).
LimPost(type, postOk) ==
    \/ /\ postOk /\ InFlight < QMax
       /\ wmaQ' = Append(wmaQ, type)
       /\ msgBodies' = msgBodies + 1
    \/ /\ ~(postOk /\ InFlight < QMax)
       /\ UNCHANGED <<wmaQ, msgBodies>>

\* A builder whose only failure paths are the allocation (return
\* eSIR_MEM_ALLOC_FAILED, nothing allocated) and the post.
LimSendMsg(type, allocOk, postOk) ==
    \/ ~allocOk /\ UNCHANGED <<wmaQ, msgBodies>>
    \/ allocOk /\ LimPost(type, postOk)

-----------------------------------------------------------------------------
(* The builders.  Inputs: whether the session lookup succeeds, whether     *)
(* cdf_mem_malloc succeeds, whether the post succeeds.                     *)

LimSendCfParams(allocOk, postOk) ==
    LimSendMsg("WMA_UPDATE_CF_IND", allocOk, postOk)

\* The session is tested after the allocation: a NULL session frees the body.
LimSendBeaconParams(sessionOk, allocOk, postOk) ==
    \/ ~allocOk /\ UNCHANGED <<wmaQ, msgBodies>>
    \/ allocOk /\ ~sessionOk /\ UNCHANGED <<wmaQ, msgBodies>>
    \/ allocOk /\ sessionOk /\ LimPost("WMA_UPDATE_BEACON_IND", postOk)

\* Session lookup and allocation first; then deferred-message processing is
\* stopped until the response, and the request is posted.  A failed post
\* frees the body and returns eSIR_FAILURE.
LimSendSwitchChnlParams(sessionOk, allocOk, postOk) ==
    \/ /\ ~(sessionOk /\ allocOk)
       /\ UNCHANGED <<gLimProcessDefdMsgs, wmaQ, msgBodies>>
    \/ /\ sessionOk /\ allocOk
       /\ gLimProcessDefdMsgs' = FALSE
       /\ LimPost(ChnlSwitchReq, postOk)

LimSendEdcaParams(allocOk, postOk) ==
    LimSendMsg("WMA_UPDATE_EDCA_PROFILE_IND", allocOk, postOk)

LimSetLinkState(allocOk, postOk) ==
    LimSendMsg("WMA_SET_LINK_STATE", allocOk, postOk)

LimSetLinkStateFt(allocOk, postOk) ==
    LimSendMsg("WMA_SET_LINK_STATE", allocOk, postOk)

\* The session is tested before the allocation.
LimSendBeaconFilterInfo(sessionOk, allocOk, postOk) ==
    \/ ~sessionOk /\ UNCHANGED <<wmaQ, msgBodies>>
    \/ sessionOk /\ LimSendMsg("WMA_BEACON_FILTER_IND", allocOk, postOk)

LimSendModeUpdate(allocOk, postOk) ==
    LimSendMsg("WMA_UPDATE_OP_MODE", allocOk, postOk)

LimSendRxNssUpdate(allocOk, postOk) ==
    LimSendMsg("WMA_UPDATE_RX_NSS", allocOk, postOk)

LimSetMembership(allocOk, postOk) ==
    LimSendMsg("WMA_UPDATE_MEMBERSHIP", allocOk, postOk)

LimSetUserPos(allocOk, postOk) ==
    LimSendMsg("WMA_UPDATE_USERPOS", allocOk, postOk)

\* psessionEntry is dereferenced without a test; callers pass a session.
LimSendExcludeUnencryptInd(allocOk, postOk) ==
    LimSendMsg("WMA_EXCLUDE_UNENCRYPTED_IND", allocOk, postOk)

-----------------------------------------------------------------------------
(* Actions                                                                 *)

\* __lim_init_vars: deferred messages are processed; nothing is queued.
Init ==
    /\ Edca!Init
    /\ gLimProcessDefdMsgs = TRUE
    /\ wmaQ = <<>>
    /\ peQ = <<>>
    /\ msgBodies = 0

\* A new EDCA set or an ADDTS/DELTS: lim_set_active_edca_params.
EdcaUpdate ==
    /\ Edca!Next
    /\ UNCHANGED msgVars

\* PE runs one of the builders that leave deferred processing alone.
LimSend ==
    /\ \E sessionOk, allocOk, postOk \in BOOLEAN :
          \/ LimSendCfParams(allocOk, postOk)
          \/ LimSendBeaconParams(sessionOk, allocOk, postOk)
          \/ LimSendEdcaParams(allocOk, postOk)
          \/ LimSetLinkState(allocOk, postOk)
          \/ LimSetLinkStateFt(allocOk, postOk)
          \/ LimSendBeaconFilterInfo(sessionOk, allocOk, postOk)
          \/ LimSendModeUpdate(allocOk, postOk)
          \/ LimSendRxNssUpdate(allocOk, postOk)
          \/ LimSetMembership(allocOk, postOk)
          \/ LimSetUserPos(allocOk, postOk)
          \/ LimSendExcludeUnencryptInd(allocOk, postOk)
    /\ UNCHANGED <<gLimProcessDefdMsgs, peQ, edcaVars>>

\* PE starts a channel switch (lim_switch_primary_channel and the like).
LimSwitchChannel ==
    /\ \E sessionOk, allocOk, postOk \in BOOLEAN :
          LimSendSwitchChnlParams(sessionOk, allocOk, postOk)
    /\ UNCHANGED <<peQ, edcaVars>>

\* WMA's thread takes the oldest control message.  It answers a channel
\* switch with WMA_SWITCH_CHANNEL_RSP, which carries the same body back to
\* PE; any other body it frees.
WmaProcessCtrlMsg ==
    /\ wmaQ # <<>>
    /\ wmaQ' = Tail(wmaQ)
    /\ \/ /\ Head(wmaQ) = ChnlSwitchReq
          /\ peQ' = Append(peQ, "WMA_SWITCH_CHANNEL_RSP")
          /\ UNCHANGED msgBodies
       \/ /\ Head(wmaQ) # ChnlSwitchReq
          /\ msgBodies' = msgBodies - 1
          /\ UNCHANGED peQ
    /\ UNCHANGED <<gLimProcessDefdMsgs, edcaVars>>

\* PE handles the switch response (lim_process_switch_channel_rsp): it
\* resumes deferred-message processing and frees the body.
LimProcessSwitchChannelRsp ==
    /\ peQ # <<>>
    /\ peQ' = Tail(peQ)
    /\ gLimProcessDefdMsgs' = TRUE
    /\ msgBodies' = msgBodies - 1
    /\ UNCHANGED <<wmaQ, edcaVars>>

Next ==
    \/ EdcaUpdate
    \/ LimSend
    \/ LimSwitchChannel
    \/ WmaProcessCtrlMsg
    \/ LimProcessSwitchChannelRsp

Spec == Init /\ [][Next]_vars

\* WMA's and PE's threads keep draining their queues.
FairSpec == Spec /\ WF_vars(WmaProcessCtrlMsg) /\ WF_vars(LimProcessSwitchChannelRsp)

-----------------------------------------------------------------------------
(* Properties                                                              *)

TypeOK ==
    /\ Edca!TypeOK
    /\ gLimProcessDefdMsgs \in BOOLEAN
    /\ wmaQ \in Seq(MsgTypes)
    /\ peQ \in Seq({"WMA_SWITCH_CHANNEL_RSP"})
    /\ InFlight <= QMax
    /\ msgBodies \in Nat

\* The EDCA resolver's guarantee, in the composed system: every AC
\* transmits with parameters it may use without admission.
ActiveParamsUsable == Edca!ActiveParamsUsable

\* Spec 7(d): a failed post frees the body at once.  Every body a builder
\* allocated is owned by exactly one message in flight, WMA's queue or the
\* response to PE, whatever order the builders, the failures, WMA and the
\* responses come in: no builder path leaks one or frees one twice.
MsgBodiesOwned == msgBodies = InFlight

SwitchInFlight ==
    (\E i \in 1..Len(wmaQ) : wmaQ[i] = ChnlSwitchReq) \/ peQ # <<>>

====
