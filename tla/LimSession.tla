------------------------------- MODULE LimSession -------------------------------
(***************************************************************************)
(* PE's lifecycle and its session table (src/core/mac/src/pe/lim/lim_api.c):*)
(* pe_open / pe_start (lim_initialize, lim_start) / pe_stop (lim_cleanup) / *)
(* pe_close, and the LFR3 roam-synch indication (lim_roam_offload_synch_ind *)
(* with lim_roam_fill_bss_descr), which builds a BSS descriptor out of the  *)
(* firmware's beacon, creates a session for the new AP and hands the       *)
(* descriptor to SME, whose handler frees it.                              *)
(*                                                                         *)
(* The session table is gpSession[0..maxBssId-1], a slot per element of    *)
(* Slots.  pe_create_session and pe_delete_session, the SME state changes  *)
(* of association and scan, and SME's processing of the forwarded          *)
(* indication are outside src/ and are environment actions.  Heap blocks   *)
(* are counted, not named: parsedFrm is a tSirProbeRespBeacon of           *)
(* lim_roam_fill_bss_descr still allocated after it returned, bssDescs the *)
(* live descriptors, smePending the indications queued to SME.             *)
(***************************************************************************)
EXTENDS Naturals, FiniteSets

CONSTANTS
    MaxBssId,     \* pMacOpenParam->maxBssId
    BSSIDs,       \* the APs a roam can go to
    MaxPending    \* bound on queued indications, live descriptors, leaked frames

ASSUME MaxBssIdAssumption == MaxBssId \in Nat \ {0}
ASSUME BSSIDsAssumption == BSSIDs # {} /\ "none" \notin BSSIDs
ASSUME MaxPendingAssumption == MaxPending \in Nat \ {0}

Slots == 0..(MaxBssId - 1)

\* tLimSmeStates, reduced to the states this part of PE sets or reads.
SmeStates == {"OFFLINE", "IDLE", "LINK_EST", "WT_REASSOC"}

\* A session slot: gpSession[i].valid, limSystemRole, limSmeState,
\* bRoamSynchInProgress and limReAssocbssId ("none" before any roam).
Session == [valid : BOOLEAN, role : {"STA", "AP"}, limSmeState : SmeStates,
            bRoamSynchInProgress : BOOLEAN, limReAssocbssId : BSSIDs \cup {"none"}]

FreeSlot == [valid |-> FALSE, role |-> "STA", limSmeState |-> "OFFLINE",
             bRoamSynchInProgress |-> FALSE, limReAssocbssId |-> "none"]

VARIABLES
    peOpen,            \* pe_open succeeded and pe_close has not run
    peStarted,         \* pe_start succeeded and pe_stop has not run
    gpLimCnfWaitTimer, \* allocated
    gpSession,         \* allocated
    lkPeGlobalLock,    \* initialized
    gLimSmeState,
    gLimMlmState,
    gLimTimersCreated, \* lim_init_mlm has run and lim_cleanup_mlm has not
    session,           \* the session table, Slots -> Session
    parsedFrm,         \* leaked tSirProbeRespBeacon blocks
    bssDescs,          \* live tSirBssDescription blocks
    smePending         \* eWNI_SME_ROAM_OFFLOAD_SYNCH_IND queued to SME

vars == <<peOpen, peStarted, gpLimCnfWaitTimer, gpSession, lkPeGlobalLock,
          gLimSmeState, gLimMlmState, gLimTimersCreated, session, parsedFrm,
          bssDescs, smePending>>

ValidSlots == {i \in Slots : session[i].valid}

-----------------------------------------------------------------------------
(* pe_open / pe_close                                                       *)

\* Variant: a failed mutex init jumps to pe_open_psession_fail.
PeOpenLockFailWrongLabel(paramsOk, timerOk, sessOk, lockOk) ==
    /\ peOpen' = (paramsOk /\ timerOk /\ sessOk /\ lockOk)
    /\ gpLimCnfWaitTimer' = (paramsOk /\ timerOk /\ (sessOk => lockOk))
    /\ gpSession' = (paramsOk /\ timerOk /\ sessOk)
    /\ lkPeGlobalLock' = peOpen'

\* pe_open with the outcomes of its checks and allocations: maxBssId and
\* maxStation non-zero, the CNF-wait timer array, the session table, the
\* PE global lock; each failure frees what was allocated before it.
PeOpenResult(paramsOk, timerOk, sessOk, lockOk) ==
    /\ peOpen' = (paramsOk /\ timerOk /\ sessOk /\ lockOk)
    /\ gpLimCnfWaitTimer' = peOpen'
    /\ gpSession' = peOpen'
    /\ lkPeGlobalLock' = peOpen'

PeOpen ==
    /\ ~peOpen
    /\ \E paramsOk, timerOk, sessOk, lockOk \in BOOLEAN :
          PeOpenResult(paramsOk, timerOk, sessOk, lockOk)
    /\ session' = [i \in Slots |-> FreeSlot]       \* cdf_mem_set(gpSession, 0)
    /\ UNCHANGED <<peStarted, gLimSmeState, gLimMlmState, gLimTimersCreated,
                   parsedFrm, bssDescs, smePending>>

\* Variant: the delete loop stops one slot short (i < maxBssId - 1).
PeCloseSkipsLastSlot ==
    /\ peOpen /\ ~peStarted
    /\ session' = [i \in Slots |-> IF i = MaxBssId - 1 THEN session[i] ELSE FreeSlot]
    /\ peOpen' = FALSE
    /\ gpLimCnfWaitTimer' = FALSE
    /\ gpSession' = FALSE
    /\ lkPeGlobalLock' = FALSE
    /\ UNCHANGED <<peStarted, gLimSmeState, gLimMlmState, gLimTimersCreated,
                   parsedFrm, bssDescs, smePending>>

\* pe_close: every valid session is deleted, the tables are freed and the
\* lock destroyed.
PeClose ==
    /\ peOpen /\ ~peStarted
    /\ session' = [i \in Slots |-> FreeSlot]
    /\ peOpen' = FALSE
    /\ gpLimCnfWaitTimer' = FALSE
    /\ gpSession' = FALSE
    /\ lkPeGlobalLock' = FALSE
    /\ UNCHANGED <<peStarted, gLimSmeState, gLimMlmState, gLimTimersCreated,
                   parsedFrm, bssDescs, smePending>>

-----------------------------------------------------------------------------
(* pe_start / pe_stop                                                       *)

\* __lim_init_states: gLimSmeState becomes OFFLINE, gLimMlmState IDLE.
LimInitStates == [sme |-> "OFFLINE", mlm |-> "IDLE"]

\* lim_start from SME state s: from OFFLINE, SME goes IDLE and lim_init_mlm
\* creates the MLM timers; in any other state it logs "Invalid SME state"
\* and fails, leaving the state as it is.
LimStart(s) ==
    IF s = "OFFLINE" THEN [ok |-> TRUE, sme |-> "IDLE"]
                     ELSE [ok |-> FALSE, sme |-> s]

\* pe_start -> lim_initialize: __lim_init_states, then lim_start; if
\* __lim_init_config then fails (configOk false), lim_cleanup_mlm undoes
\* lim_init_mlm and pe_start fails.
PeStart ==
    /\ peOpen /\ ~peStarted
    /\ \E configOk \in BOOLEAN :
        LET st == LimStart(LimInitStates.sme)
        IN  /\ gLimSmeState' = st.sme
            /\ gLimMlmState' = LimInitStates.mlm
            /\ gLimTimersCreated' = (st.ok /\ configOk)
            /\ peStarted' = (st.ok /\ configOk)
    /\ UNCHANGED <<peOpen, gpLimCnfWaitTimer, gpSession, lkPeGlobalLock,
                   session, parsedFrm, bssDescs, smePending>>

\* lim_cleanup: the registration queue, lim_cleanup_mlm (the MLM timers),
\* lim_cleanup_lmm and the PE request buffers are released; neither the
\* session table nor gLimSmeState is touched.
LimCleanup == gLimTimersCreated' = FALSE

\* pe_stop: lim_cleanup, then MLM goes OFFLINE.
PeStop ==
    /\ peStarted
    /\ peStarted' = FALSE
    /\ LimCleanup
    /\ gLimMlmState' = "OFFLINE"
    /\ UNCHANGED <<peOpen, gpLimCnfWaitTimer, gpSession, lkPeGlobalLock,
                   gLimSmeState, session, parsedFrm, bssDescs, smePending>>

-----------------------------------------------------------------------------
(* lim_roam_offload_synch_ind                                              *)

\* lim_roam_fill_bss_descr with the outcomes of its allocations and checks:
\* the parsed-frame buffer, beaconProbeRespLength > SIR_MAC_HDR_LEN_3A, the
\* beacon/probe parse with an SSID, the descriptor.  ok is its success;
\* leak that the parsed frame is not freed on its way out.
LimRoamFillBssDescr(allocParsed, lenOk, parseOk, allocDesc, ok, leak) ==
    /\ ok = (allocParsed /\ lenOk /\ parseOk /\ allocDesc)
    /\ leak = (allocParsed /\ lenOk /\ parseOk /\ ~allocDesc)

\* The FT session pe_create_session gives and the handler fills in.
FtSession(bssid) ==
    [valid |-> TRUE, role |-> "STA", limSmeState |-> "WT_REASSOC",
     bRoamSynchInProgress |-> TRUE, limReAssocbssId |-> bssid]

\* Variant: the free-slot search runs one past the table (i <= maxBssId)
\* and writes the FT session into gpSession[maxBssId].
RoamCreateFtSessionPastEnd(vdev, bssid) ==
    /\ session' = [i \in Slots \cup {MaxBssId} |->
                     IF i = MaxBssId THEN FtSession(bssid)
                     ELSE IF i = vdev THEN [session[i] EXCEPT !.limReAssocbssId = bssid]
                     ELSE session[i]]
    /\ smePending' = smePending + 1

\* Variant: the old session's limReAssocbssId is updated before the FT
\* session is created.
RoamCreateFtSessionUpdatesFirst(vdev, bssid) ==
    IF ValidSlots = Slots
    THEN /\ session' = [session EXCEPT ![vdev].limReAssocbssId = bssid]
         /\ UNCHANGED smePending
    ELSE \E j \in Slots \ ValidSlots :
            /\ session' = [session EXCEPT ![j] = FtSession(bssid),
                                          ![vdev].limReAssocbssId = bssid]
            /\ smePending' = smePending + 1

\* From pe_create_session on: with no free slot the handler returns; else
\* the FT session is set up (STA role, bRoamSynchInProgress, SME state
\* WT_REASSOC), the old session's limReAssocbssId becomes the new BSSID and
\* the indication, descriptor included, goes to SME.
RoamCreateFtSession(vdev, bssid) ==
    IF ValidSlots = Slots
    THEN UNCHANGED <<session, smePending>>
    ELSE \E j \in Slots \ ValidSlots :
            /\ session' = [session EXCEPT ![j] = FtSession(bssid),
                                          ![vdev].limReAssocbssId = bssid]
            /\ smePending' = smePending + 1

\* WMA_ROAM_OFFLOAD_SYNCH_IND for vdev reaches PE.
LimRoamOffloadSynchInd ==
    /\ peStarted
    /\ bssDescs < MaxPending /\ smePending < MaxPending /\ parsedFrm < MaxPending
    /\ \E vdev \in Slots, bssid \in BSSIDs :
        \/ /\ ~(session[vdev].valid /\ session[vdev].role = "STA")
           /\ UNCHANGED <<session, parsedFrm, bssDescs, smePending>>
        \/ /\ session[vdev].valid /\ session[vdev].role = "STA"
           /\ \E allocParsed, lenOk, parseOk, allocDesc, ok, leak \in BOOLEAN :
                /\ LimRoamFillBssDescr(allocParsed, lenOk, parseOk, allocDesc,
                                       ok, leak)
                /\ parsedFrm' = IF leak THEN parsedFrm + 1 ELSE parsedFrm
                /\ IF ok THEN /\ bssDescs' = bssDescs + 1
                              /\ RoamCreateFtSession(vdev, bssid)
                         ELSE UNCHANGED <<session, bssDescs, smePending>>
    /\ UNCHANGED <<peOpen, peStarted, gpLimCnfWaitTimer, gpSession,
                   lkPeGlobalLock, gLimSmeState, gLimMlmState,
                   gLimTimersCreated>>

-----------------------------------------------------------------------------
(* Environment: SME and the rest of PE                                     *)

\* pe_create_session for an association or a BSS start.
PeCreateSession ==
    /\ peStarted
    /\ \E j \in Slots \ ValidSlots, role \in {"STA", "AP"} :
         session' = [session EXCEPT ![j] = [FreeSlot EXCEPT !.valid = TRUE,
                                            !.role = role, !.limSmeState = "IDLE"]]
    /\ UNCHANGED <<peOpen, peStarted, gpLimCnfWaitTimer, gpSession,
                   lkPeGlobalLock, gLimSmeState, gLimMlmState,
                   gLimTimersCreated, parsedFrm, bssDescs, smePending>>

\* A session's association (or the reassociation after a roam) completes.
SessionLinkEstablished ==
    /\ peStarted
    /\ \E j \in ValidSlots :
         session' = [session EXCEPT ![j].limSmeState = "LINK_EST",
                                    ![j].bRoamSynchInProgress = FALSE]
    /\ UNCHANGED <<peOpen, peStarted, gpLimCnfWaitTimer, gpSession,
                   lkPeGlobalLock, gLimSmeState, gLimMlmState,
                   gLimTimersCreated, parsedFrm, bssDescs, smePending>>

\* pe_delete_session (disassociation, BSS stop, the old session after a roam).
PeDeleteSession ==
    /\ peStarted
    /\ \E j \in ValidSlots : session' = [session EXCEPT ![j] = FreeSlot]
    /\ UNCHANGED <<peOpen, peStarted, gpLimCnfWaitTimer, gpSession,
                   lkPeGlobalLock, gLimSmeState, gLimMlmState,
                   gLimTimersCreated, parsedFrm, bssDescs, smePending>>

\* SME runs eWNI_SME_ROAM_OFFLOAD_SYNCH_IND and frees its descriptor.
SmeProcessRoamSynch ==
    /\ smePending > 0 /\ bssDescs > 0
    /\ smePending' = smePending - 1
    /\ bssDescs' = bssDescs - 1
    /\ UNCHANGED <<peOpen, peStarted, gpLimCnfWaitTimer, gpSession,
                   lkPeGlobalLock, gLimSmeState, gLimMlmState,
                   gLimTimersCreated, session, parsedFrm>>

\* The global SME state follows scans and connections.
SmeStateChange ==
    /\ peStarted
    /\ gLimSmeState' \in {"IDLE", "LINK_EST"}
    /\ UNCHANGED <<peOpen, peStarted, gpLimCnfWaitTimer, gpSession,
                   lkPeGlobalLock, gLimMlmState, gLimTimersCreated, session,
                   parsedFrm, bssDescs, smePending>>

-----------------------------------------------------------------------------

\* Before pe_open: pMac is zeroed, so both states are their 0 value, OFFLINE.
Init ==
    /\ peOpen = FALSE
    /\ peStarted = FALSE
    /\ gpLimCnfWaitTimer = FALSE
    /\ gpSession = FALSE
    /\ lkPeGlobalLock = FALSE
    /\ gLimSmeState = "OFFLINE"
    /\ gLimMlmState = "OFFLINE"
    /\ gLimTimersCreated = FALSE
    /\ session = [i \in Slots |-> FreeSlot]
    /\ parsedFrm = 0
    /\ bssDescs = 0
    /\ smePending = 0

Next ==
    \/ PeOpen
    \/ PeClose
    \/ PeStart
    \/ PeStop
    \/ LimRoamOffloadSynchInd
    \/ PeCreateSession
    \/ SessionLinkEstablished
    \/ PeDeleteSession
    \/ SmeProcessRoamSynch
    \/ SmeStateChange

Spec == Init /\ [][Next]_vars

-----------------------------------------------------------------------------
(* Properties                                                              *)

TypeOK ==
    /\ peOpen \in BOOLEAN
    /\ peStarted \in BOOLEAN
    /\ gpLimCnfWaitTimer \in BOOLEAN
    /\ gpSession \in BOOLEAN
    /\ lkPeGlobalLock \in BOOLEAN
    /\ gLimSmeState \in SmeStates
    /\ gLimMlmState \in {"OFFLINE", "IDLE"}
    /\ gLimTimersCreated \in BOOLEAN
    /\ session \in [Slots -> Session]
    /\ parsedFrm \in Nat
    /\ bssDescs \in Nat
    /\ smePending \in Nat

\* pe_open releases on each failure what it had allocated, and pe_close
\* deletes every session and releases everything: whenever PE is not open,
\* no PE table or lock is held and no session is valid.
ClosedMeansClean ==
    ~peOpen => /\ ~gpLimCnfWaitTimer /\ ~gpSession /\ ~lkPeGlobalLock
               /\ ValidSlots = {}

\* Spec 4.6 and 8 (roam-synch scenario): a roam-synch indication either
\* leaves the session table as it was, or creates exactly one new session,
\* for the new AP, in STA role with bRoamSynchInProgress and SME state
\* WT_REASSOC, and changes nothing else but the old STA session's
\* limReAssocbssId; the indication is handed to SME exactly when a session
\* was created.
RoamSynchAllOrNothing ==
    [][ LimRoamOffloadSynchInd =>
          \/ session' = session /\ smePending' = smePending
          \/ \E j \in Slots \ ValidSlots, v \in ValidSlots, b \in BSSIDs :
                /\ session[v].role = "STA"
                /\ session' = [session EXCEPT ![j] = FtSession(b),
                                              ![v].limReAssocbssId = b]
                /\ smePending' = smePending + 1 ]_vars

\* Spec 7(a): a failed allocation aborts the operation and leaves nothing
\* behind; lim_roam_fill_bss_descr frees its parsed-frame buffer on every
\* path.
ParsedFrameFreed == parsedFrm = 0

\* The refinement mapping to the abstract lifecycle: PE's phase is read off
\* the pe_open / pe_start outcomes, its sessions are the valid slots.
pePhase == IF peStarted THEN "started" ELSE IF peOpen THEN "open" ELSE "closed"

PL == INSTANCE PeLifecycle WITH pe <- pePhase, sessions <- ValidSlots

\* Spec 4.6: PE's lifecycle as its callers see it.  Every step of the
\* handlers and of the environment is a step of PeLifecycle or leaves the
\* phase and the valid sessions alone: pe_open starts from an empty table,
\* sessions are created and deleted only while PE is started and one at a
\* time (a roam synch included), pe_stop keeps them and pe_close ends them.
PeLifecycleSpec == PL!Spec

====
