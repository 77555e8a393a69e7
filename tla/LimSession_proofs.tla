-------------------------- MODULE LimSession_proofs --------------------------
(* Proofs about LimSession for every table size, set of APs and bound.     *)
EXTENDS LimSession, TLAPS

\* ClosedMeansClean is not inductive alone: a session could be created, or
\* a roam synch add one, while PE is closed.  Every action that touches the
\* session table needs peStarted, and pe_start needs peOpen, so PE is open
\* whenever it is started.
StartedMeansOpen == peStarted => peOpen

IInv == TypeOK /\ ClosedMeansClean /\ StartedMeansOpen

\* The FT session the roam-synch handler fills in is a session record.
LEMMA FtSessionType ==
    ASSUME NEW b \in BSSIDs
    PROVE  FtSession(b) \in Session
BY DEF FtSession, Session, SmeStates

\* The free slot pe_open's cdf_mem_set leaves is a session record.
LEMMA FreeSlotType == FreeSlot \in Session
BY DEF FreeSlot, Session, SmeStates

LEMMA InitIInv == Init => IInv
<1> SUFFICES ASSUME Init PROVE IInv
  OBVIOUS
<1>1. session \in [Slots -> Session]
  BY FreeSlotType DEF Init
<1>2. ValidSlots = {}
  BY DEF Init, ValidSlots, FreeSlot
<1>. QED BY <1>1, <1>2 DEF Init, IInv, TypeOK, ClosedMeansClean, StartedMeansOpen,
                           SmeStates

\* lim_roam_offload_synch_ind keeps the table typed and the counters
\* natural numbers.
LEMMA RoamSynchType ==
    ASSUME TypeOK, LimRoamOffloadSynchInd
    PROVE  /\ session' \in [Slots -> Session]
           /\ parsedFrm' \in Nat /\ bssDescs' \in Nat /\ smePending' \in Nat
<1> PICK vdev \in Slots, bssid \in BSSIDs :
      \/ /\ ~(session[vdev].valid /\ session[vdev].role = "STA")
         /\ UNCHANGED <<session, parsedFrm, bssDescs, smePending>>
      \/ /\ session[vdev].valid /\ session[vdev].role = "STA"
         /\ \E allocParsed, lenOk, parseOk, allocDesc, ok, leak \in BOOLEAN :
              /\ LimRoamFillBssDescr(allocParsed, lenOk, parseOk, allocDesc, ok, leak)
              /\ parsedFrm' = IF leak THEN parsedFrm + 1 ELSE parsedFrm
              /\ IF ok THEN /\ bssDescs' = bssDescs + 1
                            /\ RoamCreateFtSession(vdev, bssid)
                       ELSE UNCHANGED <<session, bssDescs, smePending>>
  BY DEF LimRoamOffloadSynchInd
<1>1. FtSession(bssid) \in Session
  BY FtSessionType
<1>2. RoamCreateFtSession(vdev, bssid) =>
        session' \in [Slots -> Session] /\ smePending' \in Nat
  BY <1>1 DEF RoamCreateFtSession, TypeOK, Session
<1>. QED BY <1>2 DEF TypeOK

LEMMA NextIInv == IInv /\ [Next]_vars => IInv'
<1> SUFFICES ASSUME IInv, [Next]_vars PROVE IInv'
  OBVIOUS
<1>1. CASE PeOpen
  <2>1. PICK paramsOk, timerOk, sessOk, lockOk \in BOOLEAN :
          PeOpenResult(paramsOk, timerOk, sessOk, lockOk)
    BY <1>1 DEF PeOpen
  <2>2. session' \in [Slots -> Session] /\ ValidSlots' = {}
    BY <1>1, FreeSlotType DEF PeOpen, ValidSlots, FreeSlot
  <2>. QED BY <1>1, <2>1, <2>2 DEF PeOpen, PeOpenResult, IInv, TypeOK,
                                   ClosedMeansClean, StartedMeansOpen
<1>2. CASE PeClose
  <2>1. session' \in [Slots -> Session] /\ ValidSlots' = {}
    BY <1>2, FreeSlotType DEF PeClose, ValidSlots, FreeSlot
  <2>. QED BY <1>2, <2>1 DEF PeClose, IInv, TypeOK, ClosedMeansClean,
                             StartedMeansOpen
<1>3. CASE PeStart
  BY <1>3 DEF PeStart, LimStart, LimInitStates, IInv, TypeOK,
              ClosedMeansClean, StartedMeansOpen, ValidSlots, SmeStates
<1>4. CASE PeStop
  BY <1>4 DEF PeStop, LimCleanup, IInv, TypeOK, ClosedMeansClean,
              StartedMeansOpen, ValidSlots
<1>5. CASE LimRoamOffloadSynchInd
  <2>1. session' \in [Slots -> Session]
        /\ parsedFrm' \in Nat /\ bssDescs' \in Nat /\ smePending' \in Nat
    BY <1>5, RoamSynchType DEF IInv
  <2>2. peOpen /\ UNCHANGED <<peOpen, peStarted, gpLimCnfWaitTimer, gpSession,
                              lkPeGlobalLock, gLimSmeState, gLimMlmState,
                              gLimTimersCreated>>
    BY <1>5 DEF LimRoamOffloadSynchInd, IInv, StartedMeansOpen
  <2>. QED BY <2>1, <2>2 DEF IInv, TypeOK, ClosedMeansClean, StartedMeansOpen
<1>6. CASE PeCreateSession
  <2>1. PICK j \in Slots \ ValidSlots, role \in {"STA", "AP"} :
          session' = [session EXCEPT ![j] = [FreeSlot EXCEPT !.valid = TRUE,
                                             !.role = role, !.limSmeState = "IDLE"]]
    BY <1>6 DEF PeCreateSession
  <2>2. [FreeSlot EXCEPT !.valid = TRUE, !.role = role, !.limSmeState = "IDLE"]
          \in Session
    BY FreeSlotType DEF Session, SmeStates
  <2>3. session' \in [Slots -> Session]
    BY <2>1, <2>2 DEF IInv, TypeOK
  <2>. QED BY <1>6, <2>3 DEF PeCreateSession, IInv, TypeOK, ClosedMeansClean,
                             StartedMeansOpen
<1>7. CASE SessionLinkEstablished
  <2>1. PICK j \in ValidSlots :
          session' = [session EXCEPT ![j].limSmeState = "LINK_EST",
                                     ![j].bRoamSynchInProgress = FALSE]
    BY <1>7 DEF SessionLinkEstablished
  <2>2. session[j] \in Session
    BY DEF IInv, TypeOK, ValidSlots
  <2>3. [session[j] EXCEPT !.limSmeState = "LINK_EST",
                           !.bRoamSynchInProgress = FALSE] \in Session
    BY <2>2 DEF Session, SmeStates
  <2>4. session' \in [Slots -> Session]
    BY <2>1, <2>3 DEF IInv, TypeOK, ValidSlots
  <2>. QED BY <1>7, <2>4 DEF SessionLinkEstablished, IInv, TypeOK,
                             ClosedMeansClean, StartedMeansOpen
<1>8. CASE PeDeleteSession
  <2>1. session' \in [Slots -> Session]
    BY <1>8, FreeSlotType DEF PeDeleteSession, IInv, TypeOK
  <2>. QED BY <1>8, <2>1 DEF PeDeleteSession, IInv, TypeOK, ClosedMeansClean,
                             StartedMeansOpen
<1>9. CASE SmeProcessRoamSynch
  BY <1>9 DEF SmeProcessRoamSynch, IInv, TypeOK, ClosedMeansClean,
              StartedMeansOpen, ValidSlots
<1>10. CASE SmeStateChange
  BY <1>10 DEF SmeStateChange, IInv, TypeOK, ClosedMeansClean,
               StartedMeansOpen, ValidSlots, SmeStates
<1>11. CASE UNCHANGED vars
  BY <1>11 DEF vars, IInv, TypeOK, ClosedMeansClean, StartedMeansOpen,
               ValidSlots
<1>. QED BY <1>1, <1>2, <1>3, <1>4, <1>5, <1>6, <1>7, <1>8, <1>9, <1>10,
            <1>11 DEF Next

\* The session model stays within its types for every table size.
THEOREM TypeCorrect == Spec => []TypeOK
<1>1. Init => IInv
  BY InitIInv
<1>2. IInv /\ [Next]_vars => IInv'
  BY NextIInv
<1>3. IInv => TypeOK
  BY DEF IInv
<1>. QED BY <1>1, <1>2, <1>3, PTL DEF Spec

\* pe_open's unwinding on each failed allocation and pe_close's teardown
\* leave no PE table, lock or valid session behind while PE is closed,
\* whatever the table size.
THEOREM ClosedAlwaysClean == Spec => []ClosedMeansClean
<1>1. Init => IInv
  BY InitIInv
<1>2. IInv /\ [Next]_vars => IInv'
  BY NextIInv
<1>3. IInv => ClosedMeansClean
  BY DEF IInv
<1>. QED BY <1>1, <1>2, <1>3, PTL DEF Spec

\* The two outcomes of one roam-synch step.
LEMMA RoamSynchOutcome ==
    ASSUME LimRoamOffloadSynchInd
    PROVE  \/ session' = session /\ smePending' = smePending
           \/ \E j \in Slots \ ValidSlots, v \in ValidSlots, b \in BSSIDs :
                 /\ session[v].role = "STA"
                 /\ session' = [session EXCEPT ![j] = FtSession(b),
                                               ![v].limReAssocbssId = b]
                 /\ smePending' = smePending + 1
<1>1. PICK vdev \in Slots, bssid \in BSSIDs :
        \/ /\ ~(session[vdev].valid /\ session[vdev].role = "STA")
           /\ UNCHANGED <<session, parsedFrm, bssDescs, smePending>>
        \/ /\ session[vdev].valid /\ session[vdev].role = "STA"
           /\ \E allocParsed, lenOk, parseOk, allocDesc, ok, leak \in BOOLEAN :
                /\ LimRoamFillBssDescr(allocParsed, lenOk, parseOk, allocDesc, ok, leak)
                /\ parsedFrm' = IF leak THEN parsedFrm + 1 ELSE parsedFrm
                /\ IF ok THEN /\ bssDescs' = bssDescs + 1
                              /\ RoamCreateFtSession(vdev, bssid)
                         ELSE UNCHANGED <<session, bssDescs, smePending>>
  BY DEF LimRoamOffloadSynchInd
<1>2. CASE session[vdev].valid /\ session[vdev].role = "STA"
           /\ RoamCreateFtSession(vdev, bssid) /\ ValidSlots # Slots
  <2>1. vdev \in ValidSlots
    BY <1>2 DEF ValidSlots
  <2>. QED BY <1>2, <2>1 DEF RoamCreateFtSession
<1>. QED BY <1>1, <1>2 DEF RoamCreateFtSession

\* Every step of lim_roam_offload_synch_ind either leaves the session table
\* and SME's queue alone or adds exactly one FT session for the new AP and
\* retargets the roaming STA session, for every table size.
THEOREM RoamSynchAtomic == Spec => RoamSynchAllOrNothing
<1>1. LimRoamOffloadSynchInd =>
         \/ session' = session /\ smePending' = smePending
         \/ \E j \in Slots \ ValidSlots, v \in ValidSlots, b \in BSSIDs :
               /\ session[v].role = "STA"
               /\ session' = [session EXCEPT ![j] = FtSession(b),
                                             ![v].limReAssocbssId = b]
               /\ smePending' = smePending + 1
  BY RoamSynchOutcome
<1>. QED BY <1>1, PTL DEF Spec, RoamSynchAllOrNothing

-----------------------------------------------------------------------------
(* Refinement: LimSession implements PeLifecycle                           *)

\* Writing session record j with a record of validity v makes j valid or
\* not accordingly and leaves every other slot's validity alone.
LEMMA ValidSlotsUpdate ==
    ASSUME TypeOK, NEW j \in Slots, NEW r,
           session' = [session EXCEPT ![j] = r]
    PROVE  ValidSlots' = IF r.valid THEN ValidSlots \cup {j} ELSE ValidSlots \ {j}
BY DEF TypeOK, ValidSlots

LEMMA InitRefines == Init => PL!Init
<1> SUFFICES ASSUME Init PROVE pePhase = "closed" /\ ValidSlots = {}
  BY DEF PL!Init
<1>. QED BY DEF Init, pePhase, ValidSlots, FreeSlot

LEMMA NextRefines == IInv /\ [Next]_vars => [PL!Next]_PL!vars
<1> SUFFICES ASSUME IInv, [Next]_vars PROVE [PL!Next]_PL!vars
  OBVIOUS
<1> USE DEF PL!vars
<1>1. CASE PeOpen
  <2>1. ~peOpen /\ ~peStarted /\ ValidSlots = {} /\ ValidSlots' = {}
    BY <1>1 DEF PeOpen, IInv, ClosedMeansClean, StartedMeansOpen, ValidSlots,
                FreeSlot
  <2>2. CASE peOpen'
    BY <1>1, <2>1, <2>2 DEF PeOpen, pePhase, PL!Next, PL!Open
  <2>3. CASE ~peOpen'
    BY <1>1, <2>1, <2>3 DEF PeOpen, pePhase
  <2>. QED BY <2>2, <2>3
<1>2. CASE PeClose
  <2>1. ValidSlots' = {}
    BY <1>2 DEF PeClose, ValidSlots, FreeSlot
  <2>. QED BY <1>2, <2>1 DEF PeClose, pePhase, PL!Next, PL!Close
<1>3. CASE PeStart
  <2>1. peOpen /\ ~peStarted /\ UNCHANGED <<peOpen, session>>
    BY <1>3 DEF PeStart
  <2>2. ValidSlots' = ValidSlots
    BY <2>1 DEF ValidSlots
  <2>3. CASE peStarted'
    BY <2>1, <2>2, <2>3 DEF pePhase, PL!Next, PL!Start
  <2>4. CASE ~peStarted'
    BY <2>1, <2>2, <2>4 DEF pePhase
  <2>. QED BY <2>3, <2>4
<1>4. CASE PeStop
  <2>1. peStarted /\ peOpen /\ ~peStarted' /\ UNCHANGED <<peOpen, session>>
    BY <1>4 DEF PeStop, IInv, StartedMeansOpen
  <2>2. ValidSlots' = ValidSlots
    BY <2>1 DEF ValidSlots
  <2>. QED BY <2>1, <2>2 DEF pePhase, PL!Next, PL!Stop
<1>5. CASE LimRoamOffloadSynchInd
  <2>1. peStarted /\ UNCHANGED <<peOpen, peStarted>>
    BY <1>5 DEF LimRoamOffloadSynchInd
  <2>2. pePhase = "started" /\ pePhase' = "started"
    BY <2>1 DEF pePhase
  <2>3. \/ session' = session
        \/ \E j \in Slots \ ValidSlots, v \in ValidSlots, b \in BSSIDs :
              session' = [session EXCEPT ![j] = FtSession(b),
                                         ![v].limReAssocbssId = b]
    BY <1>5, RoamSynchOutcome
  <2>4. CASE session' = session
    BY <2>2, <2>4 DEF ValidSlots
  <2>5. CASE \E j \in Slots \ ValidSlots, v \in ValidSlots, b \in BSSIDs :
               session' = [session EXCEPT ![j] = FtSession(b),
                                          ![v].limReAssocbssId = b]
    <3>1. PICK j \in Slots \ ValidSlots, v \in ValidSlots, b \in BSSIDs :
            session' = [session EXCEPT ![j] = FtSession(b),
                                       ![v].limReAssocbssId = b]
      BY <2>5
    <3>2. ValidSlots' = ValidSlots \cup {j}
      BY <3>1 DEF IInv, TypeOK, ValidSlots, FtSession
    <3>. QED BY <2>2, <3>1, <3>2 DEF PL!Next, PL!CreateSession
  <2>. QED BY <2>3, <2>4, <2>5
<1>6. CASE PeCreateSession
  <2>1. PICK j \in Slots \ ValidSlots, role \in {"STA", "AP"} :
          session' = [session EXCEPT ![j] = [FreeSlot EXCEPT !.valid = TRUE,
                                             !.role = role, !.limSmeState = "IDLE"]]
    BY <1>6 DEF PeCreateSession
  <2>2. ValidSlots' = ValidSlots \cup {j}
    BY <2>1, ValidSlotsUpdate DEF IInv, FreeSlot
  <2>3. pePhase = "started" /\ pePhase' = "started"
    BY <1>6 DEF PeCreateSession, pePhase
  <2>. QED BY <2>1, <2>2, <2>3 DEF PL!Next, PL!CreateSession
<1>7. CASE SessionLinkEstablished
  <2>1. PICK j \in ValidSlots :
          session' = [session EXCEPT ![j].limSmeState = "LINK_EST",
                                     ![j].bRoamSynchInProgress = FALSE]
    BY <1>7 DEF SessionLinkEstablished
  <2>2. ValidSlots' = ValidSlots
    BY <2>1 DEF IInv, TypeOK, ValidSlots
  <2>. QED BY <1>7, <2>2 DEF SessionLinkEstablished, pePhase
<1>8. CASE PeDeleteSession
  <2>1. PICK j \in ValidSlots : session' = [session EXCEPT ![j] = FreeSlot]
    BY <1>8 DEF PeDeleteSession
  <2>2. j \in Slots
    BY DEF ValidSlots
  <2>3. ValidSlots' = ValidSlots \ {j}
    BY <2>1, <2>2 DEF IInv, TypeOK, ValidSlots, FreeSlot
  <2>4. pePhase = "started" /\ pePhase' = "started"
    BY <1>8 DEF PeDeleteSession, pePhase
  <2>. QED BY <2>1, <2>3, <2>4 DEF PL!Next, PL!DeleteSession
<1>9. CASE SmeProcessRoamSynch \/ SmeStateChange \/ UNCHANGED vars
  BY <1>9 DEF SmeProcessRoamSynch, SmeStateChange, vars, pePhase, ValidSlots
<1>. QED BY <1>1, <1>2, <1>3, <1>4, <1>5, <1>6, <1>7, <1>8, <1>9 DEF Next

\* LimSession implements PeLifecycle under the mapping pePhase / ValidSlots,
\* for every table size: pe_open, pe_start, pe_stop and pe_close move PE
\* through its phases or fail without effect, and the roam-synch handler and
\* the session environment create or delete one session at a time, only
\* while PE is started.
THEOREM Refinement == Spec => PeLifecycleSpec
<1>1. Spec => []IInv
  BY InitIInv, NextIInv, PTL DEF Spec
<1>. QED BY <1>1, InitRefines, NextRefines, PTL DEF Spec, PeLifecycleSpec, PL!Spec
====
