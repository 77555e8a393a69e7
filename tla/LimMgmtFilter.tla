---------------------------- MODULE LimMgmtFilter ----------------------------
(***************************************************************************)
(* The per-peer flood filters that lim_is_pkt_candidate_for_drop applies   *)
(* to Deauthentication/Disassociation and (802.11w) Association/           *)
(* Reassociation Requests before they are queued to PE                     *)
(* (src/core/mac/src/pe/lim/lim_api.c): lim_is_deauth_diassoc_for_drop and *)
(* lim_is_assoc_req_for_drop.                                              *)
(*                                                                         *)
(* One session and one peer.  The peer's DPH hash entry (sta_ds) exists    *)
(* between its creation, which zeroes it, and its deletion.  Time is the   *)
(* real time "time"; the code reads cdf_mc_timer_get_system_ticks(), an    *)
(* unsigned counter that wraps, modelled as time % TickMod, and compares   *)
(* unsigned differences with the 1000-tick window, modelled as Window.     *)
(***************************************************************************)
EXTENDS Naturals

CONSTANTS
    TickMod,         \* 2^w for the width w of the system tick counter
    Window,          \* the 1000-tick flood window
    MaxTime          \* bound on the real time explored

ASSUME TickModAssumption == TickMod \in Nat /\ TickMod > 1
ASSUME WindowAssumption == Window \in 1..(TickMod - 1)
ASSUME MaxTimeAssumption == MaxTime \in Nat

\* No admission recorded yet.
Never == MaxTime + Window + 1

VARIABLES
    time,
    peerUp,                          \* session and sta_ds found for the sender
    limRmfEnabled,                   \* session_entry->limRmfEnabled
    rmfEnabled,                      \* sta_ds->rmfEnabled
    saQueryInProgress,               \* pmfSaQueryState == DPH_SA_QUERY_IN_PROGRESS
    last_assoc_received_time,
    last_unprot_deauth_disassoc,
    proct_deauh_disassoc_cnt,
    is_disassoc_deauth_in_progress,
    assocAdmittedAt,                 \* real time of the last admitted assoc
    unprotAdmittedAt,                \* real time of the last admitted unprotected deauth
    trustedAdmitted,                 \* protected / non-PMF deauths admitted for this sta_ds
    lastFrame                        \* the class and verdict of the last frame filtered

peerVars == <<limRmfEnabled, rmfEnabled, saQueryInProgress, last_assoc_received_time,
              last_unprot_deauth_disassoc, proct_deauh_disassoc_cnt,
              is_disassoc_deauth_in_progress>>
history == <<assocAdmittedAt, unprotAdmittedAt, trustedAdmitted, lastFrame>>
vars == <<time, peerUp, peerVars, history>>

\* cdf_mc_timer_get_system_ticks()
SystemTicks == time % TickMod

\* The unsigned difference now - then of two tick values.
TickDiff(now, then) == (now - then + TickMod) % TickMod

-----------------------------------------------------------------------------
(* lim_is_deauth_diassoc_for_drop(frame); unprot is the DPU feedback bit   *)
(* DPU_FEEDBACK_UNPROTECTED_ERROR.  Each operator is the verdict together  *)
(* with the peer-record updates on its path.                               *)

\* Variant: the unsigned difference is taken the wrong way round.
UnprotDeauthInWindowReversed ==
    TickDiff(last_unprot_deauth_disassoc, SystemTicks) < Window

UnprotDeauthInWindow ==
    TickDiff(SystemTicks, last_unprot_deauth_disassoc) < Window

\* No session or no sta_ds: drop.
DeauthNoPeer == ~peerUp

\* PMF session, unprotected frame: at most one per window.
DeauthUnprotected(drop) ==
    /\ peerUp /\ limRmfEnabled
    /\ drop = UnprotDeauthInWindow
    /\ last_unprot_deauth_disassoc' =
           IF drop THEN last_unprot_deauth_disassoc ELSE SystemTicks
    /\ UNCHANGED <<proct_deauh_disassoc_cnt, is_disassoc_deauth_in_progress>>

\* Variant: the counter is incremented on every protected frame (no else).
DeauthProtectedNoElse(drop) ==
    /\ peerUp /\ limRmfEnabled
    /\ drop = (proct_deauh_disassoc_cnt # 0)
    /\ proct_deauh_disassoc_cnt' = proct_deauh_disassoc_cnt + 1
    /\ UNCHANGED <<last_unprot_deauth_disassoc, is_disassoc_deauth_in_progress>>

\* PMF session, protected frame: the first one only.
DeauthProtected(drop) ==
    /\ peerUp /\ limRmfEnabled
    /\ drop = (proct_deauh_disassoc_cnt # 0)
    /\ proct_deauh_disassoc_cnt' =
           IF drop THEN proct_deauh_disassoc_cnt ELSE proct_deauh_disassoc_cnt + 1
    /\ UNCHANGED <<last_unprot_deauth_disassoc, is_disassoc_deauth_in_progress>>

\* Variant: the PMF-disabled path never marks the deauth as in progress.
DeauthNoPmfNoMark(drop) ==
    /\ peerUp /\ ~limRmfEnabled
    /\ drop = (is_disassoc_deauth_in_progress # 0)
    /\ UNCHANGED <<last_unprot_deauth_disassoc, proct_deauh_disassoc_cnt,
                   is_disassoc_deauth_in_progress>>

\* PMF disabled: the first one only.
DeauthNoPmf(drop) ==
    /\ peerUp /\ ~limRmfEnabled
    /\ drop = (is_disassoc_deauth_in_progress # 0)
    /\ is_disassoc_deauth_in_progress' =
           IF drop THEN is_disassoc_deauth_in_progress
                   ELSE is_disassoc_deauth_in_progress + 1
    /\ UNCHANGED <<last_unprot_deauth_disassoc, proct_deauh_disassoc_cnt>>

-----------------------------------------------------------------------------
(* lim_is_assoc_req_for_drop                                               *)

\* The window test, including the "last_assoc_received_time &&" guard.
AssocInWindow ==
    /\ last_assoc_received_time # 0
    /\ TickDiff(SystemTicks, last_assoc_received_time) < Window

\* The verdict; the time is stamped only when an RMF peer's request passes.
LimIsAssocReqForDrop(drop) ==
    /\ drop = (peerUp /\ rmfEnabled /\ (saQueryInProgress \/ AssocInWindow))
    /\ last_assoc_received_time' =
           IF peerUp /\ rmfEnabled /\ ~drop THEN SystemTicks
                                            ELSE last_assoc_received_time

-----------------------------------------------------------------------------
(* Actions                                                                 *)

\* The frame classes of the filter paths: no session/sta_ds, PMF
\* unprotected, PMF protected, PMF disabled, association request.
FrameClasses == {"NoPeer", "Unprot", "Prot", "NoPmf", "Assoc"}

Init ==
    /\ time = 0
    /\ peerUp = FALSE
    /\ limRmfEnabled = FALSE
    /\ rmfEnabled = FALSE
    /\ saQueryInProgress = FALSE
    /\ last_assoc_received_time = 0
    /\ last_unprot_deauth_disassoc = 0
    /\ proct_deauh_disassoc_cnt = 0
    /\ is_disassoc_deauth_in_progress = 0
    /\ assocAdmittedAt = Never
    /\ unprotAdmittedAt = Never
    /\ trustedAdmitted = 0
    /\ lastFrame = [class |-> "NoPeer", drop |-> TRUE]

\* The system tick advances.
Tick ==
    /\ time < MaxTime
    /\ time' = time + 1
    /\ UNCHANGED <<peerUp, peerVars, history>>

\* The peer joins: the session with its negotiated PMF setting and a zeroed
\* sta_ds (dph_add_hash_entry) with the peer's rmfEnabled.
PeerAdd ==
    /\ ~peerUp
    /\ peerUp' = TRUE
    /\ limRmfEnabled' \in BOOLEAN
    /\ rmfEnabled' \in BOOLEAN
    /\ saQueryInProgress' = FALSE
    /\ last_assoc_received_time' = 0
    /\ last_unprot_deauth_disassoc' = 0
    /\ proct_deauh_disassoc_cnt' = 0
    /\ is_disassoc_deauth_in_progress' = 0
    /\ assocAdmittedAt' = Never
    /\ unprotAdmittedAt' = Never
    /\ trustedAdmitted' = 0
    /\ UNCHANGED <<time, lastFrame>>

\* The sta_ds is deleted (dph_delete_hash_entry) or the session ends.
PeerDelete ==
    /\ peerUp
    /\ peerUp' = FALSE
    /\ UNCHANGED <<time, peerVars, history>>

\* An SA query with the peer starts or ends (PMF peers only).
SaQueryChange ==
    /\ peerUp /\ rmfEnabled
    /\ saQueryInProgress' = ~saQueryInProgress
    /\ UNCHANGED <<time, peerUp, limRmfEnabled, rmfEnabled,
                   last_assoc_received_time, last_unprot_deauth_disassoc,
                   proct_deauh_disassoc_cnt, is_disassoc_deauth_in_progress,
                   history>>

\* A Deauthentication or Disassociation frame, protected or not, from the
\* peer reaches lim_is_pkt_candidate_for_drop.
RxDeauth ==
    /\ \E drop \in BOOLEAN :
        /\ \/ /\ DeauthNoPeer /\ drop
              /\ lastFrame' = [class |-> "NoPeer", drop |-> TRUE]
              /\ UNCHANGED <<last_unprot_deauth_disassoc, proct_deauh_disassoc_cnt,
                             is_disassoc_deauth_in_progress, unprotAdmittedAt,
                             trustedAdmitted>>
           \/ /\ DeauthUnprotected(drop)
              /\ lastFrame' = [class |-> "Unprot", drop |-> drop]
              /\ unprotAdmittedAt' = IF drop THEN unprotAdmittedAt ELSE time
              /\ UNCHANGED trustedAdmitted
           \/ /\ \/ DeauthProtected(drop) /\ lastFrame' = [class |-> "Prot", drop |-> drop]
                 \/ DeauthNoPmf(drop) /\ lastFrame' = [class |-> "NoPmf", drop |-> drop]
              /\ trustedAdmitted' = IF drop THEN trustedAdmitted ELSE trustedAdmitted + 1
              /\ UNCHANGED unprotAdmittedAt
        /\ UNCHANGED assocAdmittedAt
    /\ UNCHANGED <<time, peerUp, limRmfEnabled, rmfEnabled, saQueryInProgress,
                   last_assoc_received_time>>

\* An Association or Reassociation Request from the peer reaches
\* lim_is_pkt_candidate_for_drop (WLAN_FEATURE_11W).
RxAssocReq ==
    /\ \E drop \in BOOLEAN :
        /\ LimIsAssocReqForDrop(drop)
        /\ lastFrame' = [class |-> "Assoc", drop |-> drop]
        /\ assocAdmittedAt' =
               IF peerUp /\ rmfEnabled /\ ~drop THEN time ELSE assocAdmittedAt
    /\ UNCHANGED <<time, peerUp, limRmfEnabled, rmfEnabled, saQueryInProgress,
                   last_unprot_deauth_disassoc, proct_deauh_disassoc_cnt,
                   is_disassoc_deauth_in_progress, unprotAdmittedAt,
                   trustedAdmitted>>

Next ==
    \/ Tick
    \/ PeerAdd
    \/ PeerDelete
    \/ SaQueryChange
    \/ RxDeauth
    \/ RxAssocReq

Spec == Init /\ [][Next]_vars

-----------------------------------------------------------------------------
(* Properties                                                              *)

TypeOK ==
    /\ time \in 0..MaxTime
    /\ peerUp \in BOOLEAN
    /\ limRmfEnabled \in BOOLEAN
    /\ rmfEnabled \in BOOLEAN
    /\ saQueryInProgress \in BOOLEAN
    /\ last_assoc_received_time \in 0..(TickMod - 1)
    /\ last_unprot_deauth_disassoc \in 0..(TickMod - 1)
    /\ proct_deauh_disassoc_cnt \in {0, 1}
    /\ is_disassoc_deauth_in_progress \in {0, 1}
    /\ assocAdmittedAt \in 0..MaxTime \cup {Never}
    /\ unprotAdmittedAt \in 0..MaxTime \cup {Never}
    /\ trustedAdmitted \in Nat
    /\ lastFrame \in [class : FrameClasses, drop : BOOLEAN]

\* Spec 4.2 and 8 (idempotence): an unprotected Deauth/Disassoc from a PMF
\* peer passes lim_is_deauth_diassoc_for_drop at most once per window: two
\* that pass are at least Window ticks apart in real time, also when the
\* tick counter wraps between them.
UnprotDeauthRateLimited ==
    [][ unprotAdmittedAt' # unprotAdmittedAt /\ unprotAdmittedAt # Never
          => unprotAdmittedAt' - unprotAdmittedAt >= Window ]_vars

\* Spec 4.2: while a peer's sta_ds lives, at most one protected (PMF) or
\* non-PMF Deauth/Disassoc from it is let through to PE; every later one is
\* dropped as spurious, whatever the session's PMF setting.
TrustedDeauthAtMostOnce == trustedAdmitted <= 1

\* The comment in lim_is_deauth_diassoc_for_drop: unprotected frames from a
\* PMF peer are processed when they are 1 s apart, so that a genuine AP's
\* deauth is not lost; one is dropped only if another was processed less
\* than Window ticks earlier for the same sta_ds.
UnprotDeauthDroppedOnlyInWindow ==
    [][ lastFrame' = [class |-> "Unprot", drop |-> TRUE]
          => unprotAdmittedAt # Never /\ time - unprotAdmittedAt < Window ]_vars

====
