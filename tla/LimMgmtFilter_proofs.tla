------------------------ MODULE LimMgmtFilter_proofs ------------------------
(* Proofs about LimMgmtFilter for every counter width, window and horizon. *)
EXTENDS LimMgmtFilter, TLAPS

\* The trusted deauths admitted are those counted by the two first-only
\* counters, and only the counter of the session's PMF mode ever moves:
\* limRmfEnabled is fixed from the creation of sta_ds, which zeroes both.
TrustedCounted ==
    /\ trustedAdmitted = proct_deauh_disassoc_cnt + is_disassoc_deauth_in_progress
    /\ limRmfEnabled => is_disassoc_deauth_in_progress = 0
    /\ ~limRmfEnabled => proct_deauh_disassoc_cnt = 0

\* The stamp lim_is_deauth_diassoc_for_drop compares with is the tick
\* value of the last admitted unprotected deauth, which lies in the past.
UnprotStamped ==
    unprotAdmittedAt # Never =>
        /\ unprotAdmittedAt <= time
        /\ last_unprot_deauth_disassoc = unprotAdmittedAt % TickMod

IInv == TypeOK /\ TrustedCounted /\ UnprotStamped

\* The unsigned difference of two wrapped tick values never exceeds the
\* real time between them.
LEMMA TickDiffBound ==
    ASSUME NEW a \in Nat, NEW b \in Nat, b <= a
    PROVE  TickDiff(a % TickMod, b % TickMod) <= a - b
<1> DEFINE M == TickMod
           ra == a % M
           rb == b % M
           qa == a \div M
           qb == b \div M
<1>1. M \in Nat /\ M > 1
  BY TickModAssumption
<1>2. /\ ra \in 0..(M - 1) /\ rb \in 0..(M - 1)
      /\ qa \in Nat /\ qb \in Nat
      /\ a = qa * M + ra /\ b = qb * M + rb
  BY <1>1, SMT
<1>3. qb <= qa
  <2> SUFFICES ASSUME qa < qb PROVE FALSE
    BY <1>2, SMT
  <2>1. (qa + 1) * M <= qb * M
    BY <1>1, <1>2, SMT
  <2>. QED BY <1>1, <1>2, <2>1, SMT
<1> DEFINE k == qa - qb
<1>4. k \in Nat /\ a - b = k * M + (ra - rb)
  BY <1>1, <1>2, <1>3, SMT
<1>5. k * M \in Nat
  BY <1>1, <1>4, SMT
<1>6. CASE rb <= ra
  <2>1. TickDiff(ra, rb) = ra - rb
    BY <1>1, <1>2, <1>6, SMT DEF TickDiff
  <2>. QED BY <1>1, <1>4, <1>5, <2>1, SMT
<1>7. CASE ra < rb
  <2>1. TickDiff(ra, rb) = ra - rb + M
    BY <1>1, <1>2, <1>7, SMT DEF TickDiff
  <2>2. k # 0
    BY <1>1, <1>2, <1>4, <1>7, SMT
  <2>3. k * M >= M
    BY <1>1, <1>4, <2>2, SMT
  <2>. QED BY <1>1, <1>4, <2>1, <2>3, SMT
<1>. QED BY <1>2, <1>6, <1>7, SMT

LEMMA InitIInv == Init => IInv
<1> SUFFICES ASSUME Init PROVE IInv
  OBVIOUS
<1>1. TickMod \in Nat /\ TickMod > 1 /\ MaxTime \in Nat
  BY TickModAssumption, MaxTimeAssumption
<1>2. /\ time \in 0..MaxTime
      /\ last_assoc_received_time \in 0..(TickMod - 1)
      /\ last_unprot_deauth_disassoc \in 0..(TickMod - 1)
      /\ assocAdmittedAt \in 0..MaxTime \cup {Never}
      /\ unprotAdmittedAt \in 0..MaxTime \cup {Never}
  BY <1>1 DEF Init
<1>3. lastFrame \in [class : FrameClasses, drop : BOOLEAN]
  BY DEF Init, FrameClasses
<1>4. TypeOK
  BY <1>2, <1>3 DEF Init, TypeOK
<1>. QED BY <1>4 DEF Init, IInv, TrustedCounted, UnprotStamped

\* TypeOK without the record of the last frame filtered.
ScalarsTyped ==
    /\ time \in 0..MaxTime
    /\ peerUp \in BOOLEAN
    /\ limRmfEnabled \in BOOLEAN
    /\ rmfEnabled \in BOOLEAN
    /\ saQueryInProgress \in BOOLEAN
    /\ last_assoc_received_time \in 0..(TickMod - 1)
    /\ last_unprot_deauth_disassoc \in 0..(TickMod - 1)
    /\ proct_deauh_disassoc_cnt \in {0, 1}
    /\ is_disassoc_deauth_in_progress \in {0, 1}
    /\ assocAdmittedAt \in 0..MaxTime \cup {Never}
    /\ unprotAdmittedAt \in 0..MaxTime \cup {Never}
    /\ trustedAdmitted \in Nat

LEMMA TypeSplit ==
    TypeOK <=> ScalarsTyped /\ lastFrame \in [class : FrameClasses, drop : BOOLEAN]
BY DEF TypeOK, ScalarsTyped

\* The record each filter path stores in lastFrame is of its type.
LEMMA FrameRecordType ==
    ASSUME NEW c \in FrameClasses, NEW d \in BOOLEAN
    PROVE  [class |-> c, drop |-> d] \in [class : FrameClasses, drop : BOOLEAN]
OBVIOUS

\* One filtered Deauth/Disassoc keeps the counters, the admission count and
\* the unprotected-deauth stamp consistent.
LEMMA RxDeauthIInv ==
    ASSUME IInv, RxDeauth
    PROVE  IInv'
<1>1. TickMod \in Nat /\ TickMod > 1 /\ Window \in 1..(TickMod - 1)
  BY TickModAssumption, WindowAssumption
<1>2. PICK drop \in BOOLEAN :
        /\ \/ /\ DeauthNoPeer /\ drop
              /\ lastFrame' = [class |-> "NoPeer", drop |-> TRUE]
              /\ UNCHANGED <<last_unprot_deauth_disassoc, proct_deauh_disassoc_cnt,
                             is_disassoc_deauth_in_progress, unprotAdmittedAt,
                             trustedAdmitted>>
           \/ /\ DeauthUnprotected(drop)
              /\ lastFrame' = [class |-> "Unprot", drop |-> drop]
              /\ unprotAdmittedAt' = IF drop THEN unprotAdmittedAt ELSE time
              /\ UNCHANGED trustedAdmitted
           \/ /\ \/ DeauthProtected(drop) /\ lastFrame' = [class |-> "Prot", drop |-> drop]
                 \/ DeauthNoPmf(drop) /\ lastFrame' = [class |-> "NoPmf", drop |-> drop]
              /\ trustedAdmitted' = IF drop THEN trustedAdmitted ELSE trustedAdmitted + 1
              /\ UNCHANGED unprotAdmittedAt
        /\ UNCHANGED assocAdmittedAt
  BY DEF RxDeauth
<1>3. /\ time' = time /\ peerUp' = peerUp /\ limRmfEnabled' = limRmfEnabled
      /\ rmfEnabled' = rmfEnabled /\ saQueryInProgress' = saQueryInProgress
      /\ last_assoc_received_time' = last_assoc_received_time
      /\ assocAdmittedAt' = assocAdmittedAt
  BY <1>2 DEF RxDeauth
<1>4. ScalarsTyped /\ TrustedCounted /\ UnprotStamped
  BY TypeSplit DEF IInv
<1>5. lastFrame' \in [class : FrameClasses, drop : BOOLEAN]
  BY <1>2, FrameRecordType DEF FrameClasses
<1> SUFFICES ScalarsTyped' /\ TrustedCounted' /\ UnprotStamped'
  BY <1>5 DEF IInv, TypeOK, ScalarsTyped
<1>6. CASE /\ DeauthNoPeer /\ drop
           /\ UNCHANGED <<last_unprot_deauth_disassoc, proct_deauh_disassoc_cnt,
                          is_disassoc_deauth_in_progress, unprotAdmittedAt,
                          trustedAdmitted>>
  <2>1. ScalarsTyped' /\ TrustedCounted' /\ UnprotStamped'
    BY <1>2, <1>3, <1>4, <1>6 DEF ScalarsTyped, TrustedCounted, UnprotStamped
  <2>. QED BY <2>1
<1>7. CASE /\ DeauthUnprotected(drop)
           /\ unprotAdmittedAt' = IF drop THEN unprotAdmittedAt ELSE time
           /\ UNCHANGED trustedAdmitted
  <2>1. UNCHANGED <<proct_deauh_disassoc_cnt, is_disassoc_deauth_in_progress,
                    trustedAdmitted>>
    BY <1>7 DEF DeauthUnprotected
  <2>2. CASE drop
    <3>1. UNCHANGED <<last_unprot_deauth_disassoc, unprotAdmittedAt>>
      BY <1>7, <2>2 DEF DeauthUnprotected
    <3>. QED BY <1>3, <1>4, <2>1, <3>1 DEF ScalarsTyped, TrustedCounted,
                                           UnprotStamped
  <2>3. CASE ~drop
    <3>1. last_unprot_deauth_disassoc' = time % TickMod /\ unprotAdmittedAt' = time
      BY <1>7, <2>3 DEF DeauthUnprotected, SystemTicks
    <3>2. time \in 0..MaxTime /\ time % TickMod \in 0..(TickMod - 1)
      BY <1>1, <1>4 DEF ScalarsTyped
    <3>3. ScalarsTyped' /\ TrustedCounted'
      BY <1>3, <1>4, <2>1, <3>1, <3>2 DEF ScalarsTyped, TrustedCounted, Never
    <3>4. UnprotStamped'
      BY <1>3, <1>4, <3>1 DEF UnprotStamped, ScalarsTyped, Never
    <3>. QED BY <3>3, <3>4
  <2>. QED BY <2>2, <2>3
<1>8. CASE \/ DeauthProtected(drop)
           \/ DeauthNoPmf(drop)
  <2>1. /\ trustedAdmitted' = IF drop THEN trustedAdmitted ELSE trustedAdmitted + 1
        /\ UNCHANGED <<unprotAdmittedAt, last_unprot_deauth_disassoc>>
    BY <1>2, <1>8 DEF DeauthProtected, DeauthNoPmf, DeauthNoPeer, DeauthUnprotected
  <2>2. UnprotStamped'
    BY <1>3, <1>4, <2>1 DEF UnprotStamped
  <2>3. CASE DeauthProtected(drop)
    <3>1. /\ limRmfEnabled
          /\ drop = (proct_deauh_disassoc_cnt # 0)
          /\ proct_deauh_disassoc_cnt' = IF drop THEN proct_deauh_disassoc_cnt
                                                 ELSE proct_deauh_disassoc_cnt + 1
          /\ UNCHANGED is_disassoc_deauth_in_progress
      BY <2>3 DEF DeauthProtected
    <3>2. CASE proct_deauh_disassoc_cnt = 0
      <4>0. ~drop
        <5>1. ~(proct_deauh_disassoc_cnt # 0)
          BY <3>2
        <5>. QED BY <3>1, <5>1, Zenon
      <4>1. /\ proct_deauh_disassoc_cnt' = 1 /\ trustedAdmitted = 0
            /\ trustedAdmitted' = 1 /\ is_disassoc_deauth_in_progress' = 0
        BY <1>4, <2>1, <3>1, <3>2, <4>0 DEF TrustedCounted, ScalarsTyped
      <4>2. ScalarsTyped'
        BY <1>3, <1>4, <2>1, <4>1 DEF ScalarsTyped
      <4>3. TrustedCounted'
        BY <1>3, <1>4, <3>1, <4>1 DEF TrustedCounted
      <4>. QED BY <2>2, <4>2, <4>3
    <3>3. CASE proct_deauh_disassoc_cnt = 1
      <4>0. drop
        <5>1. proct_deauh_disassoc_cnt # 0
          BY <3>3
        <5>. QED BY <3>1, <5>1, Zenon
      <4>1. UNCHANGED <<proct_deauh_disassoc_cnt, is_disassoc_deauth_in_progress,
                        trustedAdmitted>>
        BY <2>1, <3>1, <3>3, <4>0
      <4>2. ScalarsTyped'
        BY <1>3, <1>4, <2>1, <4>1 DEF ScalarsTyped
      <4>3. TrustedCounted'
        BY <1>3, <1>4, <3>1, <4>1 DEF TrustedCounted
      <4>. QED BY <2>2, <4>2, <4>3
    <3>. QED BY <1>4, <3>2, <3>3 DEF ScalarsTyped
  <2>4. CASE DeauthNoPmf(drop)
    <3>1. /\ ~limRmfEnabled
          /\ drop = (is_disassoc_deauth_in_progress # 0)
          /\ is_disassoc_deauth_in_progress' =
                 IF drop THEN is_disassoc_deauth_in_progress
                         ELSE is_disassoc_deauth_in_progress + 1
          /\ UNCHANGED proct_deauh_disassoc_cnt
      BY <2>4 DEF DeauthNoPmf
    <3>2. CASE is_disassoc_deauth_in_progress = 0
      <4>0. ~drop
        <5>1. ~(is_disassoc_deauth_in_progress # 0)
          BY <3>2
        <5>. QED BY <3>1, <5>1, Zenon
      <4>1. /\ is_disassoc_deauth_in_progress' = 1 /\ trustedAdmitted = 0
            /\ trustedAdmitted' = 1 /\ proct_deauh_disassoc_cnt' = 0
        BY <1>4, <2>1, <3>1, <3>2, <4>0 DEF TrustedCounted, ScalarsTyped
      <4>2. ScalarsTyped'
        BY <1>3, <1>4, <2>1, <4>1 DEF ScalarsTyped
      <4>3. TrustedCounted'
        BY <1>3, <1>4, <3>1, <4>1 DEF TrustedCounted
      <4>. QED BY <2>2, <4>2, <4>3
    <3>3. CASE is_disassoc_deauth_in_progress = 1
      <4>0. drop
        <5>1. is_disassoc_deauth_in_progress # 0
          BY <3>3
        <5>. QED BY <3>1, <5>1, Zenon
      <4>1. UNCHANGED <<proct_deauh_disassoc_cnt, is_disassoc_deauth_in_progress,
                        trustedAdmitted>>
        BY <2>1, <3>1, <3>3, <4>0
      <4>2. ScalarsTyped'
        BY <1>3, <1>4, <2>1, <4>1 DEF ScalarsTyped
      <4>3. TrustedCounted'
        BY <1>3, <1>4, <3>1, <4>1 DEF TrustedCounted
      <4>. QED BY <2>2, <4>2, <4>3
    <3>. QED BY <1>4, <3>2, <3>3 DEF ScalarsTyped
  <2>. QED BY <1>8, <2>2, <2>3, <2>4
<1>. QED BY <1>2, <1>6, <1>7, <1>8

\* One filtered (Re)Association Request touches neither deauth filter.
LEMMA RxAssocReqIInv ==
    ASSUME IInv, RxAssocReq
    PROVE  IInv'
<1>1. TickMod \in Nat /\ TickMod > 1 /\ MaxTime \in Nat
  BY TickModAssumption, MaxTimeAssumption
<1>2. PICK drop \in BOOLEAN :
        /\ LimIsAssocReqForDrop(drop)
        /\ lastFrame' = [class |-> "Assoc", drop |-> drop]
        /\ assocAdmittedAt' =
               IF peerUp /\ rmfEnabled /\ ~drop THEN time ELSE assocAdmittedAt
  BY DEF RxAssocReq
<1>3. /\ time' = time /\ peerUp' = peerUp /\ limRmfEnabled' = limRmfEnabled
      /\ rmfEnabled' = rmfEnabled /\ saQueryInProgress' = saQueryInProgress
      /\ last_unprot_deauth_disassoc' = last_unprot_deauth_disassoc
      /\ proct_deauh_disassoc_cnt' = proct_deauh_disassoc_cnt
      /\ is_disassoc_deauth_in_progress' = is_disassoc_deauth_in_progress
      /\ unprotAdmittedAt' = unprotAdmittedAt
      /\ trustedAdmitted' = trustedAdmitted
  BY DEF RxAssocReq
<1>4. ScalarsTyped /\ TrustedCounted /\ UnprotStamped
  BY TypeSplit DEF IInv
<1>5. lastFrame' \in [class : FrameClasses, drop : BOOLEAN]
  BY <1>2, FrameRecordType DEF FrameClasses
<1>6. last_assoc_received_time' \in 0..(TickMod - 1)
      /\ assocAdmittedAt' \in 0..MaxTime \cup {Never}
  BY <1>1, <1>2, <1>4 DEF LimIsAssocReqForDrop, SystemTicks, ScalarsTyped
<1>7. ScalarsTyped' /\ TrustedCounted' /\ UnprotStamped'
  BY <1>3, <1>4, <1>6 DEF ScalarsTyped, TrustedCounted, UnprotStamped, Never
<1>. QED BY <1>5, <1>7 DEF IInv, TypeOK, ScalarsTyped

LEMMA NextIInv == IInv /\ [Next]_vars => IInv'
<1> SUFFICES ASSUME IInv, [Next]_vars PROVE IInv'
  OBVIOUS
<1>1. TickMod \in Nat /\ TickMod > 1 /\ MaxTime \in Nat
      /\ Window \in 1..(TickMod - 1)
  BY TickModAssumption, MaxTimeAssumption, WindowAssumption
<1>2. CASE Tick
  BY <1>1, <1>2 DEF Tick, peerVars, history, IInv, TypeOK, TrustedCounted,
                    UnprotStamped
<1>3. CASE PeerAdd
  <2>1. lastFrame' \in [class : FrameClasses, drop : BOOLEAN] /\ time' = time
    BY <1>3 DEF PeerAdd, IInv, TypeOK
  <2>2. /\ peerUp' = TRUE /\ saQueryInProgress' = FALSE
        /\ limRmfEnabled' \in BOOLEAN /\ rmfEnabled' \in BOOLEAN
        /\ last_assoc_received_time' = 0 /\ last_unprot_deauth_disassoc' = 0
        /\ proct_deauh_disassoc_cnt' = 0 /\ is_disassoc_deauth_in_progress' = 0
        /\ assocAdmittedAt' = Never /\ unprotAdmittedAt' = Never
        /\ trustedAdmitted' = 0
    BY <1>3 DEF PeerAdd
  <2>3. time \in 0..MaxTime
    BY DEF IInv, TypeOK
  <2>4. /\ time' \in 0..MaxTime
        /\ 0 \in 0..(TickMod - 1)
        /\ Never \in 0..MaxTime \cup {Never}
    BY <1>1, <2>1, <2>3
  <2>5. ScalarsTyped'
    BY Zenon, <2>2, <2>4 DEF ScalarsTyped
  <2>6. TrustedCounted' /\ UnprotStamped'
    BY <2>2 DEF TrustedCounted, UnprotStamped
  <2>. QED BY <2>1, <2>5, <2>6 DEF IInv, TypeOK, ScalarsTyped
<1>4. CASE PeerDelete
  BY <1>4 DEF PeerDelete, peerVars, history, IInv, TypeOK, TrustedCounted,
              UnprotStamped
<1>5. CASE SaQueryChange
  BY <1>5 DEF SaQueryChange, history, IInv, TypeOK, TrustedCounted,
              UnprotStamped
<1>6. CASE RxDeauth
  BY <1>6, RxDeauthIInv
<1>7. CASE RxAssocReq
  BY <1>7, RxAssocReqIInv
<1>8. CASE UNCHANGED vars
  BY <1>8 DEF vars, peerVars, history, IInv, TypeOK, TrustedCounted,
              UnprotStamped
<1>. QED BY <1>2, <1>3, <1>4, <1>5, <1>6, <1>7, <1>8 DEF Next

LEMMA InvariantHolds == Spec => []IInv
<1>1. Init => IInv
  BY InitIInv
<1>2. IInv /\ [Next]_vars => IInv'
  BY NextIInv
<1>. QED BY <1>1, <1>2, PTL DEF Spec

\* The flood-filter model stays within its types for every counter width,
\* window and horizon.
THEOREM TypeCorrect == Spec => []TypeOK
BY InvariantHolds, PTL DEF IInv

\* lim_is_deauth_diassoc_for_drop lets at most one protected or non-PMF
\* Deauth/Disassoc through per sta_ds, whatever the PMF mode: the two
\* first-only counters never both move.
THEOREM TrustedDeauthOnce == Spec => []TrustedDeauthAtMostOnce
<1>1. IInv => TrustedDeauthAtMostOnce
  BY DEF IInv, TypeOK, TrustedCounted, TrustedDeauthAtMostOnce
<1>. QED BY <1>1, InvariantHolds, PTL

\* lim_is_deauth_diassoc_for_drop lets an unprotected Deauth/Disassoc of a
\* PMF session through at most once per Window ticks of real time, for every
\* tick width and window below it: the unsigned tick difference it tests
\* never exceeds the real time elapsed since the stamp, and a new sta_ds
\* starts the record afresh.
THEOREM UnprotRateLimit == Spec => UnprotDeauthRateLimited
<1>1. ASSUME IInv, [Next]_vars,
             unprotAdmittedAt' # unprotAdmittedAt, unprotAdmittedAt # Never
      PROVE  unprotAdmittedAt' - unprotAdmittedAt >= Window
  <2>1. TickMod \in Nat /\ TickMod > 1 /\ MaxTime \in Nat
        /\ Window \in 1..(TickMod - 1)
    BY TickModAssumption, MaxTimeAssumption, WindowAssumption
  <2>2. /\ time \in 0..MaxTime
        /\ unprotAdmittedAt \in 0..MaxTime
        /\ unprotAdmittedAt <= time
        /\ last_unprot_deauth_disassoc = unprotAdmittedAt % TickMod
    BY <1>1, <2>1 DEF IInv, TypeOK, UnprotStamped, Never
  <2>3. CASE PeerAdd
    BY <1>1, <2>1, <2>2, <2>3 DEF PeerAdd, Never
  <2>4. CASE RxDeauth
    <3>1. PICK drop \in BOOLEAN :
            /\ DeauthUnprotected(drop)
            /\ unprotAdmittedAt' = IF drop THEN unprotAdmittedAt ELSE time
            /\ time' = time
      BY <1>1, <2>4, Zenon DEF RxDeauth
    <3>2. ~drop
      BY <1>1, <3>1
    <3>3. ~UnprotDeauthInWindow
      BY <3>1, <3>2, Zenon DEF DeauthUnprotected
    <3>4. TickDiff(time % TickMod, unprotAdmittedAt % TickMod) >= Window
      BY <2>1, <2>2, <3>3 DEF UnprotDeauthInWindow, SystemTicks, TickDiff
    <3>5. TickDiff(time % TickMod, unprotAdmittedAt % TickMod)
            <= time - unprotAdmittedAt
      BY <2>2, TickDiffBound
    <3>. QED BY <2>1, <2>2, <3>1, <3>2, <3>4, <3>5 DEF TickDiff
  <2>5. CASE Tick \/ PeerDelete \/ SaQueryChange \/ RxAssocReq \/ UNCHANGED vars
    BY <1>1, <2>5 DEF Tick, PeerDelete, SaQueryChange, RxAssocReq, vars, history
  <2>. QED BY <1>1, <2>3, <2>4, <2>5 DEF Next
<1>2. IInv /\ [Next]_vars =>
        [unprotAdmittedAt' # unprotAdmittedAt /\ unprotAdmittedAt # Never
           => unprotAdmittedAt' - unprotAdmittedAt >= Window]_vars
  BY <1>1
<1>. QED BY <1>2, InvariantHolds, PTL DEF Spec, UnprotDeauthRateLimited
====
