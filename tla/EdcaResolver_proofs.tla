--------------------------- MODULE EdcaResolver_proofs ---------------------------
(* Proofs about lim_set_active_edca_params: the downgrade scan always ends *)
(* on an AC below the one it starts from whose ACM bit is clear, or on     *)
(* Best Effort.                                                            *)
EXTENDS EdcaResolver, TLAPS

\* The equation the downgrade loop's scan satisfies for ACM bits a.
IsScan(f, a) == f = [i \in ACs |-> IF i > BE /\ a[i] # 0 THEN f[i - 1] ELSE i]

\* The scan written out: the highest AC at or below i, in enum order, whose
\* ACM bit is clear, or EDCA_AC_BE.
ScanOf(a) ==
    [i \in ACs |-> IF i = BE \/ a[i] = 0 THEN i
                   ELSE IF i - 1 = BE \/ a[i - 1] = 0 THEN i - 1
                   ELSE IF i - 2 = BE \/ a[i - 2] = 0 THEN i - 2
                   ELSE BE]

LEMMA ScanExists ==
    ASSUME NEW a \in [ACs -> {0, 1}]
    PROVE  IsScan(ScanOf(a), a)
BY DEF IsScan, ScanOf, ACs, BE, BK, VI, VO

\* Any solution of the scan's equation ends, from i, on an AC no higher
\* than i whose ACM bit is clear, or on Best Effort.
LEMMA ScanEnds ==
    ASSUME NEW a \in [ACs -> {0, 1}], NEW f, IsScan(f, a), NEW i \in ACs
    PROVE  /\ f[i] \in ACs
           /\ f[i] <= i
           /\ a[f[i]] = 0 \/ f[i] = BE
<1>1. /\ f[BE] = BE
      /\ f[BK] = IF a[BK] # 0 THEN f[BE] ELSE BK
      /\ f[VI] = IF a[VI] # 0 THEN f[BK] ELSE VI
      /\ f[VO] = IF a[VO] # 0 THEN f[VI] ELSE VO
  BY DEF IsScan, ACs, BE, BK, VI, VO
<1>. QED BY <1>1 DEF ACs, BE, BK, VI, VO

\* The scan the code runs for an AC that needs a downgrade stops below it,
\* on an AC whose ACM bit is clear or on Best Effort.
LEMMA DowngradeTargetUsable ==
    ASSUME NEW a \in [ACs -> {0, 1}], NEW ac \in ACs \ {BE}
    PROVE  /\ DowngradeTarget(a, ac) \in ACs
           /\ DowngradeTarget(a, ac) # ac
           /\ a[DowngradeTarget(a, ac)] = 0 \/ DowngradeTarget(a, ac) = BE
<1> DEFINE scan == CHOOSE f : IsScan(f, a)
<1>1. IsScan(scan, a)
  BY ScanExists
<1>2. DowngradeTarget(a, ac) = scan[ac - 1]
  BY DEF DowngradeTarget, IsScan
<1>3. ac - 1 \in ACs
  BY DEF ACs, BE, BK, VI, VO
<1>. QED BY <1>1, <1>2, <1>3, ScanEnds DEF ACs, BE, BK, VI, VO

\* lim_set_active_edca_params is rerun on every change of the ACM bits or
\* the admit mask, so the active set is always what it computes from them.
EInv == TypeOK /\ active = LimSetActiveEdcaParams(acm, admitted)

LEMMA ResolveType ==
    ASSUME NEW a \in [ACs -> {0, 1}], NEW adm \in SUBSET ACs
    PROVE  LimSetActiveEdcaParams(a, adm) \in [ACs -> ACs]
BY DowngradeTargetUsable DEF LimSetActiveEdcaParams, NeedsDowngrade

LEMMA InitEInv == Init => EInv
BY DEF Init, EInv, TypeOK, LimSetActiveEdcaParams, NeedsDowngrade

LEMMA NextEInv == EInv /\ [Next]_vars => EInv'
<1> SUFFICES ASSUME EInv, [Next]_vars PROVE EInv'
  OBVIOUS
<1>1. CASE NewEdcaParams
  <2>1. PICK a \in [ACs -> {0, 1}] :
          acm' = a /\ active' = LimSetActiveEdcaParams(a, admitted)
          /\ UNCHANGED admitted
    BY <1>1 DEF NewEdcaParams
  <2>. QED BY <2>1, ResolveType DEF EInv, TypeOK
<1>2. CASE AdmissionChange
  <2>1. PICK ac \in ACs :
          LET adm == IF ac \in admitted THEN admitted \ {ac} ELSE admitted \cup {ac}
          IN  /\ admitted' = adm
              /\ active' = LimSetActiveEdcaParams(acm, adm)
              /\ UNCHANGED acm
    BY <1>2 DEF AdmissionChange
  <2>2. admitted' \in SUBSET ACs
    BY <2>1 DEF EInv, TypeOK
  <2>. QED BY <2>1, <2>2, ResolveType DEF EInv, TypeOK
<1>3. CASE UNCHANGED vars
  BY <1>3 DEF vars, EInv, TypeOK
<1>. QED BY <1>1, <1>2, <1>3 DEF Next

\* The active set the code computes is usable: an AC keeps its own
\* parameters only when its ACM bit is clear, it is admitted or it is Best
\* Effort, and a downgraded AC takes those of an AC whose ACM bit is clear
\* or Best Effort's.
LEMMA EInvUsable == EInv => ActiveParamsUsable
<1> SUFFICES ASSUME EInv, NEW ac \in ACs
             PROVE  \/ active[ac] = ac /\ (acm[ac] = 0 \/ ac = BE \/ ac \in admitted)
                    \/ active[ac] # ac /\ (acm[active[ac]] = 0 \/ active[ac] = BE)
  BY DEF ActiveParamsUsable
<1>1. CASE NeedsDowngrade(acm, admitted, ac)
  <2>1. active[ac] = DowngradeTarget(acm, ac) /\ ac # BE
    BY <1>1 DEF EInv, LimSetActiveEdcaParams, NeedsDowngrade
  <2>. QED BY <2>1, DowngradeTargetUsable DEF EInv, TypeOK
<1>2. CASE ~NeedsDowngrade(acm, admitted, ac)
  <2>1. active[ac] = ac
    BY <1>2 DEF EInv, LimSetActiveEdcaParams
  <2>2. acm[ac] \in {0, 1}
    BY DEF EInv, TypeOK
  <2>. QED BY <1>2, <2>1, <2>2 DEF NeedsDowngrade
<1>. QED BY <1>1, <1>2

\* The EDCA model keeps its types for any sequence of new parameter sets
\* and ADDTS/DELTS.
THEOREM TypeCorrect == Spec => []TypeOK
<1>1. EInv => TypeOK
  BY DEF EInv
<1>. QED BY InitEInv, NextEInv, <1>1, PTL DEF Spec

\* lim_set_active_edca_params never leaves an AC transmitting with
\* parameters it may not use without admission, whatever sequence of new
\* EDCA sets (any ACM bits) and ADDTS/DELTS the session goes through.
THEOREM ParamsAlwaysUsable == Spec => []ActiveParamsUsable
BY InitEInv, NextEInv, EInvUsable, PTL DEF Spec
====

