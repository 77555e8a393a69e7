----------------------------- MODULE EdcaResolver -----------------------------
(***************************************************************************)
(* The choice of active EDCA parameters of a session                       *)
(* (lim_set_active_edca_params, src/core/mac/src/pe/lim/lim_send_messages.c)*)
(* as the AP's advertised ACM bits and the session's uplink admissions     *)
(* change.  Access categories are numbered as enum EDCA_AC_*: BE = 0,      *)
(* BK = 1, VI = 2, VO = 3; their 802.11 priority order is BK < BE < VI < VO.*)
(* A parameter record is named by the AC it was advertised for, so        *)
(* active[ac] = c means gLimEdcaParamsActive[ac] = edca_params[c].         *)
(***************************************************************************)
EXTENDS Naturals

BE == 0
BK == 1
VI == 2
VO == 3
ACs == {BE, BK, VI, VO}

\* 802.11 user-priority order of the access categories.
Prio(ac) == CASE ac = BK -> 0 [] ac = BE -> 1 [] ac = VI -> 2 [] ac = VO -> 3

VARIABLES
    acm,        \* edca_params[ac].aci.acm as last advertised by the AP
    admitted,   \* ACs whose bit is set in gAcAdmitMask[SIR_MAC_DIRECTION_UPLINK]
    active      \* gLimEdcaParamsActive, as the AC whose record it holds

vars == <<acm, admitted, active>>

-----------------------------------------------------------------------------
(* lim_set_active_edca_params                                               *)

\* The inner loop for (i = ac - 1; i > EDCA_AC_BE && acm[i] != 0; i--):
\* the first AC at or below ac - 1, in enum order, whose ACM bit is clear,
\* or EDCA_AC_BE.
DowngradeTarget(a, ac) ==
    LET scan[i \in ACs] == IF i > BE /\ a[i] # 0 THEN scan[i - 1] ELSE i
    IN  scan[ac - 1]

\* Variant: the outer loop stops before EDCA_AC_VO.
NeedsDowngradeOffByOne(a, adm, ac) ==
    ac # BE /\ ac < VO /\ a[ac] = 1 /\ ac \notin adm

\* An AC needs a downgrade when its ACM bit is set and it is not admitted
\* in the uplink direction; the loop runs from EDCA_AC_BK to EDCA_AC_VO.
NeedsDowngrade(a, adm, ac) == ac # BE /\ a[ac] = 1 /\ ac \notin adm

\* gLimEdcaParamsActive after lim_set_active_edca_params(a) with the uplink
\* admissions adm: start from the local set, downgrade where needed.
LimSetActiveEdcaParams(a, adm) ==
    [ac \in ACs |-> IF NeedsDowngrade(a, adm, ac) THEN DowngradeTarget(a, ac)
                                                  ELSE ac]

-----------------------------------------------------------------------------
(* Actions                                                                 *)

\* Session creation: no ACM, no admissions, the local set is active.
Init ==
    /\ acm = [ac \in ACs |-> 0]
    /\ admitted = {}
    /\ active = [ac \in ACs |-> ac]

\* The AP advertises new EDCA parameters (association response or a beacon
\* with a new EDCA parameter-set count); lim_set_active_edca_params is run
\* on them.
NewEdcaParams ==
    \E a \in [ACs -> {0, 1}] :
        /\ acm' = a
        /\ active' = LimSetActiveEdcaParams(a, admitted)
        /\ UNCHANGED admitted

\* An ADDTS response admits ac uplink, or a DELTS removes it; the admit
\* mask changes and the active set is recomputed.
AdmissionChange ==
    \E ac \in ACs :
        LET adm == IF ac \in admitted THEN admitted \ {ac} ELSE admitted \cup {ac}
        IN  /\ admitted' = adm
            /\ active' = LimSetActiveEdcaParams(acm, adm)
            /\ UNCHANGED acm

Next == NewEdcaParams \/ AdmissionChange

Spec == Init /\ [][Next]_vars

-----------------------------------------------------------------------------
(* Properties                                                              *)

TypeOK ==
    /\ acm \in [ACs -> {0, 1}]
    /\ admitted \subseteq ACs
    /\ active \in [ACs -> ACs]

\* Every AC transmits with parameters it may use without admission: its own
\* when its ACM bit is clear or it is admitted, otherwise those of an AC
\* whose ACM bit is clear, or Best Effort's, which is never enforced.  It
\* must hold after any sequence of new EDCA sets and ADDTS/DELTS.
ActiveParamsUsable ==
    \A ac \in ACs :
        \/ active[ac] = ac /\ (acm[ac] = 0 \/ ac = BE \/ ac \in admitted)
        \/ active[ac] # ac /\ (acm[active[ac]] = 0 \/ active[ac] = BE)

\* Spec 4.4: a downgraded AC takes, scanning down in priority order from the
\* one below it, the first AC whose ACM bit is clear, stopping at Best
\* Effort, which is the floor.
SpecDowngradeTarget(a, ac) ==
    LET below == {c \in ACs : Prio(BE) <= Prio(c) /\ Prio(c) < Prio(ac)
                              /\ (a[c] = 0 \/ c = BE)}
    IN  IF below = {} THEN BE
        ELSE CHOOSE c \in below : \A d \in below : Prio(d) <= Prio(c)

\* The active set spec 4.4 prescribes for ACM bits a and admissions adm.
SpecResolve(a, adm) ==
    [ac \in ACs |-> IF NeedsDowngrade(a, adm, ac) THEN SpecDowngradeTarget(a, ac)
                                                  ELSE ac]

\* lim_set_active_edca_params computes the active set spec 4.4 prescribes;
\* in particular no AC is downgraded below Best Effort, which its comment
\* calls the lowest AC.
ActiveMatchesSpec == active = SpecResolve(acm, admitted)

====
