----------------------------- MODULE MCLimSession -----------------------------
(* Two session slots (a roam from a full table needs them), two APs, and  *)
(* at most two indications or descriptors outstanding.                     *)
EXTENDS LimSession

MCMaxBssId == 2
MCBSSIDs == {"ap1", "ap2"}
MCMaxPending == 2
====
