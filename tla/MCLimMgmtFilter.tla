--------------------------- MODULE MCLimMgmtFilter ---------------------------
(* A 2-bit tick counter, a window of 2 ticks and 9 ticks of real time: the *)
(* counter wraps twice, and frames fall inside and outside the window.     *)
EXTENDS LimMgmtFilter

MCTickMod == 4
MCWindow == 2
MCMaxTime == 9
====
