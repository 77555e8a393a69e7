------------------------------- MODULE MCGreenAp ------------------------------
(* Model-checking instance of GreenAp with the driver's build constants.   *)
EXTENDS GreenAp

MCPsOnTime == 0          \* GREEN_AP_PS_ON_TIME
MCGreenApCfg == TRUE     \* enable2x2 and enableGreenAP configured
MCMaxNodes == 3
====
