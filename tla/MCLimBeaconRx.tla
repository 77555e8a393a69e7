---------------------------- MODULE MCLimBeaconRx ----------------------------
(* Model-checking instance of LimBeaconRx: two channels, WPA session.      *)
EXTENDS LimBeaconRx

MCChannels == {1, 6}
MCOperChannel == 6
MCEncType == "WPA"
MCCurPrivacy == 1
MCCurMisc == 1

\* The most favourable environment for the detector: every firmware scan
\* ends, and a beacon with a successful directed probe reaches PE whenever
\* the firmware is not scanning infinitely often, even if scans keep
\* restarting (strong fairness: that beacon is only intermittently
\* enabled).
FavourableSpec == Spec /\ SF_vars(RxFrame("Beacon", TRUE) /\ ~fwInScan)
                      /\ WF_vars(FwScanToggle /\ fwInScan)
====
