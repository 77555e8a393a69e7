------------------------------ MODULE PeLifecycle ------------------------------
(***************************************************************************)
(* What PE promises its callers about its lifecycle and its session table  *)
(* (spec 4.6): PE is closed, open or started; sessions exist only once PE  *)
(* has been opened, they come and go one at a time and only while PE is    *)
(* started, and closing PE ends every session.  pe_open, pe_start, pe_stop *)
(* and pe_close may fail or be refused, which leaves the phase as it was.  *)
(* LimSession implements this specification (LimSession!PeLifecycleSpec).  *)
(***************************************************************************)
CONSTANT Slots     \* the session table's slots

VARIABLES
    pe,            \* "closed", "open" or "started"
    sessions       \* the slots holding a valid session

vars == <<pe, sessions>>

Phases == {"closed", "open", "started"}

Init ==
    /\ pe = "closed"
    /\ sessions = {}

\* pe_open: PE opens with an empty session table.
Open ==
    /\ pe = "closed"
    /\ pe' = "open"
    /\ sessions' = {}

\* pe_close: every session ends.
Close ==
    /\ pe = "open"
    /\ pe' = "closed"
    /\ sessions' = {}

Start ==
    /\ pe = "open"
    /\ pe' = "started"
    /\ UNCHANGED sessions

\* pe_stop leaves the session table to pe_close.
Stop ==
    /\ pe = "started"
    /\ pe' = "open"
    /\ UNCHANGED sessions

\* A session is created in a free slot (association, BSS start, roam).
CreateSession ==
    /\ pe = "started"
    /\ \E s \in Slots \ sessions : sessions' = sessions \cup {s}
    /\ UNCHANGED pe

DeleteSession ==
    /\ pe = "started"
    /\ \E s \in sessions : sessions' = sessions \ {s}
    /\ UNCHANGED pe

Next == Open \/ Close \/ Start \/ Stop \/ CreateSession \/ DeleteSession

Spec == Init /\ [][Next]_vars

\* The abstract guarantee: a closed PE holds no session.
ClosedHoldsNoSession == pe = "closed" => sessions = {}

====
