--------------------------- MODULE SnapshotStore ---------------------------
(***************************************************************************)
(* What the database module promises the host: a store of objects that     *)
(* after a crash or a shutdown is as the last snapshot found it, however   *)
(* it was changed since.                                                   *)
(***************************************************************************)
CONSTANTS Index, Data, Absent, Blank, NoTable

VARIABLES
    up,           \* the host uses the store
    live,         \* what is in the objects
    saved         \* what was in them at the last snapshot, or NoTable

vars == <<up, live, saved>>

Nothing == [i \in Index |-> Absent]

Init == ~up /\ live = Nothing /\ saved = NoTable

(* An object is made, changed or removed, or writing it fails.             *)
Change ==
    /\ up
    /\ \E i \in Index, v \in Data \cup {Absent, Blank} : live' = [live EXCEPT ![i] = v]
    /\ UNCHANGED <<up, saved>>

Snapshot == up /\ saved' = live /\ UNCHANGED <<up, live>>

(* A store without a snapshot is a new one.                                *)
Open ==
    /\ ~up
    /\ live' = IF saved = NoTable THEN Nothing ELSE saved
    /\ up' = TRUE
    /\ UNCHANGED saved

CloseOrCrash == up /\ up' = FALSE /\ live' = Nothing /\ UNCHANGED saved

Next == Change \/ Snapshot \/ Open \/ CloseOrCrash

Spec == Init /\ [][Next]_vars
=============================================================================
