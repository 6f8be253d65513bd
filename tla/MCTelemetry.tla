----------------------------- MODULE MCTelemetry -----------------------------
(***************************************************************************)
(* Telemetry for TLC.                                                      *)
(***************************************************************************)
EXTENDS Telemetry, TLC

CONSTANTS d1, f1, b1, b2

\* Either nothing has happened yet and domains are blocked, or the users have
\* reported every key and two batches of repeats are queued, in opposite orders.
Reported(k) == [NewSighting(k) EXCEPT !.byhand = TRUE, !.notices = 1]

Repeats ==
    [b \in Batches |-> [state |-> "queued",
                        events |-> IF b = b1 THEN <<d1, f1>> ELSE <<f1, d1>>]]

MCInit ==
    /\ \/ Init
       \/ StartFrom(Repeats, <<Reported(d1), Reported(f1)>>, MaxVisits)
    /\ policy = [k \in Domains |-> "blocked"]

Symmetry == Permutations(Workers)

\* A worker is lost, a collector restarted or a batch failed once.
Bounded == losses' + failures' <= 1

MCSpec == MCInit /\ [][Next /\ Bounded]_vars

===============================================================================
