---------------------------- MODULE MCTrainingRun -----------------------------
(***************************************************************************)
(* TrainingRun for TLC: two calls, or a call and a loss; the runs of the   *)
(* plain tabular job, the shortest, may overlap when one is redelivered.   *)
(***************************************************************************)
EXTENDS TrainingRun

Plain == ~job.text /\ ~job.tunes

Bounded == calls' + losses' <= 2 /\ (overlapped' => Plain /\ calls' = 0)

MCInit == Init /\ (job.text => job.lora)

MCSpec == MCInit /\ [][Next /\ Bounded]_vars /\ Fairness

=============================================================================
