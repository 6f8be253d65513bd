------------------------------- MODULE JobLife -------------------------------
(***************************************************************************)
(* What a training job's row goes through, without its calls, messages and *)
(* workers.  A job that has one task at a time lives as its row promises:  *)
(* it is trained at most once for each time it was queued, and what its    *)
(* training has read of a cancellation stands.  Of a job with two tasks at *)
(* once nothing is promised.                                               *)
(***************************************************************************)
CONSTANT Jobs

VARIABLES
    status,   \* training_jobs.status
    model,    \* training_jobs.model_path: is it set
    stage     \* where the job's only task is

vars == <<status, model, stage>>

Init ==
    /\ status = [j \in Jobs |-> "absent"]
    /\ model = [j \in Jobs |-> FALSE]
    /\ stage = [j \in Jobs |-> "none"]

Moves(j, from, to) == stage[j] = from /\ stage' = [stage EXCEPT ![j] = to]

Becomes(j, new) == status' = [status EXCEPT ![j] = new]

Create(j) ==
    /\ Becomes(j, "queued")
    /\ UNCHANGED model
    /\ Moves(j, "none", "waiting")

\* A user's cancellation may come at any time, even over an outcome.
Cancel(j) ==
    /\ Becomes(j, "cancelled")
    /\ UNCHANGED model
    /\ stage[j] \notin {"none", "doubled"}
    /\ UNCHANGED stage

\* The task looks at the row, and leaves it if the job is cancelled.
Look(j) ==
    /\ status[j] = "queued"
    /\ UNCHANGED <<status, model>>
    /\ Moves(j, "waiting", "looked")

\* It writes over a cancellation only if that came after it had looked.
Start(j) ==
    /\ Becomes(j, "running")
    /\ UNCHANGED model
    /\ Moves(j, "looked", "training")

LookAgain(j) ==
    /\ status[j] = "running"
    /\ UNCHANGED <<status, model>>
    /\ Moves(j, "training", "ending")

Complete(j) ==
    /\ Becomes(j, "completed")
    /\ model' = [model EXCEPT ![j] = TRUE]
    /\ Moves(j, "ending", "over")

Fail(j) ==
    /\ Becomes(j, "failed")
    /\ UNCHANGED model
    /\ Moves(j, "ending", "over")

\* The task is withdrawn, dropped, killed or lost for good: the row stays.
Stop(j) ==
    /\ UNCHANGED <<status, model>>
    /\ stage[j] \in {"waiting", "looked", "training", "ending"}
    /\ stage' = [stage EXCEPT ![j] = "over"]

\* Only a retry revives a job; the path goes, unless it came since it was read.
Retry(j) ==
    /\ Becomes(j, "queued")
    /\ \E left \in {FALSE, model[j]} : model' = [model EXCEPT ![j] = left]
    /\ Moves(j, "over", "waiting")

\* A second task next to the first; from then on the row may be anything.
Double(j) ==
    /\ \E s \in {"queued", "running", "completed", "failed", "cancelled"} : Becomes(j, s)
    /\ \E left \in BOOLEAN : model' = [model EXCEPT ![j] = left]
    /\ stage' = [stage EXCEPT ![j] = "doubled"]
    /\ stage[j] # "none"

Next ==
    \E j \in Jobs :
        \/ Create(j) \/ Cancel(j) \/ Retry(j)
        \/ Look(j) \/ Start(j) \/ LookAgain(j) \/ Complete(j) \/ Fail(j)
        \/ Stop(j) \/ Double(j)

Spec == Init /\ [][Next]_vars

=============================================================================
