----------------------------- MODULE TrainingJob ------------------------------
(***************************************************************************)
(* Training jobs: TrainingService.create_job, cancel_job and retry_job in  *)
(* the API, and the "training.train_model" task in the Celery workers.     *)
(*                                                                         *)
(* A run is one execution of the training body.  In-process it lives and   *)
(* dies with its worker; in a container it outlives the worker that waits  *)
(* for it.  API calls and runs work on the job's row in transactions of    *)
(* their own at READ COMMITTED: reads and commits are separate steps.  The *)
(* ORM writes a column only when the new value differs from the loaded one. *)
(***************************************************************************)
EXTENDS Naturals

CONSTANTS
    Jobs,          \* rows of training_jobs
    Sessions,      \* concurrent API calls
    Runs,          \* executions of the training body
    NoJob,
    MaxTasks,      \* bound on the tasks ever sent
    MaxCalls,      \* bound on API calls
    MaxCrashes     \* bound on lost workers and failed runs

ASSUME NoJobIsNoRow == NoJob \notin Jobs

ASSUME BoundsAreNats == MaxTasks \in Nat /\ MaxCalls \in Nat /\ MaxCrashes \in Nat

\* "training.train_model" messages, in the order they are sent.
Messages == 1 .. MaxTasks
NoMessage == 0

VARIABLES
    isolated,      \* settings.TRAINING_USE_DOCKER
    status,        \* training_jobs.status; "absent": no row yet
    model,         \* training_jobs.model_path: is it set
    task,          \* training_jobs.celery_task_id
    message,       \* the broker's messages
    revoked,       \* messages the workers were told to revoke
    api,           \* the API calls
    run,           \* the runs
    lost,          \* history: jobs whose task was dropped while it was due
    redelivered,   \* history: jobs a message of which was ever redelivered
    overtaken,     \* history: jobs retried over a run that had loaded their row
    doubled,       \* history: jobs retried while their former task was under way
    calls, crashes

row == <<status, model, task>>
history == <<lost, redelivered, overtaken, doubled>>
vars == <<isolated, row, message, revoked, api, run, history, calls, crashes>>

-----------------------------------------------------------------------------
(* Types                                                                   *)

Unsettled == {"queued", "running"}
Terminal == {"completed", "failed", "cancelled"}
Status == {"absent"} \cup Unsettled \cup Terminal

Message == [job : Jobs \cup {NoJob},
            state : {"unsent", "queued", "claimed", "acked"}]

\* `task` and `had` are what the call loaded of celery_task_id and model_path.
Call == [pc : {"idle", "sending", "sent", "cancelling", "revoked", "retrying"},
         job : Jobs \cup {NoJob},
         task : Messages \cup {NoMessage},
         had : BOOLEAN]

\* `seen` and `had` are what the run loaded of status and model_path.  A worker
\* waits for the run and acknowledges its message only if it is attached.
Run == [pc : {"idle", "taken", "loaded", "started", "training", "trained",
              "guarded", "done"},
        attached : BOOLEAN,
        msg : Messages \cup {NoMessage},
        job : Jobs \cup {NoJob},
        seen : Status,
        had : BOOLEAN,
        outcome : {"none", "completed", "failed"}]

TypeOK ==
    /\ isolated \in BOOLEAN
    /\ status \in [Jobs -> Status]
    /\ model \in [Jobs -> BOOLEAN]
    /\ task \in [Jobs -> Messages \cup {NoMessage}]
    /\ message \in [Messages -> Message]
    /\ revoked \subseteq Messages
    /\ api \in [Sessions -> Call]
    /\ run \in [Runs -> Run]
    /\ lost \subseteq Jobs /\ redelivered \subseteq Jobs
    /\ overtaken \subseteq Jobs /\ doubled \subseteq Jobs
    /\ calls \in Nat /\ crashes \in Nat

NoCall == [pc |-> "idle", job |-> NoJob, task |-> NoMessage, had |-> FALSE]

NoRun == [pc |-> "idle", attached |-> FALSE, msg |-> NoMessage, job |-> NoJob,
          seen |-> "absent", had |-> FALSE, outcome |-> "none"]

Init ==
    /\ isolated \in BOOLEAN
    /\ status = [j \in Jobs |-> "absent"]
    /\ model = [j \in Jobs |-> FALSE]
    /\ task = [j \in Jobs |-> NoMessage]
    /\ message = [m \in Messages |-> [job |-> NoJob, state |-> "unsent"]]
    /\ revoked = {}
    /\ api = [s \in Sessions |-> NoCall]
    /\ run = [r \in Runs |-> NoRun]
    /\ lost = {} /\ redelivered = {} /\ overtaken = {} /\ doubled = {}
    /\ calls = 0 /\ crashes = 0

\* What a flush leaves in a column: the new value if it differs from the
\* loaded one, and otherwise whatever is stored.
Written(stored, loaded, new) == IF new = loaded THEN stored ELSE new

-----------------------------------------------------------------------------
(* TrainingService: create_job, cancel_job, retry_job                      *)

Opens(s, call) ==
    /\ api[s].pc = "idle"
    /\ calls < MaxCalls
    /\ calls' = calls + 1
    /\ api' = [api EXCEPT ![s] = call]

\* The row is committed as "queued"; the task is sent after that.
CreateJob(s, j) ==
    /\ status[j] = "absent"
    /\ status' = [status EXCEPT ![j] = "queued"]
    /\ Opens(s, [NoCall EXCEPT !.pc = "sending", !.job = j])
    /\ UNCHANGED <<isolated, model, task, message, revoked, run, history,
                   crashes>>

\* celery_app.send_task
SendTask(s, m) ==
    /\ api[s].pc = "sending"
    /\ message[m].state = "unsent"
    /\ \A n \in Messages : n < m => message[n].state # "unsent"
    /\ message' = [message EXCEPT ![m] = [job |-> api[s].job, state |-> "queued"]]
    /\ api' = [api EXCEPT ![s] = [@ EXCEPT !.pc = "sent", !.task = m]]
    /\ UNCHANGED <<isolated, row, revoked, run, history, calls, crashes>>

\* The task's id is committed once the task may be running already.
CommitTask(s) ==
    /\ api[s].pc = "sent"
    /\ task' = [task EXCEPT ![api[s].job] = api[s].task]
    /\ api' = [api EXCEPT ![s] = NoCall]
    /\ UNCHANGED <<isolated, status, model, message, revoked, run, history,
                   calls, crashes>>

OpenCancel(s, j) ==
    /\ status[j] \in Unsettled
    /\ Opens(s, [NoCall EXCEPT !.pc = "cancelling", !.job = j, !.task = task[j]])
    /\ UNCHANGED <<isolated, row, message, revoked, run, history, crashes>>

\* control.revoke(terminate=True), a broadcast to the workers; without a task
\* id there is nothing to revoke.
RevokeTask(s) ==
    /\ api[s].pc = "cancelling"
    /\ revoked' = revoked \cup ({api[s].task} \ {NoMessage})
    /\ api' = [api EXCEPT ![s].pc = "revoked"]
    /\ UNCHANGED <<isolated, row, message, run, history, calls, crashes>>

CommitCancel(s) ==
    /\ api[s].pc = "revoked"
    /\ status' = [status EXCEPT ![api[s].job] = "cancelled"]
    /\ api' = [api EXCEPT ![s] = NoCall]
    /\ UNCHANGED <<isolated, model, task, message, revoked, run, history,
                   calls, crashes>>

OpenRetry(s, j) ==
    /\ status[j] \in {"failed", "cancelled"}
    /\ Opens(s, [pc |-> "retrying", job |-> j, task |-> task[j], had |-> model[j]])
    /\ UNCHANGED <<isolated, row, message, revoked, run, history, crashes>>

\* A run has loaded what a retry takes back: the path, the cancellation.
HasLoaded(r, j) ==
    /\ run[r].job = j /\ run[r].pc \in {"training", "trained", "guarded"}
    /\ run[r].had \/ run[r].seen = "cancelled"

\* Where the tasks of a job are: still to be sent, queued, or being executed.
Senders(j) == {s \in Sessions : api[s].pc = "sending" /\ api[s].job = j}
Queued(j) == {m \in Messages : message[m].state = "queued" /\ message[m].job = j}
Active(j) == {r \in Runs : run[r].pc \notin {"idle", "done"} /\ run[r].job = j}
UnderWay(j) == Senders(j) # {} \/ Queued(j) # {} \/ Active(j) # {}

CommitRetry(s) ==
    LET j == api[s].job IN
    /\ api[s].pc = "retrying"
    /\ status' = [status EXCEPT ![j] = "queued"]
    /\ model' = [model EXCEPT ![j] = Written(@, api[s].had, FALSE)]
    /\ task' = [task EXCEPT ![j] = Written(@, api[s].task, NoMessage)]
    /\ api' = [api EXCEPT ![s] = [NoCall EXCEPT !.pc = "sending", !.job = j]]
    /\ overtaken' = IF \E r \in Runs : HasLoaded(r, j) THEN overtaken \cup {j}
                                                        ELSE overtaken
    /\ doubled' = IF UnderWay(j) THEN doubled \cup {j} ELSE doubled
    /\ UNCHANGED <<isolated, message, revoked, run, lost, redelivered, calls,
                   crashes>>

\* The API process dies, or the broker refuses the task: a committed job is
\* never sent, or a revoked one never becomes "cancelled".
AbandonCall(s) ==
    /\ api[s].pc # "idle"
    /\ lost' = IF api[s].pc \in {"sending", "revoked"} THEN lost \cup {api[s].job}
                                                      ELSE lost
    /\ api' = [api EXCEPT ![s] = NoCall]
    /\ UNCHANGED <<isolated, row, message, revoked, run, redelivered,
                   overtaken, doubled, calls, crashes>>

-----------------------------------------------------------------------------
(* Workers: the task and its training body                                 *)

Moves(r, new) ==
    /\ run' = [run EXCEPT ![r] = new]
    /\ UNCHANGED <<isolated, task, revoked, api, redelivered, overtaken,
                   doubled, calls>>

TakeMessage(r, m) ==
    /\ run[r].pc = "idle"
    /\ message[m].state = "queued"
    /\ message' = [message EXCEPT ![m].state = "claimed"]
    /\ Moves(r, [NoRun EXCEPT !.pc = "taken", !.attached = TRUE, !.msg = m,
                              !.job = message[m].job])
    /\ UNCHANGED <<status, model, lost, crashes>>

\* A worker that knows a task as revoked discards it.  If it is a redelivery,
\* the lost run may have left the job "running".
DropRevoked(m) ==
    /\ message[m].state = "queued"
    /\ m \in revoked
    /\ message' = [message EXCEPT ![m].state = "acked"]
    /\ lost' = lost \cup ({message[m].job} \cap redelivered)
    /\ UNCHANGED <<isolated, row, revoked, api, run, redelivered, overtaken,
                   doubled, calls, crashes>>

\* A run lets a cancelled job be.
IgnoresCancel(s) == FALSE
Withdrawn(s) == s = "cancelled"

LoadJob(r) ==
    LET s == status[run[r].job] IN
    /\ run[r].pc = "taken"
    /\ Moves(r, [run[r] EXCEPT !.pc = IF Withdrawn(s) THEN "done" ELSE "loaded",
                               !.seen = s])
    /\ UNCHANGED <<status, model, message, lost, crashes>>

\* "running" is committed over whatever is stored by now.
StartTraining(r) ==
    LET j == run[r].job IN
    /\ run[r].pc = "loaded"
    /\ status' = [status EXCEPT ![j] = Written(@, run[r].seen, "running")]
    /\ Moves(r, [run[r] EXCEPT !.pc = "started"])
    /\ UNCHANGED <<model, message, lost, crashes>>

\* The commit expired the row: it is loaded again, and once more after the
\* auto-tuning some jobs ask for.
ReloadJob(r) ==
    /\ run[r].pc \in {"started", "training"}
    /\ Moves(r, [run[r] EXCEPT !.pc = "training", !.seen = status[run[r].job],
                               !.had = model[run[r].job]])
    /\ UNCHANGED <<status, model, message, lost, crashes>>

TrainModel(r) ==
    /\ run[r].pc = "training"
    /\ \E o \in {"completed", "failed"} :
           Moves(r, [run[r] EXCEPT !.pc = "trained", !.outcome = o])
    /\ UNCHANGED <<status, model, message, lost, crashes>>

\* The race guard, a SELECT of its own; a cancelled job's run is rolled back.
GuardStatus(r) ==
    LET s == status[run[r].job] IN
    /\ run[r].pc = "trained"
    /\ Moves(r, [run[r] EXCEPT !.pc = IF Withdrawn(s) THEN "done" ELSE "guarded"])
    /\ UNCHANGED <<status, model, message, lost, crashes>>

\* The artifact's path is set by a run that completes, and only by it.
ForgetsModel(r) == model[run[r].job]
ModelAfter(r) == IF run[r].outcome = "completed"
                 THEN Written(model[run[r].job], run[r].had, TRUE)
                 ELSE model[run[r].job]

CommitOutcome(r) ==
    LET j == run[r].job IN
    /\ run[r].pc = "guarded"
    /\ status' = [status EXCEPT ![j] = Written(@, run[r].seen, run[r].outcome)]
    /\ model' = [model EXCEPT ![j] = ModelAfter(r)]
    /\ Moves(r, [run[r] EXCEPT !.pc = "done"])
    /\ UNCHANGED <<message, lost, crashes>>

\* The worker acknowledges late, after the body has returned.
Acked(r) == IF run[r].attached
            THEN [message EXCEPT ![run[r].msg].state = "acked"] ELSE message

FinishTask(r) ==
    /\ run[r].pc = "done"
    /\ message' = Acked(r)
    /\ Moves(r, NoRun)
    /\ UNCHANGED <<status, model, lost, crashes>>

-----------------------------------------------------------------------------
(* Lost, killed and stopped runs                                           *)

\* What remains of a run when its worker dies: nothing in-process, the
\* container otherwise, if it was launched.
Remains(r) ==
    (IF isolated THEN {[run[r] EXCEPT !.attached = FALSE]} ELSE {NoRun})
    \cup (IF run[r].pc = "taken" THEN {NoRun} ELSE {})

\* task_reject_on_worker_lost puts the message back.
StaysClaimed == "claimed"
TaskState == "retry"   \* a state of Celery's tasks, not of a message
AfterLoss == "queued"

WorkerLost(r) ==
    /\ run[r].pc # "idle" /\ run[r].attached
    /\ crashes < MaxCrashes
    /\ crashes' = crashes + 1
    /\ \E left \in Remains(r) : run' = [run EXCEPT ![r] = left]
    /\ message' = [message EXCEPT ![run[r].msg].state = AfterLoss]
    /\ redelivered' = redelivered \cup {run[r].job}
    /\ UNCHANGED <<isolated, row, revoked, api, lost, overtaken, doubled, calls>>

\* A run that is over has done its part.
Cut(r) == IF run[r].pc = "done" THEN {} ELSE {run[r].job}

\* A worker that executes a revoked task kills the process; the task is over.
KillRevoked(r) ==
    /\ run[r].pc # "idle" /\ run[r].attached
    /\ run[r].msg \in revoked
    /\ \E left \in Remains(r) : run' = [run EXCEPT ![r] = left]
    /\ message' = Acked(r)
    /\ lost' = lost \cup Cut(r)
    /\ UNCHANGED <<isolated, row, revoked, api, redelivered, overtaken, doubled,
                   calls, crashes>>

\* A container dies, cannot be launched, or is removed at the soft time limit,
\* and nobody looks at its exit code; in-process, the database fails outside the
\* body's try.  The task is over.
RunFails(r) ==
    /\ run[r].pc # "idle"
    /\ crashes < MaxCrashes
    /\ crashes' = crashes + 1
    /\ message' = Acked(r)
    /\ lost' = lost \cup Cut(r)
    /\ Moves(r, NoRun)
    /\ UNCHANGED <<status, model>>

-----------------------------------------------------------------------------

ApiStep(s) ==
    \/ \E j \in Jobs : CreateJob(s, j) \/ OpenCancel(s, j) \/ OpenRetry(s, j)
    \/ \E m \in Messages : SendTask(s, m)
    \/ CommitTask(s)
    \/ RevokeTask(s)
    \/ CommitCancel(s)
    \/ CommitRetry(s)
    \/ AbandonCall(s)

RunStep(r) ==
    \/ LoadJob(r)
    \/ StartTraining(r)
    \/ TrainModel(r)
    \/ GuardStatus(r)
    \/ CommitOutcome(r)
    \/ FinishTask(r)

Next ==
    \/ \E s \in Sessions : ApiStep(s)
    \/ \E r \in Runs :
           \/ \E m \in Messages : TakeMessage(r, m)
           \/ RunStep(r) \/ ReloadJob(r)
           \/ WorkerLost(r) \/ KillRevoked(r) \/ RunFails(r)
    \/ \E m \in Messages : DropRevoked(m)

Spec == Init /\ [][Next]_vars

\* A call that is not abandoned goes on, workers take what is queued, and a run
\* proceeds: training terminates, if only at the time limit.
Fairness ==
    /\ \A s \in Sessions :
           /\ WF_vars(\E m \in Messages : SendTask(s, m))
           /\ WF_vars(CommitCancel(s))
    /\ \A r \in Runs :
           /\ WF_vars(\E m \in Messages : TakeMessage(r, m))
           /\ WF_vars(RunStep(r))
           /\ WF_vars(run[r].pc = "started" /\ ReloadJob(r))

FairSpec == Spec /\ Fairness

-----------------------------------------------------------------------------
(* Properties                                                              *)

\* Somebody still has to do something for the job: a call that will send its
\* task or record its cancellation, a message, or a run.
Carried(j) ==
    \/ \E s \in Sessions : api[s].job = j /\ api[s].pc \in {"sending", "revoked"}
    \/ \E m \in Messages : message[m].job = j /\ message[m].state = "queued"
    \/ \E r \in Runs : run[r].job = j /\ run[r].pc \notin {"idle", "done"}

\* However cancels, retries, redeliveries and left-over containers overlap, a
\* job that is not settled is carried, unless its task was dropped.
UnsettledIsCarried ==
    \A j \in Jobs : status[j] \in Unsettled => j \in lost \/ Carried(j)

\* The inductive invariant.  A task that is revoked may be discarded, and a run
\* that found the job finished when it loaded it may leave the status as it is:
\* neither can be relied on.
InCharge(r) ==
    /\ run[r].pc \notin {"idle", "done"}
    /\ run[r].pc \in {"training", "trained", "guarded"} =>
           run[r].seen \notin {"completed", "failed"}

Relied(j) ==
    \/ \E s \in Sessions : api[s].job = j /\ api[s].pc \in {"sending", "revoked"}
    \/ \E m \in Messages : /\ message[m].job = j /\ message[m].state = "queued"
                           /\ m \in revoked => j \in redelivered
    \/ \E r \in Runs : run[r].job = j /\ InCharge(r)

\* The task recorded for a job is a message sent for it.
TaskOf(m, j) == m # NoMessage => message[m].job = j /\ message[m].state # "unsent"

RunInv(r) ==
    /\ run[r].pc # "idle" => run[r].job \in Jobs
    /\ run[r].pc = "idle" => ~run[r].attached
    /\ run[r].pc \in {"trained", "guarded"} =>
           run[r].outcome \in {"completed", "failed"}
    /\ run[r].attached => /\ run[r].msg \in Messages
                          /\ message[run[r].msg].state = "claimed"
                          /\ message[run[r].msg].job = run[r].job
                          /\ \A q \in Runs \ {r} :
                                 run[q].attached => run[q].msg # run[r].msg

MessagesInv ==
    /\ \A m \in Messages : message[m].state # "unsent" => message[m].job \in Jobs
    /\ \A m \in revoked : message[m].state # "unsent"
    /\ \A j \in Jobs : TaskOf(task[j], j)

CallsInv ==
    \A s \in Sessions : /\ api[s].pc # "idle" => api[s].job \in Jobs
                        /\ TaskOf(api[s].task, api[s].job)

RunsInv == \A r \in Runs : RunInv(r)

ReliedInv ==
    \A j \in Jobs : status[j] \in Unsettled => j \in lost \/ Relied(j)

TrainingInv == TypeOK /\ MessagesInv /\ CallsInv /\ RunsInv /\ ReliedInv

Tasks(j) == {m \in Messages : message[m].job = j /\ message[m].state # "unsent"}
OneTask(j) == \A m, n \in Tasks(j) : m = n

\* A completed job has its model: predict and deploy refuse it otherwise.  Only
\* a job that was retried over a run that had loaded its row may lack it: the run
\* then writes "completed" without the path it had loaded and the retry cleared.
CompletedHasModel ==
    \A j \in Jobs : status[j] = "completed" /\ ~model[j] => j \in overtaken

\* A job with one task that was delivered once and that was not retried over its
\* run: the run never overwrites a cancellation it has read when it loaded the row.
SeenCancellationsStand ==
    [][\A j \in Jobs \ (overtaken' \cup redelivered'), r \in Runs :
           /\ OneTask(j)'
           /\ status[j] = "cancelled"
           /\ run[r].job = j /\ run[r].seen = "cancelled" /\ run'[r] # run[r]
           => status'[j] = "cancelled"]_<<status, run>>

\* The stages of JobLife: a job that may have had two tasks at once, by a retry or a
\* redelivery, is "doubled".  A run that has read a cancellation is over.
Doubled == doubled \cup redelivered
In(j, pcs) == \E r \in Runs : run[r].job = j /\ run[r].pc \in pcs
Heeds(r) == run[r].pc \in {"training", "trained"} /\ run[r].seen = "cancelled"

Stage(j) ==
    IF status[j] = "absent" THEN "none"
    ELSE IF j \in Doubled THEN "doubled"
    ELSE IF Senders(j) # {} \/ Queued(j) # {} \/ In(j, {"taken"}) THEN "waiting"
    ELSE IF In(j, {"loaded"}) THEN "looked"
    ELSE IF \E r \in Runs : /\ run[r].job = j /\ ~Heeds(r)
                            /\ run[r].pc \in {"started", "training", "trained"}
    THEN "training"
    ELSE IF In(j, {"guarded"}) THEN "ending"
    ELSE "over"

Life == INSTANCE JobLife WITH stage <- [j \in Jobs |-> Stage(j)]

\* However calls, workers and losses interleave, the row of a job with one task at a
\* time goes through the life of JobLife: trained at most once each time it is queued,
\* revived by retries only, its model set exactly when it completes, and a
\* cancellation its run has read is never written over.
RefinesJobLife == Life!Spec

\* Every job is settled in the end, unless its task was dropped.
JobsSettle ==
    \A j \in Jobs :
        status[j] \in Unsettled ~> (status[j] \in Terminal \/ j \in lost)

=============================================================================
