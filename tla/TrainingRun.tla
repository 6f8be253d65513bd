----------------------------- MODULE TrainingRun ------------------------------
(***************************************************************************)
(* What one training job's runs do: the training bodies of                 *)
(* training_tasks.py with the progress they report, the artifact they save *)
(* and the hyperparameters they tune, and the event streams that           *)
(* GET /training-jobs/{id}/stream serves from the Redis channel.           *)
(*                                                                         *)
(* TrainingJob has the tasks of many jobs; here a task that is due may be   *)
(* delivered, lost or delivered again at any time, and a run may be cut or *)
(* outlive its worker in its container.  Progress is written by sessions of *)
(* its own, around the run's copy of the row.                              *)
(***************************************************************************)
EXTENDS Integers, Sequences, FiniteSets

CONSTANTS
    Callers,       \* concurrent cancel and retry calls
    Streams,       \* event streams
    Params,        \* hyperparameters
    Pinned,        \* those the user supplied
    Ignored,       \* those the job's model is built without
    MaxRuns,       \* bound on executions of the training body
    MaxCalls,      \* bound on API calls
    MaxLosses      \* bound on lost workers, tasks, updates and events

ASSUME PinnedAreParams == Pinned \subseteq Params
ASSUME IgnoredAreParams == Ignored \subseteq Params

ASSUME BoundsAreNats == MaxRuns \in Nat /\ MaxCalls \in Nat /\ MaxLosses \in Nat

\* Executions of the body, in the order they start; none is used twice.
Runs == 1 .. MaxRuns
Nobody == 0
User == -1

VARIABLES
    job,           \* the job as it was created: its task type and options
    row,           \* what the runs write of training_jobs
    artifact,      \* the file or directory at the job's model path
    due,           \* "training.train_model" messages in the broker
    run,           \* the runs
    call,          \* the API calls
    stream,        \* the event streams
    overlapped,    \* history: a run or a retry began while a run was active
    calls, losses

vars == <<job, row, artifact, due, run, call, stream, overlapped, calls, losses>>

-----------------------------------------------------------------------------
(* The training bodies                                                     *)

Stages == {"none", "Starting", "Auto-tune", "Loading dataset", "Fitting model",
           "Tokenizing", "Loading model", "Applying LoRA adapter", "Training step",
           "Evaluating", "Completed", "Failed"}

Does(what) == [does |-> what, pct |-> 0, stage |-> "none"]
Report(pct, stage) == [does |-> "report", pct |-> pct, stage |-> stage]

\* The files are written one after another, over the earlier run's.
Save == <<Does("open"), Does("close"), Report(100, "Completed")>>

Fitting ==
    <<Report(10, "Loading dataset"), Report(40, "Fitting model"),
      Report(85, "Evaluating")>>

\* Two trials; the winners stay on the loaded object until the dispatcher
\* commits and refreshes it.
AutoTune ==
    <<Report(12, "Auto-tune"), Report(20, "Auto-tune"), Does("tune"),
      Report(20, "Auto-tune"), Does("commit"), Does("refresh")>>

Loading ==
    <<Report(5, "Loading dataset"), Report(10, "Tokenizing"),
      Report(15, "Loading model")>>

\* The trainer's callbacks: a log halfway, one at the last step, its end.
Trainer ==
    <<Report(57, "Training step"), Report(100, "Training step"),
      Report(95, "Evaluating")>>

Adapted(lora) == IF lora THEN <<Report(17, "Applying LoRA adapter")>> ELSE <<>>

\* The dispatch on task_type and _auto_tune_requested.
Jobs == [text : {FALSE}, tunes : BOOLEAN, lora : {FALSE}]
        \cup [text : {TRUE}, tunes : {FALSE}, lora : BOOLEAN]

Trains == IF job.text THEN Loading \o Adapted(job.lora) \o Trainer
          ELSE IF job.tunes THEN AutoTune \o Fitting ELSE Fitting

Body == Trains \o Save

-----------------------------------------------------------------------------
(* Types                                                                   *)

Terminal == {"completed", "failed", "cancelled"}
Status == {"queued", "running"} \cup Terminal

\* Who set each hyperparameter: the user, a run's search, nobody.
Hyperparameters == [Params -> Runs \cup {Nobody, User}]

\* `metrics` is the run whose metrics the row holds.
Row == [status : Status, pct : 0 .. 100, stage : Stages, path : BOOLEAN,
        metrics : Runs \cup {Nobody}, hp : Hyperparameters]

\* The hyperparameters the model is built with: _build_sklearn_model reads those
\* it knows of the algorithm, so the C that the search tunes for a logistic
\* regression, for one, is stored on the row and has no part in the model.
BuiltFrom(hp) == [p \in Params \ Ignored |-> hp[p]]

\* `hp` is what the saved model was built with.
Artifact == [by : Runs \cup {Nobody}, whole : BOOLEAN,
             hp : [Params \ Ignored -> Runs \cup {Nobody, User}]]

\* `seen` is the row as loaded, `new` the loaded object with its pending changes.
Run == [pc : {"idle", "taken", "loaded", "started", "training", "trained",
              "guarded", "committed", "publishing", "over"},
        at : Nat \ {0}, seen : Row, new : Row, event : Status]

\* `since` has the statuses of the row from the stream's snapshot to its close.
Stream == [pc : {"idle", "opened", "subscribed", "closed"},
           queue : Seq(Terminal), since : SUBSET Status, end : Terminal \cup {"none"}]

Call == [pc : {"idle", "cancelling", "retrying", "sending"}, seen : Row]

TypeOK ==
    /\ job \in Jobs
    /\ row \in Row
    /\ artifact \in Artifact
    /\ due \in Nat
    /\ run \in [Runs -> Run]
    /\ call \in [Callers -> Call]
    /\ stream \in [Streams -> Stream]
    /\ overlapped \in BOOLEAN
    /\ calls \in Nat /\ losses \in Nat

Created == [status |-> "queued", pct |-> 0, stage |-> "none", path |-> FALSE,
            metrics |-> Nobody,
            hp |-> [p \in Params |-> IF p \in Pinned THEN User ELSE Nobody]]

NoRun == [pc |-> "idle", at |-> 1, seen |-> Created, new |-> Created,
          event |-> "queued"]
Over == [NoRun EXCEPT !.pc = "over"]

NoCall == [pc |-> "idle", seen |-> Created]

\* create_job has sent the task.
Init ==
    /\ job \in Jobs
    /\ row = Created
    /\ artifact = [by |-> Nobody, whole |-> FALSE, hp |-> BuiltFrom(Created.hp)]
    /\ due = 1
    /\ run = [r \in Runs |-> NoRun]
    /\ call = [c \in Callers |-> NoCall]
    /\ stream = [s \in Streams |-> [pc |-> "idle", queue |-> <<>>, since |-> {},
                                    end |-> "none"]]
    /\ overlapped = FALSE
    /\ calls = 0 /\ losses = 0

-----------------------------------------------------------------------------
(* Writing the row                                                         *)

\* A flush writes the columns whose value differs from the loaded one.
Assign(current, seen, new) == IF new = seen THEN current ELSE new

Flushed(seen, new) ==
    [status |-> Assign(row.status, seen.status, new.status),
     pct |-> Assign(row.pct, seen.pct, new.pct),
     stage |-> Assign(row.stage, seen.stage, new.stage),
     path |-> Assign(row.path, seen.path, new.path),
     metrics |-> Assign(row.metrics, seen.metrics, new.metrics),
     hp |-> Assign(row.hp, seen.hp, new.hp)]

\* Every open stream has the new status behind it from now on.
Watched ==
    [s \in Streams |-> IF stream[s].pc \in {"opened", "subscribed"}
                       THEN [stream[s] EXCEPT !.since = @ \cup {row'.status}]
                       ELSE stream[s]]

Writes(new) == row' = new /\ stream' = Watched

Active == {r \in Runs : run[r].pc \notin {"idle", "over"}}

Loses == losses < MaxLosses /\ losses' = losses + 1

-----------------------------------------------------------------------------
(* The training body                                                       *)

Moves(r, new) ==
    /\ run' = [run EXCEPT ![r] = new]
    /\ UNCHANGED <<job, call, calls>>

\* train_model: in the worker, or in a container of its own.
Deliver(r) ==
    /\ due > 0
    /\ run[r].pc = "idle"
    /\ \A q \in Runs : q < r => run[q].pc # "idle"
    /\ due' = due - 1
    /\ overlapped' = (overlapped \/ Active # {})
    /\ Moves(r, [run[r] EXCEPT !.pc = "taken"])
    /\ UNCHANGED <<row, artifact, stream, losses>>

\* A step of the run alone.
Alone(r, new) ==
    /\ Moves(r, new)
    /\ UNCHANGED <<row, artifact, due, stream, overlapped, losses>>

Load(r) ==
    /\ run[r].pc = "taken"
    /\ Alone(r, IF row.status = "cancelled" THEN Over
                ELSE [run[r] EXCEPT !.pc = "loaded", !.seen = row, !.new = row])

Start(r) ==
    LET seen == run[r].seen IN
    /\ run[r].pc = "loaded"
    /\ Writes(Flushed(seen, [seen EXCEPT !.status = "running", !.pct = 0,
                                         !.stage = "Starting"]))
    /\ Moves(r, [NoRun EXCEPT !.pc = "started"])
    /\ UNCHANGED <<artifact, due, overlapped, losses>>

\* The commit expired the row.
Reload(r) ==
    /\ run[r].pc = "started"
    /\ Alone(r, [run[r] EXCEPT !.pc = "training", !.seen = row, !.new = row])

\* The body is at a step that does this.
At(r, what) ==
    /\ run[r].pc = "training"
    /\ run[r].at <= Len(Body)
    /\ Body[run[r].at].does = what

Passed(r) == [run[r] EXCEPT !.at = run[r].at + 1]

\* _update_progress: two columns, in a session of its own; a failure is
\* swallowed.  The event it publishes says "running", which no stream acts on.
ReportProgress(r) ==
    LET step == Body[run[r].at] IN
    /\ At(r, "report")
    /\ \/ /\ Writes([row EXCEPT !.pct = step.pct, !.stage = step.stage])
          /\ UNCHANGED losses
       \/ Loses /\ UNCHANGED <<row, stream>>
    /\ Moves(r, Passed(r))
    /\ UNCHANGED <<artifact, due, overlapped>>

\* {**study.best_params, **user_hp}: what was supplied, or tuned before, stays.
SearchWins(r) == [p \in Params |-> r]
Tuned(r) == [p \in Params |-> IF run[r].new.hp[p] = Nobody THEN r ELSE run[r].new.hp[p]]

Tune(r) ==
    /\ At(r, "tune")
    /\ Alone(r, [Passed(r) EXCEPT !.new = [run[r].new EXCEPT !.hp = Tuned(r)]])

CommitTuned(r) ==
    /\ At(r, "commit")
    /\ Writes(Flushed(run[r].seen, run[r].new))
    /\ Moves(r, Passed(r))
    /\ UNCHANGED <<artifact, due, overlapped, losses>>

Refresh(r) ==
    /\ At(r, "refresh")
    /\ Alone(r, [Passed(r) EXCEPT !.seen = row, !.new = row])

\* The artifact is whole once its last file is written, if nobody else began to
\* write it meanwhile.
WriteArtifact(r) ==
    /\ \/ /\ At(r, "open")
          /\ artifact' = [by |-> r, whole |-> FALSE, hp |-> BuiltFrom(run[r].new.hp)]
       \/ /\ At(r, "close")
          /\ artifact' = [artifact EXCEPT !.whole = (artifact.by = r)]
    /\ Moves(r, Passed(r))
    /\ UNCHANGED <<row, due, stream, overlapped, losses>>

\* The body's last assignments.
Finish(r) ==
    /\ run[r].pc = "training"
    /\ run[r].at > Len(Body)
    /\ Alone(r, [run[r] EXCEPT !.pc = "trained",
                               !.new = [run[r].new EXCEPT !.status = "completed",
                                                          !.path = TRUE,
                                                          !.metrics = r]])

\* Any step may raise: no dataset, bad data, no memory, a full disk.
Fail(r) ==
    /\ run[r].pc = "training"
    /\ run[r].at <= Len(Body)
    /\ Alone(r, [run[r] EXCEPT !.pc = "trained",
                               !.new = [run[r].new EXCEPT !.status = "failed",
                                                          !.stage = "Failed"]])

\* The race guard: a cancelled job's run is rolled back and announces nothing.
AnnouncedAnyway(r) == [NoRun EXCEPT !.pc = "publishing", !.event = run[r].new.status]
RolledBack(r) == Over

Guard(r) ==
    /\ run[r].pc = "trained"
    /\ Alone(r, IF row.status = "cancelled" THEN RolledBack(r)
                ELSE [run[r] EXCEPT !.pc = "guarded"])

LeavesProgress(new) == new
Settled(new) == IF new.status = "completed"
                THEN [new EXCEPT !.pct = 100, !.stage = "Completed"] ELSE new

CommitOutcome(r) ==
    /\ run[r].pc = "guarded"
    /\ Writes(Flushed(run[r].seen, Settled(run[r].new)))
    /\ Moves(r, [run[r] EXCEPT !.pc = "committed"])
    /\ UNCHANGED <<artifact, due, overlapped, losses>>

\* The commit expired the row again: the event has the status stored by now.
ReadBack(r) ==
    /\ run[r].pc = "committed"
    /\ Alone(r, [NoRun EXCEPT !.pc = "publishing", !.event = row.status])

\* Redis delivers to whoever is subscribed now; a failure is swallowed.
Publish(r) ==
    /\ run[r].pc = "publishing"
    /\ \/ /\ stream' = [s \in Streams |->
                  IF stream[s].pc = "subscribed" /\ run[r].event \in Terminal
                  THEN [stream[s] EXCEPT !.queue = Append(@, run[r].event)]
                  ELSE stream[s]]
          /\ UNCHANGED losses
       \/ Loses /\ UNCHANGED stream
    /\ Moves(r, Over)
    /\ UNCHANGED <<row, artifact, due, overlapped>>

\* A worker dies, is killed for a revoked task, or its container does: the run
\* ends, or goes on in its container; the message comes back, or is over.
WorkerLost(r) ==
    /\ r \in Active
    /\ Loses
    /\ \E cut \in BOOLEAN, back \in {0, 1} :
           /\ due' = due + back
           /\ Moves(r, IF cut THEN Over ELSE run[r])
    /\ UNCHANGED <<row, artifact, stream, overlapped>>

\* A worker discards a task it knows as revoked.
DropTask ==
    /\ due > 0
    /\ Loses
    /\ due' = due - 1
    /\ UNCHANGED <<job, row, artifact, run, call, stream, overlapped, calls>>

-----------------------------------------------------------------------------
(* cancel_job and retry_job; see TrainingJob for the tasks they revoke     *)

Opens(c, from, pc) ==
    /\ call[c].pc = "idle"
    /\ row.status \in from
    /\ calls < MaxCalls
    /\ calls' = calls + 1
    /\ call' = [call EXCEPT ![c] = [pc |-> pc, seen |-> row]]
    /\ UNCHANGED <<job, row, artifact, due, run, stream, overlapped, losses>>

OpenCancel(c) == Opens(c, {"queued", "running"}, "cancelling")
OpenRetry(c) == Opens(c, {"failed", "cancelled"}, "retrying")

Calls(c, new) ==
    /\ call' = [call EXCEPT ![c] = new]
    /\ UNCHANGED <<job, artifact, run, calls, losses>>

\* No event is published.
CommitCancel(c) ==
    /\ call[c].pc = "cancelling"
    /\ Writes([row EXCEPT !.status = "cancelled"])
    /\ Calls(c, NoCall)
    /\ UNCHANGED <<due, overlapped>>

\* Progress and hyperparameters stay as the last run left them.
CommitRetry(c) ==
    LET seen == call[c].seen IN
    /\ call[c].pc = "retrying"
    /\ Writes(Flushed(seen, [seen EXCEPT !.status = "queued", !.path = FALSE,
                                         !.metrics = Nobody]))
    /\ overlapped' = (overlapped \/ Active # {})
    /\ Calls(c, [NoCall EXCEPT !.pc = "sending"])
    /\ UNCHANGED due

SendTask(c) ==
    /\ call[c].pc = "sending"
    /\ due' = due + 1
    /\ Calls(c, NoCall)
    /\ UNCHANGED <<row, stream, overlapped>>

-----------------------------------------------------------------------------
(* stream_training_progress                                                *)

Streaming(s, new) ==
    /\ stream' = [stream EXCEPT ![s] = new]
    /\ UNCHANGED <<job, row, artifact, due, run, call, overlapped, calls, losses>>

Ends(s, status) == [stream[s] EXCEPT !.pc = "closed", !.end = status]

\* The snapshot is read before the first frame; a settled job's stream ends.
OpenStream(s) ==
    /\ stream[s].pc = "idle"
    /\ Streaming(s, IF row.status \in Terminal
                    THEN [Ends(s, row.status) EXCEPT !.since = {row.status}]
                    ELSE [stream[s] EXCEPT !.pc = "opened", !.since = {row.status}])

\* What is published between the snapshot and the subscription is missed.
Subscribe(s) ==
    /\ stream[s].pc = "opened"
    /\ Streaming(s, [stream[s] EXCEPT !.pc = "subscribed"])

Forward(s) ==
    /\ stream[s].pc = "subscribed"
    /\ stream[s].queue # <<>>
    /\ Streaming(s, Ends(s, Head(stream[s].queue)))

\* Nothing comes for a while.  The socket's timeout of 2 seconds makes listen()
\* raise, which ends the generator and the stream with it; the 15 seconds of
\* wait_for, which would cancel the generator and end the stream on the next
\* __anext__, are never reached.
Heartbeat(s) == stream[s]
TimedOut(s) == [stream[s] EXCEPT !.pc = "closed"]

Silence(s) ==
    /\ stream[s].pc = "subscribed"
    /\ stream[s].queue = <<>>
    /\ Streaming(s, TimedOut(s))

-----------------------------------------------------------------------------

RunStep(r) ==
    \/ Load(r) \/ Start(r) \/ Reload(r)
    \/ ReportProgress(r) \/ Tune(r) \/ CommitTuned(r) \/ Refresh(r)
    \/ WriteArtifact(r) \/ Finish(r)
    \/ Guard(r) \/ CommitOutcome(r) \/ ReadBack(r) \/ Publish(r)

CallStep(c) == CommitCancel(c) \/ CommitRetry(c) \/ SendTask(c)

StreamStep(s) == Subscribe(s) \/ Forward(s) \/ Silence(s)

Next ==
    \/ \E r \in Runs : Deliver(r) \/ RunStep(r) \/ Fail(r) \/ WorkerLost(r)
    \/ DropTask
    \/ \E c \in Callers : OpenCancel(c) \/ OpenRetry(c) \/ CallStep(c)
    \/ \E s \in Streams : OpenStream(s) \/ StreamStep(s)

Spec == Init /\ [][Next]_vars

\* A stream's generator goes on while its client listens, and a run that is
\* not cut proceeds.
Fairness ==
    /\ \A r \in Runs : WF_vars(RunStep(r))
    /\ \A s \in Streams : WF_vars(StreamStep(s))

FairSpec == Spec /\ Fairness

-----------------------------------------------------------------------------
(* Properties                                                              *)

\* A completed job is what its row says: progress at 100 although reports are
\* written by other sessions and may be lost, the artifact whole and that of
\* the run whose metrics are shown, the hyperparameters it was built with those
\* shown, and the user's own kept among them.  A hyperparameter the builder
\* ignores is shown though it had no part in the model.  Left-over and
\* redelivered runs that overlap share the row and the file, and are the
\* exception.
CompletedIsWhole ==
    row.status = "completed" /\ ~overlapped =>
        /\ row.pct = 100 /\ row.stage = "Completed" /\ row.path
        /\ artifact.whole /\ artifact.by = row.metrics
        /\ artifact.hp = BuiltFrom(row.hp)
        /\ \A p \in Pinned : row.hp[p] = User

RowInv == TypeOK /\ CompletedIsWhole

\* The end frame of a stream names a status the job reached while the stream
\* was watching, however cancellations race the run, unless runs overlapped.
EndIsTrue ==
    \A s \in Streams :
        stream[s].end # "none" /\ ~overlapped => stream[s].end \in stream[s].since

\* No stream is left hanging on a job nobody reports on any more: a cancelled
\* one, one whose worker died, one whose last event was missed or lost.
StreamsClose ==
    \A s \in Streams : stream[s].pc = "opened" ~> stream[s].pc = "closed"

\* "Closes automatically once the job reaches a terminal status", with a
\* "Heartbeat every 15s so proxies don't drop the connection": a stream of a
\* job that is not settled stays open.
ClosesWithJob ==
    \A s \in Streams :
        stream[s].pc = "closed" => stream[s].since \cap Terminal # {}

=============================================================================
