------------------------------- MODULE Serving --------------------------------
(***************************************************************************)
(* Deployments of one training job's model, and the predictions several    *)
(* API processes make with it: DeploymentService, TrainingService.predict  *)
(* and its caches of loaded models, retry_job's clearing of them.          *)
(*                                                                         *)
(* Runs follow one another here (TrainingRun has them in detail); each     *)
(* rewrites the same file, and a completed job may be run again when its   *)
(* task is redelivered.                                                    *)
(***************************************************************************)
EXTENDS Integers, FiniteSets, FiniteSetsExt

CONSTANTS
    Callers,          \* concurrent API calls
    Processes,        \* API processes, each with its caches
    NoProcess,
    Slots,            \* rows of model_deployments with one name
    MaxRuns,          \* bound on runs
    MaxVersion,       \* bound on versions
    MaxCalls          \* bound on API calls

ASSUME NoProcessIsNone == NoProcess \notin Processes

ASSUME BoundsAreNats == MaxRuns \in Nat /\ MaxVersion \in Nat /\ MaxCalls \in Nat

Runs == 1 .. MaxRuns
Nobody == 0
Versions == 1 .. MaxVersion

VARIABLES
    row,              \* of training_jobs: status, and whose model it has
    artifact,         \* the file at the job's model path
    begun,            \* the runs begun so far
    deployment,       \* rows of model_deployments
    cache,            \* the model each process has loaded
    call,             \* the API calls
    logs,             \* rows of prediction_logs
    answers,          \* predictions answered through a deployment
    exposed,          \* history: processes that may hold an earlier run's model
    calls

training == <<row, artifact, begun>>
vars == <<training, deployment, cache, call, logs, answers, exposed, calls>>

-----------------------------------------------------------------------------
(* Types                                                                   *)

Status == {"queued", "running", "completed", "failed", "cancelled"}

\* `model` is the run whose outcome set model_path and the metrics.
Row == [status : Status, model : Runs \cup {Nobody}]

Deployment == [status : {"absent", "active", "inactive", "archived"},
               version : Versions \cup {0}, weight : {0, 1}]

Operations == {"predict", "chat", "direct"}

\* `model` is what the call predicted with; `version` is the one it picked.
Call == [pc : {"idle", "resolved", "checked", "predicted", "logged", "creating",
               "retrying", "cleared", "cancelling"},
         at : Processes \cup {NoProcess}, op : Operations, model : Runs \cup {Nobody},
         version : Versions \cup {0}]

TypeOK ==
    /\ row \in Row
    /\ artifact \in [by : Runs \cup {Nobody}, whole : BOOLEAN]
    /\ begun \in Runs \cup {0}
    /\ deployment \in [Slots -> Deployment]
    /\ cache \in [Processes -> Runs \cup {Nobody}]
    /\ call \in [Callers -> Call]
    /\ logs \in Nat /\ answers \in Nat
    /\ exposed \subseteq Processes
    /\ calls \in Nat

NoDeployment == [status |-> "absent", version |-> 0, weight |-> 0]

NoCall == [pc |-> "idle", at |-> NoProcess, op |-> "direct",
           model |-> Nobody, version |-> 0]

Init ==
    /\ row = [status |-> "queued", model |-> Nobody]
    /\ artifact = [by |-> Nobody, whole |-> FALSE]
    /\ begun = 0
    /\ deployment = [d \in Slots |-> NoDeployment]
    /\ cache = [p \in Processes |-> Nobody]
    /\ call = [c \in Callers |-> NoCall]
    /\ logs = 0 /\ answers = 0
    /\ exposed = {}
    /\ calls = 0

-----------------------------------------------------------------------------
(* The job's runs                                                          *)

Trains ==
    UNCHANGED <<deployment, cache, call, logs, answers, calls>>

\* A task is due when the job is queued, and may be redelivered; a run of a job
\* that has a model makes every process's copy of it an earlier run's.
BeginRun ==
    /\ row.status \notin {"running", "cancelled"}
    /\ begun < MaxRuns
    /\ begun' = begun + 1
    /\ row' = [row EXCEPT !.status = "running"]
    /\ exposed' = IF row.model # Nobody THEN Processes ELSE exposed
    /\ Trains /\ UNCHANGED artifact

\* save_pretrained and joblib.dump write over the earlier run's files.
OpenArtifact ==
    /\ row.status = "running" /\ artifact.by # begun
    /\ artifact' = [by |-> begun, whole |-> FALSE]
    /\ Trains /\ UNCHANGED <<row, begun, exposed>>

CloseArtifact ==
    /\ row.status = "running" /\ artifact.by = begun
    /\ artifact' = [artifact EXCEPT !.whole = TRUE]
    /\ Trains /\ UNCHANGED <<row, begun, exposed>>

Complete ==
    /\ row.status = "running" /\ artifact = [by |-> begun, whole |-> TRUE]
    /\ row' = [status |-> "completed", model |-> begun]
    /\ Trains /\ UNCHANGED <<artifact, begun, exposed>>

FailRun ==
    /\ row.status = "running"
    /\ row' = [row EXCEPT !.status = "failed"]
    /\ Trains /\ UNCHANGED <<artifact, begun, exposed>>

-----------------------------------------------------------------------------
(* Predicting                                                              *)

Opens(c, new) ==
    /\ call[c].pc = "idle"
    /\ calls < MaxCalls
    /\ calls' = calls + 1
    /\ call' = [call EXCEPT ![c] = new]
    /\ UNCHANGED <<training, deployment, cache, logs, answers, exposed>>

Goes(c, new) == call' = [call EXCEPT ![c] = new]

Active == {d \in Slots : deployment[d].status = "active"}

\* route_predict: a bucket of the total weight, the first one when the draw is
\* zero, the last one when the sums round differently.
First == CHOOSE d \in Active : \A e \in Active :
             deployment[d].version <= deployment[e].version
Last == CHOOSE d \in Active : \A e \in Active :
            deployment[e].version <= deployment[d].version
Weighted == {d \in Active : deployment[d].weight > 0}
Routable == IF Weighted = {} THEN {} ELSE Weighted \cup {First, Last}

\* predict and chat find the deployment active; a routed prediction finds the
\* row its session already holds.
OpenInference(c, p) ==
    \/ /\ \E d \in Active : TRUE
       /\ \E op \in {"predict", "chat"} :
              Opens(c, [NoCall EXCEPT !.pc = "resolved", !.at = p, !.op = op])
    \/ /\ \E d \in Routable : TRUE
       /\ Opens(c, [NoCall EXCEPT !.pc = "resolved", !.at = p, !.op = "predict"])
    \/ Opens(c, [NoCall EXCEPT !.pc = "resolved", !.at = p, !.op = "direct"])

HasFile(r) == artifact.by # Nobody
Trained(r) == r.status = "completed" /\ r.model # Nobody

\* A retry has cleared this process's caches and has yet to commit the row.
Clearing(p) == \E c \in Callers : call[c].pc = "cleared" /\ call[c].at = p

CheckJob(c) ==
    /\ call[c].pc = "resolved"
    /\ Goes(c, IF Trained(row) THEN [call[c] EXCEPT !.pc = "checked"] ELSE NoCall)
    /\ exposed' = exposed \cup {p \in {call[c].at} : Trained(row) /\ Clearing(p)}
    /\ UNCHANGED <<training, deployment, cache, logs, answers, calls>>

\* The worker thread finds the model in its process's cache or loads what the
\* file holds by now; a half-written one may fail to load.  Failures are not
\* cached.
Predict(c) ==
    LET p == call[c].at IN
    /\ call[c].pc = "checked"
    /\ \/ /\ cache[p] # Nobody
          /\ Goes(c, [call[c] EXCEPT !.pc = "predicted", !.model = cache[p]])
          /\ UNCHANGED cache
       \/ /\ cache[p] = Nobody
          /\ cache' = [cache EXCEPT ![p] = artifact.by]
          /\ Goes(c, [call[c] EXCEPT !.pc = "predicted", !.model = artifact.by])
       \/ /\ cache[p] = Nobody /\ ~artifact.whole
          /\ Goes(c, NoCall)
          /\ UNCHANGED cache
    /\ UNCHANGED <<training, deployment, logs, answers, exposed, calls>>

\* DeploymentService.predict commits its log before it answers; chat has none.
LogPrediction(c) ==
    /\ call[c].pc = "predicted" /\ call[c].op = "predict"
    /\ Goes(c, [call[c] EXCEPT !.pc = "logged"])
    /\ logs' = logs + 1
    /\ UNCHANGED <<training, deployment, cache, answers, exposed, calls>>

Answer(c) ==
    /\ \/ call[c].pc = "logged"
       \/ call[c].pc = "predicted" /\ call[c].op # "predict"
    /\ Goes(c, NoCall)
    /\ answers' = IF call[c].op = "direct" THEN answers ELSE answers + 1
    /\ UNCHANGED <<training, deployment, cache, logs, exposed, calls>>

\* lru_cache makes room for another job's model.
Evict(p) ==
    /\ cache[p] # Nobody
    /\ cache' = [cache EXCEPT ![p] = Nobody]
    /\ UNCHANGED <<training, deployment, call, logs, answers, exposed, calls>>

\* A process comes back with empty caches and no calls; the others go on.
RestartProcess(p) ==
    /\ \E c \in Callers : call[c].pc # "idle" /\ call[c].at = p
    /\ cache' = [cache EXCEPT ![p] = Nobody]
    /\ call' = [c \in Callers |-> IF call[c].at = p THEN NoCall ELSE call[c]]
    /\ exposed' = exposed \ {p}
    /\ UNCHANGED <<training, deployment, logs, answers, calls>>

-----------------------------------------------------------------------------
(* Deployments                                                             *)

Taken == {deployment[d].version : d \in Slots} \ {0}
NextVersion == IF Taken = {} THEN 1 ELSE Max(Taken) + 1

\* The version is the caller's, or the next one; a duplicate is refused.
OpenCreate(c, p) ==
    /\ Trained(row)
    /\ \E v \in Versions : /\ v \notin Taken
                           /\ Opens(c, [NoCall EXCEPT !.pc = "creating", !.at = p,
                                                      !.version = v])

OpenCreateNext(c, p) ==
    /\ Trained(row)
    /\ NextVersion \in Versions
    /\ Opens(c, [NoCall EXCEPT !.pc = "creating", !.at = p,
                               !.version = NextVersion])

\* uq_model_deployments_org_name_version
NoConstraint(v) == TRUE
Free(v) == v \notin Taken

CommitCreate(c) ==
    /\ call[c].pc = "creating"
    /\ \/ /\ Free(call[c].version)
          /\ \E d \in Slots, w \in {0, 1} :
                 /\ deployment[d].status = "absent"
                 /\ deployment' = [deployment EXCEPT ![d] =
                        [status |-> "active", version |-> call[c].version,
                         weight |-> w]]
       \/ ~Free(call[c].version) /\ UNCHANGED deployment
    /\ Goes(c, NoCall)
    /\ UNCHANGED <<training, cache, logs, answers, exposed, calls>>

\* update_deployment sets what it is given; delete_deployment archives.
Update(d) ==
    /\ deployment[d].status # "absent"
    /\ \E s \in {"active", "inactive", "archived"}, w \in {0, 1} :
           deployment' = [deployment EXCEPT ![d].status = s, ![d].weight = w]
    /\ UNCHANGED <<training, cache, call, logs, answers, exposed, calls>>

-----------------------------------------------------------------------------
(* cancel_job and retry_job                                                *)

OpenCancel(c, p) ==
    /\ row.status \in {"queued", "running"}
    /\ Opens(c, [NoCall EXCEPT !.pc = "cancelling", !.at = p])

CommitCancel(c) ==
    /\ call[c].pc = "cancelling"
    /\ row' = [row EXCEPT !.status = "cancelled"]
    /\ Goes(c, NoCall)
    /\ UNCHANGED <<artifact, begun, deployment, cache, logs, answers, exposed, calls>>

OpenRetry(c, p) ==
    /\ row.status \in {"failed", "cancelled"}
    /\ Opens(c, [NoCall EXCEPT !.pc = "retrying", !.at = p])

\* "stale weights must not be served": the caches of this process are cleared
\* before the row is committed.
Kept(p) == cache
Cleared(p) == [cache EXCEPT ![p] = Nobody]

\* A prediction under way may still load the earlier run's model.
Predicting(p) == \E c \in Callers : call[c].pc = "checked" /\ call[c].at = p

ClearCaches(c) ==
    LET p == call[c].at IN
    /\ call[c].pc = "retrying"
    /\ cache' = Cleared(p)
    /\ exposed' = IF Predicting(p) THEN exposed \cup {p} ELSE exposed \ {p}
    /\ Goes(c, [call[c] EXCEPT !.pc = "cleared"])
    /\ UNCHANGED <<training, deployment, logs, answers, calls>>

\* Other processes keep what they loaded.
CommitRetry(c) ==
    /\ call[c].pc = "cleared"
    /\ row' = [status |-> "queued", model |-> Nobody]
    /\ exposed' = exposed \cup (Processes \ {call[c].at})
    /\ Goes(c, NoCall)
    /\ UNCHANGED <<artifact, begun, deployment, cache, logs, answers, calls>>

-----------------------------------------------------------------------------

CallStep(c) ==
    \/ CheckJob(c) \/ Predict(c) \/ LogPrediction(c) \/ Answer(c)
    \/ CommitCreate(c)
    \/ CommitCancel(c) \/ ClearCaches(c) \/ CommitRetry(c)

Next ==
    \/ BeginRun \/ OpenArtifact \/ CloseArtifact \/ Complete \/ FailRun
    \/ \E c \in Callers, p \in Processes :
           \/ OpenInference(c, p)
           \/ OpenCreate(c, p) \/ OpenCreateNext(c, p)
           \/ OpenCancel(c, p) \/ OpenRetry(c, p)
    \/ \E c \in Callers : CallStep(c)
    \/ \E p \in Processes : Evict(p) \/ RestartProcess(p)
    \/ \E d \in Slots : Update(d)

Spec == Init /\ [][Next]_vars

-----------------------------------------------------------------------------
(* Properties                                                              *)

\* Versions name one deployment each, although two calls may pick the same.
VersionsAreUnique ==
    \A d, e \in Slots : deployment[d].version = deployment[e].version =>
                            d = e \/ deployment[d].version = 0

ServingInv == TypeOK /\ VersionsAreUnique

\* A process that cleared its caches at the last retry, with no prediction under
\* way, has the model the row describes or none: only another process's retry,
\* a prediction that had passed its check or a redelivered run leaves it with an
\* earlier one.
ServesTheRow ==
    row.status = "completed" =>
        \A p \in Processes \ exposed : cache[p] \in {Nobody, row.model}

\* "Append-only log of every inference call through a deployment.  One row per
\* prediction" (PredictionLog).
InferencesAreLogged == answers <= logs

=============================================================================
