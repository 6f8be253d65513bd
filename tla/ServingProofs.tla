----------------------------- MODULE ServingProofs -----------------------------
(***************************************************************************)
(* Proofs about Serving, for any number of API processes, calls,           *)
(* deployments and runs.                                                   *)
(***************************************************************************)
EXTENDS Serving, TLAPS

-----------------------------------------------------------------------------
(* The inductive invariant                                                 *)

\* A completed row names the run whose file is at the model path.
CompletedInv ==
    row.status = "completed" =>
        /\ row.model # Nobody
        /\ row.model = artifact.by

\* Where a retry has cleared the caches, and where a model is about to be loaded.
ClearingAt == {p \in Processes : \E c \in Callers : call[c].pc = "cleared" /\ call[c].at = p}
LoadingAt == {p \in Processes : \E c \in Callers : call[c].pc = "checked" /\ call[c].at = p}

\* A process that is not exposed holds no model while there is none to serve,
\* nor while one of its retries has yet to commit, and is not about to load one.
CachesInv ==
    \A p \in Processes \ exposed :
        /\ row.status = "completed" => cache[p] \in {Nobody, row.model}
        /\ row.status \in {"queued", "running", "failed"} \/ p \in ClearingAt =>
               cache[p] = Nobody /\ p \notin LoadingAt

\* A run that is under way has begun.
BegunInv == row.status \in {"running", "completed", "failed"} => begun # Nobody

\* Only calls that are under way are at a process.
CallsInv == \A c \in Callers : call[c].pc # "idle" => call[c].at \in Processes

Inv == ServingInv /\ CompletedInv /\ CachesInv /\ BegunInv /\ CallsInv

-----------------------------------------------------------------------------
(* Types                                                                   *)

LEMMA NoCallIsCall == NoCall \in Call
BY DEF NoCall, Call, Operations

LEMMA InitHolds == Init => Inv
<1> SUFFICES ASSUME Init PROVE Inv
  OBVIOUS
<1>1. TypeOK
  BY NoCallIsCall, BoundsAreNats
     DEF Init, TypeOK, Row, Status, NoDeployment, Deployment, Nobody, Runs
<1>2. VersionsAreUnique
  BY DEF Init, VersionsAreUnique, NoDeployment
<1>3. CompletedInv /\ BegunInv
  BY DEF Init, CompletedInv, BegunInv
<1>4. CachesInv
  BY DEF Init, CachesInv, LoadingAt, NoCall
<1>5. CallsInv
  BY DEF Init, CallsInv, NoCall
<1>6. QED BY <1>1, <1>2, <1>3, <1>4, <1>5 DEF Inv, ServingInv

-----------------------------------------------------------------------------
(* The job's runs                                                          *)

RunStep == BeginRun \/ OpenArtifact \/ CloseArtifact \/ Complete \/ FailRun

LEMMA RunSteps ==
    ASSUME Inv, RunStep PROVE Inv'
<1> USE DEF Inv, ServingInv, Trains, Nobody
<1>1. UNCHANGED <<deployment, cache, call, logs, answers, calls>>
  BY DEF RunStep, BeginRun, OpenArtifact, CloseArtifact, Complete, FailRun
<1>2. begun' \in Runs \cup {0} /\ exposed' \subseteq Processes
  BY BoundsAreNats
     DEF RunStep, BeginRun, OpenArtifact, CloseArtifact, Complete, FailRun, TypeOK, Runs
<1>3. row' \in Row
  <2>1. CASE Complete
    <3>1. begun \in Runs
      BY <2>1 DEF Complete, BegunInv, TypeOK
    <3>2. QED BY <2>1, <3>1 DEF Complete, Row, Status
  <2>2. CASE ~Complete
    BY <2>2 DEF RunStep, BeginRun, OpenArtifact, CloseArtifact, FailRun, TypeOK, Row, Status
  <2>3. QED BY <2>1, <2>2
<1>4. artifact' \in [by : Runs \cup {Nobody}, whole : BOOLEAN]
  <2>1. CASE OpenArtifact
    <3>1. begun \in Runs
      BY <2>1 DEF OpenArtifact, BegunInv, TypeOK
    <3>2. QED BY <2>1, <3>1 DEF OpenArtifact
  <2>2. CASE CloseArtifact
    BY <2>2 DEF CloseArtifact, TypeOK
  <2>3. CASE BeginRun \/ Complete \/ FailRun
    BY <2>3 DEF BeginRun, Complete, FailRun, TypeOK
  <2>4. QED BY <2>1, <2>2, <2>3 DEF RunStep
<1>5. TypeOK' /\ VersionsAreUnique' /\ CallsInv'
  BY <1>1, <1>2, <1>3, <1>4 DEF TypeOK, VersionsAreUnique, CallsInv
<1>6. BegunInv'
  BY BoundsAreNats
     DEF BegunInv, RunStep, BeginRun, OpenArtifact, CloseArtifact, Complete, FailRun, TypeOK,
         Runs, Row
<1>7. CompletedInv'
  BY DEF CompletedInv, BegunInv, RunStep, BeginRun, OpenArtifact, CloseArtifact, Complete,
         FailRun, TypeOK, Row
<1>8. CachesInv'
  <2>1. CASE BeginRun
    <3>1. CASE row.model # Nobody
      BY <2>1, <3>1 DEF BeginRun, CachesInv
    <3>2. CASE row.model = Nobody
      <4>1. row.status \in {"queued", "failed"} /\ exposed' = exposed /\ row'.status = "running"
        BY <2>1, <3>2 DEF BeginRun, CompletedInv, TypeOK, Row, Status
      <4>2. QED BY <1>1, <4>1 DEF CachesInv, ClearingAt, LoadingAt
    <3>3. QED BY <3>1, <3>2
  <2>2. CASE OpenArtifact \/ CloseArtifact
    BY <1>1, <2>2 DEF OpenArtifact, CloseArtifact, CachesInv, ClearingAt, LoadingAt
  <2>3. CASE Complete \/ FailRun
    <3>1. row.status = "running" /\ row'.status \in {"completed", "failed"}
          /\ exposed' = exposed
      BY <2>3 DEF Complete, FailRun, TypeOK, Row
    <3>2. QED BY <1>1, <3>1 DEF CachesInv, ClearingAt, LoadingAt
  <2>4. QED BY <2>1, <2>2, <2>3 DEF RunStep
<1>9. QED BY <1>5, <1>6, <1>7, <1>8

-----------------------------------------------------------------------------
(* The steps of a call that leave the row and the caches                   *)

\* Such a step moves call c to `new`, which neither is about to load a model
\* nor has cleared caches unless it had before.
Moves(c, new) ==
    /\ new \in Call
    /\ call' = [call EXCEPT ![c] = new]
    /\ new.pc \in {"checked", "cleared"} => new = call[c]
    /\ new.pc # "idle" => new.at \in Processes

LEMMA MovesKeep ==
    ASSUME TypeOK, NEW c \in Callers, NEW new, Moves(c, new)
    PROVE  /\ ClearingAt' \subseteq ClearingAt /\ LoadingAt' \subseteq LoadingAt
           /\ call' \in [Callers -> Call]
BY DEF Moves, TypeOK, ClearingAt, LoadingAt

LEMMA QuietStep ==
    ASSUME Inv, NEW c \in Callers, NEW new, Moves(c, new),
           UNCHANGED <<training, deployment, cache, exposed>>,
           logs' \in Nat, answers' \in Nat, calls' \in Nat
    PROVE  Inv'
<1> USE DEF Inv, ServingInv, training
<1>1. TypeOK
  OBVIOUS
<1>2. TypeOK' /\ VersionsAreUnique' /\ CallsInv'
  BY DEF TypeOK, Moves, VersionsAreUnique, CallsInv
<1>3. CompletedInv' /\ BegunInv'
  BY DEF CompletedInv, BegunInv
<1>4. CachesInv'
  BY <1>1, MovesKeep DEF CachesInv
<1>5. QED BY <1>2, <1>3, <1>4

\* The calls that open, log, answer or fail.
QuietCall(c) ==
    \/ \E p \in Processes :
           OpenInference(c, p) \/ OpenCreate(c, p) \/ OpenCreateNext(c, p)
              \/ OpenCancel(c, p) \/ OpenRetry(c, p)
    \/ LogPrediction(c) \/ Answer(c)

LEMMA QuietCalls ==
    ASSUME Inv, NEW c \in Callers, QuietCall(c) PROVE Inv'
<1> USE DEF Inv, ServingInv
<1>0. call[c] \in Call /\ calls \in Nat /\ logs \in Nat /\ answers \in Nat
  BY DEF TypeOK
<1>1. ASSUME NEW new \in Call, Opens(c, new), new.pc \notin {"checked", "cleared"},
             new.at \in Processes
      PROVE  Inv'
  <2>1. Moves(c, new) /\ UNCHANGED <<training, deployment, cache, exposed, logs, answers>>
    BY <1>1 DEF Opens, Moves
  <2>2. calls' \in Nat
    BY <1>0, <1>1 DEF Opens
  <2>3. QED BY <1>0, <2>1, <2>2, QuietStep
<1>2. ASSUME NEW p \in Processes, OpenInference(c, p) PROVE Inv'
  <2>1. ASSUME NEW op \in Operations,
               Opens(c, [NoCall EXCEPT !.pc = "resolved", !.at = p, !.op = op])
        PROVE  Inv'
    BY <1>1, <2>1, NoCallIsCall DEF NoCall, Call
  <2>2. QED BY <1>2, <2>1 DEF OpenInference, Operations
<1>3. ASSUME NEW p \in Processes, OpenCreate(c, p) \/ OpenCreateNext(c, p) PROVE Inv'
  <2>1. PICK v \in Versions :
            Opens(c, [NoCall EXCEPT !.pc = "creating", !.at = p, !.version = v])
    BY <1>3 DEF OpenCreate, OpenCreateNext
  <2>2. QED BY <1>1, <2>1, NoCallIsCall DEF NoCall, Call
<1>4. ASSUME NEW p \in Processes, OpenCancel(c, p) \/ OpenRetry(c, p) PROVE Inv'
  <2>1. PICK pc \in {"cancelling", "retrying"} :
            Opens(c, [NoCall EXCEPT !.pc = pc, !.at = p])
    BY <1>4 DEF OpenCancel, OpenRetry
  <2>2. QED BY <1>1, <2>1, NoCallIsCall DEF NoCall, Call
<1>5. CASE LogPrediction(c)
  <2> DEFINE new == [call[c] EXCEPT !.pc = "logged"]
  <2>1. Moves(c, new)
    BY <1>0, <1>5 DEF LogPrediction, Goes, Moves, Call, CallsInv
  <2>2. UNCHANGED <<training, deployment, cache, exposed>> /\ logs' \in Nat
        /\ answers' \in Nat /\ calls' \in Nat
    BY <1>0, <1>5 DEF LogPrediction
  <2>3. QED BY <2>1, <2>2, QuietStep
<1>6. CASE Answer(c)
  <2>1. Moves(c, NoCall)
    BY <1>6, NoCallIsCall DEF Answer, Goes, Moves, NoCall
  <2>2. UNCHANGED <<training, deployment, cache, exposed>> /\ logs' \in Nat
        /\ answers' \in Nat /\ calls' \in Nat
    BY <1>0, <1>6 DEF Answer
  <2>3. QED BY <2>1, <2>2, QuietStep
<1>7. QED BY <1>2, <1>3, <1>4, <1>5, <1>6 DEF QuietCall

-----------------------------------------------------------------------------
(* Predicting                                                              *)

LEMMA CheckJobStep ==
    ASSUME Inv, NEW c \in Callers, CheckJob(c) PROVE Inv'
<1> USE DEF Inv, ServingInv, CheckJob, Goes
<1> DEFINE new == IF Trained(row) THEN [call[c] EXCEPT !.pc = "checked"] ELSE NoCall
<1>1. new \in Call /\ call' = [call EXCEPT ![c] = new]
  BY NoCallIsCall DEF TypeOK, Call
<1>2. TypeOK' /\ VersionsAreUnique'
  <2>1. exposed' \subseteq Processes
    BY DEF TypeOK, CallsInv
  <2>2. QED BY <1>1, <2>1 DEF TypeOK, VersionsAreUnique, training
<1>3. CompletedInv' /\ BegunInv' /\ CallsInv'
  BY <1>1 DEF CompletedInv, BegunInv, CallsInv, training, NoCall, TypeOK, Call
<1>4. CachesInv'
  <2> SUFFICES ASSUME NEW p \in Processes \ exposed'
               PROVE  /\ row.status = "completed" => cache[p] \in {Nobody, row.model}
                      /\ row.status \in {"queued", "running", "failed"} \/ p \in ClearingAt' =>
                             cache[p] = Nobody /\ p \notin LoadingAt'
    BY DEF CachesInv, training
  <2>1. p \notin exposed
    OBVIOUS
  <2>2. p \in ClearingAt' => p \in ClearingAt
    BY <1>1 DEF ClearingAt, TypeOK, NoCall
  <2>3. CASE call[c].at = p /\ Trained(row)
    <3>1. p \notin ClearingAt /\ row.status = "completed"
      BY <2>1, <2>3 DEF Trained, Clearing, ClearingAt
    <3>2. QED BY <2>1, <2>2, <3>1 DEF CachesInv
  <2>4. CASE ~(call[c].at = p /\ Trained(row))
    <3>1. p \in LoadingAt' => p \in LoadingAt
      BY <1>1, <2>4 DEF LoadingAt, TypeOK, NoCall
    <3>2. QED BY <2>1, <2>2, <3>1 DEF CachesInv
  <2>5. QED BY <2>3, <2>4
<1>5. QED BY <1>2, <1>3, <1>4

LEMMA PredictStep ==
    ASSUME Inv, NEW c \in Callers, Predict(c) PROVE Inv'
<1> USE DEF Inv, ServingInv
<1> DEFINE q == call[c].at
<1>1. call[c].pc = "checked" /\ call[c] \in Call /\ q \in Processes
  BY DEF Predict, TypeOK, CallsInv
<1>2. PICK m \in Runs \cup {Nobody} :
          Goes(c, [call[c] EXCEPT !.pc = "predicted", !.model = m]) \/ Goes(c, NoCall)
  <2>1. cache[q] \in Runs \cup {Nobody} /\ artifact.by \in Runs \cup {Nobody}
    BY <1>1 DEF TypeOK
  <2>2. QED BY <2>1 DEF Predict
<1>3. /\ cache' = cache \/ cache' = [cache EXCEPT ![q] = artifact.by]
      /\ UNCHANGED <<training, deployment, logs, answers, exposed, calls>>
  BY DEF Predict
<1>4. \E new : Moves(c, new)
  <2>1. Moves(c, [call[c] EXCEPT !.pc = "predicted", !.model = m]) \/ Moves(c, NoCall)
    <3>1. CASE Goes(c, NoCall)
      BY <3>1, NoCallIsCall DEF Goes, Moves, NoCall
    <3>2. CASE Goes(c, [call[c] EXCEPT !.pc = "predicted", !.model = m])
      BY <1>1, <3>2 DEF Goes, Moves, Call
    <3>3. QED BY <1>2, <3>1, <3>2
  <2>2. QED BY <2>1
<1>5. /\ call' \in [Callers -> Call]
      /\ ClearingAt' \subseteq ClearingAt /\ LoadingAt' \subseteq LoadingAt
  <2>1. TypeOK
    OBVIOUS
  <2>2. QED BY <1>4, <2>1, MovesKeep
<1>6. cache' \in [Processes -> Runs \cup {Nobody}]
  BY <1>3 DEF TypeOK
<1>7. TypeOK' /\ VersionsAreUnique'
  BY <1>3, <1>5, <1>6 DEF TypeOK, VersionsAreUnique, training
<1>8. CompletedInv' /\ BegunInv' /\ CallsInv'
  <2>1. PICK new : Moves(c, new)
    BY <1>4
  <2>2. QED BY <1>3, <2>1 DEF CompletedInv, BegunInv, CallsInv, training, Moves, TypeOK
<1>9. CachesInv'
  <2> SUFFICES ASSUME NEW p \in Processes \ exposed
               PROVE  /\ row.status = "completed" => cache'[p] \in {Nobody, row.model}
                      /\ row.status \in {"queued", "running", "failed"} \/ p \in ClearingAt' =>
                             cache'[p] = Nobody /\ p \notin LoadingAt'
    BY <1>3 DEF CachesInv, training
  <2>1. CASE q = p
    <3>1. p \in LoadingAt
      BY <1>1, <2>1 DEF LoadingAt
    <3>2. row.status \notin {"queued", "running", "failed"} /\ p \notin ClearingAt
      BY <3>1 DEF CachesInv
    <3>3. cache'[p] = cache[p] \/ cache'[p] = artifact.by
      BY <1>3, <2>1 DEF TypeOK
    <3>4. QED BY <1>5, <3>2, <3>3 DEF CachesInv, CompletedInv
  <2>2. CASE q # p
    <3>1. cache'[p] = cache[p]
      BY <1>3, <2>2 DEF TypeOK
    <3>2. QED BY <1>5, <3>1 DEF CachesInv
  <2>3. QED BY <2>1, <2>2
<1>10. QED BY <1>7, <1>8, <1>9

LEMMA ProcessSteps ==
    ASSUME Inv, NEW q \in Processes, Evict(q) \/ RestartProcess(q) PROVE Inv'
<1> USE DEF Inv, ServingInv, training
<1>1. cache' = [cache EXCEPT ![q] = Nobody]
      /\ UNCHANGED <<row, artifact, begun, deployment, logs, answers, calls>>
  BY DEF Evict, RestartProcess
<1>2. CASE Evict(q)
  <2>1. UNCHANGED <<call, exposed>>
    BY <1>2 DEF Evict
  <2>2. TypeOK' /\ VersionsAreUnique' /\ CompletedInv' /\ BegunInv'
    BY <1>1, <2>1 DEF TypeOK, VersionsAreUnique, CompletedInv, BegunInv
  <2>3. CallsInv'
    BY <2>1 DEF CallsInv
  <2>4. CachesInv'
    <3>1. \A p \in Processes : cache'[p] = cache[p] \/ cache'[p] = Nobody
      BY <1>1 DEF TypeOK
    <3>2. QED BY <1>1, <2>1, <3>1 DEF CachesInv, ClearingAt, LoadingAt
  <2>5. QED BY <2>2, <2>3, <2>4
<1>3. CASE RestartProcess(q)
  <2>1. /\ call' = [c \in Callers |-> IF call[c].at = q THEN NoCall ELSE call[c]]
        /\ exposed' = exposed \ {q}
    BY <1>3 DEF RestartProcess
  <2>2. TypeOK' /\ VersionsAreUnique' /\ CompletedInv' /\ BegunInv'
    BY <1>1, <2>1, NoCallIsCall DEF TypeOK, VersionsAreUnique, CompletedInv, BegunInv
  <2>3. ClearingAt' \subseteq ClearingAt \ {q} /\ LoadingAt' \subseteq LoadingAt \ {q}
    BY <2>1 DEF ClearingAt, LoadingAt, NoCall
  <2>4. CallsInv'
    BY <2>1 DEF CallsInv, NoCall
  <2>5. CachesInv'
    <3> SUFFICES ASSUME NEW p \in Processes \ exposed'
                 PROVE  /\ row.status = "completed" => cache'[p] \in {Nobody, row.model}
                        /\ row.status \in {"queued", "running", "failed"} \/ p \in ClearingAt' =>
                               cache'[p] = Nobody /\ p \notin LoadingAt'
      BY <1>1 DEF CachesInv
    <3>1. CASE p = q
      BY <1>1, <2>3, <3>1 DEF TypeOK
    <3>2. CASE p # q
      <4>1. cache'[p] = cache[p] /\ p \notin exposed
        BY <1>1, <2>1, <3>2 DEF TypeOK
      <4>2. QED BY <2>3, <4>1 DEF CachesInv
    <3>3. QED BY <3>1, <3>2
  <2>6. QED BY <2>2, <2>4, <2>5
<1>4. QED BY <1>2, <1>3

-----------------------------------------------------------------------------
(* Deployments                                                             *)

LEMMA CommitCreateStep ==
    ASSUME Inv, NEW c \in Callers, CommitCreate(c) PROVE Inv'
<1> USE DEF Inv, ServingInv, training
<1>1. Moves(c, NoCall) /\ UNCHANGED <<training, cache, exposed, logs, answers, calls>>
  BY NoCallIsCall DEF CommitCreate, Goes, Moves, NoCall
<1>2. /\ call' \in [Callers -> Call]
      /\ ClearingAt' \subseteq ClearingAt /\ LoadingAt' \subseteq LoadingAt
  <2>1. TypeOK
    OBVIOUS
  <2>2. QED BY <1>1, <2>1, MovesKeep
<1>3. CASE UNCHANGED deployment
  <2>1. VersionsAreUnique'
    BY <1>3 DEF VersionsAreUnique
  <2>2. TypeOK'
    BY <1>1, <1>2, <1>3 DEF TypeOK
  <2>3. QED BY <1>1, <1>2, <2>1, <2>2 DEF CompletedInv, BegunInv, CachesInv, CallsInv, Moves, NoCall
<1>4. ASSUME NEW d \in Slots, NEW w \in {0, 1}, call[c].pc = "creating", Free(call[c].version),
             deployment' = [deployment EXCEPT ![d] =
                 [status |-> "active", version |-> call[c].version, weight |-> w]]
      PROVE  Inv'
  <2>1. call[c].version \in Versions \cup {0}
    BY DEF TypeOK, Call
  <2>2. \A e \in Slots : deployment[e].version = 0 \/ deployment[e].version # call[c].version
    BY <1>4 DEF Free, Taken
  <2>3. /\ deployment'[d].version = call[c].version
        /\ \A e \in Slots \ {d} : deployment'[e] = deployment[e]
    BY <1>4 DEF TypeOK
  <2>4. VersionsAreUnique'
    BY <2>2, <2>3 DEF VersionsAreUnique
  <2>5. deployment' \in [Slots -> Deployment]
    BY <1>4, <2>1 DEF TypeOK, Deployment
  <2>6. TypeOK'
    BY <1>1, <1>2, <2>5 DEF TypeOK
  <2>7. QED BY <1>1, <1>2, <2>4, <2>6 DEF CompletedInv, BegunInv, CachesInv, CallsInv, Moves, NoCall
<1>5. QED BY <1>3, <1>4 DEF CommitCreate

LEMMA UpdateStep ==
    ASSUME Inv, NEW d \in Slots, Update(d) PROVE Inv'
<1> USE DEF Inv, ServingInv, training
<1>1. PICK s \in {"active", "inactive", "archived"}, w \in {0, 1} :
          deployment' = [deployment EXCEPT ![d].status = s, ![d].weight = w]
  BY DEF Update
<1>2. UNCHANGED <<training, cache, call, logs, answers, exposed, calls>>
  BY DEF Update
<1> DEFINE new == [deployment[d] EXCEPT !.status = s, !.weight = w]
<1>3. /\ deployment[d] \in Deployment
      /\ deployment' = [deployment EXCEPT ![d] = new]
  BY <1>1 DEF TypeOK
<1>4. new \in Deployment /\ new.version = deployment[d].version
  BY <1>3 DEF Deployment
<1> HIDE DEF new
<1>5. /\ deployment' \in [Slots -> Deployment]
      /\ \A e \in Slots : deployment'[e].version = deployment[e].version
  BY <1>3, <1>4 DEF TypeOK
<1>6. VersionsAreUnique'
  BY <1>5 DEF VersionsAreUnique
<1>7. TypeOK'
  BY <1>2, <1>5 DEF TypeOK
<1>8. QED
  BY <1>2, <1>6, <1>7 DEF CompletedInv, BegunInv, CachesInv, CallsInv, ClearingAt, LoadingAt

-----------------------------------------------------------------------------
(* Cancelling and retrying                                                 *)

LEMMA CommitCancelStep ==
    ASSUME Inv, NEW c \in Callers, CommitCancel(c) PROVE Inv'
<1> USE DEF Inv, ServingInv, CommitCancel, Goes
<1>1. Moves(c, NoCall)
  BY NoCallIsCall DEF Moves, NoCall
<1>2. row' \in Row /\ row'.status = "cancelled"
  BY DEF TypeOK, Row, Status
<1>3. /\ call' \in [Callers -> Call]
      /\ ClearingAt' \subseteq ClearingAt /\ LoadingAt' \subseteq LoadingAt
  <2>1. TypeOK
    OBVIOUS
  <2>2. QED BY <1>1, <2>1, MovesKeep
<1>4. TypeOK' /\ VersionsAreUnique'
  BY <1>2, <1>3 DEF TypeOK, VersionsAreUnique
<1>5. CompletedInv' /\ BegunInv' /\ CallsInv'
  BY <1>2 DEF CompletedInv, BegunInv, CallsInv, NoCall
<1>6. CachesInv'
  BY <1>2, <1>3 DEF CachesInv
<1>7. QED BY <1>4, <1>5, <1>6

LEMMA ClearCachesStep ==
    ASSUME Inv, NEW c \in Callers, ClearCaches(c) PROVE Inv'
<1> USE DEF Inv, ServingInv, training
<1> DEFINE q == call[c].at
           new == [call[c] EXCEPT !.pc = "cleared"]
<1>1. call[c].pc = "retrying" /\ call[c] \in Call /\ q \in Processes
  BY DEF ClearCaches, TypeOK, CallsInv
<1>2. /\ cache' = [cache EXCEPT ![q] = Nobody]
      /\ call' = [call EXCEPT ![c] = new]
      /\ UNCHANGED <<training, deployment, logs, answers, calls>>
      /\ exposed' = IF q \in LoadingAt THEN exposed \cup {q} ELSE exposed \ {q}
  BY <1>1 DEF ClearCaches, Cleared, Goes, Predicting, LoadingAt
<1>3. new \in Call /\ new.pc = "cleared" /\ new.at = q
  BY <1>1 DEF Call
<1>4. LoadingAt' = LoadingAt
  BY <1>1, <1>2, <1>3 DEF LoadingAt, TypeOK
<1>5. /\ ClearingAt' \subseteq ClearingAt \cup {q}
      /\ \A p \in Processes \ {q} : cache'[p] = cache[p]
  BY <1>1, <1>2, <1>3 DEF ClearingAt, TypeOK
<1>6. TypeOK' /\ VersionsAreUnique'
  BY <1>1, <1>2, <1>3 DEF TypeOK, VersionsAreUnique
<1>7. CompletedInv' /\ BegunInv' /\ CallsInv'
  BY <1>1, <1>2, <1>3 DEF CompletedInv, BegunInv, CallsInv, TypeOK
<1>8. CachesInv'
  <2> SUFFICES ASSUME NEW p \in Processes \ exposed'
               PROVE  /\ row.status = "completed" => cache'[p] \in {Nobody, row.model}
                      /\ row.status \in {"queued", "running", "failed"} \/ p \in ClearingAt' =>
                             cache'[p] = Nobody /\ p \notin LoadingAt'
    BY <1>2 DEF CachesInv
  <2>1. CASE p = q
    BY <1>2, <1>4, <2>1 DEF TypeOK
  <2>2. CASE p # q
    <3>1. p \notin exposed
      BY <1>2, <2>2
    <3>2. QED BY <1>4, <1>5, <2>2, <3>1 DEF CachesInv
  <2>3. QED BY <2>1, <2>2
<1>9. QED BY <1>6, <1>7, <1>8

LEMMA CommitRetryStep ==
    ASSUME Inv, NEW c \in Callers, CommitRetry(c) PROVE Inv'
<1> USE DEF Inv, ServingInv
<1> DEFINE q == call[c].at
<1>1. call[c].pc = "cleared" /\ q \in Processes
  BY DEF CommitRetry, CallsInv
<1>2. /\ row' = [status |-> "queued", model |-> Nobody]
      /\ exposed' = exposed \cup (Processes \ {q})
      /\ UNCHANGED <<artifact, begun, deployment, cache, logs, answers, calls>>
      /\ Moves(c, NoCall)
  BY NoCallIsCall DEF CommitRetry, Goes, Moves, NoCall
<1>3. /\ call' \in [Callers -> Call]
      /\ ClearingAt' \subseteq ClearingAt /\ LoadingAt' \subseteq LoadingAt
  <2>1. TypeOK
    OBVIOUS
  <2>2. QED BY <1>2, <2>1, MovesKeep
<1>4. TypeOK' /\ VersionsAreUnique'
  BY <1>2, <1>3 DEF TypeOK, VersionsAreUnique, Row, Status
<1>5. CompletedInv' /\ BegunInv' /\ CallsInv'
  BY <1>2 DEF CompletedInv, BegunInv, CallsInv, Moves, NoCall
<1>6. CachesInv'
  <2>1. q \in ClearingAt
    BY <1>1 DEF ClearingAt
  <2>2. q \notin exposed => cache[q] = Nobody /\ q \notin LoadingAt
    BY <1>1, <2>1 DEF CachesInv
  <2>3. QED BY <1>2, <1>3, <2>2 DEF CachesInv
<1>7. QED BY <1>4, <1>5, <1>6

-----------------------------------------------------------------------------
(* The theorems                                                            *)

LEMMA InvStep == Inv /\ [Next]_vars => Inv'
<1> SUFFICES ASSUME Inv, [Next]_vars PROVE Inv'
  OBVIOUS
<1>1. CASE RunStep
  BY <1>1, RunSteps
<1>2. ASSUME NEW c \in Callers, QuietCall(c) PROVE Inv'
  BY <1>2, QuietCalls
<1>3. ASSUME NEW c \in Callers, CallStep(c) PROVE Inv'
  BY <1>2, <1>3, CheckJobStep, PredictStep, CommitCreateStep, CommitCancelStep,
     ClearCachesStep, CommitRetryStep DEF CallStep, QuietCall
<1>4. ASSUME NEW p \in Processes, Evict(p) \/ RestartProcess(p) PROVE Inv'
  BY <1>4, ProcessSteps
<1>5. ASSUME NEW d \in Slots, Update(d) PROVE Inv'
  BY <1>5, UpdateStep
<1>6. CASE UNCHANGED vars
  BY <1>6 DEF vars, training, Inv, ServingInv, TypeOK, VersionsAreUnique, CompletedInv,
              CachesInv, BegunInv, CallsInv, ClearingAt, LoadingAt
<1>7. QED
  BY <1>1, <1>2, <1>3, <1>4, <1>5, <1>6 DEF Next, RunStep, QuietCall

LEMMA InvHolds == Spec => []Inv
BY InitHolds, InvStep, PTL DEF Spec

\* Versions name one deployment each, although creations pick them before the
\* constraint is asked and any number of them race.
THEOREM ServingInvHolds == Spec => []ServingInv
<1>1. Inv => ServingInv
  BY DEF Inv
<1>2. QED BY InvHolds, <1>1, PTL

\* No process serves an earlier run's model, but those that another process's
\* retry, a prediction under way or a redelivered run left with one.
THEOREM ServesTheRowHolds == Spec => []ServesTheRow
<1>1. Inv => ServesTheRow
  BY DEF Inv, CachesInv, ServesTheRow
<1>2. QED BY InvHolds, <1>1, PTL

===============================================================================
