--------------------------- MODULE TrainingJobProofs --------------------------
(***************************************************************************)
(* Proofs about TrainingJob, for every set of jobs, calls and runs and     *)
(* every bound, in-process and in containers.                              *)
(***************************************************************************)
EXTENDS TrainingJob, TLAPS

LEMMA Constants ==
    /\ NoCall \in Call /\ NoRun \in Run
    /\ NoMessage \notin Messages
    /\ \A m \in Messages : m \in Nat
BY BoundsAreNats
   DEF NoCall, Call, NoRun, Run, Status, Unsettled, Terminal, NoMessage, Messages

LEMMA InvInit == Init => TrainingInv
<1> SUFFICES ASSUME Init PROVE TrainingInv
  OBVIOUS
<1>1. TypeOK
  BY Constants DEF Init, TypeOK, Message, Status
<1>2. MessagesInv /\ CallsInv
  BY Constants DEF Init, MessagesInv, CallsInv, TaskOf, NoCall
<1>3. RunsInv
  BY DEF Init, RunsInv, RunInv, NoRun
<1>4. ReliedInv
  BY DEF Init, ReliedInv, Unsettled
<1>5. QED BY <1>1, <1>2, <1>3, <1>4 DEF TrainingInv

-----------------------------------------------------------------------------
(* Types                                                                   *)

LEMMA TypeApiStep ==
    ASSUME TypeOK, CallsInv, NEW s \in Sessions, ApiStep(s) PROVE TypeOK'
<1> USE Constants DEF TypeOK
<1>1. ASSUME NEW j \in Jobs, CreateJob(s, j) PROVE TypeOK'
  <2>1. api' \in [Sessions -> Call]
    BY <1>1 DEF CreateJob, Opens, NoCall, Call
  <2>2. status' \in [Jobs -> Status]
    BY <1>1 DEF CreateJob, Status, Unsettled
  <2>3. calls' \in Nat
    BY <1>1 DEF CreateJob, Opens
  <2>4. QED BY <1>1, <2>1, <2>2, <2>3 DEF CreateJob, history
<1>2. ASSUME NEW j \in Jobs, OpenCancel(s, j) PROVE TypeOK'
  <2>1. api' \in [Sessions -> Call]
    BY <1>2 DEF OpenCancel, Opens, NoCall, Call
  <2>2. calls' \in Nat
    BY <1>2 DEF OpenCancel, Opens
  <2>3. QED BY <1>2, <2>1, <2>2 DEF OpenCancel, row, history
<1>3. ASSUME NEW j \in Jobs, OpenRetry(s, j) PROVE TypeOK'
  <2>1. api' \in [Sessions -> Call]
    BY <1>3 DEF OpenRetry, Opens, Call
  <2>2. calls' \in Nat
    BY <1>3 DEF OpenRetry, Opens
  <2>3. QED BY <1>3, <2>1, <2>2 DEF OpenRetry, row, history
<1>4. ASSUME NEW m \in Messages, SendTask(s, m) PROVE TypeOK'
  <2>1. api' \in [Sessions -> Call]
    BY <1>4 DEF SendTask, Call
  <2>2. message' \in [Messages -> Message]
    BY <1>4 DEF SendTask, Message, Call
  <2>3. QED BY <1>4, <2>1, <2>2 DEF SendTask, row, history
<1>5. CASE CommitTask(s)
  <2>1. api[s].task \in Messages \cup {NoMessage}
    BY DEF Call
  <2>2. QED BY <1>5, <2>1 DEF CommitTask, history
<1>6. CASE RevokeTask(s)
  <2>1. api' \in [Sessions -> Call]
    BY <1>6 DEF RevokeTask, Call
  <2>2. revoked' \subseteq Messages
    BY <1>6 DEF RevokeTask, Call
  <2>3. QED BY <1>6, <2>1, <2>2 DEF RevokeTask, row, history
<1>7. CASE CommitCancel(s)
  <2>1. api[s].job \in Jobs
    BY <1>7 DEF CommitCancel, CallsInv
  <2>2. status' \in [Jobs -> Status]
    BY <1>7 DEF CommitCancel, Status, Terminal
  <2>3. QED BY <1>7, <2>1, <2>2 DEF CommitCancel, history
<1>8. CASE CommitRetry(s)
  <2>1. api[s].job \in Jobs
    BY <1>8 DEF CommitRetry, CallsInv
  <2>2. status' \in [Jobs -> Status]
    BY <1>8 DEF CommitRetry, Status, Unsettled
  <2>3. model' \in [Jobs -> BOOLEAN]
    BY <1>8 DEF CommitRetry, Written
  <2>4. task' \in [Jobs -> Messages \cup {NoMessage}]
    BY <1>8 DEF CommitRetry, Written
  <2>5. api' \in [Sessions -> Call]
    BY <1>8, <2>1 DEF CommitRetry, NoCall, Call
  <2>6. QED BY <1>8, <2>1, <2>2, <2>3, <2>4, <2>5 DEF CommitRetry
<1>9. CASE AbandonCall(s)
  <2>1. api[s].job \in Jobs
    BY <1>9 DEF AbandonCall, CallsInv
  <2>2. QED BY <1>9, <2>1 DEF AbandonCall, row
<1>10. QED
  BY <1>1, <1>2, <1>3, <1>4, <1>5, <1>6, <1>7, <1>8, <1>9 DEF ApiStep

\* A step of one run: what it leaves alone.
LEMMA MovesTypes ==
    ASSUME TypeOK, NEW r \in Runs, NEW new, Moves(r, new), new \in Run
    PROVE  /\ run' \in [Runs -> Run]
           /\ isolated' \in BOOLEAN
           /\ task' \in [Jobs -> Messages \cup {NoMessage}]
           /\ revoked' \subseteq Messages
           /\ api' \in [Sessions -> Call]
           /\ redelivered' \subseteq Jobs /\ overtaken' \subseteq Jobs
           /\ doubled' \subseteq Jobs
           /\ calls' \in Nat
BY DEF TypeOK, Moves

LEMMA RemainsTypes ==
    ASSUME TypeOK, NEW r \in Runs, NEW left \in Remains(r)
    PROVE  /\ left \in Run
           /\ \/ left = NoRun
              \/ left = [run[r] EXCEPT !.attached = FALSE]
<1>1. run[r] \in Run
  BY DEF TypeOK
<1>2. left = NoRun \/ left = [run[r] EXCEPT !.attached = FALSE]
  BY DEF Remains
<1>3. QED BY <1>1, <1>2, Constants DEF Run

LEMMA AckedTypes ==
    ASSUME TypeOK, RunsInv, NEW r \in Runs
    PROVE  /\ Acked(r) \in [Messages -> Message]
           /\ \A m \in Messages : Acked(r)[m].job = message[m].job
BY DEF TypeOK, Acked, Message, RunsInv, RunInv

LEMMA TypeRunStep ==
    ASSUME TypeOK, MessagesInv, RunsInv, NEW r \in Runs,
           \/ \E m \in Messages : TakeMessage(r, m)
           \/ RunStep(r)
           \/ ReloadJob(r)
    PROVE  TypeOK'
<1> USE Constants
<1>0. /\ run[r] \in Run /\ RunInv(r)
      /\ status \in [Jobs -> Status] /\ model \in [Jobs -> BOOLEAN]
      /\ message \in [Messages -> Message]
  BY DEF TypeOK, RunsInv
<1>1. ASSUME NEW m \in Messages, TakeMessage(r, m) PROVE TypeOK'
  <2>1. message[m].job \in Jobs
    BY <1>1 DEF TakeMessage, MessagesInv
  <2>2. PICK new : new = [NoRun EXCEPT !.pc = "taken", !.attached = TRUE, !.msg = m,
                                       !.job = message[m].job]
    OBVIOUS
  <2>3. new \in Run
    BY <2>1, <2>2 DEF NoRun, Run
  <2>4. Moves(r, new)
    BY <1>1, <2>2 DEF TakeMessage
  <2>5. message' \in [Messages -> Message]
    BY <1>0, <1>1 DEF TakeMessage, Message
  <2>6. QED BY <1>1, <2>3, <2>4, <2>5, MovesTypes DEF TakeMessage, TypeOK
<1>2. CASE LoadJob(r)
  <2>1. run[r].job \in Jobs
    BY <1>0, <1>2 DEF LoadJob, RunInv
  <2>2. PICK new : /\ new = [run[r] EXCEPT
                               !.pc = IF Withdrawn(status[run[r].job]) THEN "done"
                                                                      ELSE "loaded",
                               !.seen = status[run[r].job]]
                   /\ Moves(r, new)
    BY <1>2 DEF LoadJob
  <2>3. new \in Run
    BY <1>0, <2>1, <2>2 DEF Run
  <2>4. QED BY <1>2, <2>2, <2>3, MovesTypes DEF LoadJob, TypeOK
<1>3. CASE StartTraining(r)
  <2>1. run[r].job \in Jobs
    BY <1>0, <1>3 DEF StartTraining, RunInv
  <2>2. PICK new : new = [run[r] EXCEPT !.pc = "started"] /\ Moves(r, new)
    BY <1>3 DEF StartTraining
  <2>3. new \in Run
    BY <1>0, <2>2 DEF Run
  <2>4. status' \in [Jobs -> Status]
    BY <1>0, <1>3, <2>1 DEF StartTraining, Written, Status, Unsettled
  <2>5. QED BY <1>3, <2>2, <2>3, <2>4, MovesTypes DEF StartTraining, TypeOK
<1>4. CASE ReloadJob(r)
  <2>1. run[r].job \in Jobs
    BY <1>0, <1>4 DEF ReloadJob, RunInv
  <2>2. PICK new : /\ new = [run[r] EXCEPT !.pc = "training",
                                           !.seen = status[run[r].job],
                                           !.had = model[run[r].job]]
                   /\ Moves(r, new)
    BY <1>4 DEF ReloadJob
  <2>3. new \in Run
    BY <1>0, <2>1, <2>2 DEF Run
  <2>4. QED BY <1>4, <2>2, <2>3, MovesTypes DEF ReloadJob, TypeOK
<1>5. CASE TrainModel(r)
  <2>0. PICK o \in {"completed", "failed"} :
            Moves(r, [run[r] EXCEPT !.pc = "trained", !.outcome = o])
    BY <1>5 DEF TrainModel
  <2>1. PICK new : /\ new = [run[r] EXCEPT !.pc = "trained", !.outcome = o]
                   /\ Moves(r, new)
    BY <2>0
  <2>2. new \in Run
    BY <1>0, <2>1 DEF Run
  <2>3. QED BY <1>5, <2>1, <2>2, MovesTypes DEF TrainModel, TypeOK
<1>6. CASE GuardStatus(r)
  <2>1. PICK new : /\ new = [run[r] EXCEPT
                               !.pc = IF Withdrawn(status[run[r].job]) THEN "done"
                                                                      ELSE "guarded"]
                   /\ Moves(r, new)
    BY <1>6 DEF GuardStatus
  <2>2. new \in Run
    BY <1>0, <2>1 DEF Run
  <2>3. QED BY <1>6, <2>1, <2>2, MovesTypes DEF GuardStatus, TypeOK
<1>7. CASE CommitOutcome(r)
  <2>1. run[r].job \in Jobs /\ run[r].outcome \in {"completed", "failed"}
    BY <1>0, <1>7 DEF CommitOutcome, RunInv
  <2>2. PICK new : new = [run[r] EXCEPT !.pc = "done"] /\ Moves(r, new)
    BY <1>7 DEF CommitOutcome
  <2>3. new \in Run
    BY <1>0, <2>2 DEF Run
  <2>4. status' \in [Jobs -> Status]
    BY <1>0, <1>7, <2>1 DEF CommitOutcome, Written, Status, Terminal
  <2>5. model' \in [Jobs -> BOOLEAN]
    BY <1>0, <1>7, <2>1 DEF CommitOutcome, ModelAfter, Written
  <2>6. QED BY <1>7, <2>2, <2>3, <2>4, <2>5, MovesTypes DEF CommitOutcome, TypeOK
<1>8. CASE FinishTask(r)
  <2>1. Moves(r, NoRun) /\ message' \in [Messages -> Message]
    BY <1>8, AckedTypes DEF FinishTask
  <2>2. QED BY <1>8, <2>1, MovesTypes DEF FinishTask, TypeOK
<1>9. QED
  BY <1>1, <1>2, <1>3, <1>4, <1>5, <1>6, <1>7, <1>8 DEF RunStep

LEMMA TypeLossStep ==
    ASSUME TypeOK, MessagesInv, RunsInv, NEW r \in Runs,
           WorkerLost(r) \/ KillRevoked(r) \/ RunFails(r)
    PROVE  TypeOK'
<1> USE Constants
<1>0. run[r].pc # "idle" => run[r].job \in Jobs
  BY DEF RunsInv, RunInv
<1>1. CASE WorkerLost(r)
  <2>1. PICK left \in Remains(r) : run' = [run EXCEPT ![r] = left]
    BY <1>1 DEF WorkerLost
  <2>2. run' \in [Runs -> Run]
    BY <2>1, RemainsTypes DEF TypeOK
  <2>3. message' \in [Messages -> Message]
    <3>1. \A m \in Messages : [message[m] EXCEPT !.state = "queued"] \in Message
      BY DEF TypeOK, Message
    <3>2. QED BY <1>1, <3>1 DEF WorkerLost, TypeOK, AfterLoss
  <2>4. QED BY <1>0, <1>1, <2>2, <2>3 DEF WorkerLost, TypeOK, row
<1>2. CASE KillRevoked(r)
  <2>1. PICK left \in Remains(r) : run' = [run EXCEPT ![r] = left]
    BY <1>2 DEF KillRevoked
  <2>2. run' \in [Runs -> Run]
    BY <2>1, RemainsTypes DEF TypeOK
  <2>3. message' \in [Messages -> Message]
    BY <1>2, AckedTypes DEF KillRevoked
  <2>4. QED BY <1>0, <1>2, <2>2, <2>3 DEF KillRevoked, TypeOK, row, Cut
<1>3. CASE RunFails(r)
  <2>1. Moves(r, NoRun) /\ message' \in [Messages -> Message]
    BY <1>3, AckedTypes DEF RunFails
  <2>2. QED BY <1>0, <1>3, <2>1, MovesTypes DEF RunFails, TypeOK, Cut
<1>4. QED BY <1>1, <1>2, <1>3

-----------------------------------------------------------------------------
(* Messages, and who refers to them                                        *)

\* A message that was sent stays sent, for the same job.
SentStays ==
    \A m \in Messages : message[m].state # "unsent" =>
        message'[m].job = message[m].job /\ message'[m].state # "unsent"

\* What a step of run r has to see to, so that every run keeps its message.
LEMMA RunsKept ==
    ASSUME TypeOK, RunsInv, NEW r \in Runs, NEW new \in Run,
           run' = [run EXCEPT ![r] = new],
           new.pc # "idle" => new.job \in Jobs,
           new.pc = "idle" => ~new.attached,
           new.pc \in {"trained", "guarded"} => new.outcome \in {"completed", "failed"},
           new.attached =>
               /\ new.msg \in Messages
               /\ message'[new.msg].state = "claimed"
               /\ message'[new.msg].job = new.job
               /\ \/ run[r].attached /\ run[r].msg = new.msg
                  \/ message[new.msg].state # "claimed",
           \A m \in Messages :
               message[m].state = "claimed" /\ ~(run[r].attached /\ run[r].msg = m)
               => message'[m] = message[m]
    PROVE  RunsInv'
<1>0. /\ run'[r] = new
      /\ \A q \in Runs \ {r} : run'[q] = run[q]
  BY DEF TypeOK
<1>1. ASSUME NEW q \in Runs \ {r}, run[q].attached
      PROVE  /\ run[q].msg \in Messages /\ message[run[q].msg].state = "claimed"
             /\ message[run[q].msg].job = run[q].job
             /\ ~(run[r].attached /\ run[r].msg = run[q].msg)
             /\ message'[run[q].msg] = message[run[q].msg]
             /\ new.attached => new.msg # run[q].msg
  <2>1. RunInv(q)
    BY DEF RunsInv
  <2>2. run[q].msg \in Messages /\ message[run[q].msg].state = "claimed"
        /\ message[run[q].msg].job = run[q].job
    BY <1>1, <2>1 DEF RunInv
  <2>3. ~(run[r].attached /\ run[r].msg = run[q].msg)
    BY <1>1, <2>1 DEF RunInv
  <2>4. QED BY <2>2, <2>3
<1>2. RunInv(r)'
  BY <1>0, <1>1 DEF RunInv
<1>3. ASSUME NEW q \in Runs \ {r} PROVE RunInv(q)'
  <2>1. RunInv(q) /\ run'[q] = run[q]
    BY <1>0 DEF RunsInv
  <2>2. CASE ~run[q].attached
    BY <2>1, <2>2 DEF RunInv
  <2>3. CASE run[q].attached
    <3>1. \A p \in Runs \ {q} : run'[p].attached => run'[p].msg # run[q].msg
      BY <1>0, <1>1, <2>1, <2>3 DEF RunInv
    <3>2. QED BY <1>1, <2>1, <2>3, <3>1 DEF RunInv
  <2>4. QED BY <2>2, <2>3
<1>4. QED BY <1>2, <1>3 DEF RunsInv

\* The part of the invariant about references, kept by every API call.
LEMMA ReferencesApiStep ==
    ASSUME TypeOK, MessagesInv, CallsInv, RunsInv, NEW s \in Sessions, ApiStep(s)
    PROVE  MessagesInv' /\ CallsInv' /\ RunsInv'
<1> USE Constants
<1>0. /\ api[s] \in Call /\ TaskOf(api[s].task, api[s].job)
      /\ api[s].task \in Messages \cup {NoMessage}
      /\ api \in [Sessions -> Call] /\ message \in [Messages -> Message]
      /\ task \in [Jobs -> Messages \cup {NoMessage}]
  BY DEF TypeOK, CallsInv, Call
<1>1. ASSUME UNCHANGED <<message, run>>,
             \A j \in Jobs : TaskOf(task'[j], j),
             \A t \in Sessions \ {s} : api'[t] = api[t],
             api'[s].pc # "idle" => api'[s].job \in Jobs,
             TaskOf(api'[s].task, api'[s].job),
             \A m \in revoked' \ revoked : message[m].state # "unsent"
      PROVE  MessagesInv' /\ CallsInv' /\ RunsInv'
  <2>1. MessagesInv'
    BY <1>1 DEF MessagesInv, TaskOf
  <2>2. CallsInv'
    <3>1. ASSUME NEW t \in Sessions
          PROVE  /\ api'[t].pc # "idle" => api'[t].job \in Jobs
                 /\ TaskOf(api'[t].task, api'[t].job)
      <4>1. CASE t = s
        BY <1>1, <4>1
      <4>2. CASE t # s
        BY <1>1, <4>2 DEF CallsInv
      <4>3. QED BY <4>1, <4>2
    <3>2. QED BY <1>1, <3>1 DEF CallsInv, TaskOf
  <2>3. RunsInv'
    BY <1>1 DEF RunsInv, RunInv
  <2>4. QED BY <2>1, <2>2, <2>3
<1>2. ASSUME NEW call, api' = [api EXCEPT ![s] = call]
      PROVE  api'[s] = call /\ \A t \in Sessions \ {s} : api'[t] = api[t]
  BY <1>0, <1>2
<1>3. \A j \in Jobs : TaskOf(task[j], j)
  BY DEF MessagesInv
<1>4. \A j : TaskOf(NoMessage, j)
  BY DEF TaskOf
<1>5. ASSUME NEW j \in Jobs, CreateJob(s, j)
      PROVE  MessagesInv' /\ CallsInv' /\ RunsInv'
  <2>1. PICK call : call = [NoCall EXCEPT !.pc = "sending", !.job = j]
    OBVIOUS
  <2>2. /\ call.job = j /\ call.task = NoMessage
        /\ api' = [api EXCEPT ![s] = call]
        /\ UNCHANGED <<message, run, task, revoked>>
    BY <1>5, <2>1 DEF CreateJob, Opens, NoCall
  <2>3. QED BY <1>1, <1>2, <1>3, <1>4, <2>2
<1>6. ASSUME NEW j \in Jobs, OpenCancel(s, j)
      PROVE  MessagesInv' /\ CallsInv' /\ RunsInv'
  <2>1. PICK call : call = [NoCall EXCEPT !.pc = "cancelling", !.job = j,
                                          !.task = task[j]]
    OBVIOUS
  <2>2. /\ call.job = j /\ call.task = task[j]
        /\ api' = [api EXCEPT ![s] = call]
        /\ UNCHANGED <<message, run, task, revoked>>
    BY <1>6, <2>1 DEF OpenCancel, Opens, NoCall, row
  <2>3. QED BY <1>1, <1>2, <1>3, <2>2
<1>7. ASSUME NEW j \in Jobs, OpenRetry(s, j)
      PROVE  MessagesInv' /\ CallsInv' /\ RunsInv'
  <2>1. PICK call : call = [pc |-> "retrying", job |-> j, task |-> task[j],
                            had |-> model[j]]
    OBVIOUS
  <2>2. /\ call.job = j /\ call.task = task[j]
        /\ api' = [api EXCEPT ![s] = call]
        /\ UNCHANGED <<message, run, task, revoked>>
    BY <1>7, <2>1 DEF OpenRetry, Opens, row
  <2>3. QED BY <1>1, <1>2, <1>3, <2>2
<1>8. ASSUME NEW m \in Messages, SendTask(s, m)
      PROVE  MessagesInv' /\ CallsInv' /\ RunsInv'
  <2>1. api[s].job \in Jobs /\ message[m].state = "unsent"
    BY <1>8 DEF SendTask, CallsInv
  <2>2. /\ message'[m].job = api[s].job /\ message'[m].state = "queued"
        /\ \A n \in Messages \ {m} : message'[n] = message[n]
    BY <1>0, <1>8 DEF SendTask
  <2>3. SentStays
    BY <2>1, <2>2 DEF SentStays
  <2>4. MessagesInv'
    <3>1. \A n \in Messages : message'[n].state # "unsent" => message'[n].job \in Jobs
      BY <2>1, <2>2 DEF MessagesInv
    <3>2. \A j \in Jobs : TaskOf(task[j], j)'
      BY <1>0, <1>3, <1>8, <2>3 DEF SendTask, row, SentStays, TaskOf
    <3>3. \A n \in revoked' : message'[n].state # "unsent"
      <4>1. revoked' = revoked /\ revoked \subseteq Messages
        BY <1>8 DEF SendTask, TypeOK
      <4>2. QED BY <2>3, <4>1 DEF MessagesInv, SentStays
    <3>4. QED BY <3>1, <3>2, <3>3 DEF MessagesInv
  <2>5. CallsInv'
    <3>1. /\ api'[s].job = api[s].job /\ api'[s].task = m
          /\ \A t \in Sessions \ {s} : api'[t] = api[t]
      BY <1>0, <1>8 DEF SendTask, Call
    <3>2. ASSUME NEW t \in Sessions
          PROVE  /\ api'[t].pc # "idle" => api'[t].job \in Jobs
                 /\ TaskOf(api[t].task, api[t].job)'
      <4>1. CASE t = s
        BY <2>1, <2>2, <3>1, <4>1 DEF TaskOf
      <4>2. CASE t # s
        <5>1. api'[t] = api[t] /\ api[t].task \in Messages \cup {NoMessage}
          BY <1>0, <3>1, <4>2 DEF Call
        <5>2. QED BY <2>3, <5>1 DEF CallsInv, TaskOf, SentStays
      <4>3. QED BY <4>1, <4>2
    <3>3. QED BY <3>2 DEF CallsInv
  <2>6. RunsInv'
    <3>1. ASSUME NEW r \in Runs PROVE RunInv(r)'
      BY <1>8, <2>1, <2>2 DEF SendTask, RunsInv, RunInv
    <3>2. QED BY <3>1 DEF RunsInv
  <2>7. QED BY <2>4, <2>5, <2>6
<1>9. CASE CommitTask(s)
  <2>1. UNCHANGED <<message, run, revoked>> /\ api' = [api EXCEPT ![s] = NoCall]
    BY <1>9 DEF CommitTask
  <2>2. \A j \in Jobs : TaskOf(task'[j], j)
    BY <1>0, <1>3, <1>9 DEF CommitTask
  <2>3. NoCall.pc = "idle" /\ NoCall.task = NoMessage
    BY DEF NoCall
  <2>4. QED BY <1>1, <1>2, <1>4, <2>1, <2>2, <2>3
<1>10. CASE RevokeTask(s)
  <2>1. UNCHANGED <<message, run, task>> /\ api[s].job \in Jobs
    BY <1>10 DEF RevokeTask, row, CallsInv
  <2>2. /\ api'[s].job = api[s].job /\ api'[s].task = api[s].task
        /\ \A t \in Sessions \ {s} : api'[t] = api[t]
    BY <1>0, <1>10 DEF RevokeTask, Call
  <2>3. \A m \in revoked' \ revoked : message[m].state # "unsent"
    BY <1>0, <1>10 DEF RevokeTask, TaskOf
  <2>4. QED BY <1>0, <1>1, <1>3, <2>1, <2>2, <2>3
<1>11. CASE CommitCancel(s) \/ AbandonCall(s)
  <2>1. /\ UNCHANGED <<message, run, task, revoked>>
        /\ api' = [api EXCEPT ![s] = NoCall]
    BY <1>11 DEF CommitCancel, AbandonCall, row
  <2>2. NoCall.pc = "idle" /\ NoCall.task = NoMessage
    BY DEF NoCall
  <2>3. QED BY <1>1, <1>2, <1>3, <1>4, <2>1, <2>2
<1>12. CASE CommitRetry(s)
  <2>1. PICK call : call = [NoCall EXCEPT !.pc = "sending", !.job = api[s].job]
    OBVIOUS
  <2>2. /\ call.job = api[s].job /\ call.task = NoMessage /\ api[s].job \in Jobs
        /\ api' = [api EXCEPT ![s] = call]
        /\ UNCHANGED <<message, run, revoked>>
    BY <1>12, <2>1 DEF CommitRetry, NoCall, CallsInv
  <2>3. \A j \in Jobs : task'[j] \in {task[j], NoMessage}
    BY <1>0, <1>12 DEF CommitRetry, Written
  <2>4. \A j \in Jobs : TaskOf(task'[j], j)
    BY <1>3, <1>4, <2>3
  <2>5. QED BY <1>1, <1>2, <1>4, <2>2, <2>4
<1>13. QED
  BY <1>5, <1>6, <1>7, <1>8, <1>9, <1>10, <1>11, <1>12 DEF ApiStep

\* Steps that neither send nor record a task keep the references to messages.
LEMMA MessagesKept ==
    ASSUME TypeOK, MessagesInv, CallsInv, UNCHANGED <<task, api, revoked>>,
           \A m \in Messages :
               /\ message'[m].job = message[m].job
               /\ message'[m].state = "unsent" <=> message[m].state = "unsent"
    PROVE  MessagesInv' /\ CallsInv'
<1>1. MessagesInv'
  <2>1. \A m \in Messages : message'[m].state # "unsent" => message'[m].job \in Jobs
    BY DEF MessagesInv
  <2>2. ASSUME NEW j \in Jobs PROVE TaskOf(task[j], j)'
    <3>1. task[j] \in Messages \cup {NoMessage} /\ TaskOf(task[j], j)
      BY DEF MessagesInv, TypeOK
    <3>2. task'[j] = task[j]
      OBVIOUS
    <3>3. QED BY <3>1, <3>2 DEF TaskOf
  <2>3. \A m \in revoked' : message'[m].state # "unsent"
    BY DEF MessagesInv, TypeOK
  <2>4. QED BY <2>1, <2>2, <2>3 DEF MessagesInv
<1>2. CallsInv'
  <2>1. ASSUME NEW s \in Sessions
        PROVE  /\ api'[s].pc # "idle" => api'[s].job \in Jobs
               /\ TaskOf(api[s].task, api[s].job)'
    <3>1. /\ api[s].task \in Messages \cup {NoMessage}
          /\ TaskOf(api[s].task, api[s].job)
          /\ api[s].pc # "idle" => api[s].job \in Jobs
      BY DEF TypeOK, Call, CallsInv
    <3>2. api'[s] = api[s]
      OBVIOUS
    <3>3. QED BY <3>1, <3>2 DEF TaskOf
  <2>2. QED BY <2>1 DEF CallsInv
<1>3. QED BY <1>1, <1>2

\* An acknowledgement concerns the run's own message only.
LEMMA AckedMessages ==
    ASSUME TypeOK, RunsInv, NEW r \in Runs, message' = Acked(r)
    PROVE  \A m \in Messages :
               /\ message'[m].job = message[m].job
               /\ message'[m].state = "unsent" <=> message[m].state = "unsent"
               /\ message[m].state = "queued" => message'[m] = message[m]
               /\ message'[m] # message[m] => run[r].attached /\ run[r].msg = m
<1>1. CASE ~run[r].attached
  BY <1>1 DEF Acked
<1>2. CASE run[r].attached
  <2>1. run[r].msg \in Messages /\ message[run[r].msg].state = "claimed"
    BY <1>2 DEF RunsInv, RunInv
  <2>2. message' = [message EXCEPT ![run[r].msg].state = "acked"]
    BY <1>2 DEF Acked
  <2>3. QED BY <1>2, <2>1, <2>2 DEF TypeOK, Message
<1>3. QED BY <1>1, <1>2

\* A run that goes on, or is over, without a change to the messages.
LEMMA RunGoesOn ==
    ASSUME TypeOK, MessagesInv, CallsInv, RunsInv, NEW r \in Runs, NEW new \in Run,
           Moves(r, new), UNCHANGED message, run[r].pc # "idle", new.pc # "idle",
           new.pc \in {"trained", "guarded"} => new.outcome \in {"completed", "failed"},
           new.job = run[r].job, new.msg = run[r].msg, new.attached = run[r].attached
    PROVE  MessagesInv' /\ CallsInv' /\ RunsInv'
<1>1. MessagesInv' /\ CallsInv'
  BY MessagesKept DEF Moves
<1>2. RunInv(r)
  BY DEF RunsInv
<1>3. RunsInv'
  BY <1>2, RunsKept DEF Moves, RunInv
<1>4. QED BY <1>1, <1>3

\* A run that ends and leaves its message acknowledged or queued again.
LEMMA RunEnds ==
    ASSUME TypeOK, MessagesInv, CallsInv, RunsInv, NEW r \in Runs, NEW left \in Run,
           run' = [run EXCEPT ![r] = left], UNCHANGED <<task, api, revoked>>,
           left = NoRun \/ /\ left = [run[r] EXCEPT !.attached = FALSE]
                           /\ run[r].pc # "idle",
           \A m \in Messages :
               /\ message'[m].job = message[m].job
               /\ message'[m].state = "unsent" <=> message[m].state = "unsent"
               /\ message'[m] # message[m] => run[r].attached /\ run[r].msg = m
    PROVE  MessagesInv' /\ CallsInv' /\ RunsInv'
<1>1. MessagesInv' /\ CallsInv'
  BY MessagesKept
<1>2. RunInv(r) /\ run[r] \in Run
  BY DEF RunsInv, TypeOK
<1>3. /\ ~left.attached
      /\ left.pc # "idle" => left.job \in Jobs
      /\ left.pc \in {"trained", "guarded"} => left.outcome \in {"completed", "failed"}
  <2>1. CASE left = NoRun
    BY <2>1 DEF NoRun
  <2>2. CASE /\ left = [run[r] EXCEPT !.attached = FALSE] /\ run[r].pc # "idle"
    BY <1>2, <2>2 DEF Run, RunInv
  <2>3. QED BY <2>1, <2>2
<1>4. RunsInv'
  BY <1>3, RunsKept
<1>5. QED BY <1>1, <1>4

LEMMA ReferencesRunStep ==
    ASSUME TypeOK, MessagesInv, CallsInv, RunsInv, NEW r \in Runs,
           \/ \E m \in Messages : TakeMessage(r, m)
           \/ RunStep(r)
           \/ ReloadJob(r)
           \/ WorkerLost(r) \/ KillRevoked(r) \/ RunFails(r)
    PROVE  MessagesInv' /\ CallsInv' /\ RunsInv'
<1> USE Constants
<1>0. /\ run[r] \in Run /\ RunInv(r)
      /\ message \in [Messages -> Message]
      /\ status \in [Jobs -> Status] /\ model \in [Jobs -> BOOLEAN]
  BY DEF TypeOK, RunsInv
<1>1. ASSUME NEW m \in Messages, TakeMessage(r, m)
      PROVE  MessagesInv' /\ CallsInv' /\ RunsInv'
  <2>1. PICK new : new = [NoRun EXCEPT !.pc = "taken", !.attached = TRUE, !.msg = m,
                                       !.job = message[m].job]
    OBVIOUS
  <2>2. message[m].job \in Jobs /\ message[m].state = "queued" /\ run[r].pc = "idle"
    BY <1>1 DEF TakeMessage, MessagesInv
  <2>3. new \in Run /\ new.pc = "taken" /\ new.attached /\ new.msg = m
        /\ new.job = message[m].job
    BY <2>1, <2>2 DEF NoRun, Run
  <2>4. /\ message'[m].state = "claimed" /\ message'[m].job = message[m].job
        /\ \A n \in Messages \ {m} : message'[n] = message[n]
    BY <1>0, <1>1 DEF TakeMessage, Message
  <2>5. run' = [run EXCEPT ![r] = new] /\ UNCHANGED <<task, api, revoked>>
    BY <1>1, <2>1 DEF TakeMessage, Moves
  <2>6. MessagesInv' /\ CallsInv'
    BY <2>2, <2>4, <2>5, MessagesKept
  <2>7. RunsInv'
    BY <2>2, <2>3, <2>4, <2>5, RunsKept
  <2>8. QED BY <2>6, <2>7
<1>2. CASE LoadJob(r)
  <2>1. PICK new : /\ new = [run[r] EXCEPT
                               !.pc = IF Withdrawn(status[run[r].job]) THEN "done"
                                                                      ELSE "loaded",
                               !.seen = status[run[r].job]]
                   /\ Moves(r, new)
    BY <1>2 DEF LoadJob
  <2>2. run[r].job \in Jobs
    BY <1>0, <1>2 DEF LoadJob, RunInv
  <2>3. /\ new \in Run /\ new.pc \in {"done", "loaded"} /\ new.job = run[r].job
        /\ new.msg = run[r].msg /\ new.attached = run[r].attached
    BY <1>0, <2>1, <2>2 DEF Run
  <2>4. QED BY <1>2, <2>1, <2>3, RunGoesOn DEF LoadJob
<1>3. CASE StartTraining(r)
  <2>1. PICK new : new = [run[r] EXCEPT !.pc = "started"] /\ Moves(r, new)
    BY <1>3 DEF StartTraining
  <2>2. /\ new \in Run /\ new.pc = "started" /\ new.job = run[r].job
        /\ new.msg = run[r].msg /\ new.attached = run[r].attached
    BY <1>0, <2>1 DEF Run
  <2>3. QED BY <1>3, <2>1, <2>2, RunGoesOn DEF StartTraining
<1>4. CASE ReloadJob(r)
  <2>1. PICK new : /\ new = [run[r] EXCEPT !.pc = "training",
                                           !.seen = status[run[r].job],
                                           !.had = model[run[r].job]]
                   /\ Moves(r, new)
    BY <1>4 DEF ReloadJob
  <2>2. run[r].job \in Jobs
    BY <1>0, <1>4 DEF ReloadJob, RunInv
  <2>3. /\ new \in Run /\ new.pc = "training" /\ new.job = run[r].job
        /\ new.msg = run[r].msg /\ new.attached = run[r].attached
    BY <1>0, <2>1, <2>2 DEF Run
  <2>4. QED BY <1>4, <2>1, <2>3, RunGoesOn DEF ReloadJob
<1>5. CASE TrainModel(r)
  <2>0. PICK o \in {"completed", "failed"} :
            Moves(r, [run[r] EXCEPT !.pc = "trained", !.outcome = o])
    BY <1>5 DEF TrainModel
  <2>1. PICK new : /\ new = [run[r] EXCEPT !.pc = "trained", !.outcome = o]
                   /\ Moves(r, new)
    BY <2>0
  <2>2. /\ new \in Run /\ new.pc = "trained" /\ new.outcome = o
        /\ new.job = run[r].job
        /\ new.msg = run[r].msg /\ new.attached = run[r].attached
    BY <1>0, <2>1 DEF Run
  <2>3. QED BY <1>5, <2>1, <2>2, RunGoesOn DEF TrainModel
<1>6. CASE GuardStatus(r)
  <2>1. PICK new : /\ new = [run[r] EXCEPT
                               !.pc = IF Withdrawn(status[run[r].job]) THEN "done"
                                                                      ELSE "guarded"]
                   /\ Moves(r, new)
    BY <1>6 DEF GuardStatus
  <2>2. run[r].outcome \in {"completed", "failed"}
    BY <1>0, <1>6 DEF GuardStatus, RunInv
  <2>3. /\ new \in Run /\ new.pc \in {"done", "guarded"} /\ new.job = run[r].job
        /\ new.outcome = run[r].outcome
        /\ new.msg = run[r].msg /\ new.attached = run[r].attached
    BY <1>0, <2>1 DEF Run
  <2>4. QED BY <1>6, <2>1, <2>2, <2>3, RunGoesOn DEF GuardStatus
<1>7. CASE CommitOutcome(r)
  <2>1. PICK new : new = [run[r] EXCEPT !.pc = "done"] /\ Moves(r, new)
    BY <1>7 DEF CommitOutcome
  <2>2. /\ new \in Run /\ new.pc = "done" /\ new.job = run[r].job
        /\ new.msg = run[r].msg /\ new.attached = run[r].attached
    BY <1>0, <2>1 DEF Run
  <2>3. QED BY <1>7, <2>1, <2>2, RunGoesOn DEF CommitOutcome
<1>8. CASE FinishTask(r) \/ RunFails(r)
  <2>1. Moves(r, NoRun) /\ message' = Acked(r)
    BY <1>8 DEF FinishTask, RunFails
  <2>2. QED BY <2>1, AckedMessages, RunEnds DEF Moves
<1>9. CASE KillRevoked(r)
  <2>1. PICK left \in Remains(r) : run' = [run EXCEPT ![r] = left]
    BY <1>9 DEF KillRevoked
  <2>2. left \in Run /\ (left = NoRun \/ left = [run[r] EXCEPT !.attached = FALSE])
    BY RemainsTypes
  <2>3. message' = Acked(r) /\ UNCHANGED <<task, api, revoked>> /\ run[r].pc # "idle"
    BY <1>9 DEF KillRevoked, row
  <2>4. \A m \in Messages :
            /\ message'[m].job = message[m].job
            /\ message'[m].state = "unsent" <=> message[m].state = "unsent"
            /\ message'[m] # message[m] => run[r].attached /\ run[r].msg = m
    BY <2>3, AckedMessages
  <2>5. QED BY <2>1, <2>2, <2>3, <2>4, RunEnds
<1>10. CASE WorkerLost(r)
  <2>1. PICK left \in Remains(r) : run' = [run EXCEPT ![r] = left]
    BY <1>10 DEF WorkerLost
  <2>2. left \in Run /\ (left = NoRun \/ left = [run[r] EXCEPT !.attached = FALSE])
    BY RemainsTypes
  <2>3. UNCHANGED <<task, api, revoked>> /\ run[r].pc # "idle" /\ run[r].attached
    BY <1>10 DEF WorkerLost, row
  <2>4. run[r].msg \in Messages /\ message[run[r].msg].state = "claimed"
    BY <1>0, <2>3 DEF RunInv
  <2>5. \A m \in Messages :
            /\ message'[m].job = message[m].job
            /\ message'[m].state = "unsent" <=> message[m].state = "unsent"
            /\ message'[m] # message[m] => run[r].attached /\ run[r].msg = m
    <3>1. message' = [message EXCEPT ![run[r].msg].state = "queued"]
      BY <1>10 DEF WorkerLost, AfterLoss
    <3>2. QED BY <1>0, <2>3, <2>4, <3>1 DEF Message
  <2>6. QED BY <2>1, <2>2, <2>3, <2>5, RunEnds
<1>11. QED
  BY <1>1, <1>2, <1>3, <1>4, <1>5, <1>6, <1>7, <1>8, <1>9, <1>10 DEF RunStep

LEMMA ReferencesDrop ==
    ASSUME TypeOK, MessagesInv, CallsInv, RunsInv, NEW m \in Messages, DropRevoked(m)
    PROVE  MessagesInv' /\ CallsInv' /\ RunsInv' /\ TypeOK'
<1>1. /\ message' \in [Messages -> Message]
      /\ message'[m].state = "acked" /\ message'[m].job = message[m].job
      /\ message[m].state = "queued"
      /\ \A n \in Messages \ {m} : message'[n] = message[n]
  BY DEF DropRevoked, TypeOK, Message
<1>2. MessagesInv' /\ CallsInv'
  BY <1>1, MessagesKept DEF DropRevoked, row
<1>3. RunsInv'
  <2>1. ASSUME NEW r \in Runs PROVE RunInv(r)'
    BY <1>1 DEF DropRevoked, RunsInv, RunInv
  <2>2. QED BY <2>1 DEF RunsInv
<1>4. TypeOK'
  BY <1>1 DEF DropRevoked, TypeOK, row
<1>5. QED BY <1>2, <1>3, <1>4

-----------------------------------------------------------------------------
(* A job that is not settled is relied on                                  *)

ByCall(j, s) == api[s].job = j /\ api[s].pc \in {"sending", "revoked"}
ByMessage(j, m) == /\ message[m].job = j /\ message[m].state = "queued"
                   /\ m \in revoked => j \in redelivered
ByRun(j, r) == run[r].job = j /\ InCharge(r)

LEMMA ReliedBy ==
    ASSUME NEW j
    PROVE  Relied(j) <=> \/ \E s \in Sessions : ByCall(j, s)
                         \/ \E m \in Messages : ByMessage(j, m)
                         \/ \E r \in Runs : ByRun(j, r)
BY DEF Relied, ByCall, ByMessage, ByRun

\* What API call s has to see to for one job.
LEMMA ReliedByCalls ==
    ASSUME TypeOK, ReliedInv, NEW s \in Sessions, NEW j \in Jobs,
           UNCHANGED <<run, redelivered>>, lost \subseteq lost',
           \A t \in Sessions \ {s} : api'[t] = api[t],
           status'[j] \in Unsettled,
           status[j] \in Unsettled \/ ByCall(j, s)',
           ByCall(j, s) => \/ j \in lost' \/ ByCall(j, s)'
                           \/ \E m \in Messages : ByMessage(j, m)',
           \A m \in Messages : ByMessage(j, m) => ByMessage(j, m)' \/ ByCall(j, s)'
    PROVE  j \in lost' \/ Relied(j)'
<1>1. \A r \in Runs : ByRun(j, r) => ByRun(j, r)'
  BY DEF ByRun, InCharge
<1>2. \A t \in Sessions \ {s} : ByCall(j, t) => ByCall(j, t)'
  BY DEF ByCall
<1>3. CASE ByCall(j, s)'
  BY <1>3, ReliedBy DEF ByCall, Relied
<1>4. CASE ~ByCall(j, s)'
  <2>1. j \in lost \/ Relied(j)
    BY <1>4 DEF ReliedInv
  <2>2. CASE j \in lost
    BY <2>2
  <2>3. CASE \E t \in Sessions : ByCall(j, t)
    <3>1. PICK t \in Sessions : ByCall(j, t)
      BY <2>3
    <3>2. CASE t = s
      BY <1>4, <3>1, <3>2 DEF Relied, ByMessage
    <3>3. CASE t # s
      BY <1>2, <3>1, <3>3 DEF Relied, ByCall
    <3>4. QED BY <3>2, <3>3
  <2>4. CASE \E m \in Messages : ByMessage(j, m)
    BY <1>4, <2>4 DEF Relied, ByMessage
  <2>5. CASE \E r \in Runs : ByRun(j, r)
    BY <1>1, <2>5 DEF Relied, ByRun
  <2>6. QED BY <2>1, <2>2, <2>3, <2>4, <2>5, ReliedBy
<1>5. QED BY <1>3, <1>4

LEMMA ReliedApiStep ==
    ASSUME TypeOK, MessagesInv, CallsInv, ReliedInv, NEW s \in Sessions, ApiStep(s)
    PROVE  ReliedInv'
<1> SUFFICES ASSUME NEW j \in Jobs, status'[j] \in Unsettled
             PROVE  j \in lost' \/ Relied(j)'
  BY DEF ReliedInv
<1>0. /\ api[s] \in Call /\ status \in [Jobs -> Status]
      /\ api \in [Sessions -> Call] /\ message \in [Messages -> Message]
      /\ api[s].pc # "idle" => api[s].job \in Jobs
      /\ TaskOf(api[s].task, api[s].job)
  BY DEF TypeOK, CallsInv
<1>1. ASSUME NEW call, api' = [api EXCEPT ![s] = call]
      PROVE  api'[s] = call /\ \A t \in Sessions \ {s} : api'[t] = api[t]
  BY <1>0, <1>1
<1>2. ASSUME UNCHANGED <<message, revoked, redelivered>>
      PROVE  \A m \in Messages : ByMessage(j, m) => ByMessage(j, m)'
  BY <1>2 DEF ByMessage
<1>3. ASSUME NEW i \in Jobs, CreateJob(s, i) PROVE j \in lost' \/ Relied(j)'
  <2>1. PICK call : call = [NoCall EXCEPT !.pc = "sending", !.job = i]
    OBVIOUS
  <2>2. /\ call.job = i /\ call.pc = "sending" /\ api' = [api EXCEPT ![s] = call]
        /\ UNCHANGED <<message, revoked, redelivered, run, lost>>
        /\ api[s].pc = "idle"
    BY <1>3, <2>1 DEF CreateJob, Opens, NoCall, history
  <2>3. status[j] \in Unsettled \/ ByCall(j, s)'
    BY <1>0, <1>1, <1>3, <2>2 DEF CreateJob, ByCall
  <2>4. ~ByCall(j, s)
    BY <2>2 DEF ByCall
  <2>5. QED BY <1>1, <1>2, <2>2, <2>3, <2>4, ReliedByCalls
<1>4. ASSUME NEW i \in Jobs, OpenCancel(s, i) \/ OpenRetry(s, i)
      PROVE  j \in lost' \/ Relied(j)'
  <2>1. PICK call : api' = [api EXCEPT ![s] = call]
    BY <1>4 DEF OpenCancel, OpenRetry, Opens
  <2>2. /\ UNCHANGED <<status, message, revoked, redelivered, run, lost>>
        /\ api[s].pc = "idle"
    BY <1>4 DEF OpenCancel, OpenRetry, Opens, row, history
  <2>3. ~ByCall(j, s)
    BY <2>2 DEF ByCall
  <2>4. QED BY <1>1, <1>2, <2>1, <2>2, <2>3, ReliedByCalls
<1>5. ASSUME NEW m \in Messages, SendTask(s, m) PROVE j \in lost' \/ Relied(j)'
  <2>1. PICK call : api' = [api EXCEPT ![s] = call]
    BY <1>5 DEF SendTask
  <2>2. /\ UNCHANGED <<status, revoked, redelivered, run, lost>>
        /\ api[s].pc = "sending" /\ message[m].state = "unsent"
    BY <1>5 DEF SendTask, row, history
  <2>3. /\ message'[m].job = api[s].job /\ message'[m].state = "queued"
        /\ \A n \in Messages \ {m} : message'[n] = message[n]
    BY <1>0, <1>5 DEF SendTask
  <2>4. m \notin revoked
    BY <2>2 DEF MessagesInv
  <2>5. ByCall(j, s) => ByMessage(j, m)'
    BY <2>2, <2>3, <2>4 DEF ByCall, ByMessage
  <2>6. \A n \in Messages : ByMessage(j, n) => ByMessage(j, n)'
    BY <2>2, <2>3 DEF ByMessage
  <2>7. QED BY <1>1, <2>1, <2>2, <2>5, <2>6, ReliedByCalls
<1>6. CASE CommitTask(s)
  <2>1. /\ UNCHANGED <<status, message, revoked, redelivered, run, lost>>
        /\ api[s].pc = "sent" /\ api' = [api EXCEPT ![s] = NoCall]
    BY <1>6 DEF CommitTask, history
  <2>2. ~ByCall(j, s)
    BY <2>1 DEF ByCall
  <2>3. QED BY <1>1, <1>2, <2>1, <2>2, ReliedByCalls
<1>7. CASE RevokeTask(s)
  <2>1. /\ UNCHANGED <<status, message, redelivered, run, lost>>
        /\ api[s].pc = "cancelling"
    BY <1>7 DEF RevokeTask, row, history
  <2>2. /\ api'[s].job = api[s].job /\ api'[s].pc = "revoked"
        /\ \A t \in Sessions \ {s} : api'[t] = api[t]
    BY <1>0, <1>7 DEF RevokeTask, Call
  <2>3. ASSUME NEW m \in Messages, ByMessage(j, m)
        PROVE  ByMessage(j, m)' \/ ByCall(j, s)'
    <3>1. CASE m \in revoked' \ revoked
      <4>1. m = api[s].task /\ m # NoMessage
        BY <1>7, <3>1 DEF RevokeTask
      <4>2. api[s].job = j
        BY <1>0, <2>3, <4>1 DEF TaskOf, ByMessage
      <4>3. QED BY <2>2, <4>2 DEF ByCall
    <3>2. CASE ~(m \in revoked' \ revoked)
      BY <2>1, <2>3, <3>2 DEF ByMessage
    <3>3. QED BY <3>1, <3>2
  <2>4. ~ByCall(j, s)
    BY <2>1 DEF ByCall
  <2>5. QED BY <2>1, <2>2, <2>3, <2>4, ReliedByCalls
<1>8. CASE CommitCancel(s)
  <2>1. /\ UNCHANGED <<message, revoked, redelivered, run, lost>>
        /\ api[s].job \in Jobs /\ api' = [api EXCEPT ![s] = NoCall]
    BY <1>0, <1>8 DEF CommitCancel, history
  <2>2. api[s].job # j /\ status'[j] = status[j]
    BY <1>0, <1>8, <2>1 DEF CommitCancel, Unsettled
  <2>3. ~ByCall(j, s)
    BY <2>2 DEF ByCall
  <2>4. QED BY <1>1, <1>2, <2>1, <2>2, <2>3, ReliedByCalls
<1>9. CASE CommitRetry(s)
  <2>1. PICK call : call = [NoCall EXCEPT !.pc = "sending", !.job = api[s].job]
    OBVIOUS
  <2>2. /\ call.job = api[s].job /\ call.pc = "sending"
        /\ api' = [api EXCEPT ![s] = call]
        /\ UNCHANGED <<message, revoked, redelivered, run, lost>>
        /\ api[s].pc = "retrying"
    BY <1>9, <2>1 DEF CommitRetry, NoCall
  <2>3. status[j] \in Unsettled \/ ByCall(j, s)'
    BY <1>0, <1>1, <1>9, <2>2 DEF CommitRetry, ByCall
  <2>4. ~ByCall(j, s)
    BY <2>2 DEF ByCall
  <2>5. QED BY <1>1, <1>2, <2>2, <2>3, <2>4, ReliedByCalls
<1>10. CASE AbandonCall(s)
  <2>1. /\ UNCHANGED <<status, message, revoked, redelivered, run>>
        /\ lost \subseteq lost' /\ api' = [api EXCEPT ![s] = NoCall]
    BY <1>10 DEF AbandonCall, row
  <2>2. ByCall(j, s) => j \in lost'
    BY <1>10 DEF AbandonCall, ByCall
  <2>3. QED BY <1>1, <1>2, <2>1, <2>2, ReliedByCalls
<1>11. QED
  BY <1>3, <1>4, <1>5, <1>6, <1>7, <1>8, <1>9, <1>10 DEF ApiStep

\* What a step of run r has to see to for one job.
LEMMA ReliedByRuns ==
    ASSUME TypeOK, ReliedInv, NEW r \in Runs, NEW new, NEW j \in Jobs,
           run' = [run EXCEPT ![r] = new], UNCHANGED <<api, revoked>>,
           lost \subseteq lost', redelivered \subseteq redelivered',
           status'[j] \in Unsettled => status[j] \in Unsettled \/ ByRun(j, r)',
           ByRun(j, r) => \/ status'[j] \notin Unsettled \/ j \in lost'
                          \/ ByRun(j, r)' \/ \E m \in Messages : ByMessage(j, m)',
           \A m \in Messages :
               ByMessage(j, m) => message'[m] = message[m] \/ ByRun(j, r)'
    PROVE  status'[j] \in Unsettled => j \in lost' \/ Relied(j)'
<1> SUFFICES ASSUME status'[j] \in Unsettled PROVE j \in lost' \/ Relied(j)'
  OBVIOUS
<1>1. \A s \in Sessions : ByCall(j, s) => ByCall(j, s)'
  BY DEF ByCall
<1>2. ASSUME NEW q \in Runs, q # r, ByRun(j, q) PROVE ByRun(j, q)'
  <2>1. run'[q] = run[q]
    BY <1>2 DEF TypeOK
  <2>2. QED BY <1>2, <2>1 DEF ByRun, InCharge
<1>3. \A m \in Messages : ByMessage(j, m) => ByMessage(j, m)' \/ ByRun(j, r)'
  BY DEF ByMessage
<1>4. CASE ByRun(j, r)'
  BY <1>4 DEF ByRun, Relied
<1>5. CASE ~ByRun(j, r)'
  <2>1. j \in lost \/ Relied(j)
    BY <1>5 DEF ReliedInv
  <2>2. CASE j \in lost
    BY <2>2
  <2>3. CASE \E s \in Sessions : ByCall(j, s)
    BY <1>1, <2>3 DEF Relied, ByCall
  <2>4. CASE \E m \in Messages : ByMessage(j, m)
    BY <1>3, <1>5, <2>4 DEF Relied, ByMessage
  <2>5. CASE \E q \in Runs : ByRun(j, q)
    <3>1. PICK q \in Runs : ByRun(j, q)
      BY <2>5
    <3>2. CASE q = r
      BY <1>5, <3>1, <3>2 DEF Relied, ByMessage
    <3>3. CASE q # r
      BY <1>2, <3>1, <3>3 DEF Relied, ByRun
    <3>4. QED BY <3>2, <3>3
  <2>6. QED BY <2>1, <2>2, <2>3, <2>4, <2>5, ReliedBy
<1>6. QED BY <1>4, <1>5

\* A run in charge stays so, whatever it does to the job's status.
LEMMA ReliedGoesOn ==
    ASSUME TypeOK, ReliedInv, NEW r \in Runs, NEW new, Moves(r, new),
           UNCHANGED <<message, lost>>, run[r].job \in Jobs,
           \A j \in Jobs \ {run[r].job} : status'[j] = status[j],
           run'[r].job = run[r].job,
           status'[run[r].job] \in Unsettled =>
               status[run[r].job] \in Unsettled \/ InCharge(r)',
           InCharge(r) => status'[run[r].job] \notin Unsettled \/ InCharge(r)'
    PROVE  ReliedInv'
<1>1. ASSUME NEW j \in Jobs
      PROVE  status'[j] \in Unsettled => j \in lost' \/ Relied(j)'
  <2>1. /\ run' = [run EXCEPT ![r] = new]
        /\ UNCHANGED <<api, revoked, message, lost, redelivered>>
    BY DEF Moves
  <2>2. /\ status'[j] \in Unsettled => status[j] \in Unsettled \/ ByRun(j, r)'
        /\ ByRun(j, r) => status'[j] \notin Unsettled \/ ByRun(j, r)'
    <3>1. CASE j = run[r].job
      BY <3>1 DEF ByRun
    <3>2. CASE j # run[r].job
      BY <3>2 DEF ByRun
    <3>3. QED BY <3>1, <3>2
  <2>3. QED BY <2>1, <2>2, ReliedByRuns
<1>2. QED BY <1>1 DEF ReliedInv

LEMMA ReliedTake ==
    ASSUME TypeOK, MessagesInv, ReliedInv, NEW r \in Runs, NEW m \in Messages,
           TakeMessage(r, m)
    PROVE  ReliedInv'
<1>1. PICK new : new = [NoRun EXCEPT !.pc = "taken", !.attached = TRUE, !.msg = m,
                                     !.job = message[m].job]
  OBVIOUS
<1>2. /\ run' = [run EXCEPT ![r] = new] /\ run[r].pc = "idle"
      /\ UNCHANGED <<api, revoked, redelivered, status, lost>>
  BY <1>1 DEF TakeMessage, Moves
<1>3. run'[r] = new /\ new.pc = "taken" /\ new.job = message[m].job
  BY <1>1, <1>2 DEF TypeOK, NoRun
<1>4. \A n \in Messages \ {m} : message'[n] = message[n]
  BY DEF TakeMessage, TypeOK
<1>5. ASSUME NEW j \in Jobs
      PROVE  status'[j] \in Unsettled => j \in lost' \/ Relied(j)'
  <2>1. ~ByRun(j, r)
    BY <1>2 DEF ByRun, InCharge
  <2>2. ByMessage(j, m) => ByRun(j, r)'
    BY <1>3 DEF ByRun, InCharge, ByMessage
  <2>3. \A n \in Messages : ByMessage(j, n) => message'[n] = message[n] \/ ByRun(j, r)'
    BY <1>4, <2>2
  <2>4. QED BY <1>2, <2>1, <2>3, ReliedByRuns
<1>6. QED BY <1>5 DEF ReliedInv

LEMMA ReliedRunStep ==
    ASSUME TypeOK, RunsInv, ReliedInv, NEW r \in Runs, RunStep(r) \/ ReloadJob(r)
    PROVE  ReliedInv'
<1>0. /\ run[r] \in Run /\ status \in [Jobs -> Status] /\ run \in [Runs -> Run]
      /\ run[r].pc # "idle" => run[r].job \in Jobs
      /\ run[r].pc \in {"trained", "guarded"} =>
             run[r].outcome \in {"completed", "failed"}
  BY DEF TypeOK, RunsInv, RunInv
<1>1. CASE LoadJob(r)
  <2>1. PICK new : /\ new = [run[r] EXCEPT
                               !.pc = IF Withdrawn(status[run[r].job]) THEN "done"
                                                                      ELSE "loaded",
                               !.seen = status[run[r].job]]
                   /\ Moves(r, new)
    BY <1>1 DEF LoadJob
  <2>2. run[r].pc = "taken" /\ UNCHANGED <<status, message, lost>>
    BY <1>1 DEF LoadJob
  <2>3. /\ run'[r].job = run[r].job
        /\ status[run[r].job] # "cancelled" => run'[r].pc = "loaded"
    BY <1>0, <2>1 DEF Moves, Run, Withdrawn
  <2>4. status[run[r].job] \in Unsettled => InCharge(r)'
    BY <2>3 DEF InCharge, Unsettled
  <2>5. QED BY <1>0, <2>1, <2>2, <2>3, <2>4, ReliedGoesOn
<1>2. CASE StartTraining(r)
  <2>1. PICK new : new = [run[r] EXCEPT !.pc = "started"] /\ Moves(r, new)
    BY <1>2 DEF StartTraining
  <2>2. run[r].pc = "loaded" /\ UNCHANGED <<message, lost>>
    BY <1>2 DEF StartTraining
  <2>3. run'[r].job = run[r].job /\ run'[r].pc = "started"
    BY <1>0, <2>1 DEF Moves, Run
  <2>4. InCharge(r)'
    BY <2>3 DEF InCharge
  <2>5. \A j \in Jobs \ {run[r].job} : status'[j] = status[j]
    BY <1>0, <1>2 DEF StartTraining
  <2>6. QED BY <1>0, <2>1, <2>2, <2>3, <2>4, <2>5, ReliedGoesOn
<1>3. CASE ReloadJob(r)
  <2>1. PICK new : /\ new = [run[r] EXCEPT !.pc = "training",
                                           !.seen = status[run[r].job],
                                           !.had = model[run[r].job]]
                   /\ Moves(r, new)
    BY <1>3 DEF ReloadJob
  <2>2. run[r].pc # "idle" /\ UNCHANGED <<status, message, lost>>
    BY <1>3 DEF ReloadJob
  <2>3. /\ run'[r].job = run[r].job /\ run'[r].pc = "training"
        /\ run'[r].seen = status[run[r].job]
    BY <1>0, <2>1 DEF Moves, Run
  <2>4. status[run[r].job] \in Unsettled => InCharge(r)'
    BY <2>3 DEF InCharge, Unsettled
  <2>5. QED BY <1>0, <2>1, <2>2, <2>3, <2>4, ReliedGoesOn
<1>4. CASE TrainModel(r)
  <2>0. PICK o \in {"completed", "failed"} :
            Moves(r, [run[r] EXCEPT !.pc = "trained", !.outcome = o])
    BY <1>4 DEF TrainModel
  <2>1. PICK new : /\ new = [run[r] EXCEPT !.pc = "trained", !.outcome = o]
                   /\ Moves(r, new)
    BY <2>0
  <2>2. run[r].pc = "training" /\ UNCHANGED <<status, message, lost>>
    BY <1>4 DEF TrainModel
  <2>3. /\ run'[r].job = run[r].job /\ run'[r].pc = "trained"
        /\ run'[r].seen = run[r].seen
    BY <1>0, <2>1 DEF Moves, Run
  <2>4. InCharge(r) => InCharge(r)'
    BY <2>2, <2>3 DEF InCharge
  <2>5. QED BY <1>0, <2>1, <2>2, <2>3, <2>4, ReliedGoesOn
<1>5. CASE GuardStatus(r)
  <2>1. PICK new : /\ new = [run[r] EXCEPT
                               !.pc = IF Withdrawn(status[run[r].job]) THEN "done"
                                                                      ELSE "guarded"]
                   /\ Moves(r, new)
    BY <1>5 DEF GuardStatus
  <2>2. run[r].pc = "trained" /\ UNCHANGED <<status, message, lost>>
    BY <1>5 DEF GuardStatus
  <2>3. /\ run'[r].job = run[r].job /\ run'[r].seen = run[r].seen
        /\ status[run[r].job] # "cancelled" => run'[r].pc = "guarded"
    BY <1>0, <2>1 DEF Moves, Run, Withdrawn
  <2>4. InCharge(r) /\ status[run[r].job] \in Unsettled
            => InCharge(r)'
    BY <2>2, <2>3 DEF InCharge, Unsettled
  <2>5. QED BY <1>0, <2>1, <2>2, <2>3, <2>4, ReliedGoesOn
<1>6. CASE CommitOutcome(r)
  <2>1. PICK new : new = [run[r] EXCEPT !.pc = "done"] /\ Moves(r, new)
    BY <1>6 DEF CommitOutcome
  <2>2. /\ run[r].pc = "guarded" /\ UNCHANGED <<message, lost>>
        /\ run[r].job \in Jobs /\ run[r].outcome \in {"completed", "failed"}
    BY <1>0, <1>6 DEF CommitOutcome
  <2>3. /\ \A j \in Jobs \ {run[r].job} : status'[j] = status[j]
        /\ status'[run[r].job] = Written(status[run[r].job], run[r].seen, run[r].outcome)
    BY <1>0, <1>6, <2>2 DEF CommitOutcome
  <2>4. status'[run[r].job] \in Unsettled => status[run[r].job] \in Unsettled
    BY <2>2, <2>3 DEF Written, Unsettled
  <2>5. InCharge(r) => status'[run[r].job] \notin Unsettled
    BY <2>2, <2>3 DEF InCharge, Written, Unsettled
  <2>6. run'[r].job = run[r].job
    BY <1>0, <2>1 DEF Moves, Run
  <2>7. QED BY <2>1, <2>2, <2>3, <2>4, <2>5, <2>6, ReliedGoesOn
<1>7. CASE FinishTask(r)
  <2>1. Moves(r, NoRun) /\ message' = Acked(r) /\ run[r].pc = "done"
        /\ UNCHANGED <<status, lost>>
    BY <1>7 DEF FinishTask
  <2>2. ASSUME NEW j \in Jobs
        PROVE  status'[j] \in Unsettled => j \in lost' \/ Relied(j)'
    <3>1. ~ByRun(j, r)
      BY <2>1 DEF ByRun, InCharge
    <3>2. \A m \in Messages : ByMessage(j, m) => message'[m] = message[m]
      BY <2>1, AckedMessages DEF ByMessage
    <3>3. run' = [run EXCEPT ![r] = NoRun] /\ UNCHANGED <<api, revoked, redelivered>>
      BY <2>1 DEF Moves
    <3>4. QED BY <2>1, <3>1, <3>2, <3>3, ReliedByRuns
  <2>3. QED BY <2>2 DEF ReliedInv
<1>8. QED
  BY <1>1, <1>2, <1>3, <1>4, <1>5, <1>6, <1>7 DEF RunStep

LEMMA ReliedLossStep ==
    ASSUME TypeOK, RunsInv, ReliedInv, NEW r \in Runs,
           WorkerLost(r) \/ KillRevoked(r) \/ RunFails(r)
    PROVE  ReliedInv'
<1> SUFFICES ASSUME NEW j \in Jobs
             PROVE  status'[j] \in Unsettled => j \in lost' \/ Relied(j)'
  BY DEF ReliedInv
<1>1. CASE WorkerLost(r)
  <2>1. PICK left : run' = [run EXCEPT ![r] = left]
    BY <1>1 DEF WorkerLost
  <2>2. /\ UNCHANGED <<status, api, revoked, lost>> /\ run[r].attached
        /\ redelivered' = redelivered \cup {run[r].job}
    BY <1>1 DEF WorkerLost, row
  <2>3. PICK own \in Messages : /\ run[r].msg = own /\ message[own].state = "claimed"
                                /\ message[own].job = run[r].job
    BY <2>2 DEF RunsInv, RunInv
  <2>4. /\ message'[own].state = "queued" /\ message'[own].job = run[r].job
        /\ \A m \in Messages \ {own} : message'[m] = message[m]
    BY <1>1, <2>3 DEF WorkerLost, AfterLoss, TypeOK, Message
  <2>5. ByRun(j, r) => ByMessage(j, own)'
    BY <2>2, <2>4 DEF ByRun, ByMessage
  <2>6. \A m \in Messages : ByMessage(j, m) => message'[m] = message[m]
    BY <2>3, <2>4 DEF ByMessage
  <2>7. QED BY <2>1, <2>2, <2>3, <2>5, <2>6, ReliedByRuns
<1>2. CASE KillRevoked(r) \/ RunFails(r)
  <2>1. PICK left : run' = [run EXCEPT ![r] = left]
    BY <1>2 DEF KillRevoked, RunFails, Moves
  <2>2. /\ UNCHANGED <<status, api, revoked, redelivered>>
        /\ message' = Acked(r) /\ lost' = lost \cup Cut(r)
    BY <1>2 DEF KillRevoked, RunFails, Moves, row
  <2>3. ByRun(j, r) => j \in lost'
    BY <2>2 DEF ByRun, InCharge, Cut
  <2>4. \A m \in Messages : ByMessage(j, m) => message'[m] = message[m]
    BY <2>2, AckedMessages DEF ByMessage
  <2>5. QED BY <2>1, <2>2, <2>3, <2>4, ReliedByRuns
<1>3. QED BY <1>1, <1>2

LEMMA ReliedDrop ==
    ASSUME TypeOK, ReliedInv, NEW m \in Messages, DropRevoked(m)
    PROVE  ReliedInv'
<1>1. /\ UNCHANGED <<status, api, run, revoked, redelivered>> /\ m \in revoked
      /\ lost' = lost \cup ({message[m].job} \cap redelivered)
      /\ \A n \in Messages \ {m} : message'[n] = message[n]
  BY DEF DropRevoked, TypeOK, row
<1>2. ASSUME NEW j \in Jobs, status'[j] \in Unsettled PROVE j \in lost' \/ Relied(j)'
  <2>1. j \in lost \/ Relied(j)
    BY <1>1, <1>2 DEF ReliedInv
  <2>2. ASSUME NEW n \in Messages, ByMessage(j, n) PROVE j \in lost' \/ ByMessage(j, n)'
    BY <1>1, <2>2 DEF ByMessage
  <2>3. CASE \E n \in Messages : ByMessage(j, n)
    BY <2>2, <2>3 DEF Relied, ByMessage
  <2>4. CASE \/ \E s \in Sessions : ByCall(j, s)
             \/ \E r \in Runs : ByRun(j, r)
    BY <1>1, <2>4 DEF Relied, ByCall, ByRun, InCharge
  <2>5. QED BY <1>1, <2>1, <2>3, <2>4, ReliedBy
<1>3. QED BY <1>2 DEF ReliedInv

-----------------------------------------------------------------------------
(* The theorems                                                            *)

LEMMA InvStep == TrainingInv /\ [Next]_vars => TrainingInv'
<1> SUFFICES ASSUME TrainingInv, [Next]_vars PROVE TrainingInv'
  OBVIOUS
<1> USE DEF TrainingInv
<1>1. ASSUME NEW s \in Sessions, ApiStep(s) PROVE TrainingInv'
  BY <1>1, TypeApiStep, ReferencesApiStep, ReliedApiStep
<1>2. ASSUME NEW r \in Runs, NEW m \in Messages, TakeMessage(r, m) PROVE TrainingInv'
  BY <1>2, TypeRunStep, ReferencesRunStep, ReliedTake
<1>3. ASSUME NEW r \in Runs, RunStep(r) \/ ReloadJob(r) PROVE TrainingInv'
  BY <1>3, TypeRunStep, ReferencesRunStep, ReliedRunStep
<1>4. ASSUME NEW r \in Runs, WorkerLost(r) \/ KillRevoked(r) \/ RunFails(r)
      PROVE  TrainingInv'
  BY <1>4, TypeLossStep, ReferencesRunStep, ReliedLossStep
<1>5. ASSUME NEW m \in Messages, DropRevoked(m) PROVE TrainingInv'
  BY <1>5, ReferencesDrop, ReliedDrop
<1>6. CASE UNCHANGED vars
  <2>1. UNCHANGED <<isolated, status, model, task, message, revoked, api, run, lost,
                    redelivered, overtaken, doubled, calls, crashes>>
    BY <1>6 DEF vars, row, history
  <2>2. TypeOK' /\ MessagesInv' /\ CallsInv'
    BY <2>1 DEF TypeOK, MessagesInv, CallsInv, TaskOf
  <2>3. RunsInv' /\ ReliedInv'
    BY <2>1 DEF RunsInv, RunInv, ReliedInv, Relied, InCharge
  <2>4. QED BY <2>2, <2>3
<1>7. QED BY <1>1, <1>2, <1>3, <1>4, <1>5, <1>6 DEF Next

\* The inductive invariant: references between calls, messages and runs, and
\* somebody in charge of every job that is not settled.
THEOREM TrainingInvHolds == Spec => []TrainingInv
BY InvInit, InvStep, PTL DEF Spec

\* Every variable keeps its type in every run of create, cancel, retry and train.
THEOREM TrainingTypeCorrect == Spec => []TypeOK
<1>1. TrainingInv => TypeOK
  BY DEF TrainingInv
<1>2. QED BY <1>1, TrainingInvHolds, PTL

\* However many calls, tasks, workers and left-over containers there are, a job
\* that is "queued" or "running" is still carried by a call, a message or a run,
\* unless its task was dropped.
THEOREM UnsettledCarried == Spec => []UnsettledIsCarried
<1>1. TrainingInv => UnsettledIsCarried
  BY DEF TrainingInv, ReliedInv, UnsettledIsCarried, Relied, Carried, InCharge
<1>2. QED BY <1>1, TrainingInvHolds, PTL

-----------------------------------------------------------------------------
(* What each run has loaded                                                *)

HasRow == {"training", "trained", "guarded"}

\* A path that a run has loaded is still there, unless a retry took it back.
ModelInv ==
    \A r \in Runs : run[r].pc \in HasRow /\ run[r].had /\ run[r].job \notin overtaken
                       => model[run[r].job]

\* A run works on the message it took, and alone if that was delivered once.
DeliveryInv ==
    \A r \in Runs : run[r].pc # "idle" =>
       /\ run[r].msg \in Messages
       /\ message[run[r].msg].job = run[r].job
       /\ message[run[r].msg].state # "unsent"
       /\ run[r].job \notin redelivered =>
             /\ message[run[r].msg].state # "queued"
             /\ \A q \in Runs \ {r} : run[q].pc # "idle" => run[q].msg # run[r].msg

\* A job whose only task was delivered once and that was not retried over its run.
Solo(j) == j \notin overtaken \cup redelivered /\ OneTask(j)

\* What a run has read of a cancellation is so still, and it does not pass the guard.
SeenInv ==
    \A r \in Runs :
       /\ run[r].pc \in {"taken", "loaded", "started"} => run[r].seen # "cancelled"
       /\ run[r].pc \in HasRow /\ run[r].seen = "cancelled" /\ Solo(run[r].job) =>
             status[run[r].job] = "cancelled" /\ run[r].pc # "guarded"

LifeInv == ModelInv /\ CompletedHasModel /\ DeliveryInv /\ SeenInv

LEMMA LifeInit == Init => LifeInv
<1> SUFFICES ASSUME Init PROVE LifeInv
  OBVIOUS
<1>1. \A r \in Runs : run[r].pc = "idle"
  BY DEF Init, NoRun
<1>2. \A j \in Jobs : status[j] = "absent"
  BY DEF Init
<1>3. QED
  BY <1>1, <1>2 DEF LifeInv, ModelInv, CompletedHasModel, DeliveryInv, SeenInv, HasRow

\* Nothing is forgotten: of deliveries, of retries and of the tasks sent.
LEMMA HistoryGrows ==
    ASSUME TrainingInv, Next
    PROVE  /\ redelivered \subseteq redelivered' /\ overtaken \subseteq overtaken'
           /\ \A m \in Messages : message[m].state # "unsent" =>
                 message'[m].state # "unsent" /\ message'[m].job = message[m].job
<1> USE DEF TrainingInv
<1>0. message \in [Messages -> Message]
  BY DEF TypeOK
<1>1. ASSUME NEW s \in Sessions, ApiStep(s)
      PROVE  /\ redelivered \subseteq redelivered' /\ overtaken \subseteq overtaken'
             /\ \A m \in Messages : message[m].state # "unsent" =>
                   message'[m].state # "unsent" /\ message'[m].job = message[m].job
  <2>1. redelivered' = redelivered /\ overtaken \subseteq overtaken'
    BY <1>1 DEF ApiStep, CreateJob, SendTask, CommitTask, OpenCancel, RevokeTask,
                CommitCancel, OpenRetry, CommitRetry, AbandonCall, history
  <2>2. \/ message' = message
        \/ \E m \in Messages : /\ message[m].state = "unsent"
                               /\ \A n \in Messages \ {m} : message'[n] = message[n]
    BY <1>0, <1>1 DEF ApiStep, CreateJob, SendTask, CommitTask, OpenCancel, RevokeTask,
                      CommitCancel, OpenRetry, CommitRetry, AbandonCall
  <2>3. QED BY <2>1, <2>2
<1>2. ASSUME NEW m \in Messages, NEW state \in {"claimed", "acked", "queued"},
             \/ message' = message
             \/ message' = [message EXCEPT ![m].state = state] /\ message[m].state # "unsent"
      PROVE  \A n \in Messages : message[n].state # "unsent" =>
                message'[n].state # "unsent" /\ message'[n].job = message[n].job
  BY <1>0, <1>2 DEF Message
<1>3. ASSUME NEW r \in Runs
      PROVE  \/ Acked(r) = message
             \/ /\ run[r].msg \in Messages /\ message[run[r].msg].state # "unsent"
                /\ Acked(r) = [message EXCEPT ![run[r].msg].state = "acked"]
  BY DEF RunsInv, RunInv, Acked
<1>4. ASSUME NEW r \in Runs,
             \/ \E m \in Messages : TakeMessage(r, m)
             \/ RunStep(r) \/ ReloadJob(r)
             \/ WorkerLost(r) \/ KillRevoked(r) \/ RunFails(r)
      PROVE  /\ redelivered \subseteq redelivered' /\ overtaken \subseteq overtaken'
             /\ \A m \in Messages : message[m].state # "unsent" =>
                   message'[m].state # "unsent" /\ message'[m].job = message[m].job
  <2>1. redelivered \subseteq redelivered' /\ overtaken \subseteq overtaken'
    BY <1>4 DEF TakeMessage, RunStep, LoadJob, StartTraining, ReloadJob, TrainModel,
                GuardStatus, CommitOutcome, FinishTask, WorkerLost, KillRevoked, RunFails,
                Moves
  <2>2. CASE \E m \in Messages : TakeMessage(r, m)
    BY <1>2, <2>1, <2>2 DEF TakeMessage
  <2>3. CASE LoadJob(r) \/ StartTraining(r) \/ TrainModel(r) \/ GuardStatus(r)
             \/ CommitOutcome(r) \/ ReloadJob(r)
    <3>1. message' = message
      BY <2>3 DEF LoadJob, StartTraining, ReloadJob, TrainModel, GuardStatus, CommitOutcome
    <3>2. QED BY <2>1, <3>1
  <2>4. CASE FinishTask(r) \/ KillRevoked(r) \/ RunFails(r)
    <3>1. message' = Acked(r)
      BY <2>4 DEF FinishTask, KillRevoked, RunFails
    <3>2. QED BY <1>2, <1>3, <2>1, <3>1
  <2>5. CASE WorkerLost(r)
    <3>1. /\ run[r].msg \in Messages /\ message[run[r].msg].state # "unsent"
          /\ message' = [message EXCEPT ![run[r].msg].state = "queued"]
      BY <2>5 DEF WorkerLost, AfterLoss, RunsInv, RunInv
    <3>2. QED BY <1>2, <2>1, <3>1
  <2>6. QED BY <1>4, <2>2, <2>3, <2>4, <2>5 DEF RunStep
<1>5. ASSUME NEW m \in Messages, DropRevoked(m)
      PROVE  /\ redelivered \subseteq redelivered' /\ overtaken \subseteq overtaken'
             /\ \A n \in Messages : message[n].state # "unsent" =>
                   message'[n].state # "unsent" /\ message'[n].job = message[n].job
  BY <1>2, <1>5 DEF DropRevoked
<1>6. QED BY <1>1, <1>4, <1>5 DEF Next

LEMMA SoloBefore == ASSUME TrainingInv, Next, NEW j, Solo(j)' PROVE Solo(j)
<1>1. Tasks(j) \subseteq Tasks(j)'
  BY HistoryGrows DEF Tasks
<1>2. QED BY <1>1, HistoryGrows DEF Solo, OneTask

LEMMA SoleRun ==
    ASSUME DeliveryInv, NEW q \in Runs, NEW r \in Runs, run[q].pc # "idle", run[r].pc # "idle",
           run[q].job = run[r].job, Solo(run[r].job)
    PROVE  q = r
<1>1. run[q].msg \in Tasks(run[r].job) /\ run[r].msg \in Tasks(run[r].job)
  BY DEF DeliveryInv, Tasks
<1>2. run[q].msg = run[r].msg
  BY <1>1 DEF Solo, OneTask
<1>3. QED BY <1>2 DEF DeliveryInv, Solo

\* A step of runs that go on with their messages; only a loss queues a message again.
LEMMA DeliveryKept ==
    ASSUME TrainingInv, DeliveryInv, Next,
           \A q \in Runs : run'[q].pc # "idle" =>
              run[q].pc # "idle" /\ run'[q].job = run[q].job /\ run'[q].msg = run[q].msg,
           \A m \in Messages : message[m].state # "unsent" /\ message'[m].state = "queued" =>
              message[m].state = "queued" \/ message[m].job \in redelivered'
    PROVE  DeliveryInv'
<1> SUFFICES ASSUME NEW q \in Runs, run'[q].pc # "idle"
             PROVE  /\ run'[q].msg \in Messages
                    /\ message'[run'[q].msg].job = run'[q].job
                    /\ message'[run'[q].msg].state # "unsent"
                    /\ run'[q].job \notin redelivered' =>
                          /\ message'[run'[q].msg].state # "queued"
                          /\ \A p \in Runs \ {q} :
                                run'[p].pc # "idle" => run'[p].msg # run'[q].msg
  BY DEF DeliveryInv
<1>1. /\ run[q].pc # "idle" /\ run'[q].job = run[q].job /\ run'[q].msg = run[q].msg
      /\ run[q].msg \in Messages
      /\ message[run[q].msg].job = run[q].job /\ message[run[q].msg].state # "unsent"
  BY DEF DeliveryInv
<1>2. /\ message'[run[q].msg].job = run[q].job
      /\ message'[run[q].msg].state # "unsent"
  BY <1>1, HistoryGrows
<1>3. ASSUME run[q].job \notin redelivered'
      PROVE  /\ message'[run[q].msg].state # "queued"
             /\ \A p \in Runs \ {q} : run'[p].pc # "idle" => run'[p].msg # run[q].msg
  <2>1. run[q].job \notin redelivered
    BY <1>3, HistoryGrows
  <2>2. QED BY <1>1, <1>3, <2>1 DEF DeliveryInv
<1>4. QED BY <1>1, <1>2, <1>3

\* A step of run r: what it has to see to.
LEMMA LifeKept ==
    ASSUME TrainingInv, LifeInv, Next, NEW r \in Runs,
           \A q \in Runs \ {r} : run'[q] = run[q],
           run'[r].pc # "idle" =>
              run[r].pc # "idle" /\ run'[r].job = run[r].job /\ run'[r].msg = run[r].msg,
           \A m \in Messages : message[m].state # "unsent" /\ message'[m].state = "queued" =>
              message[m].state = "queued" \/ message[m].job \in redelivered',
           \A j \in Jobs : model[j] => model'[j],
           \A j \in Jobs : status'[j] # status[j] => run[r].pc # "idle" /\ j = run[r].job,
           CompletedHasModel',
           run'[r].pc \in HasRow /\ run'[r].had /\ run[r].job \notin overtaken =>
              model'[run[r].job],
           run'[r].pc \in {"taken", "loaded", "started"} => run'[r].seen # "cancelled",
           run'[r].pc \in HasRow /\ run'[r].seen = "cancelled" /\ Solo(run[r].job) =>
              status'[run[r].job] = "cancelled" /\ run'[r].pc # "guarded"
    PROVE  LifeInv'
<1>1. \A q \in Runs : run'[q].pc # "idle" =>
         run[q].pc # "idle" /\ run'[q].job = run[q].job /\ run'[q].msg = run[q].msg
  OBVIOUS
<1>2. DeliveryInv'
  BY <1>1, DeliveryKept DEF LifeInv
<1>3. \A q \in Runs : run[q].pc # "idle" => run[q].job \in Jobs
  BY DEF TrainingInv, RunsInv, RunInv
<1>4. ModelInv'
  <2>1. ASSUME NEW q \in Runs, run'[q].pc \in HasRow, run'[q].had,
               run'[q].job \notin overtaken'
        PROVE  model'[run'[q].job]
    <3>1. run[q].pc # "idle" /\ run'[q].job = run[q].job /\ run[q].job \notin overtaken
      BY <1>1, <2>1, HistoryGrows DEF HasRow
    <3>2. CASE q = r
      BY <2>1, <3>1, <3>2
    <3>3. CASE q # r
      BY <1>3, <2>1, <3>1, <3>3 DEF LifeInv, ModelInv
    <3>4. QED BY <3>2, <3>3
  <2>2. QED BY <2>1 DEF ModelInv, HasRow
<1>5. SeenInv'
  <2>1. ASSUME NEW q \in Runs, run'[q].pc \in {"taken", "loaded", "started"}
        PROVE  run'[q].seen # "cancelled"
    BY <2>1 DEF LifeInv, SeenInv
  <2>2. ASSUME NEW q \in Runs, run'[q].pc \in HasRow, run'[q].seen = "cancelled",
               Solo(run[q].job)'
        PROVE  status'[run'[q].job] = "cancelled" /\ run'[q].pc # "guarded"
    <3>1. run[q].pc # "idle" /\ run'[q].job = run[q].job
      BY <1>1, <2>2 DEF HasRow
    <3>2. Solo(run[q].job)
      <4>1. PICK j : j = run'[q].job
        OBVIOUS
      <4>2. Solo(j)'
        BY <2>2, <4>1 DEF Solo, OneTask, Tasks
      <4>3. QED BY <3>1, <4>1, <4>2, SoloBefore
    <3>3. CASE q = r
      BY <2>2, <3>1, <3>2, <3>3
    <3>4. CASE q # r
      <4>1. status[run[q].job] = "cancelled" /\ run[q].pc # "guarded"
        BY <2>2, <3>1, <3>2, <3>4 DEF LifeInv, SeenInv
      <4>2. ~(run[r].pc # "idle" /\ run[q].job = run[r].job)
        BY <3>1, <3>2, <3>4, SoleRun DEF LifeInv
      <4>3. status'[run[q].job] = status[run[q].job]
        BY <1>3, <3>1, <4>2
      <4>4. QED BY <3>1, <3>4, <4>1, <4>3
    <3>5. QED BY <3>3, <3>4
  <2>3. QED BY <2>1, <2>2 DEF SeenInv, HasRow
<1>6. QED BY <1>2, <1>4, <1>5 DEF LifeInv

\* API calls.
LEMMA LifeApiStep ==
    ASSUME TrainingInv, LifeInv, Next, NEW s \in Sessions, ApiStep(s) PROVE LifeInv'
<1>0. /\ run' = run /\ redelivered' = redelivered /\ overtaken \subseteq overtaken'
      /\ status \in [Jobs -> Status] /\ model \in [Jobs -> BOOLEAN]
      /\ message \in [Messages -> Message]
  BY HistoryGrows
     DEF ApiStep, CreateJob, SendTask, CommitTask, OpenCancel, RevokeTask, CommitCancel,
         OpenRetry, CommitRetry, AbandonCall, history, TrainingInv, TypeOK
<1>1. \A r \in Runs : run[r].pc # "idle" => run[r].job \in Jobs
  BY DEF TrainingInv, RunsInv, RunInv
<1>2. DeliveryInv'
  <2>1. \A m \in Messages : message[m].state # "unsent" => message'[m] = message[m]
    BY <1>0 DEF ApiStep, CreateJob, SendTask, CommitTask, OpenCancel, RevokeTask,
                CommitCancel, OpenRetry, CommitRetry, AbandonCall
  <2>2. QED BY <1>0, <2>1, DeliveryKept DEF LifeInv
<1>3. CASE ~CommitRetry(s)
  <2>1. model' = model
    BY <1>3 DEF ApiStep, CreateJob, SendTask, CommitTask, OpenCancel, RevokeTask,
                CommitCancel, OpenRetry, AbandonCall, row
  <2>2. \A j \in Jobs : status'[j] # status[j] =>
           status[j] = "absent" \/ status'[j] = "cancelled"
    BY <1>0, <1>3 DEF ApiStep, CreateJob, SendTask, CommitTask, OpenCancel, RevokeTask,
                CommitCancel, OpenRetry, AbandonCall, row
  <2>3. \A j \in Jobs : status'[j] = "completed" => status[j] = "completed"
    BY <1>0, <1>3 DEF ApiStep, CreateJob, SendTask, CommitTask, OpenCancel, RevokeTask,
                CommitCancel, OpenRetry, AbandonCall, row
  <2>4. ModelInv'
    BY <1>0, <2>1 DEF LifeInv, ModelInv
  <2>5. CompletedHasModel'
    BY <1>0, <2>1, <2>3 DEF LifeInv, CompletedHasModel
  <2>6. SeenInv'
    BY <1>0, <1>1, <2>2, SoloBefore DEF LifeInv, SeenInv, HasRow
  <2>7. QED BY <1>2, <2>4, <2>5, <2>6 DEF LifeInv
<1>4. CASE CommitRetry(s)
  <2> DEFINE j == api[s].job
  <2>1. /\ status' = [status EXCEPT ![j] = "queued"]
        /\ model' = [model EXCEPT ![j] = Written(@, api[s].had, FALSE)]
        /\ overtaken' = IF \E r \in Runs : HasLoaded(r, j) THEN overtaken \cup {j}
                        ELSE overtaken
    BY <1>4 DEF CommitRetry
  <2> HIDE DEF j
  <2>2. \A i \in Jobs : i # j => status'[i] = status[i] /\ model'[i] = model[i]
    BY <1>0, <2>1
  <2>3. j \in Jobs => status'[j] = "queued"
    BY <1>0, <2>1
  <2>4. ModelInv'
    BY <1>0, <1>1, <2>1, <2>2 DEF LifeInv, ModelInv, HasLoaded, HasRow
  <2>5. CompletedHasModel'
    BY <1>0, <2>2, <2>3 DEF LifeInv, CompletedHasModel
  <2>6. \A r \in Runs : run[r].job = j /\ run[r].pc \in HasRow /\ run[r].seen = "cancelled"
                           => j \in overtaken'
    BY <2>1 DEF HasLoaded, HasRow
  <2>7. SeenInv'
    BY <1>0, <1>1, <2>2, <2>6, SoloBefore DEF LifeInv, SeenInv, HasRow, Solo
  <2>8. QED BY <1>2, <2>4, <2>5, <2>7 DEF LifeInv
<1>5. QED BY <1>3, <1>4

\* A worker that takes a message starts a run of its job.
LEMMA LifeTake ==
    ASSUME TrainingInv, LifeInv, Next, NEW r \in Runs, NEW m \in Messages, TakeMessage(r, m)
    PROVE  LifeInv'
<1> DEFINE new == [NoRun EXCEPT !.pc = "taken", !.attached = TRUE, !.msg = m,
                                !.job = message[m].job]
<1>0. /\ run \in [Runs -> Run] /\ message \in [Messages -> Message]
      /\ run[r].pc = "idle" /\ message[m].state = "queued"
      /\ message' = [message EXCEPT ![m].state = "claimed"]
      /\ run' = [run EXCEPT ![r] = new]
      /\ UNCHANGED <<status, model, redelivered, overtaken>>
  BY DEF TrainingInv, TypeOK, TakeMessage, Moves
<1>1. /\ new.pc = "taken" /\ new.msg = m /\ new.job = message[m].job
      /\ new.seen = "absent"
  BY DEF NoRun
<1> HIDE DEF new
<1>2. run'[r] = new /\ \A q \in Runs \ {r} : run'[q] = run[q]
  BY <1>0
<1>3. /\ message'[m].state = "claimed" /\ message'[m].job = message[m].job
      /\ \A n \in Messages \ {m} : message'[n] = message[n]
  BY <1>0 DEF Message
<1>4. ModelInv' /\ CompletedHasModel'
  BY <1>0, <1>1, <1>2 DEF LifeInv, ModelInv, CompletedHasModel, HasRow
<1>5. SeenInv'
  <2>1. \A j : Solo(j)' => Solo(j)
    BY SoloBefore
  <2>2. QED BY <1>0, <1>1, <1>2, <2>1 DEF LifeInv, SeenInv, HasRow
<1>6. DeliveryInv'
  <2>1. ASSUME NEW q \in Runs \ {r}, run[q].pc # "idle"
        PROVE  /\ run[q].msg \in Messages
               /\ message[run[q].msg].job = run[q].job
               /\ message[run[q].msg].state # "unsent"
               /\ run[q].msg = m => run[q].job \in redelivered
               /\ run[q].job \notin redelivered =>
                     /\ message[run[q].msg].state # "queued"
                     /\ \A p \in Runs \ {q} : run[p].pc # "idle" => run[p].msg # run[q].msg
    BY <1>0, <2>1 DEF LifeInv, DeliveryInv
  <2>2. ASSUME NEW q \in Runs \ {r}, run[q].pc # "idle"
        PROVE  /\ message'[run[q].msg].job = run[q].job
               /\ message'[run[q].msg].state # "unsent"
               /\ run[q].job \notin redelivered =>
                     /\ message'[run[q].msg].state # "queued"
                     /\ run[q].msg # m
    BY <1>3, <2>1, <2>2
  <2>3. \A q \in Runs \ {r} : run[q].pc # "idle" /\ run[q].msg = m =>
           message[m].job \in redelivered
    BY <2>1
  <2>4. QED BY <1>0, <1>1, <1>2, <1>3, <2>1, <2>2, <2>3 DEF DeliveryInv
<1>7. QED BY <1>4, <1>5, <1>6 DEF LifeInv

\* The steps of a run's body leave its message alone.
LEMMA LifeRunStep ==
    ASSUME TrainingInv, LifeInv, Next, NEW r \in Runs, RunStep(r) \/ ReloadJob(r)
    PROVE  LifeInv'
<1> USE DEF HasRow
<1>0. /\ run \in [Runs -> Run] /\ message \in [Messages -> Message]
      /\ status \in [Jobs -> Status] /\ model \in [Jobs -> BOOLEAN]
      /\ run[r] \in Run /\ run[r].pc # "idle" => run[r].job \in Jobs
      /\ ModelInv /\ CompletedHasModel /\ SeenInv
  BY DEF TrainingInv, TypeOK, RunsInv, RunInv, LifeInv
<1>1. \A new : Moves(r, new) => /\ run'[r] = new /\ \A q \in Runs \ {r} : run'[q] = run[q]
                               /\ redelivered' = redelivered /\ overtaken' = overtaken
  BY <1>0 DEF Moves
<1>2. ASSUME UNCHANGED <<status, model>>, overtaken' = overtaken
      PROVE  CompletedHasModel'
  BY <1>0, <1>2 DEF CompletedHasModel
<1>3. ASSUME NEW new, Moves(r, new), UNCHANGED <<status, model, message>>,
             run[r].pc # "idle", new.job = run[r].job, new.msg = run[r].msg,
             new.pc \in HasRow /\ new.had /\ run[r].job \notin overtaken =>
                model[run[r].job],
             new.pc \in {"taken", "loaded", "started"} => new.seen # "cancelled",
             new.pc \in HasRow /\ new.seen = "cancelled" /\ Solo(run[r].job) =>
                status[run[r].job] = "cancelled" /\ new.pc # "guarded"
      PROVE  LifeInv'
  <2>1. /\ run'[r] = new /\ \A q \in Runs \ {r} : run'[q] = run[q]
        /\ CompletedHasModel'
    BY <1>1, <1>2, <1>3
  <2>2. /\ \A m \in Messages : message'[m] = message[m]
        /\ \A j \in Jobs : model'[j] = model[j] /\ status'[j] = status[j]
        /\ model'[run[r].job] = model[run[r].job]
        /\ status'[run[r].job] = status[run[r].job]
    BY <1>3
  <2>3. QED BY <1>3, <2>1, <2>2, LifeKept
<1>4. CASE LoadJob(r)
  <2>1. PICK new : /\ new = [run[r] EXCEPT
                               !.pc = IF Withdrawn(status[run[r].job]) THEN "done"
                                                                      ELSE "loaded",
                               !.seen = status[run[r].job]]
                   /\ Moves(r, new)
    BY <1>4 DEF LoadJob
  <2>2. /\ new.job = run[r].job /\ new.msg = run[r].msg
        /\ new.pc \in {"done", "loaded"} /\ new.seen = status[run[r].job]
        /\ new.seen = "cancelled" => new.pc = "done"
    BY <1>0, <2>1 DEF Run, Withdrawn
  <2>3. run[r].pc = "taken" /\ UNCHANGED <<status, model, message>>
    BY <1>4 DEF LoadJob
  <2>4. QED BY <1>3, <2>1, <2>2, <2>3
<1>5. CASE StartTraining(r)
  <2>1. PICK new : new = [run[r] EXCEPT !.pc = "started"] /\ Moves(r, new)
    BY <1>5 DEF StartTraining
  <2>2. /\ new.job = run[r].job /\ new.msg = run[r].msg
        /\ new.pc = "started" /\ new.seen = run[r].seen
    BY <1>0, <2>1 DEF Run
  <2>3. /\ run[r].pc = "loaded" /\ UNCHANGED <<model, message>>
        /\ status' = [status EXCEPT ![run[r].job] =
                         Written(status[run[r].job], run[r].seen, "running")]
    BY <1>0, <1>5 DEF StartTraining
  <2>4. CompletedHasModel'
    BY <1>0, <1>1, <2>1, <2>3 DEF CompletedHasModel, Written
  <2>5. new.seen # "cancelled"
    BY <1>0, <2>2, <2>3 DEF SeenInv
  <2>6. \A j \in Jobs : status'[j] # status[j] => j = run[r].job
    BY <1>0, <2>3
  <2>7. QED BY <1>1, <2>1, <2>2, <2>3, <2>4, <2>5, <2>6, LifeKept
<1>6. CASE ReloadJob(r)
  <2>1. PICK new : /\ new = [run[r] EXCEPT !.pc = "training",
                                           !.seen = status[run[r].job],
                                           !.had = model[run[r].job]]
                   /\ Moves(r, new)
    BY <1>6 DEF ReloadJob
  <2>2. /\ new.job = run[r].job /\ new.msg = run[r].msg /\ new.pc = "training"
        /\ new.seen = status[run[r].job] /\ new.had = model[run[r].job]
    BY <1>0, <2>1 DEF Run
  <2>3. run[r].pc # "idle" /\ UNCHANGED <<status, model, message>>
    BY <1>6 DEF ReloadJob
  <2>4. QED BY <1>3, <2>1, <2>2, <2>3
<1>7. CASE TrainModel(r)
  <2>0. PICK o \in {"completed", "failed"} :
            Moves(r, [run[r] EXCEPT !.pc = "trained", !.outcome = o])
    BY <1>7 DEF TrainModel
  <2>1. PICK new : /\ new = [run[r] EXCEPT !.pc = "trained", !.outcome = o]
                   /\ Moves(r, new)
    BY <2>0
  <2>2. /\ new.job = run[r].job /\ new.msg = run[r].msg /\ new.pc = "trained"
        /\ new.seen = run[r].seen /\ new.had = run[r].had
    BY <1>0, <2>1 DEF Run
  <2>3. run[r].pc = "training" /\ UNCHANGED <<status, model, message>>
    BY <1>7 DEF TrainModel
  <2>4. /\ new.had /\ run[r].job \notin overtaken => model[run[r].job]
        /\ new.seen = "cancelled" /\ Solo(run[r].job) => status[run[r].job] = "cancelled"
    BY <1>0, <2>2, <2>3 DEF ModelInv, SeenInv
  <2>5. QED BY <1>3, <2>1, <2>2, <2>3, <2>4
<1>8. CASE GuardStatus(r)
  <2>1. PICK new : /\ new = [run[r] EXCEPT
                               !.pc = IF Withdrawn(status[run[r].job]) THEN "done"
                                                                      ELSE "guarded"]
                   /\ Moves(r, new)
    BY <1>8 DEF GuardStatus
  <2>2. /\ new.job = run[r].job /\ new.msg = run[r].msg /\ new.pc \in {"done", "guarded"}
        /\ new.seen = run[r].seen /\ new.had = run[r].had
        /\ status[run[r].job] = "cancelled" => new.pc = "done"
    BY <1>0, <2>1 DEF Run, Withdrawn
  <2>3. run[r].pc = "trained" /\ UNCHANGED <<status, model, message>>
    BY <1>8 DEF GuardStatus
  <2>4. /\ new.had /\ run[r].job \notin overtaken => model[run[r].job]
        /\ new.seen = "cancelled" /\ Solo(run[r].job) => status[run[r].job] = "cancelled"
    BY <1>0, <2>2, <2>3 DEF ModelInv, SeenInv
  <2>5. QED BY <1>3, <2>1, <2>2, <2>3, <2>4
<1>9. CASE CommitOutcome(r)
  <2>1. PICK new : new = [run[r] EXCEPT !.pc = "done"] /\ Moves(r, new)
    BY <1>9 DEF CommitOutcome
  <2>2. new.job = run[r].job /\ new.msg = run[r].msg /\ new.pc = "done"
    BY <1>0, <2>1 DEF Run
  <2>3. /\ run[r].pc = "guarded" /\ message' = message
        /\ status' = [status EXCEPT ![run[r].job] =
                         Written(status[run[r].job], run[r].seen, run[r].outcome)]
        /\ model' = [model EXCEPT ![run[r].job] = ModelAfter(r)]
    BY <1>0, <1>9 DEF CommitOutcome
  <2>4. /\ model[run[r].job] => ModelAfter(r)
        /\ run[r].outcome = "completed" => ModelAfter(r) \/ run[r].had
    BY <1>0, <2>3 DEF ModelAfter, Written
  <2>5. \A j \in Jobs : model[j] => model'[j]
    BY <1>0, <2>3, <2>4
  <2>6. \A j \in Jobs : status'[j] # status[j] => j = run[r].job
    BY <1>0, <2>3
  <2>7. ASSUME NEW j \in Jobs, status'[j] = "completed", ~model'[j], j \notin overtaken
        PROVE  FALSE
    <3>1. ~model[j]
      BY <2>5, <2>7
    <3>2. status[j] # "completed"
      BY <1>0, <2>7, <3>1 DEF CompletedHasModel
    <3>3. j = run[r].job
      BY <2>6, <2>7, <3>2
    <3>4. run[r].outcome = "completed"
      BY <1>0, <2>3, <2>7, <3>2, <3>3 DEF Written
    <3>5. ~ModelAfter(r)
      BY <1>0, <2>3, <2>7, <3>3
    <3>6. run[r].had
      BY <2>4, <3>4, <3>5
    <3>7. QED BY <1>0, <2>3, <2>7, <3>1, <3>3, <3>6 DEF ModelInv
  <2>8. CompletedHasModel'
    BY <1>1, <2>1, <2>7 DEF CompletedHasModel
  <2>9. QED BY <1>1, <2>1, <2>2, <2>3, <2>5, <2>6, <2>8, LifeKept
<1>10. CASE FinishTask(r)
  <2>1. /\ Moves(r, NoRun) /\ message' = Acked(r) /\ UNCHANGED <<status, model>>
    BY <1>10 DEF FinishTask
  <2>2. \A m \in Messages : Acked(r)[m].state = "queued" => message[m].state = "queued"
    BY <1>0 DEF Acked, Message
  <2>3. NoRun.pc = "idle"
    BY DEF NoRun
  <2>4. QED BY <1>1, <1>2, <2>1, <2>2, <2>3, LifeKept
<1>11. QED BY <1>4, <1>5, <1>6, <1>7, <1>8, <1>9, <1>10 DEF RunStep

\* Losses: what remains of the run is as it was.
LEMMA LifeLossStep ==
    ASSUME TrainingInv, LifeInv, Next, NEW r \in Runs,
           WorkerLost(r) \/ KillRevoked(r) \/ RunFails(r)
    PROVE  LifeInv'
<1>0. /\ run \in [Runs -> Run] /\ message \in [Messages -> Message]
      /\ run[r] \in Run /\ RunInv(r)
      /\ ModelInv /\ CompletedHasModel /\ SeenInv
  BY DEF TrainingInv, TypeOK, RunsInv, LifeInv
<1>1. /\ UNCHANGED <<status, model, overtaken>>
      /\ redelivered \subseteq redelivered'
  BY DEF WorkerLost, KillRevoked, RunFails, Moves, row
<1>2. PICK left : /\ run' = [run EXCEPT ![r] = left]
                  /\ \/ left = NoRun
                     \/ left = [run[r] EXCEPT !.attached = FALSE]
  BY RemainsTypes DEF WorkerLost, KillRevoked, RunFails, Moves, TrainingInv
<1>3. /\ run'[r] = left /\ \A q \in Runs \ {r} : run'[q] = run[q]
  BY <1>0, <1>2
<1>4. \/ left.pc = "idle"
      \/ /\ left.pc = run[r].pc /\ left.job = run[r].job /\ left.msg = run[r].msg
         /\ left.seen = run[r].seen /\ left.had = run[r].had
  BY <1>0, <1>2 DEF NoRun, Run
<1>5. \A m \in Messages : message'[m].state = "queued" =>
         message[m].state = "queued" \/ message[m].job \in redelivered'
  <2>1. CASE WorkerLost(r)
    <3>1. /\ run[r].msg \in Messages /\ message[run[r].msg].job = run[r].job
          /\ message' = [message EXCEPT ![run[r].msg].state = "queued"]
          /\ run[r].job \in redelivered'
      BY <1>0, <2>1 DEF WorkerLost, AfterLoss, RunInv
    <3>2. QED BY <1>0, <3>1
  <2>2. CASE KillRevoked(r) \/ RunFails(r)
    <3>1. message' = Acked(r)
      BY <2>2 DEF KillRevoked, RunFails
    <3>2. QED BY <1>0, <3>1 DEF Acked, Message
  <2>3. QED BY <2>1, <2>2
<1>6. CompletedHasModel'
  BY <1>0, <1>1 DEF CompletedHasModel
<1>7. CASE left.pc = "idle"
  BY <1>1, <1>3, <1>5, <1>6, <1>7, LifeKept DEF HasRow
<1>8. CASE /\ left.pc = run[r].pc /\ left.job = run[r].job /\ left.msg = run[r].msg
           /\ left.seen = run[r].seen /\ left.had = run[r].had
  <2>1. /\ left.pc \in HasRow /\ left.had /\ run[r].job \notin overtaken =>
             model[run[r].job]
        /\ left.pc \in {"taken", "loaded", "started"} => left.seen # "cancelled"
        /\ left.pc \in HasRow /\ left.seen = "cancelled" /\ Solo(run[r].job) =>
             status[run[r].job] = "cancelled" /\ left.pc # "guarded"
    BY <1>0, <1>8 DEF ModelInv, SeenInv
  <2>2. QED BY <1>1, <1>3, <1>5, <1>6, <1>8, <2>1, LifeKept
<1>9. QED BY <1>4, <1>7, <1>8

LEMMA LifeDrop ==
    ASSUME TrainingInv, LifeInv, Next, NEW m \in Messages, DropRevoked(m)
    PROVE  LifeInv'
<1>0. /\ UNCHANGED <<status, model, run, redelivered, overtaken>>
      /\ message \in [Messages -> Message]
      /\ message' = [message EXCEPT ![m].state = "acked"]
  BY DEF DropRevoked, row, TrainingInv, TypeOK
<1>1. \A n \in Messages : message'[n].state = "queued" => message[n].state = "queued"
  BY <1>0 DEF Message
<1>2. DeliveryInv'
  BY <1>0, <1>1, DeliveryKept DEF LifeInv
<1>3. ModelInv' /\ CompletedHasModel'
  BY <1>0 DEF LifeInv, ModelInv, CompletedHasModel
<1>4. SeenInv'
  BY <1>0, SoloBefore DEF LifeInv, SeenInv
<1>5. QED BY <1>2, <1>3, <1>4 DEF LifeInv

LEMMA LifeStep == TrainingInv /\ LifeInv /\ [Next]_vars => LifeInv'
<1> SUFFICES ASSUME TrainingInv, LifeInv, [Next]_vars PROVE LifeInv'
  OBVIOUS
<1>1. CASE Next
  BY <1>1, LifeApiStep, LifeTake, LifeRunStep, LifeLossStep, LifeDrop DEF Next
<1>2. CASE UNCHANGED vars
  <2>1. UNCHANGED <<status, model, message, run, redelivered, overtaken>>
    BY <1>2 DEF vars, row, history
  <2>2. ModelInv' /\ CompletedHasModel' /\ DeliveryInv'
    BY <2>1 DEF LifeInv, ModelInv, CompletedHasModel, DeliveryInv
  <2>3. SeenInv'
    BY <2>1 DEF LifeInv, SeenInv, Solo, OneTask, Tasks
  <2>4. QED BY <2>2, <2>3 DEF LifeInv
<1>3. QED BY <1>1, <1>2

LEMMA LifeInvHolds == Spec => []LifeInv
BY InvInit, InvStep, LifeInit, LifeStep, PTL DEF Spec

\* However cancels, retries, redeliveries and left-over containers overlap, a
\* completed job has its model, unless it was retried over a run that had loaded
\* its row.
THEOREM CompletedJobsHaveModels == Spec => []CompletedHasModel
<1>1. LifeInv => CompletedHasModel
  BY DEF LifeInv
<1>2. QED BY <1>1, LifeInvHolds, PTL

\* The run of a job's only task, delivered once and not overtaken by a retry,
\* never overwrites a cancellation it has read.
THEOREM CancellationsReadStand == Spec => SeenCancellationsStand
<1>1. ASSUME TrainingInv, LifeInv, [Next]_vars,
             NEW j \in Jobs \ (overtaken' \cup redelivered'), NEW r \in Runs,
             OneTask(j)', status[j] = "cancelled",
             run[r].job = j, run[r].seen = "cancelled", run'[r] # run[r]
      PROVE  status'[j] = "cancelled"
  <2>1. PICK q \in Runs : /\ run' # run
                          /\ \/ \E m \in Messages : TakeMessage(q, m)
                             \/ RunStep(q) \/ ReloadJob(q)
                             \/ WorkerLost(q) \/ KillRevoked(q) \/ RunFails(q)
    BY <1>1 DEF Next, vars, row, ApiStep, CreateJob, SendTask, CommitTask, OpenCancel,
                RevokeTask, CommitCancel, OpenRetry, CommitRetry, AbandonCall, DropRevoked
  <2>2. q = r
    BY <1>1, <2>1
       DEF TrainingInv, TypeOK, TakeMessage, RunStep, LoadJob, StartTraining, ReloadJob,
           TrainModel, GuardStatus, CommitOutcome, FinishTask, WorkerLost, KillRevoked,
           RunFails, Moves
  <2>3. CASE StartTraining(r) \/ CommitOutcome(r)
    <3>1. Solo(j)'
      BY <1>1 DEF Solo
    <3>2. Next
      BY <1>1, <2>1 DEF vars
    <3>3. Solo(j)
      BY <1>1, <3>1, <3>2, SoloBefore
    <3>4. QED BY <1>1, <2>3, <3>3 DEF LifeInv, SeenInv, HasRow, StartTraining, CommitOutcome
  <2>4. CASE ~(StartTraining(r) \/ CommitOutcome(r))
    <3>1. status' = status
      BY <2>1, <2>2, <2>4
         DEF TakeMessage, RunStep, LoadJob, ReloadJob, TrainModel, GuardStatus, FinishTask,
             WorkerLost, KillRevoked, RunFails, row
    <3>2. QED BY <1>1, <3>1
  <2>5. QED BY <2>3, <2>4
<1>2. TrainingInv /\ LifeInv /\ [Next]_vars =>
         [\A j \in Jobs \ (overtaken' \cup redelivered'), r \in Runs :
             /\ OneTask(j)'
             /\ status[j] = "cancelled"
             /\ run[r].job = j /\ run[r].seen = "cancelled" /\ run'[r] # run[r]
             => status'[j] = "cancelled"]_<<status, run>>
  BY <1>1
<1>3. QED BY <1>2, TrainingInvHolds, LifeInvHolds, PTL DEF Spec, SeenCancellationsStand

-----------------------------------------------------------------------------
(* The life of a job with one task at a time                               *)

\* Calls, messages and runs are about rows there are.
PresentInv ==
    /\ \A s \in Sessions : api[s].pc # "idle" => status[api[s].job] # "absent"
    /\ \A m \in Messages : message[m].state # "unsent" => status[message[m].job] # "absent"
    /\ \A r \in Runs : run[r].pc # "idle" => status[run[r].job] # "absent"
    /\ \A j \in Jobs : j \in Doubled => status[j] # "absent"

\* A job's task is in one place.
Single(j) ==
    /\ \A s \in Senders(j) : Senders(j) = {s} /\ Queued(j) = {} /\ Active(j) = {}
    /\ \A m \in Queued(j) : Queued(j) = {m} /\ Active(j) = {}
    /\ \A r \in Active(j) : Active(j) = {r}

\* What a run has read, against the row's status and model.
Reads(x, s, m) ==
    /\ x.pc \in {"taken", "loaded"} => s \in {"queued", "cancelled"}
    /\ x.pc = "loaded" => x.seen = "queued"
    /\ x.pc \in {"started"} \cup HasRow => s \in {"running", "cancelled"}
    /\ x.pc \in HasRow => /\ x.had => m
                          /\ x.seen \in {"running", "cancelled"}
                          /\ x.seen = "cancelled" => s = "cancelled" /\ x.pc # "guarded"

\* The inductive invariant: a job with one task at a time has a row that fits it.
Fits(j) ==
    \/ j \in Doubled
    \/ /\ Single(j)
       /\ Senders(j) # {} \/ Queued(j) # {} => status[j] \in {"queued", "cancelled"}
       /\ \A r \in Active(j) : Reads(run[r], status[j], model[j])

LivesInv == PresentInv /\ \A j \in Jobs : Fits(j)

\* A step is about one job only.
OnlyAbout(j) ==
    /\ \A s \in Sessions : api'[s] = api[s] \/
          /\ api[s].pc # "idle" => api[s].job = j
          /\ api'[s].pc # "idle" => api'[s].job = j
    /\ \A m \in Messages : message'[m] = message[m] \/
          /\ message[m].state # "unsent" => message[m].job = j
          /\ message'[m].state # "unsent" => message'[m].job = j
    /\ \A r \in Runs : run'[r] = run[r] \/
          /\ run[r].pc # "idle" => run[r].job = j
          /\ run'[r].pc # "idle" => run'[r].job = j
    /\ \A i \in Jobs \ {j} : status'[i] = status[i] /\ model'[i] = model[i]
    /\ \A i : i # j => (i \in Doubled' <=> i \in Doubled)

\* A step that leaves the job alone.
Apart(i) ==
    /\ status'[i] = status[i] /\ model'[i] = model[i]
    /\ i \in Doubled' <=> i \in Doubled
    /\ Senders(i)' = Senders(i) /\ Queued(i)' = Queued(i) /\ Active(i)' = Active(i)
    /\ \A r \in Active(i) : run'[r] = run[r]

\* A step about one job leaves every other job apart.
LEMMA OthersApart ==
    ASSUME NEW j \in Jobs, OnlyAbout(j), NEW i \in Jobs \ {j} PROVE Apart(i)
<1>1. Senders(i)' = Senders(i)
  <2>1. \A s \in Sessions : (api'[s].pc = "sending" /\ api'[s].job = i) <=>
                            (api[s].pc = "sending" /\ api[s].job = i)
    BY DEF OnlyAbout
  <2>2. QED BY <2>1 DEF Senders
<1>2. Queued(i)' = Queued(i)
  <2>1. \A m \in Messages : (message'[m].state = "queued" /\ message'[m].job = i) <=>
                            (message[m].state = "queued" /\ message[m].job = i)
    BY DEF OnlyAbout
  <2>2. QED BY <2>1 DEF Queued
<1>3. Active(i)' = Active(i) /\ \A r \in Active(i) : run'[r] = run[r]
  <2>1. \A r \in Runs :
           /\ (run'[r].pc \notin {"idle", "done"} /\ run'[r].job = i) <=>
              (run[r].pc \notin {"idle", "done"} /\ run[r].job = i)
           /\ run[r].pc \notin {"idle", "done"} /\ run[r].job = i => run'[r] = run[r]
    BY DEF OnlyAbout
  <2>2. QED BY <2>1 DEF Active
<1>4. QED BY <1>1, <1>2, <1>3 DEF OnlyAbout, Apart

\* The stage of a job whose task is the run x.
RunStage(x) ==
    IF x.pc = "taken" THEN "waiting"
    ELSE IF x.pc = "loaded" THEN "looked"
    ELSE IF x.pc = "started" \/ (x.pc \in {"training", "trained"} /\ x.seen # "cancelled")
    THEN "training"
    ELSE IF x.pc = "guarded" THEN "ending"
    ELSE "over"

\* A task still to be sent or taken has its job waiting.
LEMMA StageWaiting ==
    ASSUME NEW j, status[j] # "absent", j \notin Doubled, Senders(j) # {} \/ Queued(j) # {}
    PROVE  Stage(j) = "waiting"
BY DEF Stage

\* A job without a task is over.
LEMMA StageOver ==
    ASSUME NEW j, status[j] # "absent", j \notin Doubled, ~UnderWay(j)
    PROVE  Stage(j) = "over"
<1>1. \A r \in Runs : run[r].job = j => run[r].pc \in {"idle", "done"}
  BY DEF UnderWay, Active
<1>2. ~In(j, {"taken"}) /\ ~In(j, {"loaded"}) /\ ~In(j, {"guarded"})
  BY <1>1 DEF In
<1>3. Senders(j) = {} /\ Queued(j) = {}
  BY DEF UnderWay
<1>4. QED BY <1>1, <1>2, <1>3 DEF Stage

\* A job whose task is a run is as far as the run is.
LEMMA StageOfRun ==
    ASSUME NEW j, status[j] # "absent", j \notin Doubled, NEW r \in Active(j),
           Senders(j) = {}, Queued(j) = {}, Active(j) = {r}
    PROVE  Stage(j) = RunStage(run[r])
<1>1. \A pcs : pcs \subseteq {"taken", "loaded", "started", "guarded"} =>
                  (In(j, pcs) <=> run[r].pc \in pcs)
  BY DEF In, Active
<1>2. In(j, {"taken"}) <=> run[r].pc = "taken"
  BY <1>1
<1>3. In(j, {"loaded"}) <=> run[r].pc = "loaded"
  BY <1>1
<1>4. In(j, {"guarded"}) <=> run[r].pc = "guarded"
  BY <1>1
<1>5. (\E q \in Runs : /\ run[q].job = j /\ ~Heeds(q)
                       /\ run[q].pc \in {"started", "training", "trained"})
      <=> \/ run[r].pc = "started"
          \/ run[r].pc \in {"training", "trained"} /\ run[r].seen # "cancelled"
  BY DEF Active, Heeds
<1>6. QED BY <1>2, <1>3, <1>4, <1>5 DEF Stage, RunStage

\* A job that is left apart keeps its stage and its invariant.
LEMMA ApartKeeps ==
    ASSUME NEW i, Apart(i) PROVE Stage(i)' = Stage(i) /\ (Fits(i) => Fits(i)')
<1>1. ASSUME NEW pcs, pcs \cap {"idle", "done"} = {} PROVE In(i, pcs)' <=> In(i, pcs)
  <2>1. In(i, pcs) <=> \E r \in Active(i) : run[r].pc \in pcs
    BY <1>1 DEF In, Active
  <2>2. In(i, pcs)' <=> \E r \in Active(i)' : run'[r].pc \in pcs
    BY <1>1 DEF In, Active
  <2>3. QED BY <2>1, <2>2 DEF Apart
<1>2. /\ In(i, {"taken"})' <=> In(i, {"taken"})
      /\ In(i, {"loaded"})' <=> In(i, {"loaded"})
      /\ In(i, {"guarded"})' <=> In(i, {"guarded"})
  BY <1>1
<1>3. (\E r \in Runs : /\ run[r].job = i /\ ~Heeds(r)
                       /\ run[r].pc \in {"started", "training", "trained"})'
      <=> \E r \in Runs : /\ run[r].job = i /\ ~Heeds(r)
                          /\ run[r].pc \in {"started", "training", "trained"}
  <2>1. (\E r \in Runs : /\ run[r].job = i /\ ~Heeds(r)
                         /\ run[r].pc \in {"started", "training", "trained"})
        <=> \E r \in Active(i) : ~Heeds(r) /\ run[r].pc \in {"started", "training", "trained"}
    BY DEF Active
  <2>2. (\E r \in Runs : /\ run[r].job = i /\ ~Heeds(r)
                         /\ run[r].pc \in {"started", "training", "trained"})'
        <=> \E r \in Active(i)' : ~Heeds(r)' /\ run'[r].pc \in {"started", "training", "trained"}
    BY DEF Active
  <2>3. \A r \in Active(i) : Heeds(r)' <=> Heeds(r)
    BY DEF Apart, Heeds
  <2>4. QED BY <2>1, <2>2, <2>3 DEF Apart
<1>4. Stage(i)' = Stage(i)
  BY <1>2, <1>3 DEF Stage, Apart
<1>5. ASSUME Fits(i) PROVE Fits(i)'
  <2>1. CASE i \in Doubled
    BY <2>1 DEF Fits, Apart
  <2>2. CASE i \notin Doubled
    <3>1. Single(i)'
      BY <1>5, <2>2 DEF Fits, Apart, Single
    <3>2. \A r \in Active(i)' : Reads(run'[r], status'[i], model'[i])
      BY <1>5, <2>2 DEF Fits, Apart
    <3>3. QED BY <1>5, <2>2, <3>1, <3>2 DEF Fits, Apart
  <2>3. QED BY <2>1, <2>2
<1>6. QED BY <1>4, <1>5

\* What the status of a row may be.
Rows == {"queued", "running", "completed", "failed", "cancelled"}

\* What a step may do to the row and the stage of a job.
Kept(j) == status'[j] = status[j] /\ model'[j] = model[j]

LifeGoesOn(j) ==
    \/ Kept(j) /\ Stage(j)' = Stage(j)
    \/ /\ Stage(j) = "none" /\ Stage(j)' = "waiting"
       /\ status'[j] = "queued" /\ model'[j] = model[j]
    \/ /\ Stage(j) \notin {"none", "doubled"} /\ Stage(j)' = Stage(j)
       /\ status'[j] = "cancelled" /\ model'[j] = model[j]
    \/ Kept(j) /\ status[j] = "queued" /\ Stage(j) = "waiting" /\ Stage(j)' = "looked"
    \/ /\ Stage(j) = "looked" /\ Stage(j)' = "training"
       /\ status'[j] = "running" /\ model'[j] = model[j]
    \/ Kept(j) /\ status[j] = "running" /\ Stage(j) = "training" /\ Stage(j)' = "ending"
    \/ /\ Stage(j) = "ending" /\ Stage(j)' = "over"
       /\ \/ status'[j] = "completed" /\ model'[j] = TRUE
          \/ status'[j] = "failed" /\ model'[j] = model[j]
    \/ /\ Stage(j) \in {"waiting", "looked", "training", "ending"} /\ Stage(j)' = "over"
       /\ Kept(j)
    \/ /\ Stage(j) = "over" /\ Stage(j)' = "waiting"
       /\ status'[j] = "queued" /\ model'[j] \in {FALSE, model[j]}
    \/ /\ Stage(j) # "none" /\ Stage(j)' = "doubled"
       /\ status'[j] \in Rows /\ model'[j] \in BOOLEAN

\* The step of one job is a step of all: the other rows of JobLife stay.
LEMMA LivesLifted ==
    ASSUME TypeOK, TypeOK', NEW j \in Jobs, OnlyAbout(j), LifeGoesOn(j)
    PROVE  Life!Next \/ UNCHANGED Life!vars
<1> DEFINE stage == [i \in Jobs |-> Stage(i)]
           to == Stage(j)'
<1>0. \A i \in Jobs \ {j} : /\ status'[i] = status[i] /\ model'[i] = model[i]
                            /\ Stage(i)' = Stage(i)
  BY OthersApart, ApartKeeps DEF OnlyAbout
<1>1. /\ status' = [status EXCEPT ![j] = status'[j]]
      /\ model' = [model EXCEPT ![j] = model'[j]]
  <2>1. /\ status \in [Jobs -> Status] /\ status' \in [Jobs -> Status]
        /\ model \in [Jobs -> BOOLEAN] /\ model' \in [Jobs -> BOOLEAN]
    BY DEF TypeOK
  <2>2. QED BY <1>0, <2>1
<1>2. stage[j] = Stage(j) /\ stage' = [stage EXCEPT ![j] = to]
  <2>1. stage' = [i \in Jobs |-> Stage(i)']
    OBVIOUS
  <2>2. QED BY <1>0, <2>1
<1>3. to = Stage(j) => stage' = stage
  BY <1>2
<1>4. Kept(j) => status' = status /\ model' = model
  BY <1>1 DEF Kept, TypeOK
<1>5. model'[j] = model[j] => model' = model
  BY <1>1 DEF TypeOK
<1> HIDE DEF to
<1>6. to = Stage(j)'
  BY DEF to
<1>7. CASE Kept(j) /\ Stage(j)' = Stage(j)
  BY <1>3, <1>4, <1>6, <1>7 DEF Life!vars
<1>8. CASE /\ Stage(j) = "none" /\ Stage(j)' = "waiting"
           /\ status'[j] = "queued" /\ model'[j] = model[j]
  <2>1. Life!Create(j)
    BY <1>1, <1>2, <1>5, <1>6, <1>8 DEF Life!Create, Life!Moves, Life!Becomes
  <2>2. QED BY <2>1 DEF Life!Next
<1>9. CASE /\ Stage(j) \notin {"none", "doubled"} /\ Stage(j)' = Stage(j)
           /\ status'[j] = "cancelled" /\ model'[j] = model[j]
  <2>1. Life!Cancel(j)
    BY <1>1, <1>2, <1>3, <1>5, <1>6, <1>9 DEF Life!Cancel, Life!Becomes
  <2>2. QED BY <2>1 DEF Life!Next
<1>10. CASE Kept(j) /\ status[j] = "queued" /\ Stage(j) = "waiting" /\ Stage(j)' = "looked"
  <2>1. Life!Look(j)
    BY <1>2, <1>4, <1>6, <1>10 DEF Life!Look, Life!Moves
  <2>2. QED BY <2>1 DEF Life!Next
<1>11. CASE /\ Stage(j) = "looked" /\ Stage(j)' = "training"
            /\ status'[j] = "running" /\ model'[j] = model[j]
  <2>1. Life!Start(j)
    BY <1>1, <1>2, <1>5, <1>6, <1>11 DEF Life!Start, Life!Moves, Life!Becomes
  <2>2. QED BY <2>1 DEF Life!Next
<1>12. CASE Kept(j) /\ status[j] = "running" /\ Stage(j) = "training" /\ Stage(j)' = "ending"
  <2>1. Life!LookAgain(j)
    BY <1>2, <1>4, <1>6, <1>12 DEF Life!LookAgain, Life!Moves
  <2>2. QED BY <2>1 DEF Life!Next
<1>13. CASE /\ Stage(j) = "ending" /\ Stage(j)' = "over"
            /\ status'[j] = "completed" /\ model'[j] = TRUE
  <2>1. Life!Complete(j)
    BY <1>1, <1>2, <1>6, <1>13 DEF Life!Complete, Life!Moves, Life!Becomes
  <2>2. QED BY <2>1 DEF Life!Next
<1>14. CASE /\ Stage(j) = "ending" /\ Stage(j)' = "over"
            /\ status'[j] = "failed" /\ model'[j] = model[j]
  <2>1. Life!Fail(j)
    BY <1>1, <1>2, <1>5, <1>6, <1>14 DEF Life!Fail, Life!Moves, Life!Becomes
  <2>2. QED BY <2>1 DEF Life!Next
<1>15. CASE /\ Stage(j) \in {"waiting", "looked", "training", "ending"} /\ Stage(j)' = "over"
            /\ Kept(j)
  <2>1. Life!Stop(j)
    BY <1>2, <1>4, <1>6, <1>15 DEF Life!Stop
  <2>2. QED BY <2>1 DEF Life!Next
<1>16. CASE /\ Stage(j) = "over" /\ Stage(j)' = "waiting"
            /\ status'[j] = "queued" /\ model'[j] \in {FALSE, model[j]}
  <2>1. Life!Retry(j)
    BY <1>1, <1>2, <1>6, <1>16 DEF Life!Retry, Life!Moves, Life!Becomes
  <2>2. QED BY <2>1 DEF Life!Next
<1>17. CASE /\ Stage(j) # "none" /\ Stage(j)' = "doubled"
            /\ status'[j] \in Rows /\ model'[j] \in BOOLEAN
  <2>1. Life!Double(j)
    BY <1>1, <1>2, <1>6, <1>17 DEF Life!Double, Life!Becomes, Rows
  <2>2. QED BY <2>1 DEF Life!Next
<1>18. QED
  BY <1>7, <1>8, <1>9, <1>10, <1>11, <1>12, <1>13, <1>14, <1>15, <1>16, <1>17
     DEF LifeGoesOn

\* A step about a job that has, or now has, two tasks at once.
LEMMA DoubledGoesOn ==
    ASSUME TypeOK', NEW j \in Jobs, status[j] # "absent", status'[j] # "absent", j \in Doubled'
    PROVE  LifeGoesOn(j) /\ Fits(j)'
<1>1. Stage(j)' = "doubled" /\ Stage(j) # "none"
  BY DEF Stage
<1>2. status'[j] \in Rows /\ model'[j] \in BOOLEAN
  BY DEF TypeOK, Status, Unsettled, Terminal, Rows
<1>3. QED BY <1>1, <1>2 DEF LifeGoesOn, Fits

\* Rows stay, and so does what is said of them.
LEMMA PresentKept ==
    ASSUME PresentInv, CallsInv, MessagesInv, RunsInv, NEW j \in Jobs, OnlyAbout(j),
           status'[j] # "absent"
    PROVE  PresentInv'
<1>1. \A i \in Jobs : status[i] # "absent" => status'[i] # "absent"
  BY DEF OnlyAbout
<1>2. \A s \in Sessions : api'[s].pc # "idle" => status'[api'[s].job] # "absent"
  BY <1>1 DEF OnlyAbout, PresentInv, CallsInv
<1>3. \A m \in Messages : message'[m].state # "unsent" => status'[message'[m].job] # "absent"
  BY <1>1 DEF OnlyAbout, PresentInv, MessagesInv
<1>4. \A r \in Runs : run'[r].pc # "idle" => status'[run'[r].job] # "absent"
  BY <1>1 DEF OnlyAbout, PresentInv, RunsInv, RunInv
<1>5. \A i \in Jobs : i \in Doubled' => status'[i] # "absent"
  BY <1>1 DEF OnlyAbout, PresentInv
<1>6. QED BY <1>2, <1>3, <1>4, <1>5 DEF PresentInv

-----------------------------------------------------------------------------
(* The calls lead the life of a job                                        *)

\* What is to be shown of every step.
Lives(j) == OnlyAbout(j) /\ status'[j] # "absent" /\ LifeGoesOn(j) /\ Fits(j)'

\* A step of the calls: they share the rows with nobody.
LEMMA CallIsAbout ==
    ASSUME TypeOK, TypeOK', NEW s \in Sessions, NEW j \in Jobs, NEW call,
           api' = [api EXCEPT ![s] = call],
           api[s].pc # "idle" => api[s].job = j, call.pc # "idle" => call.job = j,
           UNCHANGED <<message, run, redelivered>>,
           \A i \in Jobs \ {j} : status'[i] = status[i] /\ model'[i] = model[i],
           doubled' = doubled \/ doubled' = doubled \cup {j}
    PROVE  OnlyAbout(j)
<1>1. api'[s] = call /\ \A t \in Sessions \ {s} : api'[t] = api[t]
  BY DEF TypeOK
<1>2. \A i : i # j => (i \in Doubled' <=> i \in Doubled)
  BY DEF Doubled
<1>3. QED BY <1>1, <1>2 DEF OnlyAbout

\* A job's row changes as a call says, its task stays where it is.
LEMMA CallKeepsStage ==
    ASSUME NEW j \in Jobs, j \notin Doubled, doubled' = doubled, redelivered' = redelivered,
           Senders(j)' = Senders(j), message' = message, run' = run, Fits(j),
           status[j] # "absent", status'[j] # "absent", model'[j] = model[j],
           status'[j] = status[j] \/ status'[j] = "cancelled"
    PROVE  Stage(j)' = Stage(j) /\ Fits(j)'
<1>1. Queued(j)' = Queued(j) /\ Active(j)' = Active(j)
  BY DEF Queued, Active
<1>2. Stage(j)' = Stage(j)
  BY <1>1 DEF Stage, In, Heeds, Doubled
<1>3. Single(j)'
  BY <1>1 DEF Fits, Single
<1>4. \A r \in Active(j) : Reads(run[r], status'[j], model'[j])
  BY DEF Fits, Reads
<1>5. QED BY <1>1, <1>2, <1>3, <1>4 DEF Fits

\* create_job: the row appears, with its task to be sent.
LEMMA LivesCreate ==
    ASSUME TypeOK, TypeOK', LivesInv, NEW s \in Sessions, NEW j \in Jobs, CreateJob(s, j)
    PROVE  Lives(j)
<1> DEFINE call == [NoCall EXCEPT !.pc = "sending", !.job = j]
<1>1. /\ status[j] = "absent" /\ status' = [status EXCEPT ![j] = "queued"]
      /\ api' = [api EXCEPT ![s] = call] /\ api[s].pc = "idle"
      /\ call.pc = "sending" /\ call.job = j
      /\ UNCHANGED <<model, message, run, redelivered, doubled>>
  BY DEF CreateJob, Opens, NoCall, history
<1> HIDE DEF call
<1>2. status'[j] = "queued" /\ model'[j] = model[j] /\ api'[s] = call
  BY <1>1 DEF TypeOK
<1>3. OnlyAbout(j)
  <2>1. \A i \in Jobs \ {j} : status'[i] = status[i] /\ model'[i] = model[i]
    BY <1>1 DEF TypeOK
  <2>2. QED BY <1>1, <2>1, CallIsAbout
<1>4. /\ \A t \in Sessions \ {s} : ~(api'[t].pc = "sending" /\ api'[t].job = j)
      /\ Queued(j)' = {} /\ Active(j)' = {} /\ j \notin Doubled'
  <2>1. \A t \in Sessions \ {s} : api'[t] = api[t]
    BY <1>1 DEF TypeOK
  <2>2. \A t \in Sessions \ {s} : ~(api'[t].pc = "sending" /\ api'[t].job = j)
    BY <1>1, <2>1 DEF LivesInv, PresentInv
  <2>3. Queued(j) = {} /\ Active(j) = {} /\ j \notin Doubled
    BY <1>1 DEF LivesInv, PresentInv, Queued, Active
  <2>4. Queued(j)' = Queued(j) /\ Active(j)' = Active(j) /\ Doubled' = Doubled
    BY <1>1 DEF Queued, Active, Doubled
  <2>5. QED BY <2>2, <2>3, <2>4
<1>5. Senders(j)' = {s}
  BY <1>1, <1>2, <1>4 DEF Senders
<1>6. Stage(j) = "none" /\ Stage(j)' = "waiting"
  <2>1. Stage(j)' = "waiting"
    BY <1>2, <1>4, <1>5 DEF Stage
  <2>2. QED BY <1>1, <2>1 DEF Stage
<1>7. Fits(j)'
  BY <1>2, <1>4, <1>5 DEF Fits, Single
<1>8. QED BY <1>2, <1>3, <1>6, <1>7 DEF Lives, LifeGoesOn

\* The task leaves the call for the broker.
LEMMA LivesSend ==
    ASSUME TypeOK, TypeOK', CallsInv, LivesInv, NEW s \in Sessions, NEW m \in Messages,
           SendTask(s, m)
    PROVE  \E j \in Jobs : Lives(j)
<1> DEFINE call == [api[s] EXCEPT !.pc = "sent", !.task = m]
<1>0. PICK j \in Jobs : j = api[s].job
  BY DEF SendTask, CallsInv
<1>1. /\ api[s] \in Call /\ api[s].pc = "sending" /\ message[m].state = "unsent"
      /\ api' = [api EXCEPT ![s] = call] /\ call.pc = "sent" /\ call.job = j
      /\ message' = [message EXCEPT ![m] = [job |-> j, state |-> "queued"]]
      /\ UNCHANGED <<status, model, run, redelivered, doubled>>
  BY <1>0 DEF SendTask, TypeOK, Call, row, history
<1> HIDE DEF call
<1>2. /\ api'[s] = call /\ \A t \in Sessions \ {s} : api'[t] = api[t]
      /\ message'[m] = [job |-> j, state |-> "queued"]
      /\ \A n \in Messages \ {m} : message'[n] = message[n]
      /\ s \in Senders(j) /\ status[j] # "absent"
  BY <1>0, <1>1 DEF TypeOK, Senders, LivesInv, PresentInv
<1>3. OnlyAbout(j)
  BY <1>0, <1>1, <1>2 DEF OnlyAbout, Doubled
<1>4. CASE j \in Doubled
  BY <1>0, <1>1, <1>2, <1>3, <1>4, DoubledGoesOn DEF Lives, Doubled
<1>5. CASE j \notin Doubled
  <2>1. Single(j) /\ status[j] \in {"queued", "cancelled"}
    BY <1>2, <1>5 DEF LivesInv, Fits
  <2>2. Senders(j) = {s} /\ Queued(j) = {} /\ Active(j) = {}
    BY <1>2, <2>1 DEF Single
  <2>3. Active(j)' = {} /\ j \notin Doubled'
    BY <1>1, <1>5, <2>2 DEF Active, Doubled
  <2>4. Senders(j)' = {}
    BY <1>1, <1>2, <2>2 DEF Senders
  <2>5. Queued(j)' = {m}
    BY <1>2, <2>2 DEF Queued
  <2>6. Stage(j) = "waiting"
    BY <1>2, <1>5, StageWaiting
  <2>7. Stage(j)' = "waiting"
    BY <1>1, <1>2, <2>3, <2>5 DEF Stage
  <2>8. Fits(j)'
    BY <1>1, <2>1, <2>3, <2>4, <2>5 DEF Fits, Single
  <2>9. QED BY <1>0, <1>1, <1>2, <1>3, <2>6, <2>7, <2>8 DEF Lives, LifeGoesOn, Kept
<1>6. QED BY <1>4, <1>5

\* A call that sends nothing may cancel the job.
LEMMA LivesCall ==
    ASSUME TypeOK, TypeOK', LivesInv, NEW s \in Sessions, NEW j \in Jobs, NEW call,
           api' = [api EXCEPT ![s] = call],
           api[s].pc # "idle" => api[s].job = j, call.pc # "idle" => call.job = j,
           api[s].pc # "sending", call.pc # "sending",
           UNCHANGED <<model, message, run, redelivered, doubled>>,
           status[j] # "absent", \A i \in Jobs \ {j} : status'[i] = status[i],
           status'[j] = status[j] \/ status'[j] = "cancelled"
    PROVE  Lives(j)
<1>1. status'[j] # "absent" /\ model'[j] = model[j]
  OBVIOUS
<1>2. OnlyAbout(j)
  BY CallIsAbout
<1>3. CASE j \in Doubled
  BY <1>1, <1>2, <1>3, DoubledGoesOn DEF Lives, Doubled
<1>4. CASE j \notin Doubled
  <2>1. Senders(j)' = Senders(j)
    <3>1. api'[s] = call /\ \A t \in Sessions \ {s} : api'[t] = api[t]
      BY DEF TypeOK
    <3>2. QED BY <3>1 DEF Senders
  <2>2. Fits(j)
    BY DEF LivesInv
  <2>3. Stage(j)' = Stage(j) /\ Fits(j)'
    BY <1>1, <1>4, <2>1, <2>2, CallKeepsStage
  <2>4. Stage(j) \notin {"none", "doubled"}
    BY <1>4 DEF Stage
  <2>5. QED BY <1>1, <1>2, <2>3, <2>4 DEF Lives, LifeGoesOn, Kept
<1>5. QED BY <1>3, <1>4

\* A retry brings a job back to life whose task is over, or doubles it.
LEMMA LivesRetry ==
    ASSUME TypeOK, TypeOK', CallsInv, LivesInv, NEW s \in Sessions, CommitRetry(s)
    PROVE  \E j \in Jobs : Lives(j)
<1> DEFINE call == [NoCall EXCEPT !.pc = "sending", !.job = api[s].job]
<1>0. PICK j \in Jobs : j = api[s].job
  BY DEF CommitRetry, CallsInv
<1>1. /\ api[s].pc = "retrying" /\ api' = [api EXCEPT ![s] = call]
      /\ call.pc = "sending" /\ call.job = j
      /\ status' = [status EXCEPT ![j] = "queued"]
      /\ model' = [model EXCEPT ![j] = Written(@, api[s].had, FALSE)]
      /\ doubled' = IF UnderWay(j) THEN doubled \cup {j} ELSE doubled
      /\ UNCHANGED <<message, run, redelivered>>
  BY <1>0 DEF CommitRetry, NoCall
<1> HIDE DEF call
<1>2. /\ api'[s] = call /\ \A t \in Sessions \ {s} : api'[t] = api[t]
      /\ status'[j] = "queued" /\ model'[j] \in {FALSE, model[j]}
      /\ \A i \in Jobs \ {j} : status'[i] = status[i] /\ model'[i] = model[i]
      /\ status[j] # "absent"
  BY <1>0, <1>1 DEF TypeOK, Written, LivesInv, PresentInv
<1>3. OnlyAbout(j)
  BY <1>0, <1>1, <1>2, CallIsAbout
<1>4. CASE j \in Doubled'
  BY <1>0, <1>2, <1>3, <1>4, DoubledGoesOn DEF Lives
<1>5. CASE j \notin Doubled'
  <2>1. ~UnderWay(j) /\ j \notin Doubled
    BY <1>1, <1>5 DEF Doubled
  <2>2. Senders(j)' = {s} /\ Queued(j)' = {} /\ Active(j)' = {}
    BY <1>1, <1>2, <2>1 DEF UnderWay, Senders, Queued, Active
  <2>3. Stage(j) = "over"
    BY <1>2, <2>1, StageOver
  <2>4. Stage(j)' = "waiting"
    BY <1>2, <1>5, <2>2 DEF Stage
  <2>5. Fits(j)'
    BY <1>2, <2>2 DEF Fits, Single
  <2>6. QED BY <1>0, <1>2, <1>3, <2>3, <2>4, <2>5 DEF Lives, LifeGoesOn
<1>6. QED BY <1>4, <1>5

\* A call that dies before it has sent the task leaves the job without one.
LEMMA LivesAbandon ==
    ASSUME TypeOK, TypeOK', CallsInv, LivesInv, NEW s \in Sessions, AbandonCall(s)
    PROVE  \E j \in Jobs : Lives(j)
<1>0. PICK j \in Jobs : j = api[s].job
  BY DEF AbandonCall, CallsInv
<1>1. /\ api[s].pc # "idle" /\ api' = [api EXCEPT ![s] = NoCall] /\ NoCall.pc = "idle"
      /\ UNCHANGED <<status, model, message, run, redelivered, doubled>>
  BY DEF AbandonCall, row, NoCall
<1>2. /\ api'[s] = NoCall /\ \A t \in Sessions \ {s} : api'[t] = api[t]
      /\ status[j] # "absent"
  BY <1>0, <1>1 DEF TypeOK, LivesInv, PresentInv
<1>3. CASE api[s].pc # "sending"
  BY <1>0, <1>1, <1>2, <1>3, LivesCall
<1>4. CASE api[s].pc = "sending" /\ j \in Doubled
  <2>1. OnlyAbout(j)
    BY <1>0, <1>1, CallIsAbout
  <2>2. QED BY <1>0, <1>1, <1>2, <1>4, <2>1, DoubledGoesOn DEF Lives, Doubled
<1>5. CASE api[s].pc = "sending" /\ j \notin Doubled
  <2>1. OnlyAbout(j)
    BY <1>0, <1>1, CallIsAbout
  <2>2. s \in Senders(j) /\ Single(j)
    BY <1>0, <1>5 DEF Senders, LivesInv, Fits
  <2>3. Senders(j) = {s} /\ Queued(j) = {} /\ Active(j) = {}
    BY <2>2 DEF Single
  <2>4. Senders(j)' = {} /\ Queued(j)' = {} /\ Active(j)' = {} /\ j \notin Doubled'
    <3>1. Senders(j)' = {}
      BY <1>1, <1>2, <2>3 DEF Senders
    <3>2. QED BY <1>1, <1>5, <2>3, <3>1 DEF Queued, Active, Doubled
  <2>5. Stage(j) = "waiting"
    BY <1>2, <1>5, <2>2, StageWaiting
  <2>6. Stage(j)' = "over"
    <3>1. \A r \in Runs : run[r].job = j => run[r].pc \in {"idle", "done"}
      BY <2>3 DEF Active
    <3>2. QED BY <1>1, <1>2, <2>4, <3>1 DEF Stage, In
  <2>7. Fits(j)'
    BY <2>4 DEF Fits, Single
  <2>8. QED BY <1>0, <1>1, <1>2, <2>1, <2>5, <2>6, <2>7 DEF Lives, LifeGoesOn, Kept
<1>6. QED BY <1>3, <1>4, <1>5

\* Every step of a call is a step of the life of the job it is about.
LEMMA LivesOfCalls ==
    ASSUME TypeOK, TypeOK', CallsInv, LivesInv, NEW s \in Sessions, ApiStep(s)
    PROVE  \E j \in Jobs : Lives(j)
<1>0. api[s].pc # "idle" => api[s].job \in Jobs /\ status[api[s].job] # "absent"
  BY DEF CallsInv, LivesInv, PresentInv
<1>1. ASSUME NEW j \in Jobs, OpenCancel(s, j) \/ OpenRetry(s, j) PROVE Lives(j)
  <2>1. PICK call : /\ api' = [api EXCEPT ![s] = call] /\ call.job = j
                    /\ call.pc \in {"cancelling", "retrying"}
    <3>1. CASE OpenCancel(s, j)
      <4>1. PICK call : call = [NoCall EXCEPT !.pc = "cancelling", !.job = j, !.task = task[j]]
        OBVIOUS
      <4>2. call.job = j /\ call.pc = "cancelling" /\ api' = [api EXCEPT ![s] = call]
        BY <3>1, <4>1 DEF OpenCancel, Opens, NoCall
      <4>3. QED BY <4>2
    <3>2. CASE OpenRetry(s, j)
      <4>1. PICK call : call = [pc |-> "retrying", job |-> j, task |-> task[j],
                                had |-> model[j]]
        OBVIOUS
      <4>2. call.job = j /\ call.pc = "retrying" /\ api' = [api EXCEPT ![s] = call]
        BY <3>2, <4>1 DEF OpenRetry, Opens
      <4>3. QED BY <4>2
    <3>3. QED BY <1>1, <3>1, <3>2
  <2>2. /\ api[s].pc = "idle" /\ status[j] # "absent"
        /\ UNCHANGED <<status, model, message, run, redelivered, doubled>>
    BY <1>1 DEF OpenCancel, OpenRetry, Opens, row, history, Unsettled
  <2>3. QED BY <2>1, <2>2, LivesCall
<1>2. CASE CommitTask(s) \/ RevokeTask(s) \/ CommitCancel(s)
  <2>1. PICK j \in Jobs : j = api[s].job
    BY <1>0, <1>2 DEF CommitTask, RevokeTask, CommitCancel
  <2>2. PICK call : /\ api' = [api EXCEPT ![s] = call] /\ call.pc \in {"idle", "revoked"}
                    /\ call.pc # "idle" => call.job = j
    <3>1. CASE RevokeTask(s)
      <4>1. /\ [api[s] EXCEPT !.pc = "revoked"].job = j
            /\ [api[s] EXCEPT !.pc = "revoked"].pc = "revoked"
        BY <2>1 DEF TypeOK, Call
      <4>2. api' = [api EXCEPT ![s] = [api[s] EXCEPT !.pc = "revoked"]]
        BY <3>1 DEF RevokeTask
      <4>3. QED BY <4>1, <4>2
    <3>2. CASE CommitTask(s) \/ CommitCancel(s)
      <4>1. api' = [api EXCEPT ![s] = NoCall] /\ NoCall.pc = "idle"
        BY <3>2 DEF CommitTask, CommitCancel, NoCall
      <4>2. QED BY <4>1
    <3>3. QED BY <1>2, <3>1, <3>2
  <2>3. /\ api[s].pc \in {"sent", "cancelling", "revoked"}
        /\ UNCHANGED <<model, message, run, redelivered, doubled>>
    BY <1>2 DEF CommitTask, RevokeTask, CommitCancel, row, history
  <2>4. /\ \A i \in Jobs \ {j} : status'[i] = status[i]
        /\ status'[j] = status[j] \/ status'[j] = "cancelled"
    BY <1>2, <2>1 DEF CommitTask, RevokeTask, CommitCancel, row, TypeOK
  <2>5. Lives(j)
    BY <1>0, <2>1, <2>2, <2>3, <2>4, LivesCall
  <2>6. QED BY <2>5
<1>3. QED BY <1>1, <1>2, LivesCreate, LivesSend, LivesRetry, LivesAbandon DEF ApiStep

-----------------------------------------------------------------------------
(* The workers lead the life of a job                                      *)

\* The stage of a job without a task, after a step.
LEMMA StageOverNext ==
    ASSUME NEW j, status'[j] # "absent", j \notin Doubled', Senders(j)' = {}, Queued(j)' = {},
           Active(j)' = {}
    PROVE  Stage(j)' = "over"
<1>1. \A r \in Runs : run'[r].job = j => run'[r].pc \in {"idle", "done"}
  BY DEF Active
<1>2. ~In(j, {"taken"})' /\ ~In(j, {"loaded"})' /\ ~In(j, {"guarded"})'
  BY <1>1 DEF In
<1>3. QED BY <1>1, <1>2 DEF Stage

\* The same for the stage of a job whose task is a run.
LEMMA StageOfRunNext ==
    ASSUME NEW j, status'[j] # "absent", j \notin Doubled', NEW r \in Runs,
           Senders(j)' = {}, Queued(j)' = {}, Active(j)' = {r}
    PROVE  Stage(j)' = RunStage(run'[r])
<1>1. \A pcs : pcs \subseteq {"taken", "loaded", "started", "guarded"} =>
                  (In(j, pcs)' <=> run'[r].pc \in pcs)
  BY DEF In, Active
<1>2. In(j, {"taken"})' <=> run'[r].pc = "taken"
  BY <1>1
<1>3. In(j, {"loaded"})' <=> run'[r].pc = "loaded"
  BY <1>1
<1>4. In(j, {"guarded"})' <=> run'[r].pc = "guarded"
  BY <1>1
<1>5. (\E q \in Runs : /\ run[q].job = j /\ ~Heeds(q)
                       /\ run[q].pc \in {"started", "training", "trained"})'
      <=> \/ run'[r].pc = "started"
          \/ run'[r].pc \in {"training", "trained"} /\ run'[r].seen # "cancelled"
  BY DEF Active, Heeds
<1>6. QED BY <1>2, <1>3, <1>4, <1>5 DEF Stage, RunStage

\* The run that has a job's task moves on, or ends.
LEMMA SoleRunMoves ==
    ASSUME NEW j \in Jobs, j \notin Doubled, j \notin Doubled', Fits(j),
           status[j] # "absent", status'[j] # "absent",
           NEW r \in Active(j), NEW new, run'[r] = new,
           \A q \in Runs \ {r} : run'[q] = run[q],
           new.pc # "idle" => new.job = j,
           api' = api, Queued(j)' = Queued(j)
    PROVE  /\ Stage(j) = RunStage(run[r]) /\ Stage(j)' = RunStage(new)
           /\ Reads(run[r], status[j], model[j])
           /\ Reads(new, status'[j], model'[j]) => Fits(j)'
<1>1. /\ Single(j) /\ Reads(run[r], status[j], model[j]) /\ r \in Runs
  BY DEF Fits, Active
<1>2. Active(j) = {r} /\ Senders(j) = {} /\ Queued(j) = {}
  BY <1>1 DEF Single
<1>3. Stage(j) = RunStage(run[r])
  BY <1>2, StageOfRun
<1>4. Senders(j)' = {} /\ Queued(j)' = {}
  BY <1>2 DEF Senders
<1>5. Active(j)' = IF new.pc \in {"idle", "done"} THEN {} ELSE {r}
  BY <1>1, <1>2 DEF Active
<1>6. CASE new.pc \in {"idle", "done"}
  <2>1. Stage(j)' = "over"
    BY <1>4, <1>5, <1>6, StageOverNext
  <2>2. Fits(j)'
    BY <1>4, <1>5, <1>6 DEF Fits, Single
  <2>3. QED BY <1>1, <1>3, <1>6, <2>1, <2>2 DEF RunStage
<1>7. CASE new.pc \notin {"idle", "done"}
  <2>1. Active(j)' = {r}
    BY <1>5, <1>7
  <2>2. Stage(j)' = RunStage(new)
    BY <1>1, <1>4, <2>1, StageOfRunNext
  <2>3. Reads(new, status'[j], model'[j]) => Fits(j)'
    BY <1>4, <2>1 DEF Fits, Single
  <2>4. QED BY <1>1, <1>3, <2>2, <2>3
<1>8. QED BY <1>6, <1>7

\* A run that is over leaves nothing of its job's task.
LEMMA EndedRunGoes ==
    ASSUME NEW j \in Jobs, Fits(j), NEW r \in Runs, run[r].pc \in {"idle", "done"},
           run'[r].pc \in {"idle", "done"}, \A q \in Runs \ {r} : run'[q] = run[q],
           UNCHANGED <<api, doubled, redelivered>>, Queued(j)' = Queued(j),
           status'[j] = status[j], model'[j] = model[j]
    PROVE  Stage(j)' = Stage(j) /\ Fits(j)'
<1>1. Senders(j)' = Senders(j) /\ (j \in Doubled' <=> j \in Doubled)
  BY DEF Senders, Doubled
<1>2. Active(j)' = Active(j) /\ \A q \in Active(j) : run'[q] = run[q]
  <2>1. \A q \in Runs : (run'[q].pc \notin {"idle", "done"} /\ run'[q].job = j) <=>
                        (run[q].pc \notin {"idle", "done"} /\ run[q].job = j)
    OBVIOUS
  <2>2. \A q \in Active(j) : q # r
    BY DEF Active
  <2>3. QED BY <2>1, <2>2 DEF Active
<1>3. Apart(j)
  BY <1>1, <1>2 DEF Apart
<1>4. QED BY <1>3, ApartKeeps

\* A worker takes the job's message.
LEMMA LivesTakes ==
    ASSUME TypeOK, TypeOK', MessagesInv, LivesInv, NEW r \in Runs, NEW m \in Messages,
           TakeMessage(r, m)
    PROVE  \E j \in Jobs : Lives(j)
<1>0. PICK j \in Jobs : j = message[m].job
  BY DEF TakeMessage, MessagesInv
<1> DEFINE new == [NoRun EXCEPT !.pc = "taken", !.attached = TRUE, !.msg = m, !.job = j]
<1>1. /\ run[r].pc = "idle" /\ message[m].state = "queued"
      /\ message' = [message EXCEPT ![m].state = "claimed"]
      /\ run' = [run EXCEPT ![r] = new] /\ new.pc = "taken" /\ new.job = j
      /\ UNCHANGED <<status, model, api, doubled, redelivered>>
  BY <1>0 DEF TakeMessage, Moves, NoRun
<1> HIDE DEF new
<1>2. /\ message'[m].state = "claimed" /\ message'[m].job = j
      /\ \A n \in Messages \ {m} : message'[n] = message[n]
      /\ m \in Queued(j) /\ status[j] # "absent" /\ message[m].job = j
  BY <1>0, <1>1 DEF TypeOK, Message, Queued, LivesInv, PresentInv
<1>3. /\ OnlyAbout(j) /\ run'[r] = new
      /\ \A q \in Runs \ {r} : run'[q] = run[q]
  <2>1. run'[r] = new /\ \A q \in Runs \ {r} : run'[q] = run[q]
    BY <1>1 DEF TypeOK
  <2>2. \A i : i \in Doubled' <=> i \in Doubled
    BY <1>1 DEF Doubled
  <2>3. QED BY <1>1, <1>2, <2>1, <2>2 DEF OnlyAbout
<1>4. CASE j \in Doubled
  BY <1>1, <1>2, <1>3, <1>4, DoubledGoesOn DEF Lives, Doubled
<1>5. CASE j \notin Doubled
  <2>1. Single(j) /\ status[j] \in {"queued", "cancelled"}
    BY <1>2, <1>5 DEF LivesInv, Fits
  <2>2. Senders(j) = {} /\ Queued(j) = {m} /\ Active(j) = {}
    BY <1>2, <2>1 DEF Single
  <2>3. Senders(j)' = {} /\ j \notin Doubled'
    BY <1>1, <1>5, <2>2 DEF Senders, Doubled
  <2>4. Queued(j)' = {}
    BY <1>2, <2>2 DEF Queued
  <2>5. Active(j)' = {r}
    BY <1>1, <1>3, <2>2 DEF Active
  <2>6. Stage(j) = "waiting"
    BY <1>2, <1>5, StageWaiting
  <2>7. Stage(j)' = "waiting"
    BY <1>1, <1>2, <1>3, <2>3, <2>4, <2>5, StageOfRunNext DEF RunStage
  <2>8. Fits(j)'
    <3>1. Reads(new, status[j], model[j])
      BY <1>1, <2>1 DEF Reads, HasRow
    <3>2. QED BY <1>1, <1>3, <2>3, <2>4, <2>5, <3>1 DEF Fits, Single
  <2>9. Lives(j)
    BY <1>1, <1>2, <1>3, <2>6, <2>7, <2>8 DEF Lives, LifeGoesOn, Kept
  <2>10. QED BY <2>9
<1>6. QED BY <1>4, <1>5

\* A run that is not over moves on: what is left to show of it.
LEMMA LivesByRun ==
    ASSUME TypeOK, TypeOK', RunsInv, LivesInv, NEW r \in Runs, NEW j \in Jobs, NEW new,
           run[r].pc \notin {"idle", "done"}, run[r].job = j,
           run' = [run EXCEPT ![r] = new], new.pc # "idle" => new.job = j,
           UNCHANGED <<api, doubled, redelivered>>,
           \A m \in Messages :
               \/ message'[m] = message[m]
               \/ /\ message[m].job = j /\ message'[m].job = j
                  /\ message[m].state # "queued" /\ message'[m].state # "queued",
           \A i \in Jobs \ {j} : status'[i] = status[i] /\ model'[i] = model[i],
           status[j] # "absent" => status'[j] # "absent"
    PROVE  /\ j \in Doubled => Lives(j)
           /\ j \notin Doubled =>
                  /\ Stage(j) = RunStage(run[r]) /\ Stage(j)' = RunStage(new)
                  /\ Reads(run[r], status[j], model[j])
                  /\ LifeGoesOn(j) /\ Reads(new, status'[j], model'[j]) => Lives(j)
<1>1. status[j] # "absent" /\ status'[j] # "absent"
  BY DEF LivesInv, PresentInv
<1>2. OnlyAbout(j) /\ run'[r] = new /\ \A q \in Runs \ {r} : run'[q] = run[q]
  <2>1. run'[r] = new /\ \A q \in Runs \ {r} : run'[q] = run[q]
    BY DEF TypeOK
  <2>2. \A i : i \in Doubled' <=> i \in Doubled
    BY DEF Doubled
  <2>3. QED BY <2>1, <2>2 DEF OnlyAbout
<1>3. ASSUME j \in Doubled PROVE Lives(j)
  BY <1>1, <1>2, <1>3, DoubledGoesOn DEF Lives, Doubled
<1>4. ASSUME j \notin Doubled
      PROVE  /\ Stage(j) = RunStage(run[r]) /\ Stage(j)' = RunStage(new)
             /\ Reads(run[r], status[j], model[j])
             /\ LifeGoesOn(j) /\ Reads(new, status'[j], model'[j]) => Lives(j)
  <2>1. Queued(j)' = Queued(j)
    <3>1. \A m \in Messages : (message'[m].state = "queued" /\ message'[m].job = j) <=>
                              (message[m].state = "queued" /\ message[m].job = j)
      OBVIOUS
    <3>2. QED BY <3>1 DEF Queued
  <2>2. r \in Active(j) /\ Fits(j) /\ j \notin Doubled'
    BY <1>4 DEF Active, LivesInv, Doubled
  <2>3. /\ Stage(j) = RunStage(run[r]) /\ Stage(j)' = RunStage(new)
        /\ Reads(run[r], status[j], model[j])
        /\ Reads(new, status'[j], model'[j]) => Fits(j)'
    BY <1>1, <1>2, <1>4, <2>1, <2>2, SoleRunMoves
  <2>4. QED BY <1>1, <1>2, <2>3 DEF Lives
<1>5. QED BY <1>3, <1>4

\* The same for a step of the run itself.
LEMMA LivesByMove ==
    ASSUME TypeOK, TypeOK', RunsInv, LivesInv, NEW r \in Runs, NEW new,
           run[r].pc \notin {"idle", "done"}, Moves(r, new), new.job = run[r].job,
           message' = message,
           \A i \in Jobs \ {run[r].job} : status'[i] = status[i] /\ model'[i] = model[i],
           status[run[r].job] # "absent" => status'[run[r].job] # "absent",
           \A j \in Jobs : /\ run[r].job = j /\ j \notin Doubled
                           /\ Stage(j) = RunStage(run[r]) /\ Stage(j)' = RunStage(new)
                           /\ Reads(run[r], status[j], model[j])
                           => LifeGoesOn(j) /\ Reads(new, status'[j], model'[j])
    PROVE  \E j \in Jobs : Lives(j)
<1>1. PICK j \in Jobs : j = run[r].job
  BY DEF RunsInv, RunInv
<1>2. run' = [run EXCEPT ![r] = new] /\ UNCHANGED <<api, doubled, redelivered>>
  BY DEF Moves
<1>3. /\ j \in Doubled => Lives(j)
      /\ j \notin Doubled =>
             /\ Stage(j) = RunStage(run[r]) /\ Stage(j)' = RunStage(new)
             /\ Reads(run[r], status[j], model[j])
             /\ LifeGoesOn(j) /\ Reads(new, status'[j], model'[j]) => Lives(j)
  BY <1>1, <1>2, LivesByRun
<1>4. Lives(j)
  BY <1>1, <1>3
<1>5. QED BY <1>4

\* The run looks at the row: a cancelled job is left, and its task over.
LEMMA LivesLoad ==
    ASSUME TypeOK, TypeOK', RunsInv, LivesInv, NEW r \in Runs, LoadJob(r)
    PROVE  \E j \in Jobs : Lives(j)
<1> DEFINE new == [run[r] EXCEPT
                      !.pc = IF Withdrawn(status[run[r].job]) THEN "done" ELSE "loaded",
                      !.seen = status[run[r].job]]
<1>1. /\ run[r].pc = "taken" /\ Moves(r, new) /\ UNCHANGED <<status, model, message>>
  BY DEF LoadJob
<1>2. /\ new.job = run[r].job /\ new.seen = status[run[r].job]
      /\ new.pc = IF status[run[r].job] = "cancelled" THEN "done" ELSE "loaded"
  BY DEF TypeOK, Run, Withdrawn
<1> HIDE DEF new
<1>3. ASSUME NEW j \in Jobs, run[r].job = j, Stage(j) = RunStage(run[r]),
             Stage(j)' = RunStage(new), Reads(run[r], status[j], model[j])
      PROVE  LifeGoesOn(j) /\ Reads(new, status'[j], model'[j])
  BY <1>1, <1>2, <1>3 DEF LifeGoesOn, Kept, Reads, RunStage, HasRow
<1>4. QED BY <1>1, <1>2, <1>3, LivesByMove

\* "running" is committed over what was "queued" when the run looked.
LEMMA LivesStart ==
    ASSUME TypeOK, TypeOK', RunsInv, LivesInv, NEW r \in Runs, StartTraining(r)
    PROVE  \E j \in Jobs : Lives(j)
<1> DEFINE new == [run[r] EXCEPT !.pc = "started"]
<1>1. /\ run[r].pc = "loaded" /\ Moves(r, new) /\ UNCHANGED <<model, message>>
      /\ status' = [status EXCEPT ![run[r].job] = Written(@, run[r].seen, "running")]
  BY DEF StartTraining
<1>2. new.job = run[r].job /\ new.pc = "started" /\ run[r].job \in Jobs
  BY <1>1 DEF TypeOK, Run, RunsInv, RunInv
<1> HIDE DEF new
<1>3. /\ \A i \in Jobs \ {run[r].job} : status'[i] = status[i] /\ model'[i] = model[i]
      /\ status'[run[r].job] = Written(status[run[r].job], run[r].seen, "running")
  BY <1>1, <1>2 DEF TypeOK
<1>4. ASSUME NEW j \in Jobs, run[r].job = j, Stage(j) = RunStage(run[r]),
             Stage(j)' = RunStage(new), Reads(run[r], status[j], model[j])
      PROVE  LifeGoesOn(j) /\ Reads(new, status'[j], model'[j])
  <2>1. run[r].seen = "queued" /\ status'[j] = "running" /\ model'[j] = model[j]
    BY <1>1, <1>3, <1>4 DEF Reads, Written
  <2>2. QED BY <1>1, <1>2, <1>4, <2>1 DEF LifeGoesOn, Reads, RunStage, HasRow
<1>5. status[run[r].job] # "absent" => status'[run[r].job] # "absent"
  BY <1>3 DEF Written
<1>6. QED BY <1>1, <1>2, <1>3, <1>4, <1>5, LivesByMove

\* The row is read again: a cancellation it shows ends the training.
LEMMA LivesReload ==
    ASSUME TypeOK, TypeOK', RunsInv, LivesInv, NEW r \in Runs, ReloadJob(r)
    PROVE  \E j \in Jobs : Lives(j)
<1> DEFINE new == [run[r] EXCEPT !.pc = "training", !.seen = status[run[r].job],
                                 !.had = model[run[r].job]]
<1>1. /\ run[r].pc \in {"started", "training"} /\ Moves(r, new)
      /\ UNCHANGED <<status, model, message>>
  BY DEF ReloadJob
<1>2. /\ new.job = run[r].job /\ new.pc = "training"
      /\ new.seen = status[run[r].job] /\ new.had = model[run[r].job]
  BY DEF TypeOK, Run
<1> HIDE DEF new
<1>3. ASSUME NEW j \in Jobs, run[r].job = j, Stage(j) = RunStage(run[r]),
             Stage(j)' = RunStage(new), Reads(run[r], status[j], model[j])
      PROVE  LifeGoesOn(j) /\ Reads(new, status'[j], model'[j])
  BY <1>1, <1>2, <1>3 DEF LifeGoesOn, Kept, Reads, RunStage, HasRow
<1>4. QED BY <1>1, <1>2, <1>3, LivesByMove

\* Training ends, and says nothing to the row yet.
LEMMA LivesTrain ==
    ASSUME TypeOK, TypeOK', RunsInv, LivesInv, NEW r \in Runs, TrainModel(r)
    PROVE  \E j \in Jobs : Lives(j)
<1>1. /\ run[r].pc = "training" /\ UNCHANGED <<status, model, message>>
      /\ \E o \in {"completed", "failed"} :
             Moves(r, [run[r] EXCEPT !.pc = "trained", !.outcome = o])
  BY DEF TrainModel
<1>2. PICK o \in {"completed", "failed"} :
          Moves(r, [run[r] EXCEPT !.pc = "trained", !.outcome = o])
  BY <1>1
<1> DEFINE new == [run[r] EXCEPT !.pc = "trained", !.outcome = o]
<1>3. /\ new.job = run[r].job /\ new.pc = "trained" /\ new.seen = run[r].seen
      /\ new.had = run[r].had /\ Moves(r, new)
  BY <1>2 DEF TypeOK, Run
<1> HIDE DEF new
<1>4. ASSUME NEW j \in Jobs, run[r].job = j, Stage(j) = RunStage(run[r]),
             Stage(j)' = RunStage(new), Reads(run[r], status[j], model[j])
      PROVE  LifeGoesOn(j) /\ Reads(new, status'[j], model'[j])
  BY <1>1, <1>3, <1>4 DEF LifeGoesOn, Kept, Reads, RunStage, HasRow
<1>5. QED BY <1>1, <1>3, <1>4, LivesByMove

\* The race guard lets a run go on only if its job is still "running".
LEMMA LivesGuard ==
    ASSUME TypeOK, TypeOK', RunsInv, LivesInv, NEW r \in Runs, GuardStatus(r)
    PROVE  \E j \in Jobs : Lives(j)
<1> DEFINE new == [run[r] EXCEPT
                      !.pc = IF Withdrawn(status[run[r].job]) THEN "done" ELSE "guarded"]
<1>1. /\ run[r].pc = "trained" /\ Moves(r, new) /\ UNCHANGED <<status, model, message>>
  BY DEF GuardStatus
<1>2. /\ new.job = run[r].job /\ new.seen = run[r].seen /\ new.had = run[r].had
      /\ new.pc = IF status[run[r].job] = "cancelled" THEN "done" ELSE "guarded"
  BY DEF TypeOK, Run, Withdrawn
<1> HIDE DEF new
<1>3. ASSUME NEW j \in Jobs, run[r].job = j, Stage(j) = RunStage(run[r]),
             Stage(j)' = RunStage(new), Reads(run[r], status[j], model[j])
      PROVE  LifeGoesOn(j) /\ Reads(new, status'[j], model'[j])
  BY <1>1, <1>2, <1>3 DEF LifeGoesOn, Kept, Reads, RunStage, HasRow
<1>4. QED BY <1>1, <1>2, <1>3, LivesByMove

\* The outcome is written, with the path of the model if there is one.
LEMMA LivesCommit ==
    ASSUME TypeOK, TypeOK', RunsInv, LivesInv, NEW r \in Runs, CommitOutcome(r)
    PROVE  \E j \in Jobs : Lives(j)
<1> DEFINE new == [run[r] EXCEPT !.pc = "done"]
<1>1. /\ run[r].pc = "guarded" /\ Moves(r, new) /\ UNCHANGED message
      /\ status' = [status EXCEPT ![run[r].job] = Written(@, run[r].seen, run[r].outcome)]
      /\ model' = [model EXCEPT ![run[r].job] = ModelAfter(r)]
  BY DEF CommitOutcome
<1>2. /\ new.job = run[r].job /\ new.pc = "done" /\ run[r].job \in Jobs
      /\ run[r].outcome \in {"completed", "failed"}
  BY <1>1 DEF TypeOK, Run, RunsInv, RunInv
<1> HIDE DEF new
<1>3. /\ \A i \in Jobs \ {run[r].job} : status'[i] = status[i] /\ model'[i] = model[i]
      /\ status'[run[r].job] = Written(status[run[r].job], run[r].seen, run[r].outcome)
      /\ model'[run[r].job] = ModelAfter(r)
  BY <1>1, <1>2 DEF TypeOK
<1>4. ASSUME NEW j \in Jobs, run[r].job = j, Stage(j) = RunStage(run[r]),
             Stage(j)' = RunStage(new), Reads(run[r], status[j], model[j])
      PROVE  LifeGoesOn(j) /\ Reads(new, status'[j], model'[j])
  <2>1. run[r].seen = "running" /\ (run[r].had => model[j])
    BY <1>1, <1>4 DEF Reads, HasRow
  <2>2. status'[j] = run[r].outcome
    BY <1>2, <1>3, <1>4, <2>1 DEF Written
  <2>3. run[r].outcome = "completed" => model'[j] = TRUE
    <3>1. model[j] \in BOOLEAN /\ run[r].had \in BOOLEAN
      BY DEF TypeOK, Run
    <3>2. QED BY <1>3, <1>4, <2>1, <3>1 DEF ModelAfter, Written
  <2>4. run[r].outcome = "failed" => model'[j] = model[j]
    BY <1>3, <1>4 DEF ModelAfter
  <2>5. Stage(j) = "ending" /\ Stage(j)' = "over"
    BY <1>1, <1>2, <1>4 DEF RunStage
  <2>6. LifeGoesOn(j)
    BY <1>2, <2>2, <2>3, <2>4, <2>5 DEF LifeGoesOn
  <2>7. QED BY <1>2, <2>6 DEF Reads, HasRow
<1>5. status[run[r].job] # "absent" => status'[run[r].job] # "absent"
  BY <1>2, <1>3 DEF Written
<1>6. QED BY <1>1, <1>2, <1>3, <1>4, <1>5, LivesByMove

\* A task that is over leaves the broker's queue as it is.
LEMMA AckedIsClaimed ==
    ASSUME TypeOK, RunsInv, NEW r \in Runs, message' = Acked(r), NEW m \in Messages
    PROVE  \/ message'[m] = message[m]
           \/ /\ message[m].job = run[r].job /\ message'[m].job = run[r].job
              /\ message[m].state # "queued" /\ message'[m].state # "queued"
<1>1. CASE run[r].attached
  <2>1. /\ run[r].msg \in Messages /\ message[run[r].msg].state = "claimed"
        /\ message[run[r].msg].job = run[r].job
    BY <1>1 DEF RunsInv, RunInv
  <2>2. message' = [message EXCEPT ![run[r].msg].state = "acked"]
    BY <1>1 DEF Acked
  <2>3. CASE m = run[r].msg
    <3>1. message'[m].state = "acked" /\ message'[m].job = message[m].job
      BY <2>2, <2>3 DEF TypeOK, Message
    <3>2. QED BY <2>1, <2>3, <3>1
  <2>4. CASE m # run[r].msg
    BY <2>2, <2>4 DEF TypeOK
  <2>5. QED BY <2>3, <2>4
<1>2. CASE ~run[r].attached
  BY <1>2 DEF Acked
<1>3. QED BY <1>1, <1>2

\* A run goes, or loses its worker.
LEMMA LivesByEnd ==
    ASSUME TypeOK, TypeOK', RunsInv, LivesInv, NEW r \in Runs, NEW left,
           run[r].pc # "idle", left = NoRun \/ left = [run[r] EXCEPT !.attached = FALSE],
           run' = [run EXCEPT ![r] = left], message' = Acked(r),
           UNCHANGED <<status, model, api, doubled, redelivered>>
    PROVE  \E j \in Jobs : Lives(j)
<1>1. PICK j \in Jobs : j = run[r].job
  BY DEF RunsInv, RunInv
<1>2. \/ left.pc = "idle"
      \/ left.pc = run[r].pc /\ left.seen = run[r].seen /\ left.had = run[r].had /\ left.job = j
  BY <1>1 DEF TypeOK, Run, NoRun
<1>3. \A m \in Messages :
          \/ message'[m] = message[m]
          \/ /\ message[m].job = j /\ message'[m].job = j
             /\ message[m].state # "queued" /\ message'[m].state # "queued"
  BY <1>1, AckedIsClaimed
<1>4. run'[r] = left /\ \A q \in Runs \ {r} : run'[q] = run[q]
  BY DEF TypeOK
<1>5. CASE run[r].pc = "done"
  <2>1. OnlyAbout(j)
    BY <1>1, <1>2, <1>3, <1>4 DEF OnlyAbout, Doubled
  <2>2. Queued(j)' = Queued(j)
    <3>1. \A m \in Messages : (message'[m].state = "queued" /\ message'[m].job = j) <=>
                              (message[m].state = "queued" /\ message[m].job = j)
      BY <1>3
    <3>2. QED BY <3>1 DEF Queued
  <2>3. run'[r].pc \in {"idle", "done"} /\ Fits(j)
    BY <1>2, <1>4, <1>5 DEF LivesInv
  <2>4. Stage(j)' = Stage(j) /\ Fits(j)'
    BY <1>4, <1>5, <2>2, <2>3, EndedRunGoes
  <2>5. status'[j] # "absent"
    BY <1>1 DEF LivesInv, PresentInv
  <2>6. QED BY <2>1, <2>4, <2>5 DEF Lives, LifeGoesOn, Kept
<1>6. CASE run[r].pc # "done"
  <2>1. /\ j \in Doubled => Lives(j)
        /\ j \notin Doubled =>
               /\ Stage(j) = RunStage(run[r]) /\ Stage(j)' = RunStage(left)
               /\ Reads(run[r], status[j], model[j])
               /\ LifeGoesOn(j) /\ Reads(left, status'[j], model'[j]) => Lives(j)
    <3>1. run[r].pc \notin {"idle", "done"} /\ (left.pc # "idle" => left.job = j)
      BY <1>2, <1>6
    <3>2. QED BY <1>1, <1>3, <3>1, LivesByRun
  <2>2. ASSUME j \notin Doubled PROVE Lives(j)
    <3>1. Reads(left, status'[j], model'[j])
      BY <1>2, <2>1, <2>2 DEF Reads, HasRow
    <3>2. Stage(j)' = Stage(j) \/ Stage(j)' = "over"
      BY <1>2, <2>1, <2>2 DEF RunStage
    <3>3. Stage(j) \in {"waiting", "looked", "training", "ending", "over"}
      BY <2>1, <2>2 DEF RunStage
    <3>4. LifeGoesOn(j)
      BY <3>2, <3>3 DEF LifeGoesOn, Kept
    <3>5. QED BY <2>1, <2>2, <3>1, <3>4
  <2>3. QED BY <2>1, <2>2
<1>7. QED BY <1>5, <1>6

\* A task that ends, or whose run fails, leaves the row as it is.
LEMMA LivesFinish ==
    ASSUME TypeOK, TypeOK', RunsInv, LivesInv, NEW r \in Runs,
           FinishTask(r) \/ RunFails(r)
    PROVE  \E j \in Jobs : Lives(j)
<1>1. /\ run[r].pc # "idle" /\ run' = [run EXCEPT ![r] = NoRun] /\ message' = Acked(r)
      /\ UNCHANGED <<status, model, api, doubled, redelivered>>
  BY DEF FinishTask, RunFails, Moves
<1>2. QED BY <1>1, LivesByEnd

\* A revoked task is killed: nothing, or a container, is left of its run.
LEMMA LivesKill ==
    ASSUME TypeOK, TypeOK', RunsInv, LivesInv, NEW r \in Runs, KillRevoked(r)
    PROVE  \E j \in Jobs : Lives(j)
<1>1. PICK left \in Remains(r) : run' = [run EXCEPT ![r] = left]
  BY DEF KillRevoked
<1>2. left = NoRun \/ left = [run[r] EXCEPT !.attached = FALSE]
  BY DEF Remains
<1>3. /\ run[r].pc # "idle" /\ message' = Acked(r)
      /\ UNCHANGED <<status, model, api, doubled, redelivered>>
  BY DEF KillRevoked, row
<1>4. QED BY <1>1, <1>2, <1>3, LivesByEnd

\* The worker's task is redelivered, next to what it leaves behind.
LEMMA LivesLost ==
    ASSUME TypeOK, TypeOK', RunsInv, LivesInv, NEW r \in Runs, WorkerLost(r)
    PROVE  \E j \in Jobs : Lives(j)
<1>1. PICK left \in Remains(r) : run' = [run EXCEPT ![r] = left]
  BY DEF WorkerLost
<1>2. PICK j \in Jobs : j = run[r].job
  BY DEF WorkerLost, RunsInv, RunInv
<1>3. left.pc = "idle" \/ left.job = j
  BY <1>2 DEF Remains, NoRun, TypeOK, Run
<1>4. /\ run[r].pc # "idle" /\ run[r].attached
      /\ message' = [message EXCEPT ![run[r].msg].state = "queued"]
      /\ redelivered' = redelivered \cup {j}
      /\ UNCHANGED <<status, model, api, doubled>>
  BY <1>2 DEF WorkerLost, AfterLoss, row
<1>5. run'[r] = left /\ \A q \in Runs \ {r} : run'[q] = run[q]
  BY <1>1 DEF TypeOK
<1>6. /\ message'[run[r].msg].job = j /\ message[run[r].msg].job = j
      /\ \A n \in Messages \ {run[r].msg} : message'[n] = message[n]
  BY <1>2, <1>4 DEF TypeOK, Message, RunsInv, RunInv
<1>7. OnlyAbout(j)
  BY <1>2, <1>3, <1>4, <1>5, <1>6 DEF OnlyAbout, Doubled
<1>8. status[j] # "absent" /\ status'[j] # "absent" /\ j \in Doubled'
  BY <1>2, <1>4 DEF LivesInv, PresentInv, Doubled
<1>9. Lives(j)
  BY <1>7, <1>8, DoubledGoesOn DEF Lives
<1>10. QED BY <1>9

\* A revoked message is dropped: the job's task is over before it began.
LEMMA LivesDrop ==
    ASSUME TypeOK, TypeOK', MessagesInv, LivesInv, NEW m \in Messages, DropRevoked(m)
    PROVE  \E j \in Jobs : Lives(j)
<1>1. PICK j \in Jobs : j = message[m].job
  BY DEF DropRevoked, MessagesInv
<1>2. /\ message[m].state = "queued"
      /\ message' = [message EXCEPT ![m].state = "acked"]
      /\ UNCHANGED <<status, model, api, run, doubled, redelivered>>
  BY DEF DropRevoked, row
<1>3. /\ message'[m].state = "acked" /\ message'[m].job = j
      /\ \A n \in Messages \ {m} : message'[n] = message[n]
  BY <1>1, <1>2 DEF TypeOK, Message
<1>4. status[j] # "absent" /\ status'[j] # "absent" /\ m \in Queued(j)
  BY <1>1, <1>2 DEF LivesInv, PresentInv, Queued
<1>5. OnlyAbout(j)
  BY <1>1, <1>2, <1>3 DEF OnlyAbout, Doubled
<1>6. CASE j \in Doubled
  BY <1>2, <1>4, <1>5, <1>6, DoubledGoesOn DEF Lives, Doubled
<1>7. CASE j \notin Doubled
  <2>1. Senders(j) = {} /\ Queued(j) = {m} /\ Active(j) = {}
    BY <1>4, <1>7 DEF LivesInv, Fits, Single
  <2>2. Senders(j)' = {} /\ Active(j)' = {} /\ j \notin Doubled'
    BY <1>2, <1>7, <2>1 DEF Senders, Active, Doubled
  <2>3. Queued(j)' = {}
    BY <1>3, <2>1 DEF Queued
  <2>4. Stage(j) = "waiting"
    BY <1>4, <1>7, StageWaiting
  <2>5. Stage(j)' = "over"
    BY <1>4, <2>2, <2>3, StageOverNext
  <2>6. Fits(j)'
    BY <2>2, <2>3 DEF Fits, Single
  <2>7. QED BY <1>2, <1>4, <1>5, <2>4, <2>5, <2>6 DEF Lives, LifeGoesOn, Kept
<1>8. QED BY <1>6, <1>7

-----------------------------------------------------------------------------
(* Every step leads the life of a job                                      *)

\* The steps of Next, one by one.
LEMMA LivesOfSteps ==
    ASSUME TrainingInv, TypeOK', LivesInv, Next
    PROVE  \E j \in Jobs : Lives(j)
<1> USE DEF TrainingInv
<1>1. ASSUME NEW s \in Sessions, ApiStep(s) PROVE \E j \in Jobs : Lives(j)
  BY <1>1, LivesOfCalls
<1>2. ASSUME NEW r \in Runs, NEW m \in Messages, TakeMessage(r, m)
      PROVE  \E j \in Jobs : Lives(j)
  BY <1>2, LivesTakes
<1>3. ASSUME NEW r \in Runs, RunStep(r) PROVE \E j \in Jobs : Lives(j)
  BY <1>3, LivesLoad, LivesStart, LivesTrain, LivesGuard, LivesCommit, LivesFinish
     DEF RunStep
<1>4. ASSUME NEW r \in Runs, ReloadJob(r) PROVE \E j \in Jobs : Lives(j)
  BY <1>4, LivesReload
<1>5. ASSUME NEW r \in Runs, WorkerLost(r) \/ KillRevoked(r) \/ RunFails(r)
      PROVE  \E j \in Jobs : Lives(j)
  BY <1>5, LivesLost, LivesKill, LivesFinish
<1>6. ASSUME NEW m \in Messages, DropRevoked(m) PROVE \E j \in Jobs : Lives(j)
  BY <1>6, LivesDrop
<1>7. QED BY <1>1, <1>2, <1>3, <1>4, <1>5, <1>6 DEF Next

\* At first no job has a row, nor a life.
LEMMA LivesInit == Init => LivesInv /\ Life!Init
<1> SUFFICES ASSUME Init PROVE LivesInv /\ Life!Init
  OBVIOUS
<1>1. PresentInv
  BY DEF Init, PresentInv, NoCall, NoRun, Doubled
<1>2. ASSUME NEW j \in Jobs PROVE Fits(j) /\ Stage(j) = "none"
  <2>1. Senders(j) = {} /\ Queued(j) = {} /\ Active(j) = {}
    BY DEF Init, Senders, Queued, Active, NoCall, NoRun
  <2>2. QED BY <2>1 DEF Init, Fits, Single, Stage
<1>3. QED BY <1>1, <1>2 DEF LivesInv, Init, Life!Init

\* Each step is a step of the job's life, or of nothing.
LEMMA LivesStep ==
    TypeOK' /\ TrainingInv /\ LivesInv /\ [Next]_vars =>
        LivesInv' /\ [Life!Next]_(Life!vars)
<1> SUFFICES ASSUME TypeOK', TrainingInv, LivesInv, [Next]_vars
             PROVE  LivesInv' /\ [Life!Next]_(Life!vars)
  OBVIOUS
<1>1. CASE Next
  <2>1. PICK j \in Jobs : Lives(j)
    BY <1>1, LivesOfSteps
  <2>2. PresentInv'
    BY <2>1, PresentKept DEF Lives, LivesInv, TrainingInv
  <2>3. ASSUME NEW i \in Jobs PROVE Fits(i)'
    <3>1. CASE i = j
      BY <2>1, <3>1 DEF Lives
    <3>2. CASE i # j
      <4>1. Apart(i)
        BY <2>1, <3>2, OthersApart DEF Lives
      <4>2. QED BY <4>1, ApartKeeps DEF LivesInv
    <3>3. QED BY <3>1, <3>2
  <2>4. Life!Next \/ UNCHANGED Life!vars
    BY <2>1, LivesLifted DEF Lives, TrainingInv
  <2>5. QED BY <2>2, <2>3, <2>4 DEF LivesInv
<1>2. CASE UNCHANGED vars
  <2>1. UNCHANGED <<status, model, message, api, run, doubled, redelivered>>
    BY <1>2 DEF vars, row, history
  <2>2. \A j \in Jobs : Apart(j)
    BY <2>1 DEF Apart, Doubled, Senders, Queued, Active
  <2>3. \A j \in Jobs : Fits(j)' /\ Stage(j)' = Stage(j)
    BY <2>2, ApartKeeps DEF LivesInv
  <2>4. PresentInv'
    BY <2>1 DEF LivesInv, PresentInv, Doubled
  <2>5. UNCHANGED Life!vars
    BY <2>1, <2>3 DEF Life!vars
  <2>6. QED BY <2>3, <2>4, <2>5 DEF LivesInv
<1>3. QED BY <1>1, <1>2

\* The invariant the refinement rests on holds throughout.
LEMMA LivesInvHolds == Spec => []LivesInv
<1>1. TypeOK' /\ TrainingInv /\ LivesInv /\ [Next]_vars => LivesInv'
  BY LivesStep
<1>2. TrainingInv => TypeOK
  BY DEF TrainingInv
<1>3. QED BY <1>1, <1>2, LivesInit, TrainingInvHolds, PTL DEF Spec

\* Calls, workers, losses, kills and redeliveries of TrainingJob implement JobLife:
\* what RefinesJobLife says of create_job, cancel_job, retry_job and train_model holds
\* for any number of jobs, calls, messages and runs.
THEOREM LivesAreLed == Spec => RefinesJobLife
<1>1. Init => Life!Init
  BY LivesInit
<1>2. TypeOK' /\ TrainingInv /\ LivesInv /\ [Next]_vars => [Life!Next]_(Life!vars)
  BY LivesStep
<1>3. TrainingInv => TypeOK
  BY DEF TrainingInv
<1>4. QED
  BY <1>1, <1>2, <1>3, TrainingInvHolds, LivesInvHolds, PTL
     DEF Spec, RefinesJobLife, Life!Spec

=============================================================================
