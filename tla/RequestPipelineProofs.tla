------------------------- MODULE RequestPipelineProofs -------------------------
(***************************************************************************)
(* Proofs about RequestPipeline, for every set of requests, approvals,     *)
(* messages, sessions and workers and every bound on crashes; then about   *)
(* Screening, for every set of policies, use cases, providers, calls,      *)
(* terms and prompts: its own invariant, and that the pipeline keeps what  *)
(* it promises with administrators, the firewall and chats around it.      *)
(***************************************************************************)
EXTENDS Screening, SequenceTheorems, TLAPS


\* Every value a record or a status column can take.
LEMMA Constants ==
    /\ Idle \in Handler
    /\ NoRun \in Run
    /\ \A r \in Requests : Sending(r) \in Handler
    /\ \A t \in Texts : ToSend(t) \in Sent
    /\ \A o \in {"none", "answer", "provider_error", "exception"} :
           OutcomeStatus(o) \in Status /\ AfterTask(o) \in {"queued", "acked"}
    /\ \A f : StoredText(f) \in Texts
BY DEF Idle, Handler, NoRun, Run, Sending, Texts, ToSend, Sent, Status,
       OutcomeStatus, AfterTask, StoredText

LEMMA TypeInit == Init => TypeOK
BY Constants DEF Init, TypeOK, ApprovalRow, Message, Status, Texts

\* The API handlers keep the types.
LEMMA TypeApiStep ==
    ASSUME TypeOK, HandlersInv, NEW s \in Sessions, ApiStep(s)
    PROVE  TypeOK'
<1> USE Constants DEF TypeOK
<1>1. ASSUME NEW r \in Requests, CreateRequest(s, r) PROVE TypeOK'
  BY <1>1 DEF CreateRequest, Status
<1>2. ASSUME NEW m \in Messages, SendTask(s, m) PROVE TypeOK'
  BY <1>2 DEF SendTask, Message, Handler
<1>3. CASE AbandonCall(s)
  BY <1>3 DEF AbandonCall
<1>4. ASSUME NEW r \in Requests, OpenSubmission(s, r) PROVE TypeOK'
  BY <1>4 DEF OpenSubmission, Handler, Idle
<1>5. ASSUME NEW a \in Approvals, CommitSubmission(s, a) PROVE TypeOK'
  BY <1>5 DEF CommitSubmission, Written, ApprovalRow, Handler, Status
<1>6. ASSUME NEW a \in Approvals, NEW d \in Decisions, OpenDecision(s, a, d)
      PROVE  TypeOK'
  BY <1>6 DEF OpenDecision, ApprovalRow, Handler, Idle
<1>7. CASE LoadDecidedRequest(s)
  BY <1>7 DEF LoadDecidedRequest, Handler, HandlersInv
<1>8. CASE CommitDecision(s)
  <2>1. api[s].req \in Requests /\ api[s].verb \in Decisions
    BY <1>8 DEF CommitDecision, HandlersInv
  <2>2. QED
    BY <1>8, <2>1 DEF CommitDecision, Written, ApprovalRow, Status, Outcome
<1>9. ASSUME NEW r \in Requests, NEW kind \in Overrides, OpenOverride(s, r, kind)
      PROVE  TypeOK'
  BY <1>9 DEF OpenOverride, Handler, Idle
<1>10. CASE CommitOverride(s)
  BY <1>10 DEF CommitOverride, Texts, Status
<1>11. QED
  BY <1>1, <1>2, <1>3, <1>4, <1>5, <1>6, <1>7, <1>8, <1>9, <1>10 DEF ApiStep, ServedStep

\* The runs a worker goes through.
LEMMA AnsweredIsRun ==
    ASSUME NEW old \in Run, NEW o \in {"answer", "provider_error", "exception"}
    PROVE  [old EXCEPT !.pc = "answered", !.sends = "placeholder",
                       !.outcome = o] \in Run
BY DEF Run, Sent

LEMMA CommittedIsRun ==
    ASSUME NEW old \in Run
    PROVE  [old EXCEPT !.pc = "committed", !.seen = "absent"] \in Run
BY DEF Run, Status

LEMMA WorkerTypes ==
    ASSUME worker \in [Workers -> Run], NEW w \in Workers, NEW new \in Run,
           worker' = [worker EXCEPT ![w] = new]
    PROVE  worker' \in [Workers -> Run]
OBVIOUS

\* The workers keep the types.
LEMMA TypeWorkerStep ==
    ASSUME TypeOK, MessagesInv, RunsInv, NEW w \in Workers, WorkerStep(w)
    PROVE  TypeOK'
<1> USE Constants DEF TypeOK
<1>r. worker[w].pc # "idle" =>
          /\ worker[w].msg \in Messages
          /\ message[worker[w].msg].req \in released
  BY DEF RunsInv, MessagesInv
<1>o. /\ worker[w].outcome \in {"none", "answer", "provider_error", "exception"}
      /\ worker[w] \in Run
  BY DEF Run
<1>1. ASSUME NEW m \in Messages, TakeMessage(w, m) PROVE TypeOK'
  <2>1. message[m].req \in Requests
    BY <1>1 DEF TakeMessage, MessagesInv
  <2>2. QED BY <1>1, <2>1 DEF TakeMessage, Message, Run
<1>2. CASE CallProvider(w)
  <2>1. PICK o \in {"answer", "provider_error", "exception"} :
            worker' = [worker EXCEPT ![w] =
                         [@ EXCEPT !.pc = "answered", !.sends = "placeholder",
                                   !.outcome = o]]
    BY <1>2 DEF CallProvider
  <2>2. worker' \in [Workers -> Run]
    BY <1>o, <2>1, AnsweredIsRun, WorkerTypes
  <2>3. calls' \subseteq Call
    BY <1>2, <1>r DEF CallProvider, Run, Call
  <2>4. QED BY <1>2, <2>2, <2>3 DEF CallProvider
<1>3. CASE SkipProvider(w)
  <2>1. PICK o \in {"answer", "exception"} :
            worker' = [worker EXCEPT ![w] =
                         [@ EXCEPT !.pc = "answered", !.sends = "placeholder",
                                   !.outcome = o]]
    BY <1>3 DEF SkipProvider
  <2>2. worker' \in [Workers -> Run]
    BY <1>o, <2>1, AnsweredIsRun, WorkerTypes
  <2>3. QED BY <1>3, <2>2 DEF SkipProvider
<1>4. CASE CommitAnswer(w)
  <2>1. OutcomeStatus(worker[w].outcome) \in Status
    BY <1>o
  <2>2. worker' \in [Workers -> Run]
    BY <1>o, <1>4, CommittedIsRun, WorkerTypes DEF CommitAnswer
  <2>5. status' \in [Requests -> Status]
    BY <1>4, <2>1 DEF CommitAnswer, Written
  <2>3. rows' \in [Messages -> Nat]
    BY <1>4 DEF CommitAnswer
  <2>4. QED BY <1>4, <2>2, <2>3, <2>5 DEF CommitAnswer
<1>5. CASE AckMessage(w)
  <2>1. AfterTask(worker[w].outcome) \in {"queued", "acked"}
    BY <1>o
  <2>2. message' \in [Messages -> Message]
    BY <1>5, <2>1 DEF AckMessage, Message
  <2>3. QED BY <1>5, <2>2 DEF AckMessage
<1>6. CASE WorkerLost(w)
  <2>1. message' \in [Messages -> Message]
    BY <1>6 DEF WorkerLost, AfterLoss, Message
  <2>2. crashes' \in Nat
    BY <1>6 DEF WorkerLost
  <2>3. QED BY <1>6, <2>1, <2>2 DEF WorkerLost
<1>7. QED
  BY <1>1, <1>2, <1>3, <1>4, <1>5, <1>6 DEF WorkerStep

-----------------------------------------------------------------------------
(* What no step undoes                                                     *)

\* Once a row exists it keeps existing, what was released stays released, the
\* firewall's verdict on an existing request stays, and a message that was
\* sent keeps its request.
Persistence ==
    /\ \A r \in Requests : status[r] # "absent" =>
           /\ status'[r] # "absent"
           /\ flags'[r] = flags[r]
    /\ released \subseteq released'
    /\ \A m \in Messages : message[m].state # "unsent" =>
           /\ message'[m].req = message[m].req
           /\ message'[m].state # "unsent"

LEMMA ApiPersistence ==
    ASSUME TypeOK, HandlersInv, NEW s \in Sessions, ApiStep(s)
    PROVE  Persistence
<1> USE DEF TypeOK, Persistence
<1>1. ASSUME NEW r \in Requests, CreateRequest(s, r) PROVE Persistence
  BY <1>1 DEF CreateRequest
<1>2. ASSUME NEW m \in Messages, SendTask(s, m) PROVE Persistence
  BY <1>2 DEF SendTask, Message
<1>3. CASE AbandonCall(s)
  BY <1>3 DEF AbandonCall
<1>4. ASSUME NEW r \in Requests, OpenSubmission(s, r) PROVE Persistence
  BY <1>4 DEF OpenSubmission
<1>5. ASSUME NEW a \in Approvals, CommitSubmission(s, a) PROVE Persistence
  BY <1>5 DEF CommitSubmission, Written
<1>6. ASSUME NEW a \in Approvals, NEW d \in Decisions, OpenDecision(s, a, d)
      PROVE  Persistence
  BY <1>6 DEF OpenDecision
<1>7. CASE LoadDecidedRequest(s)
  BY <1>7 DEF LoadDecidedRequest
<1>8. CASE CommitDecision(s)
  <2>1. api[s].verb \in Decisions
    BY <1>8 DEF CommitDecision, HandlersInv
  <2>2. QED BY <1>8, <2>1 DEF CommitDecision, Written, Outcome
<1>9. ASSUME NEW r \in Requests, NEW kind \in Overrides, OpenOverride(s, r, kind)
      PROVE  Persistence
  BY <1>9 DEF OpenOverride
<1>10. CASE CommitOverride(s)
  BY <1>10 DEF CommitOverride
<1>11. QED
  BY <1>1, <1>2, <1>3, <1>4, <1>5, <1>6, <1>7, <1>8, <1>9, <1>10 DEF ApiStep, ServedStep

LEMMA WorkerPersistence ==
    ASSUME TypeOK, RunsInv, NEW w \in Workers, WorkerStep(w)
    PROVE  Persistence
<1> USE DEF TypeOK, Persistence
<1>1. ASSUME NEW m \in Messages, TakeMessage(w, m) PROVE Persistence
  BY <1>1 DEF TakeMessage, Message
<1>2. CASE CallProvider(w)
  BY <1>2 DEF CallProvider
<1>3. CASE SkipProvider(w)
  BY <1>3 DEF SkipProvider
<1>4. CASE CommitAnswer(w)
  BY <1>4 DEF CommitAnswer, Written, OutcomeStatus
<1>5. CASE AckMessage(w)
  BY <1>5 DEF AckMessage, AfterTask, Message
<1>6. CASE WorkerLost(w)
  BY <1>6 DEF WorkerLost, AfterLoss, Message
<1>7. QED
  BY <1>1, <1>2, <1>3, <1>4, <1>5, <1>6 DEF WorkerStep

-----------------------------------------------------------------------------
(* The inductive invariant                                                 *)

LEMMA InvInit == Init => ReleaseInv
BY NullsAreNotRows, MaxCrashesIsNat
   DEF Init, ReleaseInv, HandlersInv, RowsInv, MessagesInv, RunsInv,
       CallsAreReleased, BlockedTextStaysHere, Idle, NoRun

\* The handlers' part.  Only a session's own step changes its record.
LEMMA HandlersStep ==
    ASSUME TypeOK, ReleaseInv, NEW s \in Sessions, ApiStep(s)
    PROVE  HandlersInv'
<1> USE DEF TypeOK
<1>p. Persistence
  BY ApiPersistence DEF ReleaseInv
<1>q. /\ HandlersInv
      /\ RowsInv
  BY DEF ReleaseInv
<1>o. \A t \in Sessions : t # s => api'[t] = api[t]
  BY DEF ApiStep, ServedStep, CreateRequest, SendTask, AbandonCall, OpenSubmission,
         CommitSubmission, OpenDecision, LoadDecidedRequest, CommitDecision,
         OpenOverride, CommitOverride
<1>f. SUFFICES /\ api'[s].pc # "idle" => /\ api'[s].req \in Requests
                                        /\ status'[api'[s].req] # "absent"
               /\ api'[s].pc = "sending" => api'[s].req \in released'
               /\ api'[s].pc \in {"deciding", "decided"} =>
                      /\ api'[s].appr \in Approvals
                      /\ api'[s].verb \in Decisions
  BY <1>p, <1>q, <1>o DEF HandlersInv, Persistence
<1> DEFINE Goal ==
        /\ api'[s].pc # "idle" => /\ api'[s].req \in Requests
                                  /\ status'[api'[s].req] # "absent"
        /\ api'[s].pc = "sending" => api'[s].req \in released'
        /\ api'[s].pc \in {"deciding", "decided"} =>
               /\ api'[s].appr \in Approvals
               /\ api'[s].verb \in Decisions
<1>1. ASSUME NEW r \in Requests, CreateRequest(s, r) PROVE Goal
  BY <1>1 DEF CreateRequest, SentAtOnce, Sending, Idle
<1>2. ASSUME NEW m \in Messages, SendTask(s, m) PROVE Goal
  BY <1>2 DEF SendTask, Idle
<1>3. CASE AbandonCall(s)
  BY <1>3 DEF AbandonCall, Idle
<1>4. ASSUME NEW r \in Requests, OpenSubmission(s, r) PROVE Goal
  BY <1>4 DEF OpenSubmission, Idle
<1>5. ASSUME NEW a \in Approvals, CommitSubmission(s, a) PROVE Goal
  BY <1>5 DEF CommitSubmission, Idle
<1>6. ASSUME NEW a \in Approvals, NEW d \in Decisions, OpenDecision(s, a, d)
      PROVE  Goal
  <2>1. approval[a].req \in Requests /\ status[approval[a].req] # "absent"
    BY <1>6, <1>q DEF OpenDecision, RowsInv, ApprovalRow
  <2>2. QED BY <1>6, <2>1 DEF OpenDecision, Idle
<1>7. CASE LoadDecidedRequest(s)
  <2>1. api'[s] = [api[s] EXCEPT !.pc = "decided", !.seen = status[api[s].req]]
    BY <1>7 DEF LoadDecidedRequest
  <2>2. /\ api'[s].req = api[s].req
        /\ api'[s].pc = "decided"
        /\ api'[s].verb = api[s].verb
        /\ api'[s].appr = api[s].appr
    BY <2>1 DEF Handler
  <2>3. QED BY <1>7, <1>q, <2>2 DEF LoadDecidedRequest, HandlersInv
<1>8. CASE CommitDecision(s)
  <2>1. /\ api[s].req \in Requests
        /\ status'[api[s].req] # "absent"
    BY <1>8, <1>p, <1>q DEF CommitDecision, HandlersInv, Persistence
  <2>2. QED BY <1>8, <2>1 DEF CommitDecision, DecisionSends, Sending, Idle
<1>9. ASSUME NEW r \in Requests, NEW kind \in Overrides, OpenOverride(s, r, kind)
      PROVE  Goal
  BY <1>9 DEF OpenOverride, Overridable, Idle
<1>10. CASE CommitOverride(s)
  BY <1>10 DEF CommitOverride, Idle
<1>11. QED
  BY <1>1, <1>2, <1>3, <1>4, <1>5, <1>6, <1>7, <1>8, <1>9, <1>10 DEF ApiStep, ServedStep

\* The other parts under a handler's step: it leaves the workers' variables
\* alone, and messages except the one it sends.
LEMMA ApiStepInv ==
    ASSUME TypeOK, ReleaseInv, NEW s \in Sessions, ApiStep(s)
    PROVE  /\ RowsInv'
           /\ MessagesInv'
           /\ RunsInv'
           /\ CallsAreReleased'
           /\ BlockedTextStaysHere'
<1> USE DEF TypeOK
<1>p. Persistence
  BY ApiPersistence DEF ReleaseInv
<1>q. /\ HandlersInv
      /\ RowsInv
      /\ MessagesInv
      /\ RunsInv
      /\ CallsAreReleased
      /\ BlockedTextStaysHere
  BY DEF ReleaseInv
<1>w. UNCHANGED <<rows, worker, calls, crashes>>
  BY DEF ApiStep, ServedStep, CreateRequest, SendTask, AbandonCall, OpenSubmission,
         CommitSubmission, OpenDecision, LoadDecidedRequest, CommitDecision,
         OpenOverride, CommitOverride
<1>m. \/ UNCHANGED message
      \/ \E m \in Messages : SendTask(s, m)
  BY DEF ApiStep, ServedStep, CreateRequest, SendTask, AbandonCall, OpenSubmission,
         CommitSubmission, OpenDecision, LoadDecidedRequest, CommitDecision,
         OpenOverride, CommitOverride
<1>1. RowsInv'
  <2>1. ASSUME NEW r \in Requests, CreateRequest(s, r) PROVE RowsInv'
    BY <2>1, <1>q DEF CreateRequest, RowsInv, StoredText, ApprovalRow
  <2>2. ASSUME NEW a \in Approvals, CommitSubmission(s, a) PROVE RowsInv'
    <3>1. api[s].req \in Requests /\ status[api[s].req] # "absent"
      BY <2>2, <1>q DEF CommitSubmission, HandlersInv
    <3>2. QED BY <2>2, <3>1, <1>q DEF CommitSubmission, RowsInv, Written, ApprovalRow
  <2>3. CASE CommitDecision(s)
    <3>1. /\ api[s].req \in Requests /\ status[api[s].req] # "absent"
          /\ api[s].verb \in Decisions
          /\ api[s].appr \in Approvals
      BY <2>3, <1>q DEF CommitDecision, HandlersInv
    <3>2. \A a \in Approvals : approval'[a].req = approval[a].req
      BY <2>3, <3>1 DEF CommitDecision, ApprovalRow
    <3>3. \A r \in Requests : status'[r] = "absent" =>
              status[r] = "absent" /\ r # api[s].req
      BY <1>p, <3>1 DEF Persistence
    <3>4. released' \subseteq released \cup {api[s].req}
          /\ UNCHANGED <<prompt, flags>>
      BY <2>3 DEF CommitDecision
    <3>5. \A a \in Approvals : approval[a].req # NoRequest =>
              approval[a].req \in Requests
      BY DEF ApprovalRow
    <3>6. QED BY <3>2, <3>3, <3>4, <3>5, <1>p, <1>q DEF RowsInv, Persistence
  <2>4. CASE CommitOverride(s)
    BY <2>4, <1>q, <1>p DEF CommitOverride, RowsInv, HandlersInv, ApprovalRow
  <2>5. CASE UNCHANGED <<status, prompt, flags, approval, released>>
    BY <2>5, <1>q DEF RowsInv
  <2>6. QED
    BY <2>1, <2>2, <2>3, <2>4, <2>5 DEF ApiStep, ServedStep, SendTask, AbandonCall,
       OpenSubmission, OpenDecision, LoadDecidedRequest, OpenOverride
<1>2. MessagesInv'
  <2>1. CASE UNCHANGED message
    BY <2>1, <1>w, <1>p, <1>q DEF MessagesInv, Persistence
  <2>2. ASSUME NEW m \in Messages, SendTask(s, m) PROVE MessagesInv'
    <3>1. api[s].req \in released /\ rows[m] = 0 /\ 0 <= crashes
      BY <2>2, <1>q DEF SendTask, HandlersInv, MessagesInv
    <3>2. QED BY <2>2, <3>1, <1>q DEF SendTask, MessagesInv
  <2>3. QED BY <2>1, <2>2, <1>m
<1>3. RunsInv'
  <2>1. \A m \in Messages : message[m].state = "taken" => message'[m] = message[m]
    BY <1>m DEF SendTask
  <2>2. \A m \in Messages : message[m].state = "taken" =>
            /\ message[m].req \in Requests
            /\ status[message[m].req] # "absent"
    BY <1>q DEF MessagesInv, RowsInv
  <2>3. QED BY <2>1, <2>2, <1>w, <1>p, <1>q DEF RunsInv, Persistence
<1>4. CallsAreReleased' /\ BlockedTextStaysHere'
  <2>1. \A c \in calls : c.req \in Requests /\ status[c.req] # "absent"
    BY <1>q DEF CallsAreReleased, RowsInv
  <2>2. QED
    BY <2>1, <1>w, <1>p, <1>q
       DEF CallsAreReleased, BlockedTextStaysHere, Persistence
<1>5. QED BY <1>1, <1>2, <1>3, <1>4

\* A worker's step, part by part.
LEMMA WorkerStepInv ==
    ASSUME TypeOK, ReleaseInv, NEW w \in Workers, WorkerStep(w)
    PROVE  ReleaseInv'
<1> USE DEF TypeOK
<1>p. Persistence
  BY WorkerPersistence DEF ReleaseInv
<1>q. /\ HandlersInv
      /\ RowsInv
      /\ MessagesInv
      /\ RunsInv
      /\ CallsAreReleased
      /\ BlockedTextStaysHere
  BY DEF ReleaseInv
<1>u. UNCHANGED <<prompt, flags, approval, api, released>>
  BY DEF WorkerStep, TakeMessage, CallProvider, SkipProvider, CommitAnswer,
         AckMessage, WorkerLost
<1>o. \A v \in Workers : v # w => worker'[v] = worker[v]
  BY DEF WorkerStep, TakeMessage, CallProvider, SkipProvider, CommitAnswer,
         AckMessage, WorkerLost
<1>r. worker[w].pc # "idle" =>
          /\ worker[w].msg \in Messages
          /\ message[worker[w].msg].req \in Requests
          /\ message[worker[w].msg].state = "taken"
          /\ message[worker[w].msg].req \in released
  BY <1>q DEF RunsInv, MessagesInv
<1>1. HandlersInv' /\ RowsInv'
  <2>1. \A r \in Requests : status'[r] = "absent" => status[r] = "absent"
    BY <1>p DEF Persistence
  <2>2. \A a \in Approvals : approval[a].req # NoRequest =>
            approval[a].req \in Requests
    BY DEF ApprovalRow
  <2>3. QED
    BY <2>1, <2>2, <1>u, <1>p, <1>q DEF HandlersInv, RowsInv, Persistence
<1>2. MessagesInv'
  <2>1. ASSUME NEW m \in Messages, TakeMessage(w, m) PROVE MessagesInv'
    BY <2>1, <1>q DEF TakeMessage, MessagesInv
  <2>2. CASE CallProvider(w) \/ SkipProvider(w)
    BY <2>2, <1>q DEF CallProvider, SkipProvider, MessagesInv
  <2>3. CASE CommitAnswer(w)
    <3>1. rows[worker[w].msg] <= crashes
      BY <2>3, <1>q DEF CommitAnswer, RunsInv
    <3>2. QED BY <2>3, <3>1, <1>r, <1>q DEF CommitAnswer, MessagesInv
  <2>4. CASE AckMessage(w)
    BY <2>4, <1>r, <1>q DEF AckMessage, AfterTask, MessagesInv
  <2>5. CASE WorkerLost(w)
    BY <2>5, <1>r, <1>q DEF WorkerLost, AfterLoss, MessagesInv
  <2>6. QED BY <2>1, <2>2, <2>3, <2>4, <2>5 DEF WorkerStep
<1>3. RunsInv'
  <2> DEFINE Run1(v) ==
        worker'[v].pc # "idle" =>
            /\ worker'[v].msg \in Messages
            /\ message'[worker'[v].msg].state = "taken"
            /\ worker'[v].pc # "committed" => rows'[worker'[v].msg] <= crashes'
            /\ worker'[v].sends = "masked" =>
                   flags'[message'[worker'[v].msg].req] = "clean"
  <2>1. ASSUME NEW v \in Workers, v # w, worker'[v].pc # "idle"
        PROVE  /\ Run1(v)
               /\ worker'[w].pc # "idle" => worker'[v].msg # worker'[w].msg
    <3>1. /\ worker[v].pc # "idle"
          /\ worker[v].msg \in Messages
          /\ message[worker[v].msg].state = "taken"
          /\ worker[w].pc # "idle" => worker[v].msg # worker[w].msg
          /\ worker'[v] = worker[v]
      BY <2>1, <1>o, <1>q DEF RunsInv
    <3>2. /\ message'[worker[v].msg] = message[worker[v].msg]
          /\ rows'[worker[v].msg] = rows[worker[v].msg]
          /\ crashes <= crashes'
      BY <3>1 DEF WorkerStep, TakeMessage, CallProvider, SkipProvider,
                  CommitAnswer, AckMessage, WorkerLost
    <3>3. Run1(v)
      <4>1. /\ worker[v].pc # "committed" => rows[worker[v].msg] <= crashes
            /\ worker[v].sends = "masked" =>
                   flags[message[worker[v].msg].req] = "clean"
        BY <3>1, <1>q DEF RunsInv
      <4>2. rows[worker[v].msg] \in Nat
        BY <3>1
      <4>3. crashes' = crashes \/ crashes' = crashes + 1
        BY DEF WorkerStep, TakeMessage, CallProvider, SkipProvider,
               CommitAnswer, AckMessage, WorkerLost
      <4>4. QED BY <3>1, <3>2, <4>1, <4>2, <4>3, <1>u
    <3>4. ASSUME worker'[w].pc # "idle" PROVE worker'[v].msg # worker'[w].msg
      <4>1. ASSUME NEW m \in Messages, TakeMessage(w, m)
            PROVE  worker'[v].msg # worker'[w].msg
        BY <4>1, <3>1 DEF TakeMessage
      <4>2. CASE CallProvider(w) \/ SkipProvider(w) \/ CommitAnswer(w)
        <5>1. worker'[w].msg = worker[w].msg /\ worker[w].pc # "idle"
          <6>1. CASE CallProvider(w)
            BY <6>1 DEF CallProvider, Run
          <6>2. CASE SkipProvider(w)
            BY <6>2 DEF SkipProvider, Run
          <6>3. CASE CommitAnswer(w)
            BY <6>3 DEF CommitAnswer, Run
          <6>4. QED BY <4>2, <6>1, <6>2, <6>3
        <5>2. QED BY <5>1, <3>1
      <4>3. CASE AckMessage(w) \/ WorkerLost(w)
        BY <4>3, <3>4 DEF AckMessage, WorkerLost, NoRun
      <4>4. QED BY <4>1, <4>2, <4>3 DEF WorkerStep
    <3>5. QED BY <3>3, <3>4
  <2>2. Run1(w)
    <3>1. ASSUME NEW m \in Messages, TakeMessage(w, m) PROVE Run1(w)
      <4>1. /\ worker'[w].msg = m
            /\ worker'[w].sends = ToSend(prompt[message[m].req])
            /\ message'[m].state = "taken"
            /\ message'[m].req = message[m].req
            /\ UNCHANGED <<rows, crashes, flags>>
        BY <3>1 DEF TakeMessage, Message
      <4>2. message[m].req \in Requests /\ rows[m] <= crashes
        BY <3>1, <1>q DEF TakeMessage, MessagesInv
      <4>3. QED BY <4>1, <4>2, <1>q DEF ToSend, RowsInv
    <3>2. CASE CallProvider(w) \/ SkipProvider(w)
      <4>1. /\ worker'[w].msg = worker[w].msg
            /\ worker'[w].sends = "placeholder"
            /\ worker[w].pc = "loaded"
            /\ UNCHANGED <<message, rows, crashes>>
        <5>1. CASE CallProvider(w)
          BY <5>1 DEF CallProvider, Run
        <5>2. CASE SkipProvider(w)
          BY <5>2 DEF SkipProvider, Run
        <5>3. QED BY <3>2, <5>1, <5>2
      <4>2. /\ worker[w].msg \in Messages
            /\ message[worker[w].msg].state = "taken"
            /\ rows[worker[w].msg] <= crashes
        BY <4>1, <1>q DEF RunsInv
      <4>3. QED BY <4>1, <4>2
    <3>3. CASE CommitAnswer(w)
      <4>1. /\ worker'[w].msg = worker[w].msg
            /\ worker'[w].sends = worker[w].sends
            /\ worker'[w].pc = "committed"
            /\ worker[w].pc = "answered"
            /\ UNCHANGED <<message, flags>>
        BY <3>3 DEF CommitAnswer, Run
      <4>2. QED BY <4>1, <1>q DEF RunsInv
    <3>4. CASE AckMessage(w) \/ WorkerLost(w)
      BY <3>4 DEF AckMessage, WorkerLost, NoRun
    <3>5. QED BY <3>1, <3>2, <3>3, <3>4 DEF WorkerStep
  <2>3. \A v \in Workers : v # w /\ worker'[v].pc # "idle" =>
            /\ Run1(v)
            /\ worker'[w].pc # "idle" => worker'[v].msg # worker'[w].msg
    BY <2>1
  <2>4. \A u, v \in Workers :
            u # v /\ worker'[u].pc # "idle" /\ worker'[v].pc # "idle" =>
                worker'[u].msg # worker'[v].msg
    BY <2>3, <1>o, <1>q DEF RunsInv
  <2>5. \A v \in Workers : Run1(v)
    BY <2>2, <2>3
  <2>6. QED BY <2>4, <2>5 DEF RunsInv
<1>4. CallsAreReleased' /\ BlockedTextStaysHere'
  <2>1. CASE CallProvider(w)
    <3>1. /\ message[worker[w].msg].req \in released
          /\ worker[w].sends = "masked" =>
                 flags[message[worker[w].msg].req] = "clean"
      BY <2>1, <1>r, <1>q DEF CallProvider, RunsInv
    <3>2. QED
      BY <2>1, <3>1, <1>q DEF CallProvider, CallsAreReleased, BlockedTextStaysHere
  <2>2. CASE UNCHANGED calls
    BY <2>2, <1>u, <1>q DEF CallsAreReleased, BlockedTextStaysHere
  <2>3. QED
    BY <2>1, <2>2 DEF WorkerStep, TakeMessage, SkipProvider, CommitAnswer,
                      AckMessage, WorkerLost
<1>5. QED BY <1>1, <1>2, <1>3, <1>4 DEF ReleaseInv

LEMMA InvStep ==
    ASSUME TypeOK, ReleaseInv, [Next]_vars
    PROVE  TypeOK' /\ ReleaseInv'
<1>1. ASSUME NEW s \in Sessions, ApiStep(s) PROVE TypeOK' /\ ReleaseInv'
  <2>1. TypeOK'
    BY <1>1, TypeApiStep DEF ReleaseInv
  <2>2. ReleaseInv'
    BY <1>1, HandlersStep, ApiStepInv DEF ReleaseInv
  <2>3. QED BY <2>1, <2>2
<1>2. ASSUME NEW w \in Workers, WorkerStep(w) PROVE TypeOK' /\ ReleaseInv'
  <2>1. TypeOK'
    BY <1>2, TypeWorkerStep DEF ReleaseInv
  <2>2. ReleaseInv'
    BY <1>2, WorkerStepInv
  <2>3. QED BY <2>1, <2>2
<1>3. CASE UNCHANGED vars
  <2> USE <1>3 DEF vars
  <2>1. TypeOK'
    BY DEF TypeOK
  <2>2. HandlersInv' /\ RowsInv'
    BY DEF ReleaseInv, HandlersInv, RowsInv
  <2>3. MessagesInv' /\ CallsAreReleased'
    BY DEF ReleaseInv, MessagesInv, CallsAreReleased
  <2>4. RunsInv'
    BY DEF ReleaseInv, RunsInv
  <2>5. BlockedTextStaysHere'
    BY DEF ReleaseInv, BlockedTextStaysHere
  <2>6. QED BY <2>1, <2>2, <2>3, <2>4, <2>5 DEF ReleaseInv
<1>4. QED BY <1>1, <1>2, <1>3 DEF Next

\* A handler completes no request, and no message that inserted a response loses
\* its request.
LEMMA CompletedApiStep ==
    ASSUME TypeOK, ReleaseInv, CompletedHasResponse, NEW s \in Sessions, ApiStep(s)
    PROVE  CompletedHasResponse'
<1> USE DEF TypeOK
<1>p. Persistence
  BY ApiPersistence DEF ReleaseInv
<1>q. HandlersInv /\ MessagesInv
  BY DEF ReleaseInv
<1>w. UNCHANGED rows
  BY DEF ApiStep, ServedStep, CreateRequest, SendTask, AbandonCall, OpenSubmission,
         CommitSubmission, OpenDecision, LoadDecidedRequest, CommitDecision,
         OpenOverride, CommitOverride
<1>1. \A r \in Requests : status'[r] = "completed" => status[r] = "completed"
  <2>1. ASSUME NEW a \in Approvals, CommitSubmission(s, a),
               NEW r \in Requests, status'[r] = "completed"
        PROVE  status[r] = "completed"
    BY <2>1 DEF CommitSubmission, Written
  <2>2. ASSUME CommitDecision(s), NEW r \in Requests, status'[r] = "completed"
        PROVE  status[r] = "completed"
    <3>1. api[s].verb \in Decisions
      BY <2>2, <1>q DEF CommitDecision, HandlersInv
    <3>2. QED BY <2>2, <3>1 DEF CommitDecision, Written, Outcome
  <2>3. QED
    BY <2>1, <2>2 DEF ApiStep, ServedStep, CreateRequest, SendTask, AbandonCall,
       OpenSubmission, OpenDecision, LoadDecidedRequest, OpenOverride,
       CommitOverride
<1>2. \A m \in Messages : rows[m] > 0 => message'[m].req = message[m].req
  <2>1. \A m \in Messages : rows[m] > 0 => message[m].state # "unsent"
    BY <1>q DEF MessagesInv
  <2>2. QED BY <2>1, <1>p DEF Persistence
<1>3. QED BY <1>1, <1>2, <1>w DEF CompletedHasResponse

\* A worker that completes a request inserts its response.
LEMMA CompletedWorkerStep ==
    ASSUME TypeOK, ReleaseInv, CompletedHasResponse, NEW w \in Workers, WorkerStep(w)
    PROVE  CompletedHasResponse'
<1> USE DEF TypeOK
<1>q. RunsInv /\ MessagesInv /\ Persistence
  BY WorkerPersistence DEF ReleaseInv
<1>r. worker[w].pc # "idle" =>
          worker[w].msg \in Messages /\ message[worker[w].msg].req \in Requests
  BY <1>q DEF RunsInv, MessagesInv
<1>1. \A m \in Messages : rows[m] > 0 => message'[m].req = message[m].req
  <2>1. \A m \in Messages : rows[m] > 0 => message[m].state # "unsent"
    BY <1>q DEF MessagesInv
  <2>2. QED BY <2>1, <1>q DEF Persistence
<1>2. CASE CommitAnswer(w)
  <2> DEFINE m0 == worker[w].msg
  <2>1. /\ m0 \in Messages
        /\ worker[w].outcome \in {"none", "answer", "provider_error", "exception"}
        /\ message' = message
    BY <1>2, <1>r DEF CommitAnswer, Run
  <2>2. \A m \in Messages : rows[m] > 0 => rows'[m] > 0
    BY <1>2, <2>1 DEF CommitAnswer
  <2>3. \A r \in Requests : status'[r] = "completed" =>
            \/ status[r] = "completed"
            \/ r = message[m0].req /\ rows'[m0] > 0
    BY <1>2, <2>1, <1>r DEF CommitAnswer, Written, OutcomeStatus
  <2>4. QED BY <2>1, <2>2, <2>3 DEF CompletedHasResponse
<1>3. CASE UNCHANGED <<status, rows>>
  BY <1>1, <1>3 DEF CompletedHasResponse
<1>4. QED
  BY <1>2, <1>3 DEF WorkerStep, TakeMessage, CallProvider, SkipProvider,
                    AckMessage, WorkerLost

-----------------------------------------------------------------------------
(* Theorems                                                                *)

\* The pipeline's tables, messages, handlers and workers keep their types.
THEOREM TypeCorrect == Spec => []TypeOK
<1>1. Init => TypeOK /\ ReleaseInv
  BY TypeInit, InvInit
<1>2. TypeOK /\ ReleaseInv /\ [Next]_vars => TypeOK' /\ ReleaseInv'
  BY InvStep
<1>3. QED BY <1>1, <1>2, PTL DEF Spec

\* The inductive invariant holds of every reachable state.
THEOREM InvariantHolds == Spec => []PipelineInv
<1>1. Init => TypeOK /\ PipelineInv
  BY TypeInit, InvInit DEF PipelineInv, Init, CompletedHasResponse
<1>2. TypeOK /\ PipelineInv /\ [Next]_vars => TypeOK' /\ PipelineInv'
  <2>1. SUFFICES ASSUME TypeOK, ReleaseInv, CompletedHasResponse, [Next]_vars
                 PROVE  TypeOK' /\ ReleaseInv' /\ CompletedHasResponse'
    BY DEF PipelineInv
  <2>2. TypeOK' /\ ReleaseInv'
    BY <2>1, InvStep
  <2>3. CASE UNCHANGED vars
    BY <2>1, <2>2, <2>3 DEF vars, CompletedHasResponse
  <2>4. QED
    BY <2>1, <2>2, <2>3, CompletedApiStep, CompletedWorkerStep DEF Next
<1>3. QED BY <1>1, <1>2, PTL DEF Spec

\* No prompt reaches a provider for a request nobody let through.
THEOREM CallsReleased == Spec => []CallsAreReleased
<1>1. PipelineInv => CallsAreReleased
  BY DEF PipelineInv, ReleaseInv
<1>2. QED BY <1>1, InvariantHolds, PTL

\* The text the firewall refused never reaches a provider.
THEOREM BlockedTextKept == Spec => []BlockedTextStaysHere
<1>1. PipelineInv => BlockedTextStaysHere
  BY DEF PipelineInv, ReleaseInv
<1>2. QED BY <1>1, InvariantHolds, PTL

\* A completed request has a response.
THEOREM CompletedAnswered == Spec => []CompletedHasResponse
<1>1. PipelineInv => CompletedHasResponse
  BY DEF PipelineInv
<1>2. QED BY <1>1, InvariantHolds, PTL

\* One message inserts a second response only after a worker was lost.
THEOREM SecondResponse == Spec => []SecondResponseNeedsLoss
<1>1. PipelineInv => SecondResponseNeedsLoss
  BY DEF PipelineInv, ReleaseInv, MessagesInv, SecondResponseNeedsLoss
<1>2. QED BY <1>1, InvariantHolds, PTL

-----------------------------------------------------------------------------
(* The pipeline implements GovernedRelease                                 *)

\* The refinement mapping of RequestPipeline!Release.
Withheld == {r \in Requests : flags[r] = "blocked_term"}

\* A handler withholds or lets through at most the request it works on, and
\* calls nobody.
LEMMA ApiRefines ==
    ASSUME TypeOK, ReleaseInv, NEW s \in Sessions, ApiStep(s)
    PROVE  Release!Next \/ UNCHANGED Release!vars
<1>1. ASSUME NEW r \in Requests, CreateRequest(s, r)
      PROVE  Release!Next \/ UNCHANGED Release!vars
  <2>1. /\ r \notin released
        /\ calls' = calls
        /\ flags \in [Requests -> {"clean", "blocked_term"}]
    BY <1>1 DEF CreateRequest, ReleaseInv, RowsInv, TypeOK
  <2>2. PICK first \in {"blocked", "pending_approval", "pending"} :
            /\ flags' = [flags EXCEPT ![r] =
                             IF first = "blocked" THEN "blocked_term" ELSE "clean"]
            /\ released' = IF first = "pending" THEN released \cup {r} ELSE released
            /\ status[r] = "absent"
    BY <1>1 DEF CreateRequest
  <2>3. first = "blocked" => Withheld' = Withheld \cup {r}
    BY <2>1, <2>2 DEF Withheld
  <2>4. CASE first = "blocked"
    <3>1. Release!Withhold(r)
      BY <2>1, <2>2, <2>3, <2>4 DEF Release!Withhold, Withheld
    <3>2. QED BY <3>1 DEF Release!Next
  <2>5. flags[r] = "clean"
    BY <1>1 DEF CreateRequest, ReleaseInv, RowsInv
  <2>6. first # "blocked" => Withheld' = Withheld
    BY <2>1, <2>2, <2>5 DEF Withheld
  <2>7. CASE first = "pending"
    <3>1. Release!Let(r)
      BY <2>1, <2>2, <2>6, <2>7 DEF Release!Let, Withheld
    <3>2. QED BY <3>1 DEF Release!Next
  <2>8. CASE first = "pending_approval"
    BY <2>1, <2>2, <2>6, <2>8 DEF Release!vars, Withheld
  <2>9. QED BY <2>2, <2>4, <2>7, <2>8
<1>2. CASE CommitDecision(s)
  <2>1. /\ api[s].req \in Requests
        /\ Withheld' = Withheld
        /\ calls' = calls
        /\ released' = released \cup {api[s].req} \/ released' = released
    BY <1>2 DEF CommitDecision, ReleaseInv, HandlersInv, Withheld
  <2>2. CASE released' = released \cup {api[s].req}
    <3>1. Release!Let(api[s].req)
      BY <2>1, <2>2 DEF Release!Let, Withheld
    <3>2. QED BY <2>1, <3>1 DEF Release!Next
  <2>3. CASE released' = released
    BY <2>1, <2>3 DEF Release!vars, Withheld
  <2>4. QED BY <2>1, <2>2, <2>3
<1>3. CASE UNCHANGED <<flags, released, calls>>
  BY <1>3 DEF Release!vars
<1>4. QED
  BY <1>1, <1>2, <1>3 DEF ApiStep, ServedStep, SendTask, AbandonCall, OpenSubmission,
      CommitSubmission, OpenDecision, LoadDecidedRequest, OpenOverride,
      CommitOverride

\* A worker only sends, and only what the abstract specification lets it send.
LEMMA WorkerRefines ==
    ASSUME TypeOK, ReleaseInv, NEW w \in Workers, WorkerStep(w)
    PROVE  Release!Next \/ UNCHANGED Release!vars
<1>1. CASE CallProvider(w)
  <2> DEFINE r == message[worker[w].msg].req
             c == [req |-> r, text |-> worker[w].sends]
  <2>1. /\ worker[w].pc # "idle"
        /\ calls' = calls \cup {c}
        /\ Withheld' = Withheld
        /\ released' = released
    BY <1>1 DEF CallProvider, Withheld
  <2>2. /\ r \in released
        /\ c.text = "masked" => flags[r] = "clean"
    BY <2>1 DEF ReleaseInv, RunsInv, MessagesInv
  <2>3. r \in Requests /\ worker[w].sends \in Sent
    BY <2>2 DEF TypeOK, Run
  <2>4. c \in Release!Call
    BY <2>3 DEF Release!Call, Sent
  <2>5. Release!Send(c)
    BY <2>1, <2>2 DEF Release!Send, Withheld
  <2>6. QED BY <2>4, <2>5 DEF Release!Next
<1>2. CASE UNCHANGED <<flags, released, calls>>
  BY <1>2 DEF Release!vars
<1>3. QED
  BY <1>1, <1>2 DEF WorkerStep, TakeMessage, SkipProvider, CommitAnswer,
      AckMessage, WorkerLost

\* Rows, messages, handlers and workers together keep the release discipline:
\* the pipeline's steps are steps of GovernedRelease or stutter.
THEOREM Refinement == Spec => RefinesGovernedRelease
<1>1. Init => Release!Init
  BY DEF Init, Release!Init
<1>2. TypeOK /\ PipelineInv /\ [Next]_vars => [Release!Next]_(Release!vars)
  <2>1. UNCHANGED vars => UNCHANGED Release!vars
    BY DEF vars, Release!vars
  <2>2. QED BY <2>1, ApiRefines, WorkerRefines DEF Next, PipelineInv
<1>3. QED
  BY <1>1, <1>2, TypeCorrect, InvariantHolds, PTL
     DEF Spec, RefinesGovernedRelease, Release!Spec

-----------------------------------------------------------------------------
(* A decided status is always backed by a decision, however many decisions *)
(* on however many approvals of a request are in flight: the argument is   *)
(* DecisionsInv of RequestPipeline.                                        *)

LEMMA DecisionsInit == Init => DecisionsInv
BY DEF Init, DecisionsInv, Idle, Outcomes

\* A step that touches neither an approval, nor what decisions in flight have
\* loaded, and that writes no decided status, disturbs nothing.
LEMMA DecisionsUntouched ==
    ASSUME DecisionsInv,
           \A s \in Sessions : \/ api'[s] = api[s]
                               \/ api'[s].pc \notin {"deciding", "decided"},
           \A a \in Approvals : approval[a].req # NoRequest => approval'[a] = approval[a],
           \A s \in Sessions : api[s].pc \in {"deciding", "decided"} =>
               approval[api[s].appr].req # NoRequest /\ api[s].appr \in Approvals,
           \A r \in Requests : r # NoRequest,
           \A r \in Requests : status'[r] \in Outcomes => status'[r] = status[r]
    PROVE  DecisionsInv'
<1>1. \A s \in Sessions : api'[s].pc \in {"deciding", "decided"} =>
          approval'[api'[s].appr].req = api'[s].req
  BY DEF DecisionsInv
<1>2. \A s, t \in Sessions :
          s # t /\ api'[s].pc = "decided" /\ api'[t].pc = "decided" =>
              api'[s].appr # api'[t].appr
  BY DEF DecisionsInv
<1>3. ASSUME NEW r \in Requests, status'[r] \in Outcomes
      PROVE  \E a \in Approvals : Backs(a, r)'
  <2>1. PICK a \in Approvals : Backs(a, r)
    BY <1>3 DEF DecisionsInv
  <2>2. approval'[a] = approval[a]
    BY <2>1 DEF Backs
  <2>3. \A s \in Sessions : Silent(s)' /\ api'[s].appr = a =>
            Outcome(api'[s].verb) = status[r]
    BY <2>1 DEF Backs, Silent
  <2>4. Backs(a, r)'
    BY <1>3, <2>1, <2>2, <2>3 DEF Backs
  <2>5. QED BY <2>4
<1>4. QED BY <1>1, <1>2, <1>3 DEF DecisionsInv

\* What the decisions in flight refer to.
LEMMA InFlight ==
    ASSUME TypeOK, HandlersInv, DecisionsInv
    PROVE  /\ \A r \in Requests : r # NoRequest
           /\ \A s \in Sessions : api[s].pc \in {"deciding", "decided"} =>
                  /\ api[s].appr \in Approvals
                  /\ api[s].req \in Requests
                  /\ approval[api[s].appr].req = api[s].req
                  /\ api[s].verb \in Decisions
BY NullsAreNotRows DEF HandlersInv, DecisionsInv

\* The handlers preserve DecisionsInv.
LEMMA DecisionsApiStep ==
    ASSUME TypeOK, ReleaseInv, DecisionsInv, NEW s \in Sessions, ApiStep(s)
    PROVE  DecisionsInv'
<1>f. /\ \A r \in Requests : r # NoRequest
      /\ \A t \in Sessions : api[t].pc \in {"deciding", "decided"} =>
             /\ api[t].appr \in Approvals
             /\ api[t].req \in Requests
             /\ approval[api[t].appr].req = api[t].req
             /\ approval[api[t].appr].req # NoRequest
             /\ api[t].verb \in Decisions
  BY InFlight DEF ReleaseInv
<1>t. /\ api \in [Sessions -> Handler]
      /\ status \in [Requests -> Status]
      /\ approval \in [Approvals -> ApprovalRow]
  BY DEF TypeOK
<1>1. ASSUME \A t \in Sessions : \/ api'[t] = api[t]
                                 \/ api'[t].pc \notin {"deciding", "decided"},
             \A a \in Approvals : approval[a].req # NoRequest => approval'[a] = approval[a],
             \A r \in Requests : status'[r] \in Outcomes => status'[r] = status[r]
      PROVE  DecisionsInv'
  BY <1>1, <1>f, DecisionsUntouched
<1>2. ASSUME NEW r \in Requests, CreateRequest(s, r) PROVE DecisionsInv'
  <2>1. \A t \in Sessions : \/ api'[t] = api[t]
                            \/ api'[t].pc \notin {"deciding", "decided"}
    BY <1>2, <1>t DEF CreateRequest, Sending, Idle
  <2>2. \A q \in Requests : status'[q] \in Outcomes => status'[q] = status[q]
    BY <1>2, <1>t DEF CreateRequest, Outcomes
  <2>3. approval' = approval
    BY <1>2 DEF CreateRequest
  <2>4. QED BY <1>1, <2>1, <2>2, <2>3
<1>3. ASSUME NEW m \in Messages, SendTask(s, m) PROVE DecisionsInv'
  BY <1>1, <1>3, <1>t DEF SendTask, Idle
<1>4. CASE AbandonCall(s)
  BY <1>1, <1>4, <1>t DEF AbandonCall, Idle
<1>5. ASSUME NEW r \in Requests, OpenSubmission(s, r) PROVE DecisionsInv'
  BY <1>1, <1>5, <1>t DEF OpenSubmission, Idle
<1>6. ASSUME NEW a \in Approvals, CommitSubmission(s, a) PROVE DecisionsInv'
  <2>1. \A t \in Sessions : \/ api'[t] = api[t]
                            \/ api'[t].pc \notin {"deciding", "decided"}
    BY <1>6, <1>t DEF CommitSubmission, Idle
  <2>2. \A q \in Requests : status'[q] \in Outcomes => status'[q] = status[q]
    BY <1>6, <1>t DEF CommitSubmission, Written, Outcomes
  <2>3. \A b \in Approvals : approval[b].req # NoRequest => approval'[b] = approval[b]
    BY <1>6, <1>t DEF CommitSubmission
  <2>4. QED BY <1>1, <2>1, <2>2, <2>3
<1>7. ASSUME NEW a \in Approvals, NEW d \in Decisions, OpenDecision(s, a, d)
      PROVE  DecisionsInv'
  <2>1. /\ api'[s].pc = "deciding"
        /\ api'[s].appr = a
        /\ api'[s].req = approval[a].req
        /\ \A t \in Sessions : t # s => api'[t] = api[t]
        /\ UNCHANGED <<status, approval>>
    BY <1>7, <1>t DEF OpenDecision, Idle
  <2>2. \A t \in Sessions : api'[t].pc = "decided" => api'[t] = api[t]
    BY <2>1
  <2>3. \A b \in Approvals, r \in Requests : Backs(b, r) => Backs(b, r)'
    BY <2>1, <2>2 DEF Backs, Silent
  <2>4. QED BY <2>1, <2>2, <2>3 DEF DecisionsInv
<1>8. CASE LoadDecidedRequest(s)
  <2> DEFINE r0 == api[s].req
             a0 == api[s].appr
  <2>1. /\ api[s].pc = "deciding"
        /\ api'[s] = [api[s] EXCEPT !.pc = "decided", !.seen = status[r0]]
        /\ \A t \in Sessions : t # s => api'[t] = api[t]
        /\ \A t \in Sessions : api[t].pc = "decided" => api[t].appr # a0
        /\ UNCHANGED <<status, approval>>
    BY <1>8, <1>t DEF LoadDecidedRequest, Locked
  <2>2. /\ api'[s].pc = "decided"
        /\ api'[s].appr = a0
        /\ api'[s].req = r0
        /\ api'[s].verb = api[s].verb
        /\ api'[s].seen = status[r0]
    BY <2>1, <1>t DEF Handler
  <2>3. \A t \in Sessions : api'[t].pc \in {"deciding", "decided"} =>
            approval'[api'[t].appr].req = api'[t].req
    <3>1. approval[a0].req = r0
      BY <2>1, <1>f
    <3>2. QED BY <2>1, <2>2, <3>1, <1>f
  <2>4. ASSUME NEW t \in Sessions, NEW u \in Sessions, t # u,
               api'[t].pc = "decided", api'[u].pc = "decided"
        PROVE  api'[t].appr # api'[u].appr
    <3>1. CASE t = s
      BY <2>1, <2>2, <2>4, <3>1
    <3>2. CASE u = s
      BY <2>1, <2>2, <2>4, <3>2
    <3>3. CASE t # s /\ u # s
      <4>1. api'[t] = api[t] /\ api'[u] = api[u]
        BY <2>1, <3>3
      <4>2. QED BY <2>4, <4>1 DEF DecisionsInv
    <3>4. QED BY <3>1, <3>2, <3>3
  <2>5. ASSUME NEW b \in Approvals, NEW r \in Requests, Backs(b, r)
        PROVE  Backs(b, r)'
    <3>1. ASSUME NEW t \in Sessions, Silent(t)', api'[t].appr = b
          PROVE  Outcome(api'[t].verb) = status'[r]
      <4>1. CASE t = s
        <5>1. r = r0
          BY <2>2, <2>5, <3>1, <4>1, <2>1, <1>f DEF Backs
        <5>2. QED BY <2>1, <2>2, <3>1, <4>1, <5>1 DEF Silent
      <4>2. CASE t # s
        <5>1. api'[t] = api[t] /\ status'[r] = status[r]
          BY <2>1, <4>2
        <5>2. QED BY <2>5, <3>1, <5>1 DEF Backs, Silent
      <4>3. QED BY <4>1, <4>2
    <3>2. QED BY <2>1, <2>5, <3>1 DEF Backs
  <2>6. QED BY <2>1, <2>3, <2>4, <2>5 DEF DecisionsInv
<1>9. CASE CommitDecision(s)
  <2>0. api[s].pc = "decided"
    BY <1>9 DEF CommitDecision
  <2> PICK a0 \in Approvals, r0 \in Requests, d \in Decisions :
              a0 = api[s].appr /\ r0 = api[s].req /\ d = api[s].verb
    BY <2>0, <1>f
  <2>1. api[s].pc = "decided" /\ approval[a0].req = r0
    BY <2>0, <1>f
  <2>2. /\ api'[s].pc \notin {"deciding", "decided"}
        /\ \A t \in Sessions : t # s => api'[t] = api[t]
    BY <1>9, <1>t DEF CommitDecision, Sending, Idle
  <2>3. /\ \A b \in Approvals : b # a0 => approval'[b] = approval[b]
        /\ \A b \in Approvals : approval'[b].req = approval[b].req
        /\ approval'[a0].decision = d
    BY <1>9, <2>1, <1>t DEF CommitDecision, ApprovalRow
  <2>4. /\ \A r \in Requests : r # r0 => status'[r] = status[r]
        /\ status'[r0] = IF Outcome(d) = api[s].seen THEN status[r0] ELSE Outcome(d)
    BY <1>9, <2>1, <1>t DEF CommitDecision, Written
  <2>5. \A t \in Sessions : api'[t].pc \in {"deciding", "decided"} =>
            approval'[api'[t].appr].req = api'[t].req
    BY <2>2, <2>3, <1>f
  <2>6. \A t, u \in Sessions :
            t # u /\ api'[t].pc = "decided" /\ api'[u].pc = "decided" =>
                api'[t].appr # api'[u].appr
    BY <2>2 DEF DecisionsInv
  <2>7. \A t \in Sessions : Silent(t)' => /\ Silent(t)
                                         /\ api'[t] = api[t]
                                         /\ api[t].appr # a0
    <3> SUFFICES ASSUME NEW t \in Sessions, Silent(t)'
                 PROVE  /\ Silent(t)
                        /\ api'[t] = api[t]
                        /\ api[t].appr # a0
      OBVIOUS
    <3>1. t # s
      BY <2>2 DEF Silent
    <3>2. api'[t] = api[t]
      BY <2>2, <3>1
    <3>3. Silent(t)
      BY <3>2 DEF Silent
    <3>4. api[t].appr # a0
      BY <2>1, <3>1, <3>3 DEF DecisionsInv, Silent
    <3>5. QED BY <3>2, <3>3, <3>4
  <2>8. ASSUME NEW r \in Requests, status'[r] \in Outcomes
        PROVE  \E b \in Approvals : Backs(b, r)'
    <3>1. CASE r = r0 /\ Outcome(d) # api[s].seen
      <4>1. Backs(a0, r)'
        BY <2>1, <2>3, <2>4, <2>7, <3>1 DEF Backs
      <4>2. QED BY <4>1, <2>1
    <3>2. CASE ~(r = r0 /\ Outcome(d) # api[s].seen)
      <4>1. status'[r] = status[r]
        BY <2>4, <3>2
      <4>2. PICK b \in Approvals : Backs(b, r)
        BY <2>8, <4>1 DEF DecisionsInv
      <4>3. /\ approval'[b].decision \in Decisions
            /\ Outcome(approval'[b].decision) = status[r]
        <5>1. CASE b = a0
          <6>1. r = r0
            BY <2>1, <4>2, <5>1 DEF Backs
          <6>2. Silent(s)
            BY <2>1, <3>2, <6>1 DEF Silent
          <6>3. Outcome(d) = status[r]
            BY <4>2, <5>1, <6>2 DEF Backs
          <6>4. QED BY <2>3, <5>1, <6>3
        <5>2. CASE b # a0
          BY <2>3, <4>2, <5>2 DEF Backs
        <5>3. QED BY <5>1, <5>2
      <4>4. Backs(b, r)'
        BY <2>3, <2>7, <4>1, <4>2, <4>3 DEF Backs
      <4>5. QED BY <4>4
    <3>3. QED BY <3>1, <3>2
  <2>9. QED BY <2>5, <2>6, <2>8 DEF DecisionsInv
<1>10. ASSUME NEW r \in Requests, NEW kind \in Overrides, OpenOverride(s, r, kind)
       PROVE  DecisionsInv'
  BY <1>1, <1>10, <1>t DEF OpenOverride, Idle
<1>11. CASE CommitOverride(s)
  <2>1. \A t \in Sessions : \/ api'[t] = api[t]
                            \/ api'[t].pc \notin {"deciding", "decided"}
    BY <1>11, <1>t DEF CommitOverride, Idle
  <2>2. \A q \in Requests : status'[q] \in Outcomes => status'[q] = status[q]
    BY <1>11, <1>t DEF CommitOverride, Outcomes
  <2>3. approval' = approval
    BY <1>11 DEF CommitOverride
  <2>4. QED BY <1>1, <2>1, <2>2, <2>3
<1>12. QED
  BY <1>2, <1>3, <1>4, <1>5, <1>6, <1>7, <1>8, <1>9, <1>10, <1>11 DEF ApiStep, ServedStep

\* The workers write no decided status and leave the approvals alone.
LEMMA DecisionsWorkerStep ==
    ASSUME TypeOK, ReleaseInv, DecisionsInv, NEW w \in Workers, WorkerStep(w)
    PROVE  DecisionsInv'
<1>1. /\ \A r \in Requests : r # NoRequest
      /\ \A t \in Sessions : api[t].pc \in {"deciding", "decided"} =>
             approval[api[t].appr].req # NoRequest /\ api[t].appr \in Approvals
  BY InFlight DEF ReleaseInv
<1>2. UNCHANGED <<api, approval>>
  BY DEF WorkerStep, TakeMessage, CallProvider, SkipProvider, CommitAnswer,
         AckMessage, WorkerLost
<1>3. \A r \in Requests : status'[r] \in Outcomes => status'[r] = status[r]
  <2>1. CASE CommitAnswer(w)
    BY <2>1 DEF TypeOK, CommitAnswer, Written, OutcomeStatus, Outcomes
  <2>2. CASE UNCHANGED status
    BY <2>2
  <2>3. QED
    BY <2>1, <2>2 DEF WorkerStep, TakeMessage, CallProvider, SkipProvider,
                      AckMessage, WorkerLost
<1>4. QED BY <1>1, <1>2, <1>3, DecisionsUntouched

\* A request shown as approved or rejected has an approval that was decided to
\* that effect.
THEOREM DecidedBacked == Spec => []DecidedIsBacked
<1>1. Init => DecisionsInv
  BY DecisionsInit
<1>2. TypeOK /\ PipelineInv /\ DecisionsInv /\ [Next]_vars => DecisionsInv'
  <2>1. CASE UNCHANGED vars
    BY <2>1 DEF vars, DecisionsInv, Backs, Silent
  <2>2. QED BY <2>1, DecisionsApiStep, DecisionsWorkerStep DEF Next, PipelineInv
<1>3. DecisionsInv => DecidedIsBacked
  BY DEF DecisionsInv, DecidedIsBacked, Backs
<1>4. QED BY <1>1, <1>2, <1>3, TypeCorrect, InvariantHolds, PTL DEF Spec


-----------------------------------------------------------------------------
(* Screening: the types                                                    *)

LEMMA ScreenConstants ==
    /\ NoConnection \in Connection
    /\ NoEdit \in Edit
    /\ NoScreen \in Screened
    /\ NoPrompt \in Prompt
BY DEF NoConnection, Connection, NoEdit, Edit, NoScreen, Screened, NoPrompt, PolicyStates,
       Prompt

\* The calls that administrators open.
LEMMA OpenedEdits ==
    ASSUME NEW on \in Policies \cup Providers, NEW n \in Nat, NEW seen \in PolicyStates,
           NEW to \in PolicyStates, NEW row \in Connection
    PROVE  /\ \A pc \in {"first", "version"} :
                 [NoEdit EXCEPT !.pc = pc, !.on = on, !.number = n] \in Edit
           /\ [NoEdit EXCEPT !.pc = "status", !.on = on, !.number = n, !.seen = seen,
                             !.to = to] \in Edit
           /\ [NoEdit EXCEPT !.pc = "provider", !.on = on, !.row = row] \in Edit
BY ScreenConstants DEF Edit, NoEdit, PolicyStates

LEMMA VersionRows ==
    ASSUME ScreeningTypeOK
    PROVE  /\ Len(version) \in Nat
           /\ DOMAIN version = 1..Len(version)
           /\ \A v \in DOMAIN version : version[v] \in Version
<1>1. version \in Seq(Version)
  BY DEF ScreeningTypeOK
<1>2. QED BY <1>1, ElementOfSeq, LenProperties

\* Positions behind a mask.
LEMMA Shift ==
    ASSUME NEW f \in Nat, NEW t \in Nat, NEW n \in Nat, NEW k \in f + 1..f + n
    PROVE  /\ k \in Nat /\ k - f \in 1..n /\ k \in 1..f + n /\ ~(k <= f)
           /\ t + (k - f) - 1 = k - 1 + (t - f)
OBVIOUS

LEMMA ConcatParts ==
    ASSUME NEW S, NEW x \in Seq(S), NEW y \in Seq(S), NEW n \in Nat, Len(x) = n
    PROVE  /\ \A k \in 1..n : (x \o y)[k] = x[k]
           /\ \A k \in n + 1..n + Len(y) : (x \o y)[k] = y[k - n]
           /\ x \o y \in Seq(S) /\ Len(x \o y) = n + Len(y)
           /\ Len(y) \in Nat
<1>1. Len(y) \in Nat
  BY LenProperties
<1>2. /\ x \o y \in Seq(S) /\ Len(x \o y) = n + Len(y)
      /\ \A k \in 1..n + Len(y) : (x \o y)[k] = IF k <= n THEN x[k] ELSE y[k - n]
  BY ConcatProperties
<1>3. ASSUME NEW k \in 1..n PROVE (x \o y)[k] = x[k]
  <2>1. k \in 1..n + Len(y) /\ k <= n
    BY <1>1
  <2>2. QED BY <1>2, <2>1
<1>4. ASSUME NEW k \in n + 1..n + Len(y) PROVE (x \o y)[k] = y[k - n]
  <2>1. k \in 1..n + Len(y) /\ ~(k <= n)
    BY <1>1, Shift
  <2>2. QED BY <1>2, <2>1
<1>5. QED BY <1>1, <1>2, <1>3, <1>4

\* A masked text: the part before the match, a mask, the part after it.
LEMMA MaskedText ==
    ASSUME NEW text \in Seq(Nat), NEW m, NEW f \in Nat, NEW t \in Nat,
           m.from = f, m.to = t, 1 <= f, f < t, t <= Len(text) + 1
    PROVE  /\ Masked(text, m) \in Seq(Nat)
           /\ Len(Masked(text, m)) = Len(text) + 1 - (t - f)
           /\ \A k \in 1..f - 1 : Masked(text, m)[k] = text[k]
           /\ Masked(text, m)[f] = 0
           /\ \A k \in f + 1..Len(Masked(text, m)) :
                 Masked(text, m)[k] = text[k - 1 + (t - f)]
<1> DEFINE a == SubSeq(text, 1, f - 1)
           b == SubSeq(text, t, Len(text))
           ab == a \o <<0>>
<1>1. Len(text) \in Nat
  BY LenProperties
<1>2. \A k \in 1..Len(text) : text[k] \in Nat
  BY ElementOfSeq
<1>3. /\ a \in Seq(Nat) /\ Len(a) = f - 1
      /\ \A k \in 1..f - 1 : a[k] = text[k]
  <2>1. \A k \in 1..f - 1 : text[k] \in Nat
    BY <1>1, <1>2
  <2>2. /\ a \in Seq(Nat)
        /\ Len(a) = IF 1 <= f - 1 THEN f - 1 - 1 + 1 ELSE 0
        /\ \A k \in 1..f - 1 - 1 + 1 : a[k] = text[1 + k - 1]
    BY <1>1, <2>1, SubSeqProperties
  <2>3. QED BY <1>1, <2>2
<1>4. /\ b \in Seq(Nat) /\ Len(b) = Len(text) - t + 1
      /\ \A k \in 1..Len(b) : b[k] = text[t + k - 1]
  <2>1. \A k \in t..Len(text) : text[k] \in Nat
    BY <1>1, <1>2
  <2>2. /\ b \in Seq(Nat)
        /\ Len(b) = IF t <= Len(text) THEN Len(text) - t + 1 ELSE 0
        /\ \A k \in 1..Len(text) - t + 1 : b[k] = text[t + k - 1]
    BY <1>1, <2>1, SubSeqProperties
  <2>3. QED BY <1>1, <2>2
<1>5. <<0>> \in Seq(Nat) /\ Len(<<0>>) = 1
  OBVIOUS
<1>0. f - 1 \in Nat /\ f \in f - 1 + 1..f - 1 + 1 /\ f - 1 + 1 = f
  OBVIOUS
<1> HIDE DEF a, b
<1>6. /\ ab \in Seq(Nat) /\ Len(ab) = f
      /\ \A k \in 1..f - 1 : ab[k] = text[k]
      /\ ab[f] = 0
  <2>1. /\ \A k \in 1..f - 1 : ab[k] = a[k]
        /\ \A k \in f - 1 + 1..f - 1 + 1 : ab[k] = <<0>>[k - (f - 1)]
        /\ ab \in Seq(Nat) /\ Len(ab) = f - 1 + 1
    BY <1>0, <1>3, <1>5, ConcatParts
  <2>2. ab[f] = <<0>>[f - (f - 1)] /\ f - (f - 1) = 1
    BY <1>0, <2>1
  <2>3. ab[f] = 0
    <3>1. \A k \in {1} : <<0>>[k] = 0
      OBVIOUS
    <3>2. f - (f - 1) \in {1}
      BY <2>2
    <3>3. QED BY <2>2, <3>1, <3>2
  <2>4. QED BY <1>0, <1>3, <2>1, <2>3
<1> HIDE DEF ab
<1> DEFINE new == ab \o b
<1>7. /\ \A k \in 1..f : new[k] = ab[k]
      /\ \A k \in f + 1..f + Len(b) : new[k] = b[k - f]
      /\ new \in Seq(Nat) /\ Len(new) = f + Len(b)
      /\ Len(b) \in Nat
  BY <1>4, <1>6, ConcatParts
<1>8. Masked(text, m) = new
  BY DEF Masked, a, b, ab
<1> HIDE DEF new
<1>9. Len(new) = Len(text) + 1 - (t - f)
  BY <1>1, <1>4, <1>7
<1>10. ASSUME NEW k \in f + 1..f + Len(b)
       PROVE  new[k] = text[k - 1 + (t - f)]
  <2>1. Len(b) \in Nat
    BY <1>7
  <2>2. k - f \in 1..Len(b) /\ t + (k - f) - 1 = k - 1 + (t - f)
    BY <2>1, Shift
  <2>3. QED BY <1>4, <1>7, <2>2
<1>11. /\ \A k \in 1..f - 1 : new[k] = text[k]
       /\ new[f] = 0
  <2>1. f \in 1..f /\ \A k \in 1..f - 1 : k \in 1..f
    OBVIOUS
  <2>2. QED BY <1>6, <1>7, <2>1
<1>12. QED BY <1>7, <1>8, <1>9, <1>10, <1>11

\* Where a step may reach: an administrator's leaves prompts and the pipeline alone, a
\* prompt's leaves what administrators keep, and other sessions' prompts.
LEMMA AdminFrame ==
    ASSUME AdminStep
    PROVE  /\ UNCHANGED <<vars, screen>>
           /\ KeepsStanding \/ UNCHANGED <<policy, version, stood>>
<1> DEFINE Frame == /\ vars' = vars /\ screen' = screen
                    /\ KeepsStanding \/ UNCHANGED <<policy, version, stood>>
<1>1. ASSUME NEW a \in Admins, NEW q \in Policies, CreatePolicy(a, q) PROVE Frame
  BY <1>1 DEF CreatePolicy
<1>2. ASSUME NEW a \in Admins, NEW q \in Policies, OpenVersion(a, q) PROVE Frame
  BY <1>2 DEF OpenVersion, governing
<1>3. ASSUME NEW a \in Admins, NEW q \in Policies, NEW v, NEW to, OpenStatus(a, q, v, to)
      PROVE  Frame
  BY <1>3 DEF OpenStatus, governing
<1>4. ASSUME NEW a \in Admins, AddVersion(a) PROVE Frame
  BY <1>4 DEF AddVersion
<1>5. ASSUME NEW a \in Admins, CommitStatus(a) PROVE Frame
  BY <1>5 DEF CommitStatus
<1>6. ASSUME NEW a \in Admins, DropEdit(a) PROVE Frame
  BY <1>6 DEF DropEdit, governing
<1>7. ASSUME NEW u \in UseCases, SaveUseCase(u) PROVE Frame
  BY <1>7 DEF SaveUseCase
<1>8. ASSUME NEW g \in Providers, CreateProvider(g) PROVE Frame
  BY <1>8 DEF CreateProvider
<1>9. ASSUME NEW a \in Admins, NEW g \in Providers, OpenProvider(a, g) PROVE Frame
  BY <1>9 DEF OpenProvider, governing
<1>10. ASSUME NEW a \in Admins, NEW on, NEW type, NEW given, CommitProvider(a, on, type, given)
       PROVE  Frame
  BY <1>10 DEF CommitProvider
<1> HIDE DEF Frame
<1>11. ASSUME NEW a \in Admins, NEW q \in Policies,
              OpenApproval(a, q) \/ OpenArchive(a, q) \/ OpenActivate(a, q)
       PROVE  Frame
  BY <1>3, <1>11 DEF OpenApproval, OpenArchive, OpenActivate
<1>12. Frame
  BY <1>1, <1>2, <1>4, <1>5, <1>6, <1>7, <1>8, <1>9, <1>10, <1>11 DEF AdminStep
<1>13. QED BY <1>12 DEF Frame

LEMMA PromptFrame ==
    ASSUME ScreeningTypeOK, NEW s \in Sessions, PromptStep(s)
    PROVE  /\ UNCHANGED <<governing, edit, edits, contested, raced>>
           /\ \A t \in Sessions : t # s => screen'[t] = screen[t] /\ stood'[t] = stood[t]
BY DEF ScreeningTypeOK, PromptStep, FirewallStep, OpenChat, OpenRequest, LoadRules, Scan,
       AcceptNext, MaskNext, StoreVerdict, LogChat, CallChat, DropScreen, EndsScreen

\* The governing tables.
LEMMA TypeAdmin ==
    ASSUME ScreeningTypeOK, EditsInv, AdminStep
    PROVE  ScreeningTypeOK'
<1> USE ScreenConstants DEF ScreeningTypeOK, BeginsEdit
<1>s. UNCHANGED screen
  BY AdminFrame
<1>k. ASSUME KeepsStanding PROVE stood' \in [Sessions -> SUBSET (Policies \X Rules)]
  BY <1>k DEF KeepsStanding
<1>1. ASSUME NEW a \in Admins, NEW q \in Policies, CreatePolicy(a, q)
      PROVE  ScreeningTypeOK'
  <2>1. edit' \in [Admins -> Edit]
    BY <1>1, OpenedEdits DEF CreatePolicy, PolicyStates
  <2>2. policy' \in [Policies -> PolicyStates]
    BY <1>1 DEF CreatePolicy, PolicyStates
  <2>3. QED BY <1>1, <1>k, <2>1, <2>2 DEF CreatePolicy
<1>2. ASSUME NEW a \in Admins, NEW q \in Policies, OpenVersion(a, q)
      PROVE  ScreeningTypeOK'
  <2>1. \A n \in NextNumbers(q) : n \in Nat
    <3>1. \A v \in VersionsOf(q) : version[v].number \in Nat
      BY VersionRows DEF VersionsOf, Version
    <3>2. SUFFICES ASSUME NEW n \in NextNumbers(q) PROVE n \in Nat
      OBVIOUS
    <3>3. n = 1 \/ \E v \in VersionsOf(q) : n = version[v].number + 1
      BY DEF NextNumbers
    <3>4. QED BY <3>1, <3>3
  <2>2. edit' \in [Admins -> Edit]
    <3>1. PICK n \in NextNumbers(q) :
              edit' = [edit EXCEPT ![a] = [NoEdit EXCEPT !.pc = "version", !.on = q,
                                                        !.number = n]]
      BY <1>2 DEF OpenVersion
    <3>2. [NoEdit EXCEPT !.pc = "version", !.on = q, !.number = n] \in Edit
      BY <2>1, OpenedEdits DEF PolicyStates
    <3>3. QED BY <3>1, <3>2
  <2>3. contested' \subseteq Policies
    BY <1>2 DEF OpenVersion
  <2>4. QED BY <1>2, <2>2, <2>3 DEF OpenVersion, governing
<1>3. ASSUME NEW a \in Admins, NEW q \in Policies,
             OpenApproval(a, q) \/ OpenArchive(a, q) \/ OpenActivate(a, q)
      PROVE  ScreeningTypeOK'
  <2>1. PICK v \in Nat, to \in PolicyStates : OpenStatus(a, q, v, to)
    <3>1. CASE OpenApproval(a, q)
      <4>1. PICK v \in VersionsOf(q) : OpenStatus(a, q, v, "active")
        BY <3>1 DEF OpenApproval
      <4>2. v \in Nat
        BY DEF VersionsOf
      <4>3. QED BY <4>1, <4>2 DEF PolicyStates
    <3>2. CASE OpenArchive(a, q) \/ OpenActivate(a, q)
      BY <3>2 DEF OpenArchive, OpenActivate, PolicyStates
    <3>3. QED BY <1>3, <3>1, <3>2
  <2>2. edit' \in [Admins -> Edit]
    BY <2>1, OpenedEdits DEF OpenStatus
  <2>3. QED BY <2>1, <2>2 DEF OpenStatus, governing
<1>4. ASSUME NEW a \in Admins, AddVersion(a) PROVE ScreeningTypeOK'
  <2>1. /\ edit[a].on \in Policies /\ edit[a].number \in Nat
        /\ {{}} \subseteq SUBSET Rules
    BY <1>4 DEF AddVersion, EditsInv, Edit
  <2>2. PICK rules \in SUBSET Rules :
            version' = Append(version, [policy |-> edit[a].on, number |-> edit[a].number,
                                        rules |-> rules, approved |-> FALSE])
    BY <1>4 DEF AddVersion
  <2>3. version' \in Seq(Version)
    BY <2>1, <2>2 DEF Version
  <2>4. QED BY <1>4, <1>k, <2>3 DEF AddVersion
<1>5. ASSUME NEW a \in Admins, CommitStatus(a) PROVE ScreeningTypeOK'
  <2>1. /\ edit[a].on \in Policies /\ edit[a].to \in PolicyStates
        /\ edit[a].number \in {0} \cup VersionsOf(edit[a].on)
    BY <1>5 DEF CommitStatus, EditsInv, Edit
  <2>2. policy' \in [Policies -> PolicyStates]
    BY <1>5, <2>1 DEF CommitStatus
  <2>3. version' \in Seq(Version)
    <3>1. CASE edit[a].number = 0
      BY <1>5, <3>1 DEF CommitStatus
    <3>2. CASE edit[a].number # 0
      <4>1. /\ edit[a].number \in DOMAIN version
            /\ version' = [version EXCEPT ![edit[a].number].approved = TRUE]
        BY <1>5, <2>1, <3>2 DEF CommitStatus, VersionsOf
      <4>2. [version[edit[a].number] EXCEPT !.approved = TRUE] \in Version
        BY <4>1, VersionRows DEF Version
      <4>3. version' = [version EXCEPT ![edit[a].number] =
                            [version[edit[a].number] EXCEPT !.approved = TRUE]]
        BY <4>1
      <4>4. QED BY <4>1, <4>2, <4>3, VersionRows, ExceptSeq
    <3>3. QED BY <3>1, <3>2
  <2>4. edit' \in [Admins -> Edit]
    BY <1>5 DEF CommitStatus
  <2>5. QED BY <1>5, <1>k, <2>2, <2>3, <2>4 DEF CommitStatus
<1>6. ASSUME NEW a \in Admins, DropEdit(a) PROVE ScreeningTypeOK'
  BY <1>6 DEF DropEdit, governing
<1>7. ASSUME NEW u \in UseCases, SaveUseCase(u) PROVE ScreeningTypeOK'
  BY <1>7 DEF SaveUseCase
<1>8. ASSUME NEW g \in Providers, CreateProvider(g) PROVE ScreeningTypeOK'
  BY <1>8 DEF CreateProvider, Connection
<1>9. ASSUME NEW a \in Admins, NEW g \in Providers, OpenProvider(a, g)
      PROVE  ScreeningTypeOK'
  <2>1. edit' \in [Admins -> Edit]
    BY <1>9, OpenedEdits DEF OpenProvider, PolicyStates
  <2>2. QED BY <1>9, <2>1 DEF OpenProvider, governing
<1>10. ASSUME NEW a \in Admins, NEW on \in {"active", "inactive"}, NEW type \in Vendors,
              NEW given \in {"kept", "cleared", "new"}, CommitProvider(a, on, type, given)
       PROVE  ScreeningTypeOK'
  <2>1. edit[a].on \in Providers /\ edit[a].row \in Connection
    BY <1>10 DEF CommitProvider, EditsInv, Edit
  <2>2. KeyAfter(edit[a].row, type, given) \in Vendors \cup {NoVendor}
    BY <2>1 DEF KeyAfter, Connection
  <2>3. provider' \in [Providers -> Connection]
    BY <1>10, <2>1, <2>2 DEF CommitProvider, Connection
  <2>4. QED BY <1>10, <2>3 DEF CommitProvider
<1>11. QED
  BY <1>1, <1>2, <1>3, <1>4, <1>5, <1>6, <1>7, <1>8, <1>9, <1>10 DEF AdminStep

\* The prompts.
LEMMA TypePrompt ==
    ASSUME ScreeningTypeOK, EditsInv, SessionsInv, MasksInv, NEW s \in Sessions,
           PromptStep(s)
    PROVE  ScreeningTypeOK'
<1> USE ScreenConstants DEF ScreeningTypeOK
<1>f. /\ UNCHANGED <<governing, edit, edits, contested, raced>>
      /\ \A t \in Sessions : t # s => screen'[t] = screen[t] /\ stood'[t] = stood[t]
  BY PromptFrame
<1>r. \A v \in DOMAIN version : version[v].rules \subseteq Rules
  BY VersionRows DEF Version
<1>c. /\ screen[s] \in Screened
      /\ screen[s].said \in Prompt
  BY PromptsAreTexts DEF Screened
<1>1. ASSUME NEW g \in Providers, NEW p \in Prompts, OpenChat(s, g, p)
      PROVE  ScreeningTypeOK'
  <2>1. InForce \subseteq Policies \X Rules
    BY DEF InForce
  <2>2. QED BY <1>1, <1>f, <2>1 DEF OpenChat, governing, Screened, NoScreen
<1>2. ASSUME NEW u \in UseCases, NEW g \in Providers, NEW p \in Prompts,
             OpenRequest(s, u, g, p)
      PROVE  ScreeningTypeOK'
  <2>1. (IF useCase[u] = 0 THEN {} ELSE version[useCase[u]].rules) \subseteq Rules
    BY <1>r DEF EditsInv
  <2>2. QED BY <1>2, <1>f, <2>1 DEF OpenRequest, governing, Screened, NoScreen
<1>3. ASSUME NEW q \in Policies, LoadRules(s, q) PROVE ScreeningTypeOK'
  <2>1. PICK rules \in SUBSET Rules :
            screen' = [screen EXCEPT ![s].pending = @ \ {q}, ![s].rules = @ \cup rules]
    <3>1. \A v \in Latest(q) : version[v].rules \in SUBSET Rules
      BY <1>r DEF Latest, VersionsOf
    <3>2. ASSUME NEW rules \in IF Latest(q) = {} THEN {{}}
                               ELSE {version[v].rules : v \in Latest(q)}
          PROVE  rules \in SUBSET Rules
      BY <3>1
    <3>3. QED BY <1>3, <3>2 DEF LoadRules
  <2>2. QED BY <1>3, <1>c, <2>1, <1>f DEF LoadRules, governing, Screened
<1>4. CASE Scan(s)
  <2>1. CASE screen' = [screen EXCEPT ![s].pc = "scan"]
    BY <1>4, <1>c, <2>1 DEF Scan, governing, Screened
  <2>2. ASSUME NEW listed \in {<<>>, screen[s].said.listed},
               NEW named \in {<<>>, screen[s].said.named},
               screen' = [screen EXCEPT ![s] =
                    [@ EXCEPT !.pc = "scan",
                              !.found = screen[s].said.detected \o listed \o named,
                              !.text = [k \in 1..screen[s].said.length |-> k]]]
        PROVE  ScreeningTypeOK'
    <3>1. screen[s].said.detected \o listed \o named \in Seq(Match)
      <4>1. /\ screen[s].said.detected \in Seq(Match)
            /\ listed \in Seq(Match) /\ named \in Seq(Match)
        BY <1>c, EmptySeq DEF Prompt
      <4>2. QED BY <4>1, ConcatProperties
    <3>2. [k \in 1..screen[s].said.length |-> k] \in Seq(Nat)
      BY <1>c DEF Prompt
    <3>3. screen'[s] \in Screened
      BY <1>c, <2>2, <3>1, <3>2 DEF Screened
    <3>4. QED BY <1>4, <1>f, <2>2, <3>3 DEF Scan, governing
  <2>3. QED BY <1>4, <2>1, <2>2 DEF Scan
<1>5. CASE AcceptNext(s)
  <2>1. screen'[s] \in Screened
    <3>0. screen[s].at \in Nat /\ screen[s].at + 1 \in Nat
      BY <1>c DEF Screened
    <3>1. CASE screen' = [screen EXCEPT ![s].at = @ + 1]
      <4>1. screen'[s] = [screen[s] EXCEPT !.at = screen[s].at + 1]
        BY <3>1
      <4>2. QED BY <1>c, <3>0, <4>1 DEF Screened
    <3>2. CASE screen' = [screen EXCEPT ![s] =
                 [screen[s] EXCEPT !.at = screen[s].at + 1,
                                   !.taken = screen[s].taken \cup {screen[s].at},
                                   !.left = screen[s].left \cup {screen[s].at}]]
      <4>1. screen'[s] = [screen[s] EXCEPT !.at = screen[s].at + 1,
                              !.taken = screen[s].taken \cup {screen[s].at},
                              !.left = screen[s].left \cup {screen[s].at}]
        BY <3>2
      <4>2. /\ screen[s].taken \cup {screen[s].at} \in SUBSET Nat
            /\ screen[s].left \cup {screen[s].at} \in SUBSET Nat
        BY <1>c, <3>0 DEF Screened
      <4>3. QED BY <1>c, <3>0, <4>1, <4>2 DEF Screened
    <3>3. QED BY <1>5, <3>1, <3>2 DEF AcceptNext
  <2>2. QED BY <1>5, <1>f, <2>1 DEF AcceptNext, governing
<1>6. CASE MaskNext(s)
  <2>1. PICK i \in screen[s].left :
            screen' = [screen EXCEPT ![s].left = @ \ {i},
                                     ![s].text = Masked(@, screen[s].found[i])]
    BY <1>6 DEF MaskNext
  <2>2. Masked(screen[s].text, screen[s].found[i]) \in Seq(Nat)
    <3>1. /\ screen[s].text \in Seq(Nat) /\ screen[s].found \in Seq(Match)
          /\ screen[s].pc = "scan" /\ screen[s].left # {} /\ ~Blocked(s)
      BY <1>6, <1>c DEF MaskNext, Screened, SessionsInv
    <3>2. AcceptsInv(screen[s])
      BY <3>1 DEF MasksInv
    <3>3. PICK b \in 1..screen[s].said.length + 1 : SplitsAt(screen[s], b)
      BY <3>1 DEF MasksInv
    <3>4. i \in 1..Len(screen[s].found) /\ Len(screen[s].found) \in Nat
      <4>1. Len(screen[s].found) \in Nat
        BY <3>1, LenProperties
      <4>2. QED BY <4>1, <3>2, <2>1 DEF AcceptsInv
    <3>5. /\ screen[s].found[i] \in Match
          /\ Within(screen[s].found[i], screen[s].said.length)
      BY <3>1, <3>2, <3>4, ElementOfSeq, LenProperties DEF AcceptsInv
    <3>6. screen[s].found[i].to <= Len(screen[s].text) + 1
      <4>1. b \in Nat /\ Len(screen[s].text) \in Nat
        BY <3>1, <1>c, LenProperties DEF Prompt
      <4>2. QED BY <4>1, <3>3, <3>5, <2>1 DEF SplitsAt, Match
    <3>7. /\ screen[s].found[i].from \in Nat /\ screen[s].found[i].to \in Nat
          /\ 1 <= screen[s].found[i].from
          /\ screen[s].found[i].from < screen[s].found[i].to
      BY <3>5 DEF Within, Match
    <3>8. QED BY <3>1, <3>6, <3>7, MaskedText
  <2>3. screen'[s] \in Screened
    BY <1>c, <2>1, <2>2 DEF Screened
  <2>4. QED BY <1>6, <1>f, <2>1, <2>3 DEF MaskNext, governing
<1>7. CASE EndsScreen(s)
  BY <1>7 DEF EndsScreen, governing
<1>8. CASE CallChat(s)
  BY <1>8, <1>c DEF CallChat, governing, Screened
<1>9. QED
  BY <1>1, <1>2, <1>3, <1>4, <1>5, <1>6, <1>7, <1>8
     DEF PromptStep, FirewallStep, StoreVerdict, LogChat, DropScreen

-----------------------------------------------------------------------------
(* Screening: what administrators keep                                     *)

\* A step that numbers nothing, and renumbers no version.
LEMMA NumbersKept ==
    ASSUME NumbersInv, contested \subseteq contested',
           \A q \in Policies : VersionsOf(q)' = VersionsOf(q),
           \A q \in Policies : \A v \in VersionsOf(q) : version'[v].number = version[v].number,
           \A a \in Admins, q \in Policies :
               Numbers(a, q)' => Numbers(a, q) /\ edit'[a].number = edit[a].number
    PROVE  NumbersInv'
BY DEF NumbersInv

\* A step that updates no provider.
LEMMA KeysKept ==
    ASSUME KeysInv, UNCHANGED provider, raced \subseteq raced',
           \A a \in Admins, g \in Providers :
               Updates(a, g)' => Updates(a, g) /\ edit'[a].row = edit[a].row
    PROVE  KeysInv'
BY DEF KeysInv

\* The versions stay whose they are.
LEMMA SameVersions ==
    ASSUME DOMAIN version' = DOMAIN version,
           \A v \in DOMAIN version : version'[v].policy = version[v].policy
    PROVE  \A q \in Policies : VersionsOf(q)' = VersionsOf(q)
BY DEF VersionsOf

GovernInv == NumbersInv /\ KeysInv /\ EditsInv

\* A call ends, or one opens that neither numbers a version nor updates a provider.
LEMMA GovernOpenStatus ==
    ASSUME ScreeningTypeOK, GovernInv, NEW a \in Admins, NEW q \in Policies,
           NEW to \in {"active", "archived"}, NEW v \in {0} \cup VersionsOf(q),
           OpenStatus(a, q, v, to)
    PROVE  GovernInv'
<1> USE DEF GovernInv
<1>1. /\ UNCHANGED <<policy, version, useCase, provider, contested, raced>>
      /\ \A b \in Admins : b # a => edit'[b] = edit[b]
      /\ edit'[a].pc = "status" /\ edit'[a].on = q /\ edit'[a].number = v
      /\ edit'[a].to = to
  BY DEF OpenStatus, governing, ScreeningTypeOK, NoEdit
<1>2. \A r \in Policies : VersionsOf(r)' = VersionsOf(r)
  BY <1>1 DEF VersionsOf
<1>3. NumbersInv'
  BY <1>1, <1>2, NumbersKept DEF Numbers
<1>4. KeysInv'
  BY <1>1, KeysKept DEF Updates
<1>5. EditsInv'
  BY <1>1, <1>2 DEF EditsInv, Numbers
<1>6. QED BY <1>3, <1>4, <1>5

LEMMA GovernDropEdit ==
    ASSUME ScreeningTypeOK, GovernInv, NEW a \in Admins, DropEdit(a)
    PROVE  GovernInv'
<1> USE DEF GovernInv
<1>1. /\ UNCHANGED <<policy, version, useCase, provider, contested, raced>>
      /\ \A b \in Admins : b # a => edit'[b] = edit[b]
      /\ edit'[a].pc = "idle"
  BY DEF DropEdit, governing, ScreeningTypeOK, NoEdit
<1>2. \A r \in Policies : VersionsOf(r)' = VersionsOf(r)
  BY <1>1 DEF VersionsOf
<1>3. NumbersInv'
  BY <1>1, <1>2, NumbersKept DEF Numbers
<1>4. KeysInv'
  BY <1>1, KeysKept DEF Updates
<1>5. EditsInv'
  BY <1>1, <1>2 DEF EditsInv, Numbers
<1>6. QED BY <1>3, <1>4, <1>5

\* The first version of a policy: nobody else numbers one before the policy exists.
LEMMA GovernCreatePolicy ==
    ASSUME ScreeningTypeOK, GovernInv, NEW a \in Admins, NEW q \in Policies, CreatePolicy(a, q)
    PROVE  GovernInv'
<1> USE DEF GovernInv
<1>1. /\ UNCHANGED <<version, useCase, provider, contested, raced>>
      /\ policy[q] = "none" /\ policy' = [policy EXCEPT ![q] = "draft"]
      /\ policy'[q] = "draft" /\ \A r \in Policies : r # q => policy'[r] = policy[r]
      /\ \A b \in Admins : b # a => edit'[b] = edit[b]
      /\ edit'[a].pc = "first" /\ edit'[a].on = q /\ edit'[a].number = 1
  BY DEF CreatePolicy, ScreeningTypeOK, NoEdit
<1>2. \A r \in Policies : VersionsOf(r)' = VersionsOf(r)
  BY <1>1 DEF VersionsOf
<1>3. VersionsOf(q) = {} /\ \A b \in Admins : ~Numbers(b, q)
  BY <1>1 DEF EditsInv
<1>4. NumbersInv'
  BY <1>1, <1>2, <1>3 DEF NumbersInv, Numbers
<1>5. KeysInv'
  BY <1>1, KeysKept DEF Updates
<1>6. EditsInv'
  BY <1>1, <1>2, <1>3 DEF EditsInv, Numbers
<1>7. QED BY <1>4, <1>5, <1>6

LEMMA GovernOpenVersion ==
    ASSUME ScreeningTypeOK, GovernInv, NEW a \in Admins, NEW q \in Policies, OpenVersion(a, q)
    PROVE  GovernInv'
<1> USE DEF GovernInv
<1>0. PICK n \in NextNumbers(q) :
          edit' = [edit EXCEPT ![a] = [NoEdit EXCEPT !.pc = "version", !.on = q, !.number = n]]
  BY DEF OpenVersion
<1>1. /\ UNCHANGED <<policy, version, useCase, provider, raced>>
      /\ policy[q] # "none"
      /\ contested' = contested \cup IF \E b \in Admins : Numbers(b, q) THEN {q} ELSE {}
  BY DEF OpenVersion, governing
<1>2. /\ \A b \in Admins : b # a => edit'[b] = edit[b]
      /\ edit'[a].pc = "version" /\ edit'[a].on = q /\ edit'[a].number = n
  BY <1>0 DEF ScreeningTypeOK, NoEdit
<1>3. \A r \in Policies : VersionsOf(r)' = VersionsOf(r)
  BY <1>1 DEF VersionsOf
<1>4. \A v \in VersionsOf(q) : version[v].number < n
  BY DEF NextNumbers
<1>5. NumbersInv'
  <2>1. ASSUME NEW r \in Policies \ contested'
        PROVE  /\ \A v, w \in VersionsOf(r) : version[v].number = version[w].number => v = w
               /\ \A b \in Admins : Numbers(b, r)' =>
                      /\ \A v \in VersionsOf(r) : version[v].number < edit'[b].number
                      /\ \A c \in Admins : Numbers(c, r)' => b = c
    <3>1. r \in Policies \ contested
      BY <1>1
    <3>2. CASE r = q
      <4>1. \A b \in Admins : ~Numbers(b, q)
        BY <1>1, <3>2
      <4>2. \A b \in Admins : Numbers(b, q)' => b = a
        BY <1>2, <4>1 DEF Numbers
      <4>3. QED BY <1>2, <1>4, <3>1, <3>2, <4>2 DEF NumbersInv
    <3>3. CASE r # q
      <4>1. \A b \in Admins : Numbers(b, r)' => Numbers(b, r) /\ edit'[b] = edit[b]
        BY <1>2, <3>3 DEF Numbers
      <4>2. QED BY <3>1, <4>1 DEF NumbersInv
    <3>4. QED BY <3>2, <3>3
  <2>2. QED BY <1>1, <1>3, <2>1 DEF NumbersInv
<1>6. KeysInv'
  BY <1>1, <1>2, KeysKept DEF Updates
<1>7. EditsInv'
  BY <1>1, <1>2, <1>3 DEF EditsInv, Numbers
<1>8. QED BY <1>5, <1>6, <1>7

\* A version is added by the only call that numbers one, whose number is the highest.
LEMMA GovernAddVersion ==
    ASSUME ScreeningTypeOK, GovernInv, NEW a \in Admins, AddVersion(a)
    PROVE  GovernInv'
<1> USE DEF GovernInv
<1>a. PICK q \in Policies : edit[a].on = q
  BY DEF AddVersion, EditsInv
<1>b. PICK n \in Nat : Len(version) = n
  BY VersionRows
<1>c. PICK k \in Nat : edit[a].number = k
  BY DEF ScreeningTypeOK, Edit
<1>0. PICK rules \in SUBSET Rules :
          version' = Append(version, [policy |-> q, number |-> k,
                                      rules |-> rules, approved |-> FALSE])
  <2>1. {{}} \subseteq SUBSET Rules
    OBVIOUS
  <2>2. QED BY <1>a, <1>c, <2>1 DEF AddVersion
<1>1. /\ UNCHANGED <<policy, useCase, provider, contested, raced>>
      /\ Numbers(a, q)
      /\ \A b \in Admins : b # a => edit'[b] = edit[b]
      /\ edit'[a].pc = "idle"
  BY <1>a DEF AddVersion, ScreeningTypeOK, NoEdit, Numbers
<1>2. /\ DOMAIN version = 1..n /\ DOMAIN version' = 1..n + 1
      /\ \A v \in 1..n : version'[v] = version[v]
      /\ version'[n + 1].policy = q /\ version'[n + 1].number = k
  <2> DEFINE row == [policy |-> q, number |-> k, rules |-> rules, approved |-> FALSE]
  <2>1. row \in Version /\ version \in Seq(Version)
    BY DEF Version, ScreeningTypeOK
  <2>2. row.policy = q /\ row.number = k /\ version' = Append(version, row)
    BY <1>0
  <2> HIDE DEF row
  <2>3. /\ version' \in Seq(Version) /\ Len(version') = n + 1
        /\ \A v \in 1..n : version'[v] = version[v]
        /\ version'[n + 1] = row
    BY <1>b, <2>1, <2>2, AppendProperties
  <2>4. QED BY <1>b, <2>1, <2>2, <2>3, LenProperties
<1>3. /\ VersionsOf(q)' = VersionsOf(q) \cup {n + 1}
      /\ n + 1 \notin VersionsOf(q)
      /\ \A r \in Policies : r # q => VersionsOf(r)' = VersionsOf(r)
  <2>1. n + 1 \notin 1..n /\ 1..n + 1 = 1..n \cup {n + 1}
    OBVIOUS
  <2>2. QED BY <1>2, <2>1 DEF VersionsOf
<1>4. \A r \in Policies : \A v \in VersionsOf(r) : version'[v] = version[v]
  BY <1>2 DEF VersionsOf
<1>5. NumbersInv'
  <2>1. ASSUME NEW r \in Policies \ contested
        PROVE  /\ \A v, w \in VersionsOf(r)' : version'[v].number = version'[w].number => v = w
               /\ \A b \in Admins : Numbers(b, r)' =>
                      /\ \A v \in VersionsOf(r)' : version'[v].number < edit'[b].number
                      /\ \A c \in Admins : Numbers(c, r)' => b = c
    <3>1. CASE r = q
      <4>1. \A v \in VersionsOf(q) : version[v].number < k
        BY <1>1, <1>c, <3>1 DEF NumbersInv
      <4>2. \A b \in Admins : ~Numbers(b, q)'
        <5>1. \A b \in Admins : Numbers(b, q) => b = a
          BY <1>1, <3>1 DEF NumbersInv
        <5>2. QED BY <1>1, <5>1 DEF Numbers
      <4>3. \A v \in VersionsOf(q) : version[v].number \in Nat
        BY VersionRows DEF VersionsOf, Version
      <4>4. ASSUME NEW v, NEW w, v \in VersionsOf(q)', w \in VersionsOf(q)',
                   version'[v].number = version'[w].number
            PROVE  v = w
        <5>1. CASE v \in VersionsOf(q) /\ w \in VersionsOf(q)
          BY <1>4, <3>1, <4>4, <5>1 DEF NumbersInv
        <5>2. CASE v = n + 1 /\ w = n + 1
          BY <5>2
        <5>3. CASE v \in VersionsOf(q) /\ w = n + 1
          BY <1>2, <1>4, <4>1, <4>3, <4>4, <5>3
        <5>4. CASE v = n + 1 /\ w \in VersionsOf(q)
          BY <1>2, <1>4, <4>1, <4>3, <4>4, <5>4
        <5>5. QED BY <1>3, <4>4, <5>1, <5>2, <5>3, <5>4
      <4>5. QED BY <3>1, <4>2, <4>4
    <3>2. CASE r # q
      <4>1. \A b \in Admins : Numbers(b, r)' => Numbers(b, r) /\ edit'[b] = edit[b]
        BY <1>1, <3>2 DEF Numbers
      <4>2. QED BY <1>3, <1>4, <3>2, <4>1 DEF NumbersInv
    <3>3. QED BY <3>1, <3>2
  <2>2. QED BY <1>1, <2>1 DEF NumbersInv
<1>6. KeysInv'
  BY <1>1, KeysKept DEF Updates
<1>7. EditsInv'
  <2>1. policy[q] # "none"
    BY <1>1 DEF EditsInv
  <2>2. ASSUME NEW r \in Policies, policy[r] = "none"
        PROVE  VersionsOf(r)' = {} /\ \A b \in Admins : ~Numbers(b, r)'
    BY <1>1, <1>3, <2>1, <2>2 DEF EditsInv, Numbers
  <2>3. ASSUME NEW b \in Admins
        PROVE  /\ edit'[b].pc \in {"first", "version", "status"} => edit'[b].on \in Policies
               /\ edit'[b].pc = "status" =>
                      /\ edit'[b].number \in {0} \cup VersionsOf(edit[b].on)'
                      /\ edit'[b].to # "none"
               /\ edit'[b].pc = "provider" => edit'[b].on \in Providers
    <3>1. CASE b = a
      BY <1>1, <3>1
    <3>2. CASE b # a
      <4>1. edit'[b] = edit[b]
        BY <1>1, <3>2
      <4>2. ASSUME edit[b].pc = "status"
            PROVE  edit'[b].number \in {0} \cup VersionsOf(edit[b].on)'
        <5>1. PICK r \in Policies : edit[b].on = r
          BY <4>2 DEF EditsInv
        <5>2. edit[b].number \in {0} \cup VersionsOf(r)
          BY <4>2, <5>1 DEF EditsInv
        <5>3. VersionsOf(r) \subseteq VersionsOf(r)'
          BY <1>3
        <5>4. edit'[b].on = r
          BY <4>1, <5>1
        <5>5. QED BY <4>1, <5>2, <5>3, <5>4
      <4>3. QED BY <4>1, <4>2 DEF EditsInv
    <3>3. QED BY <3>1, <3>2
  <2>4. \A u \in UseCases : useCase'[u] \in {0} \cup DOMAIN version'
    BY <1>1, <1>2 DEF EditsInv
  <2>5. QED BY <1>1, <2>2, <2>3, <2>4 DEF EditsInv
<1>8. QED BY <1>5, <1>6, <1>7

\* An approval touches no number, and leaves the versions whose they are.
LEMMA GovernCommitStatus ==
    ASSUME ScreeningTypeOK, GovernInv, NEW a \in Admins, CommitStatus(a)
    PROVE  GovernInv'
<1> USE DEF GovernInv
<1>a. PICK q \in Policies : edit[a].on = q
  BY DEF CommitStatus, EditsInv
<1>1. /\ UNCHANGED <<useCase, provider, contested, raced>>
      /\ \A b \in Admins : b # a => edit'[b] = edit[b]
      /\ edit'[a].pc = "idle"
      /\ \A r \in Policies : r # q => policy'[r] = policy[r]
  BY <1>a DEF CommitStatus, ScreeningTypeOK, NoEdit
<1>2. /\ DOMAIN version' = DOMAIN version
      /\ \A v \in DOMAIN version : /\ version'[v].policy = version[v].policy
                                   /\ version'[v].number = version[v].number
  BY VersionRows DEF CommitStatus, Version
<1>3. \A r \in Policies : VersionsOf(r)' = VersionsOf(r)
  BY <1>2, SameVersions
<1>4. NumbersInv'
  <2>1. \A r \in Policies : \A v \in VersionsOf(r) : version'[v].number = version[v].number
    BY <1>2 DEF VersionsOf
  <2>2. QED BY <1>1, <1>3, <2>1, NumbersKept DEF Numbers
<1>5. KeysInv'
  BY <1>1, KeysKept DEF Updates
<1>6. EditsInv'
  <2>1. ASSUME policy'[q] = "none" PROVE policy[q] = "none"
    <3>1. edit[a].to # "none"
      BY DEF CommitStatus, EditsInv
    <3>2. policy'[q] \in {policy[q], edit[a].to}
      BY <1>a DEF CommitStatus, ScreeningTypeOK
    <3>3. QED BY <2>1, <3>1, <3>2
  <2>2. ASSUME NEW r \in Policies, policy'[r] = "none"
        PROVE  VersionsOf(r)' = {} /\ \A b \in Admins : ~Numbers(b, r)'
    BY <1>1, <1>3, <2>1, <2>2 DEF EditsInv, Numbers
  <2>3. QED BY <1>1, <1>2, <1>3, <2>2 DEF EditsInv
<1>7. QED BY <1>4, <1>5, <1>6

LEMMA GovernSaveUseCase ==
    ASSUME ScreeningTypeOK, GovernInv, NEW u \in UseCases, SaveUseCase(u)
    PROVE  GovernInv'
<1> USE DEF GovernInv
<1>1. /\ UNCHANGED <<policy, version, provider, edit, contested, raced>>
      /\ \A w \in UseCases : useCase'[w] \in {useCase[w]} \cup DOMAIN version
  BY DEF SaveUseCase, ScreeningTypeOK
<1>2. \A r \in Policies : VersionsOf(r)' = VersionsOf(r)
  BY <1>1 DEF VersionsOf
<1>3. NumbersInv'
  BY <1>1, <1>2, NumbersKept DEF Numbers
<1>4. KeysInv'
  BY <1>1, KeysKept DEF Updates
<1>5. EditsInv'
  BY <1>1, <1>2 DEF EditsInv, Numbers
<1>6. QED BY <1>3, <1>4, <1>5

\* What concerns the policies alone, at a step that leaves them alone.
LEMMA PoliciesAlone ==
    ASSUME NumbersInv, EditsInv, UNCHANGED <<policy, version, useCase, contested>>,
           \A a \in Admins :
               \/ edit'[a] = edit[a] \/ edit'[a].pc = "idle"
               \/ edit'[a].pc = "provider" /\ edit'[a].on \in Providers
    PROVE  NumbersInv' /\ EditsInv'
<1>1. \A r \in Policies : VersionsOf(r)' = VersionsOf(r)
  BY DEF VersionsOf
<1>2. NumbersInv'
  BY <1>1, NumbersKept DEF Numbers
<1>3. EditsInv'
  BY <1>1 DEF EditsInv, Numbers
<1>4. QED BY <1>2, <1>3

LEMMA GovernCreateProvider ==
    ASSUME ScreeningTypeOK, GovernInv, NEW g \in Providers, CreateProvider(g)
    PROVE  GovernInv'
<1> USE DEF GovernInv
<1>1. /\ UNCHANGED <<policy, version, useCase, edit, contested, raced>>
      /\ provider[g].status = "none"
      /\ provider'[g].key \in {NoVendor, provider'[g].type}
      /\ provider'[g].status # "none"
      /\ \A h \in Providers : h # g => provider'[h] = provider[h]
  BY DEF CreateProvider, ScreeningTypeOK
<1>2. NumbersInv' /\ EditsInv'
  BY <1>1, PoliciesAlone
<1>3. \A a \in Admins : ~Updates(a, g)
  BY <1>1 DEF KeysInv
<1>4. KeysInv'
  BY <1>1, <1>3 DEF KeysInv, Updates
<1>5. QED BY <1>2, <1>4

LEMMA GovernOpenProvider ==
    ASSUME ScreeningTypeOK, GovernInv, NEW a \in Admins, NEW g \in Providers,
           OpenProvider(a, g)
    PROVE  GovernInv'
<1> USE DEF GovernInv
<1>1. /\ UNCHANGED <<policy, version, useCase, provider, contested>>
      /\ raced' = raced \cup IF \E b \in Admins : Updates(b, g) THEN {g} ELSE {}
      /\ provider[g].status # "none"
      /\ edit[a].pc = "idle"
      /\ \A b \in Admins : b # a => edit'[b] = edit[b]
      /\ edit'[a].pc = "provider" /\ edit'[a].on = g /\ edit'[a].row = provider[g]
  BY DEF OpenProvider, governing, ScreeningTypeOK, NoEdit
<1>2. NumbersInv' /\ EditsInv'
  BY <1>1, PoliciesAlone
<1>3. KeysInv'
  <2>1. ASSUME NEW h \in Providers, h \notin raced'
        PROVE  /\ provider[h].key \in {NoVendor, provider[h].type}
               /\ \A b \in Admins : Updates(b, h)' =>
                      /\ edit'[b].row = provider[h]
                      /\ \A c \in Admins : Updates(c, h)' => b = c
    <3>1. h \notin raced
      BY <1>1, <2>1
    <3>2. CASE h = g
      <4>1. \A b \in Admins : ~Updates(b, g)
        BY <1>1, <2>1, <3>2
      <4>2. \A b \in Admins : Updates(b, g)' => b = a
        BY <1>1, <4>1 DEF Updates
      <4>3. QED BY <1>1, <3>1, <3>2, <4>2 DEF KeysInv
    <3>3. CASE h # g
      <4>1. \A b \in Admins : Updates(b, h)' => Updates(b, h) /\ edit'[b] = edit[b]
        BY <1>1, <3>3 DEF Updates
      <4>2. QED BY <3>1, <4>1 DEF KeysInv
    <3>4. QED BY <3>2, <3>3
  <2>2. \A h \in Providers, b \in Admins : Updates(b, h)' => provider[h].status # "none"
    BY <1>1 DEF KeysInv, Updates
  <2>3. QED BY <1>1, <2>1, <2>2 DEF KeysInv
<1>4. QED BY <1>2, <1>3

\* The only update under way has loaded the row as it is: what it writes is the row it
\* means, with a key of the vendor it names.
LEMMA GovernCommitProvider ==
    ASSUME ScreeningTypeOK, GovernInv, NEW a \in Admins, NEW on \in {"active", "inactive"},
           NEW type \in Vendors, NEW given \in {"kept", "cleared", "new"},
           CommitProvider(a, on, type, given)
    PROVE  GovernInv'
<1> USE DEF GovernInv
<1>a. PICK g \in Providers : edit[a].on = g
  BY DEF CommitProvider, EditsInv
<1> DEFINE seen == edit[a].row
           new == [status |-> on, type |-> type, key |-> KeyAfter(seen, type, given)]
<1>1. /\ UNCHANGED <<policy, version, useCase, contested, raced>>
      /\ Updates(a, g)
      /\ \A b \in Admins : b # a => edit'[b] = edit[b]
      /\ edit'[a].pc = "idle"
      /\ \A h \in Providers : h # g => provider'[h] = provider[h]
  BY <1>a DEF CommitProvider, ScreeningTypeOK, NoEdit, Updates
<1>2. NumbersInv' /\ EditsInv'
  BY <1>1, PoliciesAlone
<1>3. ASSUME g \notin raced
      PROVE  /\ provider'[g].key \in {NoVendor, provider'[g].type}
             /\ \A b \in Admins : ~Updates(b, g)'
  <2>1. seen = provider[g] /\ provider[g].key \in {NoVendor, provider[g].type}
    BY <1>1, <1>3 DEF KeysInv
  <2>2. provider'[g] = [c \in DOMAIN new |->
           IF new[c] = seen[c] /\ ~(c = "key" /\ given = "new") THEN provider[g][c] ELSE new[c]]
    BY <1>a DEF CommitProvider, ScreeningTypeOK
  <2>3. provider'[g].key = new.key /\ provider'[g].type = new.type
    BY <2>1, <2>2
  <2>4. new.key \in {NoVendor, type}
    BY <2>1 DEF KeyAfter
  <2>5. \A b \in Admins : Updates(b, g) => b = a
    BY <1>1, <1>3 DEF KeysInv
  <2>6. QED BY <1>1, <2>3, <2>4, <2>5 DEF Updates
<1>4. KeysInv'
  <2>1. ASSUME NEW h \in Providers, h \notin raced, h # g
        PROVE  /\ provider'[h] = provider[h]
               /\ \A b \in Admins : Updates(b, h)' => Updates(b, h) /\ edit'[b] = edit[b]
    BY <1>1, <2>1 DEF Updates
  <2>2. ASSUME NEW h \in Providers, NEW b \in Admins, Updates(b, h)'
        PROVE  provider'[h].status # "none"
    <3>1. provider[h].status # "none"
      <4>1. CASE b = a
        BY <1>1, <2>2, <4>1 DEF Updates, KeysInv
      <4>2. CASE b # a
        BY <1>1, <2>2, <4>2 DEF Updates, KeysInv
      <4>3. QED BY <4>1, <4>2
    <3>2. CASE h = g
      <4>1. provider'[g].status \in {provider[g].status, on}
        BY <1>a DEF CommitProvider, ScreeningTypeOK
      <4>2. QED BY <3>1, <3>2, <4>1
    <3>3. CASE h # g
      BY <1>1, <3>1, <3>3
    <3>4. QED BY <3>2, <3>3
  <2>3. QED BY <1>1, <1>3, <2>1, <2>2 DEF KeysInv
<1>5. QED BY <1>2, <1>4

\* Prompts and the pipeline leave what administrators keep alone.
LEMMA GovernKept ==
    ASSUME GovernInv, UNCHANGED <<governing, edit, contested, raced>>
    PROVE  GovernInv'
<1> USE DEF GovernInv
<1>1. \A a \in Admins : edit'[a] = edit[a]
  OBVIOUS
<1>2. NumbersInv' /\ EditsInv'
  BY <1>1, PoliciesAlone DEF governing
<1>3. KeysInv'
  BY KeysKept DEF Updates, governing
<1>4. QED BY <1>2, <1>3

LEMMA GovernAdmin ==
    ASSUME ScreeningTypeOK, GovernInv, AdminStep
    PROVE  GovernInv'
<1>1. ASSUME NEW a \in Admins, NEW q \in Policies,
             OpenApproval(a, q) \/ OpenArchive(a, q) \/ OpenActivate(a, q)
      PROVE  \E v \in {0} \cup VersionsOf(q), to \in {"active", "archived"} :
                 OpenStatus(a, q, v, to)
  BY <1>1 DEF OpenApproval, OpenArchive, OpenActivate
<1>2. QED
  BY <1>1, GovernCreatePolicy, GovernOpenVersion, GovernOpenStatus, GovernAddVersion,
     GovernCommitStatus, GovernDropEdit, GovernSaveUseCase, GovernCreateProvider,
     GovernOpenProvider, GovernCommitProvider DEF AdminStep

-----------------------------------------------------------------------------
(* Screening: the sessions                                                 *)

\* What SessionsInv says of one session.
SessionInv(s) ==
    /\ screen[s].pc # "idle" => api[s].pc = "idle"
    /\ screen[s].pc \in {"scan", "called"} => screen[s].pending = {}
    /\ screen[s].pc \in {"idle", "rules"} \/ Blocked(s) =>
           screen[s].found = <<>> /\ screen[s].at = 1
           /\ screen[s].taken = {} /\ screen[s].left = {}
    /\ screen[s].pc = "called" => Scanned(s) /\ Verdict(s) = "pending"

LEMMA SessionByOne == SessionsInv <=> \A s \in Sessions : SessionInv(s)
BY DEF SessionsInv, SessionInv

LEMMA SameSession ==
    ASSUME NEW s \in Sessions, SessionInv(s), screen'[s] = screen[s],
           screen[s].pc = "idle" \/ api'[s] = api[s]
    PROVE  SessionInv(s)'
BY DEF SessionInv, Blocked, Scanned, Verdict

LEMMA SessionsPrompt ==
    ASSUME TypeOK, ScreeningTypeOK, SessionsInv, NEW s \in Sessions, PromptStep(s)
    PROVE  SessionsInv'
<1>c. screen \in [Sessions -> Screened]
  BY DEF ScreeningTypeOK
<1>p. /\ screen[s].pc \in {"idle", "rules", "scan", "called"}
      /\ \A new : screen' = [screen EXCEPT ![s] = new] => screen'[s] = new
  BY <1>c DEF Screened
<1>f. \A t \in Sessions : t # s => screen'[t] = screen[t] /\ stood'[t] = stood[t]
  BY PromptFrame
<1>a. \A t \in Sessions : t # s => api'[t] = api[t]
  BY DEF PromptStep, FirewallStep, OpenChat, OpenRequest, LoadRules, Scan, AcceptNext,
         MaskNext, StoreVerdict, LogChat, CallChat, DropScreen, EndsScreen, CreateRequest,
         vars, TypeOK
<1>s. SessionInv(s)
  BY SessionByOne
<1>o. SUFFICES SessionInv(s)'
  <2>1. \A t \in Sessions : t # s => SessionInv(t)'
    BY <1>f, <1>a, SessionByOne, SameSession
  <2>2. QED BY <2>1 DEF SessionsInv, SessionInv
<1>1. ASSUME NEW g \in Providers, NEW p \in Prompts,
             OpenChat(s, g, p) \/ \E u \in UseCases : OpenRequest(s, u, g, p)
      PROVE  SessionInv(s)'
  <2>1. api[s].pc = "idle" /\ api' = api
    BY <1>1 DEF OpenChat, OpenRequest, vars
  <2>2. /\ screen'[s].pc = "rules" /\ screen'[s].found = <<>> /\ screen'[s].at = 1
        /\ screen'[s].taken = {} /\ screen'[s].left = {}
    <3>1. CASE OpenChat(s, g, p)
      BY <1>c, <3>1 DEF OpenChat, NoScreen
    <3>2. ASSUME NEW u \in UseCases, OpenRequest(s, u, g, p)
          PROVE  /\ screen'[s].pc = "rules" /\ screen'[s].found = <<>> /\ screen'[s].at = 1
                 /\ screen'[s].taken = {} /\ screen'[s].left = {}
      BY <1>c, <3>2 DEF OpenRequest, NoScreen
    <3>3. QED BY <1>1, <3>1, <3>2
  <2>3. QED BY <2>1, <2>2 DEF SessionInv
<1>2. ASSUME NEW q \in Policies, LoadRules(s, q) PROVE SessionInv(s)'
  <2>1. /\ screen[s].pc = "rules" /\ screen'[s].pc = "rules" /\ api' = api
        /\ screen'[s].found = screen[s].found /\ screen'[s].at = screen[s].at
        /\ screen'[s].taken = screen[s].taken /\ screen'[s].left = screen[s].left
    BY <1>c, <1>2 DEF LoadRules, vars, Screened
  <2>2. QED BY <1>s, <2>1 DEF SessionInv
<1>3. CASE Scan(s)
  <2>1. /\ screen[s].pc = "rules" /\ screen'[s].pc = "scan" /\ api' = api
        /\ screen'[s].pending = {}
        /\ Blocked(s)' <=> Blocked(s)
    <3>1. CASE screen' = [screen EXCEPT ![s].pc = "scan"]
      BY <1>c, <1>3, <3>1 DEF Scan, vars, Screened, Blocked
    <3>2. ASSUME NEW found, NEW text,
                 screen' = [screen EXCEPT ![s] =
                     [@ EXCEPT !.pc = "scan", !.found = found, !.text = text]]
          PROVE  /\ screen'[s].pc = "scan" /\ screen'[s].pending = screen[s].pending
                 /\ Blocked(s)' <=> Blocked(s)
      BY <1>c, <3>2 DEF Screened, Blocked
    <3>3. QED BY <1>3, <3>1, <3>2 DEF Scan, vars
  <2>2. CASE Blocked(s)
    <3>1. screen'[s] = [screen[s] EXCEPT !.pc = "scan"]
      BY <1>c, <1>3, <2>2 DEF Scan, Screened
    <3>2. /\ screen'[s].found = screen[s].found /\ screen'[s].at = screen[s].at
          /\ screen'[s].taken = screen[s].taken /\ screen'[s].left = screen[s].left
      BY <1>c, <3>1 DEF Screened
    <3>3. QED BY <1>s, <2>1, <3>2 DEF SessionInv
  <2>3. CASE ~Blocked(s)
    BY <1>s, <2>1, <2>3 DEF SessionInv
  <2>4. QED BY <2>2, <2>3
<1>4. CASE AcceptNext(s) \/ MaskNext(s)
  <2>1. ~Blocked(s) /\ screen[s].pc = "scan"
    <3>1. screen[s].pc = "scan"
      BY <1>4 DEF AcceptNext, MaskNext
    <3>2. CASE AcceptNext(s)
      <4>1. screen[s].at \in DOMAIN screen[s].found
        BY <3>2 DEF AcceptNext
      <4>2. DOMAIN <<>> = {}
        OBVIOUS
      <4>3. screen[s].found # <<>>
        BY <4>1, <4>2
      <4>4. QED BY <1>s, <3>1, <4>3 DEF SessionInv
    <3>3. CASE MaskNext(s)
      BY <1>s, <3>1, <3>3 DEF MaskNext, SessionInv
    <3>4. QED BY <1>4, <3>1, <3>2, <3>3
  <2>2. /\ screen'[s].pc = "scan" /\ api' = api
        /\ screen'[s].pending = screen[s].pending
        /\ Blocked(s)' <=> Blocked(s)
    <3>1. CASE AcceptNext(s)
      <4>1. screen[s].pc = "scan" /\ api' = api
        BY <3>1 DEF AcceptNext, vars
      <4>2. CASE screen' = [screen EXCEPT ![s].at = @ + 1]
        BY <1>c, <4>1, <4>2 DEF Screened, Blocked
      <4>3. ASSUME NEW at, NEW taken, NEW left,
                   screen' = [screen EXCEPT ![s] =
                       [screen[s] EXCEPT !.at = at, !.taken = taken, !.left = left]]
            PROVE  /\ screen'[s].pc = "scan" /\ api' = api
                   /\ screen'[s].pending = screen[s].pending
                   /\ Blocked(s)' <=> Blocked(s)
        BY <1>c, <4>1, <4>3 DEF Screened, Blocked
      <4>4. QED BY <3>1, <4>2, <4>3 DEF AcceptNext
    <3>2. CASE MaskNext(s)
      BY <1>c, <3>2 DEF MaskNext, vars, Screened, Blocked
    <3>3. QED BY <1>4, <3>1, <3>2
  <2>3. QED BY <1>s, <2>1, <2>2 DEF SessionInv
<1>5. CASE EndsScreen(s)
  <2>1. screen'[s] = NoScreen
    BY <1>p, <1>5 DEF EndsScreen
  <2>2. QED BY <2>1 DEF SessionInv, NoScreen
<1>6. CASE CallChat(s)
  <2>1. /\ screen[s].pc = "scan" /\ screen'[s] = [screen[s] EXCEPT !.pc = "called"]
        /\ api' = api /\ Scanned(s) /\ Verdict(s) = "pending"
    BY <1>c, <1>6 DEF CallChat, vars, Screened
  <2>2. QED BY <1>c, <1>s, <2>1 DEF SessionInv, Scanned, Verdict, Blocked, Screened
<1>7. QED
  BY <1>1, <1>2, <1>3, <1>4, <1>5, <1>6
     DEF PromptStep, FirewallStep, StoreVerdict, LogChat, DropScreen

LEMMA SessionsStep ==
    ASSUME TypeOK, ScreeningTypeOK, SessionsInv, ScreeningNext
    PROVE  SessionsInv'
<1>0. \A s \in Sessions : SessionInv(s)
  BY SessionByOne
<1>1. CASE AdminStep
  <2>1. screen' = screen /\ api' = api
    BY <1>1, AdminFrame DEF vars
  <2>2. \A s \in Sessions : SessionInv(s)'
    BY <1>0, <2>1, SameSession
  <2>3. QED BY <2>2 DEF SessionsInv, SessionInv
<1>2. CASE PipelineStep
  <2>1. screen' = screen
    BY <1>2 DEF PipelineStep, screening
  <2>2. \A s \in Sessions : screen[s].pc = "idle" \/ api'[s] = api[s]
    <3>1. ASSUME NEW t \in Sessions, screen[t].pc = "idle", ServedStep(t), NEW s \in Sessions
          PROVE  screen[s].pc = "idle" \/ api'[s] = api[s]
      BY <3>1 DEF ServedStep, SendTask, AbandonCall, OpenSubmission, CommitSubmission,
           OpenDecision, LoadDecidedRequest, CommitDecision, OpenOverride, CommitOverride,
           TypeOK
    <3>2. ASSUME NEW w \in Workers, WorkerStep(w) PROVE api' = api
      BY <3>2 DEF WorkerStep, TakeMessage, CallProvider, SkipProvider, CommitAnswer,
           AckMessage, WorkerLost
    <3>3. QED BY <1>2, <3>1, <3>2 DEF PipelineStep
  <2>3. \A s \in Sessions : SessionInv(s)'
    BY <1>0, <2>1, <2>2, SameSession
  <2>4. QED BY <2>3 DEF SessionsInv, SessionInv
<1>3. QED BY <1>1, <1>2, SessionsPrompt DEF ScreeningNext

-----------------------------------------------------------------------------
(* Screening: the rules in force                                           *)

\* Only an administrator's commit changes what is in force, and it updates what still
\* stands for the chats that are open.
LEMMA InForceKept ==
    ASSUME UNCHANGED <<policy, version>>
    PROVE  InForce' = InForce
BY DEF InForce, Latest, VersionsOf

LEMMA StandingAdmin ==
    ASSUME ScreeningTypeOK, StandingInv, AdminStep
    PROVE  StandingInv'
<1>1. screen' = screen
  BY AdminFrame
<1>2. KeepsStanding \/ UNCHANGED <<policy, version, stood>>
  BY AdminFrame
<1>3. \A s \in Sessions : stood'[s] \subseteq stood[s] /\ stood'[s] \subseteq InForce'
  <2>1. CASE KeepsStanding
    BY <2>1 DEF KeepsStanding
  <2>2. CASE UNCHANGED <<policy, version, stood>>
    BY <2>2, InForceKept DEF StandingInv
  <2>3. QED BY <1>2, <2>1, <2>2
<1>4. QED BY <1>1, <1>3 DEF StandingInv

LEMMA StandingPrompt ==
    ASSUME ScreeningTypeOK, StandingInv, NEW s \in Sessions, PromptStep(s)
    PROVE  StandingInv'
<1> DEFINE Stands(t) ==
        /\ stood[t] \subseteq InForce
        /\ screen[t].pc = "idle" => stood[t] = {}
        /\ \A rule \in stood[t] : rule[1] \in screen[t].pending \/ rule[2] \in screen[t].rules
<1>c. screen \in [Sessions -> Screened] /\ stood \in [Sessions -> SUBSET (Policies \X Rules)]
  BY DEF ScreeningTypeOK
<1>f. /\ \A t \in Sessions : t # s => screen'[t] = screen[t] /\ stood'[t] = stood[t]
      /\ policy' = policy /\ version' = version
  BY PromptFrame DEF governing
<1>i. InForce' = InForce
  BY <1>f, InForceKept
<1>s. Stands(s)
  BY DEF StandingInv
<1>o. SUFFICES Stands(s)'
  BY <1>f, <1>i DEF StandingInv
<1> HIDE DEF Stands
<1>1. ASSUME NEW g \in Providers, NEW p \in Prompts, OpenChat(s, g, p)
      PROVE  Stands(s)'
  <2>1. /\ stood'[s] = InForce /\ screen'[s].pc = "rules"
        /\ screen'[s].pending = {q \in Policies : policy[q] = "active"}
    BY <1>c, <1>1 DEF OpenChat, NoScreen, ToRead
  <2>2. \A rule \in InForce : rule[1] \in Policies /\ policy[rule[1]] = "active"
    BY DEF InForce
  <2>3. QED BY <1>i, <2>1, <2>2 DEF Stands
<1>2. ASSUME NEW u \in UseCases, NEW g \in Providers, NEW p \in Prompts,
             OpenRequest(s, u, g, p)
      PROVE  Stands(s)'
  BY <1>s, <1>2 DEF OpenRequest, Stands
<1>3. ASSUME NEW q \in Policies, LoadRules(s, q) PROVE Stands(s)'
  <2>1. PICK rules \in IF Latest(q) = {} THEN {{}} ELSE {version[v].rules : v \in Latest(q)} :
            screen' = [screen EXCEPT ![s].pending = @ \ {q}, ![s].rules = @ \cup rules]
    BY <1>3 DEF LoadRules
  <2>2. /\ screen'[s].pc = "rules" /\ stood'[s] = stood[s]
        /\ screen'[s].pending = screen[s].pending \ {q}
        /\ screen'[s].rules = screen[s].rules \cup rules
    BY <1>c, <1>3, <2>1 DEF LoadRules, Screened
  <2>3. ASSUME NEW rule \in stood[s], rule[1] = q PROVE rule[2] \in rules
    <3>1. rule \in InForce
      BY <1>s DEF Stands
    <3>2. Latest(q) # {} /\ \A v \in Latest(q) : rule[2] \in version[v].rules
      BY <2>3, <3>1 DEF InForce
    <3>3. QED BY <2>1, <3>2
  <2>4. QED BY <1>i, <1>s, <2>2, <2>3 DEF Stands
<1>4. ASSUME screen[s].pc # "idle", stood' = stood, screen'[s].pc # "idle",
             screen'[s].pending = screen[s].pending, screen'[s].rules = screen[s].rules
      PROVE  Stands(s)'
  BY <1>i, <1>s, <1>4 DEF Stands
<1>5. CASE Scan(s)
  <2>1. \/ screen' = [screen EXCEPT ![s].pc = "scan"]
        \/ \E found, text : screen' = [screen EXCEPT ![s] =
               [@ EXCEPT !.pc = "scan", !.found = found, !.text = text]]
    BY <1>5 DEF Scan
  <2>2. /\ screen'[s].pc = "scan" /\ screen'[s].pending = screen[s].pending
        /\ screen'[s].rules = screen[s].rules
    <3>1. CASE screen' = [screen EXCEPT ![s].pc = "scan"]
      BY <1>c, <3>1 DEF Screened
    <3>2. ASSUME NEW found, NEW text,
                 screen' = [screen EXCEPT ![s] =
                     [@ EXCEPT !.pc = "scan", !.found = found, !.text = text]]
          PROVE  /\ screen'[s].pc = "scan" /\ screen'[s].pending = screen[s].pending
                 /\ screen'[s].rules = screen[s].rules
      BY <1>c, <3>2 DEF Screened
    <3>3. QED BY <2>1, <3>1, <3>2
  <2>3. QED BY <1>4, <1>5, <2>2 DEF Scan
<1>6. CASE AcceptNext(s)
  <2>1. screen' = [screen EXCEPT ![s].at = @ + 1]
        \/ screen' = [screen EXCEPT ![s] =
               [screen[s] EXCEPT !.at = screen[s].at + 1,
                                 !.taken = screen[s].taken \cup {screen[s].at},
                                 !.left = screen[s].left \cup {screen[s].at}]]
    BY <1>6 DEF AcceptNext
  <2>2. screen[s].pc = "scan"
    BY <1>6 DEF AcceptNext
  <2>3. /\ screen'[s].pc = "scan" /\ screen'[s].pending = screen[s].pending
        /\ screen'[s].rules = screen[s].rules
    BY <1>c, <2>1, <2>2 DEF Screened
  <2>4. QED BY <1>4, <1>6, <2>2, <2>3 DEF AcceptNext
<1>7. CASE MaskNext(s) \/ CallChat(s)
  <2>1. ASSUME NEW left, NEW text,
               screen' = [screen EXCEPT ![s].left = left, ![s].text = text]
        PROVE  /\ screen'[s].pc = screen[s].pc /\ screen'[s].pending = screen[s].pending
               /\ screen'[s].rules = screen[s].rules
    BY <1>c, <2>1 DEF Screened
  <2>2. CASE MaskNext(s)
    <3>1. screen[s].pc = "scan" /\ stood' = stood
      BY <2>2 DEF MaskNext
    <3>2. /\ screen'[s].pc = screen[s].pc /\ screen'[s].pending = screen[s].pending
          /\ screen'[s].rules = screen[s].rules
      BY <2>1, <2>2 DEF MaskNext
    <3>3. QED BY <1>4, <3>1, <3>2
  <2>3. CASE CallChat(s)
    <3>1. /\ screen[s].pc = "scan" /\ stood' = stood
          /\ screen' = [screen EXCEPT ![s].pc = "called"]
      BY <2>3 DEF CallChat
    <3>2. /\ screen'[s].pc = "called" /\ screen'[s].pending = screen[s].pending
          /\ screen'[s].rules = screen[s].rules
      BY <1>c, <3>1 DEF Screened
    <3>3. QED BY <1>4, <3>1, <3>2
  <2>4. QED BY <1>7, <2>2, <2>3
<1>8. CASE EndsScreen(s)
  BY <1>c, <1>8 DEF EndsScreen, Stands
<1>9. QED
  BY <1>1, <1>2, <1>3, <1>5, <1>6, <1>7, <1>8
     DEF PromptStep, FirewallStep, StoreVerdict, LogChat, DropScreen

LEMMA StandingStep ==
    ASSUME ScreeningTypeOK, StandingInv, ScreeningNext
    PROVE  StandingInv'
<1>1. CASE PipelineStep
  <2>1. UNCHANGED <<policy, version, screen, stood>>
    BY <1>1 DEF PipelineStep, screening, governing
  <2>2. QED BY <2>1, InForceKept DEF StandingInv
<1>2. QED BY <1>1, StandingAdmin, StandingPrompt DEF ScreeningNext

-----------------------------------------------------------------------------
(* Screening: accepting and masking matches                                *)

\* The parts of a screen that the arithmetic below is about.
LEMMA ScreenParts ==
    ASSUME NEW c \in Screened
    PROVE  /\ c.said.length \in Nat
           /\ Len(c.found) \in Nat /\ DOMAIN c.found = 1..Len(c.found)
           /\ \A i \in 1..Len(c.found) : c.found[i] \in Match
           /\ c.text \in Seq(Nat) /\ Len(c.text) \in Nat /\ DOMAIN c.text = 1..Len(c.text)
           /\ \A k \in 1..Len(c.text) : c.text[k] \in Nat
           /\ c.at \in Nat
<1>1. /\ c.found \in Seq(Match) /\ c.text \in Seq(Nat) /\ c.at \in Nat
      /\ c.said \in Prompt
  BY PromptsAreTexts, ScreenConstants DEF Screened
<1>2. QED BY <1>1, ElementOfSeq, LenProperties DEF Prompt

\* An untouched text is split behind its end, as long as all accepted matches wait.
LEMMA UntouchedSplits ==
    ASSUME NEW d \in Screened, d.text = [k \in 1..d.said.length |-> k],
           d.left = d.taken, d.taken \subseteq 1..Len(d.found),
           \A i \in 1..Len(d.found) : Within(d.found[i], d.said.length)
    PROVE  \E b \in 1..d.said.length + 1 : SplitsAt(d, b)
<1>1. PICK n \in Nat : d.said.length = n
  BY ScreenParts
<1>2. Len(d.text) = n
  BY <1>1
<1>3. \A k \in 1..n : d.text[k] = k
  BY <1>1
<1>4. SplitsAt(d, n + 1)
  BY <1>1, <1>2, <1>3 DEF SplitsAt, Within
<1>5. n + 1 \in 1..n + 1
  OBVIOUS
<1>6. QED BY <1>1, <1>4, <1>5

LEMMA ScanStarts ==
    ASSUME NEW d \in Screened, d.at = 1, d.taken = {}, d.left = {},
           d.text = [k \in 1..d.said.length |-> k],
           \A i \in DOMAIN d.found : Within(d.found[i], d.said.length)
    PROVE  AcceptsInv(d) /\ \E b \in 1..d.said.length + 1 : SplitsAt(d, b)
<1>1. /\ Len(d.found) \in Nat /\ DOMAIN d.found = 1..Len(d.found)
  BY ScreenParts
<1>2. 1 \in 1..Len(d.found) + 1 /\ 1..1 - 1 = {}
  BY <1>1
<1>3. AcceptsInv(d)
  BY <1>2 DEF AcceptsInv
<1>4. \E b \in 1..d.said.length + 1 : SplitsAt(d, b)
  BY <1>1, UntouchedSplits
<1>5. QED BY <1>3, <1>4

\* One candidate of the first loop.
LEMMA AcceptKeeps ==
    ASSUME NEW c \in Screened, NEW d \in Screened, AcceptsInv(c), c.at \in DOMAIN c.found,
           d.said = c.said, d.found = c.found, d.text = c.text, d.at = c.at + 1,
           \/ /\ \E i \in c.taken : Overlap(c.found[c.at], c.found[i])
              /\ d.taken = c.taken /\ d.left = c.left
           \/ /\ \A i \in c.taken : ~Overlap(c.found[c.at], c.found[i])
              /\ d.taken = c.taken \cup {c.at} /\ d.left = c.left \cup {c.at}
    PROVE  AcceptsInv(d) /\ \E b \in 1..d.said.length + 1 : SplitsAt(d, b)
<1>1. PICK n \in Nat : Len(c.found) = n
  BY ScreenParts
<1>2. PICK x \in Nat : c.at = x
  BY ScreenParts
<1>3. /\ DOMAIN c.found = 1..n /\ x \in 1..n
      /\ x + 1 \in 1..n + 1 /\ 1..x - 1 \subseteq 1..x + 1 - 1
      /\ x \in 1..x + 1 - 1 /\ \A i \in 1..x + 1 - 1 : i = x \/ i \in 1..x - 1
      /\ 1..x + 1 - 1 \subseteq 1..n /\ \A j \in 1..x - 1 : j < x
  BY <1>1, <1>2, ScreenParts
<1>4. /\ c.taken \subseteq 1..x - 1 /\ c.left = c.taken
      /\ c.text = [k \in 1..c.said.length |-> k]
      /\ \A i \in 1..n : Within(c.found[i], c.said.length)
      /\ \A i \in 1..x - 1 :
            i \in c.taken \/ \E j \in c.taken : j < i /\ Overlap(c.found[i], c.found[j])
      /\ \A i, j \in c.taken : i # j => ~Overlap(c.found[i], c.found[j])
  BY <1>2, <1>3 DEF AcceptsInv
<1>5. d.left = d.taken /\ d.taken \subseteq 1..x + 1 - 1 /\ c.taken \subseteq d.taken
  BY <1>2, <1>3, <1>4
<1>6. \A i \in 1..x + 1 - 1 :
         i \in d.taken \/ \E j \in d.taken : j < i /\ Overlap(c.found[i], c.found[j])
  BY <1>2, <1>3, <1>4, <1>5
<1>7. ASSUME NEW i \in d.taken, NEW j \in d.taken, i # j
      PROVE  ~Overlap(c.found[i], c.found[j])
  <2>1. CASE i \in c.taken /\ j \in c.taken
    BY <1>4, <1>7, <2>1
  <2>2. CASE i = x \/ j = x
    BY <1>2, <1>3, <1>4, <1>7, <2>2 DEF Overlap
  <2>3. QED BY <1>2, <2>1, <2>2
<1>8. AcceptsInv(d)
  BY <1>1, <1>2, <1>3, <1>4, <1>5, <1>6, <1>7 DEF AcceptsInv
<1>9. \E b \in 1..d.said.length + 1 : SplitsAt(d, b)
  BY <1>1, <1>3, <1>4, <1>5, UntouchedSplits
<1>10. QED BY <1>8, <1>9

\* One match of the second loop: the rightmost one left ends where the text is still as
\* it was, and its mask moves only what is to its right.
LEMMA MaskKeeps ==
    ASSUME NEW c \in Screened, NEW d \in Screened, NEW b \in 1..c.said.length + 1,
           AcceptsInv(c), SplitsAt(c, b), c.at \notin DOMAIN c.found,
           NEW i \in c.left, \A j \in c.left : Rightmost(c, i, j),
           d.said = c.said, d.found = c.found, d.at = c.at, d.taken = c.taken,
           d.left = c.left \ {i}, d.text = Masked(c.text, c.found[i])
    PROVE  AcceptsInv(d) /\ \E x \in 1..d.said.length + 1 : SplitsAt(d, x)
<1>1. AcceptsInv(d)
  BY DEF AcceptsInv
<1>2. PICK len \in Nat : c.said.length = len
  BY ScreenParts
<1>3. PICK n \in Nat : Len(c.text) = n
  BY ScreenParts
<1>4. c.taken \subseteq 1..Len(c.found) /\ i \in c.taken /\ c.left \subseteq c.taken
  <2>1. c.taken \subseteq 1..c.at - 1 /\ c.at \in 1..Len(c.found) + 1
    BY DEF AcceptsInv
  <2>2. \A x \in 1..Len(c.found) + 1 : 1..x - 1 \subseteq 1..Len(c.found)
    BY ScreenParts
  <2>3. QED BY <2>1, <2>2 DEF AcceptsInv
<1>5. \A j \in c.taken : /\ c.found[j].from \in Nat /\ c.found[j].to \in Nat
                         /\ Within(c.found[j], len)
  BY <1>2, <1>4, ScreenParts DEF AcceptsInv, Match
<1>6. PICK f \in Nat, t \in Nat : c.found[i].from = f /\ c.found[i].to = t
  BY <1>4, <1>5
<1>7. /\ 1 <= f /\ f < t /\ t <= b /\ b <= n + 1 /\ b <= len + 1 /\ b \in Nat
  BY <1>2, <1>3, <1>4, <1>5, <1>6 DEF Within, SplitsAt
<1> DEFINE new == d.text
           shift == t - f
<1>8. /\ Len(new) = n + 1 - shift
      /\ \A k \in 1..f - 1 : new[k] = c.text[k]
      /\ new[f] = 0
      /\ \A k \in f + 1..n + 1 - shift : new[k] = c.text[k - 1 + shift]
  <2>1. /\ c.text \in Seq(Nat) /\ t <= Len(c.text) + 1
    BY <1>3, <1>7, ScreenParts
  <2>2. PICK text \in Seq(Nat) : text = c.text
    BY <2>1
  <2>3. PICK m : m = c.found[i]
    OBVIOUS
  <2>4. m.from = f /\ m.to = t /\ 1 <= f /\ f < t /\ t <= Len(text) + 1
    BY <1>6, <1>7, <2>1, <2>2, <2>3
  <2>5. /\ Len(Masked(text, m)) = Len(text) + 1 - (t - f)
        /\ \A k \in 1..f - 1 : Masked(text, m)[k] = text[k]
        /\ Masked(text, m)[f] = 0
        /\ \A k \in f + 1..Len(Masked(text, m)) : Masked(text, m)[k] = text[k - 1 + (t - f)]
    BY <2>4, MaskedText
  <2>6. d.text = Masked(text, m) /\ Len(text) = n
    BY <1>3, <2>2, <2>3
  <2>7. QED BY <2>2, <2>5, <2>6
<1>9. /\ \A k \in 1..b - 1 : c.text[k] = k
      /\ \A j \in c.taken \ c.left : b <= c.found[j].from
      /\ \A k \in b..n : c.text[k] # 0 =>
            /\ c.text[k] \in b..len
            /\ \A j \in c.taken \ c.left : ~Covers(c.found[j], c.text[k])
      /\ \A p \in b..len : \/ \E j \in c.taken \ c.left : Covers(c.found[j], p)
                           \/ \E k \in b..n : c.text[k] = p
  BY <1>2, <1>3 DEF SplitsAt
<1>10. d.taken \ d.left = (c.taken \ c.left) \cup {i}
  BY <1>4
<1> HIDE DEF new
<1>11. f <= Len(new) + 1
  BY <1>7, <1>8
<1>12. \A k \in 1..f - 1 : new[k] = k
  <2>1. \A k \in 1..f - 1 : k \in 1..b - 1
    BY <1>7
  <2>2. QED BY <1>8, <1>9, <2>1
<1>13. ASSUME NEW j \in d.left PROVE d.found[j].to <= f
  <2>1. j \in c.taken /\ j # i /\ c.found[j].from <= f
    BY <1>4, <1>6 DEF Rightmost
  <2>2. ~Overlap(c.found[i], c.found[j])
    BY <1>4, <2>1 DEF AcceptsInv
  <2>3. QED BY <1>5, <1>6, <1>7, <2>1, <2>2 DEF Overlap
<1>14. \A j \in d.taken \ d.left : f <= d.found[j].from
  BY <1>5, <1>6, <1>7, <1>9, <1>10
<1>15. ASSUME NEW k \in f..Len(new), new[k] # 0
       PROVE  /\ new[k] \in f..len
              /\ \A j \in d.taken \ d.left : ~Covers(d.found[j], new[k])
  <2>1. PICK m \in t..n : new[k] = c.text[m]
    <3>1. k \in f + 1..n + 1 - shift
      BY <1>7, <1>8, <1>15
    <3>2. k - 1 + shift \in t..n
      BY <1>7, <3>1
    <3>3. QED BY <1>8, <3>1, <3>2
  <2>2. CASE m < b
    <3>1. new[k] = m /\ m \in f..len /\ m \in Nat
      BY <1>7, <1>9, <2>1, <2>2
    <3>2. ~Covers(c.found[i], m)
      BY <1>6, <1>7, <2>1 DEF Covers
    <3>3. \A j \in c.taken \ c.left : ~Covers(c.found[j], m)
      BY <1>5, <1>7, <1>9, <2>2 DEF Covers
    <3>4. QED BY <1>10, <3>1, <3>2, <3>3
  <2>3. CASE m >= b
    <3>1. m \in b..n
      BY <1>7, <2>3
    <3>2. /\ new[k] \in b..len
          /\ \A j \in c.taken \ c.left : ~Covers(c.found[j], new[k])
      BY <1>9, <1>15, <2>1, <3>1
    <3>3. ~Covers(c.found[i], new[k]) /\ new[k] \in f..len
      BY <1>6, <1>7, <3>2 DEF Covers
    <3>4. QED BY <1>10, <3>2, <3>3
  <2>4. QED BY <1>7, <2>2, <2>3
<1>16. ASSUME NEW p \in f..len
       PROVE  \/ \E j \in d.taken \ d.left : Covers(d.found[j], p)
              \/ \E k \in f..Len(new) : new[k] = p
  <2>1. ASSUME NEW m \in t..n, c.text[m] = p
        PROVE  \E k \in f..Len(new) : new[k] = p
    <3>1. /\ m + 1 - shift \in f + 1..n + 1 - shift
          /\ m + 1 - shift - 1 + shift = m
      BY <1>7
    <3>2. m + 1 - shift \in f..Len(new)
      BY <1>7, <1>8, <3>1
    <3>3. new[m + 1 - shift] = p
      BY <1>8, <2>1, <3>1
    <3>4. QED BY <3>2, <3>3
  <2>2. CASE p < t
    BY <1>6, <1>10, <2>2 DEF Covers
  <2>3. CASE t <= p /\ p < b
    <3>1. p \in t..n /\ c.text[p] = p
      BY <1>7, <1>9, <2>3
    <3>2. QED BY <2>1, <3>1
  <2>4. CASE b <= p
    <3>1. CASE \E j \in c.taken \ c.left : Covers(c.found[j], p)
      BY <1>10, <3>1
    <3>2. CASE \E k \in b..n : c.text[k] = p
      <4>1. PICK k \in b..n : c.text[k] = p
        BY <3>2
      <4>2. k \in t..n
        BY <1>7, <4>1
      <4>3. QED BY <2>1, <4>1, <4>2
    <3>3. p \in b..len
      BY <1>7, <2>4
    <3>4. QED BY <1>9, <3>1, <3>2, <3>3
  <2>5. QED BY <1>7, <2>2, <2>3, <2>4
<1>17. SplitsAt(d, f)
  BY <1>2, <1>11, <1>12, <1>13, <1>14, <1>15, <1>16 DEF SplitsAt, new
<1>18. f \in 1..d.said.length + 1
  BY <1>2, <1>7
<1>19. QED BY <1>1, <1>17, <1>18

\* The three layers' lists, one after the other.
LEMMA ConcatWithin ==
    ASSUME NEW x \in Seq(Match), NEW y \in Seq(Match), NEW n,
           \A i \in DOMAIN x : Within(x[i], n),
           \A i \in DOMAIN y : Within(y[i], n)
    PROVE  x \o y \in Seq(Match) /\ \A i \in DOMAIN (x \o y) : Within((x \o y)[i], n)
<1>1. PICK k \in Nat : Len(x) = k
  BY LenProperties
<1>2. /\ \A i \in 1..k : (x \o y)[i] = x[i]
      /\ \A i \in k + 1..k + Len(y) : (x \o y)[i] = y[i - k]
      /\ x \o y \in Seq(Match) /\ Len(x \o y) = k + Len(y) /\ Len(y) \in Nat
  BY <1>1, ConcatParts
<1>3. DOMAIN x = 1..k /\ DOMAIN y = 1..Len(y) /\ DOMAIN (x \o y) = 1..k + Len(y)
  BY <1>1, <1>2, LenProperties
<1>4. ASSUME NEW i \in 1..k + Len(y) PROVE Within((x \o y)[i], n)
  <2>1. CASE i \in 1..k
    BY <1>2, <1>3, <2>1
  <2>2. CASE i \in k + 1..k + Len(y)
    <3>1. i - k \in 1..Len(y)
      BY <1>2, <2>2
    <3>2. QED BY <1>2, <1>3, <2>2, <3>1
  <2>3. QED BY <1>2, <2>1, <2>2
<1>5. QED BY <1>2, <1>3, <1>4

\* What MasksInv says of one session.
MaskInv(s) ==
    screen[s].pc \in {"scan", "called"} /\ ~Blocked(s) =>
        /\ AcceptsInv(screen[s])
        /\ \E b \in 1..screen[s].said.length + 1 : SplitsAt(screen[s], b)

LEMMA SameMatches ==
    ASSUME NEW c, NEW d, AcceptsInv(c), NEW b, SplitsAt(c, b),
           d.said = c.said, d.found = c.found, d.at = c.at, d.taken = c.taken,
           d.left = c.left, d.text = c.text
    PROVE  AcceptsInv(d) /\ SplitsAt(d, b)
BY DEF AcceptsInv, SplitsAt

LEMMA MasksPrompt ==
    ASSUME ScreeningTypeOK, ScreeningTypeOK', SessionsInv, MasksInv, NEW s \in Sessions,
           PromptStep(s)
    PROVE  MasksInv'
<1>c. screen \in [Sessions -> Screened] /\ screen'[s] \in Screened
  BY DEF ScreeningTypeOK
<1>d. screen[s] \in Screened /\ screen[s].said \in Prompt
  BY <1>c, PromptsAreTexts, ScreenConstants DEF Screened
<1>f. \A t \in Sessions : t # s => screen'[t] = screen[t]
  BY PromptFrame
<1>s. MaskInv(s) /\ SessionInv(s)
  BY DEF MasksInv, MaskInv, SessionsInv, SessionInv
<1>o. SUFFICES MaskInv(s)'
  <2>1. ASSUME NEW t \in Sessions, t # s PROVE MaskInv(t)'
    BY <1>f, <2>1 DEF MasksInv, MaskInv, Blocked
  <2>2. QED BY <2>1 DEF MasksInv, MaskInv
<1>1. ASSUME NEW g \in Providers, NEW p \in Prompts, OpenChat(s, g, p)
      PROVE  MaskInv(s)'
  BY <1>c, <1>1 DEF OpenChat, NoScreen, MaskInv
<1>2. ASSUME NEW u \in UseCases, NEW g \in Providers, NEW p \in Prompts,
             OpenRequest(s, u, g, p)
      PROVE  MaskInv(s)'
  BY <1>c, <1>2 DEF OpenRequest, NoScreen, MaskInv
<1>3. ASSUME NEW q \in Policies, LoadRules(s, q) PROVE MaskInv(s)'
  <2>1. screen'[s].pc = "rules"
    BY <1>c, <1>3 DEF LoadRules, Screened
  <2>2. QED BY <2>1 DEF MaskInv
<1>4. CASE Scan(s)
  <2>1. CASE Blocked(s)
    <3>1. screen' = [screen EXCEPT ![s].pc = "scan"]
      BY <1>4, <2>1 DEF Scan
    <3>2. Blocked(s)'
      BY <1>c, <2>1, <3>1 DEF Screened, Blocked
    <3>3. QED BY <3>2 DEF MaskInv
  <2>2. ASSUME NEW listed \in {<<>>, screen[s].said.listed},
               NEW named \in {<<>>, screen[s].said.named},
               screen' = [screen EXCEPT ![s] =
                    [@ EXCEPT !.pc = "scan",
                              !.found = screen[s].said.detected \o listed \o named,
                              !.text = [k \in 1..screen[s].said.length |-> k]]]
        PROVE  MaskInv(s)'
    <3>1. PICK found : found = screen[s].said.detected \o listed \o named
      OBVIOUS
    <3>2. PICK n : n = screen[s].said.length
      OBVIOUS
    <3>3. \A i \in DOMAIN found : Within(found[i], n)
      <4>1. /\ screen[s].said.detected \in Seq(Match) /\ listed \in Seq(Match)
            /\ named \in Seq(Match)
        BY <1>d, EmptySeq DEF Prompt
      <4>2. /\ \A i \in DOMAIN screen[s].said.detected : Within(screen[s].said.detected[i], n)
            /\ \A i \in DOMAIN listed : Within(listed[i], n)
            /\ \A i \in DOMAIN named : Within(named[i], n)
        <5>1. \A x \in {screen[s].said.detected, screen[s].said.listed, screen[s].said.named} :
                 \A i \in DOMAIN x : Within(x[i], n)
          <6>1. CASE screen[s].said \in Prompts
            BY <3>2, <6>1, PromptsAreTexts
          <6>2. CASE screen[s].said = NoPrompt
            BY <6>2 DEF NoPrompt
          <6>3. QED BY <1>c, <6>1, <6>2 DEF Screened
        <5>2. \A i \in DOMAIN <<>> : Within(<<>>[i], n)
          OBVIOUS
        <5>3. QED BY <5>1, <5>2
      <4>3. QED BY <3>1, <4>1, <4>2, ConcatWithin
    <3>4. /\ screen[s].at = 1 /\ screen[s].taken = {} /\ screen[s].left = {}
      BY <1>4, <1>s DEF Scan, SessionInv
    <3>5. /\ screen'[s].said = screen[s].said /\ screen'[s].found = found
          /\ screen'[s].text = [k \in 1..n |-> k]
          /\ screen'[s].at = screen[s].at /\ screen'[s].taken = screen[s].taken
          /\ screen'[s].left = screen[s].left
      BY <1>c, <2>2, <3>1, <3>2 DEF Screened
    <3>6. /\ AcceptsInv(screen'[s])
          /\ \E b \in 1..screen'[s].said.length + 1 : SplitsAt(screen'[s], b)
      BY <1>c, <3>2, <3>3, <3>4, <3>5, ScanStarts
    <3>7. QED BY <3>6 DEF MaskInv
  <2>3. QED BY <1>4, <2>1, <2>2 DEF Scan
<1>5. CASE AcceptNext(s)
  <2>1. /\ screen[s].pc = "scan" /\ screen[s].at \in DOMAIN screen[s].found
        /\ \/ /\ \E i \in screen[s].taken :
                    Overlap(screen[s].found[screen[s].at], screen[s].found[i])
              /\ screen' = [screen EXCEPT ![s].at = screen[s].at + 1]
           \/ /\ \A i \in screen[s].taken :
                    ~Overlap(screen[s].found[screen[s].at], screen[s].found[i])
              /\ screen' = [screen EXCEPT ![s] =
                     [screen[s] EXCEPT !.at = screen[s].at + 1,
                                       !.taken = screen[s].taken \cup {screen[s].at},
                                       !.left = screen[s].left \cup {screen[s].at}]]
    BY <1>5 DEF AcceptNext
  <2>2. PICK c \in Screened, d \in Screened : c = screen[s] /\ d = screen'[s]
    BY <1>c
  <2>3. /\ d.said = c.said /\ d.found = c.found /\ d.text = c.text /\ d.at = c.at + 1
        /\ d.rules = c.rules
        /\ \/ /\ \E i \in c.taken : Overlap(c.found[c.at], c.found[i])
              /\ d.taken = c.taken /\ d.left = c.left
           \/ /\ \A i \in c.taken : ~Overlap(c.found[c.at], c.found[i])
              /\ d.taken = c.taken \cup {c.at} /\ d.left = c.left \cup {c.at}
    <3>1. CASE /\ \E i \in c.taken : Overlap(c.found[c.at], c.found[i])
               /\ screen' = [screen EXCEPT ![s].at = screen[s].at + 1]
      BY <1>c, <2>2, <3>1 DEF Screened
    <3>2. CASE /\ \A i \in c.taken : ~Overlap(c.found[c.at], c.found[i])
               /\ screen' = [screen EXCEPT ![s] =
                     [screen[s] EXCEPT !.at = screen[s].at + 1,
                                       !.taken = screen[s].taken \cup {screen[s].at},
                                       !.left = screen[s].left \cup {screen[s].at}]]
      BY <1>c, <2>2, <3>2 DEF Screened
    <3>3. QED BY <2>1, <2>2, <3>1, <3>2
  <2>4. ASSUME ~Blocked(s)' PROVE AcceptsInv(c)
    <3>1. ~Blocked(s)
      BY <2>2, <2>3, <2>4 DEF Blocked
    <3>2. QED BY <1>s, <2>1, <2>2, <3>1 DEF MaskInv
  <2>5. ASSUME AcceptsInv(c)
        PROVE  AcceptsInv(d) /\ \E b \in 1..d.said.length + 1 : SplitsAt(d, b)
    BY <2>1, <2>2, <2>3, <2>5, AcceptKeeps
  <2>6. QED BY <2>2, <2>4, <2>5 DEF MaskInv
<1>6. CASE MaskNext(s)
  <2>1. PICK i \in screen[s].left :
            /\ \A j \in screen[s].left : Rightmost(screen[s], i, j)
            /\ screen' = [screen EXCEPT ![s].left = @ \ {i},
                                        ![s].text = Masked(@, screen[s].found[i])]
    BY <1>6 DEF MaskNext
  <2>2. PICK c \in Screened, d \in Screened : c = screen[s] /\ d = screen'[s]
    BY <1>c
  <2>3. /\ d.said = c.said /\ d.found = c.found /\ d.at = c.at /\ d.taken = c.taken
        /\ d.rules = c.rules /\ d.left = c.left \ {i} /\ d.text = Masked(c.text, c.found[i])
    BY <1>c, <2>1, <2>2 DEF Screened
  <2>4. ASSUME ~Blocked(s)'
        PROVE  AcceptsInv(c) /\ \E b \in 1..c.said.length + 1 : SplitsAt(c, b)
    <3>1. ~Blocked(s)
      BY <2>2, <2>3, <2>4 DEF Blocked
    <3>2. QED BY <1>6, <1>s, <2>2, <3>1 DEF MaskNext, MaskInv
  <2>5. ASSUME AcceptsInv(c), NEW b \in 1..c.said.length + 1, SplitsAt(c, b)
        PROVE  AcceptsInv(d) /\ \E x \in 1..d.said.length + 1 : SplitsAt(d, x)
    <3>1. c.at \notin DOMAIN c.found /\ i \in c.left /\ \A j \in c.left : Rightmost(c, i, j)
      BY <1>6, <2>1, <2>2 DEF MaskNext
    <3>2. QED BY <2>3, <2>5, <3>1, MaskKeeps
  <2>6. QED BY <2>2, <2>4, <2>5 DEF MaskInv
<1>7. CASE EndsScreen(s)
  BY <1>c, <1>7 DEF EndsScreen, NoScreen, MaskInv
<1>8. CASE CallChat(s)
  <2>1. screen' = [screen EXCEPT ![s].pc = "called"] /\ screen[s].pc = "scan"
    BY <1>8 DEF CallChat
  <2>2. PICK c \in Screened, d \in Screened : c = screen[s] /\ d = screen'[s]
    BY <1>c
  <2>3. /\ d.said = c.said /\ d.found = c.found /\ d.at = c.at /\ d.taken = c.taken
        /\ d.rules = c.rules /\ d.left = c.left /\ d.text = c.text
    BY <1>c, <2>1, <2>2 DEF Screened
  <2>4. ASSUME ~Blocked(s)'
        PROVE  AcceptsInv(c) /\ \E b \in 1..c.said.length + 1 : SplitsAt(c, b)
    <3>1. ~Blocked(s)
      BY <2>2, <2>3, <2>4 DEF Blocked
    <3>2. QED BY <1>s, <2>1, <2>2, <3>1 DEF MaskInv
  <2>5. QED BY <2>2, <2>3, <2>4, SameMatches DEF MaskInv
<1>9. QED
  BY <1>1, <1>2, <1>3, <1>4, <1>5, <1>6, <1>7, <1>8
     DEF PromptStep, FirewallStep, StoreVerdict, LogChat, DropScreen

LEMMA MasksStep ==
    ASSUME ScreeningTypeOK, ScreeningTypeOK', SessionsInv, MasksInv, ScreeningNext
    PROVE  MasksInv'
<1>1. CASE UNCHANGED screen
  BY <1>1 DEF MasksInv, Blocked
<1>2. QED
  BY <1>1, AdminFrame, MasksPrompt DEF ScreeningNext, PipelineStep, screening

-----------------------------------------------------------------------------
(* Screening: the theorems                                                 *)

LEMMA ScreenInit ==
    ASSUME ScreeningInit
    PROVE  TypeOK /\ ReleaseInv /\ DecisionsInv /\ ScreeningInv
<1> USE ScreenConstants DEF ScreeningInit, StartFrom
<1>1. TypeOK /\ ReleaseInv /\ DecisionsInv
  BY TypeInit, InvInit, DecisionsInit
<1>2. ScreeningTypeOK
  <2>1. <<>> \in Seq(Version)
    BY EmptySeq
  <2>2. QED BY <2>1 DEF ScreeningTypeOK, PolicyStates
<1>3. \A q \in Policies : VersionsOf(q) = {}
  BY DEF VersionsOf
<1>4. NumbersInv /\ KeysInv /\ EditsInv
  BY <1>3 DEF NumbersInv, KeysInv, EditsInv, Numbers, Updates, NoEdit, NoConnection
<1>5. SessionsInv /\ StandingInv /\ MasksInv
  BY DEF SessionsInv, StandingInv, MasksInv, NoScreen
<1>6. QED BY <1>1, <1>2, <1>4, <1>5 DEF ScreeningInv

\* Seen from the pipeline, screening takes the pipeline's steps and inserts the rows of
\* answered chats.
LEMMA ScreenedSteps ==
    ASSUME ScreeningNext
    PROVE  [Next]_vars \/ \E s \in Sessions, r \in Requests : LogChat(s, r)
<1>1. CASE AdminStep
  BY <1>1, AdminFrame
<1>2. ASSUME NEW s \in Sessions, PromptStep(s)
      PROVE  [Next]_vars \/ \E r \in Requests : LogChat(s, r)
  <2>1. ASSUME NEW r \in Requests, StoreVerdict(s, r) PROVE Next
    BY <2>1 DEF StoreVerdict, Next, ApiStep
  <2>2. CASE UNCHANGED vars
    BY <2>2
  <2>3. QED
    BY <1>2, <2>1, <2>2 DEF PromptStep, FirewallStep, OpenChat, OpenRequest, LoadRules,
         Scan, AcceptNext, MaskNext, CallChat, DropScreen
<1>3. CASE PipelineStep
  BY <1>3 DEF PipelineStep, Next, ApiStep
<1>4. QED BY <1>1, <1>2, <1>3 DEF ScreeningNext

\* A chat's row is a row the pipeline does not work on.
LEMMA LogChatKeeps ==
    ASSUME TypeOK, ReleaseInv, NEW s \in Sessions, NEW r \in Requests, LogChat(s, r)
    PROVE  TypeOK' /\ ReleaseInv' /\ (DecisionsInv => DecisionsInv')
<1>1. /\ status[r] = "absent"
      /\ status' = [status EXCEPT ![r] = "completed"]
      /\ prompt' = [prompt EXCEPT ![r] = "masked"]
      /\ UNCHANGED <<flags, approval, message, rows, api, worker, calls, released, crashes>>
  BY DEF LogChat
<1>2. TypeOK'
  BY <1>1 DEF TypeOK, Status, Texts
<1>3. \A q \in Requests : status[q] # "absent" => status'[q] # "absent"
  BY <1>1 DEF TypeOK
<1>4. HandlersInv'
  BY <1>1, <1>3 DEF ReleaseInv, HandlersInv
<1>5. RowsInv'
  <2>1. \A a \in Approvals : approval[a].req # NoRequest => approval[a].req \in Requests
    BY DEF TypeOK, ApprovalRow
  <2>2. \A q \in Requests : /\ status'[q] = "absent" => status[q] = "absent"
                            /\ prompt'[q] = "masked" => prompt[q] = "masked" \/ q = r
    BY <1>1 DEF TypeOK
  <2>3. QED BY <1>1, <1>3, <2>1, <2>2 DEF ReleaseInv, RowsInv
<1>6. MessagesInv' /\ CallsAreReleased' /\ BlockedTextStaysHere'
  BY <1>1 DEF ReleaseInv, MessagesInv, CallsAreReleased, BlockedTextStaysHere
<1>7. RunsInv'
  BY <1>1 DEF ReleaseInv, RunsInv
<1>8. ASSUME DecisionsInv PROVE DecisionsInv'
  <2>1. /\ \A q \in Requests : q # NoRequest
        /\ \A t \in Sessions : api[t].pc \in {"deciding", "decided"} =>
               approval[api[t].appr].req # NoRequest /\ api[t].appr \in Approvals
    BY <1>8, InFlight DEF ReleaseInv
  <2>2. \A q \in Requests : status'[q] \in Outcomes => status'[q] = status[q]
    BY <1>1 DEF TypeOK, Outcomes
  <2>3. QED BY <1>1, <1>8, <2>1, <2>2, DecisionsUntouched
<1>9. QED BY <1>2, <1>4, <1>5, <1>6, <1>7, <1>8 DEF ReleaseInv

\* The pipeline's invariants, where chats insert rows too.
LEMMA ScreenedRelease ==
    ASSUME TypeOK, ReleaseInv, DecisionsInv, [ScreeningNext]_screeningVars
    PROVE  TypeOK' /\ ReleaseInv' /\ DecisionsInv'
<1>1. CASE [Next]_vars
  <2>1. TypeOK' /\ ReleaseInv'
    BY <1>1, InvStep
  <2>2. DecisionsInv'
    <3>1. CASE UNCHANGED vars
      BY <3>1 DEF vars, DecisionsInv, Backs, Silent
    <3>2. QED BY <1>1, <3>1, DecisionsApiStep, DecisionsWorkerStep DEF Next
  <2>3. QED BY <2>1, <2>2
<1>2. ASSUME NEW s \in Sessions, NEW r \in Requests, LogChat(s, r)
      PROVE  TypeOK' /\ ReleaseInv' /\ DecisionsInv'
  BY <1>2, LogChatKeeps
<1>3. QED BY <1>1, <1>2, ScreenedSteps DEF screeningVars

\* A step that leaves all of screening's tables and calls alone.
LEMMA ScreeningAlone ==
    ASSUME ScreeningInv, UNCHANGED screening
    PROVE  ScreeningTypeOK' /\ GovernInv' /\ StandingInv' /\ MasksInv'
<1>1. UNCHANGED <<governing, policy, version, useCase, provider, edit, screen, edits,
                  contested, raced, stood>>
  BY DEF screening, governing
<1>2. ScreeningTypeOK'
  BY <1>1 DEF ScreeningInv, ScreeningTypeOK
<1>3. GovernInv'
  BY <1>1, GovernKept DEF ScreeningInv, GovernInv
<1>4. StandingInv'
  BY <1>1, InForceKept DEF ScreeningInv, StandingInv
<1>5. MasksInv'
  BY <1>1 DEF ScreeningInv, MasksInv, Blocked
<1>6. QED BY <1>2, <1>3, <1>4, <1>5

LEMMA ScreeningStep ==
    ASSUME TypeOK, ScreeningInv, [ScreeningNext]_screeningVars
    PROVE  ScreeningInv'
<1> USE DEF ScreeningInv
<1>1. CASE UNCHANGED screeningVars
  <2>1. UNCHANGED screening /\ screen' = screen /\ api' = api
    BY <1>1 DEF screeningVars, screening, vars
  <2>2. SessionsInv'
    BY <2>1, SessionByOne, SameSession DEF SessionsInv, SessionInv
  <2>3. QED BY <2>1, <2>2, ScreeningAlone DEF GovernInv
<1>2. CASE ScreeningNext
  <2>1. SessionsInv' /\ StandingInv'
    BY <1>2, SessionsStep, StandingStep
  <2>2. ScreeningTypeOK' /\ GovernInv'
    <3>1. CASE AdminStep
      BY <3>1, TypeAdmin, GovernAdmin DEF GovernInv
    <3>2. ASSUME NEW s \in Sessions, PromptStep(s) PROVE ScreeningTypeOK' /\ GovernInv'
      BY <3>2, TypePrompt, PromptFrame, GovernKept DEF GovernInv
    <3>3. CASE PipelineStep
      BY <3>3, ScreeningAlone DEF PipelineStep
    <3>4. QED BY <1>2, <3>1, <3>2, <3>3 DEF ScreeningNext
  <2>3. MasksInv'
    BY <1>2, <2>2, MasksStep
  <2>4. QED BY <2>1, <2>2, <2>3 DEF GovernInv
<1>3. QED BY <1>1, <1>2

\* Numbers and keys, the administrators' calls, sessions, standing rules and masks
\* agree in every reachable state (create_policy_version, update_provider,
\* governed_chat, prompt_firewall.scan).
THEOREM ScreeningHolds == ScreeningSpec => []ScreeningInv
<1>1. ScreeningInit => TypeOK /\ ReleaseInv /\ DecisionsInv /\ ScreeningInv
  BY ScreenInit
<1>2. TypeOK /\ ReleaseInv /\ DecisionsInv /\ ScreeningInv /\ [ScreeningNext]_screeningVars
      => TypeOK' /\ ReleaseInv' /\ DecisionsInv' /\ ScreeningInv'
  BY ScreenedRelease, ScreeningStep
<1>3. QED BY <1>1, <1>2, PTL DEF ScreeningSpec

\* Behind the end of a scan, the split is a statement about the whole text.
LEMMA SplitText ==
    ASSUME NEW c \in Screened, AcceptsInv(c), NEW b \in 1..c.said.length + 1,
           SplitsAt(c, b), c.at \notin DOMAIN c.found, c.left = {}
    PROVE  LET covered == {p \in 1..c.said.length : \E i \in c.taken : Covers(c.found[i], p)}
               kept == {c.text[k] : k \in DOMAIN c.text} \ {0}
           IN
           /\ \A i \in DOMAIN c.found : i \notin c.taken =>
                  \E j \in c.taken : j < i /\ Overlap(c.found[i], c.found[j])
           /\ kept = (1..c.said.length) \ covered
<1>1. PICK len \in Nat : c.said.length = len
  BY ScreenParts
<1>2. PICK n \in Nat : Len(c.text) = n
  BY ScreenParts
<1>3. b \in Nat /\ b <= len + 1 /\ b <= n + 1 /\ 1 <= b
  BY <1>1, <1>2 DEF SplitsAt
<1>4. \A i \in DOMAIN c.found : i \in 1..c.at - 1
  BY ScreenParts DEF AcceptsInv
<1>5. /\ \A k \in 1..b - 1 : c.text[k] = k
      /\ \A i \in c.taken : b <= c.found[i].from
      /\ \A k \in b..n : c.text[k] # 0 =>
            /\ c.text[k] \in b..len
            /\ \A i \in c.taken : ~Covers(c.found[i], c.text[k])
      /\ \A p \in b..len : \/ \E i \in c.taken : Covers(c.found[i], p)
                           \/ \E k \in b..n : c.text[k] = p
  BY <1>1, <1>2 DEF SplitsAt
<1>6. \A i \in c.taken : c.found[i].from \in Nat
  BY ScreenParts DEF AcceptsInv, Match
<1>7. ASSUME NEW k \in 1..n, c.text[k] # 0
      PROVE  c.text[k] \in 1..len /\ \A i \in c.taken : ~Covers(c.found[i], c.text[k])
  <2>1. CASE k < b
    <3>1. c.text[k] = k /\ k \in 1..len
      BY <1>3, <1>5, <2>1
    <3>2. QED BY <1>3, <1>5, <1>6, <2>1, <3>1 DEF Covers
  <2>2. CASE k >= b
    <3>1. k \in b..n
      BY <1>3, <2>2
    <3>2. QED BY <1>3, <1>5, <1>7, <3>1
  <2>3. QED BY <1>3, <2>1, <2>2
<1>8. ASSUME NEW p \in 1..len, \A i \in c.taken : ~Covers(c.found[i], p)
      PROVE  \E k \in 1..n : c.text[k] = p
  <2>1. CASE p < b
    <3>1. p \in 1..n /\ c.text[p] = p
      BY <1>3, <1>5, <2>1
    <3>2. QED BY <3>1
  <2>2. CASE p >= b
    <3>1. p \in b..len
      BY <1>3, <2>2
    <3>2. PICK k \in b..n : c.text[k] = p
      BY <1>5, <1>8, <3>1
    <3>3. k \in 1..n
      BY <1>3
    <3>4. QED BY <3>2, <3>3
  <2>3. QED BY <1>3, <2>1, <2>2
<1>9. DOMAIN c.text = 1..n
  BY <1>2, ScreenParts
<1>10. {c.text[k] : k \in DOMAIN c.text} \ {0}
         = (1..c.said.length) \ {p \in 1..c.said.length : \E i \in c.taken : Covers(c.found[i], p)}
  BY <1>1, <1>7, <1>8, <1>9
<1>11. \A i \in DOMAIN c.found : i \notin c.taken =>
           \E j \in c.taken : j < i /\ Overlap(c.found[i], c.found[j])
  BY <1>4 DEF AcceptsInv
<1>12. QED BY <1>10, <1>11

\* Whatever the three layers find in whatever text, however their matches overlap:
\* exactly what an accepted match covers is masked, and every match that was not
\* accepted overlaps an earlier one that was (scan, _accept_by_priority, _apply_masks).
THEOREM MatchesMasked == ScreeningSpec => []MatchesAreMasked
<1>1. ScreeningInv => MatchesAreMasked
  <2>1. SUFFICES ASSUME ScreeningInv, NEW s \in Sessions, Scanned(s), ~Blocked(s)
                 PROVE  LET c == screen[s]
                            covered == {p \in 1..c.said.length :
                                           \E i \in c.taken : Covers(c.found[i], p)}
                            kept == {c.text[k] : k \in DOMAIN c.text} \ {0}
                        IN
                        /\ \A i \in DOMAIN c.found : i \notin c.taken =>
                               \E j \in c.taken : j < i /\ Overlap(c.found[i], c.found[j])
                        /\ kept = (1..c.said.length) \ covered
    BY DEF MatchesAreMasked
  <2>2. /\ screen[s] \in Screened
        /\ screen[s].pc \in {"scan", "called"}
        /\ screen[s].at \notin DOMAIN screen[s].found /\ screen[s].left = {}
    BY <2>1 DEF ScreeningInv, ScreeningTypeOK, Scanned
  <2>3. AcceptsInv(screen[s]) /\ \E b \in 1..screen[s].said.length + 1 : SplitsAt(screen[s], b)
    BY <2>1, <2>2 DEF ScreeningInv, MasksInv
  <2>4. PICK c \in Screened : c = screen[s]
    BY <2>2
  <2>5. PICK b \in 1..c.said.length + 1 : SplitsAt(c, b)
    BY <2>3, <2>4
  <2>6. AcceptsInv(c) /\ c.at \notin DOMAIN c.found /\ c.left = {}
    BY <2>2, <2>3, <2>4
  <2>7. QED BY <2>4, <2>5, <2>6, SplitText
<1>2. QED BY <1>1, ScreeningHolds, PTL

\* A rule in force from a chat's beginning to its call is a rule the chat obeyed
\* (_active_policy_rules, governed_chat).
THEOREM StandingRules == ScreeningSpec => []StandingRulesApply
<1>1. ScreeningInv => StandingRulesApply
  <2>1. SUFFICES ASSUME ScreeningInv, NEW s \in Sessions, screen[s].pc = "called",
                        NEW rule \in stood[s]
                 PROVE  rule[2] \notin screen[s].said.terms \cup {RequireApproval}
    BY DEF StandingRulesApply
  <2>2. screen[s].pending = {} /\ Verdict(s) = "pending"
    BY <2>1 DEF ScreeningInv, SessionsInv
  <2>3. rule[2] \in screen[s].rules
    BY <2>1, <2>2 DEF ScreeningInv, StandingInv
  <2>4. ~Blocked(s) /\ RequireApproval \notin screen[s].rules
    BY <2>2 DEF Verdict
  <2>5. QED BY <2>3, <2>4 DEF Blocked
<1>2. QED BY <1>1, ScreeningHolds, PTL

\* With administrators, the firewall and chats around it, the pipeline still sends
\* nothing that was not released or that the firewall refused.
THEOREM ScreenedCallsReleased == ScreeningSpec => [](CallsAreReleased /\ BlockedTextStaysHere)
<1>1. ScreeningInit => TypeOK /\ ReleaseInv /\ DecisionsInv
  BY ScreenInit
<1>2. TypeOK /\ ReleaseInv /\ DecisionsInv /\ [ScreeningNext]_screeningVars
      => TypeOK' /\ ReleaseInv' /\ DecisionsInv'
  BY ScreenedRelease
<1>3. ReleaseInv => CallsAreReleased /\ BlockedTextStaysHere
  BY DEF ReleaseInv
<1>4. QED BY <1>1, <1>2, <1>3, PTL DEF ScreeningSpec

\* There too, a decided status is backed by a decision.
THEOREM ScreenedDecided == ScreeningSpec => []DecidedIsBacked
<1>1. ScreeningInit => TypeOK /\ ReleaseInv /\ DecisionsInv
  BY ScreenInit
<1>2. TypeOK /\ ReleaseInv /\ DecisionsInv /\ [ScreeningNext]_screeningVars
      => TypeOK' /\ ReleaseInv' /\ DecisionsInv'
  BY ScreenedRelease
<1>3. DecisionsInv => DecidedIsBacked
  BY DEF DecisionsInv, DecidedIsBacked, Backs
<1>4. QED BY <1>1, <1>2, <1>3, PTL DEF ScreeningSpec

\* And the whole, from the policies to the workers, implements GovernedRelease.
THEOREM ScreenedRefinement == ScreeningSpec => RefinesGovernedRelease
<1>1. ScreeningInit => TypeOK /\ ReleaseInv /\ DecisionsInv /\ Release!Init
  BY ScreenInit DEF ScreeningInit, StartFrom, Init, Release!Init
<1>2. TypeOK /\ ReleaseInv /\ DecisionsInv /\ [ScreeningNext]_screeningVars
      => TypeOK' /\ ReleaseInv' /\ DecisionsInv'
  BY ScreenedRelease
<1>3. TypeOK /\ ReleaseInv /\ [ScreeningNext]_screeningVars => [Release!Next]_(Release!vars)
  <2>1. UNCHANGED vars => UNCHANGED Release!vars
    BY DEF vars, Release!vars
  <2>2. \A s \in Sessions, r \in Requests : LogChat(s, r) => UNCHANGED Release!vars
    BY DEF LogChat, Release!vars
  <2>3. TypeOK /\ ReleaseInv /\ Next => Release!Next \/ UNCHANGED Release!vars
    BY ApiRefines, WorkerRefines DEF Next
  <2>4. QED BY <2>1, <2>2, <2>3, ScreenedSteps DEF screeningVars
<1>4. QED
  BY <1>1, <1>2, <1>3, PTL DEF ScreeningSpec, RefinesGovernedRelease, Release!Spec

=============================================================================
