---------------------------- MODULE RequestPipeline ----------------------------
(***************************************************************************)
(* The governed request pipeline: API handlers that create requests,       *)
(* submit them for approval, decide approvals and override requests, and   *)
(* the Celery workers that call the provider.  The handlers are the        *)
(* methods of RequestService, ApprovalService and OverrideService.         *)
(*                                                                         *)
(* Every handler runs in a database transaction of its own at READ         *)
(* COMMITTED: its reads and its commit are separate steps, so that other   *)
(* handlers and workers may commit in between.  The ORM writes a column    *)
(* only when the new value differs from the one it loaded; `seen` is the   *)
(* loaded status.                                                          *)
(***************************************************************************)
EXTENDS Naturals

CONSTANTS
    Requests,     \* rows of ai_requests
    Approvals,    \* rows of ai_approvals
    Messages,     \* "request.process" messages on the broker
    Sessions,     \* concurrent API calls, one database session each
    Workers,      \* Celery worker processes
    NoRequest, NoApproval, NoMessage,
    MaxCrashes    \* bound on worker crashes

ASSUME NullsAreNotRows ==
    /\ NoRequest \notin Requests
    /\ NoApproval \notin Approvals
    /\ NoMessage \notin Messages

ASSUME MaxCrashesIsNat == MaxCrashes \in Nat

VARIABLES
    status,       \* ai_requests.status; "absent": no row yet
    prompt,       \* ai_requests.masked_input_text
    flags,        \* ai_requests.firewall_flags: did the firewall block it
    approval,     \* ai_approvals
    message,      \* the broker's messages
    rows,         \* ai_responses inserted on behalf of each message
    api,          \* the API handlers
    worker,       \* the Celery workers
    calls,        \* what the provider received (external)
    released,     \* history: requests some rule or decision let through
    crashes

vars == <<status, prompt, flags, approval, message, rows, api, worker, calls,
          released, crashes>>

-----------------------------------------------------------------------------
(* Types                                                                   *)

Status == {"absent", "pending", "pending_approval", "blocked", "approved",
           "rejected", "completed", "failed", "stopped", "rolled_back"}

\* "masked": the firewall's masked text; "edited": an operator's replacement;
\* "null": no text stored.  "placeholder" is what a worker sends for a null.
Texts == {"null", "masked", "edited"}
Sent == {"masked", "edited", "placeholder"}

\* What an approver may send: the API takes any string.  "other" stands for
\* the strings that are neither of the two it names.
Decisions == {"approved", "rejected", "other"}

\* The request's status after a decision: whatever is not "approved" rejects.
Outcome(d) == IF d = "approved" THEN "approved" ELSE "rejected"
Outcomes == {"approved", "rejected"}

ApprovalRow == [req : Requests \cup {NoRequest},
                decision : Decisions \cup {"undecided"}]

Message == [req : Requests \cup {NoRequest},
            state : {"unsent", "queued", "taken", "acked"}]

Overrides == {"stop", "edit", "rollback"}

Handler == [pc : {"idle", "submitting", "deciding", "decided", "overriding",
                  "sending"},
            req : Requests \cup {NoRequest},
            appr : Approvals \cup {NoApproval},
            verb : Decisions \cup Overrides \cup {"none"},
            seen : Status]

\* `sends` and `seen` are reset once the run has no more use for them.
Run == [pc : {"idle", "loaded", "answered", "committed"},
        msg : Messages \cup {NoMessage},
        sends : Sent,
        seen : Status,
        outcome : {"none", "answer", "provider_error", "exception"}]

Call == [req : Requests, text : Sent]

TypeOK ==
    /\ status \in [Requests -> Status]
    /\ prompt \in [Requests -> Texts]
    /\ flags \in [Requests -> {"clean", "blocked_term"}]
    /\ approval \in [Approvals -> ApprovalRow]
    /\ message \in [Messages -> Message]
    /\ rows \in [Messages -> Nat]
    /\ api \in [Sessions -> Handler]
    /\ worker \in [Workers -> Run]
    /\ calls \subseteq Call
    /\ released \subseteq Requests
    /\ crashes \in Nat

Idle == [pc |-> "idle", req |-> NoRequest, appr |-> NoApproval,
         verb |-> "none", seen |-> "absent"]

NoRun == [pc |-> "idle", msg |-> NoMessage, sends |-> "placeholder",
          seen |-> "absent", outcome |-> "none"]

Sending(r) == [Idle EXCEPT !.pc = "sending", !.req = r]

Init ==
    /\ status = [r \in Requests |-> "absent"]
    /\ prompt = [r \in Requests |-> "null"]
    /\ flags = [r \in Requests |-> "clean"]
    /\ approval = [a \in Approvals |-> [req |-> NoRequest, decision |-> "undecided"]]
    /\ message = [m \in Messages |-> [req |-> NoRequest, state |-> "unsent"]]
    /\ rows = [m \in Messages |-> 0]
    /\ api = [s \in Sessions |-> Idle]
    /\ worker = [w \in Workers |-> NoRun]
    /\ calls = {}
    /\ released = {}
    /\ crashes = 0

\* The status column after a commit: written only if it differs from what
\* the session loaded.
Written(r, seen, new) == IF new = seen THEN status[r] ELSE new

-----------------------------------------------------------------------------
(* RequestService.create_request                                           *)

\* masked_input_text of a new row: none when the firewall refused the prompt.
StoresEveryText(first) == "masked"
StoredText(first) == IF first = "blocked" THEN "null" ELSE "masked"

SendsUnlessBlocked(first) == first # "blocked"
SentAtOnce(first) == first = "pending"

\* The firewall and the approved policy decide the row's first status before
\* anything is stored, and the row is committed before the task is sent.
CreateRequest(s, r) ==
    /\ api[s].pc = "idle"
    /\ status[r] = "absent"
    /\ \E first \in {"blocked", "pending_approval", "pending"} :
          /\ status' = [status EXCEPT ![r] = first]
          /\ prompt' = [prompt EXCEPT ![r] = StoredText(first)]
          /\ flags' = [flags EXCEPT ![r] =
                           IF first = "blocked" THEN "blocked_term" ELSE "clean"]
          /\ api' = [api EXCEPT ![s] = IF SentAtOnce(first) THEN Sending(r) ELSE @]
          /\ released' = IF first = "pending" THEN released \cup {r} ELSE released
    /\ UNCHANGED <<approval, message, rows, worker, calls, crashes>>

\* celery_app.send_task("request.process", ...), after the commit.
SendTask(s, m) ==
    /\ api[s].pc = "sending"
    /\ message[m].state = "unsent"
    /\ message' = [message EXCEPT ![m] = [req |-> api[s].req, state |-> "queued"]]
    /\ api' = [api EXCEPT ![s] = Idle]
    /\ UNCHANGED <<status, prompt, flags, approval, rows, worker, calls,
                   released, crashes>>

\* The API process dies, the client disconnects or send_task raises: the
\* open transaction, if any, is rolled back and the rest is not done.
AbandonCall(s) ==
    /\ api[s].pc # "idle"
    /\ api' = [api EXCEPT ![s] = Idle]
    /\ UNCHANGED <<status, prompt, flags, approval, message, rows, worker,
                   calls, released, crashes>>

-----------------------------------------------------------------------------
(* ApprovalService.create_approval                                         *)

Undecided(r) == {a \in Approvals : approval[a].req = r
                                   /\ approval[a].decision = "undecided"}

\* The request is loaded and the "duplicate approvals" query returns no row.
\* The request's status is not looked at.
OpenSubmission(s, r) ==
    /\ api[s].pc = "idle"
    /\ status[r] # "absent"
    /\ Undecided(r) = {}
    /\ api' = [api EXCEPT ![s] = [Idle EXCEPT !.pc = "submitting", !.req = r,
                                              !.seen = status[r]]]
    /\ UNCHANGED <<status, prompt, flags, approval, message, rows, worker,
                   calls, released, crashes>>

CommitSubmission(s, a) ==
    LET r == api[s].req IN
    /\ api[s].pc = "submitting"
    /\ approval[a].req = NoRequest
    /\ approval' = [approval EXCEPT ![a] = [req |-> r, decision |-> "undecided"]]
    /\ status' = [status EXCEPT ![r] = Written(r, api[s].seen, "pending_approval")]
    /\ api' = [api EXCEPT ![s] = Idle]
    /\ UNCHANGED <<prompt, flags, message, rows, worker, calls, released, crashes>>

-----------------------------------------------------------------------------
(* ApprovalService.make_decision                                           *)

\* An authorised caller loads an approval nobody has decided.
OpenDecision(s, a, d) ==
    /\ api[s].pc = "idle"
    /\ approval[a].req # NoRequest
    /\ approval[a].decision = "undecided"
    /\ api' = [api EXCEPT ![s] = [Idle EXCEPT !.pc = "deciding", !.appr = a,
                                              !.req = approval[a].req, !.verb = d]]
    /\ UNCHANGED <<status, prompt, flags, approval, message, rows, worker,
                   calls, released, crashes>>

\* Loading the request flushes the UPDATE of the approval first: its row stays
\* locked until this transaction ends.
NeverLocked(a) == FALSE
Locked(a) == \E t \in Sessions : api[t].pc = "decided" /\ api[t].appr = a

LoadDecidedRequest(s) ==
    /\ api[s].pc = "deciding"
    /\ ~Locked(api[s].appr)
    /\ api' = [api EXCEPT ![s] = [@ EXCEPT !.pc = "decided",
                                            !.seen = status[api[s].req]]]
    /\ UNCHANGED <<status, prompt, flags, approval, message, rows, worker,
                   calls, released, crashes>>

SendsEveryDecision(d) == TRUE
DecisionSends(d) == d = "approved"

\* The approval keeps the decision as it was sent, the request its outcome.
CommitDecision(s) ==
    LET r == api[s].req
        d == api[s].verb
    IN
    /\ api[s].pc = "decided"
    /\ approval' = [approval EXCEPT ![api[s].appr].decision = d]
    /\ status' = [status EXCEPT ![r] = Written(r, api[s].seen, Outcome(d))]
    /\ api' = [api EXCEPT ![s] = IF DecisionSends(d) THEN Sending(r) ELSE Idle]
    /\ released' = IF d = "approved" THEN released \cup {r} ELSE released
    /\ UNCHANGED <<prompt, flags, message, rows, worker, calls, crashes>>

-----------------------------------------------------------------------------
(* OverrideService.create_override                                         *)

Overridable(kind) ==
    IF kind = "rollback" THEN {"completed", "approved"}
                         ELSE {"pending", "pending_approval"}

OpenOverride(s, r, kind) ==
    /\ api[s].pc = "idle"
    /\ status[r] \in Overridable(kind)
    /\ api' = [api EXCEPT ![s] = [Idle EXCEPT !.pc = "overriding", !.req = r,
                                              !.verb = kind, !.seen = status[r]]]
    /\ UNCHANGED <<status, prompt, flags, approval, message, rows, worker,
                   calls, released, crashes>>

CommitOverride(s) ==
    LET r == api[s].req IN
    /\ api[s].pc = "overriding"
    /\ \/ /\ api[s].verb = "stop"
          /\ status' = [status EXCEPT ![r] = "stopped"]
          /\ UNCHANGED prompt
       \/ /\ api[s].verb = "rollback"
          /\ status' = [status EXCEPT ![r] = "rolled_back"]
          /\ UNCHANGED prompt
       \/ /\ api[s].verb = "edit"
          /\ prompt' = [prompt EXCEPT ![r] = "edited"]
          /\ UNCHANGED status
    /\ api' = [api EXCEPT ![s] = Idle]
    /\ UNCHANGED <<flags, approval, message, rows, worker, calls, released, crashes>>

-----------------------------------------------------------------------------
(* workers/request_tasks.py and RequestService.process_request             *)

SendsAsStored(text) == text

\* `masked_input_text or "[MASKED:UNAVAILABLE]"`
ToSend(text) == IF text = "null" THEN "placeholder" ELSE text

\* A worker receives a message and loads the request.  It does not look at
\* the request's status.
TakeMessage(w, m) ==
    LET r == message[m].req IN
    /\ worker[w].pc = "idle"
    /\ message[m].state = "queued"
    /\ message' = [message EXCEPT ![m].state = "taken"]
    /\ worker' = [worker EXCEPT ![w] =
                     [pc |-> "loaded", msg |-> m, sends |-> ToSend(prompt[r]),
                      seen |-> status[r], outcome |-> "none"]]
    /\ UNCHANGED <<status, prompt, flags, approval, rows, api, calls, released,
                   crashes>>

\* The provider receives the prompt and answers, the adapter reports a
\* ProviderCallError, or something else raises.
CallProvider(w) ==
    LET r == message[worker[w].msg].req IN
    /\ worker[w].pc = "loaded"
    /\ \E o \in {"answer", "provider_error", "exception"} :
          worker' = [worker EXCEPT ![w] =
                         [@ EXCEPT !.pc = "answered", !.sends = "placeholder",
                                   !.outcome = o]]
    /\ calls' = calls \cup {[req |-> r, text |-> worker[w].sends]}
    /\ UNCHANGED <<status, prompt, flags, approval, message, rows, api,
                   released, crashes>>

\* The provider is not reached: without a usable key the answer is a mock, and
\* anything else that fails before the call raises.
SkipProvider(w) ==
    /\ worker[w].pc = "loaded"
    /\ \E o \in {"answer", "exception"} :
          worker' = [worker EXCEPT ![w] =
                         [@ EXCEPT !.pc = "answered", !.sends = "placeholder",
                                   !.outcome = o]]
    /\ UNCHANGED <<status, prompt, flags, approval, message, rows, api, calls,
                   released, crashes>>

CompletesAlways(outcome) == "completed"
OutcomeStatus(outcome) == IF outcome = "answer" THEN "completed" ELSE "failed"

\* One transaction inserts the response and sets the status.  The exception
\* handler's UPDATE sets the status whatever it was and inserts nothing; when
\* the commit itself fails the session is unusable, the handler's own failure
\* is swallowed, and the task ends with nothing written.
CommitAnswer(w) ==
    LET m == worker[w].msg
        r == message[m].req
        new == OutcomeStatus(worker[w].outcome)
    IN
    /\ worker[w].pc = "answered"
    /\ \/ /\ worker[w].outcome # "exception"
          /\ status' = [status EXCEPT ![r] = Written(r, worker[w].seen, new)]
          /\ rows' = [rows EXCEPT ![m] = @ + 1]
       \/ /\ worker[w].outcome = "exception"
          /\ status' = [status EXCEPT ![r] = new]
          /\ UNCHANGED rows
       \/ UNCHANGED <<status, rows>>
    /\ worker' = [worker EXCEPT ![w] = [@ EXCEPT !.pc = "committed",
                                                  !.seen = "absent"]]
    /\ UNCHANGED <<prompt, flags, approval, message, api, calls, released, crashes>>

\* task_acks_late: the message is acknowledged after the task has ended, also
\* when it raised.
RetriesErrors(outcome) == IF outcome = "provider_error" THEN "queued" ELSE "acked"
AfterTask(outcome) == "acked"

AckMessage(w) ==
    /\ worker[w].pc = "committed"
    /\ message' = [message EXCEPT ![worker[w].msg].state = AfterTask(worker[w].outcome)]
    /\ worker' = [worker EXCEPT ![w] = NoRun]
    /\ UNCHANGED <<status, prompt, flags, approval, rows, api, calls, released,
                   crashes>>

\* task_reject_on_worker_lost: the message of a lost worker is delivered again.
StaysUnacked == "taken"
AfterLoss == "queued"

WorkerLost(w) ==
    /\ worker[w].pc # "idle"
    /\ crashes < MaxCrashes
    /\ crashes' = crashes + 1
    /\ message' = [message EXCEPT ![worker[w].msg].state = AfterLoss]
    /\ worker' = [worker EXCEPT ![w] = NoRun]
    /\ UNCHANGED <<status, prompt, flags, approval, rows, api, calls, released>>

-----------------------------------------------------------------------------

\* What a session does for a request that exists.
ServedStep(s) ==
    \/ \E m \in Messages : SendTask(s, m)
    \/ AbandonCall(s)
    \/ \E r \in Requests : OpenSubmission(s, r)
    \/ \E a \in Approvals : CommitSubmission(s, a)
    \/ \E a \in Approvals, d \in Decisions : OpenDecision(s, a, d)
    \/ LoadDecidedRequest(s)
    \/ CommitDecision(s)
    \/ \E r \in Requests, kind \in Overrides : OpenOverride(s, r, kind)
    \/ CommitOverride(s)

ApiStep(s) == (\E r \in Requests : CreateRequest(s, r)) \/ ServedStep(s)

WorkerStep(w) ==
    \/ \E m \in Messages : TakeMessage(w, m)
    \/ CallProvider(w)
    \/ SkipProvider(w)
    \/ CommitAnswer(w)
    \/ AckMessage(w)
    \/ WorkerLost(w)

Next == (\E s \in Sessions : ApiStep(s)) \/ (\E w \in Workers : WorkerStep(w))

Spec == Init /\ [][Next]_vars

\* The workers keep running and the broker hands out what it holds; nothing is
\* assumed of clients, nor that an API process survives its call.
WorkerFairness ==
    /\ \A m \in Messages : WF_vars(\E w \in Workers : TakeMessage(w, m))
    /\ \A w \in Workers : WF_vars(CallProvider(w) \/ SkipProvider(w)
                                  \/ CommitAnswer(w) \/ AckMessage(w))

FairSpec == Spec /\ WorkerFairness

-----------------------------------------------------------------------------
(* Safety                                                                  *)

\* A prompt reaches a provider only for a request that was let through: one
\* whose policy asked for no approval (create_request), or one for which some
\* approver's "approved" was committed (make_decision).
CallsAreReleased == \A c \in calls : c.req \in released

\* "A blocked prompt never reaches the policy engine or a provider": even if a
\* blocked request is submitted for approval afterwards, approved, and its
\* message delivered more than once, the provider never receives the text the
\* firewall refused (create_request stores no masked text for it).
BlockedTextStaysHere ==
    \A c \in calls : c.text = "masked" => flags[c.req] = "clean"

\* A request shown as completed has a response to show, whatever handlers and
\* workers raced for its row (process_request commits both together).
CompletedHasResponse ==
    \A r \in Requests : status[r] = "completed" =>
        \E m \in Messages : message[m].req = r /\ rows[m] > 0

\* Only the loss of a worker can make one message insert a second response:
\* neither a provider error nor an exception delivers it again.
SecondResponseNeedsLoss == \A m \in Messages : rows[m] <= 1 + crashes

\* A request shows "approved" or "rejected" only while one of its approvals was
\* decided to that effect, although decisions, on one approval or on several of
\* the same request, race for the request's row, and although an approval keeps
\* the text of its decision, which may be neither word (make_decision).
DecidedIsBacked ==
    \A r \in Requests : status[r] \in Outcomes =>
        \E a \in Approvals :
            /\ approval[a].req = r
            /\ approval[a].decision \in Decisions
            /\ Outcome(approval[a].decision) = status[r]

-----------------------------------------------------------------------------
(* The inductive invariant behind the theorems of RequestPipelineProofs    *)

\* A handler works on a row that exists, and sends only what was released.
HandlersInv ==
    \A s \in Sessions :
        /\ api[s].pc # "idle" => /\ api[s].req \in Requests
                                /\ status[api[s].req] # "absent"
        /\ api[s].pc = "sending" => api[s].req \in released
        /\ api[s].pc \in {"deciding", "decided"} =>
               /\ api[s].appr \in Approvals
               /\ api[s].verb \in Decisions

\* Nothing refers to a request that does not exist, and only a clean prompt is
\* stored as masked text.
RowsInv ==
    /\ \A a \in Approvals : approval[a].req # NoRequest =>
           status[approval[a].req] # "absent"
    /\ \A r \in Requests :
           /\ status[r] = "absent" => r \notin released /\ flags[r] = "clean"
           /\ prompt[r] = "masked" => flags[r] = "clean"

\* The broker holds messages of released requests only; before its first
\* delivery ends, or after a loss, a message has inserted fewer responses.
MessagesInv ==
    \A m \in Messages :
        /\ message[m].state # "unsent" => message[m].req \in released
        /\ message[m].state = "unsent" => rows[m] = 0
        /\ message[m].state = "queued" => rows[m] <= crashes
        /\ rows[m] <= 1 + crashes

\* A worker runs a message nobody else runs.
RunsInv ==
    /\ \A w \in Workers : worker[w].pc # "idle" =>
           /\ worker[w].msg \in Messages
           /\ message[worker[w].msg].state = "taken"
           /\ worker[w].pc # "committed" => rows[worker[w].msg] <= crashes
           /\ worker[w].sends = "masked" =>
                  flags[message[worker[w].msg].req] = "clean"
    /\ \A v, w \in Workers :
           v # w /\ worker[v].pc # "idle" /\ worker[w].pc # "idle" =>
               worker[v].msg # worker[w].msg

\* Inductive of itself, also where completed rows have another origin (Screening).
ReleaseInv ==
    /\ HandlersInv
    /\ RowsInv
    /\ MessagesInv
    /\ RunsInv
    /\ CallsAreReleased
    /\ BlockedTextStaysHere

PipelineInv == ReleaseInv /\ CompletedHasResponse

\* The decisions in flight.  A decision that loaded the very status it leads to
\* will not write the status again; DecisionsInv says that no such decision
\* is about to change the approval that backs a decided status: two decisions
\* in flight are about different approvals, and a decided status is backed by
\* an approval that every silent decision in flight leaves as it is.
Silent(s) == api[s].pc = "decided" /\ Outcome(api[s].verb) = api[s].seen

Backs(a, r) ==
    /\ approval[a].req = r
    /\ approval[a].decision \in Decisions
    /\ Outcome(approval[a].decision) = status[r]
    /\ \A s \in Sessions : Silent(s) /\ api[s].appr = a =>
           Outcome(api[s].verb) = status[r]

DecisionsInv ==
    /\ \A s \in Sessions : api[s].pc \in {"deciding", "decided"} =>
           approval[api[s].appr].req = api[s].req
    /\ \A s, t \in Sessions :
           s # t /\ api[s].pc = "decided" /\ api[t].pc = "decided" =>
               api[s].appr # api[t].appr
    /\ \A r \in Requests : status[r] \in Outcomes => \E a \in Approvals : Backs(a, r)

-----------------------------------------------------------------------------
(* Refinement                                                              *)

\* The pipeline implements the release discipline of GovernedRelease.
Release == INSTANCE GovernedRelease
               WITH withheld <- {r \in Requests : flags[r] = "blocked_term"}

RefinesGovernedRelease == Release!Spec

-----------------------------------------------------------------------------
(* Liveness                                                                *)

\* A message the broker holds is eventually processed and acknowledged, also
\* when workers are lost with it on the way (task_acks_late,
\* task_reject_on_worker_lost).
MessagesAreHandled ==
    \A m \in Messages : message[m].state = "queued" ~> message[m].state = "acked"

-----------------------------------------------------------------------------
(* What a comment and the user guide say, and the code does not keep        *)

\* "Guard against duplicate approvals for the same request."
OneUndecidedApproval ==
    \A a, b \in Approvals :
        /\ approval[a].req = approval[b].req
        /\ approval[a].req # NoRequest
        /\ approval[a].decision = "undecided"
        /\ approval[b].decision = "undecided"
        => a = b

\* "Overrides let an admin manually stop, edit, or roll back a request": a
\* request that shows "stopped" is not sent to a provider.
StoppedIsNotSent ==
    [][\A c \in calls' \ calls : status[c.req] # "stopped"]_calls

=============================================================================
