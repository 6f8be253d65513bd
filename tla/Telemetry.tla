------------------------------ MODULE Telemetry ------------------------------
(***************************************************************************)
(* Shadow AI monitoring: an endpoint collector (the Go agent, or the       *)
(* browser extension, which is one without a bounded channel), the batches *)
(* it posts, the Celery tasks that ingest them into raw events, sightings  *)
(* and incidents, and the administrators who resolve sightings.            *)
(***************************************************************************)
EXTENDS Naturals, Sequences, FiniteSetsExt

CONSTANTS
    Domains,       \* hosts of AI services, classified by the domain catalog
    LocalTools,    \* dedup keys of processes and ports of one machine
    ModelFiles,    \* dedup keys of model files
    Batches,       \* posted batches, each a task
    Workers,
    Admins,        \* concurrent calls of register_as_provider
    NoBatch,
    Capacity,      \* of the agent's channel, 1000 in the code
    BatchSize,     \* 50 in the code, 25 in the extension
    MaxVisits, MaxEdits, MaxLosses, MaxFailures   \* bounds

VARIABLES
    present,       \* what is to be found on the endpoint
    seen,          \* the collector's memory of what it has submitted, as it is now
    channel,       \* submitted, not yet in the buffer
    buffer,        \* the batch being gathered
    sending,       \* the batch of the POST in flight
    enabled,       \* ingestion_sources.enabled
    task,          \* telemetry.process_batch messages
    worker,        \* the tasks' runs
    logged,        \* per key: the ai_telemetry_events that are flagged, and all
    sighting,      \* shadow_ai_sightings
    policy,        \* ai_domain_catalog.policy_status
    admin,         \* calls of register_as_provider
    lost,          \* history: keys of events that were dropped
    cut,           \* history: sightings whose task ended before it escalated them
    overlapped,    \* history: two tasks ran at once
    visits, edits, losses, failures   \* what the bounds count

collecting == <<present, seen, channel, buffer, sending, lost, visits>>
storing == <<logged, sighting>>
counting == <<edits, losses, failures>>
vars == <<collecting, enabled, task, worker, storing, policy, admin, cut, overlapped,
          counting>>

-----------------------------------------------------------------------------
Keys == Domains \cup LocalTools \cup ModelFiles

ASSUME BatchesArePositive == Capacity \in Nat /\ BatchSize \in Nat \ {0}

Policies == {"allowed", "unknown", "blocked"}

\* update_status takes any text; what is not looked for as unresolved is resolved.
Resolved == {"dismissed", "registered", "other"}
Statuses == {"new", "reviewing", "confirmed_shadow"} \cup Resolved

\* `blocked`: created for a blocked domain; `incidents`, `notices`, `providers`:
\* what was made of it; `byhand`: reported by a user; `reopened`: by a user.
Sighting == [key : Keys, status : Statuses, count : Nat, blocked : BOOLEAN,
             incidents : Nat, notices : Nat, providers : Nat,
             byhand : BOOLEAN, reopened : BOOLEAN]

NewSighting(k) == [key |-> k, status |-> "new", count |-> 1, blocked |-> FALSE,
                   incidents |-> 0, notices |-> 0, providers |-> 0,
                   byhand |-> FALSE, reopened |-> FALSE]

Task == [state : {"none", "queued", "taken", "done", "failed"}, events : Seq(Keys)]

\* A repeat: the sighting's row and the count it is set to.
Repeat == [row : Nat, count : Nat]

\* `at`: the event the run handles; `log`: the events it has not committed, each
\* with whether it is flagged (not allowed); `dirty`: the repeat that the next
\* query or commit flushes; `held`: the flushed ones, whose rows it locks.
Run == [pc : {"idle", "event", "create", "incident", "notify", "ack"},
        batch : Batches \cup {NoBatch}, at : Nat, blocked : BOOLEAN, row : Nat,
        log : Seq([key : Keys, flagged : BOOLEAN]),
        dirty : SUBSET Repeat, held : SUBSET Repeat]

IdleRun == [pc |-> "idle", batch |-> NoBatch, at |-> 1, blocked |-> FALSE, row |-> 0,
            log |-> <<>>, dirty |-> {}, held |-> {}]

TypeOK ==
    /\ present \subseteq Keys /\ seen \subseteq Keys /\ lost \subseteq Keys
    /\ channel \in Seq(Keys) /\ Len(channel) <= Capacity
    /\ buffer \in Seq(Keys) /\ Len(buffer) < BatchSize
    /\ sending \in Seq(Keys) /\ Len(sending) <= BatchSize
    /\ enabled \in BOOLEAN /\ overlapped \in BOOLEAN
    /\ task \in [Batches -> Task]
    /\ worker \in [Workers -> Run]
    /\ logged \in [Keys -> [all : Nat, flagged : Nat]]
    /\ sighting \in Seq(Sighting)
    /\ policy \in [Domains -> Policies]
    /\ admin \in [Admins -> Nat]
    /\ cut \subseteq DOMAIN sighting

Empty == [b \in Batches |-> [state |-> "none", events |-> <<>>]]

\* From posted batches and reported sightings, with nothing under way.
StartFrom(tasks, sightings, visited) ==
    /\ present = {} /\ seen = {} /\ lost = {}
    /\ channel = <<>> /\ buffer = <<>> /\ sending = <<>>
    /\ enabled = TRUE /\ overlapped = FALSE
    /\ task = tasks
    /\ worker = [w \in Workers |-> IdleRun]
    /\ logged = [k \in Keys |-> [all |-> 0, flagged |-> 0]]
    /\ sighting = sightings
    /\ policy \in [Domains -> Policies]
    /\ admin = [a \in Admins |-> 0]
    /\ cut = {}
    /\ visits = visited /\ edits = 0 /\ losses = 0 /\ failures = 0

Init == StartFrom(Empty, <<>>, 0)

-----------------------------------------------------------------------------
(* The collector                                                           *)

\* A tool is started, a model downloaded, a site visited; or it is over. A file that is
\* written again in another size is not the one that is remembered.
Appear(k) ==
    /\ k \notin present \/ k \in ModelFiles
    /\ visits < MaxVisits
    /\ visits' = visits + 1
    /\ present' = present \cup {k}
    /\ seen' = seen \/ (k \in ModelFiles /\ seen' = seen \ {k})
    /\ UNCHANGED <<channel, buffer, sending, lost, enabled, task, worker, storing,
                   policy, admin, cut, overlapped, counting>>

Vanish(k) ==
    /\ k \in present
    /\ present' = present \ {k}
    /\ UNCHANGED <<seen, channel, buffer, sending, lost, visits, enabled, task, worker,
                   storing, policy, admin, cut, overlapped, counting>>

\* What a scan forgets: not a file, whose size stays remembered when it is gone.
Forgets(k) == k \notin present /\ k \notin ModelFiles

\* Submit drops an event when the channel is full.
Submit(k) ==
    IF Len(channel) < Capacity
    THEN channel' = Append(channel, k) /\ UNCHANGED lost
    ELSE lost' = lost \cup {k} /\ UNCHANGED channel

\* ScanOnce, or the tab listener: what is new is remembered, then submitted.
Scan(k) ==
    \/ /\ Forgets(k) /\ k \in seen
       /\ seen' = seen \ {k}
       /\ UNCHANGED <<channel, lost>>
    \/ /\ k \in present \ seen
       /\ seen' = seen \cup {k}
       /\ Submit(k)

CollectorScans(k) ==
    /\ Scan(k)
    /\ UNCHANGED <<present, buffer, sending, visits, enabled, task, worker, storing,
                   policy, admin, cut, overlapped, counting>>

\* The POST gets a copy of the buffer, which is then cleared, not before.
ClearedFirst(events) == <<>>
Copied(events) == events

\* The reporter's loop does nothing else while it posts.
Receive ==
    LET batch == Append(buffer, Head(channel)) IN
    /\ channel # <<>> /\ sending = <<>>
    /\ channel' = Tail(channel)
    /\ IF Len(batch) >= BatchSize
       THEN buffer' = <<>> /\ sending' = Copied(batch)
       ELSE buffer' = batch /\ sending' = <<>>
    /\ UNCHANGED <<present, seen, lost, visits, enabled, task, worker, storing, policy,
                   admin, cut, overlapped, counting>>

\* flush, on the timer or at Stop
Flush ==
    /\ buffer # <<>> /\ sending = <<>>
    /\ sending' = Copied(buffer)
    /\ buffer' = <<>>
    /\ UNCHANGED <<present, seen, channel, lost, visits, enabled, task, worker, storing,
                   policy, admin, cut, overlapped, counting>>

KeysIn(events) == {events[i] : i \in DOMAIN events}

\* POST /shadow-ai/ingest: get_ingestion_source, and the task is queued.
PostAccepted(b) ==
    /\ sending # <<>> /\ enabled
    /\ task[b].state = "none"
    /\ task' = [task EXCEPT ![b] = [state |-> "queued", events |-> sending]]
    /\ sending' = <<>>
    /\ UNCHANGED <<present, seen, channel, buffer, lost, visits, enabled, worker, storing,
                   policy, admin, cut, overlapped, counting>>

\* A network error, a disabled key or a server error: nothing is sent again.
PostFails ==
    /\ sending # <<>>
    /\ ~enabled \/ losses < MaxLosses
    /\ losses' = IF enabled THEN losses + 1 ELSE losses
    /\ sending' = <<>>
    /\ lost' = lost \cup KeysIn(sending)
    /\ UNCHANGED <<present, seen, channel, buffer, visits, enabled, task, worker, storing,
                   policy, admin, cut, overlapped, edits, failures>>

\* The agent stops without waiting for its reporter, or the browser ends the
\* service worker: memory, channel and buffer are gone.
Restart ==
    /\ losses < MaxLosses
    /\ losses' = losses + 1
    /\ seen' = {} /\ channel' = <<>> /\ buffer' = <<>> /\ sending' = <<>>
    /\ lost' = lost \cup KeysIn(channel \o buffer \o sending)
    /\ UNCHANGED <<present, visits, enabled, task, worker, storing, policy, admin, cut,
                   overlapped, edits, failures>>

\* revoke_source and update_source
SetEnabled ==
    /\ edits < MaxEdits
    /\ edits' = edits + 1
    /\ enabled' = ~enabled
    /\ UNCHANGED <<collecting, task, worker, storing, policy, admin, cut, overlapped,
                   losses, failures>>

-----------------------------------------------------------------------------
(* TelemetryService.ingest_events, a task                                  *)

TakeBatch(w, b) ==
    /\ worker[w].pc = "idle"
    /\ task[b].state = "queued"
    /\ task' = [task EXCEPT ![b].state = "taken"]
    /\ worker' = [worker EXCEPT ![w] = [IdleRun EXCEPT !.pc = "event", !.batch = b]]
    /\ overlapped' = (overlapped \/ \E v \in Workers \ {w} : worker[v].pc # "idle")
    /\ UNCHANGED <<collecting, enabled, storing, policy, admin, cut, counting>>

Event(w) == task[worker[w].batch].events[worker[w].at]
Exhausted(w) == worker[w].at > Len(task[worker[w].batch].events)

\* match_domain; a local tool is not classified.
Verdict(k) == IF k \in Domains THEN policy[k] ELSE "unknown"

\* find_open_sighting_by_domain, or without the confirmed ones.
OpenUnconfirmed == {"new", "reviewing"}
Unresolved == {"new", "reviewing", "confirmed_shadow"}

OpenSightings(k) == {s \in DOMAIN sighting : sighting[s].key = k
                                             /\ sighting[s].status \in Unresolved}

\* A flush waits for whoever locks the dirty row.
Blockers(w) == {v \in Workers \ {w} :
                   \E r \in worker[w].dirty, q \in worker[v].held : r.row = q.row}

Flushed(w) == worker[w].dirty \cup
              {q \in worker[w].held : \A r \in worker[w].dirty : q.row # r.row}

\* record_repeat_sighting: one more than is committed, or as the code has it than
\* what the run reads, which may be its own.
RepeatOfCommitted(s, flushed) == [row |-> s, count |-> sighting[s].count + 1]
RepeatOf(s, flushed) ==
    LET own == {r.count : r \in {q \in flushed : q.row = s}} IN
    [row |-> s, count |-> 1 + (IF own = {} THEN sighting[s].count ELSE Max(own))]

\* An event is logged by a run whose queries flush what is dirty.
Logged(w, flagged) ==
    [worker[w] EXCEPT !.log = Append(@, [key |-> Event(w), flagged |-> flagged]),
                      !.held = Flushed(w), !.dirty = {}]

Handles(w, run) ==
    /\ worker[w].pc = "event" /\ ~Exhausted(w)
    /\ Blockers(w) = {}
    /\ worker' = [worker EXCEPT ![w] = run]
    /\ UNCHANGED <<collecting, enabled, task, storing, policy, admin, cut, overlapped,
                   counting>>

\* A flagged event repeats the open sighting of its key, or needs a new one.
Flag(w) ==
    LET next == Logged(w, TRUE) IN
    \/ \E s \in OpenSightings(Event(w)) :
           Handles(w, [next EXCEPT !.at = @ + 1, !.dirty = {RepeatOf(s, Flushed(w))}])
    \/ /\ OpenSightings(Event(w)) = {}
       /\ Handles(w, [next EXCEPT !.pc = "create",
                                  !.blocked = (Verdict(Event(w)) = "blocked")])

\* _handle_domain_visit and _handle_local_signal up to their first commit.
HandleDomainVisit(w) ==
    /\ worker[w].pc = "event" /\ ~Exhausted(w)
    /\ Event(w) \in Domains
    /\ IF Verdict(Event(w)) = "allowed"
       THEN Handles(w, [Logged(w, FALSE) EXCEPT !.at = @ + 1])
       ELSE Flag(w)

HandleLocalSignal(w) ==
    /\ worker[w].pc = "event" /\ ~Exhausted(w)
    /\ Event(w) \notin Domains
    /\ Flag(w)

LogAfter(w) ==
    [k \in Keys |->
        [all |-> logged[k].all
                 + Cardinality({i \in DOMAIN worker[w].log : worker[w].log[i].key = k}),
         flagged |-> logged[k].flagged
                 + Cardinality({i \in DOMAIN worker[w].log :
                                   worker[w].log[i] = [key |-> k, flagged |-> TRUE]})]]

SightingsAfter(w) ==
    [s \in DOMAIN sighting |->
        LET set == {r \in Flushed(w) : r.row = s} IN
        IF set = {} THEN sighting[s]
        ELSE [sighting[s] EXCEPT !.count = (CHOOSE r \in set : TRUE).count]]

\* A sighting of a blocked domain also gets an incident, or as a slip none.
AfterUnknown(blocked) == "notify"
AfterSighting(blocked) == IF blocked THEN "incident" ELSE "notify"

\* create_sighting: its commit takes along the events and repeats before it.
CreateSighting(w) ==
    /\ worker[w].pc = "create"
    /\ sighting' = Append(SightingsAfter(w),
                          [NewSighting(Event(w)) EXCEPT !.blocked = worker[w].blocked])
    /\ logged' = LogAfter(w)
    /\ worker' = [worker EXCEPT ![w] =
                     [worker[w] EXCEPT !.pc = AfterSighting(worker[w].blocked),
                         !.log = <<>>, !.held = {}, !.row = Len(sighting) + 1]]
    /\ UNCHANGED <<collecting, enabled, task, policy, admin, cut, overlapped, counting>>

\* create_incident, a commit of its own
CreateIncident(w) ==
    /\ worker[w].pc = "incident"
    /\ sighting' = [sighting EXCEPT ![worker[w].row].incidents = @ + 1]
    /\ worker' = [worker EXCEPT ![w].pc = "notify"]
    /\ UNCHANGED <<collecting, enabled, task, logged, policy, admin, cut, overlapped,
                   counting>>

\* notify: what a channel answers is ignored.
Notify(w) ==
    /\ worker[w].pc = "notify"
    /\ sighting' = [sighting EXCEPT ![worker[w].row].notices = @ + 1]
    /\ worker' = [worker EXCEPT ![w] =
                     [worker[w] EXCEPT !.pc = "event", !.at = @ + 1, !.row = 0]]
    /\ UNCHANGED <<collecting, enabled, task, logged, policy, admin, cut, overlapped,
                   counting>>

\* The commit at the end of ingest_events.
CommitBatch(w) ==
    /\ worker[w].pc = "event" /\ Exhausted(w)
    /\ Blockers(w) = {}
    /\ sighting' = SightingsAfter(w)
    /\ logged' = LogAfter(w)
    /\ worker' = [worker EXCEPT ![w] = [IdleRun EXCEPT !.pc = "ack", !.batch = worker[w].batch]]
    /\ UNCHANGED <<collecting, enabled, task, policy, admin, cut, overlapped, counting>>

Ended(w, state) ==
    /\ task' = [task EXCEPT ![worker[w].batch].state = state]
    /\ worker' = [worker EXCEPT ![w] = IdleRun]
    /\ cut' = IF worker[w].row = 0 THEN cut ELSE cut \cup {worker[w].row}

AckBatch(w) ==
    /\ worker[w].pc = "ack"
    /\ Ended(w, "done")
    /\ UNCHANGED <<collecting, enabled, storing, policy, admin, overlapped, counting>>

\* Two runs that wait for each other's rows: the database ends one.
Deadlocked(w) == \E v \in Blockers(w) : w \in Blockers(v)

\* An exception rolls back what is not committed, and the task is acknowledged.
FailBatch(w) ==
    /\ worker[w].pc \notin {"idle", "ack"}
    /\ \/ /\ Deadlocked(w)
          /\ UNCHANGED failures
       \/ /\ failures < MaxFailures
          /\ failures' = failures + 1
    /\ Ended(w, "failed")
    /\ UNCHANGED <<collecting, enabled, storing, policy, admin, overlapped, edits, losses>>

\* task_acks_late and task_reject_on_worker_lost, or an early acknowledgement.
AcksEarly == "done"
AfterLoss == "queued"

WorkerLost(w) ==
    /\ worker[w].pc # "idle"
    /\ losses < MaxLosses
    /\ losses' = losses + 1
    /\ Ended(w, AfterLoss)
    /\ UNCHANGED <<collecting, enabled, storing, policy, admin, overlapped, edits, failures>>

-----------------------------------------------------------------------------
(* Users                                                                   *)

Editing == edits < MaxEdits /\ edits' = edits + 1

Unlocked(s) == \A w \in Workers : \A r \in worker[w].held : r.row # s

\* update_status: any status, whatever the present one.
UpdateStatus(s, status) ==
    /\ Editing
    /\ Unlocked(s)
    /\ status # sighting[s].status
    /\ sighting' = [sighting EXCEPT ![s].status = status,
                                    ![s].reopened =
                       @ \/ (status \notin Resolved /\ sighting[s].status \in Resolved)]
    /\ UNCHANGED <<collecting, enabled, task, worker, logged, policy, admin, cut,
                   overlapped, losses, failures>>

\* POST /shadow-ai/: after its commit come the audit row and the notification, unless
\* the call ends before.
ReportSighting(k) ==
    /\ Editing
    /\ \E n \in {0, 1} :
          sighting' = Append(sighting, [NewSighting(k) EXCEPT !.byhand = TRUE, !.notices = n])
    /\ UNCHANGED <<collecting, enabled, task, worker, logged, policy, admin, cut,
                   overlapped, losses, failures>>

\* DomainCatalogService.update_entry
SetPolicy(k, status) ==
    /\ Editing
    /\ status # policy[k]
    /\ policy' = [policy EXCEPT ![k] = status]
    /\ UNCHANGED <<collecting, enabled, task, worker, storing, admin, cut, overlapped,
                   losses, failures>>

\* register_as_provider: the status is checked when the row is read only.
OpenRegister(a, s) ==
    /\ Editing
    /\ admin[a] = 0
    /\ sighting[s].status # "registered"
    /\ admin' = [admin EXCEPT ![a] = s]
    /\ UNCHANGED <<collecting, enabled, task, worker, storing, policy, cut, overlapped,
                   losses, failures>>

CommitRegister(a) ==
    /\ admin[a] # 0
    /\ Unlocked(admin[a])
    /\ sighting' = [sighting EXCEPT ![admin[a]].status = "registered",
                                    ![admin[a]].providers = @ + 1]
    /\ admin' = [admin EXCEPT ![a] = 0]
    /\ UNCHANGED <<collecting, enabled, task, worker, logged, policy, cut, overlapped,
                   counting>>

-----------------------------------------------------------------------------
CollectorNext ==
    \/ \E k \in Keys : Appear(k) \/ Vanish(k) \/ CollectorScans(k)
    \/ Receive \/ Flush \/ PostFails \/ Restart \/ SetEnabled
    \/ \E b \in Batches : PostAccepted(b)

RunNext(w) ==
    \/ \E b \in Batches : TakeBatch(w, b)
    \/ HandleDomainVisit(w) \/ HandleLocalSignal(w)
    \/ CreateSighting(w) \/ CreateIncident(w) \/ Notify(w)
    \/ CommitBatch(w) \/ AckBatch(w) \/ FailBatch(w) \/ WorkerLost(w)

UserNext ==
    \/ \E s \in DOMAIN sighting, status \in Statuses : UpdateStatus(s, status)
    \/ \E k \in Keys : ReportSighting(k)
    \/ \E k \in Domains, status \in Policies : SetPolicy(k, status)
    \/ \E a \in Admins, s \in DOMAIN sighting : OpenRegister(a, s)
    \/ \E a \in Admins : CommitRegister(a)

Next == CollectorNext \/ UserNext \/ \E w \in Workers : RunNext(w)

Spec == Init /\ [][Next]_vars

-----------------------------------------------------------------------------
(* What holds                                                              *)

\* What the sightings of a key have counted, <<s, n>> the n-th that s has.  A user's
\* report is the first of the sighting it creates, and of no event.
First(s) == IF sighting[s].byhand THEN 2 ELSE 1
Counted(k) == UNION {{s} \X (First(s) .. sighting[s].count) :
                        s \in {t \in DOMAIN sighting : sighting[t].key = k}}

Done == {b \in Batches : task[b].state = "done"}

\* The events of a key, as <<b, i>>, in the batches that were acknowledged.
Occurrences(k, events) == {i \in DOMAIN events : events[i] = k}
Answered(k) == UNION {{b} \X Occurrences(k, task[b].events) : b \in Done}

\* The sightings of a key count its flagged events: never more of them, and all
\* of them unless two tasks ran at once.  A redelivered batch counts in both.
\* "kept even for allowed domain visits": the events of an acknowledged batch that
\* did not fail are all logged, whatever was redelivered.
CountsAreTrue ==
    \A k \in Keys :
        /\ Cardinality(Counted(k)) <= logged[k].flagged
        /\ ~overlapped => Cardinality(Counted(k)) = logged[k].flagged
        /\ Cardinality(Answered(k)) <= logged[k].all

\* "to avoid creating a new sighting ... for every single repeat event against a
\* domain that already has an unresolved sighting open": a second one needs two
\* tasks at once, or a user who reported or reopened it.
OneOpenSighting ==
    \A s, t \in DOMAIN sighting :
        /\ s < t
        /\ sighting[s].key = sighting[t].key
        /\ sighting[s].status \notin Resolved /\ sighting[t].status \notin Resolved
        => \/ overlapped
           \/ \E r \in {s, t} : sighting[r].byhand \/ sighting[r].reopened

\* "blocked -> sighting + incident": each sighting a task created is notified, with
\* one incident if its domain is blocked, unless the task ended in between; the
\* redelivered task only repeats it.
BlockedIsEscalated ==
    \A s \in DOMAIN sighting :
        /\ sighting[s].incidents <= 1 /\ sighting[s].notices <= 1
        /\ s \notin cut /\ (\A w \in Workers : worker[w].row # s) =>
               /\ sighting[s].incidents = IF sighting[s].blocked THEN 1 ELSE 0
               /\ ~sighting[s].byhand => sighting[s].notices = 1

\* What a collector remembers to have submitted, and so never submits again, is on
\* its way or was accepted, or is lost for good.
SeenIsReported ==
    seen \subseteq lost \cup KeysIn(channel \o buffer \o sending)
                        \cup UNION {KeysIn(task[b].events) : b \in Batches}

\* The inductive invariant.  A run sets a row to one count only.
OncePerRow(set) == \A p, q \in set : p.row = q.row => p = q

\* A run works on the batch it took, on an event of it.
Working(run, tasks) ==
    /\ OncePerRow(run.dirty) /\ OncePerRow(run.held) /\ run.at >= 1
    /\ run.pc # "idle" =>
           run.batch \in Batches /\ tasks[run.batch].state = "taken"
    /\ run.pc \in {"create", "incident", "notify"} =>
           run.at <= Len(tasks[run.batch].events)

\* A run that escalates a sighting has done so up to where it is.
Escalating(run, rows) ==
    /\ run.row # 0 <=> run.pc \in {"incident", "notify"}
    /\ run.row # 0 =>
           /\ run.row \in DOMAIN rows
           /\ rows[run.row].notices = 0
           /\ rows[run.row].incidents =
                  IF run.pc = "notify" /\ rows[run.row].blocked THEN 1 ELSE 0
           /\ run.pc = "incident" => rows[run.row].blocked

\* No two runs work on one batch, or escalate one sighting.
RunsApart ==
    \A v, w \in Workers :
        v # w => /\ worker[v].pc # "idle" /\ worker[w].pc # "idle" =>
                        worker[v].batch # worker[w].batch
                 /\ worker[v].row # 0 => worker[v].row # worker[w].row

RunsInv ==
    /\ \A b \in Batches : task[b].state = "none" => task[b].events = <<>>
    /\ \A w \in Workers : Working(worker[w], task) /\ Escalating(worker[w], sighting)
    /\ RunsApart
    /\ \A a \in Admins : admin[a] # 0 => admin[a] \in DOMAIN sighting

TelemetryInv == TypeOK /\ RunsInv /\ SeenIsReported

===============================================================================
