--------------------------- MODULE TrainingRunProofs ---------------------------
(***************************************************************************)
(* Proofs about TrainingRun, for any number of runs, calls, streams,       *)
(* hyperparameters and losses.                                             *)
(***************************************************************************)
EXTENDS TrainingRun, SequenceTheorems, TLAPS

-----------------------------------------------------------------------------
(* The inductive invariant                                                 *)

\* The user's hyperparameters are in the row and in every copy of it.
Kept(w) == \A p \in Pinned : w.hp[p] = User

PinnedInv ==
    /\ Kept(row)
    /\ \A r \in Runs : Kept(run[r].seen) /\ Kept(run[r].new)
    /\ \A c \in Callers : Kept(call[c].seen)

RetryInv ==
    \A c \in Callers :
       call[c].pc = "retrying" => call[c].seen.status \in {"failed", "cancelled"}

OneRun == ~overlapped => \A q, r \in Active : q = r

\* Of a run m that is alone, the row w, the artifact a and the body b: while it trains
\* the job is shown as running, or cancelled.
TrainsNow(w) == w.status \in {"running", "cancelled"}

Loaded(m, w) ==
    /\ m.new = m.seen
    /\ w.status \in {m.seen.status, "cancelled"}
    /\ w.pct = m.seen.pct /\ w.stage = m.seen.stage

Started(m, w) ==
    TrainsNow(w) /\ w.pct = 0 /\ w.stage = "Starting" /\ m.at = 1

\* What it loaded is what others have left of the row, but for the progress of its own
\* reports, which its first commit and refresh hide from it.
Copied(m, w) ==
    /\ TrainsNow(w)
    /\ m.seen.pct # 100 /\ m.seen.stage # "Completed"
    /\ m.seen.status \in {"running", "cancelled"}
    /\ w.path = m.seen.path /\ w.metrics = m.seen.metrics

Ahead(b, at, what) == \E i \in at .. Len(b) : b[i].does = what

\* Until a search's outcome is committed and loaded again the progress is short of the
\* end; from then on the copy has the hyperparameters that are stored.
Training(b, r, m, w, a) ==
    /\ m.at \in 1 .. Len(b) + 1
    /\ m.new = [m.seen EXCEPT !.hp = m.new.hp]
    /\ w.hp \in {m.seen.hp, m.new.hp}
    /\ Ahead(b, m.at, "tune") => w.hp = m.seen.hp
    /\ Ahead(b, m.at, "refresh") => w.pct # 100 /\ w.stage # "Completed"
    /\ ~Ahead(b, m.at, "refresh") => m.new.hp = m.seen.hp
    /\ ~Ahead(b, m.at, "open") => a.by = r /\ a.hp = BuiltFrom(m.new.hp)
    /\ ~Ahead(b, m.at, "close") => a.whole

\* A run that has trained has a whole artifact of its own.
Trained(r, m, w, a) ==
    /\ m.new.status \in {"completed", "failed"}
    /\ m.new.status = "completed" =>
          /\ m.new.path /\ m.new.metrics = r
          /\ a.whole /\ a.by = r /\ a.hp = BuiltFrom(m.new.hp) /\ w.hp = m.new.hp

\* A terminal status of a job that nobody runs or retries is final.
Fits(b, r, m, w, a) ==
    /\ m.pc = "loaded" => Loaded(m, w)
    /\ m.pc = "started" => Started(m, w)
    /\ m.pc \in {"training", "trained", "guarded"} => Copied(m, w)
    /\ m.pc = "training" => Training(b, r, m, w, a)
    /\ m.pc \in {"trained", "guarded"} => Trained(r, m, w, a)
    /\ m.pc = "publishing" /\ m.event \in Terminal => w.status \in Terminal

RunsInv == ~overlapped => \A r \in Runs : Fits(Body, r, run[r], row, artifact)

Announces(m, status) == m.pc = "publishing" /\ m.event = status /\ status \in Terminal

Open(s) == stream[s].pc \in {"opened", "subscribed"}

\* Every stream has the status behind it; one that an event will reach was there
\* when that became the status.
StreamsInv ==
    \A s \in Streams :
       /\ stream[s].pc = "idle" => stream[s].queue = <<>> /\ stream[s].end = "none"
       /\ Open(s) => row.status \in stream[s].since
       /\ Open(s) /\ ~overlapped =>
             \A r \in Runs, e \in Terminal : Announces(run[r], e) => e \in stream[s].since
       /\ ~overlapped => \A i \in 1 .. Len(stream[s].queue) :
                            stream[s].queue[i] \in stream[s].since

Inv == /\ TypeOK /\ PinnedInv /\ RetryInv /\ OneRun /\ RunsInv
       /\ StreamsInv /\ EndIsTrue /\ CompletedIsWhole

-----------------------------------------------------------------------------
(* The bodies                                                              *)

Does_ == {"report", "tune", "commit", "refresh", "open", "close"}
Step == [does : Does_, pct : 0 .. 100, stage : Stages]

Unfinished(step) == step.pct # 100 /\ step.stage # "Completed"

LEMMA Joined ==
    ASSUME NEW S, NEW s \in Seq(S), NEW t \in Seq(S)
    PROVE  /\ s \o t \in Seq(S) /\ Len(s \o t) = Len(s) + Len(t)
           /\ \A i \in 1 .. Len(s) + Len(t) :
                 (s \o t)[i] = IF i <= Len(s) THEN s[i] ELSE t[i - Len(s)]
OBVIOUS

\* Progress short of the end.
Early(step) == step.does = "report" /\ Unfinished(step)

LEMMA SavePart ==
    /\ Save \in Seq(Step) /\ Len(Save) = 3
    /\ Save[1].does = "open" /\ Save[2].does = "close" /\ Save[3].does = "report"
<1>1. /\ Does("open") \in Step /\ Does("close") \in Step
      /\ Report(100, "Completed") \in Step
  BY DEF Does, Report, Step, Does_, Stages
<1>2. Save \in Seq(Step) /\ Len(Save) = 3
  BY <1>1 DEF Save
<1>3. Save[1].does = "open" /\ Save[2].does = "close" /\ Save[3].does = "report"
  BY DEF Save, Does, Report
<1>4. QED BY <1>2, <1>3

LEMMA FittingPart ==
    /\ Fitting \in Seq(Step) /\ Len(Fitting) = 3
    /\ Early(Fitting[1]) /\ Early(Fitting[2]) /\ Early(Fitting[3])
<1>1. /\ Report(10, "Loading dataset") \in Step /\ Report(40, "Fitting model") \in Step
      /\ Report(85, "Evaluating") \in Step
  BY DEF Report, Step, Does_, Stages
<1>2. PICK a \in Step, b \in Step, c \in Step : Fitting = <<a, b, c>>
  BY <1>1, Zenon DEF Fitting
<1>3. Fitting \in Seq(Step) /\ Len(Fitting) = 3
  BY <1>2
<1>4. /\ Fitting[1] = Report(10, "Loading dataset") /\ Fitting[2] = Report(40, "Fitting model")
      /\ Fitting[3] = Report(85, "Evaluating")
  BY DEF Fitting
<1>5. /\ Early(Report(10, "Loading dataset")) /\ Early(Report(40, "Fitting model"))
      /\ Early(Report(85, "Evaluating"))
  BY DEF Report, Early, Unfinished
<1>6. QED BY <1>3, <1>4, <1>5

LEMMA AutoTunePart ==
    /\ AutoTune \in Seq(Step) /\ Len(AutoTune) = 6
    /\ Early(AutoTune[1]) /\ Early(AutoTune[2]) /\ Early(AutoTune[4])
    /\ AutoTune[3].does = "tune" /\ Unfinished(AutoTune[3])
    /\ AutoTune[5].does = "commit" /\ Unfinished(AutoTune[5])
    /\ AutoTune[6].does = "refresh" /\ Unfinished(AutoTune[6])
<1>1. /\ Does("tune") \in Step /\ Does("commit") \in Step /\ Does("refresh") \in Step
      /\ Report(12, "Auto-tune") \in Step /\ Report(20, "Auto-tune") \in Step
  BY DEF Does, Report, Step, Does_, Stages
<1>2. AutoTune \in Seq(Step) /\ Len(AutoTune) = 6
  BY <1>1 DEF AutoTune
<1>3. Early(AutoTune[1]) /\ Early(AutoTune[2]) /\ Early(AutoTune[4])
  BY DEF AutoTune, Report, Early, Unfinished
<1>4. /\ AutoTune[3].does = "tune" /\ Unfinished(AutoTune[3])
      /\ AutoTune[5].does = "commit" /\ Unfinished(AutoTune[5])
      /\ AutoTune[6].does = "refresh" /\ Unfinished(AutoTune[6])
  BY DEF AutoTune, Does, Unfinished
<1>5. QED BY <1>2, <1>3, <1>4

Reports == [does : {"report"}, pct : 0 .. 100, stage : Stages]

LEMMA TextParts ==
    ASSUME NEW lora \in BOOLEAN
    PROVE  (Loading \o Adapted(lora)) \o Trainer \in Seq(Reports)
<1>1. Loading \in Seq(Reports)
  <2>1. /\ Report(5, "Loading dataset") \in Reports /\ Report(10, "Tokenizing") \in Reports
        /\ Report(15, "Loading model") \in Reports
    BY DEF Report, Reports, Stages
  <2>2. PICK a \in Reports, b \in Reports, c \in Reports : Loading = <<a, b, c>>
    BY <2>1, Zenon DEF Loading
  <2>3. QED BY <2>2
<1>2. Adapted(lora) \in Seq(Reports)
  <2>1. Report(17, "Applying LoRA adapter") \in Reports
    BY DEF Report, Reports, Stages
  <2>2. CASE lora
    <3>1. PICK a \in Reports : Adapted(lora) = <<a>>
      BY <2>1, <2>2, Zenon DEF Adapted
    <3>2. QED BY <3>1
  <2>3. CASE ~lora
    <3>1. Adapted(lora) = <<>>
      BY <2>3, Zenon DEF Adapted
    <3>2. QED BY <3>1
  <2>4. QED BY <2>2, <2>3
<1>3. Trainer \in Seq(Reports)
  <2>1. /\ Report(57, "Training step") \in Reports /\ Report(100, "Training step") \in Reports
        /\ Report(95, "Evaluating") \in Reports
    BY DEF Report, Reports, Stages
  <2>2. PICK a \in Reports, b \in Reports, c \in Reports : Trainer = <<a, b, c>>
    BY <2>1, Zenon DEF Trainer
  <2>3. QED BY <2>2
<1>4. Loading \o Adapted(lora) \in Seq(Reports)
  BY <1>1, <1>2, Joined
<1>5. QED BY <1>3, <1>4, Joined

\* Before the artifact is written a body reports, or searches: then nothing it reports
\* is the end, and what is tuned is committed and loaded again.
LEMMA TrainsShape ==
    ASSUME job \in Jobs
    PROVE  /\ Trains \in Seq(Step)
           /\ \A i \in 1 .. Len(Trains) :
                 /\ Trains[i].does \in {"report", "tune", "commit", "refresh"}
                 /\ Trains[i].does # "report" =>
                       /\ \A j \in 1 .. Len(Trains) : Unfinished(Trains[j])
                       /\ Trains[i].does = "tune" =>
                             \E j \in i + 1 .. Len(Trains) : Trains[j].does = "refresh"
                       /\ Trains[i].does = "commit" =>
                             \A j \in i + 1 .. Len(Trains) : Trains[j].does # "tune"
<1>1. CASE job.text
  <2>1. job.lora \in BOOLEAN
    BY DEF Jobs
  <2>2. Trains = (Loading \o Adapted(job.lora)) \o Trainer
    BY <1>1 DEF Trains
  <2>3. Trains \in Seq(Reports)
    BY <2>1, <2>2, TextParts
  <2>4. Trains \in Seq(Step)
    <3>1. Reports \subseteq Step
      BY DEF Reports, Step, Does_
    <3>2. QED BY <2>3, <3>1
  <2>5. \A i \in 1 .. Len(Trains) : Trains[i] \in Reports
    BY <2>3
  <2>6. \A i \in 1 .. Len(Trains) : Trains[i].does = "report"
    BY <2>5 DEF Reports
  <2>7. QED BY <2>4, <2>6
<1>2. CASE ~job.text /\ job.tunes
  <2>1. Trains = AutoTune \o Fitting
    BY <1>2 DEF Trains
  <2>2. /\ Trains \in Seq(Step) /\ Len(Trains) = 9
        /\ \A i \in 1 .. 9 : Trains[i] = IF i <= 6 THEN AutoTune[i] ELSE Fitting[i - 6]
    <3>1. /\ AutoTune \in Seq(Step) /\ Len(AutoTune) = 6
          /\ Fitting \in Seq(Step) /\ Len(Fitting) = 3
      BY AutoTunePart, FittingPart
    <3>2. /\ Trains \in Seq(Step) /\ Len(Trains) = Len(AutoTune) + Len(Fitting)
          /\ \A i \in 1 .. Len(AutoTune) + Len(Fitting) : Trains[i] =
                IF i <= Len(AutoTune) THEN AutoTune[i] ELSE Fitting[i - Len(AutoTune)]
      BY <2>1, <3>1, Joined, Zenon
    <3>3. Len(AutoTune) + Len(Fitting) = 9
      BY <3>1
    <3>4. QED BY <3>1, <3>2, <3>3
  <2>3. /\ Early(Trains[1]) /\ Early(Trains[2]) /\ Early(Trains[4])
        /\ Early(Trains[7]) /\ Early(Trains[8]) /\ Early(Trains[9])
    <3>1. /\ Trains[1] = AutoTune[1] /\ Trains[2] = AutoTune[2] /\ Trains[4] = AutoTune[4]
          /\ Trains[7] = Fitting[1] /\ Trains[8] = Fitting[2] /\ Trains[9] = Fitting[3]
      BY <2>2
    <3>2. QED BY <3>1, AutoTunePart, FittingPart
  <2>4. /\ Trains[3].does = "tune" /\ Unfinished(Trains[3])
        /\ Trains[5].does = "commit" /\ Unfinished(Trains[5])
        /\ Trains[6].does = "refresh" /\ Unfinished(Trains[6])
    <3>1. Trains[3] = AutoTune[3] /\ Trains[5] = AutoTune[5] /\ Trains[6] = AutoTune[6]
      BY <2>2
    <3>2. QED BY <3>1, AutoTunePart
  <2>5. \A i \in 1 .. 9 : Early(Trains[i]) \/ i = 3 \/ i = 5 \/ i = 6
    <3>1. \A i \in 1 .. 9 : \/ i = 1 \/ i = 2 \/ i = 3 \/ i = 4 \/ i = 5
                            \/ i = 6 \/ i = 7 \/ i = 8 \/ i = 9
      OBVIOUS
    <3>2. QED BY <2>3, <3>1
  <2>6. \A i \in 1 .. 9 : Trains[i].does \in {"report", "tune", "commit", "refresh"}
                         /\ Unfinished(Trains[i])
    BY <2>4, <2>5 DEF Early
  <2>7. \A i \in 1 .. 9 : Trains[i].does = "tune" => i = 3
    BY <2>4, <2>5 DEF Early
  <2>8. \A i \in 1 .. 9 : Trains[i].does = "tune" =>
           \E j \in i + 1 .. 9 : Trains[j].does = "refresh"
    <3>1. 6 \in 3 + 1 .. 9
      OBVIOUS
    <3>2. QED BY <2>4, <2>7, <3>1
  <2>9. \A i \in 1 .. 9 : Trains[i].does = "commit" =>
           \A j \in i + 1 .. 9 : Trains[j].does # "tune"
    <3>1. \A i \in 1 .. 9 : Trains[i].does = "commit" => i = 5
      BY <2>4, <2>5 DEF Early
    <3>2. QED BY <2>7, <3>1
  <2>10. QED BY <2>2, <2>6, <2>8, <2>9
<1>3. CASE ~job.text /\ ~job.tunes
  <2>1. Trains = Fitting
    BY <1>3 DEF Trains
  <2>2. \A i \in 1 .. 3 : i = 1 \/ i = 2 \/ i = 3
    OBVIOUS
  <2>3. \A i \in 1 .. Len(Trains) : Trains[i].does = "report"
    BY <2>1, <2>2, FittingPart DEF Early
  <2>4. QED BY <2>1, <2>3, FittingPart
<1>4. QED BY <1>1, <1>2, <1>3

LEMMA BodyShape ==
    ASSUME job \in Jobs
    PROVE  /\ Body \in Seq(Step) /\ Len(Body) \in Nat /\ Len(Body) >= 3
           /\ \A i \in 1 .. Len(Body) :
                 /\ Body[i] \in Step
                 /\ Body[i].does = "open" <=> i = Len(Body) - 2
                 /\ Body[i].does = "close" <=> i = Len(Body) - 1
                 /\ Body[i].does = "refresh" =>
                       i < Len(Body) - 2 /\ \A j \in 1 .. i : Unfinished(Body[j])
                 /\ Body[i].does = "tune" =>
                       \E j \in i + 1 .. Len(Body) : Body[j].does = "refresh"
                 /\ Body[i].does = "commit" =>
                       \A j \in i + 1 .. Len(Body) : Body[j].does # "tune"
<1> DEFINE n == Len(Trains)
<1>1. Trains \in Seq(Step) /\ n \in Nat
  BY TrainsShape
<1>2. /\ Body \in Seq(Step) /\ Len(Body) = n + 3
      /\ \A i \in 1 .. n : Body[i] = Trains[i]
      /\ Body[n + 1] = Save[1] /\ Body[n + 2] = Save[2] /\ Body[n + 3] = Save[3]
  <2>1. /\ Body \in Seq(Step) /\ Len(Body) = n + 3
        /\ \A i \in 1 .. n + 3 : Body[i] = IF i <= n THEN Trains[i] ELSE Save[i - n]
    <3>1. Save \in Seq(Step) /\ Len(Save) = 3
      BY SavePart
    <3>2. /\ Body \in Seq(Step) /\ Len(Body) = n + Len(Save)
          /\ \A i \in 1 .. n + Len(Save) :
                Body[i] = IF i <= n THEN Trains[i] ELSE Save[i - n]
      BY <1>1, <3>1, Joined, Zenon DEF Body
    <3> HIDE DEF n
    <3>3. QED BY <1>1, <3>1, <3>2
  <2> HIDE DEF n
  <2>2. QED BY <1>1, <2>1
<1> HIDE DEF n
<1>3. \A i \in 1 .. Len(Body) : i \in 1 .. n \/ i = n + 1 \/ i = n + 2 \/ i = n + 3
  BY <1>1, <1>2
<1>4. \A i \in 1 .. Len(Body) :
         /\ i \in 1 .. n => Body[i].does \in {"report", "tune", "commit", "refresh"}
         /\ i = n + 1 => Body[i].does = "open"
         /\ i = n + 2 => Body[i].does = "close"
         /\ i = n + 3 => Body[i].does = "report"
  BY <1>1, <1>2, SavePart, TrainsShape DEF n
<1>5. \A i \in 1 .. Len(Body) : Body[i].does = "refresh" =>
         i < Len(Body) - 2 /\ \A j \in 1 .. i : Unfinished(Body[j])
  <2> SUFFICES ASSUME NEW i \in 1 .. Len(Body), Body[i].does = "refresh", NEW j \in 1 .. i
               PROVE  i < Len(Body) - 2 /\ Unfinished(Body[j])
    BY <1>1, <1>2
  <2>1. i \in 1 .. n /\ j \in 1 .. n
    BY <1>1, <1>3, <1>4
  <2>2. QED BY <1>1, <1>2, <2>1, TrainsShape DEF n
<1>6. \A i \in 1 .. Len(Body) : Body[i].does = "tune" =>
         \E j \in i + 1 .. Len(Body) : Body[j].does = "refresh"
  <2> SUFFICES ASSUME NEW i \in 1 .. Len(Body), Body[i].does = "tune"
               PROVE  \E j \in i + 1 .. Len(Body) : Body[j].does = "refresh"
    OBVIOUS
  <2>1. i \in 1 .. n
    BY <1>1, <1>3, <1>4
  <2>2. PICK j \in i + 1 .. n : Trains[j].does = "refresh"
    BY <1>2, <2>1, TrainsShape DEF n
  <2>3. j \in i + 1 .. Len(Body) /\ Body[j].does = "refresh"
    BY <1>1, <1>2, <2>1, <2>2
  <2>4. QED BY <2>3
<1>7. \A i \in 1 .. Len(Body) : Body[i].does = "commit" =>
         \A j \in i + 1 .. Len(Body) : Body[j].does # "tune"
  <2> SUFFICES ASSUME NEW i \in 1 .. Len(Body), Body[i].does = "commit",
                      NEW j \in i + 1 .. Len(Body), Body[j].does = "tune"
               PROVE  FALSE
    OBVIOUS
  <2>1. i \in 1 .. n /\ j \in 1 .. n /\ j \in i + 1 .. n
    BY <1>1, <1>2, <1>3, <1>4
  <2>2. QED BY <1>2, <2>1, TrainsShape DEF n
<1>8. \A i \in 1 .. Len(Body) : Body[i] \in Step
  BY <1>2
<1>9. QED BY <1>1, <1>2, <1>3, <1>4, <1>5, <1>6, <1>7, <1>8

-----------------------------------------------------------------------------
(* What steps keep                                                         *)

\* A body's next step is one that is no longer ahead afterwards.
LEMMA Advances ==
    ASSUME NEW b, NEW what, Len(b) \in Nat, NEW at \in 1 .. Len(b)
    PROVE  Ahead(b, at, what) <=> b[at].does = what \/ Ahead(b, at + 1, what)
<1>1. at .. Len(b) = {at} \cup (at + 1 .. Len(b))
  OBVIOUS
<1>2. QED BY <1>1 DEF Ahead

LEMMA RestIsEasy ==
    ASSUME NEW b, NEW r, NEW m, NEW w, NEW a, m.pc \in {"idle", "taken", "over", "committed"}
    PROVE  Fits(b, r, m, w, a)
BY DEF Fits

LEMMA FlushIsRow ==
    ASSUME TypeOK, NEW seen \in Row, NEW new \in Row
    PROVE  /\ Flushed(seen, new) \in Row
           /\ Kept(row) /\ Kept(new) => Kept(Flushed(seen, new))
<1>1. Flushed(seen, new) \in Row
  BY DEF TypeOK, Row, Flushed, Assign
<1>2. Flushed(seen, new).hp \in {row.hp, new.hp}
  BY DEF Flushed, Assign
<1>3. QED BY <1>1, <1>2 DEF Kept

LEMMA SameBody == ASSUME job' = job PROVE Body' = Body
BY DEF Body, Trains

LEMMA WatchedStreams ==
    ASSUME TypeOK, row' \in Row
    PROVE  Watched \in [Streams -> Stream]
<1>1. row'.status \in Status
  BY DEF Row
<1>2. \A s \in Streams : stream[s] \in Stream
  BY DEF TypeOK
<1>3. \A s \in Streams : [stream[s] EXCEPT !.since = @ \cup {row'.status}] \in Stream
  BY <1>1, <1>2 DEF Stream
<1>4. QED BY <1>2, <1>3 DEF Watched

\* A step of one run, or of one that is no more.
LEMMA RunMoves ==
    ASSUME Inv, NEW r \in Active, NEW new \in Run, run' = [run EXCEPT ![r] = new],
           UNCHANGED <<job, call, overlapped>>, Kept(new.seen), Kept(new.new), Kept(row'),
           ~overlapped => Fits(Body, r, new, row', artifact')
    PROVE  PinnedInv' /\ RetryInv' /\ OneRun' /\ RunsInv'
<1>1. r \in Runs /\ run \in [Runs -> Run] /\ run' \in [Runs -> Run]
  BY DEF Active, Inv, TypeOK
<1>2. \A q \in Runs : run'[q] = IF q = r THEN new ELSE run[q]
  BY <1>1
<1>3. PinnedInv'
  BY <1>1, <1>2 DEF Inv, PinnedInv
<1>4. RetryInv'
  BY DEF Inv, RetryInv
<1>5. Active' \subseteq Active
  BY <1>1, <1>2 DEF Active
<1>6. OneRun'
  BY <1>5 DEF Inv, OneRun
<1>7. ~overlapped => \A q \in Runs : q # r => run'[q].pc \in {"idle", "over"}
  BY <1>1, <1>2 DEF Inv, OneRun, Active
<1>8. RunsInv'
  <2> SUFFICES ASSUME ~overlapped, NEW q \in Runs
               PROVE  Fits(Body, q, run'[q], row', artifact')
    BY SameBody DEF RunsInv
  <2>1. q = r => Fits(Body, q, run'[q], row', artifact')
    BY <1>2
  <2>2. q # r => Fits(Body, q, run'[q], row', artifact')
    BY <1>7, RestIsEasy
  <2>3. QED BY <2>1, <2>2
<1>9. QED BY <1>3, <1>4, <1>6, <1>8

\* The streams follow what is written, and the runs announce what they followed.
LEMMA StreamsFollow ==
    ASSUME Inv, row' \in Row, ~overlapped' => ~overlapped,
           \/ stream' = Watched
           \/ stream' = stream /\ row'.status = row.status,
           ~overlapped' => \A r \in Runs, e \in Terminal :
              Announces(run'[r], e) => Announces(run[r], e) \/ e = row.status
    PROVE  StreamsInv' /\ EndIsTrue'
<1>1. \A s \in Streams :
         /\ stream'[s].pc = stream[s].pc /\ stream'[s].queue = stream[s].queue
         /\ stream'[s].end = stream[s].end
         /\ stream[s].since \subseteq stream'[s].since
         /\ stream[s].pc \in {"opened", "subscribed"} =>
               row.status \in stream'[s].since /\ row'.status \in stream'[s].since
  <2> SUFFICES ASSUME NEW s \in Streams
               PROVE  /\ stream'[s].pc = stream[s].pc /\ stream'[s].queue = stream[s].queue
                      /\ stream'[s].end = stream[s].end
                      /\ stream[s].since \subseteq stream'[s].since
                      /\ stream[s].pc \in {"opened", "subscribed"} =>
                            row.status \in stream'[s].since /\ row'.status \in stream'[s].since
    OBVIOUS
  <2>1. stream[s] \in Stream
    BY DEF Inv, TypeOK
  <2>2. stream[s].pc \in {"opened", "subscribed"} => row.status \in stream[s].since
    BY DEF Inv, StreamsInv, Open
  <2>3. CASE stream' = stream /\ row'.status = row.status
    BY <2>2, <2>3
  <2>4. CASE stream' = Watched
    <3>1. stream'[s] = IF stream[s].pc \in {"opened", "subscribed"}
                       THEN [stream[s] EXCEPT !.since = @ \cup {row'.status}] ELSE stream[s]
      BY <2>4 DEF Watched
    <3>2. QED BY <2>1, <2>2, <3>1 DEF Stream
  <2>5. QED BY <2>3, <2>4
<1>2. \A s \in Streams : Open(s)' => row'.status \in stream'[s].since
  BY <1>1 DEF Open
<1>3. ~overlapped' => \A s \in Streams : Open(s)' =>
         \A r \in Runs, e \in Terminal : Announces(run'[r], e) => e \in stream'[s].since
  <2> SUFFICES ASSUME ~overlapped', NEW s \in Streams, Open(s)', NEW r \in Runs,
                      NEW e \in Terminal, Announces(run'[r], e)
               PROVE  e \in stream'[s].since
    OBVIOUS
  <2>1. Open(s)
    BY <1>1 DEF Open
  <2>2. CASE Announces(run[r], e)
    BY <1>1, <2>1, <2>2 DEF Inv, StreamsInv
  <2>3. CASE e = row.status
    BY <1>1, <2>1, <2>3 DEF Open
  <2>4. QED BY <2>2, <2>3
<1>4. ~overlapped' => \A s \in Streams : \A i \in 1 .. Len(stream'[s].queue) :
         stream'[s].queue[i] \in stream'[s].since
  BY <1>1 DEF Inv, StreamsInv
<1>5. \A s \in Streams : stream'[s].pc = "idle" =>
         stream'[s].queue = <<>> /\ stream'[s].end = "none"
  BY <1>1 DEF Inv, StreamsInv
<1>6. StreamsInv'
  BY <1>2, <1>3, <1>4, <1>5 DEF StreamsInv, Open
<1>7. EndIsTrue'
  BY <1>1 DEF Inv, EndIsTrue
<1>8. QED BY <1>6, <1>7

\* A step that writes neither the row nor the artifact.
LEMMA SameRow ==
    ASSUME Inv, UNCHANGED <<row, artifact>>, ~overlapped' => ~overlapped
    PROVE  CompletedIsWhole'
BY DEF Inv, CompletedIsWhole

LEMMA RunFacts ==
    ASSUME Inv, NEW r \in Runs
    PROVE  /\ run[r] \in Run /\ Kept(run[r].seen) /\ Kept(run[r].new)
           /\ row \in Row /\ Kept(row)
           /\ ~overlapped => Fits(Body, r, run[r], row, artifact)
BY DEF Inv, TypeOK, PinnedInv, RunsInv

LEMMA CreatedFacts ==
    /\ Created \in Row /\ Kept(Created)
    /\ NoRun \in Run /\ Kept(NoRun.seen) /\ Kept(NoRun.new)
    /\ NoCall \in Call /\ Kept(NoCall.seen)
<1>1. Created \in Row
  <2>1. Created.hp \in Hyperparameters
    BY DEF Created, Hyperparameters
  <2>2. QED BY <2>1 DEF Created, Row, Status, Stages
<1>2. Kept(Created)
  BY PinnedAreParams DEF Kept, Created
<1>3. NoRun \in Run /\ NoCall \in Call
  BY <1>1 DEF NoRun, Run, NoCall, Call, Status
<1>4. NoRun.seen = Created /\ NoRun.new = Created /\ NoCall.seen = Created
  BY DEF NoRun, NoCall
<1>5. QED BY <1>1, <1>2, <1>3, <1>4

LEMMA OverFacts ==
    /\ Over \in Run /\ Over.pc = "over" /\ Kept(Over.seen) /\ Kept(Over.new)
<1>1. Over \in Run /\ Over.pc = "over" /\ Over.seen = NoRun.seen /\ Over.new = NoRun.new
  BY CreatedFacts DEF Over, Run
<1>2. QED BY <1>1, CreatedFacts

\* A step of a run that leaves the row and the artifact alone.
LEMMA StaysKeep ==
    ASSUME Inv, NEW r \in Active, NEW new \in Run, Moves(r, new),
           UNCHANGED <<row, artifact, stream, overlapped>>, due' \in Nat, losses' \in Nat,
           Kept(new.seen), Kept(new.new),
           ~overlapped => Fits(Body, r, new, row, artifact),
           \A e \in Terminal : Announces(new, e) => Announces(run[r], e) \/ e = row.status
    PROVE  Inv'
<1>1. /\ run' = [run EXCEPT ![r] = new]
      /\ UNCHANGED <<job, call, calls, row, artifact, stream, overlapped>>
  BY DEF Moves
<1>2. row \in Row /\ Kept(row) /\ r \in Runs
  BY RunFacts DEF Active
<1>3. PinnedInv' /\ RetryInv' /\ OneRun' /\ RunsInv'
  BY <1>1, <1>2, RunMoves
<1>4. TypeOK'
  BY <1>1 DEF Inv, TypeOK
<1>5. CompletedIsWhole'
  BY <1>1, SameRow
<1>6. \A q \in Runs, e \in Terminal :
         Announces(run'[q], e) => Announces(run[q], e) \/ e = row.status
  <2>1. \A q \in Runs : run'[q] = IF q = r THEN new ELSE run[q]
    BY <1>1, <1>2 DEF Inv, TypeOK
  <2>2. QED BY <2>1
<1>7. StreamsInv' /\ EndIsTrue'
  BY <1>1, <1>2, <1>6, StreamsFollow
<1>8. QED BY <1>3, <1>4, <1>5, <1>7 DEF Inv

\* A step of a run that changes the run only.
LEMMA AloneKeeps ==
    ASSUME Inv, NEW r \in Active, NEW new \in Run, Alone(r, new),
           Kept(new.seen), Kept(new.new),
           ~overlapped => Fits(Body, r, new, row, artifact),
           \A e \in Terminal : Announces(new, e) => e = row.status
    PROVE  Inv'
BY StaysKeep DEF Alone, Inv, TypeOK

LEMMA OverKeeps == ASSUME Inv, NEW r \in Active, Alone(r, Over) PROVE Inv'
<1>1. Fits(Body, r, Over, row, artifact)
  BY OverFacts, RestIsEasy
<1>2. \A e \in Terminal : ~Announces(Over, e)
  BY OverFacts DEF Announces
<1>3. QED BY <1>1, <1>2, OverFacts, AloneKeeps

-----------------------------------------------------------------------------
(* The steps of a run                                                      *)

LEMMA LoadKeeps == ASSUME Inv, NEW r \in Runs, Load(r) PROVE Inv'
<1>1. r \in Active /\ run[r].pc = "taken"
  BY DEF Load, Active
<1>2. CASE row.status = "cancelled"
  <2>1. Alone(r, Over)
    BY <1>2 DEF Load
  <2>2. QED BY <1>1, <2>1, OverKeeps
<1>3. CASE row.status # "cancelled"
  <2> DEFINE new == [run[r] EXCEPT !.pc = "loaded", !.seen = row, !.new = row]
  <2>1. Alone(r, new)
    BY <1>3 DEF Load
  <2>2. new \in Run /\ new.pc = "loaded" /\ new.seen = row /\ new.new = row
    BY RunFacts DEF Run
  <2> HIDE DEF new
  <2>3. Fits(Body, r, new, row, artifact)
    BY <2>2 DEF Fits, Loaded
  <2>4. QED BY <1>1, <2>1, <2>2, <2>3, RunFacts, AloneKeeps DEF Announces
<1>4. QED BY <1>2, <1>3

LEMMA ReloadKeeps == ASSUME Inv, NEW r \in Runs, Reload(r) PROVE Inv'
<1> DEFINE new == [run[r] EXCEPT !.pc = "training", !.seen = row, !.new = row]
<1>1. r \in Active /\ run[r].pc = "started" /\ Alone(r, new)
  BY DEF Reload, Active
<1>2. /\ new \in Run /\ new.pc = "training" /\ new.seen = row /\ new.new = row
      /\ new.at = run[r].at
  BY RunFacts DEF Run
<1> HIDE DEF new
<1>3. ~overlapped => Fits(Body, r, new, row, artifact)
  <2> SUFFICES ASSUME ~overlapped PROVE Fits(Body, r, new, row, artifact)
    OBVIOUS
  <2>1. Started(run[r], row)
    BY <1>1, RunFacts DEF Fits
  <2>2. Copied(new, row)
    BY <1>2, <2>1 DEF Started, Copied, TrainsNow
  <2>3. new.at = 1
    BY <1>2, <2>1 DEF Started
  <2>4. job \in Jobs
    BY DEF Inv, TypeOK
  <2>5. Len(Body) \in Nat /\ Len(Body) >= 3 /\ Body[Len(Body) - 2].does = "open"
        /\ Body[Len(Body) - 1].does = "close"
    BY <2>4, BodyShape
  <2>6. Ahead(Body, 1, "open") /\ Ahead(Body, 1, "close")
    <3>1. Len(Body) - 2 \in 1 .. Len(Body) /\ Len(Body) - 1 \in 1 .. Len(Body)
      BY <2>5
    <3>2. QED BY <2>5, <3>1 DEF Ahead
  <2>7. new.new = [new.seen EXCEPT !.hp = new.new.hp]
    BY <1>2, RunFacts DEF Row
  <2>8. Training(Body, r, new, row, artifact)
    BY <1>2, <2>1, <2>3, <2>5, <2>6, <2>7 DEF Training, Started
  <2>9. QED BY <1>2, <2>2, <2>8 DEF Fits
<1>4. QED BY <1>1, <1>2, <1>3, RunFacts, AloneKeeps DEF Announces

\* A step of the body.
LEMMA BodyStep ==
    ASSUME Inv, NEW r \in Runs, NEW what, At(r, what)
    PROVE  /\ r \in Active /\ run[r].pc = "training"
           /\ run[r].at \in 1 .. Len(Body) /\ Len(Body) \in Nat /\ Body[run[r].at] \in Step
           /\ Body[run[r].at].does = what
           /\ Passed(r) = [run[r] EXCEPT !.at = run[r].at + 1]
           /\ Passed(r) \in Run /\ Passed(r).pc = "training"
           /\ Passed(r).at = run[r].at + 1
           /\ Passed(r).seen = run[r].seen /\ Passed(r).new = run[r].new
           /\ \A it : Ahead(Body, run[r].at, it)
                         <=> it = what \/ Ahead(Body, run[r].at + 1, it)
           /\ ~overlapped => Copied(run[r], row) /\ Training(Body, r, run[r], row, artifact)
<1>1. /\ r \in Active /\ run[r].pc = "training" /\ run[r].at <= Len(Body)
      /\ Body[run[r].at].does = what
  BY DEF At, Active
<1>2. run[r] \in Run
  BY RunFacts
<1>3. /\ Passed(r) = [run[r] EXCEPT !.at = run[r].at + 1]
      /\ Passed(r) \in Run /\ Passed(r).pc = "training"
      /\ Passed(r).at = run[r].at + 1 /\ run[r].at \in Nat \ {0}
      /\ Passed(r).seen = run[r].seen /\ Passed(r).new = run[r].new
  BY <1>1, <1>2 DEF Passed, Run
<1>4. job \in Jobs
  BY DEF Inv, TypeOK
<1>5. Len(Body) \in Nat
  BY <1>4, BodyShape
<1>6. run[r].at \in 1 .. Len(Body)
  BY <1>1, <1>3, <1>5
<1>7. Body[run[r].at] \in Step
  BY <1>4, <1>6, BodyShape
<1>8. ~overlapped => Copied(run[r], row) /\ Training(Body, r, run[r], row, artifact)
  BY <1>1, RunFacts DEF Fits
<1>9. \A it : Ahead(Body, run[r].at, it) <=> it = what \/ Ahead(Body, run[r].at + 1, it)
  BY <1>1, <1>5, <1>6, Advances
<1>10. QED BY <1>1, <1>3, <1>5, <1>6, <1>7, <1>8, <1>9

\* A step of the body that writes the row.
LEMMA WritesKeep ==
    ASSUME Inv, NEW r \in Active, NEW new \in Run, NEW w \in Row, Writes(w), Moves(r, new),
           UNCHANGED <<artifact, due, overlapped>>, losses' \in Nat,
           Kept(new.seen), Kept(new.new), Kept(w),
           ~overlapped => Fits(Body, r, new, w, artifact),
           ~overlapped /\ w.status = "completed" =>
              /\ w.pct = 100 /\ w.stage = "Completed" /\ w.path
              /\ artifact.whole /\ artifact.by = w.metrics /\ artifact.hp = BuiltFrom(w.hp),
           new.pc # "publishing"
    PROVE  Inv'
<1>1. /\ run' = [run EXCEPT ![r] = new] /\ row' = w /\ stream' = Watched
      /\ UNCHANGED <<job, call, calls, artifact, due, overlapped>>
  BY DEF Writes, Moves
<1>2. r \in Runs
  BY DEF Active
<1>3. PinnedInv' /\ RetryInv' /\ OneRun' /\ RunsInv'
  BY <1>1, RunMoves
<1>4. TypeOK'
  <2>1. stream' \in [Streams -> Stream]
    BY <1>1, WatchedStreams DEF Inv
  <2>2. QED BY <1>1, <2>1 DEF Inv, TypeOK
<1>5. CompletedIsWhole'
  BY <1>1 DEF CompletedIsWhole, Kept
<1>6. \A q \in Runs, e \in Terminal :
         Announces(run'[q], e) => Announces(run[q], e) \/ e = row.status
  <2>1. \A q \in Runs : run'[q] = IF q = r THEN new ELSE run[q]
    BY <1>1, <1>2 DEF Inv, TypeOK
  <2>2. QED BY <2>1 DEF Announces
<1>7. StreamsInv' /\ EndIsTrue'
  BY <1>1, <1>6, StreamsFollow
<1>8. QED BY <1>3, <1>4, <1>5, <1>7 DEF Inv

LEMMA StartKeeps == ASSUME Inv, NEW r \in Runs, Start(r) PROVE Inv'
<1> DEFINE seen == run[r].seen
           wanted == [seen EXCEPT !.status = "running", !.pct = 0, !.stage = "Starting"]
           w == Flushed(seen, wanted)
           new == [NoRun EXCEPT !.pc = "started"]
<1>1. /\ r \in Active /\ run[r].pc = "loaded" /\ Writes(w) /\ Moves(r, new)
      /\ UNCHANGED <<artifact, due, overlapped, losses>>
  BY DEF Start, Active
<1>2. seen \in Row /\ Kept(seen) /\ row \in Row
  BY RunFacts DEF Run
<1>3. /\ wanted \in Row /\ wanted.hp = seen.hp /\ wanted.status = "running"
      /\ wanted.pct = 0 /\ wanted.stage = "Starting"
  <2>1. "running" \in Status /\ "Starting" \in Stages /\ 0 \in 0 .. 100
    BY DEF Status, Stages
  <2> HIDE DEF seen
  <2>2. QED BY <1>2, <2>1 DEF Row
<1>4. /\ new \in Run /\ new.pc = "started" /\ new.seen = NoRun.seen /\ new.new = NoRun.new
      /\ new.at = 1
  BY CreatedFacts DEF Run, NoRun
<1>5. /\ w.status = Assign(row.status, seen.status, wanted.status)
      /\ w.pct = Assign(row.pct, seen.pct, wanted.pct)
      /\ w.stage = Assign(row.stage, seen.stage, wanted.stage)
  BY DEF Flushed
<1> HIDE DEF wanted, new, seen, w
<1>6. Kept(wanted)
  BY <1>2, <1>3 DEF Kept
<1>7. w \in Row /\ Kept(w)
  BY <1>2, <1>3, <1>6, FlushIsRow, RunFacts DEF Inv, w
<1>8. ~overlapped => Started(new, w)
  <2> SUFFICES ASSUME ~overlapped PROVE Started(new, w)
    OBVIOUS
  <2>1. Loaded(run[r], row)
    BY <1>1, RunFacts DEF Fits
  <2>2. /\ row.status \in {seen.status, "cancelled"}
        /\ row.pct = seen.pct /\ row.stage = seen.stage
    BY <2>1 DEF Loaded, seen
  <2>3. w.status \in {"running", "cancelled"}
    BY <1>3, <1>5, <2>2 DEF Assign
  <2>4. w.pct = 0 /\ w.stage = "Starting"
    BY <1>3, <1>5, <2>2 DEF Assign
  <2>5. QED BY <1>4, <2>3, <2>4 DEF Started, TrainsNow
<1>9. ~overlapped => Fits(Body, r, new, w, artifact)
  BY <1>4, <1>8 DEF Fits
<1>10. ~overlapped => w.status # "completed"
  BY <1>8 DEF Started, TrainsNow
<1>11. losses' \in Nat
  BY <1>1 DEF Inv, TypeOK
<1>12. QED BY <1>1, <1>4, <1>7, <1>9, <1>10, <1>11, CreatedFacts, WritesKeep

LEMMA ReportProgressKeeps == ASSUME Inv, NEW r \in Runs, ReportProgress(r) PROVE Inv'
<1> DEFINE at == run[r].at
           step == Body[at]
           w == [row EXCEPT !.pct = step.pct, !.stage = step.stage]
           new == Passed(r)
<1>1. At(r, "report") /\ Moves(r, new) /\ UNCHANGED <<artifact, due, overlapped>>
  BY DEF ReportProgress
<1>2. \/ Writes(w) /\ UNCHANGED losses
      \/ Loses /\ UNCHANGED <<row, stream>>
  BY DEF ReportProgress
<1>3. /\ r \in Active /\ at \in 1 .. Len(Body) /\ Len(Body) \in Nat
      /\ step \in Step /\ step.does = "report"
      /\ new \in Run /\ new.pc = "training" /\ new.at = at + 1
      /\ new.seen = run[r].seen /\ new.new = run[r].new
      /\ \A it : Ahead(Body, at, it) <=> it = "report" \/ Ahead(Body, at + 1, it)
      /\ ~overlapped => Copied(run[r], row) /\ Training(Body, r, run[r], row, artifact)
  BY <1>1, BodyStep
<1>4. /\ step.pct \in 0 .. 100 /\ step.stage \in Stages
  BY <1>3 DEF Step
<1>5. Ahead(Body, at + 1, "refresh") => step.pct # 100 /\ step.stage # "Completed"
  <2> SUFFICES ASSUME Ahead(Body, at + 1, "refresh")
               PROVE  step.pct # 100 /\ step.stage # "Completed"
    OBVIOUS
  <2>1. job \in Jobs
    BY DEF Inv, TypeOK
  <2>2. PICK i \in at + 1 .. Len(Body) : Body[i].does = "refresh"
    BY DEF Ahead
  <2>3. i \in 1 .. Len(Body) /\ at \in 1 .. i
    BY <1>3, <2>2
  <2>4. Unfinished(Body[at])
    BY <2>1, <2>2, <2>3, BodyShape
  <2>5. QED BY <2>4 DEF Unfinished
<1>6. /\ w \in Row /\ w.pct = step.pct /\ w.stage = step.stage /\ w.status = row.status
      /\ w.path = row.path /\ w.metrics = row.metrics /\ w.hp = row.hp
  BY <1>3, <1>4, RunFacts DEF Row
<1>7. /\ Kept(new.seen) /\ Kept(new.new) /\ Kept(row) /\ row \in Row
  BY <1>3, RunFacts
<1>8. Kept(w)
  BY <1>6, <1>7 DEF Kept
<1> HIDE DEF at, step, w, new
<1>9. ~overlapped => Copied(new, w) /\ Training(Body, r, new, w, artifact)
  <2> SUFFICES ASSUME ~overlapped
               PROVE  Copied(new, w) /\ Training(Body, r, new, w, artifact)
    OBVIOUS
  <2>1. Copied(new, w)
    BY <1>3, <1>6 DEF Copied, TrainsNow
  <2>2. Training(Body, r, new, w, artifact)
    BY <1>3, <1>5, <1>6 DEF Training, at
  <2>3. QED BY <2>1, <2>2
<1>10. ~overlapped => Copied(new, row) /\ Training(Body, r, new, row, artifact)
  <2> SUFFICES ASSUME ~overlapped
               PROVE  Copied(new, row) /\ Training(Body, r, new, row, artifact)
    OBVIOUS
  <2>1. Copied(new, row)
    BY <1>3 DEF Copied
  <2>2. Training(Body, r, new, row, artifact)
    BY <1>3 DEF Training, at
  <2>3. QED BY <2>1, <2>2
<1>11. ~overlapped => Fits(Body, r, new, w, artifact) /\ w.status # "completed"
  BY <1>3, <1>9 DEF Fits, Copied, TrainsNow
<1>12. ~overlapped => Fits(Body, r, new, row, artifact) /\ row.status # "completed"
  BY <1>3, <1>10 DEF Fits, Copied, TrainsNow
<1>13. CASE Writes(w) /\ UNCHANGED losses
  <2>1. losses' \in Nat
    BY <1>13 DEF Inv, TypeOK
  <2>2. QED BY <1>1, <1>3, <1>6, <1>7, <1>8, <1>11, <1>13, <2>1, WritesKeep
<1>14. CASE Loses /\ UNCHANGED <<row, stream>>
  <2>1. due' \in Nat /\ losses' \in Nat
    BY <1>1, <1>14 DEF Loses, Inv, TypeOK
  <2>2. \A e : ~Announces(new, e)
    BY <1>3 DEF Announces
  <2>3. QED BY <1>1, <1>3, <1>7, <1>12, <1>14, <2>1, <2>2, StaysKeep
<1>15. QED BY <1>2, <1>13, <1>14

LEMMA TuneKeeps == ASSUME Inv, NEW r \in Runs, Tune(r) PROVE Inv'
<1> DEFINE m == run[r]
           new == [Passed(r) EXCEPT !.new = [m.new EXCEPT !.hp = Tuned(r)]]
<1>1. At(r, "tune") /\ Alone(r, new)
  BY DEF Tune
<1>2. /\ r \in Active /\ m \in Run /\ Kept(m.seen) /\ Kept(m.new)
      /\ Passed(r) \in Run /\ Passed(r).pc = "training" /\ Passed(r).at = m.at + 1
      /\ Passed(r).seen = m.seen
      /\ m.at \in 1 .. Len(Body) /\ Len(Body) \in Nat /\ Body[m.at].does = "tune"
      /\ \A it : Ahead(Body, m.at, it) <=> it = "tune" \/ Ahead(Body, m.at + 1, it)
      /\ ~overlapped => Copied(m, row) /\ Training(Body, r, m, row, artifact)
  BY <1>1, RunFacts, BodyStep
<1>3. Tuned(r) \in Hyperparameters
  BY <1>2 DEF Tuned, Hyperparameters, Run, Row
<1>4. \A p \in Pinned : Tuned(r)[p] = User
  BY <1>2, PinnedAreParams DEF Tuned, Kept, User, Nobody
<1>5. /\ [m.new EXCEPT !.hp = Tuned(r)] \in Row
      /\ [m.new EXCEPT !.hp = Tuned(r)].hp = Tuned(r)
  BY <1>2, <1>3 DEF Run, Row
<1>6. /\ new \in Run /\ new.pc = "training" /\ new.at = m.at + 1 /\ new.seen = m.seen
      /\ new.new = [m.new EXCEPT !.hp = Tuned(r)]
  BY <1>2, <1>5 DEF Run
<1>7. Kept(new.new) /\ Kept(new.seen)
  BY <1>2, <1>4, <1>5, <1>6 DEF Kept
<1> HIDE DEF new, m
<1>8. Ahead(Body, m.at + 1, "refresh")
  <2>1. job \in Jobs
    BY DEF Inv, TypeOK
  <2>2. QED BY <1>2, <2>1, BodyShape DEF Ahead
<1>9. ~overlapped => Fits(Body, r, new, row, artifact)
  <2> SUFFICES ASSUME ~overlapped PROVE Fits(Body, r, new, row, artifact)
    OBVIOUS
  <2>1. Copied(new, row)
    BY <1>2, <1>6 DEF Copied
  <2>2. new.new = [new.seen EXCEPT !.hp = new.new.hp]
    <3>1. m.new = [m.seen EXCEPT !.hp = m.new.hp]
      BY <1>2 DEF Training
    <3>2. m.seen \in Row
      BY <1>2 DEF Run
    <3>3. new.new = [m.seen EXCEPT !.hp = Tuned(r)]
      BY <1>6, <3>1, <3>2 DEF Row
    <3>4. QED BY <1>5, <1>6, <3>3
  <2>3. Training(Body, r, new, row, artifact)
    <3>1. Ahead(Body, m.at, "tune")
      BY <1>2
    <3>2. row.hp = new.seen.hp
      BY <1>2, <1>6, <3>1 DEF Training
    <3>3. Ahead(Body, new.at, "open") /\ Ahead(Body, new.at, "close")
      <4>1. job \in Jobs
        BY DEF Inv, TypeOK
      <4>2. PICK i \in m.at + 1 .. Len(Body) : Body[i].does = "refresh"
        BY <1>8 DEF Ahead
      <4>3. i \in 1 .. Len(Body)
        BY <1>2, <4>2
      <4>4. i < Len(Body) - 2
        BY <4>1, <4>2, <4>3, BodyShape
      <4>5. /\ Len(Body) - 2 \in m.at + 1 .. Len(Body) /\ Len(Body) - 2 \in 1 .. Len(Body)
            /\ Len(Body) - 1 \in m.at + 1 .. Len(Body) /\ Len(Body) - 1 \in 1 .. Len(Body)
        BY <1>2, <4>2, <4>4
      <4>6. Body[Len(Body) - 2].does = "open" /\ Body[Len(Body) - 1].does = "close"
        BY <4>1, <4>5, BodyShape
      <4>7. QED BY <1>6, <4>5, <4>6 DEF Ahead
    <3>4. row.pct # 100 /\ row.stage # "Completed"
      BY <1>2, <1>8 DEF Training
    <3>5. QED BY <1>2, <1>6, <1>8, <2>2, <3>2, <3>3, <3>4 DEF Training
  <2>4. QED BY <1>6, <2>1, <2>3 DEF Fits
<1>10. \A e : ~Announces(new, e)
  BY <1>6 DEF Announces
<1>11. QED BY <1>1, <1>2, <1>6, <1>7, <1>9, <1>10, AloneKeeps

LEMMA CommitTunedKeeps == ASSUME Inv, NEW r \in Runs, CommitTuned(r) PROVE Inv'
<1> DEFINE m == run[r]
           w == Flushed(m.seen, m.new)
           new == Passed(r)
<1>1. /\ At(r, "commit") /\ Writes(w) /\ Moves(r, new)
      /\ UNCHANGED <<artifact, due, overlapped, losses>>
  BY DEF CommitTuned
<1>2. /\ r \in Active /\ m \in Run /\ Kept(m.seen) /\ Kept(m.new) /\ Kept(row) /\ row \in Row
      /\ new \in Run /\ new.pc = "training" /\ new.at = m.at + 1
      /\ new.seen = m.seen /\ new.new = m.new
      /\ m.at \in 1 .. Len(Body) /\ Len(Body) \in Nat /\ Body[m.at].does = "commit"
      /\ \A it : Ahead(Body, m.at, it) <=> it = "commit" \/ Ahead(Body, m.at + 1, it)
      /\ ~overlapped => Copied(m, row) /\ Training(Body, r, m, row, artifact)
  BY <1>1, RunFacts, BodyStep
<1>3. m.seen \in Row /\ m.new \in Row
  BY <1>2 DEF Run
<1>4. w \in Row /\ Kept(w)
  BY <1>2, <1>3, FlushIsRow DEF Inv
<1>5. /\ w.status = Assign(row.status, m.seen.status, m.new.status)
      /\ w.pct = Assign(row.pct, m.seen.pct, m.new.pct)
      /\ w.stage = Assign(row.stage, m.seen.stage, m.new.stage)
      /\ w.path = Assign(row.path, m.seen.path, m.new.path)
      /\ w.metrics = Assign(row.metrics, m.seen.metrics, m.new.metrics)
      /\ w.hp = Assign(row.hp, m.seen.hp, m.new.hp)
  BY DEF Flushed
<1> HIDE DEF m, w, new
<1>6. ~Ahead(Body, m.at + 1, "tune")
  <2>1. job \in Jobs
    BY DEF Inv, TypeOK
  <2>2. \A j \in m.at + 1 .. Len(Body) : Body[j].does # "tune"
    BY <1>2, <2>1, BodyShape
  <2>3. QED BY <2>2 DEF Ahead
<1>7. ~overlapped => Copied(new, w) /\ Training(Body, r, new, w, artifact)
  <2> SUFFICES ASSUME ~overlapped
               PROVE  Copied(new, w) /\ Training(Body, r, new, w, artifact)
    OBVIOUS
  <2>1. /\ m.new.status = m.seen.status /\ m.new.pct = m.seen.pct
        /\ m.new.stage = m.seen.stage /\ m.new.path = m.seen.path
        /\ m.new.metrics = m.seen.metrics
    <3>1. m.new = [m.seen EXCEPT !.hp = m.new.hp]
      BY <1>2 DEF Training
    <3>2. QED BY <1>3, <3>1 DEF Row
  <2>2. /\ w.status = row.status /\ w.pct = row.pct /\ w.stage = row.stage
        /\ w.path = row.path /\ w.metrics = row.metrics
    BY <1>5, <2>1 DEF Assign
  <2>3. w.hp \in {row.hp, m.new.hp}
    BY <1>5 DEF Assign
  <2>4. Copied(new, w)
    BY <1>2, <2>2 DEF Copied, TrainsNow
  <2>5. Training(Body, r, new, w, artifact)
    BY <1>2, <1>6, <2>2, <2>3 DEF Training
  <2>6. QED BY <2>4, <2>5
<1>8. ~overlapped => Fits(Body, r, new, w, artifact) /\ w.status # "completed"
  BY <1>2, <1>7 DEF Fits, Copied, TrainsNow
<1>9. losses' \in Nat
  BY <1>1 DEF Inv, TypeOK
<1>10. QED BY <1>1, <1>2, <1>4, <1>8, <1>9, WritesKeep

LEMMA RefreshKeeps == ASSUME Inv, NEW r \in Runs, Refresh(r) PROVE Inv'
<1> DEFINE m == run[r]
           new == [Passed(r) EXCEPT !.seen = row, !.new = row]
<1>1. At(r, "refresh") /\ Alone(r, new)
  BY DEF Refresh
<1>2. /\ r \in Active /\ Kept(row) /\ row \in Row
      /\ Passed(r) \in Run /\ Passed(r).pc = "training" /\ Passed(r).at = m.at + 1
      /\ m.at \in 1 .. Len(Body) /\ Len(Body) \in Nat /\ Body[m.at].does = "refresh"
      /\ \A it : Ahead(Body, m.at, it) <=> it = "refresh" \/ Ahead(Body, m.at + 1, it)
      /\ ~overlapped => Copied(m, row) /\ Training(Body, r, m, row, artifact)
  BY <1>1, RunFacts, BodyStep
<1>3. /\ new \in Run /\ new.pc = "training" /\ new.at = m.at + 1
      /\ new.seen = row /\ new.new = row
  BY <1>2 DEF Run
<1> HIDE DEF new, m
<1>4. ~overlapped => Fits(Body, r, new, row, artifact)
  <2> SUFFICES ASSUME ~overlapped PROVE Fits(Body, r, new, row, artifact)
    OBVIOUS
  <2>1. row.pct # 100 /\ row.stage # "Completed"
    BY <1>2 DEF Training
  <2>2. Copied(new, row)
    BY <1>2, <1>3, <2>1 DEF Copied, TrainsNow
  <2>3. new.new = [new.seen EXCEPT !.hp = new.new.hp]
    BY <1>2, <1>3 DEF Row
  <2>4. Ahead(Body, new.at, "open") /\ Ahead(Body, new.at, "close")
    <3>1. job \in Jobs
      BY DEF Inv, TypeOK
    <3>2. m.at < Len(Body) - 2
      BY <1>2, <3>1, BodyShape
    <3>3. /\ Len(Body) - 2 \in m.at + 1 .. Len(Body) /\ Len(Body) - 2 \in 1 .. Len(Body)
          /\ Len(Body) - 1 \in m.at + 1 .. Len(Body) /\ Len(Body) - 1 \in 1 .. Len(Body)
      BY <1>2, <3>2
    <3>4. Body[Len(Body) - 2].does = "open" /\ Body[Len(Body) - 1].does = "close"
      BY <3>1, <3>3, BodyShape
    <3>5. QED BY <1>3, <3>3, <3>4 DEF Ahead
  <2>5. Training(Body, r, new, row, artifact)
    BY <1>2, <1>3, <2>1, <2>3, <2>4 DEF Training
  <2>6. QED BY <1>3, <2>2, <2>5 DEF Fits
<1>5. \A e : ~Announces(new, e)
  BY <1>3 DEF Announces
<1>6. QED BY <1>1, <1>2, <1>3, <1>4, <1>5, AloneKeeps

LEMMA WriteArtifactKeeps == ASSUME Inv, NEW r \in Runs, WriteArtifact(r) PROVE Inv'
<1> DEFINE m == run[r]
           new == Passed(r)
<1>1. Moves(r, new) /\ UNCHANGED <<row, due, stream, overlapped, losses>>
  BY DEF WriteArtifact
<1>2. PICK what \in {"open", "close"} :
         /\ At(r, what)
         /\ what = "open" =>
               artifact' = [by |-> r, whole |-> FALSE, hp |-> BuiltFrom(m.new.hp)]
         /\ what = "close" => artifact' = [artifact EXCEPT !.whole = (artifact.by = r)]
  BY DEF WriteArtifact
<1>3. /\ r \in Active /\ r \in Runs /\ m \in Run /\ Kept(m.seen) /\ Kept(m.new) /\ Kept(row)
      /\ row \in Row /\ new \in Run /\ new.pc = "training" /\ new.at = m.at + 1
      /\ new.seen = m.seen /\ new.new = m.new
      /\ m.at \in 1 .. Len(Body) /\ Len(Body) \in Nat /\ Body[m.at].does = what
      /\ \A it : Ahead(Body, m.at, it) <=> it = what \/ Ahead(Body, m.at + 1, it)
      /\ ~overlapped => Copied(m, row) /\ Training(Body, r, m, row, artifact)
  BY <1>2, RunFacts, BodyStep
<1>4. run' = [run EXCEPT ![r] = new] /\ UNCHANGED <<job, call, calls>>
  BY <1>1 DEF Moves
<1>5. artifact \in Artifact
  BY DEF Inv, TypeOK
<1>6. artifact' \in Artifact
  <2>1. CASE what = "open"
    <3>1. BuiltFrom(m.new.hp) \in [Params \ Ignored -> Runs \cup {Nobody, User}]
      <4>1. m.new.hp \in Hyperparameters
        BY <1>3 DEF Run, Row
      <4>2. QED BY <4>1 DEF BuiltFrom, Hyperparameters
    <3>2. artifact' = [by |-> r, whole |-> FALSE, hp |-> BuiltFrom(m.new.hp)]
      BY <1>2, <2>1
    <3>3. r \in Runs \cup {Nobody}
      OBVIOUS
    <3> HIDE DEF m
    <3>4. QED BY <3>1, <3>2, <3>3 DEF Artifact
  <2>2. CASE what = "close"
    BY <1>2, <1>5, <2>2 DEF Artifact
  <2>3. QED BY <1>2, <2>1, <2>2
<1> HIDE DEF m, new
<1>7. ~overlapped => Fits(Body, r, new, row, artifact')
  <2> SUFFICES ASSUME ~overlapped PROVE Fits(Body, r, new, row, artifact')
    OBVIOUS
  <2>1. job \in Jobs
    BY DEF Inv, TypeOK
  <2>2. Copied(new, row)
    BY <1>3 DEF Copied
  <2>3. CASE what = "open"
    <3>1. m.at = Len(Body) - 2
      BY <1>3, <2>1, <2>3, BodyShape
    <3>2. Len(Body) - 1 \in m.at + 1 .. Len(Body) /\ Len(Body) - 1 \in 1 .. Len(Body)
      BY <1>3, <3>1
    <3>3. Body[Len(Body) - 1].does = "close"
      BY <2>1, <3>2, BodyShape
    <3>4. Ahead(Body, m.at + 1, "close")
      BY <3>2, <3>3 DEF Ahead
    <3>5. artifact'.by = r /\ artifact'.hp = BuiltFrom(m.new.hp)
      BY <1>2, <2>3
    <3>6. Training(Body, r, new, row, artifact')
      BY <1>3, <2>3, <3>4, <3>5 DEF Training
    <3>7. QED BY <1>3, <2>2, <3>6 DEF Fits
  <2>4. CASE what = "close"
    <3>1. m.at = Len(Body) - 1
      BY <1>3, <2>1, <2>4, BodyShape
    <3>2. \A i \in m.at .. Len(Body) : i \in 1 .. Len(Body) /\ i # Len(Body) - 2
      BY <1>3, <3>1
    <3>3. ~Ahead(Body, m.at, "open")
      BY <2>1, <3>2, BodyShape DEF Ahead
    <3>4. artifact.by = r /\ artifact.hp = BuiltFrom(m.new.hp)
      BY <1>3, <3>3 DEF Training
    <3>5. artifact'.by = r /\ artifact'.hp = BuiltFrom(m.new.hp) /\ artifact'.whole
      BY <1>2, <1>5, <2>4, <3>4 DEF Artifact
    <3>6. Training(Body, r, new, row, artifact')
      BY <1>3, <2>4, <3>5 DEF Training
    <3>7. QED BY <1>3, <2>2, <3>6 DEF Fits
  <2>5. QED BY <1>2, <2>3, <2>4
<1>8. PinnedInv' /\ RetryInv' /\ OneRun' /\ RunsInv'
  BY <1>1, <1>3, <1>4, <1>7, RunMoves
<1>9. TypeOK'
  BY <1>1, <1>3, <1>4, <1>6 DEF Inv, TypeOK
<1>10. CompletedIsWhole'
  <2>1. ~overlapped => row.status # "completed"
    BY <1>3 DEF Copied, TrainsNow
  <2>2. QED BY <1>1, <2>1 DEF CompletedIsWhole
<1>11. \A q \in Runs, e \in Terminal :
          Announces(run'[q], e) => Announces(run[q], e) \/ e = row.status
  <2>1. \A q \in Runs : run'[q] = IF q = r THEN new ELSE run[q]
    BY <1>3, <1>4 DEF Inv, TypeOK
  <2>2. QED BY <1>3, <2>1 DEF Announces
<1>12. StreamsInv' /\ EndIsTrue'
  BY <1>1, <1>3, <1>11, StreamsFollow
<1>13. QED BY <1>8, <1>9, <1>10, <1>12 DEF Inv

LEMMA FinishKeeps == ASSUME Inv, NEW r \in Runs, Finish(r) PROVE Inv'
<1> DEFINE m == run[r]
           ended == [m.new EXCEPT !.status = "completed", !.path = TRUE, !.metrics = r]
           new == [m EXCEPT !.pc = "trained", !.new = ended]
<1>1. /\ r \in Active /\ m.pc = "training" /\ m.at > Len(Body) /\ Alone(r, new)
  BY DEF Finish, Active
<1>2. /\ m \in Run /\ Kept(m.seen) /\ Kept(m.new)
      /\ ~overlapped => Copied(m, row) /\ Training(Body, r, m, row, artifact)
  BY <1>1, RunFacts DEF Fits
<1>3. /\ ended \in Row /\ ended.status = "completed" /\ ended.path /\ ended.metrics = r
      /\ ended.hp = m.new.hp
  <2>1. "completed" \in Status
    BY DEF Status, Terminal
  <2>2. m.new \in Row
    BY <1>2 DEF Run
  <2>3. QED BY <2>1, <2>2 DEF Row
<1>4. new \in Run /\ new.pc = "trained" /\ new.seen = m.seen /\ new.new = ended
  BY <1>2, <1>3 DEF Run
<1> HIDE DEF new, m, ended
<1>5. ~overlapped => Fits(Body, r, new, row, artifact)
  <2> SUFFICES ASSUME ~overlapped PROVE Fits(Body, r, new, row, artifact)
    OBVIOUS
  <2>1. Copied(new, row)
    BY <1>2, <1>4 DEF Copied
  <2>2. Len(Body) \in Nat /\ m.at \in Nat
    BY <1>2, BodyShape DEF Inv, TypeOK, Run
  <2>3. \A it : ~Ahead(Body, m.at, it)
    BY <1>1, <2>2 DEF Ahead
  <2>4. /\ row.hp = m.new.hp /\ artifact.by = r /\ artifact.hp = BuiltFrom(m.new.hp)
        /\ artifact.whole
    BY <1>2, <2>3 DEF Training
  <2>5. Trained(r, new, row, artifact)
    BY <1>3, <1>4, <2>4 DEF Trained
  <2>6. QED BY <1>4, <2>1, <2>5 DEF Fits
<1>6. Kept(new.seen) /\ Kept(new.new)
  BY <1>2, <1>3, <1>4 DEF Kept
<1>7. \A e : ~Announces(new, e)
  BY <1>4 DEF Announces
<1>8. QED BY <1>1, <1>4, <1>5, <1>6, <1>7, AloneKeeps

LEMMA FailKeeps == ASSUME Inv, NEW r \in Runs, Fail(r) PROVE Inv'
<1> DEFINE m == run[r]
           ended == [m.new EXCEPT !.status = "failed", !.stage = "Failed"]
           new == [m EXCEPT !.pc = "trained", !.new = ended]
<1>1. r \in Active /\ m.pc = "training" /\ Alone(r, new)
  BY DEF Fail, Active
<1>2. /\ m \in Run /\ Kept(m.seen) /\ Kept(m.new)
      /\ ~overlapped => Copied(m, row)
  BY <1>1, RunFacts DEF Fits
<1>3. ended \in Row /\ ended.status = "failed" /\ ended.hp = m.new.hp
  <2>1. "failed" \in Status /\ "Failed" \in Stages
    BY DEF Status, Terminal, Stages
  <2>2. m.new \in Row
    BY <1>2 DEF Run
  <2>3. QED BY <2>1, <2>2 DEF Row
<1>4. new \in Run /\ new.pc = "trained" /\ new.seen = m.seen /\ new.new = ended
  BY <1>2, <1>3 DEF Run
<1> HIDE DEF new, m, ended
<1>5. ~overlapped => Fits(Body, r, new, row, artifact)
  BY <1>2, <1>3, <1>4 DEF Fits, Copied, Trained
<1>6. Kept(new.seen) /\ Kept(new.new)
  BY <1>2, <1>3, <1>4 DEF Kept
<1>7. \A e : ~Announces(new, e)
  BY <1>4 DEF Announces
<1>8. QED BY <1>1, <1>4, <1>5, <1>6, <1>7, AloneKeeps

LEMMA GuardKeeps == ASSUME Inv, NEW r \in Runs, Guard(r) PROVE Inv'
<1>1. r \in Active /\ run[r].pc = "trained"
  BY DEF Guard, Active
<1>2. CASE row.status = "cancelled"
  <2>1. Alone(r, Over)
    BY <1>2 DEF Guard, RolledBack
  <2>2. QED BY <1>1, <2>1, OverKeeps
<1>3. CASE row.status # "cancelled"
  <2> DEFINE new == [run[r] EXCEPT !.pc = "guarded"]
  <2>1. Alone(r, new)
    BY <1>3 DEF Guard
  <2>2. /\ new \in Run /\ new.pc = "guarded" /\ new.seen = run[r].seen
        /\ new.new = run[r].new
    BY RunFacts DEF Run
  <2> HIDE DEF new
  <2>3. ~overlapped => Fits(Body, r, new, row, artifact)
    <3> SUFFICES ASSUME ~overlapped PROVE Fits(Body, r, new, row, artifact)
      OBVIOUS
    <3>1. Copied(run[r], row) /\ Trained(r, run[r], row, artifact)
      BY <1>1, RunFacts DEF Fits
    <3>2. Copied(new, row) /\ Trained(r, new, row, artifact)
      BY <2>2, <3>1 DEF Copied, Trained
    <3>3. QED BY <2>2, <3>2 DEF Fits
  <2>4. \A e : ~Announces(new, e)
    BY <2>2 DEF Announces
  <2>5. QED BY <1>1, <2>1, <2>2, <2>3, <2>4, RunFacts, AloneKeeps
<1>4. QED BY <1>2, <1>3

LEMMA CommitOutcomeKeeps == ASSUME Inv, NEW r \in Runs, CommitOutcome(r) PROVE Inv'
<1> DEFINE m == run[r]
           ended == Settled(m.new)
           w == Flushed(m.seen, ended)
           new == [m EXCEPT !.pc = "committed"]
<1>1. /\ r \in Active /\ m.pc = "guarded" /\ Writes(w) /\ Moves(r, new)
      /\ UNCHANGED <<artifact, due, overlapped, losses>>
  BY DEF CommitOutcome, Active
<1>2. /\ m \in Run /\ Kept(m.seen) /\ Kept(m.new) /\ Kept(row)
      /\ ~overlapped => Copied(m, row) /\ Trained(r, m, row, artifact)
  BY <1>1, RunFacts DEF Fits
<1>3. m.seen \in Row /\ m.new \in Row
  BY <1>2 DEF Run
<1>4. /\ ended \in Row /\ ended.status = m.new.status /\ ended.path = m.new.path
      /\ ended.metrics = m.new.metrics /\ ended.hp = m.new.hp
      /\ m.new.status = "completed" => ended.pct = 100 /\ ended.stage = "Completed"
  <2>1. 100 \in 0 .. 100 /\ "Completed" \in Stages
    BY DEF Stages
  <2> HIDE DEF m
  <2>2. CASE m.new.status = "completed"
    BY <1>3, <2>1, <2>2 DEF Settled, Row
  <2>3. CASE m.new.status # "completed"
    BY <1>3, <2>3 DEF Settled
  <2>4. QED BY <2>2, <2>3
<1>5. /\ w.status = Assign(row.status, m.seen.status, ended.status)
      /\ w.pct = Assign(row.pct, m.seen.pct, ended.pct)
      /\ w.stage = Assign(row.stage, m.seen.stage, ended.stage)
      /\ w.path = Assign(row.path, m.seen.path, ended.path)
      /\ w.metrics = Assign(row.metrics, m.seen.metrics, ended.metrics)
      /\ w.hp = Assign(row.hp, m.seen.hp, ended.hp)
  BY DEF Flushed
<1>6. new \in Run /\ new.pc = "committed" /\ new.seen = m.seen /\ new.new = m.new
  BY <1>2 DEF Run
<1>7. Kept(ended)
  BY <1>2, <1>4 DEF Kept
<1>8. w \in Row /\ Kept(w)
  BY <1>2, <1>3, <1>4, <1>7, FlushIsRow DEF Inv
<1> HIDE DEF m, ended, w, new
<1>9. Fits(Body, r, new, w, artifact)
  BY <1>6, RestIsEasy
<1>10. ~overlapped /\ w.status = "completed" =>
              /\ w.pct = 100 /\ w.stage = "Completed" /\ w.path
              /\ artifact.whole /\ artifact.by = w.metrics /\ artifact.hp = BuiltFrom(w.hp)
  <2> SUFFICES ASSUME ~overlapped, w.status = "completed"
               PROVE  /\ w.pct = 100 /\ w.stage = "Completed" /\ w.path
                      /\ artifact.whole /\ artifact.by = w.metrics /\ artifact.hp = BuiltFrom(w.hp)
    OBVIOUS
  <2>1. m.new.status = "completed"
    BY <1>2, <1>4, <1>5 DEF Copied, TrainsNow, Trained, Assign
  <2>2. /\ m.new.path /\ m.new.metrics = r /\ artifact.whole /\ artifact.by = r
        /\ artifact.hp = BuiltFrom(m.new.hp) /\ row.hp = m.new.hp
    BY <1>2, <2>1 DEF Trained
  <2>3. w.pct = 100 /\ w.stage = "Completed"
    BY <1>2, <1>4, <1>5, <2>1 DEF Copied, Assign
  <2>4. w.path
    <3>1. row.path = m.seen.path
      BY <1>2 DEF Copied
    <3>2. CASE ended.path = m.seen.path
      BY <1>4, <1>5, <2>2, <3>1, <3>2 DEF Assign
    <3>3. CASE ended.path # m.seen.path
      BY <1>4, <1>5, <2>2, <3>3 DEF Assign
    <3>4. QED BY <3>2, <3>3
  <2>5. w.metrics = r
    BY <1>2, <1>4, <1>5, <2>2 DEF Copied, Assign
  <2>6. w.hp = m.new.hp
    BY <1>4, <1>5, <2>2 DEF Assign
  <2>7. QED BY <2>2, <2>3, <2>4, <2>5, <2>6
<1>11. losses' \in Nat
  BY <1>1 DEF Inv, TypeOK
<1>12. QED BY <1>1, <1>2, <1>6, <1>8, <1>9, <1>10, <1>11, WritesKeep

LEMMA ReadBackKeeps == ASSUME Inv, NEW r \in Runs, ReadBack(r) PROVE Inv'
<1> DEFINE new == [NoRun EXCEPT !.pc = "publishing", !.event = row.status]
<1>1. r \in Active /\ Alone(r, new)
  BY DEF ReadBack, Active
<1>2. row.status \in Status
  BY RunFacts DEF Row
<1>3. /\ new \in Run /\ new.pc = "publishing" /\ new.event = row.status
      /\ new.seen = NoRun.seen /\ new.new = NoRun.new
  BY <1>2, CreatedFacts DEF Run
<1> HIDE DEF new
<1>4. Fits(Body, r, new, row, artifact)
  BY <1>3 DEF Fits
<1>5. \A e \in Terminal : Announces(new, e) => e = row.status
  BY <1>3 DEF Announces
<1>6. QED BY <1>1, <1>3, <1>4, <1>5, CreatedFacts, AloneKeeps

\* What is published now was the status while every open stream watched.
LEMMA PublishKeeps == ASSUME Inv, NEW r \in Runs, Publish(r) PROVE Inv'
<1>1. /\ r \in Active /\ run[r].pc = "publishing" /\ Moves(r, Over)
      /\ UNCHANGED <<row, artifact, due, overlapped>>
  BY DEF Publish, Active
<1>2. losses' \in Nat
  BY DEF Publish, Loses, Inv, TypeOK
<1>3. Fits(Body, r, Over, row, artifact) /\ \A e : ~Announces(Over, e)
  BY OverFacts, RestIsEasy DEF Announces
<1>4. CASE stream' = stream
  <2>1. due' \in Nat
    BY <1>1 DEF Inv, TypeOK
  <2>2. QED BY <1>1, <1>2, <1>3, <1>4, <2>1, OverFacts, StaysKeep
<1>5. CASE stream' = [s \in Streams |->
                        IF stream[s].pc = "subscribed" /\ run[r].event \in Terminal
                        THEN [stream[s] EXCEPT !.queue = Append(@, run[r].event)]
                        ELSE stream[s]]
  <2>1. run' = [run EXCEPT ![r] = Over] /\ UNCHANGED <<job, call, calls>>
    BY <1>1 DEF Moves
  <2>2. row \in Row /\ Kept(row) /\ r \in Runs
    BY RunFacts
  <2>3. PinnedInv' /\ RetryInv' /\ OneRun' /\ RunsInv'
    BY <1>1, <1>3, <2>1, <2>2, OverFacts, RunMoves
  <2>4. \A s \in Streams :
           /\ stream'[s] \in Stream
           /\ stream'[s].pc = stream[s].pc /\ stream'[s].since = stream[s].since
           /\ stream'[s].end = stream[s].end
           /\ \/ stream'[s].queue = stream[s].queue
              \/ /\ stream[s].pc = "subscribed" /\ run[r].event \in Terminal
                 /\ stream'[s].queue = Append(stream[s].queue, run[r].event)
    <3> SUFFICES ASSUME NEW s \in Streams
                 PROVE  /\ stream'[s] \in Stream
                        /\ stream'[s].pc = stream[s].pc
                        /\ stream'[s].since = stream[s].since
                        /\ stream'[s].end = stream[s].end
                        /\ \/ stream'[s].queue = stream[s].queue
                           \/ /\ stream[s].pc = "subscribed" /\ run[r].event \in Terminal
                              /\ stream'[s].queue = Append(stream[s].queue, run[r].event)
      OBVIOUS
    <3>1. stream[s] \in Stream
      BY DEF Inv, TypeOK
    <3>2. CASE stream[s].pc = "subscribed" /\ run[r].event \in Terminal
      <4>1. stream'[s] = [stream[s] EXCEPT !.queue = Append(stream[s].queue, run[r].event)]
        BY <1>5, <3>2
      <4>2. Append(stream[s].queue, run[r].event) \in Seq(Terminal)
        BY <3>1, <3>2 DEF Stream
      <4>3. QED BY <3>1, <3>2, <4>1, <4>2 DEF Stream
    <3>3. CASE ~(stream[s].pc = "subscribed" /\ run[r].event \in Terminal)
      <4>1. stream'[s] = stream[s]
        BY <1>5, <3>3
      <4>2. QED BY <3>1, <4>1
    <3>4. QED BY <3>2, <3>3
  <2>5. TypeOK'
    <3>1. stream' \in [Streams -> Stream]
      BY <1>5, <2>4
    <3>2. QED BY <1>1, <1>2, <2>1, <3>1, OverFacts DEF Inv, TypeOK
  <2>6. CompletedIsWhole'
    BY <1>1, SameRow
  <2>7. EndIsTrue'
    BY <1>1, <2>4 DEF Inv, EndIsTrue
  <2>8. \A q \in Runs, e \in Terminal : Announces(run'[q], e) => Announces(run[q], e)
    <3>1. \A q \in Runs : run'[q] = IF q = r THEN Over ELSE run[q]
      BY <2>1, <2>2 DEF Inv, TypeOK
    <3>2. QED BY <1>3, <3>1
  <2>9. StreamsInv'
    <3>1. \A s \in Streams : Open(s)' <=> Open(s)
      BY <2>4 DEF Open
    <3>2. \A s \in Streams : Open(s) => row'.status \in stream'[s].since
      BY <1>1, <2>4 DEF Inv, StreamsInv
    <3>3. \A s \in Streams : Open(s) /\ ~overlapped =>
             \A q \in Runs, e \in Terminal : Announces(run'[q], e) => e \in stream'[s].since
      BY <2>4, <2>8 DEF Inv, StreamsInv
    <3>4. \A s \in Streams : ~overlapped =>
             \A i \in 1 .. Len(stream'[s].queue) : stream'[s].queue[i] \in stream'[s].since
      <4> SUFFICES ASSUME NEW s \in Streams, ~overlapped,
                          NEW i \in 1 .. Len(stream'[s].queue)
                   PROVE  stream'[s].queue[i] \in stream'[s].since
        OBVIOUS
      <4>1. stream[s].queue \in Seq(Terminal)
        BY DEF Inv, TypeOK, Stream
      <4>2. \A j \in 1 .. Len(stream[s].queue) : stream[s].queue[j] \in stream[s].since
        BY DEF Inv, StreamsInv
      <4>3. CASE stream'[s].queue = stream[s].queue
        BY <2>4, <4>2, <4>3
      <4>4. CASE /\ stream[s].pc = "subscribed" /\ run[r].event \in Terminal
                 /\ stream'[s].queue = Append(stream[s].queue, run[r].event)
        <5>1. Announces(run[r], run[r].event) /\ Open(s)
          BY <1>1, <4>4 DEF Announces, Open
        <5>2. run[r].event \in stream[s].since
          BY <2>2, <4>4, <5>1 DEF Inv, StreamsInv
        <5>3. \/ i \in 1 .. Len(stream[s].queue) /\ stream'[s].queue[i] = stream[s].queue[i]
              \/ stream'[s].queue[i] = run[r].event
          BY <4>1, <4>4
        <5>4. QED BY <2>4, <4>2, <5>2, <5>3
      <4>5. QED BY <2>4, <4>3, <4>4
    <3>5. \A s \in Streams : stream'[s].pc = "idle" =>
             stream'[s].queue = <<>> /\ stream'[s].end = "none"
      BY <2>4 DEF Inv, StreamsInv
    <3>6. QED BY <1>1, <3>1, <3>2, <3>3, <3>4, <3>5 DEF StreamsInv
  <2>10. QED BY <2>3, <2>5, <2>6, <2>7, <2>9 DEF Inv
<1>6. QED BY <1>4, <1>5 DEF Publish

LEMMA WorkerLostKeeps == ASSUME Inv, NEW r \in Runs, WorkerLost(r) PROVE Inv'
<1>1. PICK cut \in BOOLEAN, back \in {0, 1} :
         due' = due + back /\ Moves(r, IF cut THEN Over ELSE run[r])
  BY DEF WorkerLost
<1>2. r \in Active /\ UNCHANGED <<row, artifact, stream, overlapped>>
  BY DEF WorkerLost
<1>3. due' \in Nat /\ losses' \in Nat
  BY <1>1 DEF WorkerLost, Loses, Inv, TypeOK
<1>4. CASE cut
  <2>1. Fits(Body, r, Over, row, artifact) /\ \A e : ~Announces(Over, e)
    BY OverFacts, RestIsEasy DEF Announces
  <2>2. Moves(r, Over)
    BY <1>1, <1>4
  <2>3. QED BY <1>2, <1>3, <2>1, <2>2, OverFacts, StaysKeep
<1>5. CASE ~cut
  <2>1. Moves(r, run[r])
    BY <1>1, <1>5
  <2>2. QED BY <1>2, <1>3, <2>1, RunFacts, StaysKeep
<1>6. QED BY <1>4, <1>5

LEMMA DeliverKeeps == ASSUME Inv, NEW r \in Runs, Deliver(r) PROVE Inv'
<1> DEFINE new == [run[r] EXCEPT !.pc = "taken"]
<1>1. /\ due > 0 /\ due' = due - 1 /\ overlapped' = (overlapped \/ Active # {})
      /\ run' = [run EXCEPT ![r] = new]
      /\ UNCHANGED <<job, call, calls, row, artifact, stream, losses>>
  BY DEF Deliver, Moves
<1>2. /\ new \in Run /\ new.pc = "taken" /\ new.seen = run[r].seen /\ new.new = run[r].new
      /\ Kept(new.seen) /\ Kept(new.new) /\ row \in Row /\ Kept(row)
  BY RunFacts DEF Run
<1> HIDE DEF new
<1>3. \A q \in Runs : run'[q] = IF q = r THEN new ELSE run[q]
  BY <1>1 DEF Inv, TypeOK
<1>4. TypeOK'
  BY <1>1, <1>2 DEF Inv, TypeOK
<1>5. PinnedInv' /\ RetryInv'
  BY <1>1, <1>2, <1>3 DEF Inv, PinnedInv, RetryInv
<1>6. ~overlapped' => ~overlapped /\ \A q \in Runs : run[q].pc \in {"idle", "over"}
  BY <1>1 DEF Active
<1>7. ~overlapped' => \A q \in Active' : q = r
  BY <1>3, <1>6 DEF Active
<1>8. OneRun'
  BY <1>7 DEF OneRun
<1>9. ~overlapped' => \A q \in Runs : run'[q].pc \in {"idle", "over", "taken"}
  BY <1>2, <1>3, <1>6
<1>10. RunsInv'
  <2> SUFFICES ASSUME ~overlapped', NEW q \in Runs
               PROVE  Fits(Body', q, run'[q], row', artifact')
    BY DEF RunsInv
  <2>1. QED BY <1>9, RestIsEasy
<1>11. CompletedIsWhole'
  BY <1>1, <1>6, SameRow
<1>12. ~overlapped' => \A q \in Runs, e \in Terminal : ~Announces(run'[q], e)
  BY <1>9 DEF Announces
<1>13. StreamsInv' /\ EndIsTrue'
  BY <1>1, <1>2, <1>6, <1>12, StreamsFollow
<1>14. QED BY <1>4, <1>5, <1>8, <1>10, <1>11, <1>13 DEF Inv

-----------------------------------------------------------------------------
(* The steps of the calls and of the streams                               *)

\* A step that changes only what is due and the calls.
LEMMA CallsKeep ==
    ASSUME Inv, UNCHANGED <<job, row, artifact, run, stream, overlapped>>,
           due' \in Nat, calls' \in Nat, losses' \in Nat,
           call' \in [Callers -> Call], \A c \in Callers : Kept(call'[c].seen),
           RetryInv'
    PROVE  Inv'
<1>1. TypeOK' /\ PinnedInv'
  BY DEF Inv, TypeOK, PinnedInv
<1>2. OneRun' /\ RunsInv'
  BY SameBody DEF Inv, OneRun, Active, RunsInv
<1>3. StreamsInv' /\ EndIsTrue' /\ CompletedIsWhole'
  BY DEF Inv, StreamsInv, Open, EndIsTrue, CompletedIsWhole
<1>4. QED BY <1>1, <1>2, <1>3 DEF Inv

LEMMA DropTaskKeeps == ASSUME Inv, DropTask PROVE Inv'
<1>1. /\ due > 0 /\ due' = due - 1 /\ losses' = losses + 1
      /\ UNCHANGED <<job, row, artifact, run, call, stream, overlapped, calls>>
  BY DEF DropTask, Loses
<1>2. due' \in Nat /\ losses' \in Nat /\ calls' \in Nat /\ call' \in [Callers -> Call]
  BY <1>1 DEF Inv, TypeOK
<1>3. RetryInv' /\ \A c \in Callers : Kept(call'[c].seen)
  BY <1>1 DEF Inv, RetryInv, PinnedInv
<1>4. QED BY <1>1, <1>2, <1>3, CallsKeep

LEMMA OpensKeeps ==
    ASSUME Inv, NEW c \in Callers,
           \/ OpenCancel(c)
           \/ OpenRetry(c)
    PROVE  Inv'
<1>1. PICK pc \in {"cancelling", "retrying"} :
         /\ pc = "retrying" => row.status \in {"failed", "cancelled"}
         /\ calls' = calls + 1
         /\ call' = [call EXCEPT ![c] = [pc |-> pc, seen |-> row]]
         /\ UNCHANGED <<job, row, artifact, due, run, stream, overlapped, losses>>
  BY DEF OpenCancel, OpenRetry, Opens
<1>2. row \in Row /\ Kept(row)
  BY DEF Inv, TypeOK, PinnedInv
<1> DEFINE new == [pc |-> pc, seen |-> row]
<1>3. new \in Call /\ new.pc = pc /\ new.seen = row
  BY <1>2 DEF Call
<1>4. call' = [call EXCEPT ![c] = new]
  BY <1>1
<1> HIDE DEF new
<1>5. call \in [Callers -> Call]
  BY DEF Inv, TypeOK
<1>6. call' \in [Callers -> Call]
  BY <1>3, <1>4, <1>5
<1>7. \A d \in Callers : call'[d] = IF d = c THEN new ELSE call[d]
  BY <1>4, <1>5
<1>8. RetryInv' /\ \A d \in Callers : Kept(call'[d].seen)
  BY <1>1, <1>2, <1>3, <1>7 DEF Inv, RetryInv, PinnedInv
<1>9. due' \in Nat /\ losses' \in Nat /\ calls' \in Nat
  BY <1>1 DEF Inv, TypeOK
<1>10. QED BY <1>1, <1>6, <1>8, <1>9, CallsKeep

LEMMA SendTaskKeeps == ASSUME Inv, NEW c \in Callers, SendTask(c) PROVE Inv'
<1>1. /\ due' = due + 1 /\ call' = [call EXCEPT ![c] = NoCall]
      /\ UNCHANGED <<job, row, artifact, run, stream, overlapped, calls, losses>>
  BY DEF SendTask, Calls
<1>2. call \in [Callers -> Call]
  BY DEF Inv, TypeOK
<1>3. call' \in [Callers -> Call]
  BY <1>1, <1>2, CreatedFacts
<1>4. \A d \in Callers : call'[d] = IF d = c THEN NoCall ELSE call[d]
  BY <1>1, <1>2
<1>5. NoCall.pc = "idle"
  BY DEF NoCall
<1>6. RetryInv' /\ \A d \in Callers : Kept(call'[d].seen)
  BY <1>4, <1>5, CreatedFacts DEF Inv, RetryInv, PinnedInv
<1>7. due' \in Nat /\ losses' \in Nat /\ calls' \in Nat
  BY <1>1 DEF Inv, TypeOK
<1>8. QED BY <1>1, <1>3, <1>6, <1>7, CallsKeep

\* A call that writes the row.
LEMMA CallWritesKeep ==
    ASSUME Inv, NEW c \in Callers, NEW new \in Call, NEW w \in Row, Writes(w), Calls(c, new),
           due' = due, overlapped' \in BOOLEAN, ~overlapped' => ~overlapped,
           new.pc \in {"idle", "sending"}, Kept(new.seen), Kept(w),
           w.status # "completed",
           ~overlapped' => \A r \in Runs : Fits(Body, r, run[r], w, artifact)
    PROVE  Inv'
<1>1. /\ row' = w /\ stream' = Watched /\ call' = [call EXCEPT ![c] = new]
      /\ UNCHANGED <<job, artifact, run, calls, losses, due>>
  BY DEF Writes, Calls
<1>2. call \in [Callers -> Call]
  BY DEF Inv, TypeOK
<1>3. call' \in [Callers -> Call]
  BY <1>1, <1>2
<1>4. \A d \in Callers : call'[d] = IF d = c THEN new ELSE call[d]
  BY <1>1, <1>2
<1>5. TypeOK'
  <2>1. stream' \in [Streams -> Stream]
    BY <1>1, WatchedStreams DEF Inv
  <2>2. QED BY <1>1, <1>3, <2>1 DEF Inv, TypeOK
<1>6. PinnedInv' /\ RetryInv'
  BY <1>1, <1>4 DEF Inv, PinnedInv, RetryInv
<1>7. OneRun'
  BY <1>1 DEF Inv, OneRun, Active
<1>8. RunsInv'
  BY <1>1, SameBody DEF RunsInv
<1>9. CompletedIsWhole'
  BY <1>1 DEF CompletedIsWhole
<1>10. StreamsInv' /\ EndIsTrue'
  BY <1>1, StreamsFollow
<1>11. QED BY <1>5, <1>6, <1>7, <1>8, <1>9, <1>10 DEF Inv

LEMMA CommitCancelKeeps == ASSUME Inv, NEW c \in Callers, CommitCancel(c) PROVE Inv'
<1> DEFINE w == [row EXCEPT !.status = "cancelled"]
<1>1. /\ Writes(w) /\ Calls(c, NoCall) /\ UNCHANGED <<due, overlapped>>
  BY DEF CommitCancel
<1>2. row \in Row /\ Kept(row)
  BY DEF Inv, TypeOK, PinnedInv
<1>3. /\ w \in Row /\ w.status = "cancelled" /\ w.pct = row.pct /\ w.stage = row.stage
      /\ w.path = row.path /\ w.metrics = row.metrics /\ w.hp = row.hp
  <2>1. "cancelled" \in Status
    BY DEF Status, Terminal
  <2>2. QED BY <1>2, <2>1 DEF Row
<1> HIDE DEF w
<1>4. ~overlapped => \A r \in Runs : Fits(Body, r, run[r], w, artifact)
  <2> SUFFICES ASSUME ~overlapped, NEW r \in Runs PROVE Fits(Body, r, run[r], w, artifact)
    OBVIOUS
  <2>1. Fits(Body, r, run[r], row, artifact)
    BY RunFacts
  <2>2. Loaded(run[r], row) => Loaded(run[r], w)
    BY <1>3 DEF Loaded
  <2>3. Started(run[r], row) => Started(run[r], w)
    BY <1>3 DEF Started, TrainsNow
  <2>4. Copied(run[r], row) => Copied(run[r], w)
    BY <1>3 DEF Copied, TrainsNow
  <2>5. Training(Body, r, run[r], row, artifact) => Training(Body, r, run[r], w, artifact)
    BY <1>3 DEF Training
  <2>6. Trained(r, run[r], row, artifact) => Trained(r, run[r], w, artifact)
    BY <1>3 DEF Trained
  <2>7. w.status \in Terminal
    BY <1>3 DEF Terminal
  <2>8. QED BY <2>1, <2>2, <2>3, <2>4, <2>5, <2>6, <2>7 DEF Fits
<1>5. NoCall.pc = "idle" /\ Kept(w) /\ overlapped' \in BOOLEAN
  BY <1>1, <1>2, <1>3 DEF NoCall, Kept, Inv, TypeOK
<1>6. QED BY <1>1, <1>3, <1>4, <1>5, CreatedFacts, CallWritesKeep

LEMMA CommitRetryKeeps == ASSUME Inv, NEW c \in Callers, CommitRetry(c) PROVE Inv'
<1> DEFINE seen == call[c].seen
           reset == [seen EXCEPT !.status = "queued", !.path = FALSE, !.metrics = Nobody]
           w == Flushed(seen, reset)
           new == [NoCall EXCEPT !.pc = "sending"]
<1>1. /\ call[c].pc = "retrying" /\ Writes(w) /\ Calls(c, new) /\ due' = due
      /\ overlapped' = (overlapped \/ Active # {})
  BY DEF CommitRetry
<1>2. seen \in Row /\ Kept(seen) /\ Kept(row) /\ seen.status \in {"failed", "cancelled"}
  BY <1>1 DEF Inv, TypeOK, PinnedInv, RetryInv, Call
<1>3. new \in Call /\ new.pc = "sending" /\ new.seen = NoCall.seen
  BY CreatedFacts DEF Call
<1>4. w.status = Assign(row.status, seen.status, reset.status)
  BY DEF Flushed
<1> HIDE DEF seen
<1>5. reset \in Row /\ reset.status = "queued" /\ reset.hp = seen.hp
  <2>1. "queued" \in Status
    BY DEF Status
  <2>2. QED BY <1>2, <2>1 DEF Row
<1>6. Kept(reset)
  BY <1>2, <1>5 DEF Kept
<1>7. w \in Row /\ Kept(w)
  BY <1>2, <1>5, <1>6, FlushIsRow DEF Inv
<1>8. w.status = "queued"
  BY <1>2, <1>4, <1>5 DEF Assign
<1> HIDE DEF reset, w, new
<1>9. /\ overlapped' \in BOOLEAN
      /\ ~overlapped' => ~overlapped /\ \A r \in Runs : run[r].pc \in {"idle", "over"}
  BY <1>1 DEF Active, Inv, TypeOK
<1>10. ~overlapped' => \A r \in Runs : Fits(Body, r, run[r], w, artifact)
  BY <1>9, RestIsEasy
<1>11. QED BY <1>1, <1>3, <1>7, <1>8, <1>9, <1>10, CreatedFacts, CallWritesKeep

\* A step of a stream alone.
LEMMA StreamingKeeps ==
    ASSUME Inv, NEW s \in Streams, NEW new \in Stream, Streaming(s, new),
           new.pc # "idle",
           new.pc \in {"opened", "subscribed"} => row.status \in new.since,
           new.pc \in {"opened", "subscribed"} /\ ~overlapped =>
              \A r \in Runs, e \in Terminal : Announces(run[r], e) => e \in new.since,
           ~overlapped => \A i \in 1 .. Len(new.queue) : new.queue[i] \in new.since,
           new.end # "none" /\ ~overlapped => new.end \in new.since
    PROVE  Inv'
<1>1. /\ stream' = [stream EXCEPT ![s] = new]
      /\ UNCHANGED <<job, row, artifact, due, run, call, overlapped, calls, losses>>
  BY DEF Streaming
<1>2. \A q \in Streams : stream'[q] = IF q = s THEN new ELSE stream[q]
  BY <1>1 DEF Inv, TypeOK
<1>3. TypeOK'
  BY <1>1 DEF Inv, TypeOK
<1>4. PinnedInv' /\ RetryInv' /\ OneRun' /\ CompletedIsWhole'
  BY <1>1 DEF Inv, PinnedInv, RetryInv, OneRun, Active, CompletedIsWhole
<1>5. RunsInv'
  BY <1>1, SameBody DEF Inv, RunsInv
<1>6. EndIsTrue'
  BY <1>1, <1>2 DEF Inv, EndIsTrue
<1>7. StreamsInv'
  <2> SUFFICES ASSUME NEW q \in Streams
               PROVE  /\ stream'[q].pc = "idle" =>
                            stream'[q].queue = <<>> /\ stream'[q].end = "none"
                      /\ Open(q)' => row'.status \in stream'[q].since
                      /\ Open(q)' /\ ~overlapped' =>
                            \A r \in Runs, e \in Terminal :
                               Announces(run'[r], e) => e \in stream'[q].since
                      /\ ~overlapped' => \A i \in 1 .. Len(stream'[q].queue) :
                                            stream'[q].queue[i] \in stream'[q].since
    BY DEF StreamsInv
  <2>1. CASE q = s
    BY <1>1, <1>2, <2>1 DEF Open
  <2>2. CASE q # s
    BY <1>1, <1>2, <2>2 DEF Inv, StreamsInv, Open
  <2>3. QED BY <2>1, <2>2
<1>8. QED BY <1>3, <1>4, <1>5, <1>6, <1>7 DEF Inv

LEMMA OpenStreamKeeps == ASSUME Inv, NEW s \in Streams, OpenStream(s) PROVE Inv'
<1>1. stream[s].pc = "idle" /\ stream[s] \in Stream /\ row.status \in Status
  BY DEF OpenStream, Inv, TypeOK, Row
<1>2. stream[s].queue = <<>> /\ stream[s].end = "none"
  BY <1>1 DEF Inv, StreamsInv
<1>3. CASE row.status \in Terminal
  <2> DEFINE new == [Ends(s, row.status) EXCEPT !.since = {row.status}]
  <2>1. Streaming(s, new)
    BY <1>3 DEF OpenStream
  <2>2. /\ new \in Stream /\ new.pc = "closed" /\ new.queue = <<>>
        /\ new.end = row.status /\ new.since = {row.status}
    BY <1>1, <1>2, <1>3 DEF Ends, Stream
  <2> HIDE DEF new
  <2>3. QED BY <2>1, <2>2, StreamingKeeps
<1>4. CASE row.status \notin Terminal
  <2> DEFINE new == [stream[s] EXCEPT !.pc = "opened", !.since = {row.status}]
  <2>1. Streaming(s, new)
    BY <1>4 DEF OpenStream
  <2>2. /\ new \in Stream /\ new.pc = "opened" /\ new.queue = <<>>
        /\ new.end = "none" /\ new.since = {row.status}
    BY <1>1, <1>2 DEF Stream
  <2> HIDE DEF new
  <2>3. ~overlapped => \A r \in Runs, e \in Terminal : ~Announces(run[r], e)
    BY <1>4 DEF Inv, RunsInv, Fits, Announces
  <2>4. QED BY <2>1, <2>2, <2>3, StreamingKeeps
<1>5. QED BY <1>3, <1>4

LEMMA StreamStepKeeps == ASSUME Inv, NEW s \in Streams, StreamStep(s) PROVE Inv'
<1>1. stream[s] \in Stream
  BY DEF Inv, TypeOK
<1>2. /\ Open(s) => row.status \in stream[s].since
      /\ Open(s) /\ ~overlapped =>
            \A r \in Runs, e \in Terminal : Announces(run[r], e) => e \in stream[s].since
      /\ ~overlapped => \A i \in 1 .. Len(stream[s].queue) :
                           stream[s].queue[i] \in stream[s].since
      /\ stream[s].end # "none" /\ ~overlapped => stream[s].end \in stream[s].since
  BY DEF Inv, StreamsInv, EndIsTrue
<1>3. CASE Subscribe(s)
  <2> DEFINE new == [stream[s] EXCEPT !.pc = "subscribed"]
  <2>1. Streaming(s, new) /\ Open(s)
    BY <1>3 DEF Subscribe, Open
  <2>2. /\ new \in Stream /\ new.pc = "subscribed" /\ new.queue = stream[s].queue
        /\ new.end = stream[s].end /\ new.since = stream[s].since
    BY <1>1 DEF Stream
  <2> HIDE DEF new
  <2>3. QED BY <1>2, <2>1, <2>2, StreamingKeeps
<1>4. CASE Forward(s)
  <2> DEFINE event == Head(stream[s].queue)
             new == Ends(s, event)
  <2>1. Streaming(s, new) /\ stream[s].queue # <<>>
    BY <1>4 DEF Forward
  <2>2. stream[s].queue \in Seq(Terminal)
    BY <1>1 DEF Stream
  <2>3. event = stream[s].queue[1] /\ 1 \in 1 .. Len(stream[s].queue) /\ event \in Terminal
    BY <2>1, <2>2
  <2> HIDE DEF event
  <2>4. /\ new \in Stream /\ new.pc = "closed" /\ new.queue = stream[s].queue
        /\ new.end = event /\ new.since = stream[s].since
    BY <1>1, <2>3 DEF Ends, Stream
  <2> HIDE DEF new
  <2>5. ~overlapped => event \in stream[s].since
    BY <1>2, <2>3
  <2>6. QED BY <1>2, <2>1, <2>4, <2>5, StreamingKeeps
<1>5. CASE Silence(s)
  <2> DEFINE new == [stream[s] EXCEPT !.pc = "closed"]
  <2>1. Streaming(s, new)
    BY <1>5 DEF Silence, TimedOut
  <2>2. /\ new \in Stream /\ new.pc = "closed" /\ new.queue = stream[s].queue
        /\ new.end = stream[s].end /\ new.since = stream[s].since
    BY <1>1 DEF Stream
  <2> HIDE DEF new
  <2>3. QED BY <1>2, <2>1, <2>2, StreamingKeeps
<1>6. QED BY <1>3, <1>4, <1>5 DEF StreamStep

-----------------------------------------------------------------------------
(* The theorems                                                            *)

LEMMA InitInv == Init => Inv
<1> SUFFICES ASSUME Init PROVE Inv
  OBVIOUS
<1>1. /\ \A r \in Runs : run[r] = NoRun
      /\ \A c \in Callers : call[c] = NoCall
      /\ \A s \in Streams : /\ stream[s].pc = "idle" /\ stream[s].queue = <<>>
                            /\ stream[s].end = "none"
      /\ row = Created /\ overlapped = FALSE
  BY DEF Init
<1>2. NoRun.pc = "idle" /\ NoCall.pc = "idle" /\ Created.status = "queued"
  BY DEF NoRun, NoCall, Created
<1>3. TypeOK
  <2>1. \A s \in Streams : stream[s] \in Stream
    <3>1. <<>> \in Seq(Terminal) /\ {} \in SUBSET Status
      OBVIOUS
    <3>2. QED BY <3>1 DEF Init, Stream
  <2>2. stream \in [Streams -> Stream]
    BY <2>1 DEF Init
  <2>3. artifact \in Artifact
    <3>1. BuiltFrom(Created.hp) \in [Params \ Ignored -> Runs \cup {Nobody, User}]
      BY DEF BuiltFrom, Created
    <3>2. QED BY <3>1 DEF Init, Artifact
  <2>4. run \in [Runs -> Run] /\ call \in [Callers -> Call] /\ row \in Row
    BY CreatedFacts DEF Init
  <2>5. job \in Jobs /\ due \in Nat /\ overlapped \in BOOLEAN /\ calls \in Nat /\ losses \in Nat
    BY DEF Init
  <2>6. QED BY <2>2, <2>3, <2>4, <2>5 DEF TypeOK
<1>4. PinnedInv /\ RetryInv
  BY <1>1, <1>2, CreatedFacts DEF PinnedInv, RetryInv
<1>5. OneRun
  BY <1>1, <1>2 DEF OneRun, Active
<1>6. RunsInv
  BY <1>1, <1>2, RestIsEasy DEF RunsInv
<1>7. StreamsInv /\ EndIsTrue
  BY <1>1 DEF StreamsInv, EndIsTrue, Open
<1>8. CompletedIsWhole
  BY <1>1, <1>2 DEF CompletedIsWhole
<1>9. QED BY <1>3, <1>4, <1>5, <1>6, <1>7, <1>8 DEF Inv

LEMMA RunStepKeeps == ASSUME Inv, NEW r \in Runs, RunStep(r) PROVE Inv'
<1>1. CASE Load(r)
  BY <1>1, LoadKeeps
<1>2. CASE Start(r)
  BY <1>2, StartKeeps
<1>3. CASE Reload(r)
  BY <1>3, ReloadKeeps
<1>4. CASE ReportProgress(r)
  BY <1>4, ReportProgressKeeps
<1>5. CASE Tune(r)
  BY <1>5, TuneKeeps
<1>6. CASE CommitTuned(r)
  BY <1>6, CommitTunedKeeps
<1>7. CASE Refresh(r)
  BY <1>7, RefreshKeeps
<1>8. CASE WriteArtifact(r)
  BY <1>8, WriteArtifactKeeps
<1>9. CASE Finish(r)
  BY <1>9, FinishKeeps
<1>10. CASE Guard(r)
  BY <1>10, GuardKeeps
<1>11. CASE CommitOutcome(r)
  BY <1>11, CommitOutcomeKeeps
<1>12. CASE ReadBack(r)
  BY <1>12, ReadBackKeeps
<1>13. CASE Publish(r)
  BY <1>13, PublishKeeps
<1>14. QED BY <1>1, <1>2, <1>3, <1>4, <1>5, <1>6, <1>7, <1>8, <1>9, <1>10, <1>11, <1>12,
              <1>13 DEF RunStep

\* While one run is active at a time, the row, the artifact and the run's copy of
\* the row agree as its body proceeds, and every open stream has the status behind it.
THEOREM InductiveInvariant == Spec => []Inv
<1>1. ASSUME Inv, [Next]_vars PROVE Inv'
  <2>1. CASE \E r \in Runs : Deliver(r) \/ RunStep(r) \/ Fail(r) \/ WorkerLost(r)
    BY <1>1, <2>1, DeliverKeeps, RunStepKeeps, FailKeeps, WorkerLostKeeps
  <2>2. CASE DropTask
    BY <1>1, <2>2, DropTaskKeeps
  <2>3. CASE \E c \in Callers : OpenCancel(c) \/ OpenRetry(c) \/ CallStep(c)
    BY <1>1, <2>3, OpensKeeps, CommitCancelKeeps, CommitRetryKeeps, SendTaskKeeps
       DEF CallStep
  <2>4. CASE \E s \in Streams : OpenStream(s) \/ StreamStep(s)
    BY <1>1, <2>4, OpenStreamKeeps, StreamStepKeeps
  <2>5. CASE UNCHANGED vars
    <3>1. UNCHANGED <<job, row, artifact, run, stream, overlapped>> /\ UNCHANGED call
          /\ UNCHANGED <<due, calls, losses>>
      BY <2>5 DEF vars
    <3>2. /\ due' \in Nat /\ calls' \in Nat /\ losses' \in Nat
          /\ call' \in [Callers -> Call]
      BY <1>1, <3>1 DEF Inv, TypeOK
    <3>3. RetryInv' /\ \A c \in Callers : Kept(call'[c].seen)
      BY <1>1, <3>1 DEF Inv, RetryInv, PinnedInv
    <3>4. QED BY <1>1, <3>1, <3>2, <3>3, CallsKeep
  <2>6. QED BY <1>1, <2>1, <2>2, <2>3, <2>4, <2>5 DEF Next
<1>2. QED BY <1>1, InitInv, PTL DEF Spec

\* Unless runs overlap, a completed job has full progress, a whole artifact of the run
\* whose metrics it shows, built with the hyperparameters it shows but for those the
\* builder ignores, and the user's among them.
THEOREM CompletedJobsAreWhole == Spec => []RowInv
<1>1. Inv => RowInv
  BY DEF Inv, RowInv
<1>2. QED BY <1>1, InductiveInvariant, PTL

\* Unless runs overlap, the end a stream announces is a status the job had while the
\* stream watched it.
THEOREM StreamsEndTruly == Spec => []EndIsTrue
<1>1. Inv => EndIsTrue
  BY DEF Inv
<1>2. QED BY <1>1, InductiveInvariant, PTL

=============================================================================
