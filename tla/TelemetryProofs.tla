---------------------------- MODULE TelemetryProofs ----------------------------
(***************************************************************************)
(* Proofs about Telemetry, for every set of keys, batches, workers and     *)
(* calls, every capacity, batch size and bound.                            *)
(***************************************************************************)
EXTENDS Telemetry, FiniteSetTheorems, TLAPS

LEMMA IdleIsRun == IdleRun \in Run
BY DEF IdleRun, Run

\* Nothing is under way at first, wherever the tasks and sightings come from.
LEMMA InvInit == Init => TelemetryInv
<1> SUFFICES ASSUME Init PROVE TelemetryInv
  OBVIOUS
<1> USE DEF Init, StartFrom
<1>1. TypeOK
  <2>1. /\ present \subseteq Keys /\ seen \subseteq Keys /\ lost \subseteq Keys
        /\ channel \in Seq(Keys) /\ buffer \in Seq(Keys) /\ sending \in Seq(Keys)
        /\ Len(channel) = 0 /\ Len(buffer) = 0 /\ Len(sending) = 0
    OBVIOUS
  <2>2. task \in [Batches -> Task]
    BY DEF Empty, Task
  <2>3. /\ worker \in [Workers -> Run] /\ policy \in [Domains -> Policies]
        /\ logged \in [Keys -> [all : Nat, flagged : Nat]] /\ admin \in [Admins -> Nat]
    BY IdleIsRun
  <2>4. sighting \in Seq(Sighting) /\ cut \subseteq DOMAIN sighting
    OBVIOUS
  <2>5. enabled \in BOOLEAN /\ overlapped \in BOOLEAN
    BY Zenon
  <2>6. QED BY <2>1, <2>2, <2>3, <2>4, <2>5, BatchesArePositive DEF TypeOK
<1>2. RunsInv
  <2>1. \A b \in Batches : task[b].events = <<>>
    BY DEF Empty
  <2>2. ASSUME NEW w \in Workers
        PROVE  /\ worker[w].pc = "idle" /\ worker[w].row = 0 /\ worker[w].at = 1
               /\ worker[w].dirty = {} /\ worker[w].held = {}
    BY DEF IdleRun
  <2>3. \A w \in Workers : Working(worker[w], task) /\ Escalating(worker[w], sighting)
    BY <2>2 DEF Working, OncePerRow, Escalating
  <2>4. QED BY <2>1, <2>2, <2>3 DEF RunsInv, RunsApart
<1>3. SeenIsReported
  BY DEF SeenIsReported
<1>4. QED BY <1>1, <1>2, <1>3 DEF TelemetryInv

-----------------------------------------------------------------------------
(* Sequences and runs                                                      *)

LEMMA KeysJoined ==
    ASSUME NEW s \in Seq(Keys), NEW t \in Seq(Keys)
    PROVE  /\ s \o t \in Seq(Keys)
           /\ KeysIn(s \o t) = KeysIn(s) \cup KeysIn(t)
<1>1. s \o t \in Seq(Keys)
  OBVIOUS
<1>2. /\ DOMAIN (s \o t) = 1 .. Len(s) + Len(t)
      /\ \A i \in 1 .. Len(s) : (s \o t)[i] = s[i]
      /\ \A i \in 1 .. Len(t) : (s \o t)[Len(s) + i] = t[i]
      /\ DOMAIN s = 1 .. Len(s) /\ DOMAIN t = 1 .. Len(t)
      /\ Len(s) \in Nat /\ Len(t) \in Nat
  OBVIOUS
<1>3. KeysIn(s \o t) \subseteq KeysIn(s) \cup KeysIn(t)
  <2>1. ASSUME NEW i \in 1 .. Len(s) + Len(t)
        PROVE  (s \o t)[i] \in KeysIn(s) \cup KeysIn(t)
    <3>1. CASE i \in 1 .. Len(s)
      BY <1>2, <3>1 DEF KeysIn
    <3>2. CASE i \notin 1 .. Len(s)
      <4>1. i - Len(s) \in 1 .. Len(t) /\ i = Len(s) + (i - Len(s))
        BY <1>2, <3>2
      <4>2. QED BY <1>2, <4>1 DEF KeysIn
    <3>3. QED BY <3>1, <3>2
  <2>2. QED BY <1>2, <2>1 DEF KeysIn
<1>4. KeysIn(s) \cup KeysIn(t) \subseteq KeysIn(s \o t)
  <2>1. \A i \in 1 .. Len(s) : i \in 1 .. Len(s) + Len(t)
    BY <1>2
  <2>2. \A i \in 1 .. Len(t) : Len(s) + i \in 1 .. Len(s) + Len(t)
    BY <1>2
  <2>3. QED BY <1>2, <2>1, <2>2 DEF KeysIn
<1>5. QED BY <1>1, <1>3, <1>4

LEMMA KeysAppended ==
    ASSUME NEW s \in Seq(Keys), NEW k \in Keys
    PROVE  /\ Append(s, k) \in Seq(Keys) /\ Len(Append(s, k)) = Len(s) + 1
           /\ KeysIn(Append(s, k)) = KeysIn(s) \cup {k}
<1>1. /\ Append(s, k) \in Seq(Keys) /\ Len(Append(s, k)) = Len(s) + 1
      /\ DOMAIN Append(s, k) = 1 .. Len(s) + 1 /\ DOMAIN s = 1 .. Len(s)
      /\ \A i \in 1 .. Len(s) : Append(s, k)[i] = s[i]
      /\ Append(s, k)[Len(s) + 1] = k /\ Len(s) \in Nat
  OBVIOUS
<1>2. 1 .. Len(s) + 1 = (1 .. Len(s)) \cup {Len(s) + 1}
  BY <1>1
<1>3. QED BY <1>1, <1>2 DEF KeysIn

LEMMA KeysTaken ==
    ASSUME NEW s \in Seq(Keys), s # <<>>
    PROVE  /\ Head(s) \in Keys /\ Tail(s) \in Seq(Keys) /\ Len(Tail(s)) = Len(s) - 1
           /\ KeysIn(s) = {Head(s)} \cup KeysIn(Tail(s))
<1>1. /\ Head(s) \in Keys /\ Tail(s) \in Seq(Keys) /\ Len(Tail(s)) = Len(s) - 1
      /\ Len(s) \in Nat \ {0} /\ DOMAIN s = 1 .. Len(s)
      /\ DOMAIN Tail(s) = 1 .. Len(s) - 1 /\ Head(s) = s[1]
      /\ \A i \in 1 .. Len(s) - 1 : Tail(s)[i] = s[i + 1]
  OBVIOUS
<1>2. \A i \in 1 .. Len(s) : i = 1 \/ (i - 1 \in 1 .. Len(s) - 1 /\ i = i - 1 + 1)
  BY <1>1
<1>3. \A i \in 1 .. Len(s) - 1 : i + 1 \in 1 .. Len(s)
  BY <1>1
<1>4. 1 \in 1 .. Len(s)
  BY <1>1
<1>5. KeysIn(s) \subseteq {Head(s)} \cup KeysIn(Tail(s))
  <2>1. ASSUME NEW i \in 1 .. Len(s) PROVE s[i] \in {Head(s)} \cup KeysIn(Tail(s))
    <3>1. CASE i = 1
      BY <1>1, <3>1
    <3>2. CASE i # 1
      <4>1. i - 1 \in 1 .. Len(s) - 1 /\ Tail(s)[i - 1] = s[i - 1 + 1] /\ i = i - 1 + 1
        BY <1>1, <1>2, <3>2
      <4>2. QED BY <1>1, <4>1 DEF KeysIn
    <3>3. QED BY <3>1, <3>2
  <2>2. QED BY <1>1, <2>1 DEF KeysIn
<1>6. {Head(s)} \cup KeysIn(Tail(s)) \subseteq KeysIn(s)
  BY <1>1, <1>3, <1>4 DEF KeysIn
<1>7. QED BY <1>1, <1>5, <1>6

LEMMA NoKeys == KeysIn(<<>>) = {}
BY DEF KeysIn

-----------------------------------------------------------------------------
(* What a run writes                                                       *)

\* A flush sets each row once: what is dirty replaces what was flushed.
LEMMA FlushedOnce ==
    ASSUME TypeOK, NEW w \in Workers, OncePerRow(worker[w].dirty),
           OncePerRow(worker[w].held)
    PROVE  Flushed(w) \subseteq Repeat /\ OncePerRow(Flushed(w))
<1>1. worker[w].dirty \subseteq Repeat /\ worker[w].held \subseteq Repeat
  BY DEF TypeOK, Run
<1>2. QED BY <1>1 DEF Flushed, OncePerRow

\* The counts a run writes are numbers, and they are all it writes.
LEMMA SightingsAfterTypes ==
    ASSUME TypeOK, NEW w \in Workers, OncePerRow(worker[w].dirty),
           OncePerRow(worker[w].held)
    PROVE  /\ SightingsAfter(w) \in Seq(Sighting)
           /\ Len(SightingsAfter(w)) = Len(sighting)
           /\ DOMAIN SightingsAfter(w) = DOMAIN sighting
           /\ \A s \in DOMAIN sighting : \E n \in Nat :
                 SightingsAfter(w)[s] = [sighting[s] EXCEPT !.count = n]
<1>1. sighting \in Seq(Sighting) /\ DOMAIN sighting = 1 .. Len(sighting)
      /\ Len(sighting) \in Nat /\ \A s \in DOMAIN sighting : sighting[s] \in Sighting
  BY DEF TypeOK
<1>2. ASSUME NEW s \in DOMAIN sighting
      PROVE  \E n \in Nat : SightingsAfter(w)[s] = [sighting[s] EXCEPT !.count = n]
  <2> DEFINE set == {r \in Flushed(w) : r.row = s}
  <2>1. SightingsAfter(w)[s] =
           IF set = {} THEN sighting[s]
           ELSE [sighting[s] EXCEPT !.count = (CHOOSE r \in set : TRUE).count]
    BY DEF SightingsAfter
  <2>2. CASE set = {}
    <3>1. sighting[s] \in Sighting
      BY <1>1
    <3>2. sighting[s].count \in Nat
          /\ sighting[s] = [sighting[s] EXCEPT !.count = sighting[s].count]
      BY <3>1 DEF Sighting
    <3>3. QED BY <2>1, <2>2, <3>2
  <2>3. CASE set # {}
    <3>1. PICK r \in set : r = CHOOSE q \in set : TRUE
      BY <2>3
    <3>2. r.count \in Nat
      BY FlushedOnce DEF Repeat
    <3>3. QED BY <2>1, <2>3, <3>1, <3>2
  <2>4. QED BY <2>2, <2>3
<1>3. \A s \in DOMAIN sighting : SightingsAfter(w)[s] \in Sighting
  <2>1. ASSUME NEW s \in DOMAIN sighting PROVE SightingsAfter(w)[s] \in Sighting
    <3>1. PICK n \in Nat : SightingsAfter(w)[s] = [sighting[s] EXCEPT !.count = n]
      BY <1>2
    <3>2. sighting[s] \in Sighting
      BY <1>1
    <3>3. QED BY <3>1, <3>2 DEF Sighting
  <2>2. QED BY <2>1
<1>4. /\ DOMAIN SightingsAfter(w) = 1 .. Len(sighting)
      /\ SightingsAfter(w) \in [1 .. Len(sighting) -> Sighting]
  BY <1>1, <1>3 DEF SightingsAfter
<1>5. SightingsAfter(w) \in Seq(Sighting) /\ Len(SightingsAfter(w)) = Len(sighting)
  BY <1>1, <1>4
<1>6. QED BY <1>1, <1>2, <1>4, <1>5

LEMMA LogAfterTypes ==
    ASSUME TypeOK, NEW w \in Workers
    PROVE  LogAfter(w) \in [Keys -> [all : Nat, flagged : Nat]]
<1> DEFINE log == worker[w].log
<1>1. DOMAIN log = 1 .. Len(log) /\ Len(log) \in Nat
  BY DEF TypeOK, Run
<1>2. IsFiniteSet(DOMAIN log)
  BY <1>1, FS_Interval
<1>3. \A T : T \subseteq DOMAIN log => Cardinality(T) \in Nat
  BY <1>2, FS_Subset, FS_CardinalityType
<1>4. ASSUME NEW k \in Keys
      PROVE  /\ logged[k].all + Cardinality({i \in DOMAIN log : log[i].key = k}) \in Nat
             /\ logged[k].flagged + Cardinality({i \in DOMAIN log :
                                   log[i] = [key |-> k, flagged |-> TRUE]}) \in Nat
  <2>1. /\ Cardinality({i \in DOMAIN log : log[i].key = k}) \in Nat
        /\ Cardinality({i \in DOMAIN log : log[i] = [key |-> k, flagged |-> TRUE]}) \in Nat
    BY <1>3
  <2>2. logged[k].all \in Nat /\ logged[k].flagged \in Nat
    BY DEF TypeOK
  <2>3. QED BY <2>1, <2>2
<1>5. QED BY <1>4 DEF LogAfter

\* A repeat counts on from the one count its run has set, or from the row's.
LEMMA RepeatTypes ==
    ASSUME TypeOK, NEW s \in DOMAIN sighting, NEW flushed, flushed \subseteq Repeat,
           OncePerRow(flushed)
    PROVE  RepeatOf(s, flushed) \in Repeat
<1> DEFINE own == {r.count : r \in {q \in flushed : q.row = s}}
<1>1. s \in Nat /\ sighting[s].count \in Nat
  <2>1. s \in Nat /\ sighting[s] \in Sighting
    BY DEF TypeOK
  <2>2. QED BY <2>1 DEF Sighting
<1>2. own # {} => Max(own) \in Nat
  <2>1. ASSUME NEW r \in flushed, r.row = s PROVE own = {r.count} /\ r.count \in Nat
    <3>1. \A q \in flushed : q.row = s => q = r
      BY <2>1 DEF OncePerRow
    <3>2. QED BY <2>1, <3>1 DEF Repeat
  <2>2. ASSUME NEW n \in Nat PROVE Max({n}) = n
    BY <2>2 DEF Max
  <2>3. QED BY <2>1, <2>2
<1>3. RepeatOf(s, flushed) =
         [row |-> s, count |-> 1 + (IF own = {} THEN sighting[s].count ELSE Max(own))]
  BY DEF RepeatOf
<1> HIDE DEF own
<1>4. QED BY <1>1, <1>2, <1>3 DEF Repeat

-----------------------------------------------------------------------------
(* The collector's steps                                                   *)

\* The rows of TypeOK that a collector does not touch.
StoredTypes ==
    /\ task \in [Batches -> Task]
    /\ worker \in [Workers -> Run]
    /\ logged \in [Keys -> [all : Nat, flagged : Nat]]
    /\ sighting \in Seq(Sighting)
    /\ policy \in [Domains -> Policies]
    /\ admin \in [Admins -> Nat]
    /\ cut \subseteq DOMAIN sighting
    /\ overlapped \in BOOLEAN

CollectedTypes ==
    /\ present \subseteq Keys /\ seen \subseteq Keys /\ lost \subseteq Keys
    /\ channel \in Seq(Keys) /\ Len(channel) <= Capacity
    /\ buffer \in Seq(Keys) /\ Len(buffer) < BatchSize
    /\ sending \in Seq(Keys) /\ Len(sending) <= BatchSize
    /\ enabled \in BOOLEAN

LEMMA TypeParts == TypeOK <=> CollectedTypes /\ StoredTypes
BY DEF TypeOK, CollectedTypes, StoredTypes

\* Where a key that was submitted can be.
Whereabouts(dropped, ch, buf, out, tasks) ==
    dropped \cup KeysIn(ch) \cup KeysIn(buf) \cup KeysIn(out)
            \cup UNION {KeysIn(tasks[b].events) : b \in Batches}

LEMMA JoinedThree ==
    ASSUME NEW ch \in Seq(Keys), NEW buf \in Seq(Keys), NEW out \in Seq(Keys)
    PROVE  KeysIn(ch \o buf \o out) = KeysIn(ch) \cup KeysIn(buf) \cup KeysIn(out)
<1>1. ch \o buf \in Seq(Keys) /\ KeysIn(ch \o buf) = KeysIn(ch) \cup KeysIn(buf)
  BY KeysJoined
<1>2. KeysIn((ch \o buf) \o out) = KeysIn(ch \o buf) \cup KeysIn(out)
  BY <1>1, KeysJoined
<1>3. QED BY <1>1, <1>2

LEMMA SeenSomewhere ==
    ASSUME TypeOK, SeenIsReported
    PROVE  seen \subseteq Whereabouts(lost, channel, buffer, sending, task)
<1>1. KeysIn(channel \o buffer \o sending)
         = KeysIn(channel) \cup KeysIn(buffer) \cup KeysIn(sending)
  BY JoinedThree DEF TypeOK
<1>2. QED BY <1>1 DEF SeenIsReported, Whereabouts

LEMMA CollectorScan ==
    ASSUME TelemetryInv, NEW k \in Keys, CollectorScans(k)
    PROVE  /\ CollectedTypes'
           /\ seen' \subseteq Whereabouts(lost', channel', buffer', sending', task')
<1> USE DEF TelemetryInv, TypeOK
<1>0. /\ UNCHANGED <<present, buffer, sending, enabled, task>> /\ Scan(k)
      /\ seen \subseteq Whereabouts(lost, channel, buffer, sending, task)
  BY SeenSomewhere DEF CollectorScans
<1>1. CASE seen' = seen \ {k} /\ UNCHANGED <<channel, lost>>
  BY <1>0, <1>1 DEF CollectedTypes
<1>2. CASE seen' = seen \cup {k} /\ Len(channel) < Capacity
           /\ channel' = Append(channel, k) /\ lost' = lost
  <2>1. /\ channel' \in Seq(Keys) /\ Len(channel') = Len(channel) + 1
        /\ KeysIn(channel') = KeysIn(channel) \cup {k}
    BY <1>2, KeysAppended
  <2>2. Len(channel') <= Capacity
    BY <1>2, <2>1, BatchesArePositive
  <2>3. CollectedTypes'
    BY <1>0, <1>2, <2>1, <2>2 DEF CollectedTypes
  <2>4. QED BY <1>0, <1>2, <2>1, <2>3 DEF Whereabouts
<1>3. CASE seen' = seen \cup {k} /\ lost' = lost \cup {k} /\ channel' = channel
  BY <1>0, <1>3 DEF CollectedTypes, Whereabouts
<1>4. QED BY <1>0, <1>1, <1>2, <1>3 DEF Scan, Submit

LEMMA CollectorStep ==
    ASSUME TelemetryInv, CollectorNext
    PROVE  /\ CollectedTypes'
           /\ seen' \subseteq Whereabouts(lost', channel', buffer', sending', task')
<1> USE DEF TelemetryInv, TypeOK
<1>0. seen \subseteq Whereabouts(lost, channel, buffer, sending, task)
  BY SeenSomewhere
<1>1. ASSUME NEW k \in Keys, Appear(k) \/ Vanish(k)
      PROVE  /\ CollectedTypes'
             /\ seen' \subseteq Whereabouts(lost', channel', buffer', sending', task')
  BY <1>0, <1>1 DEF Appear, Vanish, CollectedTypes
<1>2. CASE Receive
  <2>1. /\ Append(buffer, Head(channel)) \in Seq(Keys)
        /\ Len(Append(buffer, Head(channel))) = Len(buffer) + 1
        /\ KeysIn(Append(buffer, Head(channel))) = KeysIn(buffer) \cup {Head(channel)}
        /\ Tail(channel) \in Seq(Keys) /\ Len(Tail(channel)) = Len(channel) - 1
        /\ KeysIn(channel) = {Head(channel)} \cup KeysIn(Tail(channel))
    BY <1>2, KeysAppended, KeysTaken DEF Receive
  <2>2. PICK batch : batch = Append(buffer, Head(channel))
    OBVIOUS
  <2>3. /\ channel' = Tail(channel) /\ sending = <<>>
        /\ UNCHANGED <<present, seen, lost, enabled, task>>
        /\ \/ buffer' = <<>> /\ sending' = batch
           \/ buffer' = batch /\ sending' = <<>> /\ ~(Len(batch) >= BatchSize)
    BY <1>2, <2>2 DEF Receive, Copied
  <2>4. Len(channel) \in Nat /\ Len(buffer) \in Nat /\ Len(<<>>) = 0
    OBVIOUS
  <2>5. Len(batch) <= BatchSize /\ Len(Tail(channel)) <= Capacity /\ 0 < BatchSize
    BY <2>1, <2>2, <2>4, BatchesArePositive
  <2>6. CollectedTypes'
    <3>1. /\ channel' \in Seq(Keys) /\ Len(channel') <= Capacity
          /\ present' \subseteq Keys /\ seen' \subseteq Keys /\ lost' \subseteq Keys
          /\ enabled' \in BOOLEAN
      BY <2>1, <2>3, <2>5
    <3>2. buffer' \in Seq(Keys) /\ sending' \in Seq(Keys)
      BY <2>1, <2>2, <2>3
    <3>3. Len(batch) \in Nat
      BY <2>1, <2>2, <2>4
    <3>4. Len(buffer') < BatchSize /\ Len(sending') <= BatchSize
      BY <2>3, <2>4, <2>5, <3>3, BatchesArePositive
    <3>5. QED BY <3>1, <3>2, <3>4 DEF CollectedTypes
  <2>7. Whereabouts(lost, channel, buffer, sending, task)
           \subseteq Whereabouts(lost', channel', buffer', sending', task')
    BY <2>1, <2>2, <2>3, NoKeys DEF Whereabouts
  <2>8. seen' = seen
    BY <2>3
  <2>9. QED BY <1>0, <2>6, <2>7, <2>8
<1>3. CASE Flush
  <2>1. /\ sending = <<>> /\ sending' = buffer /\ buffer' = <<>>
        /\ UNCHANGED <<present, seen, lost, channel, enabled, task>>
    BY <1>3 DEF Flush, Copied
  <2>2. Len(buffer) \in Nat /\ Len(buffer) <= BatchSize /\ Len(<<>>) = 0
    BY BatchesArePositive
  <2>3. CollectedTypes'
    BY <2>1, <2>2, BatchesArePositive DEF CollectedTypes
  <2>4. QED BY <1>0, <2>1, <2>3, NoKeys DEF Whereabouts
<1>4. CASE PostFails
  <2>1. /\ sending' = <<>> /\ lost' = lost \cup KeysIn(sending)
        /\ UNCHANGED <<present, seen, channel, buffer, enabled, task>>
    BY <1>4 DEF PostFails
  <2>2. Len(<<>>) = 0 /\ KeysIn(sending) \subseteq Keys
    BY DEF KeysIn
  <2>3. CollectedTypes'
    BY <2>1, <2>2, BatchesArePositive DEF CollectedTypes
  <2>4. QED BY <1>0, <2>1, <2>3 DEF Whereabouts
<1>5. CASE Restart
  <2>1. /\ seen' = {} /\ channel' = <<>> /\ buffer' = <<>> /\ sending' = <<>>
        /\ lost' = lost \cup KeysIn(channel \o buffer \o sending)
        /\ UNCHANGED <<present, enabled, task>>
    BY <1>5 DEF Restart
  <2>2. Len(<<>>) = 0 /\ KeysIn(channel \o buffer \o sending) \subseteq Keys
    BY DEF KeysIn
  <2>3. QED BY <2>1, <2>2, BatchesArePositive DEF CollectedTypes
<1>6. CASE SetEnabled
  BY <1>0, <1>6 DEF SetEnabled, collecting, CollectedTypes
<1>7. ASSUME NEW b \in Batches, PostAccepted(b)
      PROVE  /\ CollectedTypes'
             /\ seen' \subseteq Whereabouts(lost', channel', buffer', sending', task')
  <2>1. /\ sending' = <<>> /\ task[b].events = <<>> /\ task'[b].events = sending
        /\ \A c \in Batches \ {b} : task'[c] = task[c]
        /\ UNCHANGED <<present, seen, lost, channel, buffer, enabled>>
    BY <1>7 DEF PostAccepted, RunsInv
  <2>2. Len(<<>>) = 0
    OBVIOUS
  <2>3. CollectedTypes'
    BY <2>1, <2>2, BatchesArePositive DEF CollectedTypes
  <2>4. \A c \in Batches : KeysIn(task[c].events) \subseteq KeysIn(task'[c].events)
    BY <2>1, NoKeys
  <2>5. KeysIn(sending) \subseteq KeysIn(task'[b].events)
    BY <2>1
  <2>6. Whereabouts(lost, channel, buffer, sending, task)
           \subseteq Whereabouts(lost, channel, buffer, <<>>, task')
    <3>1. UNION {KeysIn(task[c].events) : c \in Batches}
             \subseteq UNION {KeysIn(task'[c].events) : c \in Batches}
      <4> SUFFICES ASSUME NEW k \in UNION {KeysIn(task[c].events) : c \in Batches}
                   PROVE  k \in UNION {KeysIn(task'[c].events) : c \in Batches}
        OBVIOUS
      <4>1. PICK c \in Batches : k \in KeysIn(task[c].events)
        OBVIOUS
      <4>2. k \in KeysIn(task'[c].events)
        BY <2>4, <4>1
      <4>3. QED BY <4>2, Zenon
    <3>2. KeysIn(sending) \subseteq UNION {KeysIn(task'[c].events) : c \in Batches}
      BY <2>5
    <3>3. QED BY <3>1, <3>2 DEF Whereabouts
  <2>7. QED BY <1>0, <2>1, <2>3, <2>6
<1>8. QED
  BY <1>1, <1>2, <1>3, <1>4, <1>5, <1>6, <1>7, CollectorScan DEF CollectorNext

-----------------------------------------------------------------------------
(* The runs' steps                                                         *)

Tells(pc) == pc \in {"incident", "notify"}

\* The fields of a sighting that its escalation is judged by.
SameNotes(x, y) ==
    /\ x.blocked = y.blocked /\ x.incidents = y.incidents /\ x.notices = y.notices
    /\ x.byhand = y.byhand

\* How a sighting may change: it opens again only by being reopened.
Carries(x, y) ==
    /\ x.key = y.key /\ x.byhand = y.byhand
    /\ y.reopened => x.reopened
    /\ x.status \notin Resolved => y.status \notin Resolved \/ x.reopened

\* A run's commit changes nothing of a sighting but its count.
LEMMA RowsCounted ==
    ASSUME TypeOK, NEW w \in Workers, OncePerRow(worker[w].dirty),
           OncePerRow(worker[w].held), NEW s \in DOMAIN sighting
    PROVE  /\ SameNotes(SightingsAfter(w)[s], sighting[s])
           /\ Carries(SightingsAfter(w)[s], sighting[s])
<1>1. PICK n \in Nat : SightingsAfter(w)[s] = [sighting[s] EXCEPT !.count = n]
  BY SightingsAfterTypes
<1>2. sighting[s] \in Sighting
  BY DEF TypeOK
<1>3. PICK x : x = [sighting[s] EXCEPT !.count = n]
  OBVIOUS
<1>4. /\ x.key = sighting[s].key /\ x.byhand = sighting[s].byhand
      /\ x.reopened = sighting[s].reopened /\ x.status = sighting[s].status
      /\ SameNotes(x, sighting[s])
  BY <1>2, <1>3 DEF Sighting, SameNotes
<1>5. QED BY <1>1, <1>3, <1>4 DEF Carries

\* What a step of run w has to see to.
LEMMA RunsKept ==
    ASSUME TelemetryInv, NEW w \in Workers, NEW run \in Run,
           worker' = [worker EXCEPT ![w] = run],
           \A v \in Workers \ {w} : worker[v].pc # "idle" =>
              task'[worker[v].batch] = task[worker[v].batch],
           \A b \in Batches : task'[b].state = "none" => task'[b].events = <<>>,
           DOMAIN sighting \subseteq DOMAIN sighting',
           \A s \in DOMAIN sighting : s # run.row => SameNotes(sighting'[s], sighting[s])
                                                   \/ s = worker[w].row,
           Working(run, task'), Escalating(run, sighting'),
           run.pc # "idle" =>
              \A v \in Workers \ {w} : worker[v].pc # "idle" => worker[v].batch # run.batch,
           run.row # 0 => \A v \in Workers \ {w} : worker[v].row # run.row,
           admin' = admin
    PROVE  RunsInv'
<1>1. /\ worker'[w] = run /\ \A v \in Workers \ {w} : worker'[v] = worker[v]
      /\ RunsInv
  BY DEF TelemetryInv, TypeOK
<1>2. ASSUME NEW v \in Workers PROVE Working(worker'[v], task')
  <2>1. CASE v = w
    BY <1>1, <2>1
  <2>2. CASE v # w
    BY <1>1, <2>2 DEF RunsInv, Working
  <2>3. QED BY <2>1, <2>2
<1>3. ASSUME NEW v \in Workers PROVE Escalating(worker'[v], sighting')
  <2>1. CASE v = w
    BY <1>1, <2>1
  <2>2. CASE v # w
    <3>1. worker[v].row # 0 => worker[v].row # run.row /\ worker[v].row # worker[w].row
      BY <1>1, <2>2 DEF RunsInv, RunsApart
    <3>2. Escalating(worker[v], sighting)
      BY <1>1 DEF RunsInv
    <3>3. worker[v].row # 0 =>
             /\ worker[v].row \in DOMAIN sighting'
             /\ SameNotes(sighting'[worker[v].row], sighting[worker[v].row])
      BY <3>1, <3>2 DEF Escalating
    <3>4. QED BY <1>1, <2>2, <3>2, <3>3 DEF Escalating, SameNotes
  <2>3. QED BY <2>1, <2>2
<1>4. RunsApart'
  <2>1. ASSUME NEW u \in Workers, NEW v \in Workers, u # v
        PROVE  /\ worker'[u].pc # "idle" /\ worker'[v].pc # "idle" =>
                      worker'[u].batch # worker'[v].batch
               /\ worker'[u].row # 0 => worker'[u].row # worker'[v].row
    <3>1. CASE u = w
      BY <1>1, <2>1, <3>1
    <3>2. CASE v = w
      BY <1>1, <2>1, <3>2 DEF RunsInv, RunsApart
    <3>3. CASE u # w /\ v # w
      BY <1>1, <2>1, <3>3 DEF RunsInv, RunsApart
    <3>4. QED BY <3>1, <3>2, <3>3
  <2>2. QED BY <2>1 DEF RunsApart
<1>5. \A a \in Admins : admin'[a] # 0 => admin'[a] \in DOMAIN sighting'
  BY <1>1 DEF RunsInv
<1>6. QED BY <1>2, <1>3, <1>4, <1>5 DEF RunsInv

\* Event w handles.
LEMMA EventTypes ==
    ASSUME TelemetryInv, NEW w \in Workers, worker[w].pc # "idle", ~Exhausted(w)
    PROVE  /\ Event(w) \in Keys /\ worker[w].at \in Nat /\ worker[w].at >= 1
           /\ worker[w].at <= Len(task[worker[w].batch].events)
<1>1. worker[w] \in Run /\ Working(worker[w], task)
  BY DEF TelemetryInv, TypeOK, RunsInv
<1>2. task[worker[w].batch].events \in Seq(Keys)
  BY <1>1 DEF TelemetryInv, TypeOK, Task, Working
<1>3. worker[w].at \in Nat /\ worker[w].at >= 1
  BY <1>1 DEF Working, Run
<1>4. QED BY <1>2, <1>3 DEF Event, Exhausted

LEMMA LoggedTypes ==
    ASSUME TelemetryInv, NEW w \in Workers, worker[w].pc # "idle", ~Exhausted(w),
           NEW flagged \in BOOLEAN
    PROVE  /\ Logged(w, flagged) \in Run
           /\ Logged(w, flagged).pc = worker[w].pc
           /\ Logged(w, flagged).batch = worker[w].batch
           /\ Logged(w, flagged).at = worker[w].at
           /\ Logged(w, flagged).row = worker[w].row
           /\ Logged(w, flagged).dirty = {}
           /\ Logged(w, flagged).held = Flushed(w)
<1>1. worker[w] \in Run /\ Event(w) \in Keys
  BY EventTypes DEF TelemetryInv, TypeOK
<1>2. Flushed(w) \subseteq Repeat
  BY FlushedOnce DEF TelemetryInv, RunsInv, Working
<1>3. Append(worker[w].log, [key |-> Event(w), flagged |-> flagged])
         \in Seq([key : Keys, flagged : BOOLEAN])
  <2>1. [key |-> Event(w), flagged |-> flagged] \in [key : Keys, flagged : BOOLEAN]
    BY <1>1
  <2>2. worker[w].log \in Seq([key : Keys, flagged : BOOLEAN])
    BY <1>1 DEF Run
  <2>3. QED BY <2>1, <2>2
<1>4. QED BY <1>1, <1>2, <1>3 DEF Logged, Run

\* The updates of a run, and of a sighting's notes, that the steps make.
LEMMA RunMoved ==
    ASSUME NEW r \in Run
    PROVE  /\ LET run == [r EXCEPT !.pc = "notify"] IN
              /\ run \in Run /\ run.pc = "notify" /\ run.batch = r.batch
              /\ run.row = r.row /\ run.at = r.at /\ run.dirty = r.dirty
              /\ run.held = r.held
           /\ LET run == [r EXCEPT !.pc = "event", !.at = @ + 1, !.row = 0] IN
              /\ run \in Run /\ run.pc = "event" /\ run.batch = r.batch
              /\ run.row = 0 /\ run.at = r.at + 1 /\ run.dirty = r.dirty
              /\ run.held = r.held
<1>1. r.at \in Nat
  BY DEF Run
<1>2. PICK next : next = r.at + 1
  OBVIOUS
<1>3. next \in Nat
  BY <1>1, <1>2
<1>4. [r EXCEPT !.pc = "event", !.at = @ + 1, !.row = 0]
            = [r EXCEPT !.pc = "event", !.at = next, !.row = 0]
  BY <1>2
<1>5. LET run == [r EXCEPT !.pc = "notify"] IN
      /\ run \in Run /\ run.pc = "notify" /\ run.batch = r.batch
      /\ run.row = r.row /\ run.at = r.at /\ run.dirty = r.dirty /\ run.held = r.held
  BY DEF Run
<1>6. LET run == [r EXCEPT !.pc = "event", !.at = next, !.row = 0] IN
      /\ run \in Run /\ run.pc = "event" /\ run.batch = r.batch
      /\ run.row = 0 /\ run.at = next /\ run.dirty = r.dirty /\ run.held = r.held
  BY <1>3 DEF Run
<1>7. QED BY <1>2, <1>4, <1>5, <1>6

LEMMA SightingNoted ==
    ASSUME NEW x \in Sighting, NEW n \in Nat
    PROVE  /\ LET y == [x EXCEPT !.incidents = n] IN
              /\ y \in Sighting /\ y.blocked = x.blocked /\ y.notices = x.notices
              /\ y.incidents = n
           /\ [x EXCEPT !.notices = n] \in Sighting
BY DEF Sighting

\* A run that handles an event writes nothing yet.
LEMMA HandleStep ==
    ASSUME TelemetryInv, NEW w \in Workers, HandleDomainVisit(w) \/ HandleLocalSignal(w)
    PROVE  StoredTypes' /\ RunsInv'
<1>0. /\ worker[w].pc = "event" /\ ~Exhausted(w) /\ worker[w] \in Run
      /\ Working(worker[w], task) /\ Escalating(worker[w], sighting)
      /\ TypeOK /\ RunsInv
  BY DEF HandleDomainVisit, HandleLocalSignal, TelemetryInv, TypeOK, RunsInv
<1>1. ASSUME NEW run \in Run, Handles(w, run), run.batch = worker[w].batch,
             run.row = 0, OncePerRow(run.dirty), run.held = Flushed(w),
             \/ run.pc = "event" /\ run.at = worker[w].at + 1
             \/ run.pc = "create" /\ run.at = worker[w].at
      PROVE  StoredTypes' /\ RunsInv'
  <2>1. /\ worker' = [worker EXCEPT ![w] = run]
        /\ UNCHANGED <<task, sighting, admin, logged, policy, cut, overlapped>>
    BY <1>1 DEF Handles, storing
  <2>2. StoredTypes'
    BY <1>0, <2>1 DEF TypeOK, StoredTypes
  <2>3. OncePerRow(run.held)
    BY <1>0, <1>1, FlushedOnce DEF Working
  <2>4. Working(run, task)
    BY <1>0, <1>1, <2>3, EventTypes DEF Working
  <2>5. Escalating(run, sighting)
    BY <1>1 DEF Escalating
  <2>6. \A v \in Workers \ {w} : worker[v].pc # "idle" => worker[v].batch # run.batch
    BY <1>0, <1>1 DEF RunsInv, RunsApart
  <2>7. \A b \in Batches : task'[b].state = "none" => task'[b].events = <<>>
    BY <1>0, <2>1 DEF RunsInv
  <2>8. \A s \in DOMAIN sighting : SameNotes(sighting'[s], sighting[s])
    BY <2>1 DEF SameNotes
  <2>9. QED BY <1>1, <2>1, <2>2, <2>4, <2>5, <2>6, <2>7, <2>8, RunsKept
<1>2. worker[w].row = 0
  BY <1>0 DEF Escalating
<1>3. OncePerRow({})
  BY DEF OncePerRow
<1>4. ASSUME Flag(w) PROVE StoredTypes' /\ RunsInv'
  <2>1. PICK next : next = Logged(w, TRUE)
    OBVIOUS
  <2>2. /\ next \in Run /\ next.batch = worker[w].batch /\ next.row = 0
        /\ next.at = worker[w].at /\ next.dirty = {} /\ next.held = Flushed(w)
        /\ next.pc = "event"
    BY <1>0, <1>2, <2>1, LoggedTypes
  <2>3. ASSUME NEW s \in OpenSightings(Event(w)),
               Handles(w, [next EXCEPT !.at = @ + 1, !.dirty = {RepeatOf(s, Flushed(w))}])
        PROVE  StoredTypes' /\ RunsInv'
    <3>1. RepeatOf(s, Flushed(w)) \in Repeat
      <4>1. s \in DOMAIN sighting
        BY DEF OpenSightings
      <4>2. QED BY <1>0, <4>1, FlushedOnce, RepeatTypes DEF Working
    <3>2. PICK set \in SUBSET Repeat : set = {RepeatOf(s, Flushed(w))}
      BY <3>1
    <3>3. PICK n \in Nat : n = next.at + 1
      <4>1. next.at \in Nat
        BY <2>2 DEF Run
      <4>2. QED BY <4>1
    <3>4. PICK run : run = [next EXCEPT !.at = n, !.dirty = set]
      OBVIOUS
    <3>5. /\ run \in Run /\ run.batch = worker[w].batch /\ run.row = 0 /\ run.dirty = set
          /\ run.held = Flushed(w) /\ run.pc = "event" /\ run.at = n
      BY <2>2, <3>4 DEF Run
    <3>6. Handles(w, run) /\ run.at = worker[w].at + 1
      BY <2>2, <2>3, <3>2, <3>3, <3>4, <3>5
    <3>7. OncePerRow(set)
      BY <3>2 DEF OncePerRow
    <3>8. QED BY <1>1, <3>5, <3>6, <3>7
  <2>4. ASSUME Handles(w, [next EXCEPT !.pc = "create",
                                       !.blocked = (Verdict(Event(w)) = "blocked")])
        PROVE  StoredTypes' /\ RunsInv'
    <3>1. PICK run : run = [next EXCEPT !.pc = "create",
                                        !.blocked = (Verdict(Event(w)) = "blocked")]
      OBVIOUS
    <3>2. /\ run \in Run /\ run.batch = worker[w].batch /\ run.row = 0 /\ run.dirty = {}
          /\ run.held = Flushed(w) /\ run.pc = "create" /\ run.at = worker[w].at
      BY <2>2, <3>1 DEF Run
    <3>3. QED BY <1>1, <1>3, <2>4, <3>1, <3>2
  <2>5. QED BY <1>4, <2>1, <2>3, <2>4 DEF Flag
<1>5. ASSUME Handles(w, [Logged(w, FALSE) EXCEPT !.at = @ + 1])
      PROVE  StoredTypes' /\ RunsInv'
  <2>1. PICK next : next = Logged(w, FALSE)
    OBVIOUS
  <2>2. /\ next \in Run /\ next.batch = worker[w].batch /\ next.row = 0
        /\ next.at = worker[w].at /\ next.dirty = {} /\ next.held = Flushed(w)
        /\ next.pc = "event"
    BY <1>0, <1>2, <2>1, LoggedTypes
  <2>3. PICK run : run = [next EXCEPT !.at = @ + 1]
    OBVIOUS
  <2>4. /\ run \in Run /\ run.batch = worker[w].batch /\ run.row = 0 /\ run.dirty = {}
        /\ run.held = Flushed(w) /\ run.pc = "event" /\ run.at = worker[w].at + 1
    BY <2>2, <2>3 DEF Run
  <2>5. QED BY <1>1, <1>3, <1>5, <2>1, <2>3, <2>4
<1>6. QED BY <1>4, <1>5 DEF HandleDomainVisit, HandleLocalSignal

\* The steps of a run that commit.
LEMMA CreatedRows ==
    ASSUME TelemetryInv, NEW w \in Workers, CreateSighting(w)
    PROVE  /\ sighting' \in Seq(Sighting) /\ DOMAIN sighting' = 1 .. Len(sighting) + 1
           /\ \E new \in Sighting :
                 /\ sighting'[Len(sighting) + 1] = new
                 /\ new.key = Event(w) /\ new.blocked = worker[w].blocked
                 /\ new.incidents = 0 /\ new.notices = 0
           /\ \A s \in DOMAIN sighting : /\ SameNotes(sighting'[s], sighting[s])
                                         /\ Carries(sighting'[s], sighting[s])
<1>0. /\ worker[w].pc = "create" /\ worker[w] \in Run
      /\ Working(worker[w], task) /\ TypeOK
      /\ sighting \in Seq(Sighting) /\ Len(sighting) \in Nat
      /\ DOMAIN sighting = 1 .. Len(sighting)
  BY DEF CreateSighting, TelemetryInv, TypeOK, RunsInv
<1>1. PICK new : new = [NewSighting(Event(w)) EXCEPT !.blocked = worker[w].blocked]
  OBVIOUS
<1>2. ~Exhausted(w)
  <2>1. task[worker[w].batch].events \in Seq(Keys) /\ worker[w].at \in Nat
    BY <1>0 DEF Working, TypeOK, Task, Run
  <2>2. QED BY <1>0, <2>1 DEF Working, Exhausted
<1>3. /\ new \in Sighting /\ new.blocked = worker[w].blocked
      /\ new.key = Event(w) /\ new.incidents = 0 /\ new.notices = 0
  <2>1. Event(w) \in Keys /\ worker[w].blocked \in BOOLEAN
    BY <1>0, <1>2, EventTypes DEF Run
  <2>2. QED BY <1>1, <2>1 DEF NewSighting, Sighting, Statuses, Resolved
<1>4. PICK rows \in Seq(Sighting) :
         /\ Len(rows) = Len(sighting) /\ DOMAIN rows = DOMAIN sighting
         /\ rows = SightingsAfter(w) /\ sighting' = Append(rows, new)
  BY <1>0, <1>1, SightingsAfterTypes DEF Working, CreateSighting
<1>5. \A s \in DOMAIN sighting : /\ SameNotes(rows[s], sighting[s])
                                 /\ Carries(rows[s], sighting[s])
  BY <1>0, <1>4, RowsCounted DEF Working
<1>6. /\ sighting' \in Seq(Sighting) /\ DOMAIN sighting' = 1 .. Len(sighting) + 1
      /\ sighting'[Len(sighting) + 1] = new
      /\ \A s \in DOMAIN sighting : sighting'[s] = rows[s]
  BY <1>0, <1>3, <1>4
<1>7. QED BY <1>3, <1>5, <1>6

LEMMA CreateStep ==
    ASSUME TelemetryInv, NEW w \in Workers, CreateSighting(w)
    PROVE  StoredTypes' /\ RunsInv'
<1>0. /\ worker[w].pc = "create" /\ worker[w] \in Run
      /\ Working(worker[w], task) /\ TypeOK /\ RunsInv
      /\ UNCHANGED <<task, policy, admin, cut, overlapped>> /\ logged' = LogAfter(w)
      /\ sighting \in Seq(Sighting) /\ Len(sighting) \in Nat
      /\ DOMAIN sighting = 1 .. Len(sighting)
  BY DEF CreateSighting, TelemetryInv, TypeOK, RunsInv
<1>5. PICK new \in Sighting :
         /\ new.blocked = worker[w].blocked /\ new.incidents = 0 /\ new.notices = 0
         /\ sighting' \in Seq(Sighting) /\ DOMAIN sighting' = 1 .. Len(sighting) + 1
         /\ sighting'[Len(sighting) + 1] = new
         /\ \A s \in DOMAIN sighting : SameNotes(sighting'[s], sighting[s])
  BY CreatedRows
<1>6. PICK run : /\ run = [worker[w] EXCEPT !.pc = AfterSighting(worker[w].blocked),
                                            !.log = <<>>, !.held = {},
                                            !.row = Len(sighting) + 1]
                /\ worker' = [worker EXCEPT ![w] = run]
  BY DEF CreateSighting
<1>7. /\ run.batch = worker[w].batch /\ run.row = Len(sighting) + 1
      /\ run.at = worker[w].at /\ run.dirty = worker[w].dirty /\ run.held = {}
      /\ run.pc = IF worker[w].blocked THEN "incident" ELSE "notify"
      /\ run \in Run
  <2>1. /\ AfterSighting(worker[w].blocked) \in {"incident", "notify"}
        /\ AfterSighting(worker[w].blocked)
              = IF worker[w].blocked THEN "incident" ELSE "notify"
    BY DEF AfterSighting
  <2>2. <<>> \in Seq([key : Keys, flagged : BOOLEAN]) /\ Len(sighting) + 1 \in Nat
    BY <1>0
  <2>3. QED BY <1>0, <1>6, <2>1, <2>2 DEF Run
<1>8. StoredTypes'
  <2>1. worker' \in [Workers -> Run]
    BY <1>0, <1>6, <1>7 DEF TypeOK
  <2>2. cut' \subseteq DOMAIN sighting'
    BY <1>0, <1>5 DEF TypeOK
  <2>3. QED BY <1>0, <1>5, <2>1, <2>2, LogAfterTypes DEF TypeOK, StoredTypes
<1>9. Working(run, task')
  BY <1>0, <1>7 DEF Working, OncePerRow
<1>10. Escalating(run, sighting')
  BY <1>0, <1>5, <1>7 DEF Escalating
<1>11. \A v \in Workers \ {w} : worker[v].row # run.row
  <2>1. ASSUME NEW v \in Workers \ {w} PROVE worker[v].row # run.row
    <3>1. worker[v].row # 0 => worker[v].row \in DOMAIN sighting
      BY <1>0 DEF RunsInv, Escalating
    <3>2. QED BY <1>0, <1>7, <3>1
  <2>2. QED BY <2>1
<1>12. \A v \in Workers \ {w} : worker[v].pc # "idle" => worker[v].batch # run.batch
  BY <1>0, <1>7 DEF RunsInv, RunsApart
<1>13. \A b \in Batches : task'[b].state = "none" => task'[b].events = <<>>
  BY <1>0 DEF RunsInv
<1>14. DOMAIN sighting \subseteq DOMAIN sighting'
  BY <1>0, <1>5
<1>15. QED
  BY <1>0, <1>5, <1>6, <1>7, <1>8, <1>9, <1>10, <1>11, <1>12, <1>13, <1>14, RunsKept

LEMMA EscalateStep ==
    ASSUME TelemetryInv, NEW w \in Workers, CreateIncident(w) \/ Notify(w)
    PROVE  StoredTypes' /\ RunsInv'
<1> DEFINE row == worker[w].row
<1>0. /\ Tells(worker[w].pc) /\ worker[w] \in Run
      /\ Working(worker[w], task) /\ Escalating(worker[w], sighting) /\ TypeOK /\ RunsInv
      /\ UNCHANGED <<task, logged, policy, admin, cut, overlapped>>
      /\ sighting \in Seq(Sighting) /\ Len(sighting) \in Nat
      /\ DOMAIN sighting = 1 .. Len(sighting)
  BY DEF CreateIncident, Notify, Tells, TelemetryInv, TypeOK, RunsInv
<1>1. row \in DOMAIN sighting /\ sighting[row] \in Sighting /\ row # 0
  BY <1>0 DEF Escalating, Tells
<1>2. PICK x \in Sighting :
         /\ sighting' = [sighting EXCEPT ![row] = x]
         /\ worker[w].pc = "incident" =>
               /\ x.blocked = sighting[row].blocked /\ x.notices = sighting[row].notices
               /\ x.incidents = sighting[row].incidents + 1
  <2>1. CASE CreateIncident(w)
    <3>1. PICK x : /\ x = [sighting[row] EXCEPT !.incidents = sighting[row].incidents + 1]
                   /\ sighting' = [sighting EXCEPT ![row] = x]
      BY <2>1 DEF CreateIncident
    <3>2. sighting[row].incidents + 1 \in Nat
      BY <1>1 DEF Sighting
    <3>3. /\ x \in Sighting /\ x.blocked = sighting[row].blocked
          /\ x.notices = sighting[row].notices
          /\ x.incidents = sighting[row].incidents + 1
      BY <1>1, <3>1, <3>2, SightingNoted
    <3>4. QED BY <3>1, <3>3
  <2>2. CASE Notify(w)
    <3>1. PICK x : /\ x = [sighting[row] EXCEPT !.notices = sighting[row].notices + 1]
                   /\ sighting' = [sighting EXCEPT ![row] = x]
      BY <2>2 DEF Notify
    <3>2. sighting[row].notices + 1 \in Nat /\ worker[w].pc # "incident"
      BY <1>1, <2>2 DEF Sighting, Notify
    <3>3. x \in Sighting
      BY <1>1, <3>1, <3>2, SightingNoted
    <3>4. QED BY <3>1, <3>2, <3>3
  <2>3. QED BY <2>1, <2>2
<1>3. /\ sighting' \in Seq(Sighting) /\ DOMAIN sighting' = DOMAIN sighting
      /\ sighting'[row] = x
      /\ \A s \in DOMAIN sighting : s # row => SameNotes(sighting'[s], sighting[s])
  BY <1>0, <1>1, <1>2 DEF SameNotes
<1>4. PICK run \in Run :
         /\ worker' = [worker EXCEPT ![w] = run] /\ run.batch = worker[w].batch
         /\ run.dirty = worker[w].dirty /\ run.held = worker[w].held
         /\ \/ /\ worker[w].pc = "incident" /\ run.pc = "notify" /\ run.row = row
               /\ run.at = worker[w].at
            \/ run.pc = "event" /\ run.row = 0 /\ run.at = worker[w].at + 1
  <2>1. CASE CreateIncident(w)
    <3>1. PICK run : /\ run = [worker[w] EXCEPT !.pc = "notify"]
                     /\ worker' = [worker EXCEPT ![w] = run]
      BY <2>1 DEF CreateIncident
    <3>2. worker[w].pc = "incident"
      BY <2>1 DEF CreateIncident
    <3>3. /\ run \in Run /\ run.batch = worker[w].batch /\ run.dirty = worker[w].dirty
          /\ run.held = worker[w].held /\ run.pc = "notify" /\ run.row = row
          /\ run.at = worker[w].at
      BY <1>0, <3>1, RunMoved
    <3>4. QED BY <3>1, <3>2, <3>3
  <2>2. CASE Notify(w)
    <3>1. PICK run : /\ run = [worker[w] EXCEPT !.pc = "event", !.at = @ + 1, !.row = 0]
                     /\ worker' = [worker EXCEPT ![w] = run]
      BY <2>2 DEF Notify
    <3>2. /\ run \in Run /\ run.batch = worker[w].batch /\ run.dirty = worker[w].dirty
          /\ run.held = worker[w].held /\ run.pc = "event" /\ run.row = 0
          /\ run.at = worker[w].at + 1
      BY <1>0, <3>1, RunMoved
    <3>3. QED BY <3>1, <3>2
  <2>3. QED BY <2>1, <2>2
<1> HIDE DEF row
<1>5. StoredTypes'
  <2>1. worker' \in [Workers -> Run]
    BY <1>0, <1>4 DEF TypeOK
  <2>2. QED BY <1>0, <1>3, <2>1 DEF TypeOK, StoredTypes
<1>6. Working(run, task')
  BY <1>0, <1>4 DEF Working, Tells, Run
<1>7. Escalating(run, sighting')
  <2>1. CASE run.row = row /\ run.pc = "notify" /\ worker[w].pc = "incident"
    <3>1. /\ sighting[row].notices = 0 /\ sighting[row].incidents = 0 /\ sighting[row].blocked
      BY <1>0, <1>1, <2>1 DEF Escalating, row
    <3>2. x.notices = 0 /\ x.incidents = 1 /\ x.blocked
      <4>1. x.blocked
        BY <1>2, <2>1, <3>1, Zenon
      <4>2. x.notices = 0 /\ x.incidents = 1
        BY <1>2, <2>1, <3>1
      <4>3. QED BY <4>1, <4>2
    <3>3. QED BY <1>1, <1>3, <2>1, <3>2 DEF Escalating
  <2>2. CASE run.pc = "event" /\ run.row = 0
    BY <2>2 DEF Escalating
  <2>3. QED BY <1>4, <2>1, <2>2
<1>8. \A v \in Workers \ {w} : worker[v].row # row
  BY <1>0, <1>1 DEF RunsInv, RunsApart, row
<1>9. \A v \in Workers \ {w} : worker[v].pc # "idle" => worker[v].batch # run.batch
  BY <1>0, <1>4 DEF RunsInv, RunsApart, Tells
<1>10. \A b \in Batches : task'[b].state = "none" => task'[b].events = <<>>
  BY <1>0 DEF RunsInv
<1>11. \A s \in DOMAIN sighting : s # run.row => SameNotes(sighting'[s], sighting[s])
                                              \/ s = worker[w].row
  BY <1>3 DEF row
<1>12. run.row # 0 => \A v \in Workers \ {w} : worker[v].row # run.row
  BY <1>4, <1>8
<1>13. \A v \in Workers \ {w} : worker[v].pc # "idle" =>
          task'[worker[v].batch] = task[worker[v].batch]
  BY <1>0
<1>14. worker' = [worker EXCEPT ![w] = run]
  BY <1>4
<1>15. DOMAIN sighting \subseteq DOMAIN sighting' /\ admin' = admin
  BY <1>0, <1>3
<1>16. RunsInv'
  BY <1>6, <1>7, <1>9, <1>10, <1>11, <1>12, <1>13, <1>14, <1>15, RunsKept
<1>17. QED BY <1>5, <1>16

\* A run that has taken a batch, or committed it.
LEMMA FreshRun ==
    ASSUME NEW b \in Batches, NEW pc \in {"event", "ack"}
    PROVE  LET run == [IdleRun EXCEPT !.pc = pc, !.batch = b] IN
           /\ run \in Run /\ run.pc = pc /\ run.batch = b /\ run.at = 1
           /\ run.row = 0 /\ run.dirty = {} /\ run.held = {}
<1>1. IdleRun \in Run /\ b \in Batches \cup {NoBatch}
      /\ pc \in {"idle", "event", "create", "incident", "notify", "ack"}
  BY IdleIsRun
<1>2. [IdleRun EXCEPT !.pc = pc, !.batch = b] \in Run
  BY <1>1 DEF Run
<1>3. LET run == [IdleRun EXCEPT !.pc = pc, !.batch = b] IN
      /\ run.pc = pc /\ run.batch = b /\ run.at = 1
      /\ run.row = 0 /\ run.dirty = {} /\ run.held = {}
  BY DEF IdleRun
<1>4. QED BY <1>2, <1>3

LEMMA TakeStep ==
    ASSUME TelemetryInv, NEW w \in Workers, NEW b \in Batches, TakeBatch(w, b)
    PROVE  StoredTypes' /\ RunsInv'
<1>0. /\ TypeOK /\ RunsInv /\ task[b].state = "queued" /\ task[b] \in Task
      /\ UNCHANGED <<sighting, logged, policy, admin, cut>>
      /\ overlapped' \in BOOLEAN
  BY DEF TakeBatch, TelemetryInv, TypeOK, storing
<1>1. PICK took : took = [task[b] EXCEPT !.state = "taken"]
  OBVIOUS
<1>2. took \in Task /\ took.state = "taken"
  BY <1>0, <1>1 DEF Task
<1>3. task' = [task EXCEPT ![b] = took]
  BY <1>1 DEF TakeBatch
<1> DEFINE run == [IdleRun EXCEPT !.pc = "event", !.batch = b]
<1>4. "event" \in {"event", "ack"}
  OBVIOUS
<1>5. /\ run \in Run /\ run.pc = "event" /\ run.batch = b /\ run.at = 1
      /\ run.row = 0 /\ run.dirty = {} /\ run.held = {}
  BY <1>4, FreshRun
<1>6. worker' = [worker EXCEPT ![w] = run]
  BY DEF TakeBatch
<1> HIDE DEF run
<1>7. StoredTypes'
  <2>1. task' \in [Batches -> Task] /\ worker' \in [Workers -> Run]
    BY <1>0, <1>2, <1>3, <1>5, <1>6 DEF TypeOK
  <2>2. QED BY <1>0, <2>1 DEF TypeOK, StoredTypes
<1>8. \A v \in Workers : worker[v].pc # "idle" => worker[v].batch # b
  BY <1>0 DEF RunsInv, Working
<1>9. /\ task'[b] = took /\ \A c \in Batches \ {b} : task'[c] = task[c]
      /\ \A v \in Workers : worker[v].pc # "idle" => worker[v].batch \in Batches
  BY <1>0, <1>3 DEF TypeOK, RunsInv, Working
<1>10. \A v \in Workers \ {w} : worker[v].pc # "idle" =>
          task'[worker[v].batch] = task[worker[v].batch]
  BY <1>8, <1>9
<1>11. \A c \in Batches : task'[c].state = "none" => task'[c].events = <<>>
  BY <1>0, <1>2, <1>9 DEF RunsInv
<1>12. Working(run, task')
  BY <1>2, <1>5, <1>9 DEF Working, OncePerRow
<1>13. Escalating(run, sighting')
  BY <1>5 DEF Escalating
<1>14. \A s \in DOMAIN sighting : SameNotes(sighting'[s], sighting[s])
  BY <1>0 DEF SameNotes
<1>15. QED
  BY <1>0, <1>5, <1>6, <1>7, <1>8, <1>10, <1>11, <1>12, <1>13, <1>14, RunsKept

LEMMA CommitStep ==
    ASSUME TelemetryInv, NEW w \in Workers, CommitBatch(w)
    PROVE  StoredTypes' /\ RunsInv'
<1>0. /\ worker[w].pc = "event" /\ worker[w] \in Run
      /\ Working(worker[w], task) /\ TypeOK /\ RunsInv
      /\ UNCHANGED <<task, policy, admin, cut, overlapped>> /\ logged' = LogAfter(w)
      /\ sighting' = SightingsAfter(w)
  BY DEF CommitBatch, TelemetryInv, TypeOK, RunsInv
<1> DEFINE run == [IdleRun EXCEPT !.pc = "ack", !.batch = worker[w].batch]
<1>1. "ack" \in {"event", "ack"}
  OBVIOUS
<1>2. /\ run \in Run /\ run.pc = "ack" /\ run.batch = worker[w].batch /\ run.at = 1
      /\ run.row = 0 /\ run.dirty = {} /\ run.held = {}
  <2>1. worker[w].batch \in Batches
    BY <1>0 DEF Working
  <2>2. QED BY <1>1, <2>1, FreshRun
<1>3. worker' = [worker EXCEPT ![w] = run]
  BY DEF CommitBatch
<1> HIDE DEF run
<1>4. sighting' \in Seq(Sighting) /\ DOMAIN sighting' = DOMAIN sighting
  BY <1>0, SightingsAfterTypes DEF Working
<1>5. StoredTypes'
  <2>1. worker' \in [Workers -> Run]
    BY <1>0, <1>2, <1>3 DEF TypeOK
  <2>2. QED BY <1>0, <1>4, <2>1, LogAfterTypes DEF TypeOK, StoredTypes
<1>6. \A s \in DOMAIN sighting : SameNotes(sighting'[s], sighting[s])
  BY <1>0, RowsCounted DEF Working
<1>7. Working(run, task')
  BY <1>0, <1>2 DEF Working, OncePerRow
<1>8. Escalating(run, sighting')
  BY <1>2 DEF Escalating
<1>9. \A v \in Workers \ {w} : worker[v].pc # "idle" => worker[v].batch # run.batch
  BY <1>0, <1>2 DEF RunsInv, RunsApart
<1>10. \A b \in Batches : task'[b].state = "none" => task'[b].events = <<>>
  BY <1>0 DEF RunsInv
<1>11. QED
  BY <1>0, <1>2, <1>3, <1>4, <1>5, <1>6, <1>7, <1>8, <1>9, <1>10, RunsKept

\* A run is over: acknowledged, failed, or lost and redelivered.
LEMMA EndStep ==
    ASSUME TelemetryInv, NEW w \in Workers, AckBatch(w) \/ FailBatch(w) \/ WorkerLost(w)
    PROVE  StoredTypes' /\ RunsInv'
<1>0. PICK state \in {"done", "failed", "queued"} :
         /\ Ended(w, state) /\ worker[w].pc # "idle"
         /\ UNCHANGED <<sighting, logged, policy, admin, overlapped>>
  BY DEF AckBatch, FailBatch, WorkerLost, AfterLoss, storing
<1>1. /\ TypeOK /\ RunsInv /\ worker[w].batch \in Batches
      /\ task[worker[w].batch] \in Task /\ Escalating(worker[w], sighting)
  BY <1>0 DEF TelemetryInv, TypeOK, RunsInv, Working
<1>2. PICK b \in Batches : b = worker[w].batch
  BY <1>1
<1>3. PICK over : over = [task[b] EXCEPT !.state = state]
  OBVIOUS
<1>4. over \in Task /\ over.state = state
  BY <1>1, <1>2, <1>3 DEF Task
<1>5. task' = [task EXCEPT ![b] = over] /\ worker' = [worker EXCEPT ![w] = IdleRun]
  BY <1>0, <1>2, <1>3 DEF Ended
<1>6. cut' \subseteq DOMAIN sighting
  BY <1>0, <1>1 DEF Ended, Escalating, TypeOK
<1>7. StoredTypes'
  <2>1. task' \in [Batches -> Task] /\ worker' \in [Workers -> Run]
    BY <1>1, <1>4, <1>5, IdleIsRun DEF TypeOK
  <2>2. QED BY <1>0, <1>1, <1>6, <2>1 DEF TypeOK, StoredTypes
<1>8. /\ task'[b] = over /\ \A c \in Batches \ {b} : task'[c] = task[c]
      /\ \A v \in Workers : worker[v].pc # "idle" => worker[v].batch \in Batches
  BY <1>1, <1>5 DEF TypeOK, RunsInv, Working
<1>9. \A v \in Workers \ {w} : worker[v].pc # "idle" =>
          task'[worker[v].batch] = task[worker[v].batch]
  <2>1. \A v \in Workers \ {w} : worker[v].pc # "idle" => worker[v].batch # b
    BY <1>0, <1>1, <1>2 DEF RunsInv, RunsApart
  <2>2. QED BY <1>8, <2>1
<1>10. \A c \in Batches : task'[c].state = "none" => task'[c].events = <<>>
  BY <1>1, <1>4, <1>8 DEF RunsInv
<1>11. /\ IdleRun.pc = "idle" /\ IdleRun.row = 0 /\ IdleRun.at = 1
       /\ IdleRun.dirty = {} /\ IdleRun.held = {}
  BY DEF IdleRun
<1>12. Working(IdleRun, task') /\ Escalating(IdleRun, sighting')
  BY <1>11 DEF Working, Escalating, OncePerRow
<1>13. \A s \in DOMAIN sighting : SameNotes(sighting'[s], sighting[s])
  BY <1>0 DEF SameNotes
<1>14. QED
  BY <1>0, <1>5, <1>7, <1>9, <1>10, <1>11, <1>12, <1>13, IdleIsRun, RunsKept

-----------------------------------------------------------------------------
(* The steps of others                                                     *)

\* What a step that touches no run has to see to.
LEMMA RunsUntouched ==
    ASSUME TelemetryInv, worker' = worker,
           \A b \in Batches : task[b].state = "taken" => task'[b] = task[b],
           \A b \in Batches : task'[b].state = "none" => task'[b].events = <<>>,
           DOMAIN sighting \subseteq DOMAIN sighting',
           \A s \in DOMAIN sighting : SameNotes(sighting'[s], sighting[s]),
           \A a \in Admins : admin'[a] # 0 => admin'[a] \in DOMAIN sighting'
    PROVE  RunsInv'
<1>1. RunsInv
  BY DEF TelemetryInv
<1>2. ASSUME NEW v \in Workers PROVE Working(worker'[v], task')
  BY <1>1 DEF RunsInv, Working
<1>3. ASSUME NEW v \in Workers PROVE Escalating(worker'[v], sighting')
  BY <1>1 DEF RunsInv, Escalating, SameNotes
<1>4. RunsApart'
  BY <1>1 DEF RunsInv, RunsApart
<1>5. QED BY <1>2, <1>3, <1>4 DEF RunsInv

LEMMA CollectorRuns ==
    ASSUME TelemetryInv, CollectorNext
    PROVE  StoredTypes' /\ RunsInv'
<1>0. TypeOK /\ RunsInv
  BY DEF TelemetryInv
<1>1. /\ UNCHANGED <<worker, logged, sighting, policy, admin, cut, overlapped>>
      /\ \/ task' = task
         \/ \E b \in Batches :
               /\ task[b].state = "none" /\ sending \in Seq(Keys)
               /\ task' = [task EXCEPT ![b] = [state |-> "queued", events |-> sending]]
  BY <1>0 DEF TypeOK, CollectorNext, Appear, Vanish, CollectorScans, Receive, Flush, PostFails,
              Restart, SetEnabled, PostAccepted, storing
<1>2. /\ task' \in [Batches -> Task]
      /\ \A b \in Batches : task[b].state = "taken" => task'[b] = task[b]
      /\ \A b \in Batches : task'[b].state = "none" => task'[b].events = <<>>
  <2>1. CASE task' = task
    BY <1>0, <2>1 DEF TypeOK, RunsInv
  <2>2. ASSUME NEW b \in Batches, task[b].state = "none", sending \in Seq(Keys),
               task' = [task EXCEPT ![b] = [state |-> "queued", events |-> sending]]
        PROVE  /\ task' \in [Batches -> Task]
               /\ \A c \in Batches : task[c].state = "taken" => task'[c] = task[c]
               /\ \A c \in Batches : task'[c].state = "none" => task'[c].events = <<>>
    <3>1. PICK new : new = [state |-> "queued", events |-> sending]
      OBVIOUS
    <3>2. new \in Task /\ new.state = "queued" /\ task' = [task EXCEPT ![b] = new]
      BY <2>2, <3>1 DEF Task
    <3>3. QED BY <1>0, <2>2, <3>2 DEF TypeOK, RunsInv
  <2>3. QED BY <1>1, <2>1, <2>2
<1>3. StoredTypes'
  BY <1>0, <1>1, <1>2 DEF TypeOK, StoredTypes
<1>4. QED BY <1>0, <1>1, <1>2, <1>3, RunsUntouched DEF RunsInv, SameNotes

\* A user changes the status or the providers of a sighting, or reports one.
LEMMA UserStep ==
    ASSUME TelemetryInv, UserNext
    PROVE  StoredTypes' /\ RunsInv'
<1>0. /\ TypeOK /\ RunsInv /\ sighting \in Seq(Sighting) /\ Len(sighting) \in Nat
      /\ DOMAIN sighting = 1 .. Len(sighting)
  BY DEF TelemetryInv, TypeOK
<1>1. UNCHANGED <<worker, task, logged, cut, overlapped>>
  BY DEF UserNext, UpdateStatus, ReportSighting, SetPolicy, OpenRegister, CommitRegister,
         storing
<1>2. ASSUME sighting' \in Seq(Sighting), DOMAIN sighting \subseteq DOMAIN sighting',
             \A s \in DOMAIN sighting : SameNotes(sighting'[s], sighting[s]),
             policy' \in [Domains -> Policies], admin' \in [Admins -> Nat],
             \A a \in Admins : admin'[a] # 0 => admin'[a] \in DOMAIN sighting
      PROVE  StoredTypes' /\ RunsInv'
  <2>1. StoredTypes'
    BY <1>0, <1>1, <1>2 DEF TypeOK, StoredTypes
  <2>2. \A a \in Admins : admin'[a] # 0 => admin'[a] \in DOMAIN sighting'
    BY <1>2
  <2>3. QED BY <1>0, <1>1, <1>2, <2>1, <2>2, RunsUntouched DEF RunsInv
<1>3. ASSUME NEW row \in DOMAIN sighting, NEW x \in Sighting, SameNotes(x, sighting[row]),
             sighting' = [sighting EXCEPT ![row] = x]
      PROVE  /\ sighting' \in Seq(Sighting) /\ DOMAIN sighting' = DOMAIN sighting
             /\ \A s \in DOMAIN sighting : SameNotes(sighting'[s], sighting[s])
  BY <1>0, <1>3 DEF SameNotes
<1>4. ASSUME NEW row \in DOMAIN sighting, NEW status \in Statuses,
             UpdateStatus(row, status)
      PROVE  StoredTypes' /\ RunsInv'
  <2>1. PICK again \in BOOLEAN : again = (sighting[row].reopened \/ (status \notin Resolved
                                            /\ sighting[row].status \in Resolved))
    BY Zenon
  <2>2. PICK x : x = [sighting[row] EXCEPT !.status = status, !.reopened = again]
    OBVIOUS
  <2>3. sighting[row] \in Sighting
    BY <1>0
  <2>4. x \in Sighting /\ SameNotes(x, sighting[row])
    BY <2>2, <2>3 DEF Sighting, SameNotes
  <2>5. sighting' = [sighting EXCEPT ![row] = x] /\ UNCHANGED <<policy, admin>>
    BY <1>0, <1>4, <2>1, <2>2, <2>3 DEF UpdateStatus, Sighting
  <2>6. QED BY <1>0, <1>2, <1>3, <2>4, <2>5 DEF TypeOK, RunsInv
<1>5. ASSUME NEW k \in Keys, ReportSighting(k)
      PROVE  StoredTypes' /\ RunsInv'
  <2>0. PICK n \in {0, 1} :
                 /\ sighting' = Append(sighting, [NewSighting(k) EXCEPT !.byhand = TRUE,
                                                                      !.notices = n])
                 /\ UNCHANGED <<policy, admin>>
    BY <1>5 DEF ReportSighting
  <2>1. PICK x : /\ x = [NewSighting(k) EXCEPT !.byhand = TRUE, !.notices = n]
                 /\ sighting' = Append(sighting, x) /\ UNCHANGED <<policy, admin>>
    BY <2>0
  <2>2. x \in Sighting
    <3>1. n \in Nat
      BY <2>0
    <3>2. NewSighting(k) \in Sighting
      BY DEF NewSighting, Sighting, Statuses
    <3>3. QED BY <2>1, <3>1, <3>2 DEF Sighting
  <2>3. /\ sighting' \in Seq(Sighting) /\ DOMAIN sighting' = 1 .. Len(sighting) + 1
        /\ \A s \in DOMAIN sighting : sighting'[s] = sighting[s]
    BY <1>0, <2>1, <2>2
  <2>4. QED BY <1>0, <1>2, <2>1, <2>3 DEF TypeOK, RunsInv, SameNotes
<1>6. ASSUME NEW k \in Domains, NEW status \in Policies, SetPolicy(k, status)
      PROVE  StoredTypes' /\ RunsInv'
  BY <1>0, <1>2, <1>6 DEF SetPolicy, TypeOK, RunsInv, SameNotes, storing
<1>7. ASSUME NEW a \in Admins, NEW row \in DOMAIN sighting, OpenRegister(a, row)
      PROVE  StoredTypes' /\ RunsInv'
  BY <1>0, <1>2, <1>7 DEF OpenRegister, TypeOK, RunsInv, SameNotes, storing
<1>8. ASSUME NEW a \in Admins, CommitRegister(a)
      PROVE  StoredTypes' /\ RunsInv'
  <2>1. PICK row \in DOMAIN sighting : row = admin[a]
    BY <1>0, <1>8 DEF CommitRegister, RunsInv
  <2>2. PICK n \in Nat : n = sighting[row].providers + 1
    <3>1. sighting[row] \in Sighting
      BY <1>0
    <3>2. sighting[row].providers \in Nat
      BY <3>1 DEF Sighting
    <3>3. QED BY <3>2
  <2>3. PICK x : x = [sighting[row] EXCEPT !.status = "registered", !.providers = n]
    OBVIOUS
  <2>4. sighting[row] \in Sighting
    BY <1>0
  <2>5. x \in Sighting /\ SameNotes(x, sighting[row])
    BY <2>3, <2>4 DEF Sighting, SameNotes, Statuses, Resolved
  <2>6. sighting' = [sighting EXCEPT ![row] = x]
    BY <1>0, <1>8, <2>1, <2>2, <2>3 DEF CommitRegister
  <2>7. admin' = [admin EXCEPT ![a] = 0] /\ policy' = policy
    BY <1>8 DEF CommitRegister
  <2>8. QED BY <1>0, <1>2, <1>3, <2>5, <2>6, <2>7 DEF TypeOK, RunsInv
<1>9. QED BY <1>4, <1>5, <1>6, <1>7, <1>8 DEF UserNext

-----------------------------------------------------------------------------
(* The invariant                                                           *)

\* What a step that is not the collector's keeps of the collector's promise.
LEMMA OthersKeepEvents ==
    ASSUME TelemetryInv,
           UserNext \/ (\E w \in Workers : RunNext(w)) \/ UNCHANGED vars
    PROVE  /\ CollectedTypes'
           /\ seen' \subseteq Whereabouts(lost', channel', buffer', sending', task')
<1>0. TypeOK /\ RunsInv /\ seen \subseteq Whereabouts(lost, channel, buffer, sending, task)
  BY SeenSomewhere DEF TelemetryInv
<1>1. /\ UNCHANGED <<collecting, enabled>>
      /\ \/ task' = task
         \/ \E b \in Batches, state \in {"taken", "done", "failed", "queued"} :
               task' = [task EXCEPT ![b].state = state]
  <2>1. CASE UserNext
    BY <2>1 DEF UserNext, UpdateStatus, ReportSighting, SetPolicy, OpenRegister,
                CommitRegister
  <2>2. ASSUME NEW w \in Workers, RunNext(w)
        PROVE  /\ UNCHANGED <<collecting, enabled>>
               /\ \/ task' = task
                  \/ \E b \in Batches, state \in {"taken", "done", "failed", "queued"} :
                        task' = [task EXCEPT ![b].state = state]
    <3>1. worker[w].pc # "idle" => worker[w].batch \in Batches
      BY <1>0 DEF RunsInv, Working
    <3>2. QED BY <2>2, <3>1 DEF RunNext, TakeBatch, HandleDomainVisit, HandleLocalSignal, Flag,
                   Handles, CreateSighting, CreateIncident, Notify, CommitBatch, AckBatch,
                   FailBatch, WorkerLost, Ended, AfterLoss
  <2>3. CASE UNCHANGED vars
    BY <2>3 DEF vars
  <2>4. QED BY <2>1, <2>2, <2>3
<1>2. \A b \in Batches : task'[b].events = task[b].events
  <2>1. ASSUME NEW b \in Batches, NEW state, task' = [task EXCEPT ![b].state = state],
               NEW c \in Batches
        PROVE  task'[c].events = task[c].events
    <3>1. task[b] \in Task /\ task \in [Batches -> Task]
      BY <1>0 DEF TypeOK
    <3>2. PICK x : x = [task[b] EXCEPT !.state = state]
      OBVIOUS
    <3>3. x.events = task[b].events
      BY <3>1, <3>2 DEF Task
    <3>4. task' = [task EXCEPT ![b] = x]
      BY <2>1, <3>2
    <3>5. QED BY <3>1, <3>3, <3>4
  <2>2. QED BY <1>1, <2>1
<1>3. Whereabouts(lost', channel', buffer', sending', task')
         = Whereabouts(lost, channel, buffer, sending, task)
  <2>1. UNCHANGED <<lost, channel, buffer, sending>>
    BY <1>1 DEF collecting
  <2>2. UNION {KeysIn(task'[b].events) : b \in Batches}
           = UNION {KeysIn(task[b].events) : b \in Batches}
    BY <1>2
  <2>3. QED BY <2>1, <2>2 DEF Whereabouts
<1>4. CollectedTypes' /\ seen' = seen
  BY <1>0, <1>1 DEF TypeOK, CollectedTypes, collecting
<1>5. QED BY <1>0, <1>3, <1>4

LEMMA InvStep == TelemetryInv /\ [Next]_vars => TelemetryInv'
<1> SUFFICES ASSUME TelemetryInv, [Next]_vars PROVE TelemetryInv'
  OBVIOUS
<1>1. StoredTypes' /\ RunsInv'
  <2>1. ASSUME NEW w \in Workers, RunNext(w) PROVE StoredTypes' /\ RunsInv'
    BY <2>1, TakeStep, HandleStep, CreateStep, EscalateStep, CommitStep, EndStep DEF RunNext
  <2>2. CASE UNCHANGED vars
    <3>1. TypeOK /\ RunsInv
      BY DEF TelemetryInv
    <3>2. UNCHANGED <<worker, task, sighting, admin, logged, policy, cut, overlapped>>
      BY <2>2 DEF vars, storing
    <3>3. StoredTypes'
      BY <3>1, <3>2 DEF TypeOK, StoredTypes
    <3>4. QED BY <3>1, <3>2, <3>3, RunsUntouched DEF RunsInv, SameNotes
  <2>3. QED BY <2>1, <2>2, CollectorRuns, UserStep DEF Next
<1>2. CollectedTypes' /\ seen' \subseteq Whereabouts(lost', channel', buffer', sending', task')
  BY CollectorStep, OthersKeepEvents DEF Next
<1>3. TypeOK'
  BY <1>1, <1>2 DEF TypeOK, CollectedTypes, StoredTypes
<1>4. SeenIsReported'
  <2>1. channel' \in Seq(Keys) /\ buffer' \in Seq(Keys) /\ sending' \in Seq(Keys)
    BY <1>2 DEF CollectedTypes
  <2>2. KeysIn(channel' \o buffer' \o sending')
           = KeysIn(channel') \cup KeysIn(buffer') \cup KeysIn(sending')
    BY <2>1, JoinedThree
  <2>3. QED BY <1>2, <2>2 DEF SeenIsReported, Whereabouts
<1>5. QED BY <1>1, <1>3, <1>4 DEF TelemetryInv

\* The agents' batches, the runs that work them off and the sightings they escalate
\* are as they should be, and nothing that a collector remembers to have submitted
\* disappears without being lost (reporters/api.go, scanners, telemetry_service).
THEOREM InductiveInvariant == Spec => []TelemetryInv
<1>1. QED BY InvInit, InvStep, PTL DEF Spec

-----------------------------------------------------------------------------
(* What is escalated                                                       *)

AtMostOnce(x) == x.incidents <= 1 /\ x.notices <= 1
Settled(x) ==
    /\ x.incidents = (IF x.blocked THEN 1 ELSE 0)
    /\ x.notices <= 1 /\ (x.byhand \/ x.notices = 1)

\* A row stays judged as it was, is now a run's, or is escalated in full.
LEMMA EscalationKept ==
    ASSUME BlockedIsEscalated, NEW w \in Workers, cut \subseteq cut',
           \A v \in Workers \ {w} : worker'[v].row = worker[v].row,
           \A s \in DOMAIN sighting' :
              \/ /\ s \in DOMAIN sighting /\ SameNotes(sighting'[s], sighting[s])
                 /\ s # worker[w].row \/ s \in cut'
              \/ AtMostOnce(sighting'[s]) /\ s = worker'[w].row
              \/ Settled(sighting'[s])
    PROVE  BlockedIsEscalated'
<1>1. ASSUME NEW s \in DOMAIN sighting'
      PROVE  /\ AtMostOnce(sighting'[s])
             /\ s \notin cut' /\ (\A v \in Workers : worker'[v].row # s) =>
                    Settled(sighting'[s])
  <2>1. CASE /\ s \in DOMAIN sighting /\ SameNotes(sighting'[s], sighting[s])
             /\ s # worker[w].row \/ s \in cut'
    <3>1. /\ AtMostOnce(sighting[s])
          /\ s \notin cut /\ (\A v \in Workers : worker[v].row # s) => Settled(sighting[s])
      BY <2>1 DEF BlockedIsEscalated, AtMostOnce, Settled
    <3>2. AtMostOnce(sighting'[s]) /\ (Settled(sighting[s]) => Settled(sighting'[s]))
      BY <2>1, <3>1 DEF AtMostOnce, Settled, SameNotes
    <3>3. s \notin cut' /\ (\A v \in Workers : worker'[v].row # s) =>
             s \notin cut /\ \A v \in Workers : worker[v].row # s
      BY <2>1
    <3>4. QED BY <3>1, <3>2, <3>3
  <2>2. CASE AtMostOnce(sighting'[s]) /\ s = worker'[w].row
    BY <2>2
  <2>3. CASE Settled(sighting'[s])
    BY <2>3 DEF Settled, AtMostOnce
  <2>4. QED BY <2>1, <2>2, <2>3
<1>2. QED BY <1>1 DEF BlockedIsEscalated, AtMostOnce, Settled

\* A run of w that escalates nothing yet.
LEMMA RowlessRun ==
    ASSUME TelemetryInv, NEW w \in Workers, worker[w].pc \notin {"incident", "notify"}
    PROVE  worker[w].row = 0 /\ 0 \notin DOMAIN sighting
BY DEF TelemetryInv, RunsInv, Escalating, TypeOK

LEMMA RunEscalates ==
    ASSUME TelemetryInv, BlockedIsEscalated, NEW w \in Workers, RunNext(w)
    PROVE  BlockedIsEscalated'
<1>0. TypeOK /\ RunsInv /\ Working(worker[w], task) /\ Escalating(worker[w], sighting)
      /\ worker \in [Workers -> Run] /\ Len(sighting) \in Nat
      /\ DOMAIN sighting = 1 .. Len(sighting)
  BY DEF TelemetryInv, RunsInv, TypeOK
<1>1. CASE \/ \E b \in Batches : TakeBatch(w, b)
           \/ HandleDomainVisit(w) \/ HandleLocalSignal(w)
  <2>1. /\ UNCHANGED <<sighting, cut>> /\ worker[w].pc \notin {"incident", "notify"}
        /\ \A v \in Workers \ {w} : worker'[v] = worker[v]
    BY <1>0, <1>1 DEF TakeBatch, HandleDomainVisit, HandleLocalSignal, Flag, Handles, storing
  <2>2. QED BY <2>1, RowlessRun, EscalationKept DEF SameNotes
<1>2. CASE CommitBatch(w)
  <2>1. /\ sighting' = SightingsAfter(w) /\ cut' = cut /\ worker[w].pc = "event"
        /\ \A v \in Workers \ {w} : worker'[v] = worker[v]
    BY <1>0, <1>2 DEF CommitBatch
  <2>2. DOMAIN sighting' = DOMAIN sighting
    BY <1>0, <2>1, SightingsAfterTypes DEF Working
  <2>3. \A s \in DOMAIN sighting : SameNotes(sighting'[s], sighting[s])
    BY <1>0, <2>1, RowsCounted DEF Working
  <2>4. QED BY <2>1, <2>2, <2>3, RowlessRun, EscalationKept
<1>3. CASE CreateSighting(w)
  <2>1. /\ cut' = cut /\ worker[w].pc = "create"
        /\ \A v \in Workers \ {w} : worker'[v] = worker[v]
        /\ worker'[w].row = Len(sighting) + 1
    <3>1. PICK run : /\ run = [worker[w] EXCEPT !.pc = AfterSighting(worker[w].blocked),
                                                !.log = <<>>, !.held = {},
                                                !.row = Len(sighting) + 1]
                    /\ worker' = [worker EXCEPT ![w] = run]
      BY <1>3 DEF CreateSighting
    <3>2. worker[w] \in Run
      BY <1>0
    <3>3. run.row = Len(sighting) + 1
      BY <3>1, <3>2 DEF Run
    <3>4. QED BY <1>0, <1>3, <3>1, <3>3 DEF CreateSighting
  <2>2. DOMAIN sighting' = DOMAIN sighting \cup {Len(sighting) + 1}
    <3>1. DOMAIN sighting' = 1 .. Len(sighting) + 1
      BY <1>3, CreatedRows
    <3>2. 1 .. Len(sighting) + 1 = 1 .. Len(sighting) \cup {Len(sighting) + 1}
      BY <1>0
    <3>3. QED BY <1>0, <3>1, <3>2
  <2>3. \A s \in DOMAIN sighting : SameNotes(sighting'[s], sighting[s])
    BY <1>3, CreatedRows
  <2>4. AtMostOnce(sighting'[Len(sighting) + 1])
    BY <1>3, CreatedRows DEF AtMostOnce
  <2>5. QED BY <2>1, <2>2, <2>3, <2>4, RowlessRun, EscalationKept
<1>4. ASSUME CreateIncident(w) \/ Notify(w)
      PROVE  BlockedIsEscalated'
  <2> DEFINE row == worker[w].row
  <2>1. row \in DOMAIN sighting /\ sighting[row] \in Sighting /\ worker[w] \in Run
    BY <1>0, <1>4 DEF CreateIncident, Notify, Escalating, TypeOK
  <2>2. /\ cut' = cut /\ \A v \in Workers \ {w} : worker'[v] = worker[v]
        /\ DOMAIN sighting' = DOMAIN sighting
        /\ \A s \in DOMAIN sighting : s # row => sighting'[s] = sighting[s]
    BY <1>0, <1>4 DEF CreateIncident, Notify, TypeOK
  <2>3. CASE CreateIncident(w)
    <3>1. PICK x : x = [sighting[row] EXCEPT !.incidents = sighting[row].incidents + 1]
      OBVIOUS
    <3>2. sighting' = [sighting EXCEPT ![row] = x] /\ worker'[w].row = row
      BY <1>0, <2>1, <2>3, <3>1 DEF CreateIncident, Run
    <3>3. sighting[row].notices = 0 /\ sighting[row].incidents = 0
      BY <1>0, <2>1, <2>3 DEF CreateIncident, Escalating
    <3>4. x.notices = sighting[row].notices /\ x.incidents = sighting[row].incidents + 1
      BY <2>1, <3>1 DEF Sighting
    <3>5. AtMostOnce(sighting'[row])
      BY <2>1, <3>2, <3>3, <3>4 DEF AtMostOnce
    <3>6. QED BY <2>2, <3>2, <3>5, EscalationKept DEF SameNotes
  <2>4. CASE Notify(w)
    <3>1. PICK x : x = [sighting[row] EXCEPT !.notices = sighting[row].notices + 1]
      OBVIOUS
    <3>2. sighting' = [sighting EXCEPT ![row] = x]
      BY <2>4, <3>1 DEF Notify
    <3>3. /\ sighting[row].notices = 0
          /\ sighting[row].incidents = IF sighting[row].blocked THEN 1 ELSE 0
      BY <1>0, <2>1, <2>4 DEF Notify, Escalating
    <3>4. x.notices = sighting[row].notices + 1 /\ x.incidents = sighting[row].incidents
          /\ x.blocked = sighting[row].blocked
      BY <2>1, <3>1 DEF Sighting
    <3>5. Settled(x)
      BY <3>3, <3>4 DEF Settled
    <3>6. Settled(sighting'[row])
      BY <2>1, <3>2, <3>5
    <3>7. QED BY <2>2, <3>6, EscalationKept DEF SameNotes
  <2>5. QED BY <1>4, <2>3, <2>4
<1>5. ASSUME AckBatch(w) \/ FailBatch(w) \/ WorkerLost(w)
      PROVE  BlockedIsEscalated'
  <2>1. /\ sighting' = sighting /\ cut \subseteq cut'
        /\ worker[w].row # 0 => worker[w].row \in cut'
        /\ \A v \in Workers \ {w} : worker'[v] = worker[v]
    BY <1>0, <1>5 DEF AckBatch, FailBatch, WorkerLost, Ended, storing
  <2>2. 0 \notin DOMAIN sighting
    BY <1>0
  <2>3. QED BY <2>1, <2>2, EscalationKept DEF SameNotes
<1>6. QED BY <1>1, <1>2, <1>3, <1>4, <1>5 DEF RunNext

\* A status, a provider or a report settles nothing anew; a collector's step neither.
LEMMA OthersEscalate ==
    ASSUME TelemetryInv, BlockedIsEscalated, CollectorNext \/ UserNext \/ UNCHANGED vars
    PROVE  BlockedIsEscalated'
<1>0. TypeOK /\ RunsInv /\ Len(sighting) \in Nat /\ sighting \in Seq(Sighting)
      /\ DOMAIN sighting = 1 .. Len(sighting)
  BY DEF TelemetryInv, TypeOK
<1>1. UNCHANGED <<worker, cut>>
  BY DEF CollectorNext, Appear, Vanish, CollectorScans, Receive, Flush, PostFails, Restart,
         SetEnabled, PostAccepted, UserNext, UpdateStatus, ReportSighting, SetPolicy,
         OpenRegister, CommitRegister, vars
<1>2. ASSUME \A s \in DOMAIN sighting' :
                \/ s \in DOMAIN sighting /\ SameNotes(sighting'[s], sighting[s])
                \/ Settled(sighting'[s])
      PROVE  BlockedIsEscalated'
  <2>1. ASSUME NEW s \in DOMAIN sighting'
        PROVE  /\ AtMostOnce(sighting'[s])
               /\ s \notin cut' /\ (\A v \in Workers : worker'[v].row # s) =>
                      Settled(sighting'[s])
    <3>1. CASE s \in DOMAIN sighting /\ SameNotes(sighting'[s], sighting[s])
      <4>1. /\ AtMostOnce(sighting[s])
            /\ s \notin cut /\ (\A v \in Workers : worker[v].row # s) =>
                   Settled(sighting[s])
        BY <3>1 DEF BlockedIsEscalated, AtMostOnce, Settled
      <4>2. AtMostOnce(sighting'[s]) /\ (Settled(sighting[s]) => Settled(sighting'[s]))
        BY <3>1, <4>1 DEF AtMostOnce, Settled, SameNotes
      <4>3. QED BY <1>1, <4>1, <4>2
    <3>2. CASE Settled(sighting'[s])
      BY <3>2 DEF Settled, AtMostOnce
    <3>3. QED BY <1>2, <3>1, <3>2
  <2>2. QED BY <2>1 DEF BlockedIsEscalated, AtMostOnce, Settled
<1>3. CASE sighting' = sighting
  BY <1>2, <1>3 DEF SameNotes
<1>4. ASSUME NEW row \in DOMAIN sighting, NEW x, SameNotes(x, sighting[row]),
             sighting' = [sighting EXCEPT ![row] = x]
      PROVE  BlockedIsEscalated'
  BY <1>0, <1>2, <1>4 DEF SameNotes
<1>5. ASSUME NEW k \in Keys, ReportSighting(k)
      PROVE  BlockedIsEscalated'
  <2>0. PICK n \in {0, 1} :
                 sighting' = Append(sighting, [NewSighting(k) EXCEPT !.byhand = TRUE,
                                                                   !.notices = n])
    BY <1>5 DEF ReportSighting
  <2>1. PICK x : /\ x = [NewSighting(k) EXCEPT !.byhand = TRUE, !.notices = n]
                 /\ sighting' = Append(sighting, x)
    BY <2>0
  <2>2. Settled(x)
    BY <2>1 DEF NewSighting, Settled
  <2>3. /\ DOMAIN sighting' = 1 .. Len(sighting) + 1 /\ sighting'[Len(sighting) + 1] = x
        /\ \A s \in DOMAIN sighting : sighting'[s] = sighting[s]
    BY <1>0, <2>1
  <2>4. \A s \in DOMAIN sighting' : s = Len(sighting) + 1 \/ s \in DOMAIN sighting
    BY <1>0, <2>3
  <2>5. QED BY <1>2, <2>2, <2>3, <2>4 DEF SameNotes
<1>6. ASSUME NEW row \in DOMAIN sighting, NEW status, UpdateStatus(row, status)
      PROVE  BlockedIsEscalated'
  <2>1. sighting[row] \in Sighting
    BY <1>0
  <2>2. PICK x : x = [sighting[row] EXCEPT !.status = status,
                         !.reopened = sighting[row].reopened
                            \/ (status \notin Resolved /\ sighting[row].status \in Resolved)]
    OBVIOUS
  <2>3. SameNotes(x, sighting[row])
    BY <2>1, <2>2 DEF Sighting, SameNotes
  <2>4. sighting' = [sighting EXCEPT ![row] = x]
    BY <1>0, <1>6, <2>1, <2>2 DEF UpdateStatus, Sighting
  <2>5. QED BY <1>4, <2>3, <2>4
<1>7. ASSUME NEW a \in Admins, CommitRegister(a)
      PROVE  BlockedIsEscalated'
  <2>1. PICK row \in DOMAIN sighting : row = admin[a]
    BY <1>0, <1>7 DEF CommitRegister, RunsInv
  <2>2. sighting[row] \in Sighting
    BY <1>0
  <2>3. PICK x : x = [sighting[row] EXCEPT !.status = "registered",
                                          !.providers = sighting[row].providers + 1]
    OBVIOUS
  <2>4. SameNotes(x, sighting[row])
    BY <2>2, <2>3 DEF Sighting, SameNotes
  <2>5. sighting' = [sighting EXCEPT ![row] = x]
    BY <1>0, <1>7, <2>1, <2>3 DEF CommitRegister
  <2>6. QED BY <1>4, <2>4, <2>5
<1>8. QED
  BY <1>3, <1>5, <1>6, <1>7
     DEF CollectorNext, Appear, Vanish, CollectorScans, Receive, Flush, PostFails, Restart,
         SetEnabled, PostAccepted, UserNext, SetPolicy, OpenRegister, storing, vars

\* The sighting of a blocked domain gets its incident, and each one its notice, exactly
\* once, or its task's end is on record (_handle_domain_visit, _handle_local_signal).
THEOREM SightingsEscalated == Spec => []BlockedIsEscalated
<1>1. Init => BlockedIsEscalated
  BY DEF Init, StartFrom, BlockedIsEscalated
<1>2. TelemetryInv /\ BlockedIsEscalated /\ [Next]_vars => BlockedIsEscalated'
  BY RunEscalates, OthersEscalate DEF Next
<1>3. QED BY <1>1, <1>2, InductiveInvariant, PTL DEF Spec

-----------------------------------------------------------------------------
(* One open sighting                                                       *)

Open(x) == x.status \notin Resolved
Excused(x) == x.byhand \/ x.reopened

\* Until two tasks have run at once there is one run, and if it is about to create a
\* sighting, a user made or reopened each open one of the key.
SoloInv ==
    ~overlapped =>
       /\ \A v, w \in Workers : v # w => worker[v].pc = "idle" \/ worker[w].pc = "idle"
       /\ \A w \in Workers : worker[w].pc = "create" =>
             \A s \in DOMAIN sighting :
                sighting[s].key = Event(w) /\ Open(sighting[s]) => Excused(sighting[s])

LEMMA CarriesKeeps ==
    ASSUME NEW x, NEW y, Carries(x, y)
    PROVE  /\ x.key = y.key
           /\ Excused(y) => Excused(x)
           /\ Open(x) => Open(y) \/ Excused(x)
BY DEF Carries, Excused, Open

\* Every step carries the sightings along; a new one is by hand, or a run's.
LEMMA RowsCarried ==
    ASSUME TelemetryInv, [Next]_vars
    PROVE  /\ DOMAIN sighting = 1 .. Len(sighting) /\ Len(sighting) \in Nat
           /\ \A s \in DOMAIN sighting :
                 s \in DOMAIN sighting' /\ Carries(sighting'[s], sighting[s])
           /\ \A t \in DOMAIN sighting' \ DOMAIN sighting :
                 /\ t = Len(sighting) + 1
                 /\ \/ sighting'[t].byhand
                    \/ \E w \in Workers : CreateSighting(w) /\ sighting'[t].key = Event(w)
<1>0. TypeOK /\ RunsInv /\ Len(sighting) \in Nat /\ sighting \in Seq(Sighting)
      /\ DOMAIN sighting = 1 .. Len(sighting)
  BY DEF TelemetryInv, TypeOK
<1> DEFINE Carried ==
       /\ \A s \in DOMAIN sighting :
             s \in DOMAIN sighting' /\ Carries(sighting'[s], sighting[s])
       /\ \A t \in DOMAIN sighting' \ DOMAIN sighting :
             /\ t = Len(sighting) + 1
             /\ \/ sighting'[t].byhand
                \/ \E w \in Workers : CreateSighting(w) /\ sighting'[t].key = Event(w)
<1>1. CASE sighting' = sighting
  BY <1>1 DEF Carries
<1>2. ASSUME NEW row \in DOMAIN sighting, NEW x, Carries(x, sighting[row]),
             sighting' = [sighting EXCEPT ![row] = x]
      PROVE  Carried
  BY <1>0, <1>2 DEF Carries
<1>3. ASSUME NEW w \in Workers, CommitBatch(w) PROVE Carried
  <2>1. sighting' = SightingsAfter(w) /\ Working(worker[w], task)
    BY <1>0, <1>3 DEF CommitBatch, RunsInv
  <2>2. DOMAIN sighting' = DOMAIN sighting
    BY <1>0, <2>1, SightingsAfterTypes DEF Working
  <2>3. QED BY <1>0, <2>1, <2>2, RowsCounted DEF Working
<1>4. ASSUME NEW w \in Workers, CreateSighting(w) PROVE Carried
  <2>1. /\ DOMAIN sighting' = 1 .. Len(sighting) + 1
        /\ sighting'[Len(sighting) + 1].key = Event(w)
        /\ \A s \in DOMAIN sighting : Carries(sighting'[s], sighting[s])
    BY <1>4, CreatedRows
  <2>2. 1 .. Len(sighting) + 1 = 1 .. Len(sighting) \cup {Len(sighting) + 1}
    BY <1>0
  <2>3. QED BY <1>0, <1>4, <2>1, <2>2
<1>5. ASSUME NEW w \in Workers, CreateIncident(w) \/ Notify(w) PROVE Carried
  <2>1. PICK row \in DOMAIN sighting : row = worker[w].row
    BY <1>0, <1>5 DEF CreateIncident, Notify, RunsInv, Escalating
  <2>2. sighting[row] \in Sighting
    BY <1>0
  <2>3. CASE CreateIncident(w)
    <3>1. PICK x : x = [sighting[row] EXCEPT !.incidents = sighting[row].incidents + 1]
      OBVIOUS
    <3>2. Carries(x, sighting[row])
      BY <2>2, <3>1 DEF Sighting, Carries
    <3>3. sighting' = [sighting EXCEPT ![row] = x]
      BY <2>1, <2>3, <3>1 DEF CreateIncident
    <3>4. QED BY <1>2, <3>2, <3>3
  <2>4. CASE Notify(w)
    <3>1. PICK x : x = [sighting[row] EXCEPT !.notices = sighting[row].notices + 1]
      OBVIOUS
    <3>2. Carries(x, sighting[row])
      BY <2>2, <3>1 DEF Sighting, Carries
    <3>3. sighting' = [sighting EXCEPT ![row] = x]
      BY <2>1, <2>4, <3>1 DEF Notify
    <3>4. QED BY <1>2, <3>2, <3>3
  <2>5. QED BY <1>5, <2>3, <2>4
<1>6. ASSUME NEW k \in Keys, ReportSighting(k) PROVE Carried
  <2>0. PICK n \in {0, 1} :
                 sighting' = Append(sighting, [NewSighting(k) EXCEPT !.byhand = TRUE,
                                                                   !.notices = n])
    BY <1>6 DEF ReportSighting
  <2>1. PICK x : /\ x = [NewSighting(k) EXCEPT !.byhand = TRUE, !.notices = n]
                 /\ sighting' = Append(sighting, x)
    BY <2>0
  <2>2. x.byhand
    BY <2>1 DEF NewSighting
  <2>3. /\ DOMAIN sighting' = 1 .. Len(sighting) + 1 /\ sighting'[Len(sighting) + 1] = x
        /\ \A s \in DOMAIN sighting : sighting'[s] = sighting[s]
    BY <1>0, <2>1
  <2>4. 1 .. Len(sighting) + 1 = 1 .. Len(sighting) \cup {Len(sighting) + 1}
    BY <1>0
  <2>5. QED BY <1>0, <2>2, <2>3, <2>4 DEF Carries
<1>7. ASSUME NEW row \in DOMAIN sighting, NEW status, UpdateStatus(row, status)
      PROVE  Carried
  <2>1. sighting[row] \in Sighting
    BY <1>0
  <2>2. PICK again : again = (sighting[row].reopened
                            \/ (status \notin Resolved /\ sighting[row].status \in Resolved))
    OBVIOUS
  <2>3. PICK x : x = [sighting[row] EXCEPT !.status = status, !.reopened = again]
    OBVIOUS
  <2>4. x.key = sighting[row].key /\ x.byhand = sighting[row].byhand
        /\ x.status = status /\ x.reopened = again
    BY <2>1, <2>3 DEF Sighting
  <2>5. Carries(x, sighting[row])
    BY <2>2, <2>4, Zenon DEF Carries
  <2>6. sighting' = [sighting EXCEPT ![row] = x]
    BY <1>0, <1>7, <2>1, <2>2, <2>3 DEF UpdateStatus, Sighting
  <2>7. QED BY <1>2, <2>5, <2>6
<1>8. ASSUME NEW a \in Admins, CommitRegister(a) PROVE Carried
  <2>1. PICK row \in DOMAIN sighting : row = admin[a]
    BY <1>0, <1>8 DEF CommitRegister, RunsInv
  <2>2. sighting[row] \in Sighting
    BY <1>0
  <2>3. PICK x : x = [sighting[row] EXCEPT !.status = "registered",
                                          !.providers = sighting[row].providers + 1]
    OBVIOUS
  <2>4. Carries(x, sighting[row])
    BY <2>2, <2>3 DEF Sighting, Carries, Resolved
  <2>5. sighting' = [sighting EXCEPT ![row] = x]
    BY <1>0, <1>8, <2>1, <2>3 DEF CommitRegister
  <2>6. QED BY <1>2, <2>4, <2>5
<1>9. \/ sighting' = sighting
      \/ \E w \in Workers : CommitBatch(w) \/ CreateSighting(w) \/ CreateIncident(w) \/ Notify(w)
      \/ \E k \in Keys : ReportSighting(k)
      \/ \E row \in DOMAIN sighting, status \in Statuses : UpdateStatus(row, status)
      \/ \E a \in Admins : CommitRegister(a)
  BY DEF Next, CollectorNext, Appear, Vanish, CollectorScans, Receive, Flush, PostFails,
         Restart, SetEnabled, PostAccepted, UserNext, SetPolicy, OpenRegister, RunNext,
         TakeBatch, HandleDomainVisit, HandleLocalSignal, Flag, Handles, AckBatch, FailBatch,
         WorkerLost, Ended, storing, vars
<1>10. Carried
  BY <1>1, <1>3, <1>4, <1>5, <1>6, <1>7, <1>8, <1>9
<1>11. QED BY <1>0, <1>10

\* A run that is about to create a sighting after a step was so before it, with no
\* new sighting of a task, or has just found none open.
LEMMA RunsMove ==
    ASSUME TelemetryInv, [Next]_vars, SoloInv, ~overlapped'
    PROVE  /\ ~overlapped
           /\ \A v, w \in Workers : v # w => worker'[v].pc = "idle" \/ worker'[w].pc = "idle"
           /\ \A w \in Workers : worker'[w].pc = "create" =>
                 /\ Event(w)' = Event(w)
                 /\ \/ /\ worker[w].pc = "create"
                       /\ \A v \in Workers : ~CreateSighting(v)
                    \/ OpenSightings(Event(w)) = {} /\ sighting' = sighting
<1>0. /\ TypeOK /\ RunsInv /\ worker \in [Workers -> Run]
      /\ \A w \in Workers : Working(worker[w], task)
  BY DEF TelemetryInv, RunsInv, TypeOK
<1>1. ~overlapped
  BY DEF Next, CollectorNext, Appear, Vanish, CollectorScans, Receive, Flush, PostFails,
         Restart, SetEnabled, PostAccepted, UserNext, UpdateStatus, ReportSighting, SetPolicy,
         OpenRegister, CommitRegister, RunNext, TakeBatch, HandleDomainVisit,
         HandleLocalSignal, Flag, Handles, CreateSighting, CreateIncident, Notify, CommitBatch,
         AckBatch, FailBatch, WorkerLost, vars
<1>2. \A v, w \in Workers : v # w => worker[v].pc = "idle" \/ worker[w].pc = "idle"
  BY <1>1 DEF SoloInv
<1> DEFINE Moved ==
       /\ \A v, w \in Workers : v # w => worker'[v].pc = "idle" \/ worker'[w].pc = "idle"
       /\ \A w \in Workers : worker'[w].pc = "create" =>
             /\ Event(w)' = Event(w)
             /\ \/ /\ worker[w].pc = "create"
                   /\ \A v \in Workers : ~CreateSighting(v)
                \/ OpenSightings(Event(w)) = {} /\ sighting' = sighting
<1>3. CASE CollectorNext \/ UserNext \/ UNCHANGED vars
  <2>1. worker' = worker
    BY <1>3 DEF CollectorNext, Appear, Vanish, CollectorScans, Receive, Flush, PostFails,
         Restart, SetEnabled, PostAccepted, UserNext, UpdateStatus, ReportSighting, SetPolicy,
         OpenRegister, CommitRegister, vars
  <2>2. \A b \in Batches : task[b].state = "taken" => task'[b] = task[b]
    BY <1>0, <1>3 DEF TypeOK, CollectorNext, Appear, Vanish, CollectorScans, Receive, Flush,
         PostFails, Restart, SetEnabled, PostAccepted, UserNext, UpdateStatus, ReportSighting,
         SetPolicy, OpenRegister, CommitRegister, vars
  <2>3. ASSUME NEW w \in Workers, worker[w].pc = "create"
        PROVE  Event(w)' = Event(w) /\ \A v \in Workers : ~CreateSighting(v)
    <3>1. Event(w)' = Event(w)
      BY <1>0, <2>1, <2>2, <2>3 DEF Working, Event
    <3>2. ASSUME NEW v \in Workers, CreateSighting(v) PROVE FALSE
      <4>1. worker'[v].pc # worker[v].pc
        <5>1. PICK run : /\ run = [worker[v] EXCEPT !.pc = AfterSighting(worker[v].blocked),
                                          !.log = <<>>, !.held = {}, !.row = Len(sighting) + 1]
                         /\ worker' = [worker EXCEPT ![v] = run]
          BY <3>2 DEF CreateSighting
        <5>2. run.pc = AfterSighting(worker[v].blocked)
          BY <1>0, <5>1 DEF Run
        <5>3. QED BY <1>0, <3>2, <5>1, <5>2 DEF CreateSighting, AfterSighting
      <4>2. QED BY <2>1, <4>1
    <3>3. QED BY <3>1, <3>2
  <2>4. QED BY <1>1, <1>2, <2>1, <2>3
<1>4. ASSUME NEW u \in Workers, NEW b \in Batches, TakeBatch(u, b) PROVE Moved
  <2>1. \A v \in Workers \ {u} : worker'[v] = worker[v] /\ worker[v].pc = "idle"
    BY <1>0, <1>4 DEF TakeBatch
  <2>2. worker'[u].pc = "event"
    <3>1. worker' = [worker EXCEPT ![u] = [IdleRun EXCEPT !.pc = "event", !.batch = b]]
      BY <1>4 DEF TakeBatch
    <3>2. QED BY <1>0, <3>1, FreshRun
  <2>3. QED BY <2>1, <2>2
<1>5. ASSUME NEW u \in Workers, NEW run, worker[u].pc # "idle",
             worker' = [worker EXCEPT ![u] = run],
             run.pc = "create" => /\ Event(u)' = Event(u)
                                  /\ OpenSightings(Event(u)) = {} /\ sighting' = sighting
      PROVE  Moved
  <2>1. worker'[u] = run
        /\ \A v \in Workers \ {u} : worker'[v] = worker[v] /\ worker[v].pc = "idle"
    BY <1>0, <1>2, <1>5
  <2>2. QED BY <1>5, <2>1
<1>6. ASSUME NEW u \in Workers, HandleDomainVisit(u) \/ HandleLocalSignal(u) PROVE Moved
  <2>1. worker[u].pc = "event" /\ ~Exhausted(u)
    BY <1>6 DEF HandleDomainVisit, HandleLocalSignal
  <2>2. \A flagged \in BOOLEAN :
           /\ Logged(u, flagged) \in Run /\ Logged(u, flagged).pc = "event"
           /\ Logged(u, flagged).batch = worker[u].batch
           /\ Logged(u, flagged).at = worker[u].at
    BY <2>1, LoggedTypes
  <2>3. ASSUME NEW s, NEW next \in Run, next.pc = "event",
               Handles(u, [next EXCEPT !.at = @ + 1, !.dirty = {RepeatOf(s, Flushed(u))}])
        PROVE  Moved
    <3>1. PICK run : run = [next EXCEPT !.at = @ + 1, !.dirty = {RepeatOf(s, Flushed(u))}]
      OBVIOUS
    <3>2. run.pc # "create"
      BY <2>3, <3>1 DEF Run
    <3>3. worker' = [worker EXCEPT ![u] = run]
      BY <2>3, <3>1 DEF Handles
    <3>4. QED BY <1>5, <2>1, <3>2, <3>3
  <2>4. ASSUME NEW next \in Run, next.pc = "event", Handles(u, [next EXCEPT !.at = @ + 1])
        PROVE  Moved
    <3>1. PICK run : run = [next EXCEPT !.at = @ + 1]
      OBVIOUS
    <3>2. run.pc # "create"
      BY <2>4, <3>1 DEF Run
    <3>3. worker' = [worker EXCEPT ![u] = run]
      BY <2>4, <3>1 DEF Handles
    <3>4. QED BY <1>5, <2>1, <3>2, <3>3
  <2>5. ASSUME NEW next \in Run, next.batch = worker[u].batch, next.at = worker[u].at,
               OpenSightings(Event(u)) = {}, NEW blocked \in BOOLEAN,
               Handles(u, [next EXCEPT !.pc = "create", !.blocked = blocked])
        PROVE  Moved
    <3>1. PICK run : run = [next EXCEPT !.pc = "create", !.blocked = blocked]
      OBVIOUS
    <3>2. run.batch = worker[u].batch /\ run.at = worker[u].at
      BY <2>5, <3>1 DEF Run
    <3>3. worker' = [worker EXCEPT ![u] = run] /\ UNCHANGED <<task, sighting>>
      BY <2>5, <3>1 DEF Handles, storing
    <3>4. Event(u)' = Event(u)
      BY <1>0, <3>2, <3>3 DEF Event
    <3>5. QED BY <1>5, <2>1, <2>5, <3>3, <3>4
  <2>6. CASE Flag(u)
    <3>1. PICK next \in Run : /\ next = Logged(u, TRUE) /\ next.pc = "event"
                              /\ next.batch = worker[u].batch /\ next.at = worker[u].at
      BY <2>2
    <3>2. (Verdict(Event(u)) = "blocked") \in BOOLEAN
      OBVIOUS
    <3>3. QED BY <2>3, <2>5, <2>6, <3>1, <3>2 DEF Flag
  <2>7. CASE Handles(u, [Logged(u, FALSE) EXCEPT !.at = @ + 1])
    <3>1. PICK next \in Run : next = Logged(u, FALSE) /\ next.pc = "event"
      BY <2>2
    <3>2. QED BY <2>4, <2>7, <3>1
  <2>8. QED BY <1>6, <2>6, <2>7 DEF HandleDomainVisit, HandleLocalSignal
<1>7. ASSUME NEW u \in Workers,
             \/ CreateSighting(u) \/ CreateIncident(u) \/ Notify(u) \/ CommitBatch(u)
             \/ AckBatch(u) \/ FailBatch(u) \/ WorkerLost(u)
      PROVE  Moved
  <2>0. worker[u] \in Run
    BY <1>0
  <2>1. CASE CreateSighting(u)
    <3>1. PICK run : /\ run = [worker[u] EXCEPT !.pc = AfterSighting(worker[u].blocked),
                                      !.log = <<>>, !.held = {}, !.row = Len(sighting) + 1]
                     /\ worker' = [worker EXCEPT ![u] = run] /\ worker[u].pc = "create"
      BY <2>1 DEF CreateSighting
    <3>2. run.pc # "create"
      BY <2>0, <3>1 DEF Run, AfterSighting
    <3>3. QED BY <1>5, <3>1, <3>2
  <2>2. CASE CreateIncident(u)
    <3>1. PICK run : /\ run = [worker[u] EXCEPT !.pc = "notify"]
                     /\ worker' = [worker EXCEPT ![u] = run] /\ worker[u].pc = "incident"
      BY <2>2 DEF CreateIncident
    <3>2. run.pc # "create"
      BY <2>0, <3>1 DEF Run
    <3>3. QED BY <1>5, <3>1, <3>2
  <2>3. CASE Notify(u)
    <3>1. PICK run : /\ run = [worker[u] EXCEPT !.pc = "event", !.at = @ + 1, !.row = 0]
                     /\ worker' = [worker EXCEPT ![u] = run] /\ worker[u].pc = "notify"
      BY <2>3 DEF Notify
    <3>2. run.pc # "create"
      BY <2>0, <3>1 DEF Run
    <3>3. QED BY <1>5, <3>1, <3>2
  <2>4. CASE CommitBatch(u)
    <3>1. PICK run : /\ run = [IdleRun EXCEPT !.pc = "ack", !.batch = worker[u].batch]
                     /\ worker' = [worker EXCEPT ![u] = run] /\ worker[u].pc = "event"
      BY <2>4 DEF CommitBatch
    <3>2. run.pc # "create"
      BY <3>1 DEF IdleRun
    <3>3. QED BY <1>5, <3>1, <3>2
  <2>5. CASE AckBatch(u) \/ FailBatch(u) \/ WorkerLost(u)
    <3>1. worker' = [worker EXCEPT ![u] = IdleRun] /\ worker[u].pc # "idle"
      BY <2>5 DEF AckBatch, FailBatch, WorkerLost, Ended
    <3>2. IdleRun.pc # "create"
      BY DEF IdleRun
    <3>3. QED BY <1>5, <3>1, <3>2
  <2>6. QED BY <1>7, <2>1, <2>2, <2>3, <2>4, <2>5
<1>8. Moved
  BY <1>3, <1>4, <1>6, <1>7 DEF Next, RunNext
<1>9. QED BY <1>1, <1>8

LEMMA SoloStep ==
    ASSUME TelemetryInv, [Next]_vars, SoloInv
    PROVE  SoloInv'
<1> SUFFICES ASSUME ~overlapped' PROVE SoloInv'
  BY DEF SoloInv
<1>1. ASSUME NEW w \in Workers, worker'[w].pc = "create", NEW s \in DOMAIN sighting',
             sighting'[s].key = Event(w)', Open(sighting'[s])
      PROVE  Excused(sighting'[s])
  <2>1. /\ ~overlapped /\ Event(w)' = Event(w)
        /\ \/ worker[w].pc = "create" /\ \A v \in Workers : ~CreateSighting(v)
           \/ OpenSightings(Event(w)) = {} /\ sighting' = sighting
    BY <1>1, RunsMove
  <2>2. CASE OpenSightings(Event(w)) = {} /\ sighting' = sighting
    <3>1. s \in DOMAIN sighting /\ sighting[s] \in Sighting
      BY <1>1, <2>2 DEF TelemetryInv, TypeOK
    <3>2. sighting[s].status \in Statuses
      BY <3>1 DEF Sighting
    <3>3. QED BY <1>1, <2>1, <2>2, <3>1, <3>2
             DEF OpenSightings, Unresolved, Statuses, Open, Resolved
  <2>3. CASE worker[w].pc = "create" /\ \A v \in Workers : ~CreateSighting(v)
    <3>1. CASE s \in DOMAIN sighting
      <4>1. Carries(sighting'[s], sighting[s])
        BY <3>1, RowsCarried
      <4>2. sighting[s].key = Event(w)
            /\ (Open(sighting[s]) \/ Excused(sighting'[s]))
            /\ (Excused(sighting[s]) => Excused(sighting'[s]))
        BY <1>1, <2>1, <4>1, CarriesKeeps
      <4>3. QED BY <2>1, <2>3, <3>1, <4>2 DEF SoloInv
    <3>2. CASE s \notin DOMAIN sighting
      BY <1>1, <2>3, <3>2, RowsCarried DEF Excused
    <3>3. QED BY <3>1, <3>2
  <2>4. QED BY <2>1, <2>2, <2>3
<1>2. \A v, w \in Workers : v # w => worker'[v].pc = "idle" \/ worker'[w].pc = "idle"
  BY RunsMove
<1>3. QED BY <1>1, <1>2 DEF SoloInv

LEMMA OneOpenStep ==
    ASSUME TelemetryInv, [Next]_vars, SoloInv, OneOpenSighting
    PROVE  OneOpenSighting'
<1>1. ASSUME NEW s \in DOMAIN sighting', NEW t \in DOMAIN sighting', s < t,
             sighting'[s].key = sighting'[t].key,
             Open(sighting'[s]), Open(sighting'[t]), ~overlapped'
      PROVE  Excused(sighting'[s]) \/ Excused(sighting'[t])
  <2>1. ~overlapped
    BY <1>1, RunsMove
  <2>2. /\ DOMAIN sighting = 1 .. Len(sighting) /\ Len(sighting) \in Nat
        /\ t \in DOMAIN sighting => s \in DOMAIN sighting
        /\ t \notin DOMAIN sighting => s \in DOMAIN sighting
    <3>1. /\ DOMAIN sighting = 1 .. Len(sighting) /\ Len(sighting) \in Nat
          /\ \A r \in DOMAIN sighting' : r \notin DOMAIN sighting => r = Len(sighting) + 1
      BY RowsCarried
    <3>2. QED BY <1>1, <3>1
  <2>3. Carries(sighting'[s], sighting[s])
    BY <2>2, RowsCarried
  <2>4. /\ sighting'[s].key = sighting[s].key
        /\ Excused(sighting[s]) => Excused(sighting'[s])
        /\ Open(sighting[s]) \/ Excused(sighting'[s])
    BY <1>1, <2>3, CarriesKeeps
  <2>5. CASE t \in DOMAIN sighting
    <3>1. Carries(sighting'[t], sighting[t])
      BY <2>5, RowsCarried
    <3>2. /\ sighting'[t].key = sighting[t].key
          /\ Excused(sighting[t]) => Excused(sighting'[t])
          /\ Open(sighting[t]) \/ Excused(sighting'[t])
      BY <1>1, <3>1, CarriesKeeps
    <3>3. CASE Open(sighting[s]) /\ Open(sighting[t])
      <4>1. Excused(sighting[s]) \/ Excused(sighting[t])
        BY <1>1, <2>1, <2>2, <2>4, <2>5, <3>2, <3>3 DEF OneOpenSighting, Open, Excused
      <4>2. QED BY <2>4, <3>2, <4>1
    <3>4. QED BY <2>4, <3>2, <3>3
  <2>6. CASE t \notin DOMAIN sighting
    <3>1. sighting'[t].byhand \/ \E w \in Workers : CreateSighting(w)
                                                     /\ sighting'[t].key = Event(w)
      BY <2>6, RowsCarried
    <3>2. ASSUME NEW w \in Workers, CreateSighting(w), sighting'[t].key = Event(w),
                 Open(sighting[s])
          PROVE  Excused(sighting[s])
      <4>1. worker[w].pc = "create"
        BY <3>2 DEF CreateSighting
      <4>2. QED BY <1>1, <2>1, <2>2, <2>4, <2>6, <3>2, <4>1 DEF SoloInv
    <3>3. QED BY <2>4, <3>1, <3>2 DEF Excused
  <2>7. QED BY <2>5, <2>6
<1>2. QED BY <1>1 DEF OneOpenSighting, Open, Excused

\* A key has one open sighting, whatever repeats: a second one takes two tasks at once
\* or a user (find_open_sighting_by_domain, record_repeat_sighting).
THEOREM OpenSightingsAreSingle == Spec => []OneOpenSighting
<1>1. Init => SoloInv /\ OneOpenSighting
  BY DEF Init, StartFrom, SoloInv, OneOpenSighting, IdleRun
<1>2. TelemetryInv /\ SoloInv /\ OneOpenSighting /\ [Next]_vars
         => SoloInv' /\ OneOpenSighting'
  BY SoloStep, OneOpenStep
<1>3. QED BY <1>1, <1>2, InductiveInvariant, PTL DEF Spec

-----------------------------------------------------------------------------
(* Sets that are counted                                                   *)

\* Two tallies are joined: what is new of the second comes on top of the first.
LEMMA TalliesJoined ==
    ASSUME NEW m, NEW f, NEW a \in Nat, NEW b \in Nat, IsFiniteSet(m), IsFiniteSet(f),
           Cardinality(m) <= a, Cardinality(f \ m) <= b
    PROVE  /\ IsFiniteSet(m \cup f) /\ Cardinality(m \cup f) <= a + b
           /\ Cardinality(m) = a /\ Cardinality(f \ m) = b => Cardinality(m \cup f) = a + b
<1>1. IsFiniteSet(f \ m) /\ m \cup f = m \cup (f \ m) /\ m \cap (f \ m) = {}
  BY FS_Difference
<1>2. /\ IsFiniteSet(m \cup (f \ m))
      /\ Cardinality(m \cup (f \ m))
            = Cardinality(m) + Cardinality(f \ m) - Cardinality(m \cap (f \ m))
  BY <1>1, FS_Union
<1>3. Cardinality(m \cap (f \ m)) = 0
  BY <1>1, FS_EmptySet
<1>4. Cardinality(m) \in Nat /\ Cardinality(f \ m) \in Nat
  BY <1>1, FS_CardinalityType
<1>5. IsFiniteSet(m \cup f) /\ Cardinality(m \cup f) = Cardinality(m) + Cardinality(f \ m)
  <2>1. \A x \in Nat : \A y \in Nat : x + y - 0 = x + y
    OBVIOUS
  <2>2. Cardinality(m \cup f) = Cardinality(m) + Cardinality(f \ m) - 0
    BY <1>1, <1>2, <1>3
  <2>3. QED BY <1>1, <1>2, <1>4, <2>1, <2>2
<1>6. \A x \in Nat : \A y \in Nat : x <= a /\ y <= b => x + y <= a + b
  OBVIOUS
<1>7. QED BY <1>4, <1>5, <1>6

\* A part of a finite set counts no more than the set.
LEMMA TallySmaller ==
    ASSUME NEW f, NEW g, IsFiniteSet(f), g \subseteq f
    PROVE  /\ IsFiniteSet(g) /\ Cardinality(g) \in Nat /\ Cardinality(f) \in Nat
           /\ Cardinality(g) <= Cardinality(f)
<1>1. IsFiniteSet(g) /\ Cardinality(g) <= Cardinality(f)
  BY FS_Subset
<1>2. QED BY <1>1, FS_CardinalityType

\* One member more counts one more, at most.
LEMMA TallyAdded ==
    ASSUME NEW f, NEW g, NEW x, IsFiniteSet(f), g \subseteq f \cup {x}
    PROVE  /\ IsFiniteSet(g) /\ Cardinality(g) \in Nat /\ Cardinality(f) \in Nat
           /\ Cardinality(g) <= Cardinality(f) + 1
           /\ g = f \cup {x} /\ x \notin f => Cardinality(g) = Cardinality(f) + 1
<1>1. /\ IsFiniteSet(f \cup {x}) /\ Cardinality(f) \in Nat
      /\ Cardinality(f \cup {x}) <= Cardinality(f) + 1
      /\ x \notin f => Cardinality(f \cup {x}) = Cardinality(f) + 1
  <2>1. /\ IsFiniteSet(f \cup {x})
        /\ Cardinality(f \cup {x}) = IF x \in f THEN Cardinality(f) ELSE Cardinality(f) + 1
    BY FS_AddElement
  <2>2. Cardinality(f) \in Nat
    BY FS_CardinalityType
  <2>3. QED BY <2>1, <2>2
<1>2. IsFiniteSet(g) /\ Cardinality(g) \in Nat /\ Cardinality(g) <= Cardinality(f \cup {x})
      /\ Cardinality(f \cup {x}) \in Nat
  BY <1>1, TallySmaller
<1>3. QED BY <1>1, <1>2

-----------------------------------------------------------------------------
(* What the sightings count                                                *)

\* What a run will have counted for a key once it commits what it has flushed, the
\* flagged events of the key that it has not committed, and the one among them that
\* is to be the first of a sighting.
Wanted(w, k) == UNION {{r.row} \X (First(r.row) .. r.count) :
                          r \in {q \in Flushed(w) : sighting[q.row].key = k}}

FlagsOf(w, k) == {i \in DOMAIN worker[w].log :
                     worker[w].log[i] = [key |-> k, flagged |-> TRUE]}

Owed(w, k) == IF worker[w].pc = "create" /\ Event(w) = k THEN 1 ELSE 0

\* m: all that has ever been counted for a key.  It is not more than was logged, and
\* each run adds no more to it than it logs.  Without two tasks at once it is what is
\* counted now, and the bounds are met.
Tallied(k, m) ==
    /\ IsFiniteSet(m) /\ Counted(k) \subseteq m
    /\ Cardinality(m) <= logged[k].flagged
    /\ \A w \in Workers :
           /\ IsFiniteSet(Wanted(w, k))
           /\ Cardinality(Wanted(w, k) \ m) + Owed(w, k) <= Cardinality(FlagsOf(w, k))
    /\ ~overlapped =>
           /\ m = Counted(k) /\ Cardinality(m) = logged[k].flagged
           /\ \A w \in Workers :
                 Cardinality(Wanted(w, k) \ m) + Owed(w, k) = Cardinality(FlagsOf(w, k))

\* Every key has such a tally.
CountsInv == \A k \in Keys : \E m : Tallied(k, m)

\* A run that is idle has nothing to flush; what it flushes are counts of sightings
\* there are, which only go up unless two tasks run at once.
Flushing(w) ==
    /\ worker[w].pc = "idle" => worker[w] = IdleRun
    /\ worker[w].dirty # {} => worker[w].pc = "event"
    /\ \A r \in worker[w].dirty \cup worker[w].held :
           r.row \in DOMAIN sighting /\ r.count >= 1
    /\ ~overlapped => \A r \in Flushed(w) : r.count >= sighting[r.row].count

\* Every sighting counts at least its first event, and every run flushes as it should.
FlushInv ==
    /\ \A s \in DOMAIN sighting : sighting[s].count >= 1
    /\ \A w \in Workers : Flushing(w)

\* What is counted, event by event.
LEMMA CountedMembers ==
    ASSUME NEW k, NEW x
    PROVE  x \in Counted(k) <=>
              \E s \in DOMAIN sighting : /\ sighting[s].key = k
                                         /\ \E n \in First(s) .. sighting[s].count : x = <<s, n>>
BY DEF Counted

\* The same of what a run wants counted.
LEMMA WantedMembers ==
    ASSUME NEW w, NEW k, NEW x
    PROVE  x \in Wanted(w, k) <=>
              \E r \in Flushed(w) : /\ sighting[r.row].key = k
                                    /\ \E n \in First(r.row) .. r.count : x = <<r.row, n>>
BY DEF Wanted

\* A run's uncommitted flagged events can be counted.
LEMMA FlagsFinite ==
    ASSUME TypeOK, NEW w \in Workers, NEW k
    PROVE  IsFiniteSet(FlagsOf(w, k)) /\ Cardinality(FlagsOf(w, k)) \in Nat
<1>1. DOMAIN worker[w].log = 1 .. Len(worker[w].log) /\ Len(worker[w].log) \in Nat
  BY DEF TypeOK, Run
<1>2. IsFiniteSet(DOMAIN worker[w].log)
  BY <1>1, FS_Interval
<1>3. QED BY <1>2, TallySmaller DEF FlagsOf

\* What a run has flushed is a count of a sighting there is.
LEMMA FlushedRows ==
    ASSUME FlushInv, NEW w \in Workers, NEW r \in Flushed(w)
    PROVE  r.row \in DOMAIN sighting /\ r.count >= 1
BY DEF FlushInv, Flushing, Flushed

\* What a run wants counted changes only with its flushes, and with the key and the
\* origin of a sighting, which no step changes.
LEMMA WantedKept ==
    ASSUME FlushInv, NEW w \in Workers,
           worker'[w].dirty = worker[w].dirty, worker'[w].held = worker[w].held,
           \A s \in DOMAIN sighting : sighting'[s].key = sighting[s].key
                                      /\ sighting'[s].byhand = sighting[s].byhand
    PROVE  Flushed(w)' = Flushed(w) /\ \A k : Wanted(w, k)' = Wanted(w, k)
<1>1. Flushed(w)' = Flushed(w)
  BY DEF Flushed
<1>2. ASSUME NEW r \in Flushed(w)
      PROVE  sighting'[r.row].key = sighting[r.row].key /\ First(r.row)' = First(r.row)
  BY FlushedRows DEF First
<1>3. ASSUME NEW k PROVE Wanted(w, k)' = Wanted(w, k)
  <2>1. \A x : x \in Wanted(w, k)' <=>
              \E r \in Flushed(w)' : /\ sighting'[r.row].key = k
                                     /\ \E n \in First(r.row)' .. r.count : x = <<r.row, n>>
    BY DEF Wanted
  <2>2. \A x : x \in Wanted(w, k)' <=> x \in Wanted(w, k)
    BY <1>1, <1>2, <2>1, WantedMembers
  <2>3. QED BY <2>2
<1>4. QED BY <1>1, <1>3

\* A run that goes on without a flush or a repeat, and one that is over or begins.
GoesOn(w) ==
    /\ worker'[w].dirty = worker[w].dirty /\ worker'[w].held = worker[w].held
    /\ worker'[w].log = worker[w].log
    /\ worker'[w].pc = "idle" => worker'[w] = worker[w]
    /\ worker[w].dirty # {} => worker'[w].pc = "event"
    /\ \A k : Owed(w, k)' = Owed(w, k)

Cleared(w) ==
    /\ worker'[w].dirty = {} /\ worker'[w].held = {} /\ worker'[w].log = <<>>
    /\ worker'[w].pc = "idle" => worker'[w] = IdleRun
    /\ worker'[w].pc # "create"

\* A run that has cleared its session wants nothing counted.
LEMMA ClearedWants ==
    ASSUME NEW w, Cleared(w)
    PROVE  \A k : /\ Wanted(w, k)' = {} /\ Owed(w, k)' = 0 /\ FlagsOf(w, k)' = {}
                  /\ Flushed(w)' = {}
BY DEF Cleared, Wanted, Owed, FlagsOf, Flushed

\* Nothing is nothing, whatever is taken away.
LEMMA EmptyTally ==
    ASSUME NEW m
    PROVE  IsFiniteSet({}) /\ Cardinality({} \ m) = 0 /\ Cardinality({}) = 0
<1>1. {} \ m = {}
  OBVIOUS
<1>2. QED BY <1>1, FS_EmptySet

\* A step that leaves a run's flushes alone, or clears them, keeps them in order.
LEMMA RunFlushes ==
    ASSUME FlushInv, NEW w \in Workers, GoesOn(w) \/ Cleared(w),
           \A s \in DOMAIN sighting :
              s \in DOMAIN sighting' /\ sighting'[s].key = sighting[s].key
              /\ sighting'[s].byhand = sighting[s].byhand,
           ~overlapped' => ~overlapped,
           ~overlapped' => (\A r \in Flushed(w) : sighting'[r.row].count = sighting[r.row].count)
                           \/ Cleared(w)
    PROVE  Flushing(w)'
<1>1. CASE GoesOn(w)
  <2>1. Flushed(w)' = Flushed(w)
    BY <1>1, WantedKept DEF GoesOn
  <2>2. Flushing(w)
    BY DEF FlushInv
  <2>3. worker'[w].pc = "idle" => worker'[w] = IdleRun
    BY <1>1, <2>2 DEF GoesOn, Flushing
  <2>4. worker'[w].dirty # {} => worker'[w].pc = "event"
    BY <1>1 DEF GoesOn
  <2>5. \A r \in worker'[w].dirty \cup worker'[w].held :
           r.row \in DOMAIN sighting' /\ r.count >= 1
    BY <1>1, <2>2 DEF GoesOn, Flushing
  <2>6. ~overlapped' => \A r \in Flushed(w)' : r.count >= sighting'[r.row].count
    BY <2>1, <2>2, ClearedWants DEF Flushing
  <2>7. QED BY <2>3, <2>4, <2>5, <2>6 DEF Flushing
<1>2. CASE Cleared(w)
  BY <1>2, ClearedWants DEF Flushing, Cleared
<1>3. QED BY <1>1, <1>2

\* A step that writes no count and logs nothing.
LEMMA NothingCounted ==
    ASSUME TypeOK, FlushInv, CountsInv, logged' = logged,
           ~overlapped' => ~overlapped,
           \A s \in DOMAIN sighting :
              /\ s \in DOMAIN sighting' /\ sighting'[s].key = sighting[s].key
              /\ sighting'[s].byhand = sighting[s].byhand
              /\ sighting'[s].count = sighting[s].count,
           \A s \in DOMAIN sighting' \ DOMAIN sighting :
              sighting'[s].byhand /\ sighting'[s].count = 1,
           \A w \in Workers : GoesOn(w) \/ Cleared(w)
    PROVE  FlushInv' /\ CountsInv'
<1>1. FlushInv'
  <2>1. \A s \in DOMAIN sighting' : sighting'[s].count >= 1
    <3>1. ASSUME NEW s \in DOMAIN sighting' PROVE sighting'[s].count >= 1
      <4>1. CASE s \in DOMAIN sighting
        BY <4>1 DEF FlushInv
      <4>2. CASE s \notin DOMAIN sighting
        BY <4>2
      <4>3. QED BY <4>1, <4>2
    <3>2. QED BY <3>1
  <2>2. ASSUME NEW w \in Workers PROVE Flushing(w)'
    BY FlushedRows, RunFlushes
  <2>3. QED BY <2>1, <2>2 DEF FlushInv
<1>2. ASSUME NEW k PROVE Counted(k)' = Counted(k)
  <2>1. \A x : x \in Counted(k)' <=>
              \E s \in DOMAIN sighting' :
                 /\ sighting'[s].key = k
                 /\ \E n \in First(s)' .. sighting'[s].count : x = <<s, n>>
    BY DEF Counted
  <2>2. \A s \in DOMAIN sighting : First(s)' = First(s)
    BY DEF First
  <2>3. \A s \in DOMAIN sighting' \ DOMAIN sighting :
           First(s)' = 2 /\ sighting'[s].count = 1 /\ (2 .. 1) = {}
    BY DEF First
  <2>4. \A x : x \in Counted(k)' <=> x \in Counted(k)
    BY <2>1, <2>2, <2>3, CountedMembers
  <2>5. QED BY <2>4
<1>3. ASSUME NEW k \in Keys, NEW m, Tallied(k, m) PROVE Tallied(k, m)'
  <2>1. ASSUME NEW w \in Workers
        PROVE  \/ /\ Wanted(w, k)' = Wanted(w, k) /\ Owed(w, k)' = Owed(w, k)
                  /\ FlagsOf(w, k)' = FlagsOf(w, k)
               \/ Wanted(w, k)' = {} /\ Owed(w, k)' = 0 /\ FlagsOf(w, k)' = {}
    <3>1. CASE GoesOn(w)
      BY <3>1, WantedKept DEF GoesOn, FlagsOf
    <3>2. CASE Cleared(w)
      BY <3>2, ClearedWants
    <3>3. QED BY <3>1, <3>2
  <2>2. IsFiniteSet({}) /\ Cardinality({} \ m) = 0 /\ Cardinality({}) = 0
    BY EmptyTally
  <2>3. ASSUME NEW w \in Workers
        PROVE  /\ IsFiniteSet(Wanted(w, k)')
               /\ Cardinality(Wanted(w, k)' \ m) + Owed(w, k)' <= Cardinality(FlagsOf(w, k)')
               /\ ~overlapped' => Cardinality(Wanted(w, k)' \ m) + Owed(w, k)'
                                     = Cardinality(FlagsOf(w, k)')
    <3>1. CASE /\ Wanted(w, k)' = Wanted(w, k) /\ Owed(w, k)' = Owed(w, k)
               /\ FlagsOf(w, k)' = FlagsOf(w, k)
      <4>1. /\ IsFiniteSet(Wanted(w, k))
            /\ Cardinality(Wanted(w, k) \ m) + Owed(w, k) <= Cardinality(FlagsOf(w, k))
            /\ ~overlapped => Cardinality(Wanted(w, k) \ m) + Owed(w, k)
                                 = Cardinality(FlagsOf(w, k))
        BY <1>3, Zenon DEF Tallied
      <4>2. QED BY <3>1, <4>1, Zenon
    <3>2. CASE Wanted(w, k)' = {} /\ Owed(w, k)' = 0 /\ FlagsOf(w, k)' = {}
      BY <2>2, <3>2
    <3>3. QED BY <2>1, <3>1, <3>2
  <2>5. QED BY <1>2, <1>3, <2>3 DEF Tallied
<1>4. CountsInv'
  <2>1. ASSUME NEW k \in Keys PROVE \E m : Tallied(k, m)'
    <3>1. PICK m : Tallied(k, m)
      BY DEF CountsInv
    <3>2. QED BY <1>3, <3>1
  <2>2. QED BY <2>1 DEF CountsInv
<1>5. QED BY <1>1, <1>4

\* A run that handles an event: what it adds to what it wants counted of a key is
\* one event that it logs, or none.
Repeats(w, k, x) ==
    /\ Wanted(w, k)' \subseteq Wanted(w, k) \cup Counted(k) \cup {x}
    /\ ~overlapped => /\ Wanted(w, k)' \ Counted(k) = (Wanted(w, k) \ Counted(k)) \cup {x}
                      /\ x \notin Wanted(w, k)

\* A run handles an event: it logs it and is to create its sighting, or repeats one.
Adds(w, k) ==
    \/ /\ Wanted(w, k)' = Wanted(w, k)
       /\ Cardinality(FlagsOf(w, k)') = Cardinality(FlagsOf(w, k)) + Owed(w, k)'
    \/ /\ \E x : Repeats(w, k, x)
       /\ Owed(w, k)' = 0
       /\ Cardinality(FlagsOf(w, k)') = Cardinality(FlagsOf(w, k)) + 1

\* A run that adds to each key in one of these ways keeps every tally.
LEMMA RunCounts ==
    ASSUME TypeOK, FlushInv, CountsInv, NEW w \in Workers, NEW run,
           worker' = [worker EXCEPT ![w] = run],
           UNCHANGED <<task, sighting, logged, overlapped>>,
           Flushing(w)', \A k \in Keys : Owed(w, k) = 0 /\ Adds(w, k)
    PROVE  FlushInv' /\ CountsInv'
<1>1. \A v \in Workers \ {w} : worker'[v] = worker[v]
  BY DEF TypeOK
<1>2. ASSUME NEW v \in Workers \ {w}
      PROVE  /\ Flushing(v)'
             /\ \A k : /\ Wanted(v, k)' = Wanted(v, k) /\ Owed(v, k)' = Owed(v, k)
                       /\ FlagsOf(v, k)' = FlagsOf(v, k)
  <2>1. Flushed(v)' = Flushed(v) /\ \A k : Wanted(v, k)' = Wanted(v, k)
    BY <1>1, WantedKept
  <2>2. \A k : Owed(v, k)' = Owed(v, k) /\ FlagsOf(v, k)' = FlagsOf(v, k)
    BY <1>1 DEF Owed, FlagsOf, Event
  <2>3. Flushing(v)'
    BY <1>1, <2>1 DEF Flushing, FlushInv
  <2>4. QED BY <2>1, <2>2, <2>3
<1>3. FlushInv'
  BY <1>2 DEF FlushInv
<1>4. \A k : Counted(k)' = Counted(k)
  BY DEF Counted, First
<1>5. ASSUME NEW k \in Keys, NEW m, Tallied(k, m) PROVE Tallied(k, m)'
  <2>1. /\ IsFiniteSet(m) /\ Counted(k) \subseteq m /\ IsFiniteSet(Wanted(w, k))
        /\ Cardinality(Wanted(w, k) \ m) <= Cardinality(FlagsOf(w, k))
        /\ ~overlapped => /\ m = Counted(k)
                          /\ Cardinality(Wanted(w, k) \ m) = Cardinality(FlagsOf(w, k))
    <3>1. Owed(w, k) = 0 /\ Cardinality(FlagsOf(w, k)) \in Nat
      BY FlagsFinite
    <3>2. IsFiniteSet(Wanted(w, k)) /\ IsFiniteSet(Wanted(w, k) \ m)
      BY <1>5, FS_Difference DEF Tallied
    <3>3. Cardinality(Wanted(w, k) \ m) \in Nat
      BY <3>2, FS_CardinalityType
    <3>4. QED BY <1>5, <3>1, <3>2, <3>3 DEF Tallied
  <2>2. /\ IsFiniteSet(Wanted(w, k)')
        /\ Cardinality(Wanted(w, k)' \ m) + Owed(w, k)' <= Cardinality(FlagsOf(w, k)')
        /\ ~overlapped => Cardinality(Wanted(w, k)' \ m) + Owed(w, k)'
                             = Cardinality(FlagsOf(w, k)')
    <3>0. /\ IsFiniteSet(Wanted(w, k) \ m) /\ Cardinality(Wanted(w, k) \ m) \in Nat
          /\ Cardinality(FlagsOf(w, k)) \in Nat
      BY <2>1, FS_Difference, FS_CardinalityType, FlagsFinite
    <3>1. CASE /\ Wanted(w, k)' = Wanted(w, k)
               /\ Cardinality(FlagsOf(w, k)') = Cardinality(FlagsOf(w, k)) + Owed(w, k)'
      <4>1. Owed(w, k)' \in Nat
        BY DEF Owed
      <4>2. PICK c, f, d : /\ c = Cardinality(Wanted(w, k) \ m)
                           /\ f = Cardinality(FlagsOf(w, k)) /\ d = Owed(w, k)'
        OBVIOUS
      <4>3. c + d <= f + d /\ (~overlapped => c + d = f + d)
        BY <2>1, <3>0, <4>1, <4>2
      <4>4. QED BY <2>1, <3>1, <4>2, <4>3, Zenon
    <3>2. ASSUME NEW x, Repeats(w, k, x), Owed(w, k)' = 0,
                 Cardinality(FlagsOf(w, k)') = Cardinality(FlagsOf(w, k)) + 1
          PROVE  /\ IsFiniteSet(Wanted(w, k)')
                 /\ Cardinality(Wanted(w, k)' \ m) + Owed(w, k)' <= Cardinality(FlagsOf(w, k)')
                 /\ ~overlapped => Cardinality(Wanted(w, k)' \ m) + Owed(w, k)'
                                      = Cardinality(FlagsOf(w, k)')
      <4>1. PICK u : u = Wanted(w, k)'
        OBVIOUS
      <4>2. IsFiniteSet(u)
        <5>1. IsFiniteSet(Wanted(w, k) \cup m)
          BY <2>1, FS_Union
        <5>2. u \subseteq (Wanted(w, k) \cup m) \cup {x}
          BY <2>1, <3>2, <4>1 DEF Repeats
        <5>3. QED BY <5>1, <5>2, TallyAdded
      <4>3. u \ m \subseteq (Wanted(w, k) \ m) \cup {x}
        BY <2>1, <3>2, <4>1 DEF Repeats
      <4>4. ~overlapped => u \ m = (Wanted(w, k) \ m) \cup {x} /\ x \notin Wanted(w, k) \ m
        BY <2>1, <3>2, <4>1 DEF Repeats
      <4>5. /\ Cardinality(u \ m) \in Nat
            /\ Cardinality(u \ m) <= Cardinality(Wanted(w, k) \ m) + 1
            /\ ~overlapped => Cardinality(u \ m) = Cardinality(Wanted(w, k) \ m) + 1
        BY <3>0, <4>3, <4>4, TallyAdded
      <4>6. PICK c, f, d : /\ c = Cardinality(Wanted(w, k) \ m)
                           /\ f = Cardinality(FlagsOf(w, k)) /\ d = Cardinality(u \ m)
        OBVIOUS
      <4>7. d + 0 <= f + 1 /\ (~overlapped => d + 0 = f + 1)
        BY <2>1, <3>0, <4>5, <4>6
      <4>8. QED BY <3>2, <4>1, <4>2, <4>6, <4>7, Zenon
    <3>3. QED BY <3>1, <3>2 DEF Adds
  <2>3. ASSUME NEW v \in Workers
        PROVE  /\ IsFiniteSet(Wanted(v, k)')
               /\ Cardinality(Wanted(v, k)' \ m) + Owed(v, k)' <= Cardinality(FlagsOf(v, k)')
               /\ ~overlapped => Cardinality(Wanted(v, k)' \ m) + Owed(v, k)'
                                    = Cardinality(FlagsOf(v, k)')
    <3>1. CASE v = w
      BY <2>2, <3>1, Zenon
    <3>2. CASE v # w
      <4>1. /\ Wanted(v, k)' = Wanted(v, k) /\ Owed(v, k)' = Owed(v, k)
            /\ FlagsOf(v, k)' = FlagsOf(v, k)
        BY <1>2, <3>2
      <4>2. /\ IsFiniteSet(Wanted(v, k))
            /\ Cardinality(Wanted(v, k) \ m) + Owed(v, k) <= Cardinality(FlagsOf(v, k))
            /\ ~overlapped => Cardinality(Wanted(v, k) \ m) + Owed(v, k)
                                 = Cardinality(FlagsOf(v, k))
        BY <1>5, Zenon DEF Tallied
      <4>3. QED BY <4>1, <4>2, Zenon
    <3>3. QED BY <3>1, <3>2
  <2>4. QED BY <1>4, <1>5, <2>3 DEF Tallied
<1>6. CountsInv'
  <2>1. ASSUME NEW k \in Keys PROVE \E m : Tallied(k, m)'
    <3>1. PICK m : Tallied(k, m)
      BY DEF CountsInv
    <3>2. QED BY <1>5, <3>1
  <2>2. QED BY <2>1 DEF CountsInv
<1>7. QED BY <1>3, <1>6

\* An event that is logged is one more flagged event of its key, if it is flagged.
LEMMA EventLogged ==
    ASSUME TelemetryInv, NEW w \in Workers, worker[w].pc # "idle", ~Exhausted(w),
           NEW flagged \in BOOLEAN,
           worker'[w].log = Append(worker[w].log, [key |-> Event(w), flagged |-> flagged])
    PROVE  \A k : Cardinality(FlagsOf(w, k)')
                     = Cardinality(FlagsOf(w, k)) + IF flagged /\ k = Event(w) THEN 1 ELSE 0
<1>1. PICK log : log = worker[w].log
  OBVIOUS
<1>2. log \in Seq([key : Keys, flagged : BOOLEAN]) /\ Len(log) \in Nat /\ Event(w) \in Keys
  <2>1. worker[w] \in Run /\ Event(w) \in Keys
    BY EventTypes DEF TelemetryInv, TypeOK
  <2>2. QED BY <1>1, <2>1 DEF Run
<1>3. PICK e \in [key : Keys, flagged : BOOLEAN] :
         e = [key |-> Event(w), flagged |-> flagged]
  BY <1>2
<1>4. /\ worker'[w].log = Append(log, e)
      /\ DOMAIN log = 1 .. Len(log) /\ DOMAIN Append(log, e) = 1 .. Len(log) + 1
      /\ \A i \in 1 .. Len(log) : Append(log, e)[i] = log[i]
      /\ Append(log, e)[Len(log) + 1] = e
  BY <1>1, <1>2, <1>3
<1>5. /\ (1 .. Len(log) + 1) = (1 .. Len(log)) \cup {Len(log) + 1}
      /\ Len(log) + 1 \notin 1 .. Len(log)
  BY <1>2
<1>6. ASSUME NEW k
      PROVE  Cardinality(FlagsOf(w, k)')
                = Cardinality(FlagsOf(w, k)) + IF flagged /\ k = Event(w) THEN 1 ELSE 0
  <2>1. FlagsOf(w, k)' = {i \in DOMAIN Append(log, e) :
                             Append(log, e)[i] = [key |-> k, flagged |-> TRUE]}
        /\ FlagsOf(w, k) = {i \in DOMAIN log : log[i] = [key |-> k, flagged |-> TRUE]}
    BY <1>1, <1>4 DEF FlagsOf
  <2>2. e = [key |-> k, flagged |-> TRUE] <=> flagged /\ k = Event(w)
    BY <1>3
  <2>3. IsFiniteSet(FlagsOf(w, k)) /\ Cardinality(FlagsOf(w, k)) \in Nat
    BY FlagsFinite DEF TelemetryInv
  <2>4. CASE flagged /\ k = Event(w)
    <3>1. /\ FlagsOf(w, k)' = FlagsOf(w, k) \cup {Len(log) + 1}
          /\ Len(log) + 1 \notin FlagsOf(w, k)
      BY <1>4, <1>5, <2>1, <2>2, <2>4
    <3>2. QED BY <2>3, <2>4, <3>1, TallyAdded
  <2>5. CASE ~(flagged /\ k = Event(w))
    <3>1. FlagsOf(w, k)' = FlagsOf(w, k)
      BY <1>4, <1>5, <2>1, <2>2, <2>5
    <3>2. QED BY <2>3, <2>5, <3>1
  <2>6. QED BY <2>4, <2>5
<1>7. QED BY <1>6

\* A repeat counts one more than its run has flushed for the row, or the row has.
LEMMA RepeatCounts ==
    ASSUME TypeOK, NEW s \in DOMAIN sighting, NEW flushed, flushed \subseteq Repeat,
           OncePerRow(flushed)
    PROVE  LET r == RepeatOf(s, flushed) IN
           /\ r.row = s
           /\ \/ \E q \in flushed : q.row = s /\ q.count \in Nat /\ r.count = q.count + 1
              \/ /\ \A q \in flushed : q.row # s
                 /\ sighting[s].count \in Nat /\ r.count = sighting[s].count + 1
<1> DEFINE own == {r.count : r \in {q \in flushed : q.row = s}}
<1>1. sighting[s].count \in Nat
  <2>1. sighting[s] \in Sighting
    BY DEF TypeOK
  <2>2. QED BY <2>1 DEF Sighting
<1>2. PICK n : n = 1 + (IF own = {} THEN sighting[s].count ELSE Max(own))
  OBVIOUS
<1>3. RepeatOf(s, flushed) = [row |-> s, count |-> n]
  BY <1>2 DEF RepeatOf
<1>4. ASSUME NEW q \in flushed, q.row = s PROVE q.count \in Nat /\ n = q.count + 1
  <2>1. q.count \in Nat
    BY DEF Repeat
  <2>2. own = {q.count}
    BY <1>4 DEF OncePerRow
  <2>3. Max({q.count}) = q.count
    BY <2>1 DEF Max
  <2>4. n = 1 + Max(own)
    BY <1>2, <2>2
  <2>5. QED BY <2>1, <2>2, <2>3, <2>4
<1>5. ASSUME \A q \in flushed : q.row # s PROVE n = sighting[s].count + 1
  <2>1. own = {}
    BY <1>5
  <2>2. QED BY <1>1, <1>2, <2>1
<1> HIDE DEF own
<1>6. QED BY <1>1, <1>3, <1>4, <1>5

\* The repeat of a sighting takes the place of what its run has flushed for the row.
LEMMA RepeatWanted ==
    ASSUME TelemetryInv, FlushInv, NEW w \in Workers, NEW s \in DOMAIN sighting,
           worker'[w].dirty = {RepeatOf(s, Flushed(w))}, worker'[w].held = Flushed(w),
           worker'[w].pc = "event", UNCHANGED <<sighting, overlapped>>
    PROVE  /\ Flushing(w)'
           /\ \A k : k # sighting[s].key => Wanted(w, k)' = Wanted(w, k)
           /\ \E x : Repeats(w, sighting[s].key, x)
<1>1. /\ Flushed(w) \subseteq Repeat /\ OncePerRow(Flushed(w)) /\ TypeOK
      /\ \A r \in Flushed(w) : r.row \in DOMAIN sighting /\ r.count >= 1
      /\ s \in Nat /\ sighting[s] \in Sighting /\ sighting[s].count \in Nat
      /\ sighting[s].count >= 1
  <2>1. s \in Nat /\ sighting[s] \in Sighting /\ TypeOK
    BY DEF TelemetryInv, TypeOK
  <2>2. sighting[s].count \in Nat /\ sighting[s].count >= 1
    BY <2>1 DEF Sighting, FlushInv
  <2>3. Flushed(w) \subseteq Repeat /\ OncePerRow(Flushed(w))
    BY FlushedOnce DEF TelemetryInv, RunsInv, Working
  <2>4. QED BY <2>1, <2>2, <2>3, FlushedRows
<1>2. PICK r : r = RepeatOf(s, Flushed(w))
  OBVIOUS
<1>3. /\ r.row = s
      /\ \/ \E q \in Flushed(w) : q.row = s /\ q.count \in Nat /\ r.count = q.count + 1
         \/ (\A q \in Flushed(w) : q.row # s) /\ r.count = sighting[s].count + 1
  BY <1>1, <1>2, RepeatCounts
<1>4. Flushed(w)' = {r} \cup {q \in Flushed(w) : q.row # s}
  BY <1>2, <1>3 DEF Flushed
<1>5. ~overlapped => \A q \in Flushed(w) : q.count >= sighting[q.row].count
  BY DEF FlushInv, Flushing
<1>6. r.count \in Nat /\ r.count >= 1 /\ (~overlapped => r.count > sighting[s].count)
  BY <1>1, <1>3, <1>5
<1>7. Flushing(w)'
  <2>1. worker'[w].dirty \cup worker'[w].held = {r} \cup Flushed(w)
    BY <1>2
  <2>2. \A q \in worker'[w].dirty \cup worker'[w].held :
           q.row \in DOMAIN sighting' /\ q.count >= 1
    BY <1>1, <1>3, <1>6, <2>1
  <2>3. ~overlapped' => \A q \in Flushed(w)' : q.count >= sighting'[q.row].count
    BY <1>1, <1>3, <1>4, <1>5, <1>6
  <2>4. QED BY <2>2, <2>3 DEF Flushing
<1>8. \A k, x : x \in Wanted(w, k)' <=>
         \E q \in Flushed(w)' : /\ sighting[q.row].key = k
                                /\ \E n \in First(q.row) .. q.count : x = <<q.row, n>>
  BY DEF Wanted, First
<1>9. ASSUME NEW k, k # sighting[s].key PROVE Wanted(w, k)' = Wanted(w, k)
  <2>1. \A x : x \in Wanted(w, k)' <=> x \in Wanted(w, k)
    BY <1>3, <1>4, <1>8, <1>9, WantedMembers
  <2>2. QED BY <2>1
<1> DEFINE k == sighting[s].key
<1>10. First(s) \in {1, 2} /\ (First(s) = 2 <=> sighting[s].byhand)
  BY DEF First
<1>11. ASSUME NEW x, x \in Wanted(w, k)'
       PROVE  x \in Wanted(w, k) \cup Counted(k) \cup {<<s, r.count>>}
  <2>1. PICK q \in Flushed(w)' : /\ sighting[q.row].key = k
                                 /\ \E n \in First(q.row) .. q.count : x = <<q.row, n>>
    BY <1>8, <1>11
  <2> PICK n \in First(q.row) .. q.count : x = <<q.row, n>>
    BY <2>1
  <2>2. CASE q # r
    BY <1>4, <2>1, <2>2, WantedMembers
  <2>3. CASE q = r
    <3>1. n \in First(s) .. r.count /\ x = <<s, n>> /\ n \in Int
      BY <1>3, <1>6, <1>10, <2>1, <2>3
    <3>2. CASE n = r.count
      BY <3>1, <3>2
    <3>3. ASSUME n # r.count, NEW p \in Flushed(w), p.row = s, p.count \in Nat,
                 r.count = p.count + 1
          PROVE  x \in Wanted(w, k)
      <4>1. n \in First(p.row) .. p.count /\ x = <<p.row, n>>
        BY <1>10, <3>1, <3>3
      <4>2. QED BY <3>3, <4>1, WantedMembers
    <3>4. ASSUME n # r.count, r.count = sighting[s].count + 1 PROVE x \in Counted(k)
      <4>1. n \in First(s) .. sighting[s].count
        BY <1>1, <1>10, <3>1, <3>4
      <4>2. QED BY <3>1, <4>1, CountedMembers
    <3>5. QED BY <1>3, <3>2, <3>3, <3>4
  <2>4. QED BY <2>2, <2>3
<1>12. ASSUME ~overlapped
       PROVE  /\ Wanted(w, k) \subseteq Wanted(w, k)' /\ <<s, r.count>> \in Wanted(w, k)'
              /\ <<s, r.count>> \notin Wanted(w, k) \cup Counted(k)
  <2>1. ASSUME NEW x \in Wanted(w, k) PROVE x \in Wanted(w, k)'
    <3>1. PICK q \in Flushed(w) : /\ sighting[q.row].key = k
                                  /\ \E n \in First(q.row) .. q.count : x = <<q.row, n>>
      BY WantedMembers
    <3> PICK n \in First(q.row) .. q.count : x = <<q.row, n>>
      BY <3>1
    <3>2. CASE q.row # s
      BY <1>4, <1>8, <3>1, <3>2
    <3>3. CASE q.row = s
      <4>1. r.count = q.count + 1 /\ q.count \in Nat
        BY <1>1, <1>3, <3>3 DEF OncePerRow
      <4>2. n \in First(s) .. r.count /\ x = <<r.row, n>>
        BY <1>3, <1>10, <3>1, <3>3, <4>1
      <4>3. r \in Flushed(w)'
        BY <1>4
      <4>4. QED BY <1>3, <1>8, <4>2, <4>3
    <3>4. QED BY <3>2, <3>3
  <2>2. <<s, r.count>> \in Wanted(w, k)'
    <3>1. r.count \in First(s) .. r.count
      BY <1>1, <1>6, <1>10, <1>12
    <3>2. QED BY <1>3, <1>4, <1>8, <3>1
  <2>3. <<s, r.count>> \notin Counted(k)
    <3>1. r.count \notin First(s) .. sighting[s].count
      BY <1>1, <1>6, <1>10, <1>12
    <3>2. QED BY <3>1, CountedMembers
  <2>4. <<s, r.count>> \notin Wanted(w, k)
    <3>1. ASSUME NEW q \in Flushed(w), q.row = s PROVE r.count \notin First(s) .. q.count
      <4>1. r.count = q.count + 1 /\ q.count \in Nat
        BY <1>1, <1>3, <3>1 DEF OncePerRow
      <4>2. QED BY <1>10, <4>1
    <3>2. QED BY <3>1, WantedMembers
  <2>5. QED BY <2>1, <2>2, <2>3, <2>4
<1>13. Repeats(w, k, <<s, r.count>>)
  BY <1>11, <1>12 DEF Repeats
<1>14. QED BY <1>7, <1>9, <1>13

\* A run that handles an event counts it once it has logged it.
LEMMA HandleCounts ==
    ASSUME TelemetryInv, FlushInv, CountsInv, NEW w \in Workers,
           HandleDomainVisit(w) \/ HandleLocalSignal(w)
    PROVE  FlushInv' /\ CountsInv'
<1>0. /\ worker[w].pc = "event" /\ ~Exhausted(w) /\ TypeOK
      /\ worker[w] \in Run /\ worker \in [Workers -> Run]
      /\ \A k : Owed(w, k) = 0
  BY DEF HandleDomainVisit, HandleLocalSignal, TelemetryInv, TypeOK, Owed
<1>1. ASSUME NEW run, Handles(w, run)
      PROVE  /\ worker' = [worker EXCEPT ![w] = run] /\ worker'[w] = run
             /\ UNCHANGED <<task, sighting, logged, overlapped>>
  BY <1>0, <1>1 DEF Handles, storing
<1>2. ASSUME NEW flagged \in BOOLEAN
      PROVE  LET next == Logged(w, flagged) IN
             /\ next \in Run /\ next.pc = "event" /\ next.batch = worker[w].batch
             /\ next.at = worker[w].at /\ next.dirty = {} /\ next.held = Flushed(w)
             /\ next.log = Append(worker[w].log, [key |-> Event(w), flagged |-> flagged])
  <2>1. Logged(w, flagged).log = Append(worker[w].log, [key |-> Event(w), flagged |-> flagged])
    BY <1>0 DEF Logged, Run
  <2>2. QED BY <1>0, <2>1, LoggedTypes
<1>3. ASSUME NEW flagged \in BOOLEAN, NEW run, Handles(w, run),
             run.log = Append(worker[w].log, [key |-> Event(w), flagged |-> flagged]),
             run.held = Flushed(w), run.dirty = {}, run.batch = worker[w].batch,
             \/ run.pc = "event" /\ ~flagged
             \/ run.pc = "create" /\ run.at = worker[w].at /\ flagged
      PROVE  FlushInv' /\ CountsInv'
  <2>1. /\ worker' = [worker EXCEPT ![w] = run] /\ worker'[w] = run
        /\ UNCHANGED <<task, sighting, logged, overlapped>>
    BY <1>1, <1>3
  <2>2. Flushed(w)' = Flushed(w)
    BY <1>3, <2>1 DEF Flushed
  <2>3. \A k : Wanted(w, k)' = Wanted(w, k)
    BY <2>1, <2>2 DEF Wanted, First
  <2>4. Flushing(w)'
    <3>1. \A r \in Flushed(w) : r.row \in DOMAIN sighting /\ r.count >= 1
      BY FlushedRows
    <3>2. ~overlapped => \A r \in Flushed(w) : r.count >= sighting[r.row].count
      BY DEF FlushInv, Flushing
    <3>3. QED BY <1>3, <2>1, <2>2, <3>1, <3>2 DEF Flushing
  <2>5. \A k : Owed(w, k)' = IF flagged /\ k = Event(w) THEN 1 ELSE 0
    <3>1. run.pc = "create" => Event(w)' = Event(w)
      BY <1>3, <2>1 DEF Event
    <3>2. QED BY <1>3, <2>1, <3>1 DEF Owed
  <2>6. worker[w].pc # "idle"
        /\ worker'[w].log = Append(worker[w].log, [key |-> Event(w), flagged |-> flagged])
    BY <1>0, <1>3, <2>1
  <2>7. \A k : Cardinality(FlagsOf(w, k)') = Cardinality(FlagsOf(w, k)) + Owed(w, k)'
    BY <1>0, <2>5, <2>6, EventLogged
  <2>8. QED BY <1>0, <2>1, <2>3, <2>4, <2>7, RunCounts DEF Adds
<1>4. ASSUME NEW s \in OpenSightings(Event(w)), NEW run, Handles(w, run),
             run.log = Append(worker[w].log, [key |-> Event(w), flagged |-> TRUE]),
             run.held = Flushed(w), run.dirty = {RepeatOf(s, Flushed(w))}, run.pc = "event"
      PROVE  FlushInv' /\ CountsInv'
  <2>1. /\ worker' = [worker EXCEPT ![w] = run] /\ worker'[w] = run
        /\ UNCHANGED <<task, sighting, logged, overlapped>>
    BY <1>1, <1>4
  <2>2. s \in DOMAIN sighting /\ sighting[s].key = Event(w)
    BY DEF OpenSightings
  <2>3. /\ Flushing(w)'
        /\ \A k : k # Event(w) => Wanted(w, k)' = Wanted(w, k)
        /\ \E x : Repeats(w, Event(w), x)
    BY <1>4, <2>1, <2>2, RepeatWanted
  <2>4. \A k : Owed(w, k)' = 0
    BY <1>4, <2>1 DEF Owed
  <2>5. \A k : Cardinality(FlagsOf(w, k)')
                  = Cardinality(FlagsOf(w, k)) + IF k = Event(w) THEN 1 ELSE 0
    <3>1. worker[w].pc # "idle" /\ TRUE \in BOOLEAN
          /\ worker'[w].log = Append(worker[w].log, [key |-> Event(w), flagged |-> TRUE])
      BY <1>0, <1>4, <2>1
    <3>2. QED BY <1>0, <3>1, EventLogged
  <2>6. \A k \in Keys : Adds(w, k)
    BY <2>3, <2>4, <2>5 DEF Adds
  <2>7. QED BY <1>0, <2>1, <2>3, <2>6, RunCounts
<1>5. ASSUME Flag(w) PROVE FlushInv' /\ CountsInv'
  <2>1. PICK next : next = Logged(w, TRUE)
    OBVIOUS
  <2>2. /\ next \in Run /\ next.pc = "event" /\ next.batch = worker[w].batch
        /\ next.at = worker[w].at /\ next.dirty = {} /\ next.held = Flushed(w)
        /\ next.log = Append(worker[w].log, [key |-> Event(w), flagged |-> TRUE])
    BY <1>2, <2>1
  <2>3. ASSUME NEW s \in OpenSightings(Event(w)),
               Handles(w, [next EXCEPT !.at = @ + 1, !.dirty = {RepeatOf(s, Flushed(w))}])
        PROVE  FlushInv' /\ CountsInv'
    <3>1. PICK run : run = [next EXCEPT !.at = @ + 1, !.dirty = {RepeatOf(s, Flushed(w))}]
      OBVIOUS
    <3>2. /\ run.log = next.log /\ run.held = next.held /\ run.pc = next.pc
          /\ run.dirty = {RepeatOf(s, Flushed(w))}
      BY <2>2, <3>1 DEF Run
    <3>3. QED BY <1>4, <2>2, <2>3, <3>1, <3>2
  <2>4. ASSUME Handles(w, [next EXCEPT !.pc = "create",
                                       !.blocked = (Verdict(Event(w)) = "blocked")])
        PROVE  FlushInv' /\ CountsInv'
    <3>1. PICK run : run = [next EXCEPT !.pc = "create",
                                        !.blocked = (Verdict(Event(w)) = "blocked")]
      OBVIOUS
    <3>2. /\ run.log = next.log /\ run.held = next.held /\ run.pc = "create"
          /\ run.dirty = next.dirty /\ run.batch = next.batch /\ run.at = next.at
      BY <2>2, <3>1 DEF Run
    <3>3. Handles(w, run) /\ TRUE \in BOOLEAN
      BY <2>4, <3>1
    <3>4. QED BY <1>3, <2>2, <3>2, <3>3
  <2>5. QED BY <1>5, <2>1, <2>3, <2>4 DEF Flag
<1>6. ASSUME Handles(w, [Logged(w, FALSE) EXCEPT !.at = @ + 1])
      PROVE  FlushInv' /\ CountsInv'
  <2>1. PICK next : next = Logged(w, FALSE)
    OBVIOUS
  <2>2. /\ next \in Run /\ next.pc = "event" /\ next.batch = worker[w].batch
        /\ next.dirty = {} /\ next.held = Flushed(w)
        /\ next.log = Append(worker[w].log, [key |-> Event(w), flagged |-> FALSE])
    BY <1>2, <2>1
  <2>3. PICK run : run = [next EXCEPT !.at = @ + 1]
    OBVIOUS
  <2>4. /\ run.log = next.log /\ run.held = next.held /\ run.pc = "event"
        /\ run.dirty = next.dirty /\ run.batch = next.batch
    BY <2>2, <2>3 DEF Run
  <2>5. Handles(w, run) /\ FALSE \in BOOLEAN
    BY <1>6, <2>1, <2>3
  <2>6. QED BY <1>3, <2>2, <2>4, <2>5
<1>7. QED BY <1>5, <1>6 DEF HandleDomainVisit, HandleLocalSignal

-----------------------------------------------------------------------------
(* What a commit counts                                                    *)

\* A run's commit writes the counts it has flushed.
LEMMA AfterCounts ==
    ASSUME TelemetryInv, NEW w \in Workers, NEW s \in DOMAIN sighting
    PROVE  /\ SightingsAfter(w)[s].key = sighting[s].key
           /\ SightingsAfter(w)[s].byhand = sighting[s].byhand
           /\ \/ \E r \in Flushed(w) : r.row = s /\ SightingsAfter(w)[s].count = r.count
              \/ /\ \A r \in Flushed(w) : r.row # s
                 /\ SightingsAfter(w)[s].count = sighting[s].count
<1> DEFINE set == {r \in Flushed(w) : r.row = s}
<1>1. sighting[s] \in Sighting
  BY DEF TelemetryInv, TypeOK
<1>2. SightingsAfter(w)[s] =
           IF set = {} THEN sighting[s]
           ELSE [sighting[s] EXCEPT !.count = (CHOOSE r \in set : TRUE).count]
  BY DEF SightingsAfter
<1>3. CASE set = {}
  BY <1>2, <1>3
<1>4. CASE set # {}
  <2>1. PICK r \in set : r = CHOOSE q \in set : TRUE
    BY <1>4
  <2>2. PICK x : x = [sighting[s] EXCEPT !.count = r.count]
    OBVIOUS
  <2>3. x.key = sighting[s].key /\ x.byhand = sighting[s].byhand /\ x.count = r.count
    BY <1>1, <2>2 DEF Sighting
  <2>4. SightingsAfter(w)[s] = x
    BY <1>2, <1>4, <2>1, <2>2
  <2>5. QED BY <2>1, <2>3, <2>4
<1>5. QED BY <1>3, <1>4

\* The set a commit adds to what was counted for a key.
Created(w, k) == IF Owed(w, k) = 1 THEN {<<Len(sighting) + 1, 1>>} ELSE {}

\* What is counted for a key after a commit: at most what was, what the run wanted and
\* the sighting it has created; all of that unless two tasks ran at once.
LEMMA CommittedCounts ==
    ASSUME TelemetryInv, FlushInv, NEW w \in Workers,
           \A s \in DOMAIN sighting :
              s \in DOMAIN sighting' /\ sighting'[s] = SightingsAfter(w)[s],
           \/ DOMAIN sighting' = DOMAIN sighting /\ worker[w].pc # "create"
           \/ /\ worker[w].pc = "create"
              /\ DOMAIN sighting' = DOMAIN sighting \cup {Len(sighting) + 1}
              /\ sighting'[Len(sighting) + 1].key = Event(w)
              /\ ~sighting'[Len(sighting) + 1].byhand
              /\ sighting'[Len(sighting) + 1].count = 1
    PROVE  /\ \A s \in DOMAIN sighting' : sighting'[s].count >= 1
           /\ \A k : /\ Counted(k)' \subseteq Counted(k) \cup Wanted(w, k) \cup Created(w, k)
                     /\ Created(w, k) \cap (Counted(k) \cup Wanted(w, k)) = {}
                     /\ ~overlapped => Counted(k)' = Counted(k) \cup Wanted(w, k)
                                                     \cup Created(w, k)
<1> PICK new : new = Len(sighting) + 1
  OBVIOUS
<1>0. /\ TypeOK /\ DOMAIN sighting = 1 .. Len(sighting) /\ Len(sighting) \in Nat
      /\ new \notin DOMAIN sighting /\ OncePerRow(Flushed(w)) /\ Flushed(w) \subseteq Repeat
      /\ \A s \in DOMAIN sighting : sighting[s].count \in Nat
      /\ \A r \in Flushed(w) : r.count \in Nat /\ r.row \in DOMAIN sighting /\ r.count >= 1
  <2>1. TypeOK /\ \A s \in DOMAIN sighting : sighting[s] \in Sighting
    BY DEF TelemetryInv, TypeOK
  <2>2. OncePerRow(Flushed(w)) /\ Flushed(w) \subseteq Repeat
    BY <2>1, FlushedOnce DEF TelemetryInv, RunsInv, Working
  <2>3. DOMAIN sighting = 1 .. Len(sighting) /\ Len(sighting) \in Nat
    BY <2>1 DEF TypeOK
  <2>4. \A s \in DOMAIN sighting : sighting[s].count \in Nat
    BY <2>1 DEF Sighting
  <2>5. \A r \in Flushed(w) : r.count \in Nat /\ r.row \in DOMAIN sighting /\ r.count >= 1
    BY <2>2, FlushedRows DEF Repeat
  <2>6. new \notin DOMAIN sighting
    BY <2>3
  <2>7. QED BY <2>1, <2>2, <2>3, <2>4, <2>5, <2>6
<1>1. ASSUME NEW s \in DOMAIN sighting
      PROVE  /\ sighting'[s].key = sighting[s].key /\ First(s)' = First(s)
             /\ \/ \E r \in Flushed(w) : r.row = s /\ sighting'[s].count = r.count
                \/ /\ \A r \in Flushed(w) : r.row # s
                   /\ sighting'[s].count = sighting[s].count
  BY AfterCounts DEF First
<1>2. ASSUME new \in DOMAIN sighting'
      PROVE  First(new)' = 1 /\ sighting'[new].count = 1 /\ sighting'[new].key = Event(w)
             /\ worker[w].pc = "create"
  BY <1>0, <1>2 DEF First
<1>3. \A s \in DOMAIN sighting' : sighting'[s].count >= 1
  <2>1. ASSUME NEW s \in DOMAIN sighting' PROVE sighting'[s].count >= 1
    <3>1. CASE s \in DOMAIN sighting
      BY <1>0, <1>1, <3>1 DEF FlushInv
    <3>2. CASE s \notin DOMAIN sighting
      BY <1>2, <3>2
    <3>3. QED BY <3>1, <3>2
  <2>2. QED BY <2>1
<1>4. ASSUME NEW k
      PROVE  /\ Counted(k)' \subseteq Counted(k) \cup Wanted(w, k) \cup Created(w, k)
             /\ Created(w, k) \cap (Counted(k) \cup Wanted(w, k)) = {}
             /\ ~overlapped => Counted(k)' = Counted(k) \cup Wanted(w, k) \cup Created(w, k)
  <2>1. \A x : x \in Counted(k)' <=>
              \E s \in DOMAIN sighting' :
                 /\ sighting'[s].key = k
                 /\ \E n \in First(s)' .. sighting'[s].count : x = <<s, n>>
    BY DEF Counted
  <2>2. ASSUME NEW x \in Counted(k)'
        PROVE  x \in Counted(k) \cup Wanted(w, k) \cup Created(w, k)
    <3>1. PICK s \in DOMAIN sighting' :
                 /\ sighting'[s].key = k
                 /\ \E n \in First(s)' .. sighting'[s].count : x = <<s, n>>
      BY <2>1
    <3>2. CASE s \in DOMAIN sighting
      <4>1. sighting[s].key = k /\ \E n \in First(s) .. sighting'[s].count : x = <<s, n>>
        BY <1>1, <3>1, <3>2
      <4>2. ASSUME NEW r \in Flushed(w), r.row = s, sighting'[s].count = r.count
            PROVE  x \in Wanted(w, k)
        BY <4>1, <4>2, WantedMembers
      <4>3. CASE sighting'[s].count = sighting[s].count
        BY <3>2, <4>1, <4>3, CountedMembers
      <4>4. QED BY <1>1, <3>2, <4>2, <4>3
    <3>3. CASE s \notin DOMAIN sighting
      BY <1>2, <3>1, <3>3 DEF Created, Owed
    <3>4. QED BY <3>2, <3>3
  <2>3. Created(w, k) \cap (Counted(k) \cup Wanted(w, k)) = {}
    <3>1. <<new, 1>> \notin Counted(k)
      BY <1>0, CountedMembers
    <3>2. <<new, 1>> \notin Wanted(w, k)
      BY <1>0, WantedMembers
    <3>3. QED BY <3>1, <3>2 DEF Created
  <2>4. ASSUME ~overlapped, NEW x \in Counted(k) PROVE x \in Counted(k)'
    <3>1. PICK s \in DOMAIN sighting :
                 /\ sighting[s].key = k
                 /\ \E n \in First(s) .. sighting[s].count : x = <<s, n>>
      BY CountedMembers
    <3>2. PICK n \in First(s) .. sighting[s].count : x = <<s, n>>
      BY <3>1
    <3>3. sighting'[s].count \in Nat /\ sighting'[s].count >= sighting[s].count
      <4>1. \A r \in Flushed(w) : r.count >= sighting[r.row].count
        BY <2>4 DEF FlushInv, Flushing
      <4>2. QED BY <1>0, <1>1, <4>1
    <3>4. n \in First(s)' .. sighting'[s].count
      <4>1. First(s) \in {1, 2}
        BY DEF First
      <4>2. QED BY <1>0, <1>1, <3>3, <4>1
    <3>5. QED BY <1>1, <2>1, <3>1, <3>2, <3>4
  <2>5. ASSUME NEW x \in Wanted(w, k) PROVE x \in Counted(k)'
    <3>1. PICK r \in Flushed(w) : /\ sighting[r.row].key = k
                                  /\ \E n \in First(r.row) .. r.count : x = <<r.row, n>>
      BY WantedMembers
    <3>2. r.row \in DOMAIN sighting' /\ sighting'[r.row].count = r.count
          /\ sighting'[r.row].key = k /\ First(r.row)' = First(r.row)
      BY <1>0, <1>1, <3>1 DEF OncePerRow
    <3>3. QED BY <2>1, <3>1, <3>2
  <2>6. ASSUME NEW x \in Created(w, k) PROVE x \in Counted(k)'
    <3>1. worker[w].pc = "create" /\ Event(w) = k /\ x = <<new, 1>>
      BY <2>6 DEF Created, Owed
    <3>2. new \in DOMAIN sighting' /\ 1 \in First(new)' .. sighting'[new].count
      BY <1>2, <3>1
    <3>3. QED BY <1>2, <2>1, <3>1, <3>2
  <2>7. QED BY <2>2, <2>3, <2>4, <2>5, <2>6
<1>5. QED BY <1>3, <1>4

\* An idle run wants nothing counted.
LEMMA IdleWants ==
    ASSUME FlushInv, NEW w \in Workers, worker[w].pc = "idle"
    PROVE  \A k : Wanted(w, k) = {} /\ Owed(w, k) = 0 /\ FlagsOf(w, k) = {}
<1>1. worker[w].dirty = {} /\ worker[w].held = {} /\ worker[w].log = <<>>
  BY DEF FlushInv, Flushing, IdleRun
<1>2. QED BY <1>1 DEF Flushed, Wanted, FlagsOf, Owed

\* What a run commits is counted with what was, and so is what it logged.
LEMMA CommitCounts ==
    ASSUME TelemetryInv, FlushInv, CountsInv, SoloInv, NEW w \in Workers,
           worker[w].pc # "idle", NEW run, worker' = [worker EXCEPT ![w] = run],
           Cleared(w), logged' = LogAfter(w), UNCHANGED <<task, overlapped>>,
           \A s \in DOMAIN sighting :
              s \in DOMAIN sighting' /\ sighting'[s] = SightingsAfter(w)[s],
           \/ DOMAIN sighting' = DOMAIN sighting /\ worker[w].pc # "create"
           \/ /\ worker[w].pc = "create"
              /\ DOMAIN sighting' = DOMAIN sighting \cup {Len(sighting) + 1}
              /\ sighting'[Len(sighting) + 1].key = Event(w)
              /\ ~sighting'[Len(sighting) + 1].byhand
              /\ sighting'[Len(sighting) + 1].count = 1
    PROVE  FlushInv' /\ CountsInv'
<1>0. TypeOK /\ \A v \in Workers \ {w} : worker'[v] = worker[v]
  BY DEF TelemetryInv, TypeOK
<1>1. /\ \A s \in DOMAIN sighting' : sighting'[s].count >= 1
      /\ \A k : /\ Counted(k)' \subseteq Counted(k) \cup Wanted(w, k) \cup Created(w, k)
                /\ Created(w, k) \cap (Counted(k) \cup Wanted(w, k)) = {}
                /\ ~overlapped => Counted(k)' = Counted(k) \cup Wanted(w, k)
                                                \cup Created(w, k)
  BY CommittedCounts
<1>2. \A s \in DOMAIN sighting :
         /\ s \in DOMAIN sighting'
         /\ sighting'[s].key = sighting[s].key /\ sighting'[s].byhand = sighting[s].byhand
  BY AfterCounts
<1>3. ASSUME NEW v \in Workers \ {w}
      PROVE  GoesOn(v) /\ (~overlapped => worker[v].pc = "idle")
  <2>1. worker'[v] = worker[v] /\ \A k : Owed(v, k)' = Owed(v, k)
    BY <1>0 DEF Owed, Event
  <2>2. GoesOn(v)
    BY <2>1 DEF GoesOn, FlushInv, Flushing
  <2>3. QED BY <2>2 DEF SoloInv
<1>4. FlushInv'
  <2>1. ASSUME NEW v \in Workers PROVE Flushing(v)'
    <3>1. CASE v = w
      BY <1>2, <3>1, RunFlushes
    <3>2. CASE v # w
      <4>1. ~overlapped => Flushed(v) = {}
        BY <1>3, <3>2 DEF FlushInv, Flushing, IdleRun, Flushed
      <4>2. QED BY <1>2, <1>3, <3>2, <4>1, RunFlushes
    <3>3. QED BY <3>1, <3>2
  <2>2. QED BY <1>1, <2>1 DEF FlushInv
<1>5. ASSUME NEW k \in Keys, NEW m, Tallied(k, m)
      PROVE  \E all : Tallied(k, all)'
  <2>1. PICK want, made, owed, old, new, count :
           /\ want = Wanted(w, k) /\ made = Created(w, k) /\ owed = Owed(w, k)
           /\ old = logged[k].flagged /\ new = logged'[k].flagged
           /\ count = Cardinality(FlagsOf(w, k))
    OBVIOUS
  <2>2. /\ old \in Nat /\ count \in Nat /\ owed \in {0, 1} /\ new = old + count
        /\ made = IF owed = 1 THEN {<<Len(sighting) + 1, 1>>} ELSE {}
    <3>1. logged[k].flagged \in Nat
      BY <1>0 DEF TypeOK
    <3>2. logged'[k].flagged = logged[k].flagged + Cardinality(FlagsOf(w, k))
      BY DEF LogAfter, FlagsOf
    <3>3. Cardinality(FlagsOf(w, k)) \in Nat
      BY <1>0, FlagsFinite
    <3>4. Owed(w, k) \in {0, 1}
      BY DEF Owed
    <3>5. QED BY <2>1, <3>1, <3>2, <3>3, <3>4 DEF Created
  <2>3. /\ IsFiniteSet(m) /\ IsFiniteSet(want) /\ Counted(k) \subseteq m
        /\ Cardinality(m) <= old /\ Cardinality(want \ m) + owed <= count
        /\ ~overlapped => /\ m = Counted(k) /\ Cardinality(m) = old
                          /\ Cardinality(want \ m) + owed = count
    BY <1>5, <2>1 DEF Tallied
  <2>4. Cardinality(want \ m) \in Nat
    <3>1. IsFiniteSet(want \ m)
      BY <2>3, FS_Difference
    <3>2. QED BY <3>1, FS_CardinalityType
  <2>5. PICK fresh \in Nat : fresh = Cardinality(want \ m)
    BY <2>4
  <2>6. /\ IsFiniteSet(m \cup want) /\ Cardinality(m \cup want) <= old + fresh
        /\ ~overlapped => Cardinality(m \cup want) = old + fresh
    <3>1. /\ old \in Nat /\ fresh \in Nat /\ IsFiniteSet(m) /\ IsFiniteSet(want)
          /\ Cardinality(m) <= old /\ Cardinality(want \ m) <= fresh
      BY <2>2, <2>3, <2>5
    <3>2. /\ IsFiniteSet(m \cup want) /\ Cardinality(m \cup want) <= old + fresh
          /\ (Cardinality(m) = old /\ Cardinality(want \ m) = fresh
                 => Cardinality(m \cup want) = old + fresh)
      BY <3>1, TalliesJoined, Zenon
    <3>3. QED BY <2>3, <2>5, <3>2
  <2>7. /\ IsFiniteSet((m \cup want) \cup made)
        /\ Cardinality((m \cup want) \cup made) <= old + fresh + owed
        /\ ~overlapped => Cardinality((m \cup want) \cup made) = old + fresh + owed
    <3>1. CASE owed = 0
      <4>1. (m \cup want) \cup made = m \cup want
        BY <2>2, <3>1
      <4>2. QED BY <2>2, <2>6, <3>1, <4>1
    <3>2. CASE owed = 1
      <4>1. PICK x : made = {x}
        BY <2>2, <3>2
      <4>2. ~overlapped => x \notin m \cup want
        BY <1>1, <2>1, <2>3, <4>1
      <4>3. (m \cup want) \cup made = (m \cup want) \cup {x}
        BY <4>1
      <4>4. /\ IsFiniteSet((m \cup want) \cup {x}) /\ Cardinality(m \cup want) \in Nat
            /\ Cardinality((m \cup want) \cup {x}) \in Nat
            /\ Cardinality((m \cup want) \cup {x}) <= Cardinality(m \cup want) + 1
            /\ x \notin m \cup want =>
                  Cardinality((m \cup want) \cup {x}) = Cardinality(m \cup want) + 1
        BY <2>6, TallyAdded
      <4>5. PICK c, d : c = Cardinality(m \cup want)
                        /\ d = Cardinality((m \cup want) \cup {x})
        OBVIOUS
      <4>6. /\ c \in Nat /\ d \in Nat /\ c <= old + fresh /\ d <= c + 1
            /\ ~overlapped => c = old + fresh /\ d = c + 1
        BY <2>6, <4>2, <4>4, <4>5
      <4>7. d <= old + fresh + owed /\ (~overlapped => d = old + fresh + owed)
        BY <2>2, <3>2, <4>6
      <4>8. QED BY <4>3, <4>4, <4>5, <4>7
    <3>3. QED BY <2>2, <3>1, <3>2
  <2>8. PICK all : all = (m \cup want) \cup made
    OBVIOUS
  <2>9. /\ IsFiniteSet(all) /\ Cardinality(all) <= new
        /\ ~overlapped => Cardinality(all) = new
    <3>1. Cardinality(all) \in Nat
      BY <2>7, <2>8, FS_CardinalityType
    <3>2. QED BY <2>2, <2>3, <2>5, <2>7, <2>8, <3>1
  <2>10. Counted(k)' \subseteq all /\ (~overlapped => all = Counted(k)')
    BY <1>1, <2>1, <2>3, <2>8
  <2>11. ASSUME NEW v \in Workers
         PROVE  /\ IsFiniteSet(Wanted(v, k)')
                /\ Cardinality(Wanted(v, k)' \ all) + Owed(v, k)' <= Cardinality(FlagsOf(v, k)')
                /\ ~overlapped => Cardinality(Wanted(v, k)' \ all) + Owed(v, k)'
                                     = Cardinality(FlagsOf(v, k)')
    <3>0. IsFiniteSet({}) /\ Cardinality({} \ all) = 0 /\ Cardinality({}) = 0
      BY EmptyTally
    <3>1. CASE v = w
      <4>1. Wanted(v, k)' = {} /\ Owed(v, k)' = 0 /\ FlagsOf(v, k)' = {}
        BY <3>1, ClearedWants
      <4>2. QED BY <3>0, <4>1
    <3>2. CASE v # w
      <4>1. /\ Wanted(v, k)' = Wanted(v, k) /\ Owed(v, k)' = Owed(v, k)
            /\ FlagsOf(v, k)' = FlagsOf(v, k)
        BY <1>2, <1>3, <3>2, WantedKept DEF GoesOn, FlagsOf
      <4>2. PICK u, o, f : u = Wanted(v, k) /\ o = Owed(v, k) /\ f = Cardinality(FlagsOf(v, k))
        OBVIOUS
      <4>3. IsFiniteSet(u) /\ Cardinality(u \ m) + o <= f
        BY <1>5, <4>2 DEF Tallied
      <4>4. /\ Cardinality(u \ all) \in Nat /\ Cardinality(u \ m) \in Nat
            /\ Cardinality(u \ all) <= Cardinality(u \ m)
        <5>1. IsFiniteSet(u \ m) /\ u \ all \subseteq u \ m
          BY <2>8, <4>3, FS_Difference
        <5>2. QED BY <5>1, TallySmaller
      <4>5. o \in Nat /\ f \in Nat
        BY <1>0, <4>2, FlagsFinite DEF Owed
      <4>6. Cardinality(u \ all) + o <= f
        BY <4>3, <4>4, <4>5
      <4>7. ~overlapped => Cardinality(u \ all) + o = f
        <5>1. ~overlapped => u = {} /\ o = 0 /\ f = 0
          BY <1>3, <3>0, <3>2, <4>2, IdleWants
        <5>2. u = {} => Cardinality(u \ all) = 0
          BY <3>0, Zenon
        <5>3. QED BY <5>1, <5>2
      <4>8. QED BY <4>1, <4>2, <4>3, <4>6, <4>7, Zenon
    <3>3. QED BY <3>1, <3>2
  <2>12. Tallied(k, all)'
    BY <2>1, <2>9, <2>10, <2>11 DEF Tallied
  <2>13. QED BY <2>12
<1>6. CountsInv'
  <2>1. ASSUME NEW k \in Keys PROVE \E m : Tallied(k, m)'
    <3>1. PICK m : Tallied(k, m)
      BY DEF CountsInv
    <3>2. QED BY <1>5, <3>1
  <2>2. QED BY <2>1 DEF CountsInv
<1>7. QED BY <1>4, <1>6

\* A run that a step does not touch goes on.
LEMMA UntouchedGoesOn ==
    ASSUME FlushInv, NEW w \in Workers, worker'[w] = worker[w],
           worker[w].pc = "create" => task'[worker[w].batch] = task[worker[w].batch]
    PROVE  GoesOn(w)
<1>1. \A k : Owed(w, k)' = Owed(w, k)
  BY DEF Owed, Event
<1>2. worker[w].dirty # {} => worker[w].pc = "event"
  BY DEF FlushInv, Flushing
<1>3. QED BY <1>1, <1>2 DEF GoesOn

\* A change of the fields a sighting is not counted by.
LEMMA NotedCounts ==
    ASSUME TypeOK, NEW s \in DOMAIN sighting, NEW x,
           x.key = sighting[s].key, x.byhand = sighting[s].byhand,
           x.count = sighting[s].count, sighting' = [sighting EXCEPT ![s] = x]
    PROVE  /\ DOMAIN sighting' = DOMAIN sighting
           /\ \A t \in DOMAIN sighting :
                 /\ t \in DOMAIN sighting' /\ sighting'[t].key = sighting[t].key
                 /\ sighting'[t].byhand = sighting[t].byhand
                 /\ sighting'[t].count = sighting[t].count
<1>1. DOMAIN sighting = 1 .. Len(sighting)
  BY DEF TypeOK
<1>2. QED BY <1>1

\* The collector and the users count nothing that was logged: a sighting reported by
\* hand is counted from its second event on.
LEMMA UserCounts ==
    ASSUME TelemetryInv, FlushInv, CountsInv, CollectorNext \/ UserNext \/ UNCHANGED vars
    PROVE  FlushInv' /\ CountsInv'
<1>0. /\ TypeOK /\ worker' = worker /\ logged' = logged /\ overlapped' = overlapped
      /\ \A w \in Workers : worker[w].pc # "idle" =>
            worker[w].batch \in Batches /\ task[worker[w].batch].state = "taken"
      /\ \A s \in DOMAIN sighting : sighting[s] \in Sighting
  <2>1. worker' = worker /\ logged' = logged /\ overlapped' = overlapped
    BY DEF CollectorNext, Appear, Vanish, CollectorScans, Receive, Flush, PostFails, Restart,
           SetEnabled, PostAccepted, UserNext, UpdateStatus, ReportSighting, SetPolicy,
           OpenRegister, CommitRegister, vars, storing
  <2>2. /\ TypeOK /\ \A s \in DOMAIN sighting : sighting[s] \in Sighting
        /\ \A w \in Workers : worker[w].pc # "idle" =>
              worker[w].batch \in Batches /\ task[worker[w].batch].state = "taken"
    BY DEF TelemetryInv, TypeOK, RunsInv, Working
  <2>3. QED BY <2>1, <2>2
<1>1. \A b \in Batches : task[b].state = "taken" => task'[b] = task[b]
  BY <1>0 DEF TypeOK, CollectorNext, Appear, Vanish, CollectorScans, Receive, Flush,
         PostFails, Restart, SetEnabled, PostAccepted, UserNext, UpdateStatus, ReportSighting,
         SetPolicy, OpenRegister, CommitRegister, vars
<1>2. \A w \in Workers : GoesOn(w)
  BY <1>0, <1>1, UntouchedGoesOn
<1>3. CASE sighting' = sighting
  BY <1>0, <1>2, <1>3, NothingCounted
<1>4. ASSUME NEW s \in DOMAIN sighting, NEW x,
             x.key = sighting[s].key, x.byhand = sighting[s].byhand,
             x.count = sighting[s].count, sighting' = [sighting EXCEPT ![s] = x]
      PROVE  FlushInv' /\ CountsInv'
  BY <1>0, <1>2, <1>4, NotedCounts, NothingCounted
<1>5. ASSUME NEW s \in DOMAIN sighting, NEW status, UpdateStatus(s, status)
      PROVE  FlushInv' /\ CountsInv'
  <2>1. PICK again : again = (sighting[s].reopened
                            \/ (status \notin Resolved /\ sighting[s].status \in Resolved))
    OBVIOUS
  <2>2. PICK x : x = [sighting[s] EXCEPT !.status = status, !.reopened = again]
    OBVIOUS
  <2>3. /\ x.key = sighting[s].key /\ x.byhand = sighting[s].byhand
        /\ x.count = sighting[s].count
    BY <1>0, <2>2 DEF Sighting
  <2>4. sighting' = [sighting EXCEPT ![s] = x]
    BY <1>0, <1>5, <2>1, <2>2 DEF UpdateStatus, Sighting
  <2>5. QED BY <1>4, <2>3, <2>4
<1>6. ASSUME NEW a \in Admins, CommitRegister(a) PROVE FlushInv' /\ CountsInv'
  <2>1. PICK s \in DOMAIN sighting : s = admin[a]
    BY <1>6 DEF CommitRegister, TelemetryInv, RunsInv
  <2>2. PICK x : x = [sighting[s] EXCEPT !.status = "registered",
                                        !.providers = sighting[s].providers + 1]
    OBVIOUS
  <2>3. /\ x.key = sighting[s].key /\ x.byhand = sighting[s].byhand
        /\ x.count = sighting[s].count
    BY <1>0, <2>2 DEF Sighting
  <2>4. sighting' = [sighting EXCEPT ![s] = x]
    BY <1>6, <2>1, <2>2 DEF CommitRegister
  <2>5. QED BY <1>4, <2>3, <2>4
<1>7. ASSUME NEW k \in Keys, ReportSighting(k) PROVE FlushInv' /\ CountsInv'
  <2>0. PICK n \in {0, 1} :
           sighting' = Append(sighting, [NewSighting(k) EXCEPT !.byhand = TRUE, !.notices = n])
    BY <1>7 DEF ReportSighting
  <2>1. PICK new : /\ new = [NewSighting(k) EXCEPT !.byhand = TRUE, !.notices = n]
                   /\ sighting' = Append(sighting, new)
    BY <2>0
  <2>2. sighting' = Append(sighting, new) /\ new.byhand /\ new.count = 1
    BY <2>1 DEF NewSighting
  <2>3. /\ DOMAIN sighting' = 1 .. Len(sighting) + 1 /\ DOMAIN sighting = 1 .. Len(sighting)
        /\ sighting'[Len(sighting) + 1] = new /\ Len(sighting) \in Nat
        /\ \A s \in DOMAIN sighting : sighting'[s] = sighting[s]
    BY <1>0, <2>2 DEF TypeOK
  <2>4. \A s \in DOMAIN sighting : s \in DOMAIN sighting'
    BY <2>3
  <2>5. \A s \in DOMAIN sighting' \ DOMAIN sighting : sighting'[s] = new
    BY <2>3
  <2>6. QED BY <1>0, <1>2, <2>2, <2>3, <2>4, <2>5, NothingCounted
<1>8. \/ sighting' = sighting
      \/ \E s \in DOMAIN sighting, status \in Statuses : UpdateStatus(s, status)
      \/ \E a \in Admins : CommitRegister(a)
      \/ \E k \in Keys : ReportSighting(k)
  BY DEF CollectorNext, Appear, Vanish, CollectorScans, Receive, Flush, PostFails, Restart,
         SetEnabled, PostAccepted, UserNext, SetPolicy, OpenRegister, vars, storing
<1>9. QED BY <1>3, <1>5, <1>6, <1>7, <1>8

\* The steps of a run that count nothing.
LEMMA OtherCounts ==
    ASSUME TelemetryInv, FlushInv, CountsInv, NEW w \in Workers, NEW run,
           worker' = [worker EXCEPT ![w] = run], GoesOn(w) \/ Cleared(w),
           \A v \in Workers \ {w} : worker[v].pc # "idle" =>
              task'[worker[v].batch] = task[worker[v].batch],
           logged' = logged, ~overlapped' => ~overlapped,
           DOMAIN sighting' = DOMAIN sighting,
           \A s \in DOMAIN sighting : /\ sighting'[s].key = sighting[s].key
                                      /\ sighting'[s].byhand = sighting[s].byhand
                                      /\ sighting'[s].count = sighting[s].count
    PROVE  FlushInv' /\ CountsInv'
<1>1. TypeOK /\ \A v \in Workers \ {w} : worker'[v] = worker[v]
  BY DEF TelemetryInv, TypeOK
<1>2. \A v \in Workers \ {w} : GoesOn(v)
  BY <1>1, UntouchedGoesOn
<1>3. \A v \in Workers : GoesOn(v) \/ Cleared(v)
  BY <1>2
<1>4. \A s \in DOMAIN sighting : s \in DOMAIN sighting'
  OBVIOUS
<1>5. QED BY <1>1, <1>3, <1>4, NothingCounted

\* Every step of a run keeps the tallies: it handles an event, or commits, or counts
\* nothing.
LEMMA RunStepCounts ==
    ASSUME TelemetryInv, FlushInv, CountsInv, SoloInv, NEW w \in Workers, RunNext(w)
    PROVE  FlushInv' /\ CountsInv'
<1>0. /\ TypeOK /\ RunsInv /\ worker[w] \in Run /\ worker \in [Workers -> Run]
      /\ Working(worker[w], task) /\ Escalating(worker[w], sighting) /\ Flushing(w)
      /\ DOMAIN sighting = 1 .. Len(sighting) /\ Len(sighting) \in Nat
      /\ \A s \in DOMAIN sighting : sighting[s] \in Sighting
  BY DEF TelemetryInv, TypeOK, RunsInv, FlushInv
<1>1. ASSUME NEW b \in Batches, TakeBatch(w, b) PROVE FlushInv' /\ CountsInv'
  <2>1. PICK run : run = [IdleRun EXCEPT !.pc = "event", !.batch = b]
    OBVIOUS
  <2>2. worker' = [worker EXCEPT ![w] = run] /\ worker'[w] = run
    BY <1>0, <1>1, <2>1 DEF TakeBatch
  <2>3. run.dirty = {} /\ run.held = {} /\ run.log = <<>> /\ run.pc = "event"
    BY <2>1 DEF IdleRun
  <2>4. Cleared(w)
    BY <2>2, <2>3 DEF Cleared
  <2>5. /\ UNCHANGED <<sighting, logged>> /\ (~overlapped' => ~overlapped)
        /\ \A c \in Batches \ {b} : task'[c] = task[c]
    BY <1>0, <1>1 DEF TakeBatch, storing, TypeOK
  <2>6. \A v \in Workers : worker[v].pc # "idle" =>
           worker[v].batch \in Batches /\ worker[v].batch # b
    BY <1>0, <1>1 DEF TakeBatch, RunsInv, Working
  <2>7. QED BY <2>2, <2>4, <2>5, <2>6, OtherCounts
<1>2. CASE HandleDomainVisit(w) \/ HandleLocalSignal(w)
  BY <1>2, HandleCounts
<1>3. CASE CreateSighting(w)
  <2>1. PICK run : /\ run = [worker[w] EXCEPT !.pc = AfterSighting(worker[w].blocked),
                                             !.log = <<>>, !.held = {},
                                             !.row = Len(sighting) + 1]
                   /\ worker' = [worker EXCEPT ![w] = run]
    BY <1>3 DEF CreateSighting
  <2>2. /\ worker[w].pc = "create" /\ logged' = LogAfter(w)
        /\ UNCHANGED <<task, overlapped>>
    BY <1>3 DEF CreateSighting
  <2>3. run.dirty = {} /\ run.held = {} /\ run.log = <<>> /\ run.pc \in {"incident", "notify"}
    <3>1. run.dirty = worker[w].dirty /\ run.held = {} /\ run.log = <<>>
          /\ run.pc = AfterSighting(worker[w].blocked)
      BY <1>0, <2>1 DEF Run
    <3>2. worker[w].dirty = {}
      BY <1>0, <2>2 DEF Flushing
    <3>3. QED BY <3>1, <3>2 DEF AfterSighting
  <2>4. Cleared(w)
    BY <1>0, <2>1, <2>3 DEF Cleared
  <2>5. PICK new : new = [NewSighting(Event(w)) EXCEPT !.blocked = worker[w].blocked]
    OBVIOUS
  <2>6. new.key = Event(w) /\ ~new.byhand /\ new.count = 1
    BY <2>5 DEF NewSighting
  <2>7. PICK rows : /\ rows = SightingsAfter(w) /\ rows \in Seq(Sighting)
                    /\ Len(rows) = Len(sighting) /\ DOMAIN rows = DOMAIN sighting
                    /\ sighting' = Append(rows, new)
    BY <1>0, <1>3, <2>5, SightingsAfterTypes DEF Working, CreateSighting
  <2>8. /\ DOMAIN sighting' = DOMAIN sighting \cup {Len(sighting) + 1}
        /\ sighting'[Len(sighting) + 1] = new
        /\ \A s \in DOMAIN sighting : sighting'[s] = rows[s]
    <3>1. /\ DOMAIN sighting' = 1 .. Len(sighting) + 1
          /\ sighting'[Len(sighting) + 1] = new
          /\ \A s \in DOMAIN sighting : sighting'[s] = rows[s]
      BY <1>0, <2>7
    <3>2. QED BY <1>0, <3>1
  <2>9. \A s \in DOMAIN sighting :
           s \in DOMAIN sighting' /\ sighting'[s] = SightingsAfter(w)[s]
    BY <2>7, <2>8
  <2>10. worker[w].pc # "idle"
    BY <2>2
  <2>11. QED BY <2>1, <2>2, <2>4, <2>6, <2>8, <2>9, <2>10, CommitCounts
<1>4. CASE CommitBatch(w)
  <2>1. PICK run : /\ run = [IdleRun EXCEPT !.pc = "ack", !.batch = worker[w].batch]
                   /\ worker' = [worker EXCEPT ![w] = run]
    BY <1>4 DEF CommitBatch
  <2>2. /\ worker[w].pc = "event" /\ logged' = LogAfter(w)
        /\ UNCHANGED <<task, overlapped>> /\ sighting' = SightingsAfter(w)
    BY <1>4 DEF CommitBatch
  <2>3. run.dirty = {} /\ run.held = {} /\ run.log = <<>> /\ run.pc = "ack"
    BY <2>1 DEF IdleRun
  <2>4. Cleared(w)
    BY <1>0, <2>1, <2>3 DEF Cleared
  <2>5. DOMAIN sighting' = DOMAIN sighting
    BY <1>0, <2>2, SightingsAfterTypes DEF Working
  <2>6. worker[w].pc # "idle" /\ worker[w].pc # "create"
    BY <2>2
  <2>7. QED BY <2>1, <2>2, <2>4, <2>5, <2>6, CommitCounts
<1>5. CASE CreateIncident(w) \/ Notify(w)
  <2>1. /\ worker[w].pc \in {"incident", "notify"} /\ worker[w].row \in DOMAIN sighting
        /\ UNCHANGED <<task, logged, overlapped>> /\ worker[w].dirty = {}
    BY <1>0, <1>5 DEF CreateIncident, Notify, Escalating, Flushing
  <2>2. PICK run : /\ worker' = [worker EXCEPT ![w] = run]
                   /\ \/ run = [worker[w] EXCEPT !.pc = "notify"]
                      \/ run = [worker[w] EXCEPT !.pc = "event", !.at = @ + 1, !.row = 0]
    <3>1. CASE CreateIncident(w)
      BY <3>1 DEF CreateIncident
    <3>2. CASE Notify(w)
      BY <3>2 DEF Notify
    <3>3. QED BY <1>5, <3>1, <3>2
  <2>3. /\ run.dirty = worker[w].dirty /\ run.held = worker[w].held /\ run.log = worker[w].log
        /\ run.pc \in {"notify", "event"}
    BY <1>0, <2>2 DEF Run
  <2>4. GoesOn(w)
    <3>1. worker'[w] = run
      BY <1>0, <2>2
    <3>2. \A k : Owed(w, k) = 0 /\ Owed(w, k)' = 0
      BY <2>1, <2>3, <3>1 DEF Owed
    <3>3. QED BY <2>1, <2>3, <3>1, <3>2 DEF GoesOn
  <2>5. PICK x : /\ sighting' = [sighting EXCEPT ![worker[w].row] = x]
                 /\ x.key = sighting[worker[w].row].key
                 /\ x.byhand = sighting[worker[w].row].byhand
                 /\ x.count = sighting[worker[w].row].count
    <3>1. CASE CreateIncident(w)
      <4>1. PICK x : /\ x = [sighting[worker[w].row] EXCEPT
                                !.incidents = sighting[worker[w].row].incidents + 1]
                     /\ sighting' = [sighting EXCEPT ![worker[w].row] = x]
        BY <3>1 DEF CreateIncident
      <4>2. sighting[worker[w].row] \in Sighting
        BY <1>0, <2>1
      <4>3. /\ x.key = sighting[worker[w].row].key
            /\ x.byhand = sighting[worker[w].row].byhand
            /\ x.count = sighting[worker[w].row].count
        BY <4>1, <4>2 DEF Sighting
      <4>4. QED BY <4>1, <4>3
    <3>2. CASE Notify(w)
      <4>1. PICK x : /\ x = [sighting[worker[w].row] EXCEPT
                                !.notices = sighting[worker[w].row].notices + 1]
                     /\ sighting' = [sighting EXCEPT ![worker[w].row] = x]
        BY <3>2 DEF Notify
      <4>2. sighting[worker[w].row] \in Sighting
        BY <1>0, <2>1
      <4>3. /\ x.key = sighting[worker[w].row].key
            /\ x.byhand = sighting[worker[w].row].byhand
            /\ x.count = sighting[worker[w].row].count
        BY <4>1, <4>2 DEF Sighting
      <4>4. QED BY <4>1, <4>3
    <3>3. QED BY <1>5, <3>1, <3>2
  <2>6. /\ DOMAIN sighting' = DOMAIN sighting
        /\ \A s \in DOMAIN sighting : /\ sighting'[s].key = sighting[s].key
                                      /\ sighting'[s].byhand = sighting[s].byhand
                                      /\ sighting'[s].count = sighting[s].count
    BY <1>0, <2>1, <2>5, NotedCounts
  <2>7. QED BY <2>1, <2>2, <2>4, <2>6, OtherCounts
<1>6. CASE AckBatch(w) \/ FailBatch(w) \/ WorkerLost(w)
  <2>1. PICK state : /\ Ended(w, state) /\ worker[w].pc # "idle"
                     /\ UNCHANGED <<sighting, logged, overlapped>>
    BY <1>6 DEF AckBatch, FailBatch, WorkerLost, storing
  <2>2. worker' = [worker EXCEPT ![w] = IdleRun] /\ worker'[w] = IdleRun
    BY <1>0, <2>1 DEF Ended
  <2>3. Cleared(w)
    BY <2>2 DEF Cleared, IdleRun
  <2>4. \A v \in Workers \ {w} : worker[v].pc # "idle" =>
           task'[worker[v].batch] = task[worker[v].batch]
    <3>1. \A v \in Workers \ {w} : worker[v].pc # "idle" =>
             worker[v].batch # worker[w].batch /\ worker[v].batch \in Batches
      BY <1>0, <2>1 DEF RunsInv, RunsApart, Working
    <3>2. QED BY <1>0, <2>1, <3>1 DEF Ended, TypeOK
  <2>5. QED BY <2>1, <2>2, <2>3, <2>4, OtherCounts
<1>7. QED BY <1>1, <1>2, <1>3, <1>4, <1>5, <1>6 DEF RunNext

-----------------------------------------------------------------------------
(* What is logged                                                          *)

\* The events of a key that a run has handled of its batch, and the ones among its
\* uncommitted entries.
HandledEvents(run, events) ==
    {i \in DOMAIN events : \/ i < run.at
                           \/ i = run.at /\ run.pc \in {"create", "incident", "notify"}
                           \/ run.pc = "ack"}

Handled(w, k) ==
    IF worker[w].pc = "idle" THEN {}
    ELSE {<<worker[w].batch, i>> :
             i \in Occurrences(k, task[worker[w].batch].events)
                   \cap HandledEvents(worker[w], task[worker[w].batch].events)}

EntriesOf(w, k) == {i \in DOMAIN worker[w].log : worker[w].log[i].key = k}

\* l: the events of a key that have ever been committed.
Kept(k, l) ==
    /\ IsFiniteSet(l) /\ Answered(k) \subseteq l
    /\ Cardinality(l) <= logged[k].all
    /\ \A w \in Workers :
           /\ IsFiniteSet(Handled(w, k))
           /\ Cardinality(Handled(w, k) \ l) <= Cardinality(EntriesOf(w, k))

\* Every key has such a set, and a run that is to acknowledge has committed its entries.
EventsInv ==
    /\ \A w \in Workers : worker[w].pc = "ack" => worker[w].log = <<>>
    /\ \A k \in Keys : \E l : Kept(k, l)

\* A run's uncommitted entries of a key can be counted.
LEMMA EntriesFinite ==
    ASSUME TypeOK, NEW w \in Workers, NEW k
    PROVE  IsFiniteSet(EntriesOf(w, k)) /\ Cardinality(EntriesOf(w, k)) \in Nat
<1>1. DOMAIN worker[w].log = 1 .. Len(worker[w].log) /\ Len(worker[w].log) \in Nat
  BY DEF TypeOK, Run
<1>2. IsFiniteSet(DOMAIN worker[w].log)
  BY <1>1, FS_Interval
<1>3. QED BY <1>2, TallySmaller DEF EntriesOf

\* What a step may do to the events of a key: run w handles one more and logs it, or
\* goes on, or commits what it logged; or it ends, having committed all of them if
\* its batch is answered.
Keeps(w, k) ==
    \/ /\ logged'[k].all = logged[k].all /\ Answered(k)' \subseteq Answered(k)
       /\ \E x : Handled(w, k)' \subseteq Handled(w, k) \cup {x}
       /\ Cardinality(EntriesOf(w, k)') = Cardinality(EntriesOf(w, k)) + 1
    \/ /\ logged'[k].all = logged[k].all /\ Answered(k)' \subseteq Answered(k)
       /\ Handled(w, k)' \subseteq Handled(w, k)
       /\ Cardinality(EntriesOf(w, k)') = Cardinality(EntriesOf(w, k))
    \/ /\ logged'[k].all = logged[k].all + Cardinality(EntriesOf(w, k))
       /\ Answered(k)' \subseteq Answered(k)
       /\ Handled(w, k)' \subseteq Handled(w, k) /\ EntriesOf(w, k)' = {}
    \/ /\ logged'[k].all = logged[k].all
       /\ Answered(k)' \subseteq Answered(k)
             \cup IF EntriesOf(w, k) = {} THEN Handled(w, k) ELSE {}
       /\ Handled(w, k)' = {} /\ EntriesOf(w, k)' = {}

\* Each of these keeps the events that have been committed within the log.
LEMMA KeptOn ==
    ASSUME TypeOK, NEW k \in Keys, NEW l, Kept(k, l), NEW w \in Workers, Keeps(w, k),
           \A v \in Workers \ {w} : Handled(v, k)' = Handled(v, k)
                                    /\ EntriesOf(v, k)' = EntriesOf(v, k)
    PROVE  \E all : Kept(k, all)'
<1>0. PICK old, new, had, has, count, left :
         /\ old = logged[k].all /\ new = logged'[k].all
         /\ had = Handled(w, k) /\ has = Handled(w, k)'
         /\ count = Cardinality(EntriesOf(w, k)) /\ left = Cardinality(EntriesOf(w, k)')
  OBVIOUS
<1>1. /\ old \in Nat /\ count \in Nat /\ IsFiniteSet(l) /\ IsFiniteSet(had)
      /\ Answered(k) \subseteq l /\ Cardinality(l) <= old /\ Cardinality(had \ l) <= count
  <2>1. old \in Nat
    BY <1>0 DEF TypeOK
  <2>2. count \in Nat
    BY <1>0, EntriesFinite
  <2>3. QED BY <1>0, <2>1, <2>2 DEF Kept
<1>2. IsFiniteSet(had \ l) /\ Cardinality(had \ l) \in Nat /\ Cardinality(l) \in Nat
  BY <1>1, FS_Difference, FS_CardinalityType
<1>3. IsFiniteSet({}) /\ Cardinality({}) = 0 /\ \A s : {} \ s = {}
  BY FS_EmptySet
<1>4. ASSUME NEW all, IsFiniteSet(all), l \subseteq all, Answered(k)' \subseteq all,
             Cardinality(all) <= new, IsFiniteSet(has), Cardinality(has \ all) <= left
      PROVE  Kept(k, all)'
  <2>1. ASSUME NEW v \in Workers
        PROVE  /\ IsFiniteSet(Handled(v, k)')
               /\ Cardinality(Handled(v, k)' \ all) <= Cardinality(EntriesOf(v, k)')
    <3>1. CASE v = w
      BY <1>0, <1>4, <3>1, Zenon
    <3>2. CASE v # w
      <4>1. PICK u, n : u = Handled(v, k) /\ n = Cardinality(EntriesOf(v, k))
        OBVIOUS
      <4>2. IsFiniteSet(u) /\ Cardinality(u \ l) <= n /\ n \in Nat
        BY <4>1, EntriesFinite DEF Kept
      <4>3. IsFiniteSet(u \ l) /\ u \ all \subseteq u \ l
        BY <1>4, <4>2, FS_Difference
      <4>4. /\ Cardinality(u \ all) \in Nat /\ Cardinality(u \ l) \in Nat
            /\ Cardinality(u \ all) <= Cardinality(u \ l)
        BY <4>3, TallySmaller
      <4>5. Cardinality(u \ all) <= n
        BY <4>2, <4>4
      <4>6. Handled(v, k)' = u /\ Cardinality(EntriesOf(v, k)') = n
        BY <3>2, <4>1
      <4>7. QED BY <4>2, <4>5, <4>6, Zenon
    <3>3. QED BY <3>1, <3>2
  <2>2. QED BY <1>0, <1>4, <2>1 DEF Kept
<1>5. ASSUME new = old, Answered(k)' \subseteq Answered(k), NEW x,
             has \subseteq had \cup {x}, left = count + 1
      PROVE  Kept(k, l)'
  <2>1. has \subseteq had \cup {x} /\ has \ l \subseteq (had \ l) \cup {x}
    BY <1>5
  <2>2. IsFiniteSet(has) /\ Cardinality(has \ l) \in Nat
        /\ Cardinality(has \ l) <= Cardinality(had \ l) + 1
    BY <1>1, <1>2, <2>1, TallyAdded
  <2>3. Cardinality(has \ l) <= left /\ l \subseteq l /\ Answered(k)' \subseteq l
    BY <1>1, <1>2, <1>5, <2>2
  <2>4. QED BY <1>1, <1>4, <1>5, <2>2, <2>3
<1>6. ASSUME new = old, Answered(k)' \subseteq Answered(k), has \subseteq had, left = count
      PROVE  Kept(k, l)'
  <2>1. IsFiniteSet(has) /\ has \ l \subseteq had \ l
    BY <1>1, <1>6, TallySmaller
  <2>2. Cardinality(has \ l) \in Nat /\ Cardinality(has \ l) <= Cardinality(had \ l)
    BY <1>2, <2>1, TallySmaller
  <2>3. Cardinality(has \ l) <= left /\ l \subseteq l /\ Answered(k)' \subseteq l
    BY <1>1, <1>2, <1>6, <2>2
  <2>4. QED BY <1>1, <1>4, <1>6, <2>1, <2>3
<1>7. ASSUME new = old + count, Answered(k)' \subseteq Answered(k), has \subseteq had,
             left = 0
      PROVE  \E all : Kept(k, all)'
  <2>1. IsFiniteSet(l \cup had) /\ Cardinality(l \cup had) <= old + count
    BY <1>1, TalliesJoined
  <2>2. IsFiniteSet(has) /\ has \ (l \cup had) = {}
    BY <1>1, <1>7, TallySmaller
  <2>3. Cardinality(has \ (l \cup had)) <= left
    BY <1>3, <1>7, <2>2
  <2>4. l \subseteq l \cup had /\ Answered(k)' \subseteq l \cup had
    BY <1>1, <1>7
  <2>5. QED BY <1>4, <1>7, <2>1, <2>2, <2>3, <2>4
<1>8. ASSUME new = old, has = {}, left = 0,
             Answered(k)' \subseteq Answered(k) \cup IF EntriesOf(w, k) = {} THEN had ELSE {}
      PROVE  Kept(k, l)'
  <2>1. EntriesOf(w, k) = {} => had \subseteq l
    <3>1. ASSUME EntriesOf(w, k) = {} PROVE had \ l = {}
      <4>1. count = 0
        BY <1>0, <1>3, <3>1
      <4>2. Cardinality(had \ l) = 0
        BY <1>1, <1>2, <4>1
      <4>3. QED BY <1>2, <4>2, FS_EmptySet
    <3>2. QED BY <3>1
  <2>2. Answered(k)' \subseteq l /\ l \subseteq l
    BY <1>1, <1>8, <2>1
  <2>3. IsFiniteSet(has) /\ Cardinality(has \ l) <= left
    BY <1>3, <1>8
  <2>4. QED BY <1>1, <1>4, <1>8, <2>2, <2>3
<1>9. QED BY <1>0, <1>3, <1>5, <1>6, <1>7, <1>8 DEF Keeps

\* An event that is logged is one more entry of its key.
LEMMA EntryLogged ==
    ASSUME TelemetryInv, NEW w \in Workers, worker[w].pc # "idle", ~Exhausted(w),
           NEW flagged \in BOOLEAN,
           worker'[w].log = Append(worker[w].log, [key |-> Event(w), flagged |-> flagged])
    PROVE  \A k : Cardinality(EntriesOf(w, k)')
                     = Cardinality(EntriesOf(w, k)) + IF k = Event(w) THEN 1 ELSE 0
<1>1. PICK log : log = worker[w].log
  OBVIOUS
<1>2. log \in Seq([key : Keys, flagged : BOOLEAN]) /\ Len(log) \in Nat /\ Event(w) \in Keys
  <2>1. worker[w] \in Run /\ Event(w) \in Keys
    BY EventTypes DEF TelemetryInv, TypeOK
  <2>2. QED BY <1>1, <2>1 DEF Run
<1>3. PICK e \in [key : Keys, flagged : BOOLEAN] :
         e = [key |-> Event(w), flagged |-> flagged]
  BY <1>2
<1>4. /\ worker'[w].log = Append(log, e)
      /\ DOMAIN log = 1 .. Len(log) /\ DOMAIN Append(log, e) = 1 .. Len(log) + 1
      /\ \A i \in 1 .. Len(log) : Append(log, e)[i] = log[i]
      /\ Append(log, e)[Len(log) + 1] = e
  BY <1>1, <1>2, <1>3
<1>5. /\ (1 .. Len(log) + 1) = (1 .. Len(log)) \cup {Len(log) + 1}
      /\ Len(log) + 1 \notin 1 .. Len(log)
  BY <1>2
<1>6. ASSUME NEW k
      PROVE  Cardinality(EntriesOf(w, k)')
                = Cardinality(EntriesOf(w, k)) + IF k = Event(w) THEN 1 ELSE 0
  <2>1. EntriesOf(w, k)' = {i \in DOMAIN Append(log, e) : Append(log, e)[i].key = k}
        /\ EntriesOf(w, k) = {i \in DOMAIN log : log[i].key = k}
    BY <1>1, <1>4 DEF EntriesOf
  <2>2. e.key = Event(w)
    BY <1>3
  <2>3. IsFiniteSet(EntriesOf(w, k)) /\ Cardinality(EntriesOf(w, k)) \in Nat
    BY EntriesFinite DEF TelemetryInv
  <2>4. CASE k = Event(w)
    <3>1. /\ EntriesOf(w, k)' = EntriesOf(w, k) \cup {Len(log) + 1}
          /\ Len(log) + 1 \notin EntriesOf(w, k)
      BY <1>4, <1>5, <2>1, <2>2, <2>4
    <3>2. QED BY <2>3, <2>4, <3>1, TallyAdded
  <2>5. CASE k # Event(w)
    <3>1. EntriesOf(w, k)' = EntriesOf(w, k)
      BY <1>4, <1>5, <2>1, <2>2, <2>5
    <3>2. QED BY <2>3, <2>5, <3>1
  <2>6. QED BY <2>4, <2>5
<1>7. QED BY <1>6

\* No event is answered by a step that ends no batch.
LEMMA AnsweredKept ==
    ASSUME \A b \in Batches : task'[b].state = "done" =>
              task[b].state = "done" /\ task'[b].events = task[b].events
    PROVE  \A k : Answered(k)' \subseteq Answered(k)
<1>1. \A b \in Done' : b \in Done /\ task'[b].events = task[b].events
  BY DEF Done
<1>2. \A k : Answered(k) = UNION {{b} \X Occurrences(k, task[b].events) : b \in Done}
             /\ Answered(k)' = UNION {{b} \X Occurrences(k, task'[b].events) : b \in Done'}
  BY DEF Answered, Occurrences
<1>3. ASSUME NEW k, NEW x \in Answered(k)' PROVE x \in Answered(k)
  <2>1. PICK b \in Done' : x \in {b} \X Occurrences(k, task'[b].events)
    BY <1>2
  <2>2. b \in Done /\ x \in {b} \X Occurrences(k, task[b].events)
    BY <1>1, <2>1
  <2>3. QED BY <1>2, <2>2
<1>4. QED BY <1>3

\* A run that a step does not touch has handled what it had.
LEMMA UntouchedHandled ==
    ASSUME NEW w \in Workers, worker'[w] = worker[w],
           worker[w].pc # "idle" =>
              task'[worker[w].batch].events = task[worker[w].batch].events
    PROVE  \A k : Handled(w, k)' = Handled(w, k) /\ EntriesOf(w, k)' = EntriesOf(w, k)
BY DEF Handled, HandledEvents, EntriesOf, Occurrences

\* The collector and the users answer no event and log none.
LEMMA UserEvents ==
    ASSUME TelemetryInv, EventsInv, CollectorNext \/ UserNext \/ UNCHANGED vars
    PROVE  EventsInv'
<1>1. worker' = worker /\ logged' = logged
  BY DEF CollectorNext, Appear, Vanish, CollectorScans, Receive, Flush, PostFails, Restart,
         SetEnabled, PostAccepted, UserNext, UpdateStatus, ReportSighting, SetPolicy,
         OpenRegister, CommitRegister, vars, storing
<1>2. \A b \in Batches :
         \/ task'[b] = task[b]
         \/ task[b].state = "none" /\ task'[b].state = "queued"
  <2>1. (task' = task) \/ (\E b \in Batches : PostAccepted(b))
    BY DEF CollectorNext, Appear, Vanish, CollectorScans, Receive, Flush, PostFails, Restart,
           SetEnabled, UserNext, UpdateStatus, ReportSighting, SetPolicy, OpenRegister,
           CommitRegister, vars
  <2>2. ASSUME NEW b \in Batches, PostAccepted(b)
        PROVE  /\ \A c \in Batches \ {b} : task'[c] = task[c]
               /\ task[b].state = "none" /\ task'[b].state = "queued"
    <3>1. PICK put : /\ put = [state |-> "queued", events |-> sending]
                     /\ task' = [task EXCEPT ![b] = put]
      BY <2>2 DEF PostAccepted
    <3>2. task[b].state = "none" /\ task \in [Batches -> Task]
      BY <2>2 DEF PostAccepted, TelemetryInv, TypeOK
    <3>3. QED BY <3>1, <3>2
  <2>3. CASE task' = task
    BY <2>3
  <2>4. ASSUME NEW b \in Batches, PostAccepted(b), NEW c \in Batches
        PROVE  \/ task'[c] = task[c]
               \/ task[c].state = "none" /\ task'[c].state = "queued"
    BY <2>2, <2>4
  <2>5. QED BY <2>1, <2>3, <2>4
<1>3. \A k : Answered(k)' \subseteq Answered(k)
  BY <1>2, AnsweredKept
<1>4. ASSUME NEW w \in Workers
      PROVE  \A k : Handled(w, k)' = Handled(w, k) /\ EntriesOf(w, k)' = EntriesOf(w, k)
  <2>1. worker[w].pc # "idle" =>
           worker[w].batch \in Batches /\ task[worker[w].batch].state = "taken"
    BY DEF TelemetryInv, RunsInv, Working
  <2>2. QED BY <1>1, <1>2, <2>1, UntouchedHandled
<1>5. ASSUME NEW k \in Keys PROVE \E l : Kept(k, l)'
  <2>1. PICK l : Kept(k, l)
    BY DEF EventsInv
  <2>2. Kept(k, l)'
    BY <1>1, <1>3, <1>4, <2>1 DEF Kept
  <2>3. QED BY <2>2
<1>6. QED BY <1>1, <1>5 DEF EventsInv

\* A step of run w.
LEMMA RunEvents ==
    ASSUME TelemetryInv, EventsInv, NEW w \in Workers, NEW run,
           worker' = [worker EXCEPT ![w] = run], run.pc = "ack" => run.log = <<>>,
           \A v \in Workers \ {w} : worker[v].pc # "idle" =>
              task'[worker[v].batch].events = task[worker[v].batch].events,
           \A k \in Keys : Keeps(w, k)
    PROVE  EventsInv'
<1>1. /\ TypeOK /\ worker'[w] = run /\ \A v \in Workers \ {w} : worker'[v] = worker[v]
  BY DEF TelemetryInv, TypeOK
<1>2. \A v \in Workers \ {w} : \A k : Handled(v, k)' = Handled(v, k)
                                      /\ EntriesOf(v, k)' = EntriesOf(v, k)
  BY <1>1, UntouchedHandled
<1>3. \A k \in Keys : \E l : Kept(k, l)'
  BY <1>1, <1>2, KeptOn DEF EventsInv
<1>4. QED BY <1>1, <1>3 DEF EventsInv

\* A run that handles an event logs it.
LEMMA HandleEvents ==
    ASSUME TelemetryInv, EventsInv, NEW w \in Workers,
           HandleDomainVisit(w) \/ HandleLocalSignal(w)
    PROVE  EventsInv'
<1>0. /\ worker[w].pc = "event" /\ worker[w].pc # "idle" /\ ~Exhausted(w) /\ TypeOK
      /\ worker[w] \in Run /\ worker \in [Workers -> Run]
  BY DEF HandleDomainVisit, HandleLocalSignal, TelemetryInv, TypeOK
<1>1. ASSUME NEW flagged \in BOOLEAN, NEW run, Handles(w, run), run.batch = worker[w].batch,
             run.log = Append(worker[w].log, [key |-> Event(w), flagged |-> flagged]),
             \/ run.pc = "event" /\ run.at = worker[w].at + 1
             \/ run.pc = "create" /\ run.at = worker[w].at
      PROVE  EventsInv'
  <2>1. /\ worker' = [worker EXCEPT ![w] = run] /\ worker'[w] = run
        /\ UNCHANGED <<task, logged>>
    BY <1>0, <1>1 DEF Handles, storing
  <2>2. PICK at \in Nat, events \in Seq(Keys) :
           /\ at = worker[w].at /\ events = task[worker[w].batch].events
           /\ at >= 1 /\ at <= Len(events) /\ events[at] = Event(w)
    <3>1. worker[w].batch \in Batches /\ task[worker[w].batch] \in Task
      BY <1>0 DEF TelemetryInv, RunsInv, Working, TypeOK
    <3>2. task[worker[w].batch].events \in Seq(Keys)
      BY <3>1 DEF Task
    <3>3. QED BY <1>0, <3>2, EventTypes DEF Event
  <2>3. DOMAIN events = 1 .. Len(events) /\ Len(events) \in Nat
    OBVIOUS
  <2>4. HandledEvents(run, events) \subseteq HandledEvents(worker[w], events) \cup {at}
    BY <1>0, <1>1, <2>2, <2>3 DEF HandledEvents
  <2>5. ASSUME NEW k, NEW x \in Handled(w, k)', x \notin Handled(w, k)
        PROVE  k = Event(w) /\ x = <<worker[w].batch, at>>
    <3>1. PICK i \in Occurrences(k, events) \cap HandledEvents(run, events) :
             x = <<worker[w].batch, i>>
      BY <1>1, <2>1, <2>2, <2>5 DEF Handled, HandledEvents, Occurrences
    <3>2. i \notin HandledEvents(worker[w], events)
      BY <1>0, <2>2, <2>5, <3>1 DEF Handled
    <3>3. i = at /\ events[i] = k
      BY <2>4, <3>1, <3>2 DEF Occurrences
    <3>4. QED BY <2>2, <3>1, <3>3
  <2>6. \A k : Cardinality(EntriesOf(w, k)')
                  = Cardinality(EntriesOf(w, k)) + IF k = Event(w) THEN 1 ELSE 0
    BY <1>0, <1>1, <2>1, EntryLogged
  <2>7. \A k : Answered(k)' \subseteq Answered(k)
    BY <2>1, AnsweredKept
  <2>8. ASSUME NEW k \in Keys PROVE Keeps(w, k)
    <3>1. Cardinality(EntriesOf(w, k)) \in Nat
      BY <1>0, EntriesFinite
    <3>2. CASE k = Event(w)
      <4>1. Handled(w, k)' \subseteq Handled(w, k) \cup {<<worker[w].batch, at>>}
        BY <2>5
      <4>2. QED BY <2>1, <2>6, <2>7, <3>2, <4>1 DEF Keeps
    <3>3. CASE k # Event(w)
      <4>1. Handled(w, k)' \subseteq Handled(w, k)
        BY <2>5, <3>3
      <4>2. Cardinality(EntriesOf(w, k)') = Cardinality(EntriesOf(w, k))
        BY <2>6, <3>1, <3>3
      <4>3. QED BY <2>1, <2>7, <4>1, <4>2 DEF Keeps
    <3>4. QED BY <3>2, <3>3
  <2>9. QED BY <1>1, <2>1, <2>8, RunEvents
<1>2. ASSUME NEW flagged \in BOOLEAN
      PROVE  LET next == Logged(w, flagged) IN
             /\ next \in Run /\ next.pc = "event" /\ next.batch = worker[w].batch
             /\ next.at = worker[w].at
             /\ next.log = Append(worker[w].log, [key |-> Event(w), flagged |-> flagged])
  <2>1. Logged(w, flagged).log = Append(worker[w].log, [key |-> Event(w), flagged |-> flagged])
    BY <1>0 DEF Logged, Run
  <2>2. QED BY <1>0, <2>1, LoggedTypes
<1>3. CASE Flag(w)
  <2>1. PICK next : next = Logged(w, TRUE)
    OBVIOUS
  <2>2. /\ next \in Run /\ next.pc = "event" /\ next.batch = worker[w].batch
        /\ next.at = worker[w].at /\ TRUE \in BOOLEAN
        /\ next.log = Append(worker[w].log, [key |-> Event(w), flagged |-> TRUE])
    BY <1>2, <2>1
  <2>3. ASSUME NEW s, Handles(w, [next EXCEPT !.at = @ + 1,
                                              !.dirty = {RepeatOf(s, Flushed(w))}])
        PROVE  EventsInv'
    <3>1. PICK run : run = [next EXCEPT !.at = @ + 1, !.dirty = {RepeatOf(s, Flushed(w))}]
      OBVIOUS
    <3>2. /\ run.log = next.log /\ run.pc = next.pc /\ run.batch = next.batch
          /\ run.at = next.at + 1
      BY <2>2, <3>1 DEF Run
    <3>3. Handles(w, run)
      BY <2>3, <3>1
    <3>4. QED BY <1>1, <2>2, <3>2, <3>3
  <2>4. ASSUME Handles(w, [next EXCEPT !.pc = "create",
                                       !.blocked = (Verdict(Event(w)) = "blocked")])
        PROVE  EventsInv'
    <3>1. PICK run : run = [next EXCEPT !.pc = "create",
                                        !.blocked = (Verdict(Event(w)) = "blocked")]
      OBVIOUS
    <3>2. /\ run.log = next.log /\ run.pc = "create" /\ run.batch = next.batch
          /\ run.at = next.at
      BY <2>2, <3>1 DEF Run
    <3>3. Handles(w, run)
      BY <2>4, <3>1
    <3>4. QED BY <1>1, <2>2, <3>2, <3>3
  <2>5. QED BY <1>3, <2>1, <2>3, <2>4 DEF Flag
<1>4. CASE Handles(w, [Logged(w, FALSE) EXCEPT !.at = @ + 1])
  <2>1. PICK next : next = Logged(w, FALSE)
    OBVIOUS
  <2>2. /\ next \in Run /\ next.pc = "event" /\ next.batch = worker[w].batch
        /\ next.at = worker[w].at /\ FALSE \in BOOLEAN
        /\ next.log = Append(worker[w].log, [key |-> Event(w), flagged |-> FALSE])
    BY <1>2, <2>1
  <2>3. PICK run : run = [next EXCEPT !.at = @ + 1]
    OBVIOUS
  <2>4. /\ run.log = next.log /\ run.pc = "event" /\ run.batch = next.batch
        /\ run.at = next.at + 1
    BY <2>2, <2>3 DEF Run
  <2>5. Handles(w, run)
    BY <1>4, <2>1, <2>3
  <2>6. QED BY <1>1, <2>2, <2>4, <2>5
<1>5. QED BY <1>3, <1>4 DEF HandleDomainVisit, HandleLocalSignal

\* The steps of a run that handle no event.
LEMMA RunStepEvents ==
    ASSUME TelemetryInv, FlushInv, EventsInv, NEW w \in Workers, RunNext(w)
    PROVE  EventsInv'
<1>0. /\ TypeOK /\ worker[w] \in Run /\ worker \in [Workers -> Run]
      /\ \A v \in Workers : Working(worker[v], task)
      /\ worker[w].pc # "idle" =>
            worker[w].batch \in Batches /\ task[worker[w].batch] \in Task
      /\ \A k \in Keys : logged[k].all \in Nat
  BY DEF TelemetryInv, TypeOK, RunsInv, Working
<1>1. ASSUME NEW b \in Batches, TakeBatch(w, b) PROVE EventsInv'
  <2>1. PICK run : run = [IdleRun EXCEPT !.pc = "event", !.batch = b]
    OBVIOUS
  <2>2. worker' = [worker EXCEPT ![w] = run] /\ worker'[w] = run
    BY <1>0, <1>1, <2>1 DEF TakeBatch
  <2>3. run.log = <<>> /\ run.pc = "event" /\ run.at = 1
    BY <2>1 DEF IdleRun
  <2>4. PICK took : took = [task[b] EXCEPT !.state = "taken"]
    OBVIOUS
  <2>5. /\ task' = [task EXCEPT ![b] = took] /\ logged' = logged
        /\ took.state = "taken" /\ took.events = task[b].events /\ task[b].state = "queued"
    BY <1>0, <1>1, <2>4 DEF TakeBatch, storing, TypeOK, Task
  <2>6. \A c \in Batches : task'[c].events = task[c].events
                           /\ (c # b => task'[c] = task[c]) /\ task'[b] = took
    BY <1>0, <2>5 DEF TypeOK
  <2>7. \A k : Answered(k)' \subseteq Answered(k)
    <3>1. \A c \in Batches : task'[c].state = "done" =>
             task[c].state = "done" /\ task'[c].events = task[c].events
      BY <2>5, <2>6
    <3>2. QED BY <3>1, AnsweredKept
  <2>8. ASSUME NEW k \in Keys PROVE Keeps(w, k)
    <3>1. Handled(w, k)' = {}
      <4>1. PICK events \in Seq(Keys) : events = task'[worker'[w].batch].events
        <5>1. worker'[w].batch = b /\ task[b].events \in Seq(Keys)
          BY <1>0, <2>1, <2>2 DEF IdleRun, TypeOK, Task
        <5>2. QED BY <2>6, <5>1
      <4>2. HandledEvents(run, events) = {}
        BY <2>3 DEF HandledEvents
      <4>3. QED BY <2>2, <4>1, <4>2 DEF Handled, HandledEvents
    <3>2. EntriesOf(w, k)' = {} /\ EntriesOf(w, k) = {}
      BY <1>1, <2>2, <2>3 DEF EntriesOf, FlushInv, Flushing, IdleRun, TakeBatch
    <3>3. QED BY <2>5, <2>7, <3>1, <3>2 DEF Keeps
  <2>9. \A v \in Workers \ {w} : worker[v].pc # "idle" =>
              task'[worker[v].batch].events = task[worker[v].batch].events
    BY <1>0, <2>6 DEF Working
  <2>10. QED BY <2>2, <2>3, <2>8, <2>9, RunEvents
<1>2. CASE HandleDomainVisit(w) \/ HandleLocalSignal(w)
  BY <1>2, HandleEvents
<1>3. ASSUME NEW run, worker' = [worker EXCEPT ![w] = run], task' = task,
             worker[w].pc # "idle", run.pc # "idle", run.batch = worker[w].batch,
             \A events \in Seq(Keys) : events = task[worker[w].batch].events =>
                HandledEvents(run, events) \subseteq HandledEvents(worker[w], events),
             \/ /\ run.log = worker[w].log /\ logged' = logged /\ run.pc # "ack"
             \/ run.log = <<>> /\ logged' = LogAfter(w)
      PROVE  EventsInv'
  <2>1. worker'[w] = run
    BY <1>0, <1>3
  <2>2. \A k : Answered(k)' \subseteq Answered(k)
    BY <1>3, AnsweredKept
  <2>3. PICK events \in Seq(Keys) : events = task[worker[w].batch].events
    BY <1>0, <1>3 DEF Task
  <2>4. \A k : Handled(w, k)' \subseteq Handled(w, k)
    <3>1. \A i \in HandledEvents(run, events) : i \in HandledEvents(worker[w], events)
      BY <1>3, <2>3
    <3>2. ASSUME NEW k, NEW x \in Handled(w, k)' PROVE x \in Handled(w, k)
      <4>1. PICK i \in Occurrences(k, events) \cap HandledEvents(run, events) :
               x = <<worker[w].batch, i>>
        BY <1>3, <2>1, <2>3, <3>2 DEF Handled, HandledEvents, Occurrences
      <4>2. i \in HandledEvents(worker[w], events)
        BY <3>1, <4>1
      <4>3. QED BY <1>3, <2>3, <4>1, <4>2 DEF Handled
    <3>3. QED BY <3>2
  <2>5. ASSUME NEW k \in Keys PROVE Keeps(w, k)
    <3>1. CASE run.log = worker[w].log /\ logged' = logged
      <4>1. EntriesOf(w, k)' = EntriesOf(w, k)
        BY <2>1, <3>1 DEF EntriesOf
      <4>2. QED BY <2>2, <2>4, <3>1, <4>1 DEF Keeps
    <3>2. CASE run.log = <<>> /\ logged' = LogAfter(w)
      <4>1. EntriesOf(w, k)' = {}
        BY <2>1, <3>2 DEF EntriesOf
      <4>2. logged'[k].all = logged[k].all + Cardinality(EntriesOf(w, k))
        BY <3>2 DEF LogAfter, EntriesOf
      <4>3. QED BY <2>2, <2>4, <4>1, <4>2 DEF Keeps
    <3>3. QED BY <1>3, <3>1, <3>2
  <2>6. QED BY <1>3, <2>5, RunEvents
<1>4. CASE CreateSighting(w)
  <2>1. PICK run : /\ run = [worker[w] EXCEPT !.pc = AfterSighting(worker[w].blocked),
                                             !.log = <<>>, !.held = {},
                                             !.row = Len(sighting) + 1]
                   /\ worker' = [worker EXCEPT ![w] = run]
    BY <1>4 DEF CreateSighting
  <2>2. worker[w].pc = "create" /\ logged' = LogAfter(w) /\ task' = task
    BY <1>4 DEF CreateSighting
  <2>3. /\ run.log = <<>> /\ run.batch = worker[w].batch /\ run.at = worker[w].at
        /\ run.pc = AfterSighting(worker[w].blocked)
    BY <1>0, <2>1 DEF Run
  <2>4. run.pc \in {"incident", "notify"}
    BY <2>3 DEF AfterSighting
  <2>5. \A events : HandledEvents(run, events) \subseteq HandledEvents(worker[w], events)
    BY <2>2, <2>3, <2>4 DEF HandledEvents
  <2>6. worker[w].pc # "idle" /\ run.pc # "idle"
    BY <2>2, <2>4
  <2>7. QED BY <1>3, <2>1, <2>2, <2>3, <2>5, <2>6
<1>5. CASE CreateIncident(w) \/ Notify(w)
  <2>1. /\ worker[w].pc \in {"incident", "notify"} /\ UNCHANGED <<task, logged>>
    BY <1>5 DEF CreateIncident, Notify
  <2>2. PICK run : /\ worker' = [worker EXCEPT ![w] = run]
                   /\ \/ run = [worker[w] EXCEPT !.pc = "notify"]
                      \/ run = [worker[w] EXCEPT !.pc = "event", !.at = @ + 1, !.row = 0]
    <3>1. CASE CreateIncident(w)
      BY <3>1 DEF CreateIncident
    <3>2. CASE Notify(w)
      BY <3>2 DEF Notify
    <3>3. QED BY <1>5, <3>1, <3>2
  <2>3. /\ run.log = worker[w].log /\ run.batch = worker[w].batch
        /\ \/ run.pc = "notify" /\ run.at = worker[w].at
           \/ run.pc = "event" /\ run.at = worker[w].at + 1
    BY <1>0, <2>2 DEF Run
  <2>4. \A events \in Seq(Keys) :
           HandledEvents(run, events) \subseteq HandledEvents(worker[w], events)
    <3>1. worker[w].at \in Nat
      BY <1>0 DEF Run
    <3>2. ASSUME NEW events \in Seq(Keys), NEW i \in HandledEvents(run, events)
          PROVE  i \in HandledEvents(worker[w], events)
      <4>1. i \in DOMAIN events /\ i \in Nat
        BY DEF HandledEvents
      <4>2. i < worker[w].at \/ i = worker[w].at
        BY <2>3, <3>1, <4>1 DEF HandledEvents
      <4>3. QED BY <2>1, <4>1, <4>2 DEF HandledEvents
    <3>3. QED BY <3>2
  <2>5. worker[w].pc # "idle" /\ run.pc # "idle" /\ run.pc # "ack"
    BY <2>1, <2>3
  <2>6. QED BY <1>3, <2>1, <2>2, <2>3, <2>4, <2>5
<1>6. CASE CommitBatch(w)
  <2>1. PICK run : /\ run = [IdleRun EXCEPT !.pc = "ack", !.batch = worker[w].batch]
                   /\ worker' = [worker EXCEPT ![w] = run]
    BY <1>6 DEF CommitBatch
  <2>2. /\ worker[w].pc = "event" /\ Exhausted(w) /\ logged' = LogAfter(w) /\ task' = task
    BY <1>6 DEF CommitBatch
  <2>3. run.log = <<>> /\ run.pc = "ack" /\ run.batch = worker[w].batch
    BY <2>1 DEF IdleRun
  <2>4. ASSUME NEW events \in Seq(Keys), events = task[worker[w].batch].events
        PROVE  HandledEvents(run, events) \subseteq HandledEvents(worker[w], events)
    <3>1. worker[w].at \in Nat /\ worker[w].at > Len(events)
      BY <1>0, <2>2, <2>4 DEF Run, Exhausted
    <3>2. \A i \in DOMAIN events : i < worker[w].at
      BY <3>1
    <3>3. QED BY <3>2 DEF HandledEvents
  <2>5. worker[w].pc # "idle" /\ run.pc # "idle"
    BY <2>2, <2>3
  <2>6. QED BY <1>3, <2>1, <2>2, <2>3, <2>4, <2>5
<1>7. CASE AckBatch(w) \/ FailBatch(w) \/ WorkerLost(w)
  <2>1. PICK state : /\ Ended(w, state) /\ worker[w].pc # "idle" /\ logged' = logged
                     /\ state = "done" => worker[w].pc = "ack"
    BY <1>7 DEF AckBatch, FailBatch, WorkerLost, storing, AfterLoss
  <2>2. worker' = [worker EXCEPT ![w] = IdleRun] /\ worker'[w] = IdleRun
    BY <1>0, <2>1 DEF Ended
  <2>3. PICK b \in Batches : b = worker[w].batch /\ task[b] \in Task
    BY <1>0, <2>1
  <2>4. PICK over : over = [task[b] EXCEPT !.state = state]
    OBVIOUS
  <2>5. /\ task' = [task EXCEPT ![b] = over]
        /\ over.state = state /\ over.events = task[b].events
    BY <2>1, <2>3, <2>4 DEF Ended, Task
  <2>6. \A c \in Batches : task'[c].events = task[c].events
                           /\ (c # b => task'[c] = task[c]) /\ task'[b] = over
    BY <1>0, <2>5 DEF TypeOK
  <2>7. IdleRun.pc = "idle" /\ IdleRun.log = <<>>
    BY DEF IdleRun
  <2>8. ASSUME NEW k \in Keys PROVE Keeps(w, k)
    <3>1. Handled(w, k)' = {} /\ EntriesOf(w, k)' = {}
      BY <2>2, <2>7 DEF Handled, EntriesOf
    <3>2. CASE state # "done"
      <4>1. \A c \in Batches : task'[c].state = "done" =>
               task[c].state = "done" /\ task'[c].events = task[c].events
        BY <2>5, <2>6, <3>2
      <4>2. Answered(k)' \subseteq Answered(k)
        BY <4>1, AnsweredKept
      <4>3. QED BY <2>1, <3>1, <4>2 DEF Keeps
    <3>3. CASE state = "done"
      <4>1. EntriesOf(w, k) = {}
        BY <2>1, <3>3 DEF EventsInv, EntriesOf
      <4>2. ASSUME NEW x \in Answered(k)', x \notin Answered(k)
            PROVE  x \in Handled(w, k)
        <5>1. PICK c \in Done' : x \in {c} \X Occurrences(k, task'[c].events)
          BY DEF Answered, Occurrences
        <5>2. c \in Batches /\ task'[c].events = task[c].events
          BY <2>6, <5>1 DEF Done
        <5>3. c = b
          <6>1. CASE c # b
            <7>1. c \in Done
              BY <2>6, <5>1, <6>1 DEF Done
            <7>2. QED BY <4>2, <5>1, <5>2, <7>1 DEF Answered
          <6>2. QED BY <6>1
        <5>4. PICK i \in Occurrences(k, task[b].events) : x = <<b, i>>
          BY <5>1, <5>2, <5>3
        <5>5. i \in HandledEvents(worker[w], task[b].events)
          BY <2>1, <3>3 DEF HandledEvents, Occurrences
        <5>6. QED BY <2>1, <2>3, <5>4, <5>5 DEF Handled
      <4>3. Answered(k)' \subseteq Answered(k)
                 \cup IF EntriesOf(w, k) = {} THEN Handled(w, k) ELSE {}
        BY <4>1, <4>2
      <4>4. QED BY <2>1, <3>1, <4>3 DEF Keeps
    <3>4. QED BY <3>2, <3>3
  <2>9. \A v \in Workers \ {w} : worker[v].pc # "idle" =>
              task'[worker[v].batch].events = task[worker[v].batch].events
    BY <1>0, <2>6 DEF Working
  <2>10. QED BY <2>2, <2>7, <2>8, <2>9, RunEvents
<1>8. QED BY <1>1, <1>2, <1>4, <1>5, <1>6, <1>7 DEF RunNext

-----------------------------------------------------------------------------
(* The counts are true                                                     *)

\* Nothing is counted, logged or answered at the start.
LEMMA CountsInit == Init => FlushInv /\ CountsInv /\ EventsInv
<1> SUFFICES ASSUME Init PROVE FlushInv /\ CountsInv /\ EventsInv
  OBVIOUS
<1>1. /\ \A w \in Workers : worker[w] = IdleRun
      /\ sighting = <<>> /\ ~overlapped
      /\ \A k \in Keys : logged[k].all = 0 /\ logged[k].flagged = 0
      /\ \A b \in Batches : task[b].state = "none"
  BY DEF Init, StartFrom, Empty
<1>2. /\ IdleRun.pc = "idle" /\ IdleRun.dirty = {} /\ IdleRun.held = {}
      /\ IdleRun.log = <<>>
  BY DEF IdleRun
<1>3. FlushInv
  BY <1>1, <1>2 DEF FlushInv, Flushing, Flushed
<1>4. IsFiniteSet({}) /\ Cardinality({}) = 0 /\ {} \ {} = {}
  BY FS_EmptySet
<1>5. ASSUME NEW k \in Keys PROVE Tallied(k, {}) /\ Kept(k, {})
  <2>1. Counted(k) = {} /\ Answered(k) = {}
    BY <1>1 DEF Counted, Answered, Done
  <2>2. \A w \in Workers : /\ Wanted(w, k) = {} /\ Owed(w, k) = 0 /\ FlagsOf(w, k) = {}
                           /\ Handled(w, k) = {} /\ EntriesOf(w, k) = {}
    BY <1>1, <1>2, <1>3, IdleWants DEF Handled, EntriesOf
  <2>3. \A w \in Workers :
           /\ Cardinality(Wanted(w, k) \ {}) = 0 /\ Cardinality(FlagsOf(w, k)) = 0
           /\ Cardinality(Handled(w, k) \ {}) = 0 /\ Cardinality(EntriesOf(w, k)) = 0
           /\ IsFiniteSet(Wanted(w, k)) /\ IsFiniteSet(Handled(w, k))
    BY <1>4, <2>2
  <2>4. QED BY <1>1, <1>4, <2>1, <2>2, <2>3 DEF Tallied, Kept
<1>6. QED BY <1>1, <1>2, <1>3, <1>5 DEF CountsInv, EventsInv

\* What the tallies bound.
LEMMA TalliesBound == TypeOK /\ CountsInv /\ EventsInv => CountsAreTrue
<1> SUFFICES ASSUME TypeOK, CountsInv, EventsInv, NEW k \in Keys
             PROVE  /\ Cardinality(Counted(k)) <= logged[k].flagged
                    /\ ~overlapped => Cardinality(Counted(k)) = logged[k].flagged
                    /\ Cardinality(Answered(k)) <= logged[k].all
  BY DEF CountsAreTrue
<1>1. logged[k].flagged \in Nat /\ logged[k].all \in Nat
  BY DEF TypeOK
<1>2. PICK m : Tallied(k, m)
  BY DEF CountsInv
<1>3. PICK l : Kept(k, l)
  BY DEF EventsInv
<1>4. /\ Cardinality(Counted(k)) \in Nat /\ Cardinality(m) \in Nat
      /\ Cardinality(Counted(k)) <= Cardinality(m)
  BY <1>2, TallySmaller DEF Tallied
<1>5. /\ Cardinality(Answered(k)) \in Nat /\ Cardinality(l) \in Nat
      /\ Cardinality(Answered(k)) <= Cardinality(l)
  BY <1>3, TallySmaller DEF Kept
<1>6. Cardinality(Counted(k)) <= logged[k].flagged
  BY <1>1, <1>2, <1>4 DEF Tallied
<1>7. ~overlapped => Cardinality(Counted(k)) = logged[k].flagged
  BY <1>2 DEF Tallied
<1>8. Cardinality(Answered(k)) <= logged[k].all
  BY <1>1, <1>3, <1>5 DEF Kept
<1>9. QED BY <1>6, <1>7, <1>8

\* The sightings of a key never count more than its flagged events, and all of them
\* unless two tasks ran at once; every event of an acknowledged batch is logged,
\* whatever was lost, redelivered or rolled back (ingest_events, record_repeat_sighting,
\* create_sighting's commit).
THEOREM CountsHold == Spec => []CountsAreTrue
<1> DEFINE Inv == TelemetryInv /\ SoloInv /\ FlushInv /\ CountsInv /\ EventsInv
<1>1. Init => SoloInv /\ FlushInv /\ CountsInv /\ EventsInv
  BY CountsInit DEF Init, StartFrom, SoloInv, IdleRun
<1>2. ASSUME TelemetryInv, SoloInv, FlushInv, CountsInv, EventsInv, [Next]_vars
      PROVE  SoloInv' /\ FlushInv' /\ CountsInv' /\ EventsInv'
  <2>1. CASE CollectorNext \/ UserNext \/ UNCHANGED vars
    BY <1>2, <2>1, SoloStep, UserCounts, UserEvents
  <2>2. ASSUME NEW w \in Workers, RunNext(w)
        PROVE  SoloInv' /\ FlushInv' /\ CountsInv' /\ EventsInv'
    BY <1>2, <2>2, SoloStep, RunStepCounts, RunStepEvents
  <2>3. QED BY <1>2, <2>1, <2>2 DEF Next
<1>3. TelemetryInv /\ CountsInv /\ EventsInv => CountsAreTrue
  BY TalliesBound DEF TelemetryInv
<1>4. QED BY <1>1, <1>2, <1>3, InductiveInvariant, PTL DEF Spec

=============================================================================
