--------------------------- MODULE CollectionsProofs ---------------------------
(***************************************************************************)
(* Proofs about Collections, for any number of documents, calls and        *)
(* failures.                                                               *)
(***************************************************************************)
EXTENDS Collections, FiniteSetTheorems, TLAPS

-----------------------------------------------------------------------------
(* The inductive invariant                                                 *)

Uploading == {"save", "extract", "commit", "fail"}

\* One upload of a document is open at a time, and no delete of it until its row is
\* there; the row stays as the upload left it, or is gone.
UploadsInv ==
    \A u \in Callers :
       /\ call[u].pc = "idle" => call[u].doc = {}
       /\ call[u].pc \in Uploading =>
             /\ call[u].doc # {}
             /\ \A v \in Callers \ {u} :
                   call[v].pc \in Uploading => call[u].doc \cap call[v].doc = {}
       /\ call[u].pc = "save" => \A d \in call[u].doc : document[d] = "none"
       /\ call[u].pc \in {"extract", "commit", "fail"} =>
             \A d \in call[u].doc : document[d] \in {"none", "processing"}

\* Documents come one at a time.
FiniteInv ==
    /\ IsFiniteSet(DOMAIN embedding)
    /\ \A u \in Callers : IsFiniteSet(call[u].doc) /\ IsFiniteSet(DOMAIN call[u].seen)
    /\ \A u \in Callers : \A d, e \in call[u].doc : d = e

\* Without overlap there is one call, and what it loaded is what is stored.
AloneInv ==
    ~overlapped =>
       \A u \in Callers : call[u].pc # "idle" =>
          /\ \A v \in Callers \ {u} : call[v].pc = "idle"
          /\ call[u].read = collection /\ collection.state = "open"

\* The vectors it is about to commit are those of the corpus that will be there, in
\* the space of the vectorizer it has dumped.
PendingInv ==
    ~overlapped =>
       \A u \in Callers :
          /\ call[u].pc = "commit" =>
                /\ call[u].seen = embedding
                /\ call[u].space = IF tfidf THEN DOMAIN embedding \cup call[u].doc
                                   ELSE Pretrained
                /\ tfidf => vectorizer = call[u].space
          /\ call[u].pc = "removed" =>
                /\ DOMAIN call[u].seen = DOMAIN embedding \ call[u].doc
                /\ \A d \in DOMAIN call[u].seen : call[u].seen[d] = embedding[d]
                /\ call[u].space = IF tfidf THEN DOMAIN call[u].seen ELSE Pretrained
                /\ tfidf /\ DOMAIN call[u].seen # {} => vectorizer = call[u].space

\* The row names a vectorizer while there is a corpus, and it is that of the corpus
\* unless a change of the files is under way or was not committed.
FilesInv ==
    ~overlapped =>
       /\ collection.state # "open" => DOMAIN embedding = {}
       /\ collection.state = "open" /\ tfidf =>
             (collection.path <=> DOMAIN embedding # {})
       /\ /\ ~torn /\ tfidf /\ DOMAIN embedding # {}
          /\ \A u \in Callers : call[u].pc \notin {"commit", "removed", "drop"}
          => vectorizer = DOMAIN embedding

Inv == /\ CollectionsInv /\ UploadsInv /\ FiniteInv
       /\ AloneInv /\ PendingInv /\ OneSpace /\ FilesInv

-----------------------------------------------------------------------------
(* Types and the initial states                                            *)

LEMMA NoChunksIsEmpty == NoChunks \in Embeddings /\ DOMAIN NoChunks = {}
<1>1. NoChunks \in [{} -> Spaces]
  BY DEF NoChunks
<1>2. {} \in SUBSET Docs
  OBVIOUS
<1>3. QED BY <1>1, <1>2 DEF Embeddings, NoChunks

LEMMA EmbeddingsMap ==
    /\ \A f \in Embeddings : DOMAIN f \subseteq Docs /\ \A d \in DOMAIN f : f[d] \in Spaces
    /\ \A docs \in SUBSET Docs : [docs -> Spaces] \subseteq Embeddings
BY DEF Embeddings

LEMMA NoCallIsCall ==
    /\ NoCall \in Call /\ NoCall.pc = "idle" /\ NoCall.doc = {}
    /\ DOMAIN NoCall.seen = {}
BY NoChunksIsEmpty
   DEF NoCall, Call, Stages, Collection, NoCollection, Pretrained, Spaces, Embedders

LEMMA InitHolds == Init => Inv
<1> SUFFICES ASSUME Init PROVE Inv
  OBVIOUS
<1>1. TypeOK
  BY NoCallIsCall, NoChunksIsEmpty
     DEF Init, TypeOK, Collection, NoCollection, Embedders, Spaces, NoFile
<1>2. DOMAIN embedding = {} /\ \A u \in Callers : call[u] = NoCall
  BY NoChunksIsEmpty DEF Init
<1>3. ReadyHasChunks
  BY <1>2 DEF Init, ReadyHasChunks
<1>4. CountsAreBounded
  BY DEF Init, CountsAreBounded, NoCollection
<1>5. UploadsInv /\ AloneInv /\ PendingInv
  BY <1>2, NoCallIsCall DEF UploadsInv, AloneInv, PendingInv, Uploading
<1>6. FiniteInv
  BY <1>2, NoCallIsCall, FS_EmptySet DEF FiniteInv
<1>7. OneSpace /\ FilesInv
  BY <1>2 DEF OneSpace, InOneSpace, FilesInv, Init, NoCollection
<1>8. QED BY <1>1, <1>3, <1>4, <1>5, <1>6, <1>7 DEF Inv, CollectionsInv

-----------------------------------------------------------------------------
(* Opening                                                                 *)

LEMMA CreateSteps ==
    ASSUME Inv, NEW p \in Embedders, CreateCollection(p)
    PROVE  Inv'
<1> USE DEF Inv, CollectionsInv
<1>1. /\ collection.state = "none"
      /\ UNCHANGED <<document, embedding, vectorizer, uploaded, call, overlapped, torn>>
  BY DEF CreateCollection, files
<1>2. /\ collection' \in Collection /\ collection'.state = "open" /\ ~collection'.path
      /\ collection'.documents = 0 /\ collection'.chunks = 0
  BY DEF CreateCollection, NoCollection, Collection
<1>3. TypeOK'
  BY <1>1, <1>2 DEF TypeOK
<1>4. ReadyHasChunks' /\ UploadsInv' /\ FiniteInv'
  BY <1>1 DEF ReadyHasChunks, UploadsInv, FiniteInv
<1>5. ~overlapped => DOMAIN embedding = {} /\ \A u \in Callers : call[u].pc = "idle"
  BY <1>1 DEF AloneInv, FilesInv
<1>6. CountsAreBounded'
  BY <1>1, <1>2, <1>5, FS_EmptySet DEF CountsAreBounded
<1>7. AloneInv' /\ PendingInv'
  BY <1>1, <1>5 DEF AloneInv, PendingInv
<1>8. OneSpace' /\ FilesInv'
  BY <1>1, <1>2, <1>5 DEF OneSpace, InOneSpace, FilesInv
<1>9. QED BY <1>3, <1>4, <1>6, <1>7, <1>8

\* What Begin makes of the calls.
LEMMA Begins ==
    ASSUME TypeOK, NEW u \in Callers, NEW pc \in Stages \ {"idle"}, NEW docs \in SUBSET Docs,
           Begin(u, pc, docs)
    PROVE  /\ call' \in [Callers -> Call] /\ overlapped' \in BOOLEAN
           /\ call[u].pc = "idle" /\ collection.state = "open"
           /\ call'[u].pc = pc /\ call'[u].doc = docs /\ call'[u].read = collection
           /\ call'[u].seen = NoChunks
           /\ \A v \in Callers \ {u} : call'[v] = call[v]
           /\ ~overlapped' => ~overlapped /\ \A v \in Callers : call[v].pc = "idle"
<1> DEFINE c == [NoCall EXCEPT !.pc = pc, !.doc = docs, !.read = collection]
<1>1. c \in Call
  BY NoCallIsCall DEF Call, TypeOK
<1>2. c.pc = pc /\ c.doc = docs /\ c.read = collection /\ c.seen = NoChunks
  BY DEF NoCall
<1>3. /\ call' = [call EXCEPT ![u] = c] /\ call[u].pc = "idle" /\ collection.state = "open"
      /\ overlapped' = (overlapped \/ \E v \in Callers : call[v].pc # "idle")
  BY DEF Begin
<1> HIDE DEF c
<1>4. QED BY <1>1, <1>2, <1>3 DEF TypeOK

LEMMA OpenSteps ==
    ASSUME Inv, NEW u \in Callers, NEW pc \in {"save", "remove", "drop"},
           NEW docs \in SUBSET Docs, Begin(u, pc, docs),
           IsFiniteSet(docs), \A d, e \in docs : d = e,
           pc = "save" => /\ docs # {} /\ \A d \in docs : document[d] = "none"
                          /\ \A v \in Callers : docs \cap call[v].doc = {},
           UNCHANGED <<collection, document, embedding, torn>>,
           vectorizer' \in Spaces, uploaded' \subseteq Docs,
           pc # "drop" => vectorizer' = vectorizer
    PROVE  Inv'
<1> USE DEF Inv, CollectionsInv
<1>1. /\ call' \in [Callers -> Call] /\ overlapped' \in BOOLEAN
      /\ call[u].pc = "idle" /\ collection.state = "open"
      /\ call'[u].pc = pc /\ call'[u].doc = docs /\ call'[u].read = collection
      /\ call'[u].seen = NoChunks
      /\ \A v \in Callers \ {u} : call'[v] = call[v]
      /\ ~overlapped' => ~overlapped /\ \A v \in Callers : call[v].pc = "idle"
  BY Begins DEF Stages
<1>2. TypeOK'
  BY <1>1 DEF TypeOK
<1>3. ReadyHasChunks' /\ CountsAreBounded' /\ OneSpace'
  BY <1>1 DEF ReadyHasChunks, CountsAreBounded, OneSpace, InOneSpace, tfidf
<1>4. UploadsInv'
  BY <1>1 DEF UploadsInv, Uploading
<1>5. FiniteInv'
  BY <1>1, NoChunksIsEmpty, FS_EmptySet DEF FiniteInv
<1>6. AloneInv' /\ PendingInv'
  BY <1>1 DEF AloneInv, PendingInv
<1>7. FilesInv'
  BY <1>1 DEF FilesInv, tfidf
<1>8. QED BY <1>2, <1>3, <1>4, <1>5, <1>6, <1>7

LEMMA OpensSteps ==
    ASSUME Inv, NEW u \in Callers,
           OpenDrop(u) \/ \E d \in Docs : Upload(u, d) \/ OpenDelete(u, d)
    PROVE  Inv'
<1>1. TypeOK
  BY DEF Inv, CollectionsInv
<1>2. ASSUME NEW d \in Docs, Upload(u, d) PROVE Inv'
  <2>1. IsFiniteSet({d})
    BY FS_Singleton
  <2>2. QED BY <1>1, <1>2, <2>1, OpenSteps DEF Upload, rows, TypeOK
<1>3. ASSUME NEW d \in Docs, OpenDelete(u, d) PROVE Inv'
  <2>1. IsFiniteSet({d})
    BY FS_Singleton
  <2>2. QED BY <1>1, <1>3, <2>1, OpenSteps DEF OpenDelete, rows, files, TypeOK
<1>4. CASE OpenDrop(u)
  <2>1. vectorizer' \in Spaces /\ uploaded' \subseteq Docs
    BY <1>1, <1>4 DEF OpenDrop, TypeOK, Spaces, NoFile
  <2>2. QED BY <1>4, <2>1, FS_EmptySet, OpenSteps DEF OpenDrop, rows
<1>5. QED BY <1>2, <1>3, <1>4

-----------------------------------------------------------------------------
(* Calls that go on, fail or die without committing chunks                 *)

Changing == {"commit", "removed", "drop"}

LEMMA MoveSteps ==
    ASSUME Inv, NEW u \in Callers, NEW c \in Call, call' = [call EXCEPT ![u] = c],
           call[u].pc # "idle", UNCHANGED <<collection, embedding, overlapped>>,
           vectorizer' \in Spaces, uploaded' \subseteq Docs, torn' \in BOOLEAN,
           document' \in [Docs -> {"none", "processing", "ready", "failed"}],
           c.pc = "idle" => c.doc = {},
           c.pc # "idle" => c.doc = call[u].doc /\ c.read = call[u].read,
           c.pc # "save", IsFiniteSet(DOMAIN c.seen),
           c.pc \in Uploading => call[u].pc \in Uploading,
           c.pc \in {"extract", "commit", "fail"} =>
              \A d \in c.doc : document'[d] \in {"none", "processing"},
           \A d \in Docs : document'[d] = "ready" <=> document[d] = "ready",
           \A d \in Docs : document'[d] # document[d] =>
                              d \in call[u].doc /\ call[u].pc \in Uploading,
           ~overlapped /\ c.pc = "commit" =>
              /\ c.seen = embedding
              /\ c.space = IF tfidf THEN DOMAIN embedding \cup c.doc ELSE Pretrained
              /\ tfidf => vectorizer' = c.space,
           ~overlapped /\ c.pc = "removed" =>
              /\ DOMAIN c.seen = DOMAIN embedding \ c.doc
              /\ \A d \in DOMAIN c.seen : c.seen[d] = embedding[d]
              /\ c.space = IF tfidf THEN DOMAIN c.seen ELSE Pretrained
              /\ tfidf /\ DOMAIN c.seen # {} => vectorizer' = c.space,
           ~torn' /\ tfidf /\ c.pc \notin Changing =>
              ~torn /\ call[u].pc \notin Changing /\ vectorizer' = vectorizer
    PROVE  Inv'
<1> USE DEF Inv, CollectionsInv
<1>1. /\ call'[u] = c /\ call' \in [Callers -> Call]
      /\ \A v \in Callers \ {u} : call'[v] = call[v]
  BY DEF TypeOK
<1>2. TypeOK'
  BY <1>1 DEF TypeOK
<1>3. \A d \in DOMAIN embedding : d \in Docs
  BY EmbeddingsMap DEF TypeOK
<1>4. ReadyHasChunks' /\ CountsAreBounded' /\ OneSpace'
  BY <1>3 DEF ReadyHasChunks, CountsAreBounded, OneSpace, InOneSpace, tfidf
<1>5. UploadsInv'
  <2>1. \A v \in Callers : call[v].doc \subseteq Docs
    BY DEF TypeOK, Call
  <2>2. ASSUME NEW v \in Callers \ {u}, call[v].pc \in Uploading, NEW d \in call[v].doc
        PROVE  document'[d] = document[d]
    BY <2>1, <2>2 DEF UploadsInv
  <2>3. \A v \in Callers : call'[v].pc = "idle" => call'[v].doc = {}
    BY <1>1 DEF UploadsInv
  <2>4. \A v \in Callers : call'[v].pc \in Uploading =>
           /\ call[v].pc \in Uploading /\ call'[v].doc = call[v].doc
    BY <1>1 DEF Uploading
  <2>5. \A v \in Callers \ {u} :
           /\ call'[v].pc = "save" => \A d \in call'[v].doc : document'[d] = "none"
           /\ call'[v].pc \in {"extract", "commit", "fail"} =>
                 \A d \in call'[v].doc : document'[d] \in {"none", "processing"}
    BY <1>1, <2>2 DEF UploadsInv, Uploading
  <2>6. QED BY <1>1, <2>3, <2>4, <2>5 DEF UploadsInv
<1>6. FiniteInv'
  <2>1. IsFiniteSet(c.doc) /\ \A d, e \in c.doc : d = e
    <3>1. CASE c.pc = "idle"
      <4>1. c.doc = {}
        BY <3>1
      <4>2. QED BY <4>1, FS_EmptySet
    <3>2. CASE c.pc # "idle"
      <4>1. c.doc = call[u].doc
        BY <3>2
      <4>2. QED BY <4>1 DEF FiniteInv
    <3>3. QED BY <3>1, <3>2
  <2>2. QED BY <1>1, <2>1 DEF FiniteInv
<1>7. AloneInv'
  BY <1>1 DEF AloneInv
<1>8. PendingInv'
  <2>1. ~overlapped => \A v \in Callers \ {u} : call'[v].pc = "idle"
    BY <1>1 DEF AloneInv
  <2>2. QED BY <1>1, <2>1 DEF PendingInv, tfidf
<1>9. FilesInv'
  <2>1. ~overlapped => \A v \in Callers \ {u} : call[v].pc = "idle"
    BY DEF AloneInv
  <2>2. QED BY <1>1, <2>1 DEF FilesInv, Changing, tfidf
<1>10. QED BY <1>2, <1>4, <1>5, <1>6, <1>7, <1>8, <1>9

\* The call is over; what it had written to the files is there.
LEMMA EndSteps ==
    ASSUME Inv, NEW u \in Callers, End(u), call[u].pc # "idle",
           UNCHANGED <<rows, files, overlapped>>, torn' \in BOOLEAN, torn => torn',
           call[u].pc \in Changing => torn'
    PROVE  Inv'
<1>1. /\ call' = [call EXCEPT ![u] = NoCall]
      /\ UNCHANGED <<collection, document, embedding, vectorizer, uploaded>>
  BY DEF End, rows, files
<1>2. TypeOK
  BY DEF Inv, CollectionsInv
<1>3. QED BY <1>1, <1>2, NoCallIsCall, FS_EmptySet, MoveSteps DEF Uploading, Changing, TypeOK

\* The call goes on.
LEMMA GotoSteps ==
    ASSUME Inv, NEW u \in Callers, NEW pc \in {"extract", "fail"}, Goto(u, pc),
           call[u].pc \in Uploading,
           UNCHANGED <<collection, embedding, files, overlapped>>, torn' \in BOOLEAN,
           ~torn' /\ tfidf => ~torn /\ call[u].pc \notin Changing,
           document' \in [Docs -> {"none", "processing", "ready", "failed"}],
           \A d \in call[u].doc : document'[d] \in {"none", "processing"},
           \A d \in Docs : document'[d] = "ready" <=> document[d] = "ready",
           \A d \in Docs : document'[d] # document[d] => d \in call[u].doc
    PROVE  Inv'
<1> DEFINE c == [call[u] EXCEPT !.pc = pc]
<1>1. TypeOK /\ FiniteInv
  BY DEF Inv, CollectionsInv
<1>2. call' = [call EXCEPT ![u] = c]
  BY DEF Goto
<1>3. /\ c \in Call /\ c.pc = pc /\ c.doc = call[u].doc /\ c.read = call[u].read
      /\ c.seen = call[u].seen
  BY <1>1 DEF TypeOK, Call, Stages
<1> HIDE DEF c
<1>4. UNCHANGED <<vectorizer, uploaded>>
  BY DEF files
<1>5. call[u].pc # "idle" /\ IsFiniteSet(DOMAIN c.seen)
  BY <1>1, <1>3 DEF Uploading, FiniteInv
<1>6. QED BY <1>1, <1>2, <1>3, <1>4, <1>5, MoveSteps DEF Uploading, Changing, TypeOK

LEMMA SaveSteps ==
    ASSUME Inv, NEW u \in Callers, Save(u)
    PROVE  Inv'
<1>1. TypeOK /\ ReadyHasChunks /\ UploadsInv
  BY DEF Inv, CollectionsInv
<1>2. CASE collection.state = "open"
  <2>1. document' = [d \in Docs |-> IF d \in call[u].doc THEN "processing" ELSE document[d]]
    BY <1>2 DEF Save
  <2>2. \A d \in call[u].doc : document[d] = "none"
    BY DEF Save, Inv, UploadsInv
  <2>3. call[u].doc \subseteq Docs
    BY <1>1 DEF TypeOK, Call
  <2>4. /\ document' \in [Docs -> {"none", "processing", "ready", "failed"}]
        /\ \A d \in call[u].doc : document'[d] = "processing"
        /\ \A d \in Docs \ call[u].doc : document'[d] = document[d]
        /\ \A d \in Docs : document'[d] = "ready" <=> document[d] = "ready"
    BY <1>1, <2>1, <2>2, <2>3 DEF TypeOK
  <2>5. /\ Goto(u, "extract") /\ call[u].pc = "save"
        /\ UNCHANGED <<collection, embedding, files, overlapped, torn>>
    BY <1>2 DEF Save
  <2>6. QED BY <1>1, <2>4, <2>5, GotoSteps DEF Uploading, Changing, TypeOK
<1>3. CASE collection.state # "open"
  <2>1. /\ End(u) /\ UNCHANGED <<rows, files, overlapped, torn>> /\ call[u].pc = "save"
    BY <1>3 DEF Save, rows
  <2>2. QED BY <1>1, <2>1, EndSteps DEF Changing, TypeOK
<1>4. QED BY <1>2, <1>3

LEMMA FailSteps ==
    ASSUME Inv, NEW u \in Callers,
           Unreadable(u) \/ FailUpload(u) \/ FailDelete(u) \/ Die(u)
    PROVE  Inv'
<1>1. TypeOK /\ UploadsInv
  BY DEF Inv, CollectionsInv
<1>2. CASE Unreadable(u) \/ FailUpload(u)
  <2>1. /\ Goto(u, "fail") /\ call[u].pc \in {"extract", "commit"}
        /\ UNCHANGED <<rows, files, overlapped>> /\ torn' \in BOOLEAN
        /\ ~torn' /\ tfidf => ~torn /\ call[u].pc = "extract"
    BY <1>1, <1>2 DEF Unreadable, FailUpload, TypeOK
  <2>2. UNCHANGED <<collection, document, embedding>>
    BY <2>1 DEF rows
  <2>3. \A d \in call[u].doc : document[d] \in {"none", "processing"}
    BY <1>1, <2>1 DEF UploadsInv
  <2>4. /\ document' \in [Docs -> {"none", "processing", "ready", "failed"}]
        /\ \A d \in call[u].doc : document'[d] \in {"none", "processing"}
        /\ \A d \in Docs : document'[d] = document[d]
    BY <1>1, <2>2, <2>3 DEF TypeOK
  <2>5. UNCHANGED <<collection, embedding, files, overlapped>>
    BY <2>1, <2>2
  <2>6. QED BY <2>1, <2>4, <2>5, GotoSteps DEF Uploading, Changing
<1>3. CASE FailDelete(u) \/ Die(u)
  BY <1>1, <1>3, EndSteps DEF FailDelete, Die, Changing, TypeOK
<1>4. QED BY <1>2, <1>3

LEMMA MarkFailedSteps ==
    ASSUME Inv, NEW u \in Callers, MarkFailed(u)
    PROVE  Inv'
<1>1. TypeOK /\ UploadsInv
  BY DEF Inv, CollectionsInv
<1>2. /\ call[u].pc = "fail" /\ call' = [call EXCEPT ![u] = NoCall]
      /\ UNCHANGED <<collection, embedding, vectorizer, uploaded, overlapped, torn>>
      /\ document' = [d \in Docs |-> IF d \in call[u].doc /\ document[d] # "none"
                                     THEN "failed" ELSE document[d]]
  BY DEF MarkFailed, End, files
<1>3. \A d \in call[u].doc : document[d] \in {"none", "processing"}
  BY <1>1, <1>2 DEF UploadsInv
<1>4. /\ document' \in [Docs -> {"none", "processing", "ready", "failed"}]
      /\ \A d \in Docs : document'[d] = "ready" <=> document[d] = "ready"
      /\ \A d \in Docs \ call[u].doc : document'[d] = document[d]
  BY <1>1, <1>2, <1>3 DEF TypeOK
<1>5. /\ call[u].pc # "idle" /\ call[u].pc \in Uploading /\ call[u].pc \notin Changing
      /\ vectorizer' \in Spaces /\ uploaded' \subseteq Docs /\ torn' \in BOOLEAN
  BY <1>1, <1>2 DEF Uploading, Changing, TypeOK
<1>6. IsFiniteSet(DOMAIN NoCall.seen)
  BY NoCallIsCall, FS_EmptySet
<1>7. QED BY <1>2, <1>4, <1>5, <1>6, NoCallIsCall, MoveSteps DEF Uploading, Changing

LEMMA FitSteps ==
    ASSUME Inv, NEW u \in Callers, Fit(u)
    PROVE  Inv'
<1> DEFINE corpus == DOMAIN embedding \cup call[u].doc
           space == IF tfidf THEN corpus ELSE Pretrained
           c == [call[u] EXCEPT !.pc = "commit", !.seen = embedding, !.space = space]
<1>1. TypeOK /\ UploadsInv /\ FiniteInv
  BY DEF Inv, CollectionsInv
<1>2. call[u] \in Call /\ embedding \in Embeddings /\ call[u].doc \subseteq Docs
  BY <1>1 DEF TypeOK, Call
<1>3. /\ call[u].pc = "extract" /\ call' = [call EXCEPT ![u] = c]
      /\ vectorizer' = (IF tfidf THEN space ELSE vectorizer)
      /\ UNCHANGED <<collection, document, embedding, uploaded, overlapped, torn>>
  BY <1>1 DEF Fit, rows, TypeOK, Call, Dumped
<1>4. space \in Spaces
  BY <1>2, EmbeddingsMap DEF Spaces, Pretrained
<1>5. space = IF tfidf THEN corpus ELSE Pretrained
  OBVIOUS
<1> HIDE DEF space
<1>6. /\ c \in Call /\ c.pc = "commit" /\ c.doc = call[u].doc /\ c.read = call[u].read
      /\ c.seen = embedding /\ c.space = space
  BY <1>2, <1>4 DEF Call, Stages
<1> HIDE DEF c
<1>7. \A d \in c.doc : document'[d] \in {"none", "processing"}
  BY <1>1, <1>3, <1>6 DEF UploadsInv
<1>8. /\ vectorizer' \in Spaces /\ uploaded' \subseteq Docs /\ torn' \in BOOLEAN
      /\ document' \in [Docs -> {"none", "processing", "ready", "failed"}]
      /\ \A d \in Docs : document'[d] = document[d]
  BY <1>1, <1>3, <1>4 DEF TypeOK
<1>9. IsFiniteSet(DOMAIN c.seen)
  BY <1>1, <1>6 DEF FiniteInv
<1>10. QED BY <1>3, <1>5, <1>6, <1>7, <1>8, <1>9, MoveSteps DEF Uploading, Changing

LEMMA RemoveSteps ==
    ASSUME Inv, NEW u \in Callers, Remove(u)
    PROVE  Inv'
<1> DEFINE rest == DOMAIN embedding \ call[u].doc
           seen == [d \in rest |-> embedding[d]]
           space == IF tfidf THEN rest ELSE Pretrained
           c == [call[u] EXCEPT !.pc = "removed", !.seen = seen, !.space = space]
<1>1. TypeOK /\ FiniteInv /\ AloneInv /\ FilesInv
  BY DEF Inv, CollectionsInv
<1>2. call[u] \in Call /\ embedding \in Embeddings /\ rest \subseteq Docs
  BY <1>1, EmbeddingsMap DEF TypeOK
<1>3. /\ call[u].pc = "remove" /\ call' = [call EXCEPT ![u] = c]
      /\ uploaded' = uploaded \ call[u].doc
      /\ vectorizer' = (IF ~tfidf \/ ~call[u].read.path THEN vectorizer
                        ELSE IF rest = {} THEN NoFile ELSE rest)
      /\ UNCHANGED <<collection, document, embedding, overlapped, torn>>
  BY <1>1 DEF Remove, rows, TypeOK, Call, Dumped
<1>4. seen \in Embeddings
  <2>1. seen \in [rest -> Spaces]
    BY <1>2, EmbeddingsMap
  <2>2. QED BY <1>2, <2>1, EmbeddingsMap
<1>5. /\ DOMAIN seen = rest /\ \A d \in DOMAIN seen : seen[d] = embedding[d]
      /\ space \in Spaces /\ space = IF tfidf THEN DOMAIN seen ELSE Pretrained
  BY <1>2 DEF Spaces, Pretrained
<1>6. IsFiniteSet(DOMAIN seen)
  BY <1>1, <1>5, FS_Subset DEF FiniteInv
<1> HIDE DEF seen, space
<1>7. /\ c \in Call /\ c.pc = "removed" /\ c.doc = call[u].doc /\ c.read = call[u].read
      /\ c.seen = seen /\ c.space = space
  BY <1>2, <1>4, <1>5 DEF Call, Stages
<1> HIDE DEF c
<1>8. /\ vectorizer' \in Spaces /\ uploaded' \subseteq Docs /\ torn' \in BOOLEAN
      /\ document' \in [Docs -> {"none", "processing", "ready", "failed"}]
      /\ \A d \in Docs : document'[d] = document[d]
  BY <1>1, <1>2, <1>3 DEF TypeOK, Spaces, NoFile
<1>9. ~overlapped /\ tfidf /\ DOMAIN seen # {} => vectorizer' = space
  <2> SUFFICES ASSUME ~overlapped, tfidf, DOMAIN seen # {} PROVE vectorizer' = space
    OBVIOUS
  <2>1. call[u].read = collection /\ collection.state = "open"
    BY <1>1, <1>3 DEF AloneInv
  <2>2. collection.path
    BY <1>1, <1>5, <2>1 DEF FilesInv
  <2>3. QED BY <1>3, <1>5, <2>1, <2>2
<1>10. IsFiniteSet(DOMAIN c.seen)
  BY <1>6, <1>7
<1>11. QED BY <1>3, <1>5, <1>7, <1>8, <1>9, <1>10, MoveSteps DEF Uploading, Changing

-----------------------------------------------------------------------------
(* Commits                                                                 *)

LEMMA CommitSteps ==
    ASSUME Inv, NEW u \in Callers, End(u), call[u].pc # "idle",
           UNCHANGED <<files, overlapped>>, torn' \in BOOLEAN,
           collection' \in Collection, embedding' \in Embeddings,
           document' \in [Docs -> {"none", "processing", "ready", "failed"}],
           IsFiniteSet(DOMAIN embedding'),
           \A v \in Callers \ {u} : call[v].pc \in Uploading =>
              \A d \in call[v].doc : document'[d] \in {document[d], "none"},
           ReadyHasChunks', CountsAreBounded', OneSpace',
           ~overlapped =>
              /\ collection'.state # "open" => DOMAIN embedding' = {}
              /\ collection'.state = "open" /\ collection'.provider = "tfidf" =>
                    (collection'.path <=> DOMAIN embedding' # {})
              /\ ~torn' /\ collection'.provider = "tfidf" /\ DOMAIN embedding' # {} =>
                    vectorizer = DOMAIN embedding'
    PROVE  Inv'
<1> USE DEF Inv, CollectionsInv
<1>1. /\ call'[u] = NoCall /\ call' \in [Callers -> Call]
      /\ \A v \in Callers \ {u} : call'[v] = call[v]
      /\ UNCHANGED <<vectorizer, uploaded>>
  BY NoCallIsCall DEF End, TypeOK, files
<1>2. TypeOK'
  BY <1>1 DEF TypeOK
<1>3. UploadsInv'
  <2>1. ASSUME NEW v \in Callers \ {u}
        PROVE  /\ call'[v].pc = "save" => \A d \in call'[v].doc : document'[d] = "none"
               /\ call'[v].pc \in {"extract", "commit", "fail"} =>
                     \A d \in call'[v].doc : document'[d] \in {"none", "processing"}
    BY <1>1 DEF UploadsInv, Uploading
  <2>2. QED BY <1>1, <2>1, NoCallIsCall DEF UploadsInv, Uploading
<1>4. FiniteInv'
  <2>1. /\ IsFiniteSet(NoCall.doc) /\ IsFiniteSet(DOMAIN NoCall.seen)
        /\ \A d, e \in NoCall.doc : d = e
    BY NoCallIsCall, FS_EmptySet
  <2>2. QED BY <1>1, <2>1 DEF FiniteInv
<1>5. ~overlapped => \A v \in Callers : call'[v].pc = "idle"
  BY <1>1, NoCallIsCall DEF AloneInv
<1>6. AloneInv' /\ PendingInv'
  BY <1>5 DEF AloneInv, PendingInv
<1>7. FilesInv'
  BY <1>1 DEF FilesInv, tfidf
<1>8. QED BY <1>2, <1>3, <1>4, <1>6, <1>7

LEMMA CommitDropSteps ==
    ASSUME Inv, NEW u \in Callers, CommitDrop(u)
    PROVE  Inv'
<1>1. /\ call[u].pc = "drop" /\ End(u) /\ UNCHANGED <<files, overlapped, torn>>
      /\ collection' = [collection EXCEPT !.state = "deleted"]
      /\ embedding' = NoChunks /\ document' = [d \in Docs |-> "none"]
  BY DEF CommitDrop
<1>2. TypeOK
  BY DEF Inv, CollectionsInv
<1>3. collection' \in Collection /\ collection'.state = "deleted"
  BY <1>1, <1>2 DEF TypeOK, Collection
<1>4. embedding' \in Embeddings /\ DOMAIN embedding' = {}
  BY <1>1, NoChunksIsEmpty
<1>5. ReadyHasChunks' /\ CountsAreBounded' /\ OneSpace'
  BY <1>1, <1>3, <1>4 DEF ReadyHasChunks, CountsAreBounded, OneSpace, InOneSpace
<1>6. /\ document' \in [Docs -> {"none", "processing", "ready", "failed"}]
      /\ \A d \in Docs : document'[d] = "none"
  BY <1>1
<1>7. \A v \in Callers : call[v].doc \subseteq Docs
  BY <1>2 DEF TypeOK, Call
<1>8. IsFiniteSet(DOMAIN embedding') /\ torn' \in BOOLEAN
  BY <1>1, <1>2, <1>4, FS_EmptySet DEF TypeOK
<1>9. QED BY <1>1, <1>3, <1>4, <1>5, <1>6, <1>7, <1>8, CommitSteps

\* What both commits write: the vectors of the documents that stay or come, and the
\* counts, which are right when the call was alone.
LEMMA Writing ==
    ASSUME Inv, NEW u \in Callers, NEW docs \in SUBSET Docs, IsFiniteSet(docs),
           call[u].pc # "idle", docs \subseteq DOMAIN embedding \cup call[u].doc,
           NEW n \in Nat, NEW path \in BOOLEAN,
           embedding' = Embedded(u, docs), collection' = Counted(u, n, path, docs)
    PROVE  /\ embedding' \in Embeddings /\ DOMAIN embedding' = docs
           /\ \A d \in docs : embedding'[d] =
                 IF d \in call[u].doc THEN call[u].space
                 ELSE IF d \in Rewritten(u)
                 THEN Assign(embedding[d], call[u].seen[d], call[u].space)
                 ELSE embedding[d]
           /\ collection' \in Collection
           /\ collection'.state = collection.state
           /\ collection'.provider = collection.provider
           /\ ~overlapped => /\ collection'.documents = n /\ collection'.path = path
                             /\ collection'.chunks = Cardinality(docs)
<1>1. TypeOK /\ AloneInv
  BY DEF Inv, CollectionsInv
<1>2. /\ call[u] \in Call /\ embedding \in Embeddings /\ collection \in Collection
  BY <1>1 DEF TypeOK
<1> DEFINE new(d) == IF d \in call[u].doc THEN call[u].space
                     ELSE IF d \in Rewritten(u)
                     THEN Assign(embedding[d], call[u].seen[d], call[u].space)
                     ELSE embedding[d]
<1>3. \A d \in docs : new(d) \in Spaces
  BY <1>2, EmbeddingsMap DEF Assign, Call
<1>4. embedding' = [d \in docs |-> new(d)]
  BY DEF Embedded
<1>5. \A d \in docs : embedding'[d] = new(d)
  BY <1>4
<1>6. embedding' \in Embeddings
  <2> HIDE DEF new
  <2>1. embedding' \in [docs -> Spaces]
    BY <1>3, <1>4
  <2>2. QED BY <2>1, EmbeddingsMap
<1>7. Cardinality(docs) \in Nat
  BY FS_CardinalityType
<1> DEFINE read == call[u].read
           documents == Assign(collection.documents, read.documents, n)
           paths == Assign(collection.path, read.path, path)
           chunks == Assign(collection.chunks, read.chunks, Cardinality(docs))
<1>8. collection' = [collection EXCEPT !.documents = documents, !.path = paths,
                                       !.chunks = chunks]
  BY DEF Counted
<1>9. documents \in Nat /\ paths \in BOOLEAN /\ chunks \in Nat
  BY <1>2, <1>7 DEF Assign, Collection
<1>10. ~overlapped => documents = n /\ paths = path /\ chunks = Cardinality(docs)
  <2>1. ~overlapped => read = collection
    BY <1>1 DEF AloneInv
  <2>2. QED BY <2>1 DEF Assign
<1> HIDE DEF documents, paths, chunks
<1>11. /\ collection' \in Collection /\ collection'.state = collection.state
       /\ collection'.provider = collection.provider
       /\ collection'.documents = documents /\ collection'.path = paths
       /\ collection'.chunks = chunks
  BY <1>2, <1>8, <1>9 DEF Collection
<1>12. QED BY <1>4, <1>5, <1>6, <1>10, <1>11

LEMMA CommitUploadSteps ==
    ASSUME Inv, NEW u \in Callers, CommitUpload(u)
    PROVE  Inv'
<1> DEFINE docs == DOMAIN embedding \cup call[u].doc
           n == call[u].read.documents + 1
           path == tfidf \/ call[u].read.path
<1>1. /\ TypeOK /\ ReadyHasChunks /\ CountsAreBounded /\ UploadsInv /\ FiniteInv
      /\ AloneInv /\ PendingInv /\ OneSpace /\ FilesInv
  BY DEF Inv, CollectionsInv
<1>2. /\ call[u].pc = "commit" /\ End(u) /\ UNCHANGED <<files, overlapped>>
      /\ torn' = FALSE
      /\ embedding' = Embedded(u, docs) /\ collection' = Counted(u, n, path, docs)
      /\ document' = [d \in Docs |-> IF d \in call[u].doc THEN "ready" ELSE document[d]]
      /\ \A d \in call[u].doc : document[d] = "processing"
  BY DEF CommitUpload
<1>3. /\ call[u] \in Call /\ call[u].doc \subseteq Docs /\ DOMAIN embedding \subseteq Docs
      /\ n \in Nat /\ path \in BOOLEAN
  BY <1>1, EmbeddingsMap DEF TypeOK, Call, Collection, tfidf
<1>4. IsFiniteSet(docs)
  BY <1>1, FS_Union DEF FiniteInv
<1> HIDE DEF n, path
<1>5. /\ embedding' \in Embeddings /\ DOMAIN embedding' = docs
      /\ \A d \in docs : embedding'[d] =
            IF d \in call[u].doc THEN call[u].space
            ELSE IF d \in Rewritten(u)
            THEN Assign(embedding[d], call[u].seen[d], call[u].space)
            ELSE embedding[d]
      /\ collection' \in Collection
      /\ collection'.state = collection.state /\ collection'.provider = collection.provider
      /\ ~overlapped => /\ collection'.documents = n /\ collection'.path = path
                        /\ collection'.chunks = Cardinality(docs)
  BY <1>2, <1>3, <1>4, Writing
<1>6. /\ document' \in [Docs -> {"none", "processing", "ready", "failed"}]
      /\ \A d \in call[u].doc : document'[d] = "ready"
      /\ \A d \in Docs \ call[u].doc : document'[d] = document[d]
  BY <1>1, <1>2, <1>3 DEF TypeOK
<1>7. ReadyHasChunks'
  BY <1>1, <1>5, <1>6 DEF ReadyHasChunks
<1>8. ASSUME ~overlapped
      PROVE  /\ call[u].read = collection /\ collection.state = "open"
             /\ call[u].seen = embedding
             /\ call[u].space = IF tfidf THEN docs ELSE Pretrained
             /\ tfidf => vectorizer = call[u].space
  BY <1>1, <1>2, <1>8 DEF AloneInv, PendingInv
<1>9. \A v \in Callers \ {u} : call[v].pc \in Uploading =>
         \A d \in call[v].doc : document'[d] \in {document[d], "none"}
  <2>1. \A v \in Callers : call[v].doc \subseteq Docs
    BY <1>1 DEF TypeOK, Call
  <2>2. QED BY <1>1, <1>2, <1>6, <2>1 DEF UploadsInv, Uploading
<1>10. CountsAreBounded'
  <2> SUFFICES ASSUME ~overlapped, collection'.state = "open"
               PROVE  /\ collection'.chunks = Cardinality(docs)
                      /\ collection'.documents <= Cardinality(docs)
    BY <1>2, <1>5 DEF CountsAreBounded
  <2>1. call[u].doc \cap DOMAIN embedding = {}
    BY <1>1, <1>2, <1>3 DEF ReadyHasChunks
  <2>2. collection.documents <= Cardinality(DOMAIN embedding)
    BY <1>5 DEF CountsAreBounded, Inv, CollectionsInv
  <2>3. PICK d \in call[u].doc : TRUE
    BY <1>1, <1>2 DEF UploadsInv, Uploading
  <2>4. docs = DOMAIN embedding \cup {d} /\ d \notin DOMAIN embedding
    BY <1>1, <2>1 DEF FiniteInv
  <2>5. Cardinality(docs) = Cardinality(DOMAIN embedding) + 1
    BY <1>1, <2>4, FS_AddElement DEF FiniteInv
  <2>6. n = collection.documents + 1 /\ collection.documents \in Nat
    BY <1>1, <1>8 DEF n, TypeOK, Collection
  <2>7. Cardinality(DOMAIN embedding) \in Nat
    BY <1>1, FS_CardinalityType DEF FiniteInv
  <2> HIDE DEF docs
  <2>8. QED BY <1>5, <2>2, <2>5, <2>6, <2>7
<1>11. ~overlapped => \A d \in docs : embedding'[d] = IF tfidf THEN docs ELSE Pretrained
  <2> SUFFICES ASSUME ~overlapped, NEW d \in docs
               PROVE  embedding'[d] = IF tfidf THEN docs ELSE Pretrained
    OBVIOUS
  <2>1. CASE d \in call[u].doc
    BY <1>5, <1>8, <2>1
  <2>2. CASE d \notin call[u].doc /\ tfidf
    BY <1>5, <1>8, <2>2 DEF Rewritten, Assign
  <2>3. CASE d \notin call[u].doc /\ ~tfidf
    BY <1>1, <1>5, <1>8, <2>3 DEF Rewritten, OneSpace, InOneSpace
  <2>4. QED BY <2>1, <2>2, <2>3
<1>12. OneSpace'
  BY <1>2, <1>5, <1>11 DEF OneSpace, InOneSpace, tfidf
<1>13. docs # {}
  BY <1>1, <1>2 DEF UploadsInv, Uploading
<1>14. ~overlapped =>
          /\ collection'.state # "open" => DOMAIN embedding' = {}
          /\ collection'.state = "open" /\ collection'.provider = "tfidf" =>
                (collection'.path <=> DOMAIN embedding' # {})
          /\ ~torn' /\ collection'.provider = "tfidf" /\ DOMAIN embedding' # {} =>
                vectorizer = DOMAIN embedding'
  BY <1>5, <1>8, <1>13 DEF tfidf, path
<1>15. torn' \in BOOLEAN /\ IsFiniteSet(DOMAIN embedding')
  BY <1>2, <1>4, <1>5
<1>16. QED BY <1>2, <1>5, <1>6, <1>7, <1>9, <1>10, <1>12, <1>14, <1>15, CommitSteps

LEMMA CommitDeleteSteps ==
    ASSUME Inv, NEW u \in Callers, CommitDelete(u)
    PROVE  Inv'
<1> DEFINE docs == DOMAIN embedding \ call[u].doc
           n == Decremented(call[u].read.documents)
           path == call[u].read.path /\ (tfidf => DOMAIN call[u].seen # {})
<1>1. /\ TypeOK /\ ReadyHasChunks /\ CountsAreBounded /\ UploadsInv /\ FiniteInv
      /\ AloneInv /\ PendingInv /\ OneSpace /\ FilesInv
  BY DEF Inv, CollectionsInv
<1>2. /\ call[u].pc = "removed" /\ End(u) /\ UNCHANGED <<files, overlapped>>
      /\ torn' = FALSE
      /\ embedding' = Embedded(u, docs) /\ collection' = Counted(u, n, path, docs)
      /\ document' = [d \in Docs |-> IF d \in call[u].doc THEN "none" ELSE document[d]]
  BY DEF CommitDelete
<1>3. /\ call[u] \in Call /\ call[u].doc \subseteq Docs /\ DOMAIN embedding \subseteq Docs
      /\ call[u].read.documents \in Nat /\ n \in Nat /\ path \in BOOLEAN
  BY <1>1, EmbeddingsMap DEF TypeOK, Call, Collection, tfidf, Decremented
<1>4. IsFiniteSet(docs)
  BY <1>1, FS_Subset DEF FiniteInv
<1> HIDE DEF n, path
<1>5. /\ embedding' \in Embeddings /\ DOMAIN embedding' = docs
      /\ \A d \in docs : embedding'[d] =
            IF d \in call[u].doc THEN call[u].space
            ELSE IF d \in Rewritten(u)
            THEN Assign(embedding[d], call[u].seen[d], call[u].space)
            ELSE embedding[d]
      /\ collection' \in Collection
      /\ collection'.state = collection.state /\ collection'.provider = collection.provider
      /\ ~overlapped => /\ collection'.documents = n /\ collection'.path = path
                        /\ collection'.chunks = Cardinality(docs)
  BY <1>2, <1>3, <1>4, Writing
<1>6. /\ document' \in [Docs -> {"none", "processing", "ready", "failed"}]
      /\ \A d \in call[u].doc : document'[d] = "none"
      /\ \A d \in Docs \ call[u].doc : document'[d] = document[d]
  BY <1>1, <1>2, <1>3 DEF TypeOK
<1>7. ReadyHasChunks'
  BY <1>1, <1>5, <1>6 DEF ReadyHasChunks
<1>8. ASSUME ~overlapped
      PROVE  /\ call[u].read = collection /\ collection.state = "open"
             /\ DOMAIN call[u].seen = docs
             /\ \A d \in docs : call[u].seen[d] = embedding[d]
             /\ call[u].space = IF tfidf THEN docs ELSE Pretrained
             /\ tfidf /\ docs # {} => vectorizer = call[u].space
  BY <1>1, <1>2, <1>8 DEF AloneInv, PendingInv
<1>9. \A v \in Callers \ {u} : call[v].pc \in Uploading =>
         \A d \in call[v].doc : document'[d] \in {document[d], "none"}
  <2>1. \A v \in Callers : call[v].doc \subseteq Docs
    BY <1>1 DEF TypeOK, Call
  <2>2. QED BY <1>6, <2>1
<1>10. CountsAreBounded'
  <2> SUFFICES ASSUME ~overlapped, collection'.state = "open"
               PROVE  /\ collection'.chunks = Cardinality(docs)
                      /\ collection'.documents <= Cardinality(docs)
    BY <1>2, <1>5 DEF CountsAreBounded
  <2>1. collection.documents <= Cardinality(DOMAIN embedding)
    BY <1>1, <1>5 DEF CountsAreBounded
  <2>2. Cardinality(docs) \in Nat /\ Cardinality(DOMAIN embedding) \in Nat
    BY <1>1, <1>4, FS_CardinalityType DEF FiniteInv
  <2>3. Cardinality(DOMAIN embedding) <= Cardinality(docs) + 1
    <3>1. CASE call[u].doc \cap DOMAIN embedding = {}
      <4>1. docs = DOMAIN embedding
        BY <3>1
      <4>2. QED BY <2>2, <4>1
    <3>2. ASSUME NEW d \in call[u].doc \cap DOMAIN embedding
          PROVE  Cardinality(DOMAIN embedding) = Cardinality(docs) + 1
      <4>1. \A e \in call[u].doc : e = d
        BY <1>1 DEF FiniteInv
      <4>2. DOMAIN embedding = docs \cup {d} /\ d \notin docs
        BY <4>1
      <4>3. QED BY <1>4, <4>2, FS_AddElement
    <3> HIDE DEF docs
    <3>3. QED BY <2>2, <3>1, <3>2
  <2>4. n = Decremented(collection.documents) /\ collection.documents \in Nat
    BY <1>1, <1>8 DEF n, TypeOK, Collection
  <2> HIDE DEF docs
  <2>5. QED BY <1>5, <2>1, <2>2, <2>3, <2>4 DEF Decremented
<1>11. ~overlapped => \A d \in docs : embedding'[d] = IF tfidf THEN docs ELSE Pretrained
  <2> SUFFICES ASSUME ~overlapped, NEW d \in docs
               PROVE  embedding'[d] = IF tfidf THEN docs ELSE Pretrained
    OBVIOUS
  <2>1. CASE tfidf
    BY <1>5, <1>8, <2>1 DEF Rewritten, Assign
  <2>2. CASE ~tfidf
    BY <1>1, <1>5, <1>8, <2>2 DEF Rewritten, OneSpace, InOneSpace
  <2>3. QED BY <2>1, <2>2
<1>12. OneSpace'
  BY <1>2, <1>5, <1>11 DEF OneSpace, InOneSpace, tfidf
<1>13. ASSUME ~overlapped
       PROVE  /\ collection'.state # "open" => DOMAIN embedding' = {}
              /\ collection'.state = "open" /\ collection'.provider = "tfidf" =>
                    (collection'.path <=> DOMAIN embedding' # {})
              /\ ~torn' /\ collection'.provider = "tfidf" /\ DOMAIN embedding' # {} =>
                    vectorizer = DOMAIN embedding'
  <2>1. tfidf => (collection.path <=> DOMAIN embedding # {})
    BY <1>1, <1>8, <1>13 DEF FilesInv
  <2>2. tfidf => (path <=> docs # {})
    BY <1>8, <1>13, <2>1 DEF path
  <2>3. QED BY <1>5, <1>8, <1>13, <2>2 DEF tfidf
<1>14. torn' \in BOOLEAN /\ IsFiniteSet(DOMAIN embedding')
  BY <1>2, <1>4, <1>5
<1>15. QED BY <1>2, <1>5, <1>6, <1>7, <1>9, <1>10, <1>12, <1>13, <1>14, CommitSteps

-----------------------------------------------------------------------------
(* The theorems                                                            *)

LEMMA Steps == Inv /\ [Next]_vars => Inv'
<1> SUFFICES ASSUME Inv, [Next]_vars PROVE Inv'
  OBVIOUS
<1>1. CASE UNCHANGED vars
  BY <1>1
     DEF vars, rows, files, Inv, CollectionsInv, TypeOK, ReadyHasChunks, CountsAreBounded,
         UploadsInv, FiniteInv, AloneInv, PendingInv, OneSpace, InOneSpace, FilesInv, tfidf
<1>2. ASSUME NEW p \in Embedders, CreateCollection(p) PROVE Inv'
  BY <1>2, CreateSteps
<1>3. ASSUME NEW u \in Callers, Step(u) PROVE Inv'
  BY <1>3, SaveSteps, FitSteps, CommitUploadSteps, FailSteps, MarkFailedSteps, RemoveSteps,
     CommitDeleteSteps, CommitDropSteps DEF Step
<1>4. ASSUME NEW u \in Callers,
             \/ Unreadable(u) \/ OpenDrop(u) \/ Die(u)
             \/ \E d \in Docs : Upload(u, d) \/ OpenDelete(u, d)
      PROVE  Inv'
  BY <1>4, FailSteps, OpensSteps
<1>5. QED BY <1>1, <1>2, <1>3, <1>4 DEF Next

THEOREM InductiveInvariant == Spec => []Inv
BY InitHolds, Steps, PTL DEF Spec

\* A document is ready exactly while its chunks are there, whatever uploads, deletions
\* and failures overlap; without overlap the collection's counts fit its chunks.
THEOREM ReadyDocumentsHaveChunks == Spec => []CollectionsInv
BY InductiveInvariant, PTL DEF Inv

\* Whatever fails, calls that do not overlap keep all chunks in the space of the whole
\* corpus: add_document and delete_document rewrite the vectors of every chunk.
THEOREM ChunksShareOneSpace == Spec => []OneSpace
BY InductiveInvariant, PTL DEF Inv

\* Between such calls the stored vectorizer is the one the stored chunks were embedded
\* with, unless the last change of the files was not committed.
THEOREM QueriesCompareWithAllChunks == Spec => []QueriesAnswered
<1>1. Inv => QueriesAnswered
  <2> SUFFICES ASSUME Inv, ~overlapped, ~torn, DOMAIN embedding # {}, tfidf,
                      \A u \in Callers : call[u].pc \notin {"commit", "removed", "drop"}
               PROVE  collection.path /\ \A d \in DOMAIN embedding : embedding[d] = vectorizer
    BY DEF QueriesAnswered, Answerable, HasVectorizer, Comparable
  <2>1. collection.path /\ vectorizer = DOMAIN embedding
    BY DEF Inv, FilesInv
  <2>2. QED BY <2>1 DEF Inv, OneSpace, InOneSpace
<1>2. QED BY <1>1, InductiveInvariant, PTL

=============================================================================
