------------------------------ MODULE Collections ------------------------------
(***************************************************************************)
(* A document collection of the RAG service: documents are uploaded and    *)
(* deleted by concurrent calls, each refits the collection's vectorizer,   *)
(* which is a file, and rewrites the embeddings, which are rows.           *)
(***************************************************************************)
EXTENDS Naturals, FiniteSets

CONSTANTS
    Docs,
    Callers,                 \* concurrent API calls
    MaxCalls, MaxFailures    \* bounds

VARIABLES
    collection,    \* the document_collections row
    document,      \* rag_documents: the status of each row
    embedding,     \* document_chunks: the space of the vectors of a document
    vectorizer,    \* the file at the collection's vectorizer_path
    uploaded,      \* the documents whose file is there
    call,
    overlapped,    \* history: two calls that write were open at once
    torn,          \* history: the last change of the files was not committed
    calls, failures   \* what the bounds count

rows == <<collection, document, embedding>>
files == <<vectorizer, uploaded>>
vars == <<rows, files, call, overlapped, torn, calls, failures>>

-----------------------------------------------------------------------------
Embedders == {"tfidf", "sentence_transformer"}

\* A vector space is the corpus its vocabulary was fitted on, Pretrained that of the
\* neural embedder, for which there is no file.
Spaces == SUBSET Docs
Pretrained == {}
NoFile == {}

Collection == [state : {"none", "open", "deleted"}, provider : Embedders,
               path : BOOLEAN, documents : Nat, chunks : Nat]

Embeddings == UNION {[docs -> Spaces] : docs \in SUBSET Docs}
NoChunks == [d \in {} |-> Pretrained]

\* `read`: the collection as it was loaded; `seen`: the embeddings it loaded;
\* `space`: that of the vectors to be committed.
Stages == {"idle", "save", "extract", "commit", "fail", "remove", "removed", "drop"}
Call == [pc : Stages, doc : SUBSET Docs, read : Collection, seen : Embeddings,
         space : Spaces]

NoCollection == [state |-> "none", provider |-> "tfidf", path |-> FALSE,
                 documents |-> 0, chunks |-> 0]
NoCall == [pc |-> "idle", doc |-> {}, read |-> NoCollection, seen |-> NoChunks,
           space |-> Pretrained]

TypeOK ==
    /\ collection \in Collection
    /\ document \in [Docs -> {"none", "processing", "ready", "failed"}]
    /\ embedding \in Embeddings
    /\ vectorizer \in Spaces /\ uploaded \subseteq Docs
    /\ call \in [Callers -> Call]
    /\ overlapped \in BOOLEAN /\ torn \in BOOLEAN

Init ==
    /\ collection = NoCollection
    /\ document = [d \in Docs |-> "none"]
    /\ embedding = NoChunks
    /\ vectorizer = NoFile /\ uploaded = {}
    /\ call = [u \in Callers |-> NoCall]
    /\ overlapped = FALSE /\ torn = FALSE
    /\ calls = 0 /\ failures = 0

-----------------------------------------------------------------------------
\* An assignment of the value that was loaded writes nothing.
Assign(current, read, value) == IF value = read THEN current ELSE value

tfidf == collection.provider = "tfidf"

Begin(u, pc, docs) ==
    /\ call[u].pc = "idle"
    /\ collection.state = "open"
    /\ calls < MaxCalls
    /\ calls' = calls + 1
    /\ call' = [call EXCEPT ![u] = [NoCall EXCEPT !.pc = pc, !.doc = docs,
                                                  !.read = collection]]
    /\ overlapped' = (overlapped \/ \E v \in Callers : call[v].pc # "idle")

End(u) == call' = [call EXCEPT ![u] = NoCall]

Goto(u, pc) == call' = [call EXCEPT ![u].pc = pc]

\* The provider is chosen once, by what is installed then.
CreateCollection(provider) ==
    /\ collection.state = "none"
    /\ collection' = [NoCollection EXCEPT !.state = "open", !.provider = provider]
    /\ UNCHANGED <<document, embedding, files, call, overlapped, torn, calls, failures>>

-----------------------------------------------------------------------------
(* Uploads                                                                 *)

\* add_document: the collection is loaded, then the file received. One of another
\* type or over 20 MB is refused and leaves nothing.
Upload(u, d) ==
    /\ document[d] = "none" /\ d \notin uploaded
    /\ \A v \in Callers : d \notin call[v].doc
    /\ Begin(u, "save", {d})
    /\ uploaded' = uploaded \cup {d}
    /\ UNCHANGED <<rows, vectorizer, torn, failures>>

\* The row is committed before anything is extracted; without the collection the
\* insert fails, and the file stays.
Save(u) ==
    /\ call[u].pc = "save"
    /\ IF collection.state = "open"
       THEN /\ document' = [d \in Docs |-> IF d \in call[u].doc THEN "processing"
                                                                ELSE document[d]]
            /\ Goto(u, "extract")
       ELSE UNCHANGED document /\ End(u)
    /\ UNCHANGED <<collection, embedding, files, overlapped, torn, calls, failures>>

\* No text can be extracted, or the embedder is not installed any more.
Unreadable(u) ==
    /\ call[u].pc = "extract"
    /\ Goto(u, "fail")
    /\ UNCHANGED <<rows, files, overlapped, torn, calls, failures>>

\* A plausible defect: a file that is there is not written again.
DumpedOnce(space) == IF vectorizer = NoFile THEN space ELSE vectorizer

\* joblib.dump, at once.
Dumped(space) == space

\* embed_corpus over the chunks that are committed and the new ones.
Fit(u) ==
    /\ call[u].pc = "extract"
    /\ LET corpus == DOMAIN embedding \cup call[u].doc
           space == IF tfidf THEN corpus ELSE Pretrained
       IN  /\ vectorizer' = IF tfidf THEN Dumped(space) ELSE vectorizer
           /\ call' = [call EXCEPT ![u].pc = "commit", ![u].seen = embedding,
                                   ![u].space = space]
    /\ UNCHANGED <<rows, uploaded, overlapped, torn, calls, failures>>

\* A plausible defect: only the new chunks are embedded.
RewritesNone(u) == {}

\* The chunks whose vectors the commit of u replaces. The stateless embedder
\* replaces none.
Rewritten(u) == IF tfidf THEN DOMAIN call[u].seen ELSE {}

\* Rows another call has deleted and not committed: it waits for the collection's
\* row that u has written, u for these; the database fails one of them.
Deadlocked(u, v) ==
    /\ u # v /\ call[u].pc \in {"commit", "removed"} /\ call[v].pc = "removed"
    /\ call[v].doc \cap (Rewritten(u) \cup call[u].doc) # {}

Waits(u) == \E v \in Callers : Deadlocked(u, v)

\* The foreign key of a chunk, or the update of the collection, finds no collection.
Missing == collection.state # "open"

\* An update finds its chunk gone, which several sent at once may not report.
Stale(u) == ~(Rewritten(u) \subseteq DOMAIN embedding)

Embedded(u, docs) ==
    [d \in docs |-> IF d \in call[u].doc THEN call[u].space
                    ELSE IF d \in Rewritten(u)
                    THEN Assign(embedding[d], call[u].seen[d], call[u].space)
                    ELSE embedding[d]]

\* A plausible defect: the chunks are counted up, as the documents are.
CountedUp(u, documents, path, docs) ==
    [collection EXCEPT !.documents = documents, !.path = path, !.chunks = documents]

\* The counts as the call computes them from the row it loaded.
Counted(u, documents, path, docs) ==
    LET read == call[u].read
    IN  [collection EXCEPT !.documents = Assign(@, read.documents, documents),
                           !.path = Assign(@, read.path, path),
                           !.chunks = Assign(@, read.chunks, Cardinality(docs))]

CommitUpload(u) ==
    /\ call[u].pc = "commit"
    /\ ~Waits(u) /\ ~Missing /\ \A d \in call[u].doc : document[d] = "processing"
    /\ LET docs == DOMAIN embedding \cup call[u].doc
       IN  /\ embedding' = Embedded(u, docs)
           /\ collection' = Counted(u, call[u].read.documents + 1,
                                    tfidf \/ call[u].read.path, docs)
    /\ document' = [d \in Docs |-> IF d \in call[u].doc THEN "ready" ELSE document[d]]
    /\ End(u)
    /\ torn' = FALSE
    /\ UNCHANGED <<files, overlapped, calls, failures>>

FailUpload(u) ==
    /\ call[u].pc = "commit"
    /\ Waits(u) \/ Missing \/ Stale(u) \/ \E d \in call[u].doc : document[d] # "processing"
    /\ Goto(u, "fail")
    /\ torn' = (torn \/ tfidf)
    /\ UNCHANGED <<rows, files, overlapped, calls, failures>>

\* After the rollback; a row that is gone cannot be updated, and the call raises.
MarkFailed(u) ==
    /\ call[u].pc = "fail"
    /\ document' = [d \in Docs |-> IF d \in call[u].doc /\ document[d] # "none"
                                   THEN "failed" ELSE document[d]]
    /\ End(u)
    /\ UNCHANGED <<collection, embedding, files, overlapped, torn, calls, failures>>

-----------------------------------------------------------------------------
(* Deletions                                                               *)

OpenDelete(u, d) ==
    /\ document[d] # "none"
    /\ Begin(u, "remove", {d})
    /\ UNCHANGED <<rows, files, torn, failures>>

\* The file goes, the row is deleted but not committed, the rest is refitted, with
\* no chunk left the vectorizer goes too.
Remove(u) ==
    /\ call[u].pc = "remove"
    /\ \A v \in Callers \ {u} : call[v].pc = "removed" => call[v].doc # call[u].doc
    /\ LET rest == DOMAIN embedding \ call[u].doc
       IN  /\ uploaded' = uploaded \ call[u].doc
           /\ vectorizer' = IF ~tfidf \/ ~call[u].read.path THEN vectorizer
                            ELSE IF rest = {} THEN NoFile ELSE Dumped(rest)
           /\ call' = [call EXCEPT ![u].pc = "removed",
                                   ![u].seen = [d \in rest |-> embedding[d]],
                                   ![u].space = IF tfidf THEN rest ELSE Pretrained]
    /\ UNCHANGED <<rows, overlapped, torn, calls, failures>>

Decremented(n) == IF n = 0 THEN 0 ELSE n - 1

\* The chunks are deleted with their document.
CommitDelete(u) ==
    /\ call[u].pc = "removed"
    /\ ~Waits(u) /\ ~Missing
    /\ LET docs == DOMAIN embedding \ call[u].doc
           read == call[u].read
       IN  /\ embedding' = Embedded(u, docs)
           /\ collection' = Counted(u, Decremented(read.documents),
                                    read.path /\ (tfidf => DOMAIN call[u].seen # {}), docs)
    /\ document' = [d \in Docs |-> IF d \in call[u].doc THEN "none" ELSE document[d]]
    /\ End(u)
    /\ torn' = FALSE
    /\ UNCHANGED <<files, overlapped, calls, failures>>

FailDelete(u) ==
    /\ call[u].pc = "removed"
    /\ Missing \/ Stale(u) \/ Waits(u) \/ \E v \in Callers : Deadlocked(v, u)
    /\ End(u)
    /\ torn' = TRUE
    /\ UNCHANGED <<rows, files, overlapped, calls, failures>>

\* delete_collection removes the files it finds, then the rows.
OpenDrop(u) ==
    /\ Begin(u, "drop", {})
    /\ uploaded' = {d \in uploaded : document[d] = "none"}
    /\ vectorizer' = IF collection.path THEN NoFile ELSE vectorizer
    /\ UNCHANGED <<rows, torn, failures>>

CommitDrop(u) ==
    /\ call[u].pc = "drop"
    /\ \A v \in Callers : call[v].pc # "removed"
    /\ collection' = [collection EXCEPT !.state = "deleted"]
    /\ embedding' = NoChunks
    /\ document' = [d \in Docs |-> "none"]
    /\ End(u)
    /\ UNCHANGED <<files, overlapped, torn, calls, failures>>

\* The process dies, or the database is gone: what is not committed is rolled back.
Die(u) ==
    /\ call[u].pc # "idle"
    /\ failures < MaxFailures
    /\ failures' = failures + 1
    /\ End(u)
    /\ torn' = (torn \/ call[u].pc \in {"commit", "removed", "drop"})
    /\ UNCHANGED <<rows, files, overlapped, calls>>

-----------------------------------------------------------------------------
Step(u) ==
    \/ Save(u) \/ Fit(u) \/ CommitUpload(u) \/ FailUpload(u) \/ MarkFailed(u)
    \/ Remove(u) \/ CommitDelete(u) \/ FailDelete(u) \/ CommitDrop(u)

Next ==
    \/ \E p \in Embedders : CreateCollection(p)
    \/ \E u \in Callers : \/ Step(u) \/ Unreadable(u) \/ OpenDrop(u) \/ Die(u)
                          \/ \E d \in Docs : Upload(u, d) \/ OpenDelete(u, d)

Spec == Init /\ [][Next]_vars

-----------------------------------------------------------------------------
(* Properties                                                              *)

\* A document is shown as ready exactly while its chunks are there, whatever calls
\* and failures overlap; without overlapping writes the collection counts the
\* chunks there are and no document that is not ready.
ReadyHasChunks == \A d \in Docs : document[d] = "ready" <=> d \in DOMAIN embedding

CountsAreBounded ==
    ~overlapped =>
       /\ collection.state = "open" => collection.chunks = Cardinality(DOMAIN embedding)
       /\ collection.state = "open" => collection.documents <= Cardinality(DOMAIN embedding)

CollectionsInv == TypeOK /\ ReadyHasChunks /\ CountsAreBounded

\* All chunks are in the space of the whole corpus (or the pretrained one), as the
\* module's text promises, if no two writes overlap and whatever fails.
InOneSpace ==
    \A d \in DOMAIN embedding :
       embedding[d] = IF tfidf THEN DOMAIN embedding ELSE Pretrained

OneSpace == ~overlapped => InOneSpace

\* query and embed_query: the question's vector is comparable with all chunks. It
\* is not between the dump of a vectorizer and the commit of the rows, nor, when
\* that does not come, until the next write commits.
HasVectorizer == tfidf => collection.path

Comparable == tfidf => \A d \in DOMAIN embedding : embedding[d] = vectorizer

Answerable == DOMAIN embedding # {} => HasVectorizer /\ Comparable

QueriesAnswered ==
    ~overlapped /\ ~torn
    /\ (\A u \in Callers : call[u].pc \notin {"commit", "removed", "drop"}) => Answerable

\* "All chunks in a collection stay in the same vector space."
SameSpace == \A d, e \in DOMAIN embedding : embedding[d] = embedding[e]
================================================================================
