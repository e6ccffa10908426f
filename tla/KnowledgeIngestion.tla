------------------------- MODULE KnowledgeIngestion -------------------------
(***************************************************************************)
(* Uploaded knowledge (knowledge_ingestion.py, knowledge_store.py): an     *)
(* upload is parsed and chunked, compared with what exists, staged, decided*)
(* on by engineers and published into the active index; an indexer embeds  *)
(* what is active (knowledge_vector_store.py) while uploads and approvals  *)
(* go on. Two partial unique indexes keep one pending candidate and one    *)
(* confirmed document for a content. A candidate is committed before its   *)
(* client hears of it: the answer is read on another connection, which may *)
(* fail.                                                                   *)
(***************************************************************************)
EXTENDS Naturals, FiniteSets

CONSTANTS
  Upload,     \* POST /knowledge/ingestions; each stages at most one candidate
  Content,    \* extracted texts, equal exactly when their SHA-256 are
  Engineer,
  Revision,   \* embedding model revisions that are deployed at the same time
  None

ASSUME IngestionAssumption == None \notin Content \cup Revision

VARIABLES
  file,       \* what each upload carries
  phase,      \* where its handler is
  answer,     \* what its client was told
  candidate,  \* the staged rows: status, decisions
  documents,  \* confirmed knowledge_document rows with their active chunks
  vector,     \* the revision whose vectors a document's chunks carry
  cases,      \* whether the rca_case the uploads name exists
  pending     \* the work list of each running indexer, None when it does not run

vars == <<file, phase, answer, candidate, documents, vector, cases, pending>>

File == [content : Content, type : {"RCA_CASE", "SOP"}, text : {"unreadable", "unchunkable", "fine"}]
Status == {"absent", "pending_approval", "published", "rejected"}

TypeOK ==
  /\ file \in [Upload -> File]
  /\ phase \in [Upload -> {"idle", "parsed", "checked", "stored", "done"}]
  /\ answer \in [Upload -> {"none", "staged", "duplicate", "invalid", "error"}]
  /\ candidate \in [Upload -> [status : Status, approvers : SUBSET Engineer, rejecters : SUBSET Engineer]]
  /\ documents \subseteq Upload
  /\ vector \in [Upload -> Revision \cup {None}]
  /\ cases \in BOOLEAN
  /\ pending \in [Revision -> {None} \cup SUBSET Upload]

Init ==
  /\ file \in [Upload -> File]
  /\ phase = [u \in Upload |-> "idle"]
  /\ answer = [u \in Upload |-> "none"]
  /\ candidate = [u \in Upload |-> [status |-> "absent", approvers |-> {}, rejecters |-> {}]]
  /\ documents = {}
  /\ vector = [u \in Upload |-> None]
  /\ cases = FALSE
  /\ pending = [r \in Revision |-> None]

-----------------------------------------------------------------------------
Goto(u, where) == phase' = [phase EXCEPT ![u] = where]
Tell(u, what) == answer' = [answer EXCEPT ![u] = what]
Same(u) == {v \in Upload : file[v].content = file[u].content}
Pending == {u \in Upload : candidate[u].status = "pending_approval"}

\* MemoryApproval publishes an rca_case; uploads may name it from then on.
PublishCase ==
  /\ ~ cases
  /\ cases' = TRUE
  /\ UNCHANGED <<file, phase, answer, candidate, documents, vector, pending>>

\* KnowledgeDocumentParser.parse: the size, name, type and encoding checks, and text to be found.
Parses(u) == file[u].text # "unreadable"

\* KnowledgeChunker.chunk_candidate: at least one chunk and no more than the limit.
Chunks(u) == file[u].text # "unchunkable"

\* ingest, up to the store: the case must exist, the file parse and yield chunks.
Ingest(u) ==
  /\ phase[u] = "idle"
  /\ IF (file[u].type = "RCA_CASE" => cases) /\ Parses(u) /\ Chunks(u)
     THEN Goto(u, "parsed") /\ UNCHANGED answer
     ELSE Goto(u, "done") /\ Tell(u, "invalid")
  /\ UNCHANGED <<file, candidate, documents, vector, cases, pending>>

\* The SELECT of create_candidate.
SelectDuplicate(u) ==
  /\ phase[u] = "parsed"
  /\ IF Same(u) \cap (Pending \cup documents) = {}
     THEN Goto(u, "checked") /\ UNCHANGED answer
     ELSE Goto(u, "done") /\ Tell(u, "duplicate")
  /\ UNCHANGED <<file, candidate, documents, vector, cases, pending>>

\* The candidate is committed; nobody has been told yet.
Stage(u) ==
  /\ candidate' = [candidate EXCEPT ![u].status = "pending_approval"]
  /\ Goto(u, "stored")
  /\ UNCHANGED answer

\* A bug: the SELECT alone guards against duplicates.
InsertUnindexed(u) ==
  /\ phase[u] = "checked"
  /\ Stage(u)
  /\ UNCHANGED <<file, documents, vector, cases, pending>>

\* The INSERT of create_candidate. idx_knowledge_pending_content_sha256 sees pending candidates
\* only, whatever was published since the SELECT.
Insert(u) ==
  /\ phase[u] = "checked"
  /\ \/ /\ Same(u) \cap Pending = {}
        /\ Stage(u)
     \/ /\ Same(u) \cap Pending # {}
        /\ Goto(u, "done")
        /\ Tell(u, "duplicate")
        /\ UNCHANGED candidate
  /\ UNCHANGED <<file, documents, vector, cases, pending>>

\* get_candidate, on a connection of its own: the row is there, whoever decided on it meanwhile.
ReadBack(u) ==
  /\ phase[u] = "stored"
  /\ Goto(u, "done")
  /\ Tell(u, "staged")
  /\ UNCHANGED <<file, candidate, documents, vector, cases, pending>>

\* The database, the process or the connection to the client fails: before the commit nothing is
\* stored; after it the candidate stays and its client is told an error.
UploadFails(u) ==
  /\ phase[u] \in {"parsed", "checked", "stored"}
  /\ Goto(u, "done")
  /\ Tell(u, "error")
  /\ UNCHANGED <<file, candidate, documents, vector, cases, pending>>

Undecided(u, e) ==
  /\ candidate[u].status = "pending_approval"
  /\ e \notin candidate[u].approvers \cup candidate[u].rejecters

\* commit_approval with a rejection; its transaction holds the candidate's row.
Reject(u, e) ==
  /\ Undecided(u, e)
  /\ candidate' = [candidate EXCEPT ![u].status = "rejected", ![u].rejecters = @ \cup {e}]
  /\ UNCHANGED <<file, phase, answer, documents, vector, cases, pending>>

\* The first approval: still staging.
Approve(u, e) ==
  /\ Undecided(u, e)
  /\ candidate[u].approvers = {}
  /\ candidate' = [candidate EXCEPT ![u].approvers = @ \cup {e}]
  /\ UNCHANGED <<file, phase, answer, documents, vector, cases, pending>>

\* A bug: one approval is enough.
PublishEarly(u, e) ==
  /\ Undecided(u, e)
  /\ Same(u) \cap documents = {}
  /\ candidate' = [candidate EXCEPT ![u].status = "published", ![u].approvers = @ \cup {e}]
  /\ documents' = documents \cup {u}
  /\ UNCHANGED <<file, phase, answer, vector, cases, pending>>

\* The second approval: document, active chunks and status commit together. When
\* idx_knowledge_active_content_sha256 refuses the document the transaction rolls back, the
\* approval with it, and nothing changes.
Publish(u, e) ==
  /\ Undecided(u, e)
  /\ candidate[u].approvers # {}
  /\ Same(u) \cap documents = {}
  /\ candidate' = [candidate EXCEPT ![u].status = "published", ![u].approvers = @ \cup {e}]
  /\ documents' = documents \cup {u}
  /\ UNCHANGED <<file, phase, answer, vector, cases, pending>>

\* PostgresKnowledgeEmbeddingIndexer.sync reads the active chunks and lists those whose vectors
\* are not of its model and revision.
SyncSelect(r) ==
  /\ pending[r] = None
  /\ pending' = [pending EXCEPT ![r] = {u \in documents : vector[u] # r}]
  /\ UNCHANGED <<file, phase, answer, candidate, documents, vector, cases>>

\* The vectors computed meanwhile are written, whatever another indexer wrote in between.
SyncUpdate(r) ==
  /\ pending[r] # None
  /\ vector' = [u \in Upload |-> IF u \in pending[r] THEN r ELSE vector[u]]
  /\ pending' = [pending EXCEPT ![r] = None]
  /\ UNCHANGED <<file, phase, answer, candidate, documents, cases>>

\* The embedding backend, the check of its vectors or the database fails: nothing is written.
SyncFails(r) ==
  /\ pending[r] # None
  /\ pending' = [pending EXCEPT ![r] = None]
  /\ UNCHANGED <<file, phase, answer, candidate, documents, vector, cases>>

Next ==
  \/ PublishCase
  \/ \E u \in Upload :
       \/ Ingest(u) \/ SelectDuplicate(u) \/ Insert(u) \/ ReadBack(u) \/ UploadFails(u)
       \/ \E e \in Engineer : Approve(u, e) \/ Publish(u, e) \/ Reject(u, e)
  \/ \E r \in Revision : SyncSelect(r) \/ SyncUpdate(r) \/ SyncFails(r)

Spec == Init /\ [][Next]_vars

-----------------------------------------------------------------------------
\* A content is confirmed once and pending once, however uploads and approvals interleave.
OnePerContent ==
  /\ \A u, v \in documents : file[u].content = file[v].content => u = v
  /\ \A u, v \in Pending : file[u].content = file[v].content => u = v

\* What retrieval can see, and what carries vectors, was parsed and chunked, was not refused to the
\* client that sent it (who may know of an error only), belongs to a case that exists if it is a
\* case, and was approved by two engineers and rejected by none.
ActiveWasApproved ==
  \A u \in Upload : (u \in documents \/ vector[u] # None) =>
    /\ candidate[u].status = "published"
    /\ Cardinality(candidate[u].approvers) >= 2 /\ candidate[u].rejecters = {}
    /\ Parses(u) /\ Chunks(u) /\ answer[u] \notin {"invalid", "duplicate"}
    /\ file[u].type = "RCA_CASE" => cases

\* An upload that was refused as a duplicate has a twin that is stored, even if the client of the
\* twin, or the same client at its first attempt, was told an error.
DuplicateHasTwin ==
  \A u \in Upload : answer[u] = "duplicate" =>
    /\ candidate[u].status = "absent"
    /\ \E v \in Same(u) \ {u} : candidate[v].status # "absent"

\* No content is stored twice, and none is lost because it was taken for a duplicate.
Deduplicated == OnePerContent /\ DuplicateHasTwin
=============================================================================
