---------------------- MODULE KnowledgeIngestionProofs ----------------------
(***************************************************************************)
(* Proofs about KnowledgeIngestion, for any number of uploads, engineers   *)
(* and embedding revisions.  No lock spans the duplicate check of an upload*)
(* and its INSERT, nor the reads and writes of an indexer: the invariant   *)
(* says what each may rely on across that gap.                             *)
(***************************************************************************)
EXTENDS KnowledgeIngestion, FiniteSetTheorems, TLAPS

\* A handler at work has answered nothing. A file that went on was parsed and chunked; a candidate
\* is stored before its client hears "staged", and an error leaves open whether it is.
AnswersFit ==
  \A u \in Upload :
    /\ phase[u] # "done" => answer[u] = "none"
    /\ phase[u] \in {"idle", "parsed", "checked"} \/ answer[u] \in {"invalid", "duplicate"}
       => candidate[u].status = "absent"
    /\ phase[u] = "stored" \/ answer[u] = "staged" => candidate[u].status # "absent"
    /\ phase[u] \in {"parsed", "checked"} \/ candidate[u].status # "absent" => Parses(u) /\ Chunks(u)

\* The case of a case upload existed when its handler checked it, and cases stay.
CaseBound ==
  \A u \in Upload :
    /\ file[u].type = "RCA_CASE"
    /\ phase[u] \in {"parsed", "checked"} \/ candidate[u].status # "absent"
    => cases

\* Who decided what.
DecisionsFit ==
  \A u \in Upload :
    /\ IsFiniteSet(candidate[u].approvers)
    /\ candidate[u].status # "rejected" => candidate[u].rejecters = {}
    /\ candidate[u].status = "published" <=> u \in documents
    /\ u \in documents => Cardinality(candidate[u].approvers) >= 2

\* An indexer works on confirmed documents, and only they carry vectors.
IndexFits ==
  /\ \A r \in Revision : pending[r] # None => pending[r] \subseteq documents
  /\ \A u \in Upload : vector[u] # None => u \in documents

IInv ==
  /\ TypeOK /\ AnswersFit /\ CaseBound /\ DecisionsFit /\ IndexFits
  /\ Deduplicated

LEMMA ActiveFollows == IInv => ActiveWasApproved
BY DEF IInv, TypeOK, AnswersFit, CaseBound, DecisionsFit, IndexFits, ActiveWasApproved

LEMMA InitIInv == Init => IInv
<1> SUFFICES ASSUME Init PROVE IInv
  OBVIOUS
<1>1. TypeOK
  BY DEF Init, TypeOK, Status
<1>2. AnswersFit /\ CaseBound /\ IndexFits
  BY DEF Init, AnswersFit, CaseBound, IndexFits
<1>3. DecisionsFit
  BY FS_EmptySet DEF Init, DecisionsFit
<1>4. Deduplicated
  BY DEF Init, Deduplicated, OnePerContent, DuplicateHasTwin, Pending
<1>5. QED BY <1>1, <1>2, <1>3, <1>4 DEF IInv

\* A set that gains a second member has two.
LEMMA TwoOfThem ==
  ASSUME NEW S, NEW e, IsFiniteSet(S), S # {}, e \notin S
  PROVE  IsFiniteSet(S \cup {e}) /\ Cardinality(S \cup {e}) >= 2
<1>1. IsFiniteSet(S \cup {e}) /\ Cardinality(S \cup {e}) = Cardinality(S) + 1
  BY FS_AddElement
<1>2. Cardinality(S) \in Nat /\ Cardinality(S) # 0
  BY FS_CardinalityType, FS_EmptySet
<1>3. QED BY <1>1, <1>2

\* Steps of a handler that change neither candidates nor documents.
LEMMA HandlerSteps ==
  ASSUME IInv, NEW u \in Upload,
         Ingest(u) \/ SelectDuplicate(u) \/ ReadBack(u) \/ UploadFails(u)
  PROVE  IInv'
<1>0. UNCHANGED <<file, candidate, documents, vector, cases, pending>>
  BY DEF Ingest, SelectDuplicate, ReadBack, UploadFails
<1>1. /\ phase[u] # "done"
      /\ phase' \in [Upload -> {"idle", "parsed", "checked", "stored", "done"}]
      /\ answer' \in [Upload -> {"none", "staged", "duplicate", "invalid", "error"}]
      /\ \A v \in Upload \ {u} : phase'[v] = phase[v] /\ answer'[v] = answer[v]
      /\ phase'[u] # "done" => answer'[u] = answer[u] /\ phase'[u] \in {"parsed", "checked"}
  BY DEF Ingest, SelectDuplicate, ReadBack, UploadFails, Goto, Tell, IInv, TypeOK, AnswersFit
<1>2. answer[u] = "none"
  BY <1>1 DEF IInv, AnswersFit
<1>3. /\ answer'[u] = "staged" => phase[u] = "stored"
      /\ answer'[u] \in {"invalid", "duplicate"} \/ phase'[u] # "done" =>
           phase[u] \in {"idle", "parsed", "checked"}
      /\ phase'[u] \in {"parsed", "checked"} =>
           \/ phase[u] \in {"parsed", "checked"}
           \/ (file[u].type = "RCA_CASE" => cases) /\ Parses(u) /\ Chunks(u)
      /\ answer'[u] = "duplicate" => Same(u) \cap (Pending \cup documents) # {}
  BY <1>2 DEF Ingest, SelectDuplicate, ReadBack, UploadFails, Goto, Tell, IInv, TypeOK
<1>4. TypeOK'
  BY <1>0, <1>1 DEF IInv, TypeOK
<1>5. AnswersFit'
  <2> SUFFICES ASSUME NEW v \in Upload
               PROVE  /\ phase'[v] # "done" => answer'[v] = "none"
                      /\ phase'[v] \in {"idle", "parsed", "checked"}
                           \/ answer'[v] \in {"invalid", "duplicate"}
                         => candidate[v].status = "absent"
                      /\ phase'[v] = "stored" \/ answer'[v] = "staged"
                         => candidate[v].status # "absent"
                      /\ phase'[v] \in {"parsed", "checked"} \/ candidate[v].status # "absent"
                         => Parses(v) /\ Chunks(v)
    BY <1>0 DEF AnswersFit, Parses, Chunks
  <2>1. CASE v # u
    BY <1>1, <2>1 DEF IInv, AnswersFit
  <2>2. CASE v = u
    BY <1>1, <1>2, <1>3, <2>2 DEF IInv, AnswersFit
  <2>3. QED BY <2>1, <2>2
<1>6. CaseBound'
  BY <1>0, <1>1, <1>3 DEF IInv, CaseBound
<1>7. DecisionsFit' /\ IndexFits' /\ OnePerContent'
  BY <1>0 DEF IInv, DecisionsFit, IndexFits, Deduplicated, OnePerContent, Pending
<1>8. DuplicateHasTwin'
  <2> SUFFICES ASSUME NEW v \in Upload, answer'[v] = "duplicate"
               PROVE  /\ candidate[v].status = "absent"
                      /\ \E w \in Same(v) \ {v} : candidate[w].status # "absent"
    BY <1>0 DEF DuplicateHasTwin, Same
  <2>1. CASE v # u
    BY <1>1, <2>1 DEF IInv, Deduplicated, DuplicateHasTwin
  <2>2. CASE v = u
    <3>1. candidate[u].status = "absent"
      BY <2>2, <1>3 DEF IInv, AnswersFit
    <3>2. PICK w \in Same(u) : w \in Pending \cup documents
      BY <2>2, <1>3
    <3>3. candidate[w].status # "absent"
      BY <3>2 DEF IInv, TypeOK, DecisionsFit, Pending, Same
    <3>4. QED BY <2>2, <3>1, <3>2, <3>3
  <2>3. QED BY <2>1, <2>2
<1>9. QED BY <1>4, <1>5, <1>6, <1>7, <1>8 DEF IInv, Deduplicated

LEMMA InsertStep ==
  ASSUME IInv, NEW u \in Upload, Insert(u)
  PROVE  IInv'
<1>0. phase[u] = "checked" /\ answer[u] = "none" /\ candidate[u].status = "absent"
  BY DEF Insert, IInv, AnswersFit
<1>1. CASE Same(u) \cap Pending = {} /\ Stage(u)
  <2>0. /\ UNCHANGED <<file, documents, vector, cases, pending>>
        /\ candidate' = [candidate EXCEPT ![u].status = "pending_approval"]
        /\ answer' = answer
        /\ phase' = [phase EXCEPT ![u] = "stored"]
    BY <1>1 DEF Insert, Stage, Goto
  <2>1. TypeOK'
    BY <2>0 DEF IInv, TypeOK, Status
  <2>2. /\ candidate'[u].status = "pending_approval"
        /\ candidate'[u].approvers = candidate[u].approvers
        /\ candidate'[u].rejecters = candidate[u].rejecters
        /\ \A v \in Upload \ {u} : candidate'[v] = candidate[v]
    BY <2>0 DEF IInv, TypeOK
  <2>3. AnswersFit'
    BY <2>0, <2>2, <1>0 DEF IInv, TypeOK, AnswersFit, Parses, Chunks
  <2>4. CaseBound'
    BY <2>0, <2>2, <1>0 DEF IInv, TypeOK, CaseBound
  <2>5. DecisionsFit' /\ IndexFits'
    BY <2>0, <2>2, <1>0 DEF IInv, TypeOK, DecisionsFit, IndexFits
  <2>6. Pending' = Pending \cup {u}
    BY <2>2 DEF Pending
  <2>7. OnePerContent'
    BY <2>0, <2>6, <1>1 DEF IInv, Deduplicated, OnePerContent, Same, Pending
  <2>8. DuplicateHasTwin'
    BY <2>0, <2>2, <1>0 DEF IInv, TypeOK, Deduplicated, DuplicateHasTwin, Same
  <2>9. QED BY <2>1, <2>3, <2>4, <2>5, <2>7, <2>8 DEF IInv, Deduplicated
<1>2. CASE /\ Same(u) \cap Pending # {} /\ Tell(u, "duplicate") /\ Goto(u, "done")
           /\ UNCHANGED candidate
  <2>0. /\ UNCHANGED <<file, candidate, documents, vector, cases, pending>>
        /\ answer' = [answer EXCEPT ![u] = "duplicate"]
        /\ phase' = [phase EXCEPT ![u] = "done"]
    BY <1>2 DEF Insert, Tell, Goto
  <2>1. TypeOK' /\ AnswersFit' /\ CaseBound'
    BY <2>0, <1>0 DEF IInv, TypeOK, AnswersFit, CaseBound, Parses, Chunks
  <2>2. DecisionsFit' /\ IndexFits' /\ OnePerContent'
    BY <2>0 DEF IInv, DecisionsFit, IndexFits, Deduplicated, OnePerContent, Pending
  <2>3. PICK w \in Same(u) : w \in Pending
    BY <1>2
  <2>4. w # u /\ candidate[w].status # "absent"
    BY <2>3, <1>0 DEF Pending
  <2>5. DuplicateHasTwin'
    BY <2>0, <2>3, <2>4, <1>0 DEF IInv, TypeOK, Deduplicated, DuplicateHasTwin, Same
  <2>6. QED BY <2>1, <2>2, <2>5 DEF IInv, Deduplicated
<1>3. QED BY <1>1, <1>2 DEF Insert

\* A decision on one candidate.
LEMMA DecisionSteps ==
  ASSUME IInv, NEW u \in Upload, NEW e \in Engineer,
         Approve(u, e) \/ Publish(u, e) \/ Reject(u, e)
  PROVE  IInv'
<1>0. /\ UNCHANGED <<file, phase, answer, vector, cases, pending>>
      /\ candidate[u].status = "pending_approval" /\ e \notin candidate[u].approvers
  BY DEF Approve, Publish, Reject, Undecided
<1>a. candidate[u] \in [status : Status, approvers : SUBSET Engineer, rejecters : SUBSET Engineer]
  BY DEF IInv, TypeOK
<1>1. /\ \A v \in Upload \ {u} : candidate'[v] = candidate[v]
      /\ candidate'[u].status \in {"pending_approval", "published", "rejected"}
      /\ TypeOK'
  <2>1. CASE Approve(u, e)
    BY <2>1, <1>0, <1>a DEF Approve, IInv, TypeOK, Status
  <2>2. CASE Reject(u, e)
    BY <2>2, <1>0, <1>a DEF Reject, IInv, TypeOK, Status
  <2>3. CASE Publish(u, e)
    BY <2>3, <1>0, <1>a DEF Publish, IInv, TypeOK, Status
  <2>4. QED BY <2>1, <2>2, <2>3
<1>2. AnswersFit' /\ CaseBound'
  BY <1>0, <1>1 DEF IInv, AnswersFit, CaseBound, Parses, Chunks
<1>3. documents \subseteq documents' /\ documents' \subseteq documents \cup {u}
  BY DEF Approve, Publish, Reject
<1>4. IndexFits'
  BY <1>0, <1>3 DEF IInv, IndexFits
<1>5. DecisionsFit'
  <2>0. IsFiniteSet(candidate[u].approvers) /\ candidate[u].rejecters = {} /\ u \notin documents
    BY <1>0 DEF IInv, DecisionsFit
  <2>1. CASE Approve(u, e)
    <3>1. /\ candidate'[u].status = "pending_approval" /\ candidate'[u].rejecters = {}
          /\ candidate'[u].approvers = candidate[u].approvers \cup {e}
          /\ documents' = documents
      BY <2>0, <2>1, <1>0, <1>a DEF Approve, IInv, TypeOK
    <3>2. IsFiniteSet(candidate'[u].approvers)
      BY <2>0, <3>1, FS_AddElement
    <3>3. QED BY <3>1, <3>2, <2>0, <1>1 DEF IInv, DecisionsFit
  <2>2. CASE Reject(u, e)
    <3>1. /\ candidate'[u].status = "rejected"
          /\ candidate'[u].approvers = candidate[u].approvers
          /\ documents' = documents
      BY <2>2, <1>0, <1>a DEF Reject, IInv, TypeOK
    <3>2. QED BY <3>1, <2>0, <1>1 DEF IInv, DecisionsFit
  <2>3. CASE Publish(u, e)
    <3>1. /\ candidate'[u].status = "published" /\ candidate'[u].rejecters = {}
          /\ candidate'[u].approvers = candidate[u].approvers \cup {e}
          /\ documents' = documents \cup {u}
      BY <2>0, <2>3, <1>0, <1>a DEF Publish, IInv, TypeOK
    <3>2. IsFiniteSet(candidate'[u].approvers) /\ Cardinality(candidate'[u].approvers) >= 2
      <4>1. candidate[u].approvers # {}
        BY <2>3 DEF Publish
      <4>2. QED BY <2>0, <1>0, <3>1, <4>1, TwoOfThem
    <3>3. QED BY <3>1, <3>2, <2>0, <1>1 DEF IInv, DecisionsFit
  <2>4. QED BY <2>1, <2>2, <2>3
<1>6. OnePerContent'
  <2>1. Pending' \subseteq Pending
    BY <1>0, <1>1 DEF Pending
  <2>2. u \in documents' => u \in documents \/ Same(u) \cap documents = {}
    BY DEF Approve, Publish, Reject
  <2>3. documents \subseteq Upload
    BY DEF IInv, TypeOK
  <2>4. \A v, w \in documents' : file[v].content = file[w].content => v = w
    BY <1>3, <2>2, <2>3 DEF IInv, Deduplicated, OnePerContent, Same
  <2>5. \A v, w \in Pending' : file[v].content = file[w].content => v = w
    BY <2>1 DEF IInv, Deduplicated, OnePerContent
  <2>6. QED BY <1>0, <2>4, <2>5 DEF OnePerContent
<1>7. DuplicateHasTwin'
  BY <1>0, <1>1 DEF IInv, Deduplicated, DuplicateHasTwin, Same
<1>8. QED BY <1>1, <1>2, <1>4, <1>5, <1>6, <1>7 DEF IInv, Deduplicated

\* The indexer, and a case that appears, leave uploads and candidates alone.
LEMMA IndexSteps ==
  ASSUME IInv, UNCHANGED <<file, phase, answer, candidate, documents>>,
         TypeOK', IndexFits', cases => cases'
  PROVE  IInv'
<1>1. AnswersFit' /\ CaseBound' /\ DecisionsFit'
  BY DEF IInv, AnswersFit, CaseBound, DecisionsFit, Parses, Chunks
<1>2. Deduplicated'
  BY DEF IInv, Deduplicated, OnePerContent, DuplicateHasTwin, Same, Pending
<1>3. QED BY <1>1, <1>2 DEF IInv

LEMMA NextKeepsIInv == IInv /\ [Next]_vars => IInv'
<1> SUFFICES ASSUME IInv, [Next]_vars PROVE IInv'
  OBVIOUS
<1> USE IngestionAssumption
<1>1. CASE PublishCase
  <2>1. TypeOK' /\ IndexFits'
    BY <1>1 DEF PublishCase, IInv, TypeOK, IndexFits
  <2>2. QED BY <1>1, <2>1, IndexSteps DEF PublishCase
<1>2. ASSUME NEW u \in Upload, Ingest(u) \/ SelectDuplicate(u) \/ ReadBack(u) \/ UploadFails(u)
      PROVE  IInv'
  BY <1>2, HandlerSteps
<1>3. ASSUME NEW u \in Upload, Insert(u) PROVE IInv'
  BY <1>3, InsertStep
<1>4. ASSUME NEW u \in Upload, NEW e \in Engineer, Approve(u, e) \/ Publish(u, e) \/ Reject(u, e)
      PROVE  IInv'
  BY <1>4, DecisionSteps
<1>5. ASSUME NEW r \in Revision, SyncSelect(r) PROVE IInv'
  <2>1. TypeOK' /\ IndexFits'
    BY <1>5 DEF SyncSelect, IInv, TypeOK, IndexFits
  <2>2. QED BY <1>5, <2>1, IndexSteps DEF SyncSelect
<1>6. ASSUME NEW r \in Revision, SyncUpdate(r) PROVE IInv'
  <2>1. pending[r] \subseteq documents
    BY <1>6 DEF SyncUpdate, IInv, IndexFits
  <2>2. TypeOK' /\ IndexFits'
    BY <1>6, <2>1 DEF SyncUpdate, IInv, TypeOK, IndexFits
  <2>3. QED BY <1>6, <2>2, IndexSteps DEF SyncUpdate
<1>7. ASSUME NEW r \in Revision, SyncFails(r) PROVE IInv'
  <2>1. TypeOK' /\ IndexFits'
    BY <1>7 DEF SyncFails, IInv, TypeOK, IndexFits
  <2>2. QED BY <1>7, <2>1, IndexSteps DEF SyncFails
<1>8. CASE UNCHANGED vars
  <2>1. TypeOK' /\ IndexFits'
    BY <1>8 DEF vars, IInv, TypeOK, IndexFits
  <2>2. QED BY <1>8, <2>1, IndexSteps DEF vars
<1>9. QED BY <1>1, <1>2, <1>3, <1>4, <1>5, <1>6, <1>7, <1>8 DEF Next

\* No content is stored twice although the duplicate check and the INSERT are two steps, and an
\* upload is refused as a duplicate only when another of its content is stored, whatever the client
\* of that one was told (create_candidate, commit_approval).
THEOREM UploadsAreDeduplicated == Spec => []Deduplicated
<1>1. IInv => Deduplicated
  BY DEF IInv
<1>2. QED BY InitIInv, NextKeepsIInv, <1>1, PTL DEF Spec

\* What retrieval can see, and what carries vectors, was parsed and chunked, approved by two
\* engineers and belongs to a case that exists, whether or not its client heard of its staging.
THEOREM ActiveKnowledgeWasApproved == Spec => []ActiveWasApproved
BY InitIInv, NextKeepsIInv, ActiveFollows, PTL DEF Spec
=============================================================================
