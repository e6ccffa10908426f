------------------------ MODULE MCKnowledgeIngestion ------------------------
(* Uploads, contents, engineers and revisions are each alike. *)
EXTENDS KnowledgeIngestion, TLC

Alike ==
  Permutations(Upload) \cup Permutations(Content) \cup Permutations(Engineer)
    \cup Permutations(Revision)
=============================================================================
