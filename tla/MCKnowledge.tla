---------------------------- MODULE MCKnowledge ----------------------------
(* Small instances of KnowledgeLifecycle; the .cfg files give the bounds.  *)
EXTENDS KnowledgeLifecycle, TLC

CONSTANTS summary, question, wiki
=============================================================================
