-------------------------- MODULE MCPublishedHead --------------------------
(* Instances of PublishedHead for TLC. *)
EXTENDS PublishedHead
AllChanges == {"push", "rewrite", "target", "merge", "close", "edit", "issue", "revise"}
=============================================================================
