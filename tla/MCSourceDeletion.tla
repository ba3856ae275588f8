-------------------------- MODULE MCSourceDeletion --------------------------
(* The core instance with deletions at the source under one fixed policy, *)
(* so that every source change is a deletion.                              *)
EXTENDS SourceDeletion, MCExporter

DeletionPolicies == {WildcardPolicy}

=============================================================================
