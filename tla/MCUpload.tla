------------------------------ MODULE MCUpload ------------------------------
(* Instances of ProjectUpload for TLC. *)
EXTENDS UploadProperties

CONSTANTS c1, c2, h1, h2, f1, f2, a1, a2
=============================================================================
