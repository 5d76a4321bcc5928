---------------------------- MODULE MCUploadApi -----------------------------
(***************************************************************************)
(* UploadApi on small instances.                                           *)
(***************************************************************************)
EXTENDS UploadApi, TLC

MCSymmetry == Permutations(Workers)
=============================================================================
