----------------------------- MODULE MCDirWatch -----------------------------
(***************************************************************************)
(* DirWatch for TLC: one job with three watched stages, as a pipeline that *)
(* dumps a clip and runs two directory filters on the frames.              *)
(***************************************************************************)
EXTENDS DirWatch

MCTokens == {Job}
=============================================================================
