--------------------------- MODULE MCEngineStage ----------------------------
(***************************************************************************)
(* EngineStage for TLC: two RIFE jobs and one upscale job; one RIFE engine *)
(* writes more than the pipe holds and can only be stopped.                *)
(***************************************************************************)
EXTENDS EngineStage

CONSTANTS r1, r2, u1
MCRife == {r1, r2}
MCUpscale == {u1}
MCOutput == [j \in MCRife \cup MCUpscale |-> IF j = r2 THEN 3 ELSE 2]
=============================================================================
