----------------------------- MODULE MCJobQueue -----------------------------
(***************************************************************************)
(* JobQueue for TLC.  The ids are model values and every behaviour is      *)
(* finite in data: an id is used once, as a uuid is.                       *)
(***************************************************************************)
EXTENDS JobQueue

CONSTANTS i1, i2, i3, d1, d2
MCItems == {i1, i2, i3}
MCDirects == {d1, d2}
MCTokens == MCItems \cup MCDirects
MCBadBody == {i2}
=============================================================================
