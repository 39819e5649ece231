--------------------------- MODULE MCMediaRecords ---------------------------
(***************************************************************************)
(* MediaRecords for TLC.                                                   *)
(***************************************************************************)
EXTENDS MediaRecords

CONSTANTS o1, o2, t1, v1, v2
MCOpens == {o1, o2}
MCOneThumb == {t1}
MCVariants == {v1, v2}
=============================================================================
