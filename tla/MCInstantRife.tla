--------------------------- MODULE MCInstantRife ----------------------------
(* Two clips of one source, of which the second is there from the start,  *)
(* densities 0 to 2, two actions of the user, two tasks of a kind.         *)
EXTENDS InstantRife

MCClips == 1..2
MCRestored == {2}
MCSource == [c \in MCClips |-> "a"]
=============================================================================
