---------------------------- MODULE MCMediaRepair ----------------------------
\* Two files; one slot for probes and one for thumbnails, so that one file
\* waits for the other; two hashes may be under way.
EXTENDS MediaRepair

MCCap == [k \in {"hash", "probe", "thumb"} |-> IF k = "hash" THEN 2 ELSE 1]
==============================================================================
