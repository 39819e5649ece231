---------------------------- MODULE MCProjectDesk ----------------------------
\* One project on disk, a second name to save under.
EXTENDS ProjectDesk
==============================================================================
