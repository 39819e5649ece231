-------------------------- MODULE MCSequencePlayer --------------------------
\* Two files and up to three clips of them: a file may be in the strip twice.
EXTENDS SequencePlayer
==============================================================================
