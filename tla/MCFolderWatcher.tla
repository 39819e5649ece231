-------------------------- MODULE MCFolderWatcher ---------------------------
(***************************************************************************)
(* FolderWatcher for TLC: files in the first of two input directories.     *)
(***************************************************************************)
EXTENDS FolderWatcher

CONSTANTS f1, f2, d1, d2
MCFiles == {f1, f2}
MCOneFile == {f1}
MCDirs == {d1, d2}
MCHome == [f \in Files |-> d1]
=============================================================================
