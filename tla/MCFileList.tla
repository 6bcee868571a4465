----------------------------- MODULE MCFileList -----------------------------
(* Instances of FileList for TLC; the constants are given in the cfg files.*)
EXTENDS FileList
=============================================================================
