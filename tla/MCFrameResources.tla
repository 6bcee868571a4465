-------------------------- MODULE MCFrameResources --------------------------
(* Instances of FrameResources for TLC; the constants are in the cfg files.*)
EXTENDS FrameResources
=============================================================================
