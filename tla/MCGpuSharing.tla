---------------------------- MODULE MCGpuSharing ----------------------------
(* Machines of up to three queue families.                                 *)
EXTENDS GpuSharing
=============================================================================
