--------------------------- MODULE MCImageLoading ---------------------------
(* Instances of ImageLoading for TLC; MaxJobs is given in the cfg files.   *)
EXTENDS ImageLoading
=============================================================================
