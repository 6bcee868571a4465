---------------------------- MODULE MCRenderLoop ----------------------------
(* The render loop as TLC checks it: it is finite without further bounds.  *)
EXTENDS RenderLoop
=============================================================================
