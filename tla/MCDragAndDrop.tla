--------------------------- MODULE MCDragAndDrop ---------------------------
(* Drag and drop as TLC checks it; the bound is given in the cfg file.     *)
EXTENDS DragAndDrop
=============================================================================
