--------------------------- MODULE MCRefTraversal ---------------------------
(***************************************************************************)
(* RefTraversal on Reference classes with up to two nonstatic oop-map      *)
(* blocks of up to two slots: enough for an empty map, an empty block, a   *)
(* null slot between non-null ones and a second block after the first.     *)
(***************************************************************************)
EXTENDS RefTraversal

MCMaxBlocks == 2
MCMaxBlockLen == 2

=============================================================================
