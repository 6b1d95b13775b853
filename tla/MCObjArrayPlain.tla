--------------------------- MODULE MCObjArrayPlain ---------------------------
(***************************************************************************)
(* Small instances of ObjArrayPlain for TLC: every row of the table, start *)
(* addresses 0..2 and lengths 0..4, the empty array included.              *)
(***************************************************************************)
EXTENDS ObjArrayPlain

MCPlainMaxBase == 2
MCPlainMaxLen == 4
MCPlainAddr == 0 .. (MCPlainMaxBase + MCPlainMaxLen)
=============================================================================
