------------------------- MODULE MCObjArrayChunking -------------------------
(***************************************************************************)
(* Small instances of ObjArrayChunking for TLC.  A line of 4 words and a   *)
(* start address in 0..3 give every alignment of the array; lengths up to  *)
(* 11 give arrays below the threshold, arrays with no whole chunk, and     *)
(* arrays with several chunks, a prefix and a tail at once.                *)
(***************************************************************************)
EXTENDS ObjArrayChunking

\* A threshold of LineWords - 1, the smallest one the layout allows.
MCThreshold == 3
\* A threshold below the cache-line gap: the prefix can pass the array end.
MCShortThreshold == 1
MCChunkSize == 2
MCLineWords == 4
MCMaxBase == 3
MCMaxLen == 11
\* Arrays no longer than MCThreshold only, at every offset in two lines.
MCShortMaxLen == 3
MCShortMaxBase == 7
=============================================================================
