---------------------------- MODULE MCCPCacheKlass ----------------------------
(***************************************************************************)
(* Caches of up to four entries, every entry vfinal or not: the empty      *)
(* cache, a single entry and entries at both ends of the loop.             *)
(***************************************************************************)
EXTENDS CPCacheKlass

MCMaxEntries == 4
=============================================================================
