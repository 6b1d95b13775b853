------------------------- MODULE MCConstantPoolKlass -------------------------
(***************************************************************************)
(* Pools of up to four entries: every mix of non-pointer, null and         *)
(* non-null pointer entries, with and without the tags array.              *)
(***************************************************************************)
EXTENDS ConstantPoolKlass

MCMaxPoolLen == 4
=============================================================================
