-------------------------- MODULE MCTagTransaction --------------------------
(* TagTransaction for one or two transactions.  Of the kinds that differ  *)
(* only in the names of their statements one is enough: insert and drop   *)
(* are deletes with one statement less, edit is replace with one less,    *)
(* remove is clear without the item.                                      *)
EXTENDS TagTransaction

DistinctKinds == {"delete", "rename", "replace", "clear", "log"}
=============================================================================
