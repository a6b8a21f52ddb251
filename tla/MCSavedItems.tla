---------------------------- MODULE MCSavedItems ----------------------------
(* SavedItems on small instances: two saves for one request at a time, or *)
(* one save for two requests that overlap.                                *)
EXTENDS SavedItems, TLC

(* One mutation of each kind: of single saves by id and by url, with a     *)
(* read before the transaction, and a batch.  Those left out take the same *)
(* steps as one of these and differ in the row that they write.            *)
OverlappingOps == {"upsert", "favorite", "saveUnFavorite", "archive", "delete", "undelete"}

RequestSymmetry == Permutations(Requests)
=============================================================================
