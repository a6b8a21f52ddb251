--------------------------- MODULE MCTagMutations ---------------------------
(* TagMutations with two saves and the names "work", "WORK" and "mom's",   *)
(* and what becomes of the last one when it is stored                      *)
EXTENDS TagMutations, TLC

CONSTANTS s1, s2, work, moms, r1, r2

Name(w, c, q, e) == [word |-> w, capital |-> c, quoted |-> q, escapes |-> e]
Work == Name(work, FALSE, FALSE, 0)
WORK == Name(work, TRUE, FALSE, 0)
Moms == Name(moms, FALSE, TRUE, 0)
StoredMoms == Name(moms, FALSE, TRUE, 1)

With(op, adds, removes, tag, name) ==
    [op |-> op, adds |-> adds, removes |-> removes, tag |-> tag, name |-> name]
Adding(op, f) == With(op, f, NoLists, NoTag, NoTag)

Both(a, b) == s1 :> a @@ s2 :> b

(* One of every kind that the code tells apart *)
AnyInput ==
    { Adding("create", Both({WORK}, {Moms})),
      Adding("createByUrl", s2 :> {Work}), Adding("createByUrl", s1 :> {}),
      With("untag", NoLists, Both({Work}, {StoredMoms}), NoTag, NoTag),
      With("deleteTag", NoLists, NoLists, Work, NoTag),
      With("rename", NoLists, NoLists, Work, Moms),
      With("rename", NoLists, NoLists, StoredMoms, NoTag),
      Adding("replaceOne", s2 :> {Work}),
      Adding("clear", s1 :> {}),
      Adding("replace", Both({}, {Work, WORK})),
      With("batch", s1 :> {WORK}, s2 :> {Work}, NoTag, NoTag),
      With("batch", Both({Moms}, {Moms}), s1 :> {StoredMoms, Work}, NoTag, NoTag) }

(* What can come between the steps of another: additions and removals, of  *)
(* associations and of tags                                                *)
Overtaking ==
    { Adding("create", Both({WORK}, {Moms})),
      With("untag", NoLists, Both({Work}, {StoredMoms}), NoTag, NoTag),
      With("deleteTag", NoLists, NoLists, Work, NoTag),
      With("rename", NoLists, NoLists, StoredMoms, WORK) }

AllKinds == r1 :> AnyInput @@ r2 :> Overtaking

(* A client tidies up the spelling of its tag *)
Tidying ==
    r1 :> { Adding("create", s1 :> {WORK}), With("rename", NoLists, NoLists, Work, WORK) }
=============================================================================
