-------------------------- MODULE MCListPagination --------------------------
(* ListPagination on lists of up to three saves.                          *)
EXTENDS ListPagination

(* The row of a save that was added and updated in second t *)
Saved(t) ==
    [time_added |-> t, time_updated |-> t, time_read |-> 0, time_favorited |-> 0,
     status |-> "UNREAD", favorite |-> FALSE, tags |-> {}, highlighted |-> FALSE,
     content |-> Null]

Archived(t) == [Saved(3) EXCEPT !.status = IF t = 0 THEN "UNREAD" ELSE "ARCHIVED", !.time_read = t]

(* Lists without and with ties, and with one save less *)
UpdatedLists ==
    {[i \in Ids |-> Saved(times[i])] : times \in
        {<<2, 3, 1>>, <<1, 1, 2>>, <<1, 2, 2>>}}
    \cup {[i \in Ids |-> IF i = 2 THEN Null ELSE Saved(i)]}

(* Lists of archived saves, some never archived *)
ArchivedLists ==
    {[i \in Ids |-> Archived(times[i])] : times \in {<<2, 0, 1>>, <<0, 0, 1>>}}

(* Lists whose saves differ in what filters look at *)
FilteredLists ==
    {[i \in Ids |->
        CASE i = 1 -> [Saved(2) EXCEPT !.highlighted = TRUE, !.favorite = TRUE, !.content = c]
          [] i = 2 -> [Archived(3) EXCEPT !.tags = {"a"}]
          [] i = 3 -> [Saved(1) EXCEPT !.tags = {"a", "b"}, !.highlighted = TRUE, !.status = "DELETED",
                                       !.content = [is_article |-> 1, video |-> 0, image |-> 0]]] :
        c \in {[is_article |-> 0, video |-> 1, image |-> 1], [is_article |-> 0, video |-> 2, image |-> 0],
               [is_article |-> 0, video |-> 0, image |-> 2]}}

NoFilter == [updatedSince |-> Null, isFavorite |-> Null, isArchived |-> Null, status |-> Null,
             statuses |-> Null, isHighlighted |-> Null, contentType |-> Null, tagNames |-> {}]

PlainWalks ==
    [from : {"first", "last"}, size : {1, 2}, sortOrder : {"asc", "desc"},
     sortBy : {"UPDATED_AT", "ARCHIVED_AT"}, filter : {NoFilter}]

Filters ==
    {[NoFilter EXCEPT !.isArchived = FALSE, !.updatedSince = 1],
     [NoFilter EXCEPT !.statuses = {"UNREAD", "ARCHIVED"}],
     [NoFilter EXCEPT !.status = "UNREAD", !.isFavorite = FALSE],
     [NoFilter EXCEPT !.isHighlighted = TRUE, !.tagNames = {"a"}],
     [NoFilter EXCEPT !.isHighlighted = FALSE],
     [NoFilter EXCEPT !.tagNames = {"b", Untagged}],
     [NoFilter EXCEPT !.tagNames = {Untagged}]}
    \cup {[NoFilter EXCEPT !.contentType = t] : t \in {"HAS_VIDEO", "ARTICLE", "IS_EXTERNAL", "IS_VIDEO", "IS_IMAGE"}}

FilteredWalks ==
    [from : {"first"}, size : {1}, sortOrder : {"desc"}, sortBy : {"UPDATED_AT"},
     filter : Filters]

AllWalks == PlainWalks \cup FilteredWalks

AllLists == UpdatedLists \cup ArchivedLists \cup FilteredLists

(* A client that goes from the end of the list to its front *)
BackwardWalks == {w \in PlainWalks : w.from = "last" /\ w.sortBy = "UPDATED_AT"}

TiedLists == {[i \in Ids |-> Saved(times[i])] : times \in {<<1, 1, 2>>, <<1, 2, 2>>}}
=============================================================================
