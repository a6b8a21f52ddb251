----------------------------- MODULE ListFilter -----------------------------
(***************************************************************************)
(* The filters of User.savedItems and Tag.savedItems, as the conditions    *)
(* and joins that listPaginationService.ts adds to its base query, and     *)
(* next to them what the schema says that each filter selects.             *)
(***************************************************************************)
EXTENDS Naturals

CONSTANTS
    Times,      \* seconds; zero is the zero date
    Names,      \* tag names
    Null        \* a field that a client leaves out, a row of no table

Untagged == "_untagged_"

Statuses == {"UNREAD", "ARCHIVED", "HIDDEN", "DELETED"}

ContentTypes == {"VIDEO", "ARTICLE", "IS_EXTERNAL", "IS_READABLE", "HAS_VIDEO", "IS_IMAGE", "IS_VIDEO"}

(* items_extended: image and video are 1 if the item has one, 2 if it is one *)
Content == [is_article: 0..1, video: 0..2, image: 0..2]

(* A row of list with what other tables hold about its item *)
Row == [time_added: Times, time_updated: Times, time_read: Times, time_favorited: Times,
        status: Statuses, favorite: BOOLEAN, tags: SUBSET Names, highlighted: BOOLEAN,
        content: Content \cup {Null}]

Optional(S) == S \cup {Null}

SavedItemsFilter ==
    [updatedSince: Optional(Times), isFavorite: Optional(BOOLEAN), isArchived: Optional(BOOLEAN),
     status: Optional(Statuses), statuses: Optional(SUBSET Statuses),
     isHighlighted: Optional(BOOLEAN), contentType: Optional(ContentTypes),
     tagNames: SUBSET (Names \cup {Untagged})]

ASSUME TimesAssumption == Times \subseteq Nat /\ 0 \in Times
ASSUME NamesAssumption == Untagged \notin Names

-----------------------------------------------------------------------------
(* The conditions on columns of list *)
Where(filter, row) ==
    /\ filter.updatedSince # Null => row.time_updated > filter.updatedSince
    /\ filter.isFavorite # Null => row.favorite = filter.isFavorite
    /\ filter.isArchived # Null => (row.status = "ARCHIVED") = filter.isArchived
    /\ filter.status # Null => row.status = filter.status
    /\ filter.statuses # Null => row.status \in filter.statuses

(* The join with items_extended: an item that is not there has no type *)
contentTypeFilter(contentType, content) ==
    /\ content # Null
    /\ CASE contentType \in {"VIDEO", "HAS_VIDEO"}      -> content.video = 1
         [] contentType \in {"ARTICLE", "IS_READABLE"}  -> content.is_article = 1
         [] contentType = "IS_IMAGE"                    -> content.image = 2
         [] contentType = "IS_VIDEO"                    -> content.video = 2
         [] contentType = "IS_EXTERNAL" ->
                content.is_article = 0 /\ content.video # 2 /\ content.image # 2

(* The rows that list LEFT JOIN item_tags has for an item: one with Null   *)
(* when it has no tag                                                      *)
TagColumn(row) == IF row.tags = {} THEN {Null} ELSE row.tags

tagNameFilter(tagNames, row) ==
    \E tag \in TagColumn(row) :
        tag \in tagNames \ {Untagged} \/ (Untagged \in tagNames /\ tag = Null)

-----------------------------------------------------------------------------
(* What the schema says of the fields of SavedItemsFilter *)

HasContentType(contentType, content) ==
    LET c == content IN
    contentType \in
        UNION {IF c.is_article = 1 THEN {"ARTICLE", "IS_READABLE"} ELSE {},
               IF c.video = 1 THEN {"VIDEO", "HAS_VIDEO"} ELSE {},
               IF c.video = 2 THEN {"IS_VIDEO"} ELSE {},
               IF c.image = 2 THEN {"IS_IMAGE"} ELSE {},
               IF c.is_article = 0 /\ 2 \notin {c.video, c.image} THEN {"IS_EXTERNAL"} ELSE {}}

HasTagName(name, row) == IF name = Untagged THEN row.tags = {} ELSE name \in row.tags

Wanted(filter, row) ==
    /\ filter.updatedSince # Null => filter.updatedSince < row.time_updated
    /\ filter.isFavorite \in {row.favorite, Null}
    /\ filter.isArchived \in {row.status = "ARCHIVED", Null}
    /\ filter.status \in {row.status, Null}
    /\ filter.statuses = Null \/ row.status \in filter.statuses
    /\ filter.isHighlighted \in {row.highlighted, Null}
    /\ filter.contentType # Null =>
          row.content # Null /\ HasContentType(filter.contentType, row.content)
    /\ filter.tagNames # {} => \E name \in filter.tagNames : HasTagName(name, row)
=============================================================================
