-------------------------- MODULE MCRequestContext --------------------------
(* Two requests at a time and two saves, of which s1 is there              *)
EXTENDS RequestContext

CONSTANTS r1, r2, s1, s2

ById(s) == <<"savedItemsById", s>>
ByUrl(s) == <<"savedItemsByUrl", s>>
TagsOf(s) == <<"tagsByItemId", s>>

Field(type, s, loads) == [type |-> type, save |-> s, loads |-> loads]
Request(text, premium, steps) == [text |-> text, isPremium |-> premium, steps |-> steps]

(* Two fields that change s1 and load it by the given keys                 *)
TwoFields(loads1, loads2) ==
    Request("mutation", FALSE, <<Field("FAVORITE_ITEM", s1, loads1), Field("ADD_TAGS", s1, loads2)>>)

Mutation(type, premium, s, loads) == Request("mutation", premium, <<Field(type, s, loads)>>)

(* A mutation below a comment or a fragment                                *)
Commented == Request("other", FALSE, <<Field("ARCHIVE_ITEM", s1, {})>>)

(* A query of entities: both saves by id, then by the url of their items;  *)
(* the other way round, as a caller of the loaders may; and one save by    *)
(* both keys in one tick, with one that is not there                       *)
IdThenUrl == Request("other", FALSE,
    <<Field(NoEvent, s1, {ById(s1), ById(s2)}), Field(NoEvent, s1, {ByUrl(s1), ByUrl(s2)})>>)
UrlThenId == Request("other", FALSE,
    <<Field(NoEvent, s1, {ByUrl(s1), ByUrl(s2)}), Field(NoEvent, s1, {ById(s1), ById(s2)})>>)
Together == Request("other", FALSE, <<Field(NoEvent, s1, {ById(s1), ByUrl(s1), ById(s2)})>>)

MCWorkloads == {[r \in Requests |-> IF r = r1 THEN w[1] ELSE w[2]] : w \in {
    <<TwoFields({ByUrl(s1), TagsOf(s1)}, {ByUrl(s1), TagsOf(s1)}), IdThenUrl>>,
    <<TwoFields({}, {}), Mutation("REPLACE_TAGS", FALSE, s2, {})>>,
    <<Mutation("ADD_ITEM", TRUE, s1, {ByUrl(s1)}), Mutation("ARCHIVE_ITEM", FALSE, s1, {ByUrl(s1), TagsOf(s1)})>>,
    <<Mutation("ADD_ITEM", FALSE, s2, {ByUrl(s2)}), IdThenUrl>>,
    <<Mutation("UNARCHIVE_ITEM", FALSE, s1, {}), UrlThenId>>,
    <<Mutation("ADD_ITEM", TRUE, s2, {}), Mutation("DELETE_ITEM", FALSE, s2, {})>>,
    <<Mutation("UNFAVORITE_ITEM", TRUE, s1, {}), Together>>,
    <<Commented, IdThenUrl>>}}
=============================================================================
