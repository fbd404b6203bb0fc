------------------------------ MODULE MCRecall ------------------------------
(* Filters, roles and symmetry for the recall run. *)
EXTENDS Recall, TLC

JoyOfTopic == [NoFilter EXCEPT !.topic_id = {1}, !.matching = {1},
                               !.roles = {"r1"}, !.asked = 1]
KeywordWithoutTopic == [NoFilter EXCEPT !.topics_empty = TRUE, !.ranked = TRUE]

Filters == {JoyOfTopic, KeywordWithoutTopic}
Roles == {{"r1"}}

Symmetry == Permutations(Id)
=============================================================================
