----------------------------- MODULE MCRecords -----------------------------
(* The requests are interchangeable.  Two records exist.  The contents      *)
(* differ in one column each, so that two partial updates can mix.  The     *)
(* client pages by one or two rows: the default order, every row with the   *)
(* newest first, a category in the order of titles, and a range of days.    *)
EXTENDS Records, TLC

C(t, c) == [title |-> t, category |-> c]

SomeContents == {C(2, 1), C(1, 2)}
SomeBulks    == {<< C(2, 1), C(1, 2) >>}
TwoSeeds     == << C(1, 1), C(1, 1) >>

ById == [category |-> None, keyword |-> None, from |-> None, to |-> None,
         sort |-> "id", dir |-> "asc", deleted |-> FALSE, size |-> 1]

ClientQueries ==
  {ById, [ById EXCEPT !.sort = "created_at", !.dir = "desc", !.deleted = TRUE],
   [ById EXCEPT !.category = 1, !.keyword = 1, !.sort = "title", !.size = 0],
   [ById EXCEPT !.from = 1, !.to = 1, !.sort = "category", !.size = 5]}

RequestSymmetry == Permutations(Requests)

=============================================================================
