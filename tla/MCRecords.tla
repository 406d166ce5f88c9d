------------------------------ MODULE MCRecords ------------------------------
(* A few callers for each recorder: more names than the caches of names hold, *)
(* call stacks that share a function, recurse or are not known, locations     *)
(* that share a slot of the leak table.                                       *)
EXTENDS Records

From(func, source, line, thread, stack) ==
  [func |-> func, file |-> source, line |-> line, thread |-> thread, stack |-> stack]
LibraryCalls == From(NoName, NoName, 0, 0, <<>>)
Callers3 == [u \in Recorders |->
  CASE u = "trace" -> {From("f", "a.c", 1, 0, <<>>), From("g", NoName, 0, 5, <<>>),
                       From("h", "b.c", 17, 0, <<>>)}
    [] u = "profile" -> {From(NoName, NoName, 0, 0, s) :
                           s \in {<<>>, <<4>>, <<2, 3>>, <<1, 3, 2, 3>>}}
    [] u = "leaks" -> {From("f", "a.c", 1, 0, <<>>), From("g", "a.c", 0, 0, <<3>>),
                       From(NoName, NoName, 0, 0, <<3>>)}
    [] u = "log" -> {LibraryCalls}]
Freers == [u \in Recorders |->
  CASE u = "trace" -> {From("g", "a.c", 4, 0, <<>>)}
    [] u = "profile" -> {From(NoName, NoName, 0, 0, <<2, 3>>)}
    [] u = "leaks" -> {From("f", "a.c", 3, 0, <<>>), From("g", "a.c", 0, 0, <<3>>)}
    [] u = "log" -> {LibraryCalls}]

(* sites 1 and 2 are in one function, 4 has no symbol *)
Symbols == <<"f", "f", "g", "none">>
Lengths == [s \in {"f", "g"} |-> 1]
Hashes == [s \in {"a.c", "f", "g", "none"} |-> IF s = "a.c" THEN 0 ELSE 1]
Limits == <<1, 2, 3>>
Calls == [u \in Recorders |-> CASE u = "trace" -> 4 [] u = "profile" -> 3
                                [] u = "leaks" -> 4 [] u = "log" -> 5]
(* what mleak can do something with, with and without reallocations and the *)
(* list of what is left, and that list alone                                 *)
Log(made, moved, left) ==
  [allocs |-> made, frees |-> made, reallocs |-> moved, unfreed |-> left]
Logs == {Log(TRUE, FALSE, FALSE), Log(TRUE, TRUE, TRUE), Log(FALSE, FALSE, TRUE)}
=============================================================================
