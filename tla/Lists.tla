------------------------------- MODULE Lists --------------------------------
(***************************************************************************)
(* The doubly linked lists of src/list.c.  A list head is two sentinel     *)
(* nodes laid over each other: the one before the first node has head as   *)
(* its next field, the one after the last node has tlpr as its prev field, *)
(* and the field they share, tail, is never written after __mp_newlist().  *)
(***************************************************************************)
EXTENDS Integers, Sequences, SequencesExt

CONSTANTS
    LISTS,          \* bound: the lists there are
    ITEMS           \* bound: the nodes there are

VARIABLES
    next, prev,     \* the links of all nodes and sentinels
    listSize,       \* the size fields of the list heads
    contents        \* what each list should hold

listVars == <<next, prev, listSize, contents>>

Unlinked == <<>>    \* the link of a node that is in no list
Before(l) == <<"head", l>>
After(l) == <<"tail", l>>
Item(n) == <<"node", n>>

InLists == UNION {{contents[l][k] : k \in 1..Len(contents[l])} : l \in LISTS}

\* __mp_newlist(), for all lists.
ListsInit ==
    /\ next = [x \in {Before(l) : l \in LISTS} \cup {Item(n) : n \in ITEMS} |->
                  IF x[1] = "head" THEN After(x[2]) ELSE Unlinked]
    /\ prev = [x \in {After(l) : l \in LISTS} \cup {Item(n) : n \in ITEMS} |->
                  IF x[1] = "tail" THEN Before(x[2]) ELSE Unlinked]
    /\ listSize = [l \in LISTS |-> 0]
    /\ contents = [l \in LISTS |-> <<>>]

\* Links n in between the neighbours a and b.
Link(l, a, n, b) ==
    /\ next' = [next EXCEPT ![a] = Item(n), ![Item(n)] = b]
    /\ prev' = [prev EXCEPT ![b] = Item(n), ![Item(n)] = a]
    /\ listSize' = [listSize EXCEPT ![l] = @ + 1]

\* Takes n out from between a and b. What its own links become is of no interest.
Unlink(l, a, n, b) ==
    /\ next' = [next EXCEPT ![a] = b, ![Item(n)] = Unlinked]
    /\ prev' = [prev EXCEPT ![b] = a, ![Item(n)] = Unlinked]
    /\ listSize' = [listSize EXCEPT ![l] = @ - 1]

\* __mp_addhead()
AddHead(l, n) ==
    /\ n \notin InLists
    /\ Link(l, Before(l), n, next[Before(l)])
    /\ contents' = [contents EXCEPT ![l] = <<n>> \o @]

\* __mp_addtail()
AddTail(l, n) ==
    /\ n \notin InLists
    /\ Link(l, prev[After(l)], n, After(l))
    /\ contents' = [contents EXCEPT ![l] = Append(@, n)]

\* Positions of a node that is in the list.
Places(l) == 1..Len(contents[l])

\* __mp_prepend(), before the node that should be at place k.
Prepend(l, k, n) ==
    LET p == Item(contents[l][k])
    IN  /\ n \notin InLists
        /\ Link(l, prev[p], n, p)
        /\ contents' = [contents EXCEPT ![l] = InsertAt(@, k, n)]

\* __mp_insert(), after the node that should be at place k.
InsertItem(l, k, n) ==
    LET p == Item(contents[l][k])
    IN  /\ n \notin InLists
        /\ Link(l, p, n, next[p])
        /\ contents' = [contents EXCEPT ![l] = InsertAt(@, k + 1, n)]

\* __mp_remove()
RemoveItem(l, k) ==
    LET n == contents[l][k]
    IN  /\ Unlink(l, prev[Item(n)], n, next[Item(n)])
        /\ contents' = [contents EXCEPT ![l] = RemoveAt(@, k)]

\* __mp_remhead(); an empty list gives NULL.
RemHead(l) ==
    LET first == next[Before(l)]
    IN  /\ listSize[l] > 0
        /\ Unlink(l, Before(l), first[2], next[first])
        /\ contents' = [contents EXCEPT ![l] = Tail(@)]

\* __mp_remtail(); an empty list gives NULL.
RemTail(l) ==
    LET last == prev[After(l)]
    IN  /\ listSize[l] > 0
        /\ Unlink(l, prev[last], last[2], After(l))
        /\ contents' = [contents EXCEPT ![l] = Front(@)]

\* Takes the last node of list l for the one that ends both.
Bug_JoinList(l, m) ==
    /\ l # m /\ listSize[m] > 0
    /\ next' = [next EXCEPT ![prev[After(l)]] = next[Before(m)],
                            ![prev[After(m)]] = After(l),
                            ![Before(m)] = After(m)]
    /\ prev' = [prev EXCEPT ![next[Before(m)]] = prev[After(l)],
                            ![After(m)] = Before(m)]
    /\ listSize' = [listSize EXCEPT ![l] = @ + listSize[m], ![m] = 0]
    /\ contents' = [contents EXCEPT ![l] = @ \o contents[m], ![m] = <<>>]

\* __mp_joinlist(): the nodes of list m go to the end of list l.
JoinList(l, m) ==
    /\ l # m /\ listSize[m] > 0
    /\ next' = [next EXCEPT ![prev[After(l)]] = next[Before(m)],
                            ![prev[After(m)]] = After(l),
                            ![Before(m)] = After(m)]
    /\ prev' = [prev EXCEPT ![next[Before(m)]] = prev[After(l)],
                            ![After(l)] = prev[After(m)],
                            ![After(m)] = Before(m)]
    /\ listSize' = [listSize EXCEPT ![l] = @ + listSize[m], ![m] = 0]
    /\ contents' = [contents EXCEPT ![l] = @ \o contents[m], ![m] = <<>>]

ListsNext == \E l \in LISTS :
    \/ \E n \in ITEMS : AddHead(l, n) \/ AddTail(l, n)
    \/ \E k \in Places(l) :
           RemoveItem(l, k) \/ \E n \in ITEMS : Prepend(l, k, n) \/ InsertItem(l, k, n)
    \/ RemHead(l) \/ RemTail(l)
    \/ \E m \in LISTS : JoinList(l, m)

-----------------------------------------------------------------------------
\* Walking forwards from the head of each list, and backwards from its tail, meets
\* exactly the nodes that were put into it, in their order, whatever was added,
\* removed at either end or in the middle, or moved from list to list; the list
\* knows how many they are.
ListsHold == \A l \in LISTS :
    LET all == <<Before(l)>> \o [k \in Places(l) |-> Item(contents[l][k])]
                   \o <<After(l)>>
    IN  /\ \A k \in 1..Len(all) - 1 : /\ next[all[k]] = all[k + 1]
                                      /\ prev[all[k + 1]] = all[k]
        /\ listSize[l] = Len(contents[l])
=============================================================================
