------------------------------ MODULE MCParts ------------------------------
(* The three containers, the memory operations, the protection of tables,    *)
(* and the command with the library's options, one of them at a time: they   *)
(* share no state, and the states of all are those of each put together.     *)
EXTENDS Tree, Slots, Lists, Memory, Command, Protection, TLC

VARIABLE using      \* the part that is put to use

KeysWithTwins == [n \in NODES |-> 2 * ((n + 2) \div 2)]
SomeChunks == {<<8, 9>>, <<21, 7>>}

Node(k, b, s) == [kind |-> k, block |-> b, size |-> s]

\* Memory that is not in the heap; blocks with small overflow buffers, a kept and a
\* free one among them; the same without any kept or allocated before; and two
\* blocks on pages of their own, one at the start and one at the end of its pages.
SomeHeaps ==
    {[phase |-> ph, pages |-> FALSE, oflow |-> 0, nodes |-> <<>>] :
        ph \in {"early", "active", "ended"}}
    \cup {[phase |-> "active", pages |-> FALSE, oflow |-> 1,
           nodes |-> <<Node("alloc", 4, 5), Node("freed", 11, 2), Node("free", 14, 2)>>],
          [phase |-> "active", pages |-> FALSE, oflow |-> 1,
           nodes |-> <<Node("freed", 4, 2), Node("alloc", 9, 6)>>],
          [phase |-> "active", pages |-> TRUE, oflow |-> 4,
           nodes |-> <<Node("alloc", 8, 3)>>],
          [phase |-> "active", pages |-> TRUE, oflow |-> 4,
           nodes |-> <<Node("alloc", 9, 3)>>]}

\* Some tables have two blocks, one of which may be refused after the other.
SomeAreas == [p \in Tables |-> IF p \in {"leaktab", "symbols"} THEN 2 ELSE 1]

\* All bytes distinct, and all alike but for one or two that are zero.
SomeLooks == {[a \in 1..16 |-> a]} \cup
    {[a \in 1..16 |-> IF a \in zeros THEN 0 ELSE 1] :
        zeros \in {{8}, {5, 12}, {7, 16}}}

SomeOptions == {[check |-> FALSE, allow |-> FALSE, handler |-> TRUE],
                [check |-> TRUE, allow |-> FALSE, handler |-> FALSE],
                [check |-> FALSE, allow |-> TRUE, handler |-> FALSE]}

-----------------------------------------------------------------------------
(* Command lines of up to two options out of some of each kind, and every    *)
(* single option by its name.                                                *)
SomeNumbers == ("0" :> 0) @@ ("2" :> 2) @@ ("3" :> 3) @@ ("6" :> 6) @@ ("300" :> 300)

ByName(k) ==
    IF k \notin TakesText THEN <<<<"--", k>>>>
    ELSE IF k = "CHECK" THEN <<<<"--", k, "=", "2", "-", "6", "/", "3">>>>
    ELSE IF k \in Files THEN <<<<"--", k>>, <<"a", " ", "b">>>>
    ELSE <<<<"--", k, "=", "6">>>>

WordsOfRanges == {<<"2">>, <<"0">>, <<"2", "-">>, <<"-", "3">>, <<"6", "-", "6">>, <<"x">>,
           <<"3", "-", "6", "/", "0">>, <<"-">>}

Words ==
    {<<<<"--", "CHECK">>, r>> : r \in WordsOfRanges} \cup
    {<<<<"-", k, n>>>> : k \in {"DEFALIGN", "NOFREE", "OFLOWSIZE"}, n \in {"0", "3"}} \cup
    {<<<<"--", k, "=", n>>>> : k \in {"SMALLBOUND", "MEDIUMBOUND", "LARGEBOUND"},
                               n \in {"0", "3", "300"}} \cup
    {<<<<"-", "ALLOWOFLOW", "USEMMAP", "ALLOCBYTE">>, <<"2">>>>,
     <<<<"-", "USEMMAP", "LOGALLOCS", "PROF">>>>, <<<<"-", "FREEBYTE", "300">>>>,
     <<<<"--", "FREEBYTE">>, <<"x">>>>, <<<<"--", "LIMIT">>>>,
     <<<<"--", "PAGEALLOCLOWER">>>>, <<<<"-", "PAGEALLOCUPPER">>>>,
     <<<<"-", "EDIT">>>>, <<<<"--", "LIST">>>>, <<<<"--", "LOGALLOCS">>>>,
     <<<<"--", "LOGALL">>>>, <<<<"-", "LOGFILE", "a">>>>, <<<<"--", "unknown">>>>,
     <<<<"--">>>>, <<<<"-">>>>, <<>>, <<<<"--", "READENV">>>>, <<<<"-", "HTML">>>>}

Few == {<<<<"-", "ALLOWOFLOW", "USEMMAP", "ALLOCBYTE">>, <<"2">>>>,
        <<<<"-", "USEMMAP", "LOGALLOCS", "PROF">>>>, <<<<"--", "FREEBYTE">>, <<"x">>>>,
        <<<<"--", "LIMIT">>>>, <<<<"--", "MEDIUMBOUND", "=", "3">>>>,
        <<<<"-", "NOFREE", "3">>>>, <<<<"-", "EDIT">>>>, <<<<"--", "PAGEALLOCLOWER">>>>,
        <<<<"--", "CHECK">>, <<"2">>>>}

SomeLines ==
    {ByName(k) \o <<<<"prog">>, <<"-", "arg">>>> : k \in Known}
    \cup {a \o b \o <<<<"prog">>>> : a \in Few, b \in Words} \cup Words

SomeOuter ==
    {<<"CHECKALL", " ", "\t", "LOGFILE", "=", "\"", "my", " ", "log", "\"">>,
     <<"LIMIT", "=", "300", " ", "unknown", " ", "=", "2", " ", "EDIT">>,
     <<"PAGEALLOC", "=", "UPPER", " ", "HELP", " ", "USEMMAP", "=", "3">>}

SomeSituations ==
    (SomeLines \X {<<>>})
    \cup ({<<>>, <<<<"--", "READENV">>, <<"prog">>>>,
           <<<<"--", "READENV">>, <<"--", "PAGEALLOCLOWER">>, <<"-", "LIMIT">>, <<"6">>,
             <<"prog">>>>} \X SomeOuter)

SeldomSet == {"EDIT", "LIST", "LEAKTABLE", "LOGALLOCS", "USEMMAP"}

-----------------------------------------------------------------------------
Parts == {"tree", "slots", "lists", "memory", "command", "protection"}
idleMemory == [phase |-> "early", pages |-> FALSE, oflow |-> 0, nodes |-> <<>>]

PartsInit ==
    /\ using \in Parts
    /\ TreeInit /\ ListsInit /\ Init /\ ProtectionInit
    /\ using # "command" => line = <<>> /\ outer = <<>> /\ phase = "alone"
    /\ IF using = "slots" THEN SlotsInit
       ELSE /\ slots = NewSlots(ENTRYSIZE, ENTRYALIGN)
            /\ slotMemory = {} /\ slotsUsed = {}
    /\ IF using = "memory" THEN MemoryInit
       ELSE /\ heap = idleMemory /\ mem = <<>> /\ opts = <<>>
            /\ totals = <<>> /\ call = [name |-> "none"]

PartsNext ==
    /\ UNCHANGED using
    /\ \/ using = "tree" /\ TreeNext
          /\ UNCHANGED <<slotVars, listVars, memoryVars, vars, protectionVars>>
       \/ using = "slots" /\ SlotsNext
          /\ UNCHANGED <<tree, listVars, memoryVars, vars, protectionVars>>
       \/ using = "lists" /\ ListsNext
          /\ UNCHANGED <<tree, slotVars, memoryVars, vars, protectionVars>>
       \/ using = "memory" /\ MemoryNext
          /\ UNCHANGED <<tree, slotVars, listVars, vars, protectionVars>>
       \/ using = "protection" /\ ProtectionNext
          /\ UNCHANGED <<tree, slotVars, listVars, memoryVars, vars>>
       \/ using = "command" /\ Next
          /\ UNCHANGED <<tree, slotVars, listVars, memoryVars, protectionVars>>

PartsSpec ==
    PartsInit /\ [][PartsNext]_<<tree, slotVars, listVars, memoryVars, vars,
                                 protectionVars, using>>

-----------------------------------------------------------------------------
\* The containers that everything else is kept in do what they are for: tree.c,
\* slots.c and list.c.
ContainersWork == TreesWork /\ SlotsApart /\ ListsHold
=============================================================================
