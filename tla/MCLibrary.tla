----------------------------- MODULE MCLibrary -----------------------------
(* The life of the library and the tools on top of it, for programs that use  *)
(* one part of the interface each: parts that have nothing in common.         *)
EXTENDS Library, Tools, TLC

\* Blocks with a hole between them, a kept one, and a heap that ends in a block
\* or in a hole.
Block(s, a, k, n) ==
    [slot |-> s, at |-> a, size |-> 1, kind |-> k, num |-> n, by |-> "main"]
Hole(s, a, z) ==
    [slot |-> s, at |-> a, size |-> z, kind |-> "free", num |-> 0, by |-> "main"]

SomeNodes ==
    {<<Block(1, 1, "alloc", 1), Hole(2, 2, 3), Block(3, 5, "freed", 2),
       Block(4, 6, "alloc", 3)>>,
     <<Block(1, 1, "alloc", 2), Block(2, 2, "alloc", 1), Hole(3, 3, 1)>>}

SomeContents == {<<1>>, <<2>>, <<1, 2>>}
SomeFlags == {{"contents"}, {"freed", "unfreed"}}
Alike == {<<1>>, <<1, 2>>, <<1, 0>>}

LibraryPrograms == {"exits", "signals", "deletes", "heap"}
ToolPrograms == {"traces", "diffs", "traced diffs"}

VARIABLE program

Init ==
    /\ program \in LibraryPrograms \cup ToolPrograms
    /\ LibraryInit
    /\ program # "signals" => wanted = "default"
    /\ program # "heap" => Len(list) = 3
    /\ ToolsInit
    /\ program # "diffs" => queue = 0

LibraryStep ==
    \/ LifeNext /\ (program \in {"deletes", "heap"} => ~memhead'.safe)
    \/ program = "signals" /\ WalkCalls
    \/ program = "heap" /\ calls < 2 /\ WalkCalls
    \/ program = "exits" /\ ExitCalls
    \/ program = "signals" /\ SignalCalls
    \/ program = "deletes" /\ DeleteCalls
    \/ program = "heap" /\ calls < 5 /\ (frames = <<>> => calls < 1) /\ HeapCalls

\* What blocks contain matters to programs that compare contents.
ToolsStep ==
    /\ program # "diffs" => steps < 5
    /\ \/ BlockCalls \/ Exit
       \/ program = "diffs" /\ Writes
       \/ program = "traces" /\ (StringCalls \/ GaugeCalls)
       \/ program # "diffs" /\ StackCalls
       \/ program \in {"traces", "traced diffs"} /\ TraceCalls
       \/ program \in {"diffs", "traced diffs"} /\ DiffCalls
    /\ program # "diffs" => \A b \in blocks' : b.data \in Alike

Next ==
    /\ UNCHANGED program
    /\ \/ program \in LibraryPrograms /\ LibraryStep /\ UNCHANGED toolsVars
       \/ program \in ToolPrograms /\ ToolsStep /\ UNCHANGED libraryVars

Spec == Init /\ [][Next]_<<libraryVars, toolsVars, program>>

Symmetric == Permutations(ADDRS)
=============================================================================
