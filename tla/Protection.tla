----------------------------- MODULE Protection -----------------------------
(***************************************************************************)
(* The protection of the library's own memory.  Each of its tables knows   *)
(* the blocks of memory that it lives in, makes them writable before they  *)
(* are changed and read-only afterwards, and counts requests for what is   *)
(* so already.  inter.c and info.c open all of the tables or one of them.  *)
(***************************************************************************)
EXTENDS Integers, Sequences

CONSTANTS
    MAXINSIDE,      \* bound: calls within one another
    AREAS,          \* bound: how many blocks of memory each table may have
    REFUSED,        \* what the system may refuse, {} or {"ro"} or {"ro", "rw"}
    MAXREFUSALS,    \* bound: uses of the tables in which it refuses something
    ROOMY           \* whether a table that is opened alone has room for what
                    \* is added to it

\* The tables that __mp_protectinfo() goes through, in its order; the first are
\* the lists of its own nodes.
InfoTables == <<"info", "addrs", "leaktab", "profile", "heap", "alloc">>
OfInfo == {"info", "addrs", "leaktab", "profile", "heap", "alloc"}
Tables == OfInfo \cup {"symbols", "strtab"}

ASSUME ProtectionAssumption ==
    /\ MAXINSIDE \in Nat \ {0} /\ MAXREFUSALS \in Nat
    /\ REFUSED \subseteq {"ro", "rw"} /\ ROOMY \in BOOLEAN
    /\ AREAS \in [Tables -> Nat]

VARIABLES
    guard,          \* of each table: prot, protrecur, and the access there is to
                    \* each of its blocks
    inside,         \* calls under way, memhead.recur
    started,        \* whether __mp_init() has protected all of this memory
    faulted,        \* a block that may only be read has been written
    leftOpen,       \* a call from a callback has opened all tables since a call
                    \* that is in no other has closed them
    refusals        \* uses of the tables in which the system has refused something

protectionVars == <<guard, inside, started, faulted, leftOpen, refusals>>

-----------------------------------------------------------------------------
(***************************************************************************)
(* Opening and closing                                                     *)
(***************************************************************************)
Changed(t, a, n) ==
    [t EXCEPT !.prot = a,
              !.areas = [i \in 1..Len(t.areas) |-> IF i <= n THEN a ELSE t.areas[i]]]

\* Does not count a request for what is so already.
Bug_Turned(t, a) ==
    IF t.prot = a THEN t
    ELSE IF t.recur > 0 THEN [t EXCEPT !.recur = t.recur - 1]
    ELSE Changed(t, a, Len(t.areas))

\* __mp_heapprotect() and its likes, if the system refuses nothing.
Turned(t, a) ==
    IF t.prot = a THEN [t EXCEPT !.recur = t.recur + 1]
    ELSE IF t.recur > 0 THEN [t EXCEPT !.recur = t.recur - 1]
    ELSE Changed(t, a, Len(t.areas))

\* What they leave behind if it does, having changed some of the blocks.
Stuck(t, a) ==
    IF a \in REFUSED /\ t.prot # a /\ t.recur = 0
    THEN {Changed(t, a, n) : n \in 0..(Len(t.areas) - 1)} ELSE {}

\* A request for one table.  All callers ignore what it returns.
OneDone(g, p, a) == [g EXCEPT ![p] = Turned(g[p], a)]
One(g, p, a) == {OneDone(g, p, a)} \cup {[g EXCEPT ![p] = t] : t \in Stuck(g[p], a)}

Position == [p \in OfInfo |-> CHOOSE i \in 1..Len(InfoTables) : InfoTables[i] = p]
Earlier(p) == {q \in OfInfo : Position[q] < Position[p]}

\* Opens what is open a second time, as its counts would allow.
Bug_AllDone(g, a) ==
    [p \in Tables |-> IF p \in OfInfo THEN Turned(g[p], a) ELSE g[p]]

\* __mp_protectinfo(), which has no count but does nothing at all if that is how
\* things are, and which gives up at the first refusal.
AllDone(g, a) ==
    IF g["info"].prot = a THEN g
    ELSE [p \in Tables |-> IF p \in OfInfo THEN Turned(g[p], a) ELSE g[p]]
All(g, a) ==
    {AllDone(g, a)} \cup
    (IF g["info"].prot = a THEN {}
     ELSE UNION {{[q \in Tables |-> IF q \in Earlier(p) THEN Turned(g[q], a)
                                    ELSE IF q = p THEN t ELSE g[q]] :
                      t \in Stuck(g[p], a)} : p \in OfInfo})

\* Every block of the tables in S may be written.
Open(g, S) == \A p \in S : \A i \in 1..Len(g[p].areas) : g[p].areas[i] = "rw"

\* One of the tables in S gets another block from __mp_heapalloc(), which comes
\* writable from the system, unless there is room.
Grown(g, S) ==
    {g} \cup {[g EXCEPT ![p].areas = Append(g[p].areas, "rw")] :
                  p \in {q \in S : Len(g[q].areas) < AREAS[q]}}

-----------------------------------------------------------------------------
(***************************************************************************)
(* What is done in a call                                                  *)
(***************************************************************************)
Count(refusing) ==
    /\ refusing => refusals < MAXREFUSALS
    /\ refusals' = IF refusing THEN refusals + 1 ELSE refusals

\* What is left of opening, of a block more, of opening and closing the symbols,
\* and of closing.
Afterwards(opened, saves, grown, during, after, closes, closed) ==
    /\ guard' = closed
    /\ faulted' = ~(Open(opened, OfInfo) /\ (saves => Open(during, {"symbols"})))
    /\ Count(\/ opened # AllDone(guard, "rw")
             \/ saves /\ (\/ during # OneDone(grown, "symbols", "rw")
                          \/ after # OneDone(during, "symbols", "ro"))
             \/ closes /\ closed # AllDone(after, "ro"))

\* All tables are opened and changed, and closed again if closes.  The profile may
\* be written meanwhile, which numbers the symbols within the symbols themselves.
UseAll(closes) ==
    /\ ~faulted
    /\ \E opened \in All(guard, "rw"), saves \in {FALSE, started} :
       \E grown \in Grown(opened, OfInfo) :
       \E during \in IF saves THEN One(grown, "symbols", "rw") ELSE {grown} :
       \E after \in IF saves THEN One(during, "symbols", "ro") ELSE {during} :
       \E closed \in IF closes THEN All(after, "ro") ELSE {after} :
           Afterwards(opened, saves, grown, during, after, closes, closed)
    /\ leftOpen' = ~closes
    /\ UNCHANGED <<inside, started>>

\* One table is opened, changed and closed; the heap it gets memory from is not.
UseOne(p, grows) ==
    /\ started /\ inside > 0 /\ ~faulted
    /\ \E opened \in One(guard, p, "rw") :
       \E grown \in IF grows THEN Grown(opened, {p}) ELSE {opened} :
       \E closed \in One(grown, p, "ro") :
         /\ guard' = closed
         /\ faulted' = ~Open(opened, {p} \cup (IF grown = opened THEN {} ELSE {"heap"}))
         /\ Count(opened # OneDone(guard, p, "rw") \/ closed # OneDone(grown, p, "ro"))
    /\ UNCHANGED <<inside, started, leftOpen>>

\* In __mp_init(), with options parsed and symbols read.
ProtectionInit ==
    /\ guard = [p \in Tables |->
           [prot |-> IF p = "info" THEN "rw" ELSE "none", recur |-> 0,
            areas |-> IF p \in {"heap", "symbols", "strtab"}
                      THEN [i \in 1..AREAS[p] |-> "rw"] ELSE <<>>]]
    /\ inside = 1
    /\ started = FALSE /\ faulted = FALSE /\ leftOpen = FALSE /\ refusals = 0

\* The end of __mp_init(), before it calls the functions registered.
Protect ==
    /\ inside = 1 /\ ~started /\ ~faulted
    /\ \E strings \in One(guard, "strtab", "ro") :
       \E names \in One(strings, "symbols", "ro") :
       \E closed \in All(names, "ro") :
         /\ guard' = closed
         /\ Count(\/ strings # OneDone(guard, "strtab", "ro")
                  \/ names # OneDone(strings, "symbols", "ro")
                  \/ closed # AllDone(names, "ro"))
    /\ started' = TRUE /\ leftOpen' = FALSE
    /\ UNCHANGED <<inside, faulted>>

\* A call of the library, within another if it comes from a callback.
Inside ==
    /\ inside < MAXINSIDE
    /\ inside' = inside + 1
    /\ UNCHANGED <<guard, started, faulted, leftOpen, refusals>>

Outside ==
    /\ inside > (IF started THEN 0 ELSE 1)
    /\ inside' = inside - 1
    /\ UNCHANGED <<guard, started, faulted, leftOpen, refusals>>

\* __mp_getmemory(), __mp_resizememory(), __mp_freememory(), __mp_setoption(),
\* __mp_setmark(), __mp_setuser() and __mp_info(): a call within another leaves
\* closing to the other.
ChangeBlocks ==
    /\ inside > (IF started THEN 0 ELSE 1)
    /\ UseAll(inside = 1)

\* __mp_addallocentry(), finishmarked(), and __mp_fini() for the leak table.
ChangeAndClose ==
    /\ started /\ inside > 0
    /\ UseAll(TRUE)

\* The name and the file of the caller, if debugging information has them.
AddString == UseOne("strtab", ~ROOMY)

\* checkalloca(), where it compares whole call stacks: takes addresses and gives
\* them back.
CompareStacks == inside = 1 /\ UseOne("addrs", ~ROOMY)

\* The leak table's functions that take off, clear and sort.
UseLeakTable == UseOne("leaktab", FALSE)

\* The profile when the program ends.
SaveProfile == UseOne("symbols", FALSE)

ProtectionNext ==
    \/ Protect \/ Inside \/ Outside
    \/ ChangeBlocks \/ ChangeAndClose
    \/ AddString \/ CompareStacks \/ UseLeakTable \/ SaveProfile

ProtectionSpec == ProtectionInit /\ [][ProtectionNext]_protectionVars

-----------------------------------------------------------------------------
(***************************************************************************)
(* Properties                                                              *)
(***************************************************************************)
\* Nothing is written while it may only be read: however calls are nested, whether
\* what a call opens has been left open or not, and although the system refuses to
\* make some of it read-only and the counts go wrong.
WritesAllowed == ~faulted

Shut(t) == t.prot = "ro" /\ t.recur = 0 /\ \A i \in 1..Len(t.areas) : t.areas[i] = "ro"

\* If nothing is refused, strings and symbols are read-only but while they are
\* changed, and so is all the rest once a call that is in no other has allocated,
\* resized or freed.
ClosedAgain ==
    started /\ refusals = 0 =>
        \A p \in Tables : Shut(guard[p]) \/ (leftOpen /\ p \in OfInfo)
=============================================================================
