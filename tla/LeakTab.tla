------------------------------- MODULE LeakTab -------------------------------
(***************************************************************************)
(* The leak table (src/leaktab.c): one entry for each location in the      *)
(* source that allocated memory, kept in hash slots, with counts and bytes *)
(* of what was allocated and freed there, and its display                  *)
(* (__mp_printleaktab() in src/diag.c).  A location is a name and a line.  *)
(***************************************************************************)
EXTENDS Integers, Sequences, SequencesExt, FiniteSetsExt

CONSTANTS
  LEAKSLOTS,   \* MP_LEAKTAB_SIZE
  HashOf       \* the hash of a name, before the line is added

ASSUME LeakTabAssumption == LEAKSLOTS \in Nat \ {0}

VARIABLE leaks    \* leaktab

NoLeaks == [s \in 0 .. LEAKSLOTS - 1 |-> <<>>]
(* __mp_newleaktab() *)
LeakInit(on) == leaks = [tracing |-> on, slots |-> NoLeaks, size |-> 0]

(* hashloc() and hashcmp() *)
Slot(loc) == (HashOf[loc.name] + loc.line) % LEAKSLOTS
Is(e, loc) == e.loc = loc
Has(t, loc) == \E i \in DOMAIN t.slots[Slot(loc)] : Is(t.slots[Slot(loc)][i], loc)
At(t, loc) == CHOOSE i \in DOMAIN t.slots[Slot(loc)] : Is(t.slots[Slot(loc)][i], loc)

(* __mp_allocentry(): a new entry is put at the head of its slot *)
AllocEntry(t, loc, c) ==
  IF Has(t, loc)
  THEN [t EXCEPT !.slots[Slot(loc)][At(t, loc)].acount = @ + 1,
                 !.slots[Slot(loc)][At(t, loc)].atotal = @ + c]
  ELSE [t EXCEPT !.slots[Slot(loc)] =
                   <<[loc |-> loc, acount |-> 1, atotal |-> c,
                      dcount |-> 0, dtotal |-> 0]>> \o @,
                 !.size = @ + 1]

AtMost(x, y) == IF x > y THEN y ELSE x
(* __mp_freeentry(): nothing is freed more often than it was allocated *)
FreeEntry(t, loc, c) ==
  IF ~Has(t, loc) THEN t
  ELSE LET e == t.slots[Slot(loc)][At(t, loc)]
       IN  [t EXCEPT !.slots[Slot(loc)][At(t, loc)] =
              [e EXCEPT !.dcount = AtMost(@ + 1, e.acount),
                        !.dtotal = AtMost(@ + c, e.atotal)]]

(* leaktabentry() is called only while the table is being recorded *)
LeakAlloc(loc, c) ==
  leaks' = IF leaks.tracing THEN AllocEntry(leaks, loc, c) ELSE leaks
LeakMove(old, d, new, l) ==
  leaks' = IF leaks.tracing THEN AllocEntry(FreeEntry(leaks, old, d), new, l)
           ELSE leaks
LeakFree(loc, c) ==
  leaks' = IF leaks.tracing THEN FreeEntry(leaks, loc, c) ELSE leaks

(* __mp_addallocentry(), __mp_addfreeentry(), __mp_clearleaktable(),       *)
(* __mp_startleaktable(), __mp_stopleaktable()                             *)
AddAllocEntry(loc, c) == leaks' = AllocEntry(leaks, loc, c)
AddFreeEntry(loc, c) == leaks' = FreeEntry(leaks, loc, c)
ClearLeakTable == leaks' = [leaks EXCEPT !.slots = NoLeaks, !.size = 0]
StartLeakTable == leaks' = [leaks EXCEPT !.tracing = TRUE]
StopLeakTable == leaks' = [leaks EXCEPT !.tracing = FALSE]

(* __mp_sortleaktab(): the entries with something to show, slot by slot,   *)
(* are put into a tree under the number they are sorted by.                *)
Entries(t) == FlattenSeq([s \in 1 .. LEAKSLOTS |-> t.slots[s - 1]])
Count(e, o) == IF o = "allocated" THEN e.acount
               ELSE IF o = "freed" THEN e.dcount ELSE e.acount - e.dcount
Bytes(e, o) == IF o = "allocated" THEN e.atotal
               ELSE IF o = "freed" THEN e.dtotal ELSE e.atotal - e.dtotal
Key(e, o, counts) == IF counts THEN Count(e, o) ELSE Bytes(e, o)
(* What a mistake in this code would look like *)
Bug_Sorted(t, o, counts) ==
  LET all == Entries(t)
      K(i) == Key(all[i], o, TRUE)
      order == SetToSortSeq({i \in DOMAIN all : K(i) > 0},
                 LAMBDA i, j : K(i) < K(j) \/ (K(i) = K(j) /\ i < j))
  IN  [k \in DOMAIN order |-> all[order[k]]]
Sorted(t, o, counts) ==
  LET all == Entries(t)
      K(i) == Key(all[i], o, counts)
      order == SetToSortSeq({i \in DOMAIN all : K(i) > 0},
                 LAMBDA i, j : K(i) < K(j) \/ (K(i) = K(j) /\ i < j))
  IN  [k \in DOMAIN order |-> all[order[k]]]

(* __mp_printleaktab(): the top or the bottom l entries, all for l = 0,    *)
(* and their totals.                                                       *)
PrintLeakTab(t, l, o, counts, bottom) ==
  LET s == Sorted(t, o, counts)
      n == IF l = 0 \/ l > Len(s) THEN Len(s) ELSE l
      lines == IF bottom THEN SubSeq(s, 1, n)
               ELSE SubSeq(Reverse(s), 1, n)
  IN  [lines |-> lines,
       count |-> FoldLeft(LAMBDA x, e : x + Count(e, o), 0, lines),
       bytes |-> FoldLeft(LAMBDA x, e : x + Bytes(e, o), 0, lines)]
=============================================================================
