------------------------------- MODULE Slots --------------------------------
(***************************************************************************)
(* The slot tables of src/slots.c: slots of one size and alignment are cut *)
(* out of blocks of memory, and the free ones are chained through their    *)
(* own first bytes.                                                        *)
(***************************************************************************)
EXTENDS Integers, Sequences, FiniteSets

CONSTANTS
    ENTRYSIZE,      \* size and alignment of a slotentry, the link that a free
    ENTRYALIGN,     \* slot holds
    SLOTSIZES,      \* bound: sizes and alignments that tables are made for
    SLOTALIGNS,
    CHUNKS          \* bound: the blocks of memory there are, as <<first byte,
                    \* number of bytes>>, which do not overlap

ASSUME ChunksAssumption ==
    /\ ENTRYSIZE \in Nat \ {0} /\ ENTRYALIGN \in Nat \ {0}
    /\ SLOTSIZES \subseteq Nat /\ SLOTALIGNS \subseteq Nat
    /\ CHUNKS \subseteq (Nat \ {0}) \X (Nat \ {0})

VARIABLES
    slots,          \* the slottable, its chain of free slots as a sequence
    slotMemory,     \* the blocks of memory that it has been given
    slotsUsed       \* the slots that have been handed out and not freed

slotVars == <<slots, slotMemory, slotsUsed>>

\* __mp_poweroftwo(), for the powers that matter here.
SlotPower(n) == IF n = 0 THEN 0 ELSE CHOOSE p \in {1, 2, 4, 8, 16} : n <= p /\ p < 2 * n

SlotRoundUp(n, a) == ((n - 1) \div a) * a + a

\* __mp_newslots()
NewSlots(s, a) ==
    [free |-> <<>>, size |-> 0,
     entsize  |-> IF s < ENTRYSIZE THEN ENTRYSIZE ELSE s,
     entalign |-> SlotPower(IF a < ENTRYALIGN THEN ENTRYALIGN ELSE a)]

\* The slots that __mp_initslots() cuts out of s bytes at p, lowest first: the end
\* that it goes up to is too low by as many bytes as the first slot is above p.
Cut(t, p, s) ==
    LET e == SlotRoundUp(p, t.entalign)
        step == SlotRoundUp(t.entsize, t.entalign)
        end == p + s - (e - p)
        n == IF end < e + t.entsize THEN 0 ELSE (end - e - t.entsize) \div step + 1
    IN  [k \in 1..n |-> e + (k - 1) * step]

\* The last one is the first in the chain.
InitSlots(t, p, s) ==
    LET cut == Cut(t, p, s)
    IN  [t EXCEPT !.free = [k \in 1..Len(cut) |-> cut[Len(cut) + 1 - k]] \o @]

-----------------------------------------------------------------------------
SlotsInit ==
    /\ \E s \in SLOTSIZES, a \in SLOTALIGNS : slots = NewSlots(s, a)
    /\ slotMemory = {} /\ slotsUsed = {}

AddMemory(c) ==
    /\ c \notin slotMemory
    /\ slots' = InitSlots(slots, c[1], c[2])
    /\ slotMemory' = slotMemory \cup {c}
    /\ UNCHANGED slotsUsed

\* Hands out the first free slot but leaves it in the chain when it is the last.
Bug_GetSlot ==
    /\ slots' = [slots EXCEPT !.free = IF Len(@) > 1 THEN Tail(@) ELSE @,
                              !.size = IF slots.free = <<>> THEN @ ELSE @ + 1]
    /\ slotsUsed' = IF slots.free = <<>> THEN slotsUsed
                    ELSE slotsUsed \cup {Head(slots.free)}
    /\ UNCHANGED slotMemory

\* __mp_getslot(): gives NULL and changes nothing if the table is full.
GetSlot ==
    /\ slots.free # <<>>
    /\ slots' = [slots EXCEPT !.free = Tail(@), !.size = @ + 1]
    /\ slotsUsed' = slotsUsed \cup {Head(slots.free)}
    /\ UNCHANGED slotMemory

\* __mp_freeslot()
FreeSlot(e) ==
    /\ e \in slotsUsed
    /\ slots' = [slots EXCEPT !.free = <<e>> \o @, !.size = @ - 1]
    /\ slotsUsed' = slotsUsed \ {e}
    /\ UNCHANGED slotMemory

SlotsNext ==
    \/ \E c \in CHUNKS : AddMemory(c)
    \/ GetSlot
    \/ \E e \in slotsUsed : FreeSlot(e)

-----------------------------------------------------------------------------
SlotBytes(e) == e..(e + slots.entsize - 1)

\* All slots, free or not, are aligned, lie in memory that the table has been given
\* and do not overlap, and each is large enough for the link it holds while it is
\* free; a slot is in the chain once or in use, and the table counts those in use.
\* Of a block that begins where a slot may, no more is left over than its end, which
\* is too short for a slot.
SlotsApart ==
    LET chain == {slots.free[k] : k \in 1..Len(slots.free)}
        all == chain \cup slotsUsed
        memory(c) == c[1]..(c[1] + c[2] - 1)
    IN  /\ Cardinality(chain) = Len(slots.free)
        /\ chain \cap slotsUsed = {}
        /\ slots.size = Cardinality(slotsUsed)
        /\ slots.entsize >= ENTRYSIZE
        /\ \A e \in all : /\ e % slots.entalign = 0 /\ e % ENTRYALIGN = 0
                          /\ \E c \in slotMemory : SlotBytes(e) \subseteq memory(c)
        /\ \A e, f \in all : e = f \/ SlotBytes(e) \cap SlotBytes(f) = {}
        /\ \A c \in slotMemory : c[1] % slots.entalign = 0 =>
               Cardinality({e \in all : e \in memory(c)})
                 = (c[2] + SlotRoundUp(slots.entsize, slots.entalign) - slots.entsize)
                     \div SlotRoundUp(slots.entsize, slots.entalign)
=============================================================================
