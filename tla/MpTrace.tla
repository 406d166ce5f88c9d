------------------------------- MODULE MpTrace -------------------------------
(***************************************************************************)
(* The mptrace command (src/mptrace.c): it reads a tracing output file     *)
(* through a small buffer, keeps a table of the allocations, prints the    *)
(* tracing table and the statistics, and writes a simulation program whose *)
(* pointers live in slots.  One step reads one field of one event.         *)
(***************************************************************************)
EXTENDS Trace, Bitwise, FiniteSets

CONSTANTS
  BYTEBITS,  \* bits of a number in a byte, 7 in the code: LEB = 2^BYTEBITS
  INTBITS,   \* width of int
  WORDBITS,  \* width of unsigned long
  BUFFER,    \* MP_BUFFER_SIZE
  ENOUGH,    \* bytes asked for before a number is read, 5 in the code
  SLOTS      \* entries of tableslots

VARIABLES
  file,      \* the file that is read
  rd         \* the state of the command

readVars == <<file, rd>>

Stats == [acount |-> 0, atotal |-> 0, fcount |-> 0, ftotal |-> 0,
          rcount |-> 0, rtotal |-> 0, icount |-> 0, itotal |-> 0,
          pcount |-> 0, ptotal |-> 0, lsize |-> 0, usize |-> 0]

Idle == [state |-> "idle"]
(* main() and the start of readfile() *)
Opened ==
  [state |-> "reading", op |-> "header", todo |-> <<"magic", "word", "word">>,
   got |-> <<>>, pos |-> 0, len |-> 0, eof |-> FALSE, overrun |-> FALSE,
   funcs |-> [i \in 1 .. NAMECACHE |-> NoName],
   files |-> [i \in 1 .. NAMECACHE |-> NoName],
   allocs |-> <<>>, event |-> 0, stats |-> Stats,
   slots |-> [i \in 1 .. SLOTS |-> i], maxslots |-> 1,
   rows |-> <<>>, sim |-> <<>>, errors |-> <<>>]

(* refill(): the buffer holds the len tokens of the file after pos *)
Refill(r, s) ==
  IF r.eof \/ r.len >= s THEN r
  ELSE LET room == BUFFER - r.len
           left == Len(file) - r.pos - r.len
       IN  IF left < room THEN [r EXCEPT !.len = @ + left, !.eof = TRUE]
           ELSE [r EXCEPT !.len = BUFFER]

Failed(r) == [r EXCEPT !.state = "failed"]
Advance(r, n) == [r EXCEPT !.pos = @ + n, !.len = @ - n]
Got(r, v) == [r EXCEPT !.got = Append(@, v), !.todo = Tail(@)]

Token(p) == IF p \in DOMAIN file THEN file[p] ELSE Byte(0)
Digit(p) == IF Token(p)[1] = "byte" THEN Token(p)[2] ELSE 0

(* __mp_decodeuleb128(): each digit is shifted as an int, so that a number  *)
(* with its top bit set is sign-extended, and a shift by the width of int  *)
(* or more is undefined: the digit is lost, or the count is taken modulo   *)
(* the width.                                                              *)
AsInt(v) ==
  LET i == v % 2 ^ INTBITS
  IN  IF i >= 2 ^ (INTBITS - 1) THEN i + 2 ^ WORDBITS - 2 ^ INTBITS ELSE i
ShiftedTo(d, s) ==
  IF s < INTBITS THEN {AsInt(d * 2 ^ s)} ELSE {0, AsInt(d * 2 ^ (s % INTBITS))}
BytesOf(p) == CHOOSE k \in 1 .. Len(file) + 1 :
  /\ Digit(p + k) < MORE
  /\ \A j \in 1 .. k - 1 : Digit(p + j) >= MORE
Values(p) ==
  LET D(i) == ShiftedTo(Digit(p + i) % LEB, (i - 1) * BYTEBITS)
      Joined[i \in 0 .. BytesOf(p)] ==
        IF i = 0 THEN {0} ELSE {x | y : x \in Joined[i - 1], y \in D(i)}
  IN  Joined[BytesOf(p)]

Field == rd.todo[1]
Reading(f) == rd.state = "reading" /\ rd.todo # <<>> /\ Field = f

(* getentry() *)
GetEntry(r, n) ==
  \E q \in {Refill(r, n)} :
    rd' = IF q.len < n THEN Failed(q)
          ELSE Got(Advance(q, n), SubSeq(file, q.pos + 1, q.pos + n))
GetMagic == Reading("magic") /\ GetEntry(rd, MAGIC)
GetWord == Reading("word") /\ GetEntry(rd, 1)

(* getuleb128() *)
GetNumber ==
  /\ Reading("number")
  /\ \E q \in {Refill(rd, ENOUGH)} :
       IF q.len < ENOUGH THEN rd' = Failed(q)
       ELSE \E k \in {BytesOf(q.pos)} : \E v \in Values(q.pos) :
              rd' = [Got(Advance(q, k), v) EXCEPT !.overrun = @ \/ k > q.len]

(* getfuncname() and getfilename() *)
GetName(f) ==
  /\ Reading(f)
  /\ \E q \in {Refill(rd, 1)} :
     \E i \in {Digit(q.pos + 1)} :
       CASE q.len = 0 -> rd' = Failed(q)
         [] q.len > 0 /\ i = 0 -> rd' = Got(Advance(q, 1), NoName)
         [] q.len > 0 /\ i > NEWNAME ->
              rd' = [Advance(q, 1) EXCEPT
                       !.todo = <<f \o "text">> \o Tail(@),
                       !.got = Append(@, i - NEWNAME)]
         [] OTHER -> rd' = Got(Advance(q, 1), rd[f][i])
(* getstring(), which asks for every byte *)
GetText(f) ==
  /\ Reading(f \o "text")
  /\ \E q \in {Refill(rd, 1)} :
     LET s == Token(q.pos + 1)[2]
     IN  rd' = IF q.len = 0 THEN Failed(q)
               ELSE [Got(Advance(q, 1), s) EXCEPT
                       ![f][Last(rd.got)] = s,
                       !.got = Append(Front(rd.got), s)]

(* readfile(): the header *)
HeaderRead ==
  /\ rd.state = "reading" /\ rd.op = "header" /\ rd.todo = <<>>
  /\ rd' = IF rd.got = <<MagicMark, <<Word(1)>>, <<Word("version")>>>>
           THEN [rd EXCEPT !.op = "next", !.got = <<>>] ELSE Failed(rd)

(* readevent(): the tag decides what follows; any other byte ends the loop *)
Source == <<"number", "funcs", "files", "number">>
FieldsOf(t) ==
  IF t = "F" THEN <<"number">> \o Source
  ELSE IF t \in {"A", "R"} THEN <<"number", "number", "number">> \o Source
  ELSE <<"number", "number">>
ReadTag ==
  /\ rd.state = "reading" /\ rd.op = "next"
  /\ \E q \in {Refill(rd, 1)} :
     LET t == Token(q.pos + 1)
     IN  IF q.len > 0 /\ t \in {Tag(c) : c \in {"A", "R", "F", "H", "I"}}
         THEN rd' = [Advance(q, 1) EXCEPT
                       !.op = t[2], !.todo = FieldsOf(t[2]), !.got = <<>>,
                       !.event = @ + (IF t[2] \in {"A", "R", "F"} THEN 1 ELSE 0)]
         ELSE rd' = [q EXCEPT !.op = "end", !.todo = <<"magic">>, !.got = <<>>]

Complete(op) == rd.state = "reading" /\ rd.op = op /\ rd.todo = <<>>
Index == rd.got[1]
Known == Index \in DOMAIN rd.allocs
Alloc == rd.allocs[Index]

Unknown == [rd EXCEPT !.errors = Append(@, "unknown"), !.op = "next"]

Higher(x, y) == IF x < y THEN y ELSE x
(* the peaks and extremes, after the totals have been changed *)
Extremes(st, l) ==
  [st EXCEPT
    !.pcount = Higher(@, st.acount - st.fcount),
    !.ptotal = Higher(@, st.atotal - st.ftotal),
    !.lsize = IF @ = 0 \/ @ > l THEN l ELSE @,
    !.usize = Higher(@, l)]
Row(kind, n, a, l, st, from) ==
  [kind |-> kind, index |-> n, addr |-> a, size |-> l,
   count |-> st.acount - st.fcount, bytes |-> st.atotal - st.ftotal,
   thread |-> rd.got[from], func |-> rd.got[from + 1],
   file |-> rd.got[from + 2], line |-> rd.got[from + 3]]
SimEvent(m, l, resize) == [slot |-> m, size |-> l, resize |-> resize]

(* What a mistake in this code would look like *)
Bug_SlotTaken(slots) == slots
SlotTaken(slots) == Tail(slots)

(* newalloc() and the case 'A' of readevent() *)
OnAlloc ==
  /\ Complete("A")
  /\ LET a == rd.got[2]
         l == rd.got[3]
         again == Known /\ ~Alloc.freed
     IN \E st \in {Extremes([rd.stats EXCEPT !.acount = @ + 1,
                                             !.atotal = @ + l], l)} :
        IF rd.slots = <<>> THEN rd' = Failed(rd)
        ELSE \E m \in {Head(rd.slots)} :
             rd' = [rd EXCEPT
               !.allocs = (Index :> [addr |-> a, size |-> l, freed |-> FALSE,
                                     slot |-> m,
                                     event |-> IF Known THEN Alloc.event
                                               ELSE rd.event]) @@ @,
               !.errors = IF again THEN Append(@, "twice") ELSE @,
               !.stats = st, !.slots = SlotTaken(@), !.maxslots = Higher(@, m),
               !.rows = Append(@, Row("A", Index, a, l, st, 4)),
               !.sim = Append(@, SimEvent(m, l, FALSE)), !.op = "next"]

(* the case 'R' *)
OnRealloc ==
  /\ Complete("R")
  /\ IF ~Known THEN rd' = Unknown ELSE
     LET a == rd.got[2]
         l == rd.got[3]
     IN \E st \in {Extremes([rd.stats EXCEPT !.acount = @ + 1, !.atotal = @ + l,
                               !.fcount = @ + 1, !.ftotal = @ + Alloc.size], l)} :
        rd' = [rd EXCEPT
          !.allocs[Index].addr = a, !.allocs[Index].size = l,
          !.errors = IF Alloc.freed THEN Append(@, "freed") ELSE @,
          !.stats = st, !.op = "next",
          !.rows = Append(@, Row("R", Index, a, l, st, 4)),
          !.sim = IF Alloc.slot = 0 THEN @
                  ELSE Append(@, SimEvent(Alloc.slot, l, TRUE))]

(* the case 'F' *)
OnFree ==
  /\ Complete("F")
  /\ IF ~Known THEN rd' = Unknown ELSE
     \E st \in {[rd.stats EXCEPT !.fcount = @ + 1, !.ftotal = @ + Alloc.size]} :
     rd' = [rd EXCEPT
       !.allocs[Index].freed = TRUE, !.allocs[Index].slot = 0,
       !.errors = IF Alloc.freed THEN Append(@, "freed") ELSE @,
       !.stats = st, !.op = "next",
       !.rows = Append(@, Row("F", Index, Alloc.addr, Alloc.size, st, 2)),
       !.sim = IF Alloc.slot = 0 THEN @
               ELSE Append(@, SimEvent(Alloc.slot, 0, FALSE)),
       !.slots = IF Alloc.slot = 0 THEN @ ELSE <<Alloc.slot>> \o @]

(* the cases 'H' and 'I' *)
OnReserve ==
  /\ Complete("H")
  /\ rd' = [rd EXCEPT !.stats.rcount = @ + 1, !.stats.rtotal = @ + rd.got[2],
                      !.op = "next"]
OnInternal ==
  /\ Complete("I")
  /\ rd' = [rd EXCEPT !.stats.icount = @ + 1, !.stats.itotal = @ + rd.got[2],
                      !.op = "next"]

(* the end of readevent(): the closing magic sequence, then showstats() *)
OnEnd ==
  /\ Complete("end")
  /\ rd' = IF rd.got = <<MagicMark>> THEN [rd EXCEPT !.state = "done"]
           ELSE Failed(rd)

ReaderInit == file = <<>> /\ rd = Idle
OpenFile(f) == rd = Idle /\ file' = f /\ rd' = Opened
ReadFile ==
  /\ UNCHANGED file
  /\ \/ GetMagic \/ GetWord \/ GetNumber
     \/ \E f \in {"funcs", "files"} : GetName(f) \/ GetText(f)
     \/ HeaderRead \/ ReadTag \/ OnAlloc \/ OnRealloc \/ OnFree
     \/ OnReserve \/ OnInternal \/ OnEnd
=============================================================================
