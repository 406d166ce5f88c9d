-------------------------------- MODULE Trace --------------------------------
(***************************************************************************)
(* Writing of the tracing output file (src/trace.c).  The file is a        *)
(* sequence of tokens: a tag, a byte, a name with its terminator, a word   *)
(* or one character of the magic sequence.  Numbers are written seven bits *)
(* to a byte, here log2(LEB) bits; names are replaced by their index in a  *)
(* cache of the most recently used ones.                                   *)
(***************************************************************************)
EXTENDS Integers, Sequences, SequencesExt

CONSTANTS
  LEB,          \* values of a byte of a number, 128 in the code
  NAMECACHE,    \* MP_NAMECACHE_SIZE
  RESCACHE,     \* MP_RESCACHE_SIZE
  MAGIC,        \* characters in MP_TRACEMAGIC
  NoName        \* a NULL or an empty name

ASSUME TraceAssumption ==
  /\ LEB \in Nat \ {0, 1}
  /\ {NAMECACHE, RESCACHE, MAGIC} \subseteq Nat \ {0}

Tag(c) == <<"tag", c>>
Byte(b) == <<"byte", b>>
Text(s) == <<"text", s>>
Word(w) == <<"word", w>>
MagicMark == [i \in 1 .. MAGIC |-> <<"magic", i>>]

(* A bit above those that hold the value: "more bytes follow" in a number, *)
(* "the name itself follows" in a cache index.                             *)
MORE == LEB
NEWNAME == 128

VARIABLES
  head,     \* tracehead with tracefile, traceready and the two name caches
  pending,  \* the memory reservation cache
  disk      \* what has been written to each file

traceVars == <<head, pending, disk>>

NoStream == "NULL"

(* __mp_encodeuleb128(): least significant digits first *)
Digits(n) == CHOOSE k \in 1 .. n + 1 :
  n < LEB ^ k /\ (k = 1 \/ LEB ^ (k - 1) <= n)
Encode(n) ==
  [i \in 1 .. Digits(n) |->
    Byte(((n \div LEB ^ (i - 1)) % LEB) + (IF i < Digits(n) THEN MORE ELSE 0))]

EmptyCache == [used |-> <<>>, free |-> [i \in 1 .. NAMECACHE |-> i]]

(* What a mistake in this code would look like *)
Bug_AddName(c, s) ==
  LET hits == SelectSeq(c.used, LAMBDA u : u.name = s)
  IN  IF hits # <<>> THEN [cache |-> c, byte |-> hits[1].index]
      ELSE IF c.free # <<>>
      THEN [cache |-> [used |-> <<[name |-> s, index |-> Head(c.free)]>> \o c.used,
                       free |-> Tail(c.free)],
            byte |-> Head(c.free) + NEWNAME]
      ELSE [cache |-> [c EXCEPT !.used =
                         <<[name |-> s, index |-> Last(c.used).index]>> \o c.used],
            byte |-> Last(c.used).index + NEWNAME]
(* addname(): an entry that is used moves to the front, a name that is not *)
(* cached takes the first free entry or that of the least recently used    *)
(* name.                                                                   *)
AddName(c, s) ==
  LET hits == SelectSeq(c.used, LAMBDA u : u.name = s)
      rest == SelectSeq(c.used, LAMBDA u : u.name # s)
      Entry(i) == [name |-> s, index |-> i]
  IN  IF hits # <<>>
      THEN [cache |-> [c EXCEPT !.used = hits \o rest], byte |-> hits[1].index]
      ELSE IF c.free # <<>>
      THEN [cache |-> [used |-> <<Entry(Head(c.free))>> \o c.used,
                       free |-> Tail(c.free)],
            byte |-> Head(c.free) + NEWNAME]
      ELSE [cache |-> [c EXCEPT !.used =
                         <<Entry(Last(c.used).index)>> \o Front(c.used)],
            byte |-> Last(c.used).index + NEWNAME]

(* writefuncname() and writefilename() *)
WriteName(c, s) ==
  IF s = NoName THEN [cache |-> c, out |-> <<Byte(0)>>]
  ELSE LET a == AddName(c, s)
       IN  [cache |-> a.cache,
            out |-> <<Byte(a.byte)>>
                    \o IF a.byte > NEWNAME THEN <<Text(s)>> ELSE <<>>]

Reservation(r) == <<Tag(IF r.internal THEN "I" ELSE "H")>>
                  \o Encode(r.block) \o Encode(r.size)

Closed(h) == [h EXCEPT !.stream = NoStream, !.ready = FALSE,
                       !.funcs = EmptyCache, !.files = EmptyCache]

(* __mp_newtrace() *)
TraceInit(on, name) ==
  /\ head = [file |-> name, tracing |-> on, stream |-> NoStream,
             ready |-> FALSE, funcs |-> EmptyCache, files |-> EmptyCache]
  /\ pending = <<>>
  /\ disk = [f \in {"parent", "child"} |-> <<>>]

(* opentracefile() may not be able to create the file *)
CanOpen(h) == h.stream # NoStream \/ h.file # "none"
Opening(h) == h.stream = NoStream
Preamble(cached) ==
  MagicMark \o <<Word(1), Word("version")>>
  \o FlattenSeq([i \in DOMAIN cached |-> Reservation(cached[i])])

(* The part that __mp_tracealloc(), __mp_tracerealloc() and                *)
(* __mp_tracefree() share: open the file, write the event and its source.  *)
WriteEvent(start, d, func, file, line) ==
  IF ~CanOpen(head) THEN UNCHANGED traceVars
  ELSE \E f \in {WriteName(head.funcs, func)} :
       \E g \in {WriteName(head.files, file)} :
       LET name == head.file
       IN  /\ disk' = [disk EXCEPT ![name] =
                 (IF Opening(head) THEN Preamble(pending) ELSE @)
                 \o start \o Encode(d) \o f.out \o g.out \o Encode(line)]
           /\ pending' = IF Opening(head) THEN <<>> ELSE pending
           /\ head' = [head EXCEPT !.stream = name, !.ready = TRUE,
                                   !.funcs = f.cache, !.files = g.cache]

TraceAlloc(n, a, l, d, func, file, line) ==
  WriteEvent(<<Tag("A")>> \o Encode(n) \o Encode(a) \o Encode(l),
             d, func, file, line)
TraceRealloc(n, a, l, d, func, file, line) ==
  WriteEvent(<<Tag("R")>> \o Encode(n) \o Encode(a) \o Encode(l),
             d, func, file, line)
TraceFree(n, d, func, file, line) ==
  WriteEvent(<<Tag("F")>> \o Encode(n), d, func, file, line)

(* __mp_traceheap(): until the file is open a reservation waits in the     *)
(* cache, and is discarded when the cache is full.                         *)
TraceHeap(a, l, internal) ==
  LET r == [block |-> a, size |-> l, internal |-> internal]
  IN  /\ UNCHANGED head
      /\ IF head.ready
         THEN /\ disk' = [disk EXCEPT ![head.stream] = @ \o Reservation(r)]
              /\ UNCHANGED pending
         ELSE /\ pending' = IF Len(pending) < RESCACHE
                            THEN Append(pending, r) ELSE pending
              /\ UNCHANGED disk

(* __mp_endtrace() *)
EndTrace ==
  /\ disk' = IF head.tracing /\ head.stream # NoStream
             THEN [disk EXCEPT ![head.stream] = @ \o MagicMark] ELSE disk
  /\ head' = [Closed(head) EXCEPT !.file = "none", !.tracing = FALSE]
  /\ UNCHANGED pending

(* __mp_changetrace(): the names in the caches are in the other file *)
ChangeTrace(name) ==
  /\ head' = [Closed(head) EXCEPT !.file = name]
  /\ UNCHANGED <<pending, disk>>
=============================================================================
