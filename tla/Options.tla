------------------------------ MODULE Options -------------------------------
(***************************************************************************)
(* The settings of the library: how the MPATROL_OPTIONS variable of the    *)
(* environment is read, and how the program changes and queries options    *)
(* later (src/option.c).                                                   *)
(*                                                                         *)
(* Text is a sequence of tokens, each of which stands for a keyword, a     *)
(* number, a word or one of the characters that the code looks for: blank, *)
(* tab, double quote, "=", "-" and "/".  Keywords are compared without     *)
(* regard to case, which is left out.                                      *)
(***************************************************************************)
EXTENDS Integers, Sequences, FiniteSets, SequencesExt

CONSTANTS
    NUMBERS,    \* bound: the tokens that are numbers, with their values
    PAGE,       \* h->alloc.heap.memory.page
    ENVMAX,     \* how long the variable may be, the end of the string included
    VALUES,     \* bound: values that the program sets options to
    FLAGS,      \* bound: flags that it sets and unsets
    CHANGES     \* bound: times that it does so

ASSUME NumbersAssumption ==
    /\ \A n \in DOMAIN NUMBERS : NUMBERS[n] \in Nat
    /\ PAGE \in Nat /\ ENVMAX \in Nat /\ VALUES \subseteq Nat

\* __mp_poweroftwo()
PowerOfTwo[n \in Nat] == IF n <= 1 THEN n ELSE 2 * PowerOfTwo[(n + 1) \div 2]

\* Pages are of a power of two of bytes, and blocks are aligned to 8 of them if
\* nothing else is said.
ASSUME PageAssumption == PAGE >= 8 /\ PowerOfTwo[PAGE] = PAGE

VARIABLES
    lib,        \* the settings
    toParse,    \* the text of which the options have not been read yet
    reported,   \* errors and warnings, each with the option it is about
    running,    \* has __mp_init() been through with the options?
    changes     \* how often the program has changed an option

optionVars == <<lib, toParse, reported, running, changes>>

CheckOptions == {"CHECKALLOCS", "CHECKREALLOCS", "CHECKFREES", "CHECKMEMORY"}
LogOptions == {"LOGALLOCS", "LOGREALLOCS", "LOGFREES", "LOGMEMORY"}
ShowOptions == {"SHOWFREE", "SHOWFREED", "SHOWUNFREED", "SHOWMAP", "SHOWSYMBOLS"}
AllOf == [CHECKALL |-> CheckOptions, LOGALL |-> LogOptions, SHOWALL |-> ShowOptions]

\* What becomes of a seed of 0: the time.
TIME == 1

OPEN == -1      \* (unsigned long) -1, an end of a range that is not given

\* The settings that __mp_newinfo() leaves: those of option keywords as flags,
\* numbers and names of files; the files that are not named have standard names.
Defaults ==
    [flags |-> {},
     val   |-> [ALLOCBYTE |-> 255, ALLOCSTOP |-> 0, AUTOSAVE |-> 0, DEFALIGN |-> 8,
                FAILFREQ |-> 0, FAILSEED |-> 0, FREEBYTE |-> 85, FREESTOP |-> 0,
                LARGEBOUND |-> 2048, LIMIT |-> 0, MEDIUMBOUND |-> 256, NOFREE |-> 0,
                OFLOWBYTE |-> 170, OFLOWSIZE |-> 0, REALLOCSTOP |-> 0,
                SMALLBOUND |-> 32, UNFREEDABORT |-> 0,
                CHECKLOWER |-> 0, CHECKUPPER |-> 0, CHECKFREQ |-> 1],
     file  |-> [LOGFILE |-> <<>>, PROFFILE |-> <<>>, TRACEFILE |-> <<>>,
                PROGFILE |-> <<>>]]

-----------------------------------------------------------------------------
(***************************************************************************)
(* Cutting the text into options                                           *)
(***************************************************************************)
Blanks == {" ", "\t"}

\* Scans text from place i on, up to a blank that is not in quotes, or up to a "="
\* if that ends it too: the place where it stops.
End(s, i, stop) ==
    LET stops == {j \in i..Len(s) : s[j] = stop}
                   \cup {j \in i..Len(s) : s[j] \in Blanks /\ Cardinality(
                           {q \in i..j : s[q] = "\""}) % 2 = 0}
    IN  IF stops = {} THEN Len(s) + 1 ELSE Min(stops)

\* What is scanned from place i to the place before j, without the quotes.
Scanned(s, i, j) == SelectSeq(SubSeq(s, i, j - 1), LAMBDA t : t # "\"")

SkipBlanks(s) ==
    LET first == SelectInSeq(s, LAMBDA t : t \notin Blanks)
    IN  IF first = 0 THEN <<>> ELSE SubSeq(s, first, Len(s))

-----------------------------------------------------------------------------
(***************************************************************************)
(* Obeying an option: new settings, and what is said about it              *)
(***************************************************************************)
IsNumber(a) == Len(a) = 1 /\ a[1] \in DOMAIN NUMBERS
NumberOf(a) == IF IsNumber(a) THEN NUMBERS[a[1]] ELSE 0

WholePages(n) == ((n + PAGE - 1) \div PAGE) * PAGE

Obeyed(h, code) == [lib |-> h, code |-> code]

\* An option without a value, which sets flags.
Flag(h, a, set) ==
    Obeyed([h EXCEPT !.flags = @ \cup set],
           IF a # <<>> THEN "IGNARGUMENT" ELSE "RECOGNISED")

\* EDIT and LIST each put the other one out.
Either(h, a, this, that) ==
    Obeyed([h EXCEPT !.flags = (@ \ {that}) \cup {this}],
           IF a # <<>> THEN "IGNARGUMENT" ELSE "RECOGNISED")

\* An option with a number, which must not be too big; u is what it sets.
Number(h, a, most, u) ==
    IF a = <<>> THEN Obeyed(h, "NOARGUMENT")
    ELSE IF ~IsNumber(a) THEN Obeyed(h, "BADNUMBER")
    ELSE IF most > 0 /\ NumberOf(a) > most THEN Obeyed(h, "BIGNUMBER")
    ELSE Obeyed(u, "RECOGNISED")

Value(h, k, a) == [h EXCEPT !.val[k] = NumberOf(a)]

File(h, k, a) ==
    IF a = <<>> THEN Obeyed(h, "NOARGUMENT")
    ELSE Obeyed([h EXCEPT !.file[k] = a], "RECOGNISED")

\* A bound of 0 stands for the one there was at first.
Bound(h, k, a) ==
    Number(h, a, 0, IF NumberOf(a) = 0 THEN [h EXCEPT !.val[k] = Defaults.val[k]]
                    ELSE Value(h, k, a))

\* The parts of l-u/d, any of which may be missing.
RangeParts(a) ==
    LET first(s, c) == IF \E i \in 1..Len(s) : s[i] = c
                       THEN CHOOSE i \in 1..Len(s) :
                                s[i] = c /\ \A j \in 1..i - 1 : s[j] # c
                       ELSE Len(s) + 1
        slash == first(a, "/")
        range == SubSeq(a, 1, slash - 1)
        dash == first(range, "-")
    IN  [l |-> SubSeq(range, 1, dash - 1), u |-> SubSeq(range, dash + 1, Len(range)),
         d |-> SubSeq(a, slash + 1, Len(a)), single |-> dash > Len(range)]

Ends(l, u) == [l |-> l, u |-> u]
\* One end that is 0 is open, and the ends may come in any order.
InOrder(e) ==
    CASE e.l = 0 /\ e.u # 0 -> Ends(OPEN, e.u)
      [] e.l # 0 /\ e.u = 0 -> Ends(e.l, OPEN)
      [] e.l # OPEN /\ e.u # OPEN /\ e.l > e.u -> Ends(e.u, e.l)
      [] OTHER -> e

NumberOr(s, missing) == IF s = <<>> THEN missing ELSE NumberOf(s)

\* Takes a range with only a lower end for one number.
Bug_EndsOf(p) ==
    Ends(NumberOr(p.l, OPEN), NumberOr(IF p.u = <<>> THEN p.l ELSE p.u, OPEN))
EndsOf(p) == Ends(NumberOr(p.l, OPEN), NumberOr(IF p.single THEN p.l ELSE p.u, OPEN))

RangeOf(p, e) ==
    [bad |-> \E s \in {p.l, p.u, p.d} : s # <<>> /\ ~IsNumber(s),
     l |-> e.l, u |-> e.u,
     d |-> IF NumberOr(p.d, 1) = 0 THEN 1 ELSE NumberOr(p.d, 1)]

\* readrange()
ReadParts(p) == RangeOf(p, InOrder(EndsOf(p)))
ReadRange(a) == ReadParts(RangeParts(a))

\* The cases of the letters A to D.
OptionsAtoD(h, o, a) ==
    CASE o = "ALLOCBYTE" -> Number(h, a, 255, Value(h, o, a))
      [] o \in {"ALLOCSTOP", "AUTOSAVE"} -> Number(h, a, 0, Value(h, o, a))
      [] o = "CHECK" ->
            LET r == ReadRange(a)
            IN  IF a = <<>> THEN Obeyed(h, "NOARGUMENT")
                ELSE IF r.bad THEN Obeyed(h, "BADRANGE")
                ELSE Obeyed([h EXCEPT !.val.CHECKLOWER = r.l, !.val.CHECKUPPER = r.u,
                                      !.val.CHECKFREQ = r.d], "RECOGNISED")
      [] o = "CHECKALL" -> Flag(h, a, CheckOptions)
      [] o = "DEFALIGN" ->
            IF IsNumber(a) /\ NumberOf(a) = 0 THEN Obeyed(h, "BADNUMBER")
            ELSE Number(h, a, PAGE, [h EXCEPT !.val[o] = PowerOfTwo[NumberOf(a)]])
      [] OTHER -> Flag(h, a, {o})   \* ALLOWOFLOW, CHECKALLOCS, CHECKFORK, ...

\* The cases of the letters E to H.
OptionsEtoH(h, o, a) ==
    CASE o = "EDIT" -> Either(h, a, "EDIT", "LIST")
      [] o = "FREEBYTE" -> Number(h, a, 255, Value(h, o, a))
      [] o \in {"FAILFREQ", "FAILSEED", "FREESTOP"} -> Number(h, a, 0, Value(h, o, a))
      [] o = "HELP" -> Flag(h, a, {})
      [] o = "HTML" -> Flag(h, a, {"HTMLNEXT"})

\* Those of the letter L.
OptionsL(h, o, a) ==
    CASE o = "LARGEBOUND" -> Bound(h, o, a)
      [] o = "LIMIT" -> Number(h, a, 0, Value(h, o, a))
      [] o = "LIST" -> Either(h, a, "LIST", "EDIT")
      [] o = "LOGALL" -> Flag(h, a, LogOptions)
      [] o = "LOGFILE" -> File(h, o, a)
      [] OTHER -> Flag(h, a, {o})   \* LEAKTABLE, LOGALLOCS, ...

\* An overflow buffer of no size is no good for PAGEALLOC.
Bug_Oflow(h, n) == n

\* h->alloc.oflow for n bytes.
Oflow(h, n) ==
    IF "PAGEALLOC" \in h.flags THEN WholePages(IF n = 0 THEN 1 ELSE n) ELSE n

\* Those of the letters M to O.
OptionsMtoO(h, o, a) ==
    CASE o = "MEDIUMBOUND" -> Bound(h, o, a)
      [] o = "NOFREE" ->
            LET u == Value(h, o, a)
            IN  Number(h, a, 0, [u EXCEPT !.flags = IF u.val.NOFREE = 0
                                                    THEN @ \ {"NOFREE"}
                                                    ELSE @ \cup {"NOFREE"}])
      [] o = "OFLOWBYTE" -> Number(h, a, 255, Value(h, o, a))
      [] o = "OFLOWSIZE" ->
            IF IsNumber(a) /\ NumberOf(a) = 0 /\ "PAGEALLOC" \in h.flags
            THEN Obeyed(h, "BADNUMBER")
            ELSE Number(h, a, 0, [h EXCEPT !.val[o] = Oflow(h, PowerOfTwo[NumberOf(a)])])
      [] OTHER -> Flag(h, a, {o})   \* NOPROTECT, OFLOWWATCH

\* Those of the letters P and R. UPPER is never put out again.
OptionsPtoR(h, o, a) ==
    CASE o = "PAGEALLOC" ->
            LET set == {"PAGEALLOC"} \cup (IF a = <<"UPPER">> THEN {"ALLOCUPPER"} ELSE {})
                u == [h EXCEPT !.flags = @ \cup set]
            IN  IF a = <<>> THEN Obeyed(h, "NOARGUMENT")
                ELSE IF a \notin {<<"LOWER">>, <<"UPPER">>} THEN Obeyed(h, "LOWERORUPPER")
                ELSE Obeyed([u EXCEPT !.val.OFLOWSIZE = Oflow(u, @)], "RECOGNISED")
      [] o \in {"PROFFILE", "PROGFILE"} -> File(h, o, a)
      [] o = "REALLOCSTOP" -> Number(h, a, 0, Value(h, o, a))
      [] OTHER -> Flag(h, a, {o})   \* PRESERVE, PROF

\* Those of the letter S.
OptionsS(h, o, a) ==
    CASE o = "SHOWALL" -> Flag(h, a, ShowOptions)
      [] o = "SMALLBOUND" -> Bound(h, o, a)
      [] OTHER -> Flag(h, a, {o})   \* SAFESIGNALS, SHOWFREE, ...

\* Those of the letters T and U.
OptionsTtoU(h, o, a) ==
    CASE o = "TRACEFILE" -> File(h, o, a)
      [] o = "UNFREEDABORT" -> Number(h, a, 0, Value(h, o, a))
      [] OTHER -> Flag(h, a, {o})   \* TRACE, USEDEBUG, USEMMAP

Letters ==
    [AtoD |-> {"ALLOCBYTE", "ALLOCSTOP", "ALLOWOFLOW", "AUTOSAVE", "CHECK", "CHECKALL",
               "CHECKFORK", "DEFALIGN"} \cup CheckOptions,
     EtoH |-> {"EDIT", "FAILFREQ", "FAILSEED", "FREEBYTE", "FREESTOP", "HELP", "HTML"},
     L    |-> {"LARGEBOUND", "LEAKTABLE", "LIMIT", "LIST", "LOGALL", "LOGFILE"}
                  \cup LogOptions,
     MtoO |-> {"MEDIUMBOUND", "NOFREE", "NOPROTECT", "OFLOWBYTE", "OFLOWSIZE",
               "OFLOWWATCH"},
     PtoR |-> {"PAGEALLOC", "PRESERVE", "PROF", "PROFFILE", "PROGFILE", "REALLOCSTOP"},
     S    |-> {"SAFESIGNALS", "SHOWALL", "SMALLBOUND"} \cup ShowOptions,
     TtoU |-> {"TRACE", "TRACEFILE", "UNFREEDABORT", "USEDEBUG", "USEMMAP"}]

\* What is not a single word is no keyword.
Keyword(key) == IF Len(key) = 1 THEN key[1] ELSE ""

\* The switch over the first letter of the keyword.
Obey(h, key, a) ==
    LET o == Keyword(key)
    IN  CASE o \in Letters.AtoD -> OptionsAtoD(h, o, a)
          [] o \in Letters.EtoH -> OptionsEtoH(h, o, a)
          [] o \in Letters.L    -> OptionsL(h, o, a)
          [] o \in Letters.MtoO -> OptionsMtoO(h, o, a)
          [] o \in Letters.PtoR -> OptionsPtoR(h, o, a)
          [] o \in Letters.S    -> OptionsS(h, o, a)
          [] o \in Letters.TtoU -> OptionsTtoU(h, o, a)
          [] key = <<>> -> Obeyed(h, "NOOPTION")
          [] OTHER -> Obeyed(h, "UNRECOGNISED")

\* Profiling bounds that overlap are moved apart.
Bounded(h) ==
    LET m == h.val.MEDIUMBOUND
        u == IF h.val.SMALLBOUND >= m THEN [h EXCEPT !.val.SMALLBOUND = m - 1] ELSE h
    IN  IF h.val.LARGEBOUND <= m THEN [u EXCEPT !.val.LARGEBOUND = m + 1] ELSE u

-----------------------------------------------------------------------------
OptionsInit == lib = Defaults /\ toParse = <<>> /\ reported = {} /\ running = FALSE
               /\ changes = 0

\* __mp_parseoptions() gets the text from the environment.
ReadEnvironment(text) ==
    /\ ~running
    /\ LET tooLong == Len(text) + 1 > ENVMAX
       IN  /\ toParse' = IF tooLong THEN <<>> ELSE SkipBlanks(text)
           /\ reported' = IF tooLong THEN {<<"TOOLONG", <<>>>>} ELSE {}
    /\ UNCHANGED <<lib, running, changes>>

\* One turn of its loop: a keyword and, behind a "=", its value.
ParseOption ==
    /\ toParse # <<>>
    /\ \E o \in {End(toParse, 1, "=")} :
       \E a \in {IF o <= Len(toParse) /\ toParse[o] = "=" THEN End(toParse, o + 1, "")
                 ELSE o} :
       \E key \in {Scanned(toParse, 1, o)}, arg \in {Scanned(toParse, o + 1, a)} :
           LET r == Obey(lib, key, arg)
           IN  /\ lib' = r.lib
               /\ toParse' = SkipBlanks(SubSeq(toParse, a + 1, Len(toParse)))
               /\ reported' = IF \/ r.code = "RECOGNISED"
                                 \/ r.code = "NOOPTION" /\ arg = <<>>
                              THEN reported ELSE reported \cup {<<r.code, key>>}
    /\ UNCHANGED <<running, changes>>

\* The end of __mp_parseoptions() and of __mp_init(), which opens the log file.
Start(text) ==
    /\ ~running /\ toParse = <<>>
    /\ LET u == IF text = <<>> \/ <<"TOOLONG", <<>>>> \in reported THEN lib
                ELSE Bounded(lib)
           f == u.flags \ {"HTMLNEXT"}
           seed == IF u.val.FAILSEED = 0 THEN TIME ELSE u.val.FAILSEED
       IN  lib' = [u EXCEPT !.val.FAILSEED = seed, !.flags =
                       f \cup (IF "HTMLNEXT" \in u.flags THEN {"HTML"} ELSE {})
                         \cup (IF "LEAKTABLE" \in f THEN {"leaks traced"} ELSE {})]
    /\ running' = TRUE
    /\ UNCHANGED <<toParse, reported, changes>>

-----------------------------------------------------------------------------
(***************************************************************************)
(* Options that the program sets                                           *)
(***************************************************************************)
Changeable == CheckOptions \cup LogOptions \cup ShowOptions
                  \cup {"LEAKTABLE", "ALLOWOFLOW", "CHECKFORK", "EDIT", "LIST"}

\* What setflags() does with each flag.
WithFlag(flags, f) ==
    CASE f = "EDIT" -> (flags \ {"LIST"}) \cup {f}
      [] f = "LIST" -> (flags \ {"EDIT"}) \cup {f}
      [] f = "LEAKTABLE" -> flags \cup {f, "leaks traced"}
      [] OTHER -> flags \cup {f}

WithoutFlag(flags, f) ==
    flags \ (IF f = "LEAKTABLE" THEN {f, "leaks traced"} ELSE {f})

\* __mp_set() of a number: what may not be changed is left alone. That a change of
\* AUTOSAVE writes the profile and one of NOFREE lets freed blocks go is left out.
AfterSet(h, o, v) ==
    LET set(n) == [h EXCEPT !.val[o] = n]
    IN  CASE o = "ALLOCBYTE" -> set(IF v > 255 THEN 255 ELSE v)
          [] o = "CHECKFREQ" -> set(IF v = 0 THEN 1 ELSE v)
          [] o = "FAILSEED" -> set(IF v = 0 THEN TIME ELSE v)
          [] o = "DEFALIGN" -> IF v = 0 \/ v > PAGE THEN h ELSE set(PowerOfTwo[v])
          [] o = "NOFREE" -> [set(v) EXCEPT !.flags = IF v = 0 THEN @ \ {o}
                                                      ELSE @ \cup {o}]
          [] o \in {"ALLOCSTOP", "REALLOCSTOP", "FREESTOP", "LIMIT", "FAILFREQ",
                    "UNFREEDABORT", "AUTOSAVE", "CHECKLOWER", "CHECKUPPER"} -> set(v)
          [] OTHER -> h

\* __mp_get() of a number
Get(h, o) == h.val[o]

\* getflags(): the flags that the program is told of.
GetFlags(h) == h.flags \ {"HTMLNEXT", "NOFREE", "leaks traced"}

Change(h) ==
    /\ running /\ changes < CHANGES
    /\ lib' = h
    /\ changes' = changes + 1
    /\ UNCHANGED <<toParse, reported, running>>

SetFlag(f) == Change([lib EXCEPT !.flags = WithFlag(@, f)])

UnsetFlag(f) == Change([lib EXCEPT !.flags = WithoutFlag(@, f)])

SetValue(o, v) == Change(AfterSet(lib, o, v))

SetOptions ==
    \/ \E f \in FLAGS \cap Changeable : SetFlag(f) \/ UnsetFlag(f)
    \/ \E o \in DOMAIN Defaults.val, v \in VALUES : SetValue(o, v)

\* checkheap(): is the heap checked in an event at allocation index n? That it may
\* be only every so many events is left out.
ChecksHeap(h, n) ==
    /\ h.val.CHECKLOWER # 0 \/ h.val.CHECKUPPER # 0
    /\ h.val.CHECKLOWER = OPEN \/ h.val.CHECKLOWER <= n
    /\ h.val.CHECKUPPER = OPEN \/ n <= h.val.CHECKUPPER

-----------------------------------------------------------------------------
\* However options were given, in whatever order, in the environment and by calls,
\* the settings fit together: blocks with pages of their own have overflow buffers
\* of whole pages, the alignment is a power of two no larger than a page, the
\* profiling bounds are in order, the NOFREE flag goes with its number and the leak
\* table is filled when it is to be shown, an editor and a listing are never both
\* asked for, and a byte is a byte; setting an option to what it is read as changes
\* nothing.
SettingsFit == running =>
    /\ "PAGEALLOC" \in lib.flags => /\ lib.val.OFLOWSIZE > 0
                                    /\ lib.val.OFLOWSIZE % PAGE = 0
    /\ "ALLOCUPPER" \in lib.flags => "PAGEALLOC" \in lib.flags
    /\ lib.val.DEFALIGN <= PAGE /\ PowerOfTwo[lib.val.DEFALIGN] = lib.val.DEFALIGN
    /\ lib.val.SMALLBOUND < lib.val.MEDIUMBOUND
    /\ lib.val.MEDIUMBOUND < lib.val.LARGEBOUND
    /\ "NOFREE" \in lib.flags <=> lib.val.NOFREE > 0
    /\ "LEAKTABLE" \in lib.flags <=> "leaks traced" \in lib.flags
    /\ ~({"EDIT", "LIST"} \subseteq lib.flags)
    /\ \A k \in {"ALLOCBYTE", "FREEBYTE", "OFLOWBYTE"} : lib.val[k] \in 0..255
    /\ \A o \in DOMAIN lib.val : AfterSet(lib, o, Get(lib, o)) = lib
    /\ \A f \in GetFlags(lib) \cap Changeable : WithFlag(lib.flags, f) = lib.flags
=============================================================================
