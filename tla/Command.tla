------------------------------ MODULE Command ------------------------------
(***************************************************************************)
(* The mpatrol command: it reads its own options (src/getopt.c), puts      *)
(* those of the library into the MPATROL_OPTIONS variable and runs a       *)
(* program (src/mpatrol.c), whose library reads them (Options.tla).        *)
(*                                                                         *)
(* A word of the command line is a sequence of tokens: "--" and the name   *)
(* of an option, perhaps with "=" and a text, or "-" and letters.  An      *)
(* option goes by its OF_ constant, whether it is given by name or by      *)
(* letter.                                                                 *)
(***************************************************************************)
EXTENDS Options

CONSTANTS
    SITUATIONS  \* bound: command lines, as sequences of words, each with what
                \* MPATROL_OPTIONS is before

VARIABLES
    line,       \* argv without the program's name
    outer,      \* the text of MPATROL_OPTIONS when the command starts
    optindex, rest,     \* __mp_optindex, and what __mp_getopt() has still to look
                        \* at of the word there
    given,      \* the variables of mpatrol.c that options set
    asked,      \* the options that have been read, in order
    env,        \* the text of MPATROL_OPTIONS that the program gets
    phase       \* "options", "program", or how the command has ended

commandVars == <<line, outer, optindex, rest, given, asked, env, phase>>
vars == <<optionVars, commandVars>>

None == <<"none">>      \* a null pointer to characters

TakesText == {"ALLOCBYTE", "ALLOCSTOP", "AUTOSAVE", "CHECK", "DEFALIGN", "FAILFREQ",
              "FAILSEED", "FREEBYTE", "FREESTOP", "LARGEBOUND", "LIMIT", "LOGFILE",
              "MEDIUMBOUND", "NOFREE", "OFLOWBYTE", "OFLOWSIZE", "PROFFILE",
              "PROGFILE", "REALLOCSTOP", "SMALLBOUND", "TRACEFILE", "UNFREEDABORT"}
OnlyByName == (CheckOptions \cup LogOptions \cup ShowOptions)
                  \cup {"CHECKFORK", "LARGEBOUND", "LEAKTABLE", "MEDIUMBOUND", "SMALLBOUND"}
Plain == CheckOptions \cup LogOptions \cup ShowOptions
           \cup {"ALLOWOFLOW", "CHECKFORK", "HTML", "LEAKTABLE", "NOPROTECT",
                 "OFLOWWATCH", "PRESERVE", "PROF", "SAFESIGNALS", "TRACE",
                 "USEDEBUG", "USEMMAP"}
Own == {"DYNAMIC", "THREADS", "HELP", "VERSION", "READENV", "SHOWENV"}
Known == TakesText \cup Plain \cup Own \cup DOMAIN AllOf
           \cup {"EDIT", "LIST", "PAGEALLOCLOWER", "PAGEALLOCUPPER"}

-----------------------------------------------------------------------------
(***************************************************************************)
(* __mp_getopt()                                                           *)
(***************************************************************************)
Got(opt, text, index, t) == [opt |-> opt, arg |-> text, index |-> index, rest |-> t]

\* The argument of an option is the next word if there is no more of its own.
FromNext(opt, text, i) ==
    IF text # <<>> THEN Got(opt, text, i + 1, None)
    ELSE IF i + 1 > Len(line) \/ line[i + 1] = <<"--">> THEN Got("?", None, i + 1, None)
    ELSE Got(opt, line[i + 1], i + 2, None)

\* findopt() compares up to the "=", behind which the argument is.
LongOption(i, w) ==
    IF w[1] \notin Known THEN Got("?", None, i + 1, None)
    ELSE IF w[1] \in TakesText THEN FromNext(w[1], SubSeq(w, 3, Len(w)), i)
    ELSE Got(w[1], None, i + 1, None)

ShortOption(i, t) ==
    LET o == Head(t)
    IN  IF o \notin Known \ OnlyByName THEN Got("?", None, i, Tail(t))
        ELSE IF o \in TakesText THEN FromNext(o, Tail(t), i)
        ELSE Got(o, None, i, Tail(t))

GetOpt ==
    LET next == optindex = 0 \/ rest = <<>>
        i == IF next THEN optindex + 1 ELSE optindex
        w == line[i]
    IN  IF ~next /\ rest # None THEN ShortOption(i, rest)
        ELSE IF i > Len(line) THEN Got("EOF", None, i, None)
        ELSE IF w = <<"--">> THEN Got("EOF", None, i + 1, None)
        ELSE IF w = <<"-">> \/ w[1] \notin {"-", "--"} THEN Got("EOF", None, i, None)
        ELSE IF w[1] = "--" THEN LongOption(i, Tail(w))
        ELSE ShortOption(i, Tail(w))

-----------------------------------------------------------------------------
(***************************************************************************)
(* main()                                                                  *)
(***************************************************************************)
Nothing ==
    [text |-> [k \in TakesText \cup {"PAGEALLOC"} |->
                  CASE k = "LOGFILE" -> <<"std log">>
                    [] k = "PROFFILE" -> <<"std prof">>
                    [] k = "TRACEFILE" -> <<"std trace">>
                    [] OTHER -> None],
     plain |-> {}, editlist |-> "", own |-> {}, wrong |-> FALSE]

\* The switch over what __mp_getopt() gives.
With(g, opt, arg) ==
    CASE opt \in TakesText -> [g EXCEPT !.text[opt] = arg]
      [] opt \in Plain -> [g EXCEPT !.plain = @ \cup {opt}]
      [] opt \in DOMAIN AllOf -> [g EXCEPT !.plain = @ \cup AllOf[opt]]
      [] opt \in {"EDIT", "LIST"} -> [g EXCEPT !.editlist = opt]
      [] opt = "PAGEALLOCLOWER" -> [g EXCEPT !.text.PAGEALLOC = <<"LOWER">>]
      [] opt = "PAGEALLOCUPPER" -> [g EXCEPT !.text.PAGEALLOC = <<"UPPER">>]
      [] opt \in Own -> [g EXCEPT !.own = @ \cup {opt}]
      [] OTHER -> [g EXCEPT !.wrong = TRUE]

ReadOption ==
    /\ phase = "options"
    /\ optindex' = GetOpt.index /\ rest' = GetOpt.rest
    /\ IF GetOpt.opt = "EOF"
       THEN phase' = "read" /\ UNCHANGED <<given, asked>>
       ELSE /\ given' = With(given, GetOpt.opt, GetOpt.arg)
            /\ asked' = Append(asked, <<GetOpt.opt, GetOpt.arg>>)
            /\ UNCHANGED phase
    /\ UNCHANGED <<optionVars, line, outer, env>>

\* What addoption() adds to the text: a value with a blank in it is put in quotes.
AddOption(empty, k, v) ==
    LET quote == IF v # None /\ \E i \in 1..Len(v) : v[i] = " " THEN <<"\"">> ELSE <<>>
    IN  (IF empty THEN <<>> ELSE <<" ">>) \o <<k>>
          \o (IF v = None THEN <<>> ELSE <<"=">> \o quote \o v \o quote)

Order == <<"LOGFILE", "ALLOCBYTE", "ALLOCSTOP", "ALLOWOFLOW", "AUTOSAVE", "CHECK",
           "CHECKALL", "CHECKALLOCS", "CHECKFREES", "CHECKMEMORY", "CHECKREALLOCS",
           "CHECKFORK", "DEFALIGN", "EDIT", "FAILFREQ", "FAILSEED", "FREEBYTE",
           "FREESTOP", "HTML", "LARGEBOUND", "LEAKTABLE", "LIMIT", "LIST", "LOGALL",
           "LOGALLOCS", "LOGFREES", "LOGMEMORY", "LOGREALLOCS", "MEDIUMBOUND",
           "NOFREE", "NOPROTECT", "OFLOWBYTE", "OFLOWSIZE", "OFLOWWATCH", "PAGEALLOC",
           "PRESERVE", "PROF", "PROFFILE", "PROGFILE", "REALLOCSTOP", "SAFESIGNALS",
           "SHOWALL", "SHOWFREE", "SHOWFREED", "SHOWMAP", "SHOWSYMBOLS",
           "SHOWUNFREED", "SMALLBOUND", "TRACE", "TRACEFILE", "UNFREEDABORT",
           "USEDEBUG", "USEMMAP">>

\* setoptions() passes option k on: those of a group one by one unless all are set.
PassedOn(k) ==
    CASE k \in DOMAIN given.text -> given.text[k] # None
      [] k \in DOMAIN AllOf -> AllOf[k] \subseteq given.plain
      [] k \in {"EDIT", "LIST"} -> given.editlist = k
      [] OTHER -> /\ k \in given.plain
                  /\ \A all \in DOMAIN AllOf :
                         k \in AllOf[all] => ~(AllOf[all] \subseteq given.plain)

Environment ==
    LET before == IF "READENV" \in given.own THEN outer ELSE <<>>
        ks == SelectSeq(Order, PassedOn)
        arg(k) == IF k \in DOMAIN given.text THEN given.text[k] ELSE None
    IN  before \o FlattenSeq([i \in 1..Len(ks) |->
                                  AddOption(i = 1 /\ before = <<>>, ks[i], arg(ks[i]))])

\* The variable that setoptions() builds begins with its own name.
Name == 1

Program == optindex <= Len(line)

\* What main() does when it has read its options: it says how to use it, shows the
\* environment, or runs the program.
Launch ==
    /\ phase = "read"
    /\ LET wrong == \/ given.wrong
                    \/ ~Program /\ given.own \cap {"VERSION", "HELP", "SHOWENV"} = {}
           told == ~Program \/ wrong \/ given.own \cap {"HELP", "SHOWENV"} # {}
       IN  \E text \in {Environment} :
           LET tooLong == Len(text) + Name >= ENVMAX
               fails == wrong \/ (tooLong /\ (told => "SHOWENV" \in given.own))
           IN  /\ phase' = IF fails THEN "failed" ELSE IF told THEN "told" ELSE "program"
               /\ IF fails \/ told THEN UNCHANGED <<env, optionVars>>
                  ELSE env' = text /\ ReadEnvironment(text)
    /\ UNCHANGED <<line, outer, optindex, rest, given, asked>>

\* The program is run without the command.
RunAlone ==
    /\ phase = "alone"
    /\ phase' = "program" /\ env' = outer
    /\ ReadEnvironment(outer)
    /\ UNCHANGED <<line, outer, optindex, rest, given, asked>>

RunProgram ==
    /\ phase = "program"
    /\ ParseOption \/ Start(env) \/ SetOptions
    /\ UNCHANGED commandVars

Init ==
    /\ OptionsInit
    /\ \E s \in SITUATIONS : line = s[1] /\ outer = s[2]
    /\ optindex = 0 /\ rest = None /\ given = Nothing /\ asked = <<>>
    /\ env = <<>>
    /\ phase = "options" \/ (line = <<>> /\ phase = "alone")

Next == ReadOption \/ Launch \/ RunAlone \/ RunProgram

Spec == Init /\ [][Next]_vars

-----------------------------------------------------------------------------
Asked == {asked[i][1] : i \in 1..Len(asked)}
LastArg(k) == asked[CHOOSE i \in 1..Len(asked) :
                        asked[i][1] = k /\ \A j \in i + 1..Len(asked) : asked[j][1] # k][2]

\* The last option asked for of some that stand for the same setting, or none.
LastOf(ks) == LET is == {i \in 1..Len(asked) : asked[i][1] \in ks}
              IN  IF is = {} THEN "none"
                  ELSE asked[CHOOSE i \in is : \A j \in is : j <= i][1]

Simple == {"ALLOCBYTE", "ALLOCSTOP", "AUTOSAVE", "FAILFREQ", "FREEBYTE", "FREESTOP",
           "LIMIT", "NOFREE", "OFLOWBYTE", "REALLOCSTOP", "UNFREEDABORT"}
Files == {"LOGFILE", "PROFFILE", "PROGFILE", "TRACEFILE"}
Fits(k) == /\ IsNumber(LastArg(k))
           /\ k \in {"ALLOCBYTE", "FREEBYTE", "OFLOWBYTE"} => NumberOf(LastArg(k)) <= 255

WantedFlags ==
    (Asked \cap (Plain \ {"HTML"})) \cup UNION {AllOf[k] : k \in Asked \cap DOMAIN AllOf}
        \cup (IF "HTML" \in Asked THEN {"HTML"} ELSE {})
        \cup ({LastOf({"EDIT", "LIST"})} \ {"none"})
        \cup (CASE LastOf({"PAGEALLOCLOWER", "PAGEALLOCUPPER"}) = "none" -> {}
                [] LastOf({"PAGEALLOCLOWER", "PAGEALLOCUPPER"}) = "PAGEALLOCLOWER"
                      -> {"PAGEALLOC"}
                [] OTHER -> {"PAGEALLOC", "ALLOCUPPER"})
        \cup (IF "LEAKTABLE" \in Asked THEN {"leaks traced"} ELSE {})
        \cup (IF "NOFREE" \in Asked /\ Fits("NOFREE") /\ NumberOf(LastArg("NOFREE")) > 0
              THEN {"NOFREE"} ELSE {})

\* The indices at which a range l-u, in which either may be missing, asks for checks.
InRange(a, n) ==
    LET p == RangeParts(a)
        l == IF p.l = <<>> THEN 0 ELSE NumberOf(p.l)
    IN  IF p.single THEN n = l /\ l # 0
        ELSE l <= n /\ (p.u = <<>> \/ n <= NumberOf(p.u))

\* The library that the command starts does what the command was asked to: flags are
\* set that were asked for and no others, of options that were given twice the last
\* counts, numbers that fit arrive and those that do not leave the setting as it was
\* and are reported, names of files arrive whole whatever blanks they have, and the
\* heap is checked in the range that was given.
LibraryIsAsAsked ==
    running /\ changes = 0 /\ line # <<>> /\ ~("READENV" \in Asked) =>
    /\ lib.flags = WantedFlags
    /\ \A k \in Simple : lib.val[k] = IF k \in Asked /\ Fits(k) THEN NumberOf(LastArg(k))
                                      ELSE Defaults.val[k]
    /\ \A k \in Files : k \in Asked => lib.file[k] = LastArg(k)
    /\ \A k \in Simple \cap Asked : ~Fits(k) => \E r \in reported : r[2] = <<k>>
    /\ \A r \in reported : r[2] # <<>> /\ r[2][1] \in Asked
    /\ "CHECK" \in Asked /\ <<"BADRANGE", <<"CHECK">>>> \notin reported =>
           \A n \in 1..8 : ChecksHeap(lib, n) <=> InRange(LastArg("CHECK"), n)

Tokens(words) ==
    FlattenSeq([i \in 1..Len(words) |-> SelectSeq(words[i], LAMBDA t : t \notin {"-", "--", "="})])

\* __mp_getopt() drops nothing and makes nothing up: the options that it has given,
\* with their arguments, are the words that it has gone past, in order.
EveryWordCounts ==
    phase # "options" /\ "?" \notin Asked =>
        Tokens(SubSeq(line, 1, optindex - 1)) =
            Tokens([i \in 1..Len(asked) |->
                <<asked[i][1]>> \o (IF asked[i][2] = None THEN <<>> ELSE asked[i][2])])

\* Both: the command obeys what it is given, all of it.
CommandObeys == LibraryIsAsAsked /\ EveryWordCounts

\* "... will be placed before any of the options resulting from mpatrol command line
\* options so that they can be overridden" (doc/mpatrol.texi:10471): blocks are at
\* the lower end of their pages if the command was asked for that.
EnvironmentIsOverridden ==
    [](running /\ changes = 0 /\ LastOf({"PAGEALLOCLOWER", "PAGEALLOCUPPER"}) = "PAGEALLOCLOWER"
       => "ALLOCUPPER" \notin lib.flags)
=============================================================================
