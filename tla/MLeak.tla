-------------------------------- MODULE MLeak --------------------------------
(***************************************************************************)
(* The allocations in the log file and the mleak command that reads them   *)
(* (__mp_log() in src/diag.c, the log lines of src/info.c, src/mleak.c).   *)
(* The log is a sequence of paragraphs; the details of a block, its index  *)
(* above all, follow a line that says what is done to it.                  *)
(***************************************************************************)
EXTENDS Integers, Sequences, SequencesExt

VARIABLE log      \* the options and the paragraphs of the log file

LogInit(options) == log = [options |-> options, lines |-> <<>>, split |-> FALSE]

AllocLine(n, l, a) == [kind |-> "ALLOC", index |-> n, size |-> l, addr |-> a]
ReallocLine(a, l) == [kind |-> "REALLOC", addr |-> a, size |-> l]
(* the details follow only when the block may be freed *)
FreeLine(a, n) == [kind |-> "FREE", addr |-> a, index |-> n]
UnfreedList(s) == [kind |-> "unfreed", list |-> s]

If(b, line) == IF b THEN <<line>> ELSE <<>>
(* Within one call __mp_log() writes a line once: a call that is carried   *)
(* out as another one is logged as the first of them only.                 *)
LogAlloc(n, l, a) ==
  log' = [log EXCEPT !.lines = @ \o If(log.options.allocs, AllocLine(n, l, a))]
LogFree(a, n) ==
  log' = [log EXCEPT !.lines = @ \o If(log.options.frees, FreeLine(a, n))]
LogRealloc(a, l) ==
  log' = [log EXCEPT !.lines = @ \o If(log.options.reallocs, ReallocLine(a, l))]
(* realloc(NULL, l) and realloc(a, 0) *)
LogReallocAsAlloc(n, l, a) ==
  log' = [log EXCEPT !.lines = @ \o
            IF log.options.reallocs THEN <<ReallocLine(0, l)>>
            ELSE If(log.options.allocs, AllocLine(n, l, a))]
LogReallocAsFree(a, n) ==
  log' = [log EXCEPT !.lines = @ \o
            IF log.options.reallocs THEN <<ReallocLine(a, 0)>>
            ELSE If(log.options.frees, FreeLine(a, n))]
(* SHOWUNFREED at the end of the program *)
LogUnfreed(s) ==
  log' = [log EXCEPT !.lines =
            @ \o If(log.options.unfreed /\ s # <<>>, UnfreedList(s))]
(* a forked process starts a file of its own *)
LogSplit == log' = [log EXCEPT !.lines = <<>>, !.split = TRUE]

(* newalloc() and freealloc() *)
Entry(n, a, l) == [index |-> n, addr |-> a, size |-> l]
Listed(t, n) == \E e \in t : e.index = n
Unlisted(t, n) == {e \in t : e.index # n}

(* readfile() of the mleak command: failed allocations and frees in error  *)
(* are passed over, lines that say REALLOC are not looked at.              *)
MLeakLine(t, x, ignorelist) ==
  CASE x.kind = "ALLOC" /\ x.addr # 0 -> t \cup {Entry(x.index, x.addr, x.size)}
    [] x.kind = "FREE" /\ x.addr # 0 -> Unlisted(t, x.index)
    [] x.kind = "unfreed" /\ ~ignorelist ->
         t \cup {e \in {x.list[i] : i \in DOMAIN x.list} : ~Listed(t, e.index)}
    [] OTHER -> t
(* What a mistake in this code would look like *)
Bug_MLeakReads(lines, ignorelist) ==
  {Entry(lines[i].index, lines[i].addr, lines[i].size) :
     i \in {j \in DOMAIN lines : lines[j].kind = "ALLOC"}}
MLeakReads(lines, ignorelist) ==
  FoldLeft(LAMBDA t, x : MLeakLine(t, x, ignorelist), {}, lines)
=============================================================================
