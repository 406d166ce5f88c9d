-------------------------- MODULE ProtectionProofs --------------------------
(***************************************************************************)
(* Proofs about the protection of the library's tables, for tables of any  *)
(* number of blocks, calls nested to any depth and any number of refusals. *)
(***************************************************************************)
EXTENDS Protection, SequenceTheorems, TLAPS

Tab == [prot : {"none", "ro", "rw"}, recur : Nat, areas : Seq({"ro", "rw"})]

AllAre(t, a) == \A i \in 1..Len(t.areas) : t.areas[i] = a

\* A table that is not closed may be written; only one that is open has a count.
Loose(t) == t \in Tab /\ (t.prot # "ro" => AllAre(t, "rw")) /\ (t.prot # "rw" => t.recur = 0)

\* Open with no count, as after a request that found it closed.
Wide(t) == t \in Tab /\ t.prot = "rw" /\ t.recur = 0 /\ AllAre(t, "rw")

\* What is closed is closed for as long as it is the only one to know: a table may
\* stay open while the whole counts as closed, never the reverse.
SafeInv(g, s) ==
    /\ g \in [Tables -> Tab] /\ \A p \in Tables : Loose(g[p])
    /\ g["info"].prot \in {"ro", "rw"} /\ g["info"].recur = 0
    /\ s => /\ g["symbols"].prot = "ro" /\ g["strtab"].prot = "ro"
            /\ g["info"].prot = "rw" => \A p \in OfInfo : g[p].prot = "rw"
    /\ ~s => \A p \in Tables : g[p].prot = IF p = "info" THEN "rw" ELSE "none"

\* If nothing is refused, all is either closed or open.
ExactInv(g, s, o) ==
    /\ g \in [Tables -> Tab]
    /\ s => /\ Shut(g["symbols"]) /\ Shut(g["strtab"])
            /\ \/ \A p \in OfInfo : Shut(g[p])
               \/ o /\ \A p \in OfInfo : Wide(g[p])
    /\ ~s => \A p \in Tables :
                 /\ g[p].prot = IF p = "info" THEN "rw" ELSE "none"
                 /\ g[p].recur = 0 /\ AllAre(g[p], "rw")

OpenInv == started \in BOOLEAN /\ SafeInv(guard, started) /\ WritesAllowed

CountedInv ==
    /\ started \in BOOLEAN /\ leftOpen \in BOOLEAN /\ refusals \in Nat
    /\ refusals = 0 => ExactInv(guard, started, leftOpen)

-----------------------------------------------------------------------------
(***************************************************************************)
(* One table                                                               *)
(***************************************************************************)
LEMMA ChangedIs ==
  ASSUME NEW t \in Tab, NEW a \in {"ro", "rw"}, NEW n \in 0..Len(t.areas)
  PROVE  /\ Changed(t, a, n) \in Tab
         /\ Changed(t, a, n).prot = a /\ Changed(t, a, n).recur = t.recur
         /\ n = Len(t.areas) => AllAre(Changed(t, a, n), a)
<1> DEFINE f == [i \in 1..Len(t.areas) |-> IF i <= n THEN a ELSE t.areas[i]]
<1>1. t.areas \in Seq({"ro", "rw"}) /\ t.recur \in Nat
  BY DEF Tab
<1>2. Len(t.areas) \in Nat /\ \A i \in 1..Len(t.areas) : t.areas[i] \in {"ro", "rw"}
  BY <1>1, ElementOfSeq
<1>3. f \in Seq({"ro", "rw"}) /\ Len(f) = Len(t.areas)
  BY <1>2
<1>4. n = Len(t.areas) => \A i \in 1..Len(f) : f[i] = a
  BY <1>2, <1>3
<1> HIDE DEF f
<1>5. Changed(t, a, n) = [t EXCEPT !.prot = a, !.areas = f]
  BY DEF Changed, f
<1>6. Changed(t, a, n) = [prot |-> a, recur |-> t.recur, areas |-> f]
  BY <1>5 DEF Tab
<1> QED BY <1>1, <1>3, <1>4, <1>6 DEF Tab, AllAre

LEMMA OpenedLoose ==
  ASSUME NEW t, Loose(t)
  PROVE  LET u == Turned(t, "rw")
         IN  /\ Loose(u) /\ u.prot = "rw"
             /\ t.prot # "rw" => u.recur = 0
             /\ t.prot = "rw" => u.recur = t.recur + 1
<1>1. t \in Tab /\ t.recur \in Nat /\ Len(t.areas) \in Nat
  BY LenProperties DEF Loose, Tab
<1>2. CASE t.prot = "rw"
  <2>1. Turned(t, "rw") = [t EXCEPT !.recur = t.recur + 1]
    BY <1>2 DEF Turned
  <2>2. Turned(t, "rw") = [prot |-> "rw", recur |-> t.recur + 1, areas |-> t.areas]
    BY <1>1, <1>2, <2>1 DEF Tab
  <2> QED BY <1>1, <1>2, <2>2 DEF Loose, Tab, AllAre
<1>3. CASE t.prot # "rw"
  <2>1. t.recur = 0
    BY <1>3 DEF Loose
  <2>2. Turned(t, "rw") = Changed(t, "rw", Len(t.areas))
    BY <1>3, <2>1 DEF Turned
  <2>3. Len(t.areas) \in 0..Len(t.areas)
    BY <1>1
  <2> QED BY <1>1, <1>3, <2>1, <2>2, <2>3, ChangedIs DEF Loose
<1> QED BY <1>2, <1>3

LEMMA ClosedLoose ==
  ASSUME NEW t, Loose(t), t.prot # "ro"
  PROVE  LET u == Turned(t, "ro")
         IN  /\ Loose(u)
             /\ t.recur = 0 => u.prot = "ro" /\ u.recur = 0
             /\ t.recur > 0 => u.prot = "rw" /\ u.recur = t.recur - 1
<1>1. t \in Tab /\ t.recur \in Nat /\ Len(t.areas) \in Nat
  BY LenProperties DEF Loose, Tab
<1>2. CASE t.recur > 0
  <2>1. Turned(t, "ro") = [t EXCEPT !.recur = t.recur - 1] /\ t.prot = "rw"
    BY <1>1, <1>2 DEF Turned, Loose
  <2>2. Turned(t, "ro") = [prot |-> "rw", recur |-> t.recur - 1, areas |-> t.areas]
    BY <1>1, <1>2, <2>1 DEF Tab
  <2> QED BY <1>1, <1>2, <2>1, <2>2 DEF Loose, Tab, AllAre
<1>3. CASE t.recur = 0
  <2>2. Turned(t, "ro") = Changed(t, "ro", Len(t.areas))
    BY <1>3 DEF Turned
  <2>3. Len(t.areas) \in 0..Len(t.areas)
    BY <1>1
  <2> QED BY <1>1, <1>3, <2>2, <2>3, ChangedIs DEF Loose
<1> QED BY <1>1, <1>2, <1>3

LEMMA StuckLoose ==
  ASSUME NEW t, Loose(t), NEW u \in Stuck(t, "ro")
  PROVE  Loose(u) /\ u.prot = "ro" /\ u.recur = 0 /\ t.recur = 0
<1>1. t \in Tab /\ t.recur = 0 /\ Len(t.areas) \in Nat
  BY LenProperties DEF Loose, Tab, Stuck
<1>2. PICK n \in 0..(Len(t.areas) - 1) : u = Changed(t, "ro", n)
  BY DEF Stuck
<1>3. n \in 0..Len(t.areas)
  BY <1>1
<1> QED BY <1>1, <1>2, <1>3, ChangedIs DEF Loose

\* Another block, writable as it comes, is no more than an open table expects.
LEMMA Extended ==
  ASSUME NEW t \in Tab, AllAre(t, "rw"), NEW u, u = [t EXCEPT !.areas = Append(t.areas, "rw")]
  PROVE  u \in Tab /\ u.prot = t.prot /\ u.recur = t.recur /\ AllAre(u, "rw")
<1>1. t.areas \in Seq({"ro", "rw"}) /\ t.recur \in Nat /\ Len(t.areas) \in Nat
  BY LenProperties DEF Tab
<1>2. /\ Append(t.areas, "rw") \in Seq({"ro", "rw"})
      /\ Len(Append(t.areas, "rw")) = Len(t.areas) + 1
      /\ \A i \in 1..Len(t.areas) + 1 :
           Append(t.areas, "rw")[i] = IF i <= Len(t.areas) THEN t.areas[i] ELSE "rw"
  BY <1>1, AppendProperties
<1>3. PICK more : more = Append(t.areas, "rw")
  OBVIOUS
<1>4. u = [t EXCEPT !.areas = more]
  BY <1>3
<1>5. u \in Tab /\ u.prot = t.prot /\ u.recur = t.recur /\ u.areas = more
  BY <1>2, <1>3, <1>4 DEF Tab
<1>6. \A i \in 1..Len(t.areas) : t.areas[i] = "rw"
  BY DEF AllAre
<1>7. Len(more) = Len(t.areas) + 1 /\ \A i \in 1..Len(more) : more[i] = "rw"
  BY <1>1, <1>2, <1>3, <1>6
<1> QED BY <1>5, <1>7 DEF AllAre

LEMMA WideOpened ==
  ASSUME NEW t \in Tab, Shut(t)
  PROVE  Wide(Turned(t, "rw"))
<1>1. Len(t.areas) \in 0..Len(t.areas)
  BY LenProperties DEF Tab
<1>2. Turned(t, "rw") = Changed(t, "rw", Len(t.areas)) /\ t.recur = 0
  BY DEF Turned, Shut
<1> QED BY <1>1, <1>2, ChangedIs DEF Wide

LEMMA WideClosed ==
  ASSUME NEW t \in Tab, t.prot # "ro", t.recur = 0
  PROVE  Turned(t, "ro") \in Tab /\ Shut(Turned(t, "ro"))
<1>1. Len(t.areas) \in 0..Len(t.areas)
  BY LenProperties DEF Tab
<1>2. Turned(t, "ro") = Changed(t, "ro", Len(t.areas))
  BY DEF Turned
<1> QED BY <1>1, <1>2, ChangedIs DEF Shut, AllAre

LEMMA WideCounted ==
  ASSUME NEW t \in Tab, Wide(t)
  PROVE  LET u == Turned(t, "rw")
         IN  u \in Tab /\ u.prot = "rw" /\ u.recur = 1 /\ AllAre(u, "rw")
<1>1. Turned(t, "rw") = [prot |-> "rw", recur |-> 1, areas |-> t.areas]
  BY DEF Turned, Wide, Tab
<1> QED BY <1>1 DEF Wide, Tab, AllAre

LEMMA CountedClosed ==
  ASSUME NEW t \in Tab, t.prot = "rw", t.recur = 1, AllAre(t, "rw")
  PROVE  Wide(Turned(t, "ro"))
<1>1. Turned(t, "ro") = [prot |-> "rw", recur |-> 0, areas |-> t.areas]
  BY DEF Turned, Tab
<1> QED BY <1>1 DEF Wide, Tab, AllAre

-----------------------------------------------------------------------------
(***************************************************************************)
(* All tables, when the system may refuse to close them                    *)
(***************************************************************************)
LEMMA InfoIsFirst == \A p \in OfInfo : p # "info" => "info" \in Earlier(p)
<1>1. \A p \in OfInfo : \E i \in 1..6 : InfoTables[i] = p
  BY DEF OfInfo, InfoTables
<1>2. Len(InfoTables) = 6
  BY DEF InfoTables
<1>3. \A p \in OfInfo : Position[p] \in 1..6 /\ InfoTables[Position[p]] = p
  BY <1>1, <1>2 DEF Position
<1>4. InfoTables[1] = "info" /\ \A i \in 2..6 : InfoTables[i] # "info"
  BY DEF InfoTables
<1>5. "info" \in OfInfo
  BY DEF OfInfo
<1>6. Position["info"] = 1
  BY <1>3, <1>4, <1>5
<1> SUFFICES ASSUME NEW p \in OfInfo, p # "info"
             PROVE  Position["info"] < Position[p]
  BY <1>5 DEF Earlier
<1> QED BY <1>3, <1>4, <1>6

LEMMA NothingRefused ==
  ASSUME NEW g, "rw" \notin REFUSED
  PROVE  /\ All(g, "rw") = {AllDone(g, "rw")}
         /\ \A p \in Tables : One(g, p, "rw") = {OneDone(g, p, "rw")}
<1>1. \A t : Stuck(t, "rw") = {}
  BY DEF Stuck
<1>2. \A p \in Tables : One(g, p, "rw") = {OneDone(g, p, "rw")}
  BY <1>1 DEF One
<1>3. All(g, "rw") = {AllDone(g, "rw")}
  BY <1>1 DEF All
<1> QED BY <1>2, <1>3

LEMMA OneIs ==
  ASSUME NEW g \in [Tables -> Tab], NEW p \in Tables, NEW a, NEW h \in One(g, p, a)
  PROVE  /\ h = [g EXCEPT ![p] = h[p]]
         /\ h[p] = Turned(g[p], a) \/ h[p] \in Stuck(g[p], a)
         /\ \A q \in Tables : q # p => h[q] = g[q]
<1>1. CASE h = OneDone(g, p, a)
  BY <1>1 DEF OneDone
<1>2. CASE \E t \in Stuck(g[p], a) : h = [g EXCEPT ![p] = t]
  BY <1>2
<1> QED BY <1>1, <1>2 DEF One

LEMMA AllIs ==
  ASSUME NEW g \in [Tables -> Tab], NEW a, g["info"].prot # a, NEW h \in All(g, a)
  PROVE  /\ h = [p \in Tables |-> h[p]]
         /\ \A p \in Tables : p \notin OfInfo => h[p] = g[p]
         /\ \A p \in OfInfo : h[p] \in {Turned(g[p], a), g[p]} \cup Stuck(g[p], a)
         /\ h["info"] \in {Turned(g["info"], a)} \cup Stuck(g["info"], a)
<1>0. OfInfo \subseteq Tables /\ "info" \in OfInfo
  BY DEF OfInfo, Tables
<1>1. CASE h = AllDone(g, a)
  BY <1>0, <1>1 DEF AllDone
<1>2. ASSUME NEW p \in OfInfo, NEW t \in Stuck(g[p], a),
             h = [q \in Tables |-> IF q \in Earlier(p) THEN Turned(g[q], a)
                                   ELSE IF q = p THEN t ELSE g[q]]
      PROVE  /\ h = [q \in Tables |-> h[q]]
             /\ \A q \in Tables : q \notin OfInfo => h[q] = g[q]
             /\ \A q \in OfInfo : h[q] \in {Turned(g[q], a), g[q]} \cup Stuck(g[q], a)
             /\ h["info"] \in {Turned(g["info"], a)} \cup Stuck(g["info"], a)
  <2>1. Earlier(p) \subseteq OfInfo
    BY DEF Earlier
  <2>2. h["info"] \in {Turned(g["info"], a)} \cup Stuck(g["info"], a)
    BY <1>0, <1>2, InfoIsFirst
  <2> QED BY <1>0, <1>2, <2>1, <2>2
<1> QED BY <1>1, <1>2 DEF All

LEMMA AllOpened ==
  ASSUME NEW s \in BOOLEAN, NEW g, SafeInv(g, s), NEW h, h = AllDone(g, "rw")
  PROVE  /\ SafeInv(h, s) /\ h["info"].prot = "rw"
         /\ \A p \in OfInfo : AllAre(h[p], "rw")
         /\ s => \A p \in OfInfo : h[p].prot = "rw"
         /\ h["symbols"] = g["symbols"] /\ h["strtab"] = g["strtab"]
<1>0. /\ OfInfo \subseteq Tables /\ "info" \in OfInfo
      /\ \A p \in {"symbols", "strtab"} : p \in Tables \ OfInfo
  BY DEF OfInfo, Tables
<1>1. CASE g["info"].prot = "rw"
  <2>1. h = g
    BY <1>1 DEF AllDone
  <2>2. \A p \in OfInfo : g[p].prot # "ro"
    BY <1>0, <1>1 DEF SafeInv
  <2> QED BY <1>0, <1>1, <2>1, <2>2 DEF SafeInv, Loose
<1>2. CASE g["info"].prot = "ro"
  <2>1. h = [p \in Tables |-> IF p \in OfInfo THEN Turned(g[p], "rw") ELSE g[p]]
    BY <1>2 DEF AllDone
  <2>2. \A p \in OfInfo : Loose(h[p]) /\ h[p].prot = "rw"
    BY <1>0, <2>1, OpenedLoose DEF SafeInv
  <2>3. h["info"].recur = 0
    BY <1>0, <1>2, <2>1, OpenedLoose DEF SafeInv
  <2>4. s
    BY <1>0, <1>2 DEF SafeInv
  <2>5. h \in [Tables -> Tab] /\ \A p \in Tables : Loose(h[p])
    BY <1>0, <2>1, <2>2 DEF SafeInv, Loose
  <2>6. h["symbols"] = g["symbols"] /\ h["strtab"] = g["strtab"]
    BY <1>0, <2>1
  <2> QED BY <1>0, <2>2, <2>3, <2>4, <2>5, <2>6 DEF SafeInv, Loose
<1> QED BY <1>1, <1>2 DEF SafeInv

LEMMA AllClosed ==
  ASSUME NEW g \in [Tables -> Tab], \A p \in Tables : Loose(g[p]),
         \A p \in OfInfo : g[p].prot # "ro", g["info"].prot = "rw", g["info"].recur = 0,
         g["symbols"].prot = "ro", g["strtab"].prot = "ro", NEW h \in All(g, "ro")
  PROVE  SafeInv(h, TRUE)
<1>0. /\ OfInfo \subseteq Tables /\ "info" \in OfInfo
      /\ \A p \in {"symbols", "strtab"} : p \in Tables \ OfInfo
  BY DEF OfInfo, Tables
<1>1. /\ h = [p \in Tables |-> h[p]]
      /\ \A p \in Tables : p \notin OfInfo => h[p] = g[p]
      /\ \A p \in OfInfo : h[p] \in {Turned(g[p], "ro"), g[p]} \cup Stuck(g[p], "ro")
      /\ h["info"] \in {Turned(g["info"], "ro")} \cup Stuck(g["info"], "ro")
  BY AllIs
<1>2. \A p \in OfInfo : Loose(h[p])
  BY <1>0, <1>1, ClosedLoose, StuckLoose
<1>3. h["info"].prot = "ro" /\ h["info"].recur = 0
  BY <1>0, <1>1, ClosedLoose, StuckLoose
<1>4. \A p \in Tables : Loose(h[p])
  BY <1>1, <1>2
<1>5. h \in [Tables -> Tab]
  BY <1>1, <1>4 DEF Loose
<1> QED BY <1>0, <1>1, <1>3, <1>4, <1>5 DEF SafeInv

LEMMA GrownIs ==
  ASSUME NEW g \in [Tables -> Tab], NEW S \in SUBSET Tables, NEW h \in Grown(g, S),
         \A p \in S : AllAre(g[p], "rw")
  PROVE  /\ h \in [Tables -> Tab]
         /\ \A p \in Tables : h[p].prot = g[p].prot /\ h[p].recur = g[p].recur
         /\ \A p \in Tables \ S : h[p] = g[p]
         /\ \A p \in S : AllAre(h[p], "rw")
<1>1. CASE h = g
  BY <1>1
<1>2. ASSUME NEW p \in S, h = [g EXCEPT ![p].areas = Append(g[p].areas, "rw")]
      PROVE  /\ h \in [Tables -> Tab]
             /\ \A q \in Tables : h[q].prot = g[q].prot /\ h[q].recur = g[q].recur
             /\ \A q \in Tables \ S : h[q] = g[q]
             /\ \A q \in S : AllAre(h[q], "rw")
  <2> DEFINE u == [g[p] EXCEPT !.areas = Append(g[p].areas, "rw")]
  <2>1. u \in Tab /\ u.prot = g[p].prot /\ u.recur = g[p].recur /\ AllAre(u, "rw")
    BY Extended
  <2> HIDE DEF u
  <2>2. h = [g EXCEPT ![p] = u]
    BY <1>2 DEF u
  <2> QED BY <2>1, <2>2
<1> QED BY <1>1, <1>2 DEF Grown

\* One table is opened, gets what it gets, and is closed: the rest does not notice.
LEMMA OneUsed ==
  ASSUME NEW g, SafeInv(g, TRUE), NEW p \in Tables, p # "info", "rw" \notin REFUSED,
         NEW o \in One(g, p, "rw"), NEW h \in [Tables -> Tab],
         \A q \in Tables : q # p => h[q] = o[q],
         h[p].prot = o[p].prot, h[p].recur = o[p].recur,
         AllAre(o[p], "rw") => AllAre(h[p], "rw"), NEW c \in One(h, p, "ro")
  PROVE  /\ AllAre(o[p], "rw") /\ SafeInv(c, TRUE)
         /\ \A q \in Tables : q # p => c[q] = g[q]
<1>0. /\ g \in [Tables -> Tab] /\ Loose(g[p]) /\ "info" \in Tables
      /\ OfInfo \subseteq Tables /\ "symbols" \in Tables /\ "strtab" \in Tables
  BY DEF SafeInv, OfInfo, Tables
<1>1. o = [g EXCEPT ![p] = Turned(g[p], "rw")]
  BY NothingRefused DEF OneDone
<1>2. o[p] = Turned(g[p], "rw") /\ \A q \in Tables : q # p => o[q] = g[q]
  BY <1>0, <1>1
<1>3. /\ Loose(o[p]) /\ o[p].prot = "rw"
      /\ g[p].prot # "rw" => o[p].recur = 0
      /\ g[p].prot = "rw" => o[p].recur = g[p].recur + 1
  BY <1>0, <1>2, OpenedLoose
<1>4. AllAre(o[p], "rw") /\ Loose(h[p]) /\ h[p].prot = "rw" /\ h[p].prot # "ro"
  BY <1>3 DEF Loose
<1>5. /\ c = [h EXCEPT ![p] = c[p]]
      /\ c[p] = Turned(h[p], "ro") \/ c[p] \in Stuck(h[p], "ro")
      /\ \A q \in Tables : q # p => c[q] = h[q]
  BY OneIs
<1>6. g[p].recur \in Nat
  BY <1>0 DEF Loose, Tab
<1>7. Loose(c[p]) /\ (g[p].prot = "rw" => c[p].prot = "rw")
                  /\ (g[p].prot # "rw" => c[p].prot = "ro")
  <2>1. CASE g[p].prot = "rw"
    <3>1. h[p].recur > 0 /\ h[p].recur # 0
      BY <1>3, <1>6, <2>1
    <3>2. c[p] = Turned(h[p], "ro")
      BY <1>4, <1>5, <3>1, StuckLoose
    <3> QED BY <1>4, <2>1, <3>1, <3>2, ClosedLoose
  <2>2. CASE g[p].prot # "rw"
    <3>1. h[p].recur = 0
      BY <1>3, <2>2
    <3> QED BY <1>4, <1>5, <2>2, <3>1, ClosedLoose, StuckLoose
  <2> QED BY <2>1, <2>2
<1>8. \A q \in Tables : q # p => c[q] = g[q]
  BY <1>2, <1>5
<1>9. c \in [Tables -> Tab] /\ \A q \in Tables : Loose(c[q])
  BY <1>0, <1>5, <1>7, <1>8 DEF SafeInv, Loose
<1>10. c["info"] = g["info"]
  BY <1>0, <1>8
<1>11. c["symbols"].prot = "ro" /\ c["strtab"].prot = "ro"
  BY <1>0, <1>7, <1>8 DEF SafeInv
<1>12. c["info"].prot = "rw" => \A q \in OfInfo : c[q].prot = "rw"
  BY <1>0, <1>7, <1>8, <1>10 DEF SafeInv
<1> QED BY <1>0, <1>4, <1>8, <1>9, <1>10, <1>11, <1>12 DEF SafeInv

LEMMA UseAllSafe ==
  ASSUME OpenInv, "rw" \notin REFUSED, NEW closes \in BOOLEAN, closes => started,
         UseAll(closes)
  PROVE  OpenInv'
<1>0. /\ OfInfo \subseteq Tables /\ "info" \in OfInfo
      /\ \A p \in {"symbols", "strtab"} : p \in Tables \ OfInfo
      /\ \A p \in Tables : p \in OfInfo \/ p \in {"symbols", "strtab"}
  BY DEF OfInfo, Tables
<1>1. PICK opened \in All(guard, "rw"), saves \in {FALSE, started} :
      \E grown \in Grown(opened, OfInfo) :
      \E during \in IF saves THEN One(grown, "symbols", "rw") ELSE {grown} :
      \E after \in IF saves THEN One(during, "symbols", "ro") ELSE {during} :
      \E closed \in IF closes THEN All(after, "ro") ELSE {after} :
        Afterwards(opened, saves, grown, during, after, closes, closed)
  BY DEF UseAll
<1>2. PICK grown \in Grown(opened, OfInfo) :
      \E during \in IF saves THEN One(grown, "symbols", "rw") ELSE {grown} :
      \E after \in IF saves THEN One(during, "symbols", "ro") ELSE {during} :
      \E closed \in IF closes THEN All(after, "ro") ELSE {after} :
        Afterwards(opened, saves, grown, during, after, closes, closed)
  BY <1>1
<1>3. PICK during \in IF saves THEN One(grown, "symbols", "rw") ELSE {grown} :
      \E after \in IF saves THEN One(during, "symbols", "ro") ELSE {during} :
      \E closed \in IF closes THEN All(after, "ro") ELSE {after} :
        Afterwards(opened, saves, grown, during, after, closes, closed)
  BY <1>2
<1>a. PICK after \in IF saves THEN One(during, "symbols", "ro") ELSE {during} :
      \E closed \in IF closes THEN All(after, "ro") ELSE {after} :
        Afterwards(opened, saves, grown, during, after, closes, closed)
  BY <1>3
<1>4. /\ guard' \in IF closes THEN All(after, "ro") ELSE {after}
      /\ faulted' = ~(Open(opened, OfInfo) /\ (saves => Open(during, {"symbols"})))
  BY <1>a DEF Afterwards
<1>5. started' = started /\ started \in BOOLEAN /\ SafeInv(guard, started)
  BY DEF UseAll, OpenInv
<1>6. opened = AllDone(guard, "rw")
  BY NothingRefused
<1>7. /\ SafeInv(opened, started) /\ opened["info"].prot = "rw"
      /\ \A p \in OfInfo : AllAre(opened[p], "rw")
      /\ started => \A p \in OfInfo : opened[p].prot = "rw"
  BY <1>5, <1>6, AllOpened
<1>8. opened \in [Tables -> Tab]
  BY <1>7 DEF SafeInv
<1>9. /\ grown \in [Tables -> Tab]
      /\ \A p \in Tables : grown[p].prot = opened[p].prot /\ grown[p].recur = opened[p].recur
      /\ \A p \in Tables \ OfInfo : grown[p] = opened[p]
      /\ \A p \in OfInfo : AllAre(grown[p], "rw")
  BY <1>0, <1>7, <1>8, GrownIs
<1>10. SafeInv(grown, started)
  <2>1. \A p \in Tables : Loose(grown[p])
    BY <1>7, <1>9 DEF SafeInv, Loose
  <2> QED BY <1>0, <1>7, <1>9, <2>1 DEF SafeInv
<1>11. /\ SafeInv(after, started)
       /\ \A p \in OfInfo : after[p] = grown[p]
       /\ saves => AllAre(during["symbols"], "rw")
  <2>1. CASE saves
    <3>1. started /\ SafeInv(grown, TRUE)
      BY <1>1, <1>10, <2>1
    <3>2. during \in One(grown, "symbols", "rw") /\ after \in One(during, "symbols", "ro")
      BY <1>3, <1>4, <2>1
    <3>3. during \in [Tables -> Tab]
      <4>0. "symbols" \in Tables
        BY <1>0
      <4>1. during = OneDone(grown, "symbols", "rw")
        BY <3>2, <4>0, NothingRefused
      <4>2. Loose(grown["symbols"])
        BY <1>0, <1>10 DEF SafeInv
      <4>3. Turned(grown["symbols"], "rw") \in Tab
        BY <4>2, OpenedLoose DEF Loose
      <4> QED BY <1>9, <4>1, <4>3 DEF OneDone
    <3>4. "symbols" \in Tables /\ "symbols" # "info"
      BY <1>0
    <3>5. /\ AllAre(during["symbols"], "rw") /\ SafeInv(after, TRUE)
          /\ \A q \in Tables : q # "symbols" => after[q] = grown[q]
      BY <3>1, <3>2, <3>3, <3>4, OneUsed
    <3> QED BY <1>0, <3>1, <3>5
  <2>2. CASE ~saves
    BY <1>3, <1>4, <1>10, <2>2
  <2> QED BY <2>1, <2>2
<1>12. ~faulted'
  <2>1. Open(opened, OfInfo)
    BY <1>7 DEF Open, AllAre
  <2>2. saves => Open(during, {"symbols"})
    BY <1>11 DEF Open, AllAre
  <2> QED BY <1>4, <2>1, <2>2
<1>13. SafeInv(guard', started)
  <2>1. CASE closes
    <3>1. started
      BY <2>1
    <3>2. guard' \in All(after, "ro")
      BY <1>4, <2>1
    <3>3. \A p \in OfInfo : after[p].prot = "rw" /\ after[p].prot # "ro"
      BY <1>0, <1>7, <1>9, <1>11, <3>1
    <3>4. /\ after \in [Tables -> Tab] /\ \A p \in Tables : Loose(after[p])
          /\ after["symbols"].prot = "ro" /\ after["strtab"].prot = "ro"
          /\ after["info"].recur = 0
      BY <1>11, <3>1 DEF SafeInv
    <3>5. SafeInv(guard', TRUE)
      BY <1>0, <3>2, <3>3, <3>4, AllClosed
    <3> QED BY <3>1, <3>5
  <2>2. CASE ~closes
    BY <1>4, <1>11, <2>2
  <2> QED BY <2>1, <2>2
<1> QED BY <1>5, <1>12, <1>13 DEF OpenInv, WritesAllowed

LEMMA UseOneSafe ==
  ASSUME OpenInv, "rw" \notin REFUSED, NEW p \in Tables, p # "info", UseOne(p, FALSE)
  PROVE  OpenInv'
<1>1. PICK opened \in One(guard, p, "rw") :
        /\ guard' \in One(opened, p, "ro")
        /\ faulted' = ~Open(opened, {p})
  BY DEF UseOne
<1>2. started /\ started' = started /\ SafeInv(guard, TRUE)
  BY DEF UseOne, OpenInv
<1>3. opened \in [Tables -> Tab]
  <2>1. opened = OneDone(guard, p, "rw")
    BY NothingRefused
  <2>2. guard \in [Tables -> Tab] /\ Loose(guard[p])
    BY <1>2 DEF SafeInv
  <2>3. Turned(guard[p], "rw") \in Tab
    BY <2>2, OpenedLoose DEF Loose
  <2> QED BY <2>1, <2>2, <2>3 DEF OneDone
<1>4. AllAre(opened[p], "rw") /\ SafeInv(guard', TRUE)
  BY <1>1, <1>2, <1>3, OneUsed
<1>5. Open(opened, {p})
  BY <1>4 DEF Open, AllAre
<1> QED BY <1>1, <1>2, <1>4, <1>5 DEF OpenInv, WritesAllowed

LEMMA ProtectSafe == ASSUME OpenInv, Protect PROVE OpenInv'
<1>0. /\ OfInfo \subseteq Tables /\ "info" \in OfInfo
      /\ \A p \in {"symbols", "strtab"} : p \in Tables \ OfInfo
  BY DEF OfInfo, Tables
<1>a. PICK strings \in One(guard, "strtab", "ro") :
        \E names \in One(strings, "symbols", "ro") : guard' \in All(names, "ro")
  BY DEF Protect
<1>1. PICK names \in One(strings, "symbols", "ro") : guard' \in All(names, "ro")
  BY <1>a
<1>2. SafeInv(guard, FALSE) /\ ~started /\ started' = TRUE /\ ~faulted /\ faulted' = faulted
  BY DEF Protect, OpenInv, WritesAllowed
<1>3. /\ guard \in [Tables -> Tab] /\ \A p \in Tables : Loose(guard[p])
      /\ \A p \in Tables : guard[p].prot = IF p = "info" THEN "rw" ELSE "none"
      /\ \A p \in Tables : guard[p].recur = 0
  BY <1>0, <1>2 DEF SafeInv, Loose
<1>4. /\ strings = [guard EXCEPT !["strtab"] = strings["strtab"]]
      /\ Loose(strings["strtab"]) /\ strings["strtab"].prot = "ro"
      /\ \A q \in Tables : q # "strtab" => strings[q] = guard[q]
  BY <1>0, <1>1, <1>3, OneIs, ClosedLoose, StuckLoose
<1>5. strings \in [Tables -> Tab]
  BY <1>3, <1>4 DEF Loose
<1>6. /\ names = [strings EXCEPT !["symbols"] = names["symbols"]]
      /\ Loose(names["symbols"]) /\ names["symbols"].prot = "ro"
      /\ \A q \in Tables : q # "symbols" => names[q] = strings[q]
  BY <1>0, <1>1, <1>3, <1>4, <1>5, OneIs, ClosedLoose, StuckLoose
<1>7. names \in [Tables -> Tab]
  BY <1>5, <1>6 DEF Loose
<1>8. \A p \in Tables : Loose(names[p])
  BY <1>3, <1>4, <1>6
<1>9. names["strtab"].prot = "ro"
  BY <1>0, <1>4, <1>6
<1>10. \A p \in OfInfo : names[p] = guard[p]
  BY <1>0, <1>4, <1>6
<1>11. names["info"].prot = "rw" /\ names["info"].recur = 0
       /\ \A p \in OfInfo : names[p].prot # "ro"
  BY <1>0, <1>3, <1>10
<1>12. SafeInv(guard', TRUE)
  BY <1>1, <1>6, <1>7, <1>8, <1>9, <1>11, AllClosed
<1> QED BY <1>2, <1>12 DEF OpenInv, WritesAllowed

LEMMA InitSafe == ASSUME ProtectionInit PROVE OpenInv
<1>1. AREAS \in [Tables -> Nat] /\ "info" \in Tables /\ "symbols" \in Tables
  BY ProtectionAssumption DEF Tables, OfInfo
<1>2. \A p \in Tables : [i \in 1..AREAS[p] |-> "rw"] \in Seq({"ro", "rw"})
  BY <1>1
<1>3. \A p \in Tables : Len([i \in 1..AREAS[p] |-> "rw"]) = AREAS[p]
  BY <1>1
<1>4. <<>> \in Seq({"ro", "rw"}) /\ Len(<<>>) = 0
  OBVIOUS
<1>5. \A p \in Tables :
        /\ guard[p].prot = IF p = "info" THEN "rw" ELSE "none"
        /\ guard[p].recur = 0 /\ guard[p] \in Tab /\ AllAre(guard[p], "rw")
  BY <1>1, <1>2, <1>3, <1>4 DEF ProtectionInit, Tab, AllAre
<1>6. guard = [p \in Tables |-> guard[p]]
  BY DEF ProtectionInit
<1> QED BY <1>1, <1>5, <1>6 DEF ProtectionInit, OpenInv, SafeInv, WritesAllowed, Loose

\* Nothing is written while it may only be read, for tables of any size and calls
\* nested to any depth, if the system refuses at most to make memory read-only and
\* tables that are opened alone have room: __mp_protectinfo() and its likes.
THEOREM WritesAreAllowed ==
  ASSUME ROOMY, "rw" \notin REFUSED
  PROVE  ProtectionSpec => []WritesAllowed
<1>1. ProtectionInit => OpenInv
  BY InitSafe
<1>2. OpenInv /\ [ProtectionNext]_protectionVars => OpenInv'
  <2> SUFFICES ASSUME OpenInv, [ProtectionNext]_protectionVars PROVE OpenInv'
    OBVIOUS
  <2>0. \A p \in {"strtab", "addrs", "leaktab", "symbols"} : p \in Tables /\ p # "info"
    BY DEF Tables, OfInfo
  <2>1. CASE Protect
    BY <2>1, ProtectSafe
  <2>2. CASE Inside
    BY <2>2 DEF Inside, OpenInv, WritesAllowed
  <2>3. CASE Outside
    BY <2>3 DEF Outside, OpenInv, WritesAllowed
  <2>4. CASE ChangeBlocks
    <3>1. UseAll(inside = 1) /\ (inside = 1 => started)
      BY <2>4 DEF ChangeBlocks, OpenInv
    <3> QED BY <3>1, UseAllSafe
  <2>5. CASE ChangeAndClose
    BY <2>5, UseAllSafe DEF ChangeAndClose
  <2>6. CASE AddString
    BY <2>0, <2>6, UseOneSafe DEF AddString
  <2>7. CASE CompareStacks
    BY <2>0, <2>7, UseOneSafe DEF CompareStacks
  <2>8. CASE UseLeakTable
    BY <2>0, <2>8, UseOneSafe DEF UseLeakTable
  <2>9. CASE SaveProfile
    BY <2>0, <2>9, UseOneSafe DEF SaveProfile
  <2>10. CASE UNCHANGED protectionVars
    BY <2>10 DEF protectionVars, OpenInv, WritesAllowed
  <2> QED
    BY <2>1, <2>2, <2>3, <2>4, <2>5, <2>6, <2>7, <2>8, <2>9, <2>10 DEF ProtectionNext
<1>3. OpenInv => WritesAllowed
  BY DEF OpenInv
<1> QED BY <1>1, <1>2, <1>3, PTL DEF ProtectionSpec

-----------------------------------------------------------------------------
(***************************************************************************)
(* When nothing is refused                                                 *)
(***************************************************************************)
LEMMA WholeOpened ==
  ASSUME NEW s \in BOOLEAN, NEW o \in BOOLEAN, NEW g, ExactInv(g, s, o),
         NEW h, h = AllDone(g, "rw")
  PROVE  /\ h \in [Tables -> Tab] /\ (s => \A p \in OfInfo : Wide(h[p])) /\ (~s => h = g)
         /\ \A p \in Tables \ OfInfo : h[p] = g[p]
         /\ \A p \in OfInfo : AllAre(h[p], "rw")
<1>0. OfInfo \subseteq Tables /\ "info" \in OfInfo /\ g \in [Tables -> Tab]
  BY DEF OfInfo, Tables, ExactInv
<1>1. CASE g["info"].prot = "rw"
  <2>1. h = g
    BY <1>1 DEF AllDone
  <2>2. s => \A p \in OfInfo : Wide(g[p])
    BY <1>0, <1>1 DEF ExactInv, Shut
  <2>3. \A p \in OfInfo : AllAre(g[p], "rw")
    BY <1>0, <2>2 DEF ExactInv, Wide
  <2> QED BY <1>0, <2>1, <2>2, <2>3
<1>2. CASE g["info"].prot # "rw"
  <2>1. s /\ \A p \in OfInfo : Shut(g[p])
    BY <1>0, <1>2 DEF ExactInv, Wide
  <2>2. h = [p \in Tables |-> IF p \in OfInfo THEN Turned(g[p], "rw") ELSE g[p]]
    BY <1>2 DEF AllDone
  <2>3. \A p \in OfInfo : Wide(h[p])
    BY <1>0, <2>1, <2>2, WideOpened
  <2>4. h \in [Tables -> Tab]
    BY <1>0, <2>2, <2>3 DEF Wide
  <2> QED BY <1>0, <2>1, <2>2, <2>3, <2>4 DEF Wide
<1> QED BY <1>1, <1>2

LEMMA WholeClosed ==
  ASSUME NEW g \in [Tables -> Tab], g["info"].prot # "ro",
         \A p \in OfInfo : g[p].prot # "ro" /\ g[p].recur = 0,
         Shut(g["symbols"]), Shut(g["strtab"]), NEW h, h = AllDone(g, "ro")
  PROVE  ExactInv(h, TRUE, FALSE)
<1>0. /\ OfInfo \subseteq Tables
      /\ \A p \in {"symbols", "strtab"} : p \in Tables \ OfInfo
  BY DEF OfInfo, Tables
<1>1. h = [p \in Tables |-> IF p \in OfInfo THEN Turned(g[p], "ro") ELSE g[p]]
  BY DEF AllDone
<1>2. \A p \in OfInfo : h[p] \in Tab /\ Shut(h[p])
  BY <1>0, <1>1, WideClosed
<1>3. h \in [Tables -> Tab]
  BY <1>0, <1>1, <1>2
<1>4. Shut(h["symbols"]) /\ Shut(h["strtab"])
  BY <1>0, <1>1
<1> QED BY <1>2, <1>3, <1>4 DEF ExactInv

\* One table that was closed is closed again, one that was open is open as before.
LEMMA OneTurned ==
  ASSUME NEW t \in Tab, Shut(t) \/ Wide(t), NEW u \in Tab, u.prot = "rw",
         u.recur = Turned(t, "rw").recur, AllAre(u, "rw")
  PROVE  /\ Turned(u, "ro") \in Tab
         /\ Shut(t) => Shut(Turned(u, "ro"))
         /\ Wide(t) => Wide(Turned(u, "ro"))
<1>1. CASE Shut(t)
  <2>1. u.recur = 0 /\ ~Wide(t)
    BY <1>1, WideOpened DEF Wide, Shut
  <2> QED BY <2>1, WideClosed
<1>2. CASE Wide(t)
  <2>1. u.recur = 1 /\ ~Shut(t)
    BY <1>2, WideCounted DEF Wide, Shut
  <2>2. Wide(Turned(u, "ro"))
    BY <2>1, CountedClosed
  <2> QED BY <2>1, <2>2 DEF Wide
<1> QED BY <1>1, <1>2

LEMMA OneOpened ==
  ASSUME NEW t \in Tab, Shut(t) \/ Wide(t)
  PROVE  LET u == Turned(t, "rw") IN u \in Tab /\ u.prot = "rw" /\ AllAre(u, "rw")
<1>1. CASE Shut(t)
  BY <1>1, WideOpened DEF Wide
<1>2. CASE Wide(t)
  BY <1>2, WideCounted
<1> QED BY <1>1, <1>2

LEMMA UseAllExact ==
  ASSUME CountedInv, NEW closes \in BOOLEAN, closes => started, UseAll(closes)
  PROVE  CountedInv'
<1>0. /\ OfInfo \subseteq Tables /\ "info" \in OfInfo
      /\ \A p \in {"symbols", "strtab"} : p \in Tables \ OfInfo
      /\ \A p \in Tables : p \in OfInfo \/ p \in {"symbols", "strtab"}
  BY DEF OfInfo, Tables
<1>1. PICK opened \in All(guard, "rw"), saves \in {FALSE, started} :
      \E grown \in Grown(opened, OfInfo) :
      \E during \in IF saves THEN One(grown, "symbols", "rw") ELSE {grown} :
      \E after \in IF saves THEN One(during, "symbols", "ro") ELSE {during} :
      \E closed \in IF closes THEN All(after, "ro") ELSE {after} :
        Afterwards(opened, saves, grown, during, after, closes, closed)
  BY DEF UseAll
<1>2. PICK grown \in Grown(opened, OfInfo) :
      \E during \in IF saves THEN One(grown, "symbols", "rw") ELSE {grown} :
      \E after \in IF saves THEN One(during, "symbols", "ro") ELSE {during} :
      \E closed \in IF closes THEN All(after, "ro") ELSE {after} :
        Afterwards(opened, saves, grown, during, after, closes, closed)
  BY <1>1
<1>3. PICK during \in IF saves THEN One(grown, "symbols", "rw") ELSE {grown} :
      \E after \in IF saves THEN One(during, "symbols", "ro") ELSE {during} :
      \E closed \in IF closes THEN All(after, "ro") ELSE {after} :
        Afterwards(opened, saves, grown, during, after, closes, closed)
  BY <1>2
<1>4. PICK after \in IF saves THEN One(during, "symbols", "ro") ELSE {during} :
      \E closed \in IF closes THEN All(after, "ro") ELSE {after} :
        Afterwards(opened, saves, grown, during, after, closes, closed)
  BY <1>3
<1>5. PICK closed \in IF closes THEN All(after, "ro") ELSE {after} :
        Afterwards(opened, saves, grown, during, after, closes, closed)
  BY <1>4
<1>6. /\ started' = started /\ started \in BOOLEAN
      /\ leftOpen' = ~closes /\ leftOpen \in BOOLEAN /\ refusals \in Nat
      /\ guard' = closed /\ saves \in BOOLEAN
  BY <1>1, <1>5 DEF UseAll, CountedInv, Afterwards
<1>7. refusals' \in Nat
  BY <1>5, <1>6 DEF Afterwards, Count
<1> SUFFICES ASSUME refusals' = 0 PROVE ExactInv(closed, started, ~closes)
  BY <1>6, <1>7 DEF CountedInv
<1>8. /\ refusals = 0
      /\ opened = AllDone(guard, "rw")
      /\ saves => /\ during = OneDone(grown, "symbols", "rw")
                  /\ after = OneDone(during, "symbols", "ro")
      /\ closes => closed = AllDone(after, "ro")
  BY <1>5, <1>6 DEF Afterwards, Count
<1>9. ExactInv(guard, started, leftOpen)
  BY <1>8 DEF CountedInv
<1>10. /\ opened \in [Tables -> Tab] /\ (started => \A p \in OfInfo : Wide(opened[p]))
       /\ (~started => opened = guard)
       /\ \A p \in Tables \ OfInfo : opened[p] = guard[p]
       /\ \A p \in OfInfo : AllAre(opened[p], "rw")
  BY <1>6, <1>8, <1>9, WholeOpened
<1>11. /\ grown \in [Tables -> Tab]
       /\ \A p \in Tables : grown[p].prot = opened[p].prot /\ grown[p].recur = opened[p].recur
       /\ \A p \in Tables \ OfInfo : grown[p] = opened[p]
       /\ \A p \in OfInfo : AllAre(grown[p], "rw")
  BY <1>0, <1>10, GrownIs
<1>12. CASE ~started
  <2>1. ~saves
    BY <1>6, <1>12
  <2>2. closed = grown
    BY <1>1, <1>3, <1>4, <1>5, <1>12, <2>1
  <2>3. \A p \in Tables :
          /\ grown[p].prot = IF p = "info" THEN "rw" ELSE "none"
          /\ grown[p].recur = 0
    BY <1>0, <1>9, <1>10, <1>11, <1>12 DEF ExactInv
  <2>4. \A p \in Tables : AllAre(grown[p], "rw")
    BY <1>0, <1>9, <1>10, <1>11, <1>12 DEF ExactInv
  <2> QED BY <1>11, <1>12, <2>2, <2>3, <2>4 DEF ExactInv
<1>13. CASE started
  <2>1. \A p \in OfInfo : Wide(grown[p])
    BY <1>0, <1>10, <1>11, <1>13 DEF Wide
  <2>2. Shut(grown["symbols"]) /\ Shut(grown["strtab"])
    BY <1>0, <1>9, <1>10, <1>11, <1>13 DEF ExactInv
  <2>3. /\ after \in [Tables -> Tab] /\ Shut(after["symbols"])
        /\ \A q \in Tables : q # "symbols" => after[q] = grown[q]
    <3>1. CASE ~saves
      BY <1>3, <1>4, <1>11, <2>2, <3>1
    <3>2. CASE saves
      <4> DEFINE t == grown["symbols"]
      <4>1. t \in Tab /\ Shut(t)
        BY <1>0, <1>11, <2>2
      <4>2. /\ Turned(t, "rw") \in Tab /\ Turned(t, "rw").prot = "rw"
            /\ AllAre(Turned(t, "rw"), "rw")
        BY <4>1, OneOpened
      <4>3. /\ Turned(Turned(t, "rw"), "ro") \in Tab
            /\ Shut(Turned(Turned(t, "rw"), "ro"))
        BY <4>1, <4>2, OneTurned
      <4>4. during["symbols"] = Turned(t, "rw") /\ during \in [Tables -> Tab]
            /\ \A q \in Tables : q # "symbols" => during[q] = grown[q]
        BY <1>0, <1>8, <1>11, <3>2, <4>2 DEF OneDone
      <4> HIDE DEF t
      <4>5. after = [during EXCEPT !["symbols"] = Turned(Turned(t, "rw"), "ro")]
        BY <1>8, <3>2, <4>4 DEF OneDone
      <4> QED BY <1>0, <4>3, <4>4, <4>5
    <3> QED BY <3>1, <3>2
  <2>4. "info" # "symbols" /\ Shut(after["strtab"]) /\ \A p \in OfInfo : Wide(after[p])
    BY <1>0, <2>1, <2>2, <2>3
  <2>5. CASE closes
    <3>1. \A p \in OfInfo : after[p].prot # "ro" /\ after[p].recur = 0
      BY <2>4 DEF Wide
    <3>2. ExactInv(closed, TRUE, FALSE)
      BY <1>0, <1>8, <2>3, <2>4, <2>5, <3>1, WholeClosed
    <3> QED BY <1>13, <2>5, <3>2 DEF ExactInv
  <2>6. CASE ~closes
    <3>1. closed = after
      BY <1>5, <2>6
    <3> QED BY <1>13, <2>3, <2>4, <2>6, <3>1 DEF ExactInv
  <2> QED BY <2>5, <2>6
<1> QED BY <1>6, <1>12, <1>13

LEMMA UseOneExact ==
  ASSUME CountedInv, NEW p \in Tables, NEW grows \in BOOLEAN, UseOne(p, grows)
  PROVE  CountedInv'
<1>1. PICK opened \in One(guard, p, "rw") :
      \E grown \in IF grows THEN Grown(opened, {p}) ELSE {opened} :
      \E closed \in One(grown, p, "ro") :
        /\ guard' = closed
        /\ Count(opened # OneDone(guard, p, "rw") \/ closed # OneDone(grown, p, "ro"))
  BY DEF UseOne
<1>2. PICK grown \in IF grows THEN Grown(opened, {p}) ELSE {opened} :
        Count(opened # OneDone(guard, p, "rw") \/ guard' # OneDone(grown, p, "ro"))
  BY <1>1
<1>3. /\ started /\ started' = started /\ leftOpen' = leftOpen
      /\ leftOpen \in BOOLEAN /\ refusals \in Nat
  BY DEF UseOne, CountedInv
<1>4. refusals' \in Nat
  BY <1>2, <1>3 DEF Count
<1> SUFFICES ASSUME refusals' = 0 PROVE ExactInv(guard', TRUE, leftOpen)
  BY <1>3, <1>4 DEF CountedInv
<1>5. refusals = 0 /\ opened = OneDone(guard, p, "rw") /\ guard' = OneDone(grown, p, "ro")
  BY <1>2, <1>3 DEF Count
<1>6. ExactInv(guard, TRUE, leftOpen)
  BY <1>3, <1>5 DEF CountedInv
<1>7. guard \in [Tables -> Tab] /\ (Shut(guard[p]) \/ Wide(guard[p]))
  BY <1>6 DEF ExactInv, Tables
<1>8. /\ Turned(guard[p], "rw") \in Tab /\ Turned(guard[p], "rw").prot = "rw"
      /\ AllAre(Turned(guard[p], "rw"), "rw")
  BY <1>7, OneOpened
<1>9. /\ opened \in [Tables -> Tab] /\ opened[p] = Turned(guard[p], "rw")
      /\ \A q \in Tables : q # p => opened[q] = guard[q]
  BY <1>5, <1>7, <1>8 DEF OneDone
<1>10. /\ grown \in [Tables -> Tab] /\ AllAre(grown[p], "rw")
       /\ grown[p].prot = "rw" /\ grown[p].recur = Turned(guard[p], "rw").recur
       /\ \A q \in Tables : q # p => grown[q] = guard[q]
  <2>1. CASE ~grows
    BY <1>2, <1>8, <1>9, <2>1
  <2>2. CASE grows
    BY <1>2, <1>8, <1>9, <2>2, GrownIs
  <2> QED BY <2>1, <2>2
<1>11. /\ Turned(grown[p], "ro") \in Tab
       /\ Shut(guard[p]) => Shut(Turned(grown[p], "ro"))
       /\ Wide(guard[p]) => Wide(Turned(grown[p], "ro"))
  BY <1>7, <1>10, OneTurned
<1>12. /\ guard' \in [Tables -> Tab]
       /\ \A q \in Tables : /\ Shut(guard[q]) => Shut(guard'[q])
                            /\ Wide(guard[q]) => Wide(guard'[q])
  BY <1>5, <1>7, <1>10, <1>11 DEF OneDone
<1>13. OfInfo \subseteq Tables /\ "symbols" \in Tables /\ "strtab" \in Tables
  BY DEF OfInfo, Tables
<1> HIDE DEF ExactInv
<1> QED BY <1>6, <1>12, <1>13 DEF ExactInv

LEMMA ProtectExact == ASSUME CountedInv, Protect PROVE CountedInv'
<1>0. /\ OfInfo \subseteq Tables /\ "info" \in OfInfo
      /\ \A p \in {"symbols", "strtab"} : p \in Tables \ OfInfo
  BY DEF OfInfo, Tables
<1>1. PICK strings \in One(guard, "strtab", "ro") :
      \E names \in One(strings, "symbols", "ro") :
      \E closed \in All(names, "ro") :
        /\ guard' = closed
        /\ Count(\/ strings # OneDone(guard, "strtab", "ro")
                 \/ names # OneDone(strings, "symbols", "ro")
                 \/ closed # AllDone(names, "ro"))
  BY DEF Protect
<1>2. PICK names \in One(strings, "symbols", "ro") :
        Count(\/ strings # OneDone(guard, "strtab", "ro")
              \/ names # OneDone(strings, "symbols", "ro")
              \/ guard' # AllDone(names, "ro"))
  BY <1>1
<1>3. ~started /\ started' = TRUE /\ leftOpen' = FALSE /\ refusals \in Nat
  BY DEF Protect, CountedInv
<1>4. refusals' \in Nat
  BY <1>2, <1>3 DEF Count
<1> SUFFICES ASSUME refusals' = 0 PROVE ExactInv(guard', TRUE, FALSE)
  BY <1>3, <1>4 DEF CountedInv
<1>5. /\ refusals = 0 /\ strings = OneDone(guard, "strtab", "ro")
      /\ names = OneDone(strings, "symbols", "ro") /\ guard' = AllDone(names, "ro")
  BY <1>2, <1>3 DEF Count
<1>6. /\ guard \in [Tables -> Tab]
      /\ \A p \in Tables : guard[p].recur = 0
                           /\ guard[p].prot = IF p = "info" THEN "rw" ELSE "none"
  BY <1>3, <1>5 DEF CountedInv, ExactInv
<1>7. /\ Turned(guard["strtab"], "ro") \in Tab /\ Shut(Turned(guard["strtab"], "ro"))
      /\ Turned(guard["symbols"], "ro") \in Tab /\ Shut(Turned(guard["symbols"], "ro"))
  BY <1>0, <1>6, WideClosed
<1>8. /\ strings \in [Tables -> Tab] /\ strings["strtab"] = Turned(guard["strtab"], "ro")
      /\ \A q \in Tables : q # "strtab" => strings[q] = guard[q]
  BY <1>0, <1>5, <1>6, <1>7 DEF OneDone
<1>9. strings["symbols"] = guard["symbols"]
  BY <1>0, <1>8
<1>10. /\ names \in [Tables -> Tab] /\ names["symbols"] = Turned(guard["symbols"], "ro")
       /\ \A q \in Tables : q # "symbols" => names[q] = strings[q]
  BY <1>0, <1>5, <1>7, <1>8, <1>9 DEF OneDone
<1>11. names["strtab"] = Turned(guard["strtab"], "ro")
  BY <1>0, <1>8, <1>10
<1>12. \A p \in OfInfo : names[p] = guard[p]
  BY <1>0, <1>8, <1>10
<1>13. \A p \in OfInfo : names[p].prot # "ro" /\ names[p].recur = 0
  BY <1>0, <1>6, <1>12
<1> QED BY <1>0, <1>5, <1>7, <1>10, <1>11, <1>13, WholeClosed

LEMMA InitExact == ASSUME ProtectionInit PROVE CountedInv
<1>1. OpenInv /\ ~started /\ refusals = 0 /\ leftOpen \in BOOLEAN
  BY InitSafe DEF ProtectionInit
<1>2. /\ guard \in [Tables -> Tab]
      /\ \A p \in Tables :
           /\ guard[p].prot = IF p = "info" THEN "rw" ELSE "none"
           /\ guard[p].recur = 0 /\ AllAre(guard[p], "rw")
  BY <1>1 DEF OpenInv, SafeInv, Loose
<1>3. \A p \in Tables : guard[p].prot # "ro"
  BY <1>2
<1>4. ExactInv(guard, started, leftOpen)
  BY <1>1, <1>2 DEF ExactInv
<1>5. started \in BOOLEAN
  BY <1>1 DEF OpenInv
<1> QED BY <1>1, <1>4, <1>5 DEF CountedInv

\* All that was opened is closed again once the call that is in no other has ended
\* its work, unless the system has refused something: for every number of blocks,
\* nesting and order of calls, and whatever may be refused later.
THEOREM TablesAreClosedAgain == ProtectionSpec => []ClosedAgain
<1>1. ProtectionInit => CountedInv
  BY InitExact
<1>2. CountedInv /\ [ProtectionNext]_protectionVars => CountedInv'
  <2> SUFFICES ASSUME CountedInv, [ProtectionNext]_protectionVars PROVE CountedInv'
    OBVIOUS
  <2>0. /\ \A p \in {"strtab", "addrs", "leaktab", "symbols"} : p \in Tables
        /\ (~ROOMY) \in BOOLEAN
    BY DEF Tables, OfInfo
  <2>1. CASE Protect
    BY <2>1, ProtectExact
  <2>2. CASE Inside
    BY <2>2 DEF Inside, CountedInv
  <2>3. CASE Outside
    BY <2>3 DEF Outside, CountedInv
  <2>4. CASE ChangeBlocks
    <3>1. UseAll(inside = 1) /\ (inside = 1 => started)
      BY <2>4 DEF ChangeBlocks, CountedInv
    <3> QED BY <3>1, UseAllExact
  <2>5. CASE ChangeAndClose
    BY <2>5, UseAllExact DEF ChangeAndClose
  <2>6. CASE AddString
    BY <2>0, <2>6, UseOneExact DEF AddString
  <2>7. CASE CompareStacks
    BY <2>0, <2>7, UseOneExact DEF CompareStacks
  <2>8. CASE UseLeakTable
    BY <2>0, <2>8, UseOneExact DEF UseLeakTable
  <2>9. CASE SaveProfile
    BY <2>0, <2>9, UseOneExact DEF SaveProfile
  <2>10. CASE UNCHANGED protectionVars
    BY <2>10 DEF protectionVars, CountedInv
  <2> QED
    BY <2>1, <2>2, <2>3, <2>4, <2>5, <2>6, <2>7, <2>8, <2>9, <2>10 DEF ProtectionNext
<1>3. CountedInv => ClosedAgain
  BY DEF CountedInv, ExactInv, ClosedAgain, Tables
<1> QED BY <1>1, <1>2, <1>3, PTL DEF ProtectionSpec
=============================================================================
