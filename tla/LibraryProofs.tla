--------------------------- MODULE LibraryProofs ---------------------------
(***************************************************************************)
(* Proofs about the life of the library, for tables of every size, every   *)
(* heap and any number of calls, and about the tools on its interface, for *)
(* any number of blocks, heapdiffs and steps.                              *)
(***************************************************************************)
EXTENDS Library, Tools, SumProofs, SequenceTheorems, TLAPS

Behaviour == {"default", "ignore", "handler"}

\* A call under way, whatever else is kept with it.
IsFrame(f) ==
    /\ {"call", "calling"} \subseteq DOMAIN f
    /\ f.call \in {"init", "fini", "walk"} /\ f.calling \in BOOLEAN

\* What calls the program back is the library's beginning, its end or a walk, and
\* only a walk is within something else.
FramesInv(F) ==
    /\ \E S : F \in Seq(S)
    /\ \A i \in 1..Len(F) : IsFrame(F[i]) /\ (i > 1 => F[i].call = "walk")

LifeInv ==
    /\ FramesInv(frames)
    /\ memhead \in [init : BOOLEAN, fini : BOOLEAN, recur : Nat, safe : BOOLEAN]
    /\ memhead.recur = Len(frames)
    /\ frames # <<>> => memhead.init
    /\ ~(memhead.init /\ memhead.fini)

\* A handler that has been saved is the one the program wants.
SignalInv ==
    /\ wanted \in {"default", "handler"}
    /\ signals \in [now : Behaviour, was : Behaviour, saved : BOOLEAN]
    /\ IF signals.saved
       THEN frames # <<>> /\ signals.now = "ignore" /\ signals.was = wanted
       ELSE signals.now = wanted

\* The functions that wait are those not run, in the order of registration.
FinisInv ==
    /\ finis \in Seq(Nat) /\ registered \in Seq(Nat) /\ ran \in Seq(Nat)
    /\ Len(finis) <= MAXFINIS
    /\ \A k \in 1..Len(finis) : finis[k] \in 1..Len(registered)
    /\ \A k, l \in 1..Len(finis) : k < l => finis[k] < finis[l]
    /\ ~memhead.init /\ ~memhead.fini => ran = <<>>

\* Those that have run are others, and what has run before them explains why.
RanInv ==
    /\ \A i \in 1..Len(ran) : ran[i] \in 1..Len(registered)
    /\ \A i, j \in 1..Len(ran) :
        /\ i # j => ran[i] # ran[j]
        /\ i < j /\ ran[i] < ran[j] => registered[ran[j]] >= i
    /\ \A i \in 1..Len(ran), k \in 1..Len(finis) :
        /\ ran[i] # finis[k]
        /\ ran[i] < finis[k] => registered[finis[k]] >= i

FiniRuns == frames # <<>> /\ frames[1].call = "fini" /\ frames[1].calling

\* None is lost: a function that is running has left room in the table.
AllRunInv ==
    /\ FiniRuns => Len(finis) < MAXFINIS
    /\ memhead.init => Len(ran) + Len(finis) = Len(registered)
    /\ memhead.fini => Len(ran) = Len(registered)

\* The deletions of p that no deletion without a position has come within, of q
\* that there have been, are in their places of the stack.
Placed(p, q, stack) ==
    \A i \in 1..Len(p) :
        /\ p[i] <= q
        /\ p[i] = q /\ i - 1 - q \in 0..MAXDELSTACK - 1 => stack[i - 1 - q] = i

\* Each deletion without a position has moved the top of the stack down by one.
DeleteInv ==
    /\ pending \in Seq(Nat) /\ plain \in Nat /\ delpos = Len(pending) - plain
    /\ dels \in [0..MAXDELSTACK - 1 -> Nat]
    /\ Placed(pending, plain, dels)
    /\ DeletionsTold

-----------------------------------------------------------------------------
(***************************************************************************)
(* Calls under way                                                         *)
(***************************************************************************)
LEMMA Marked ==
  ASSUME NEW f, IsFrame(f), NEW b \in BOOLEAN
  PROVE  /\ IsFrame([f EXCEPT !.calling = b])
         /\ [f EXCEPT !.calling = b].call = f.call
         /\ [f EXCEPT !.calling = b].calling = b
  BY DEF IsFrame

\* The call on top is replaced by one like it.
LEMMA FrameReplaced ==
  ASSUME NEW F, FramesInv(F), F # <<>>, NEW g, IsFrame(g), g.call = F[Len(F)].call
  PROVE  /\ FramesInv([F EXCEPT ![Len(F)] = g])
         /\ Len([F EXCEPT ![Len(F)] = g]) = Len(F)
         /\ [F EXCEPT ![Len(F)] = g] # <<>>
         /\ [F EXCEPT ![Len(F)] = g][1] = IF Len(F) = 1 THEN g ELSE F[1]
<1>1. PICK S : F \in Seq(S)
  BY DEF FramesInv
<1> DEFINE T == S \cup {g}
<1>2. F \in Seq(T) /\ Len(F) \in Nat \ {0} /\ g \in T
  BY <1>1, SeqMonotonic, EmptySeq
<1> DEFINE G == [F EXCEPT ![Len(F)] = g]
<1>3. /\ G \in Seq(T) /\ Len(G) = Len(F)
      /\ \A j \in 1..Len(F) : G[j] = IF j = Len(F) THEN g ELSE F[j]
  BY <1>2, ExceptSeq
<1>4. \A i \in 1..Len(G) : IsFrame(G[i]) /\ (i > 1 => G[i].call = "walk")
  BY <1>2, <1>3 DEF FramesInv
<1> HIDE DEF G
<1>5. G # <<>>
  BY <1>2, <1>3, EmptySeq
<1>6. FramesInv(G)
  BY <1>3, <1>4 DEF FramesInv
<1> QED BY <1>2, <1>3, <1>5, <1>6 DEF G

LEMMA FramePopped ==
  ASSUME NEW F, FramesInv(F), F # <<>>
  PROVE  /\ FramesInv(SubSeq(F, 1, Len(F) - 1))
         /\ Len(SubSeq(F, 1, Len(F) - 1)) = Len(F) - 1
         /\ Len(F) > 1 => SubSeq(F, 1, Len(F) - 1)[1] = F[1]
<1>1. PICK S : F \in Seq(S)
  BY DEF FramesInv
<1>2. Len(F) \in Nat \ {0}
  BY <1>1, EmptySeq
<1>3. \A i \in 1..Len(F) : F[i] \in S
  BY <1>1, ElementOfSeq
<1> DEFINE m == Len(F) - 1
           G == SubSeq(F, 1, m)
<1>4. G \in Seq(S) /\ Len(G) = m /\ \A i \in 1..m : G[i] = F[i]
  <2>1. m \in Nat /\ \A i \in 1..m : F[i] \in S
    BY <1>2, <1>3
  <2> HIDE DEF m
  <2> QED BY <2>1, SubSeqProperties
<1> HIDE DEF G
<1>5. \A i \in 1..Len(G) : IsFrame(G[i]) /\ (i > 1 => G[i].call = "walk")
  BY <1>2, <1>4 DEF FramesInv
<1>6. FramesInv(G)
  BY <1>4, <1>5 DEF FramesInv
<1> QED BY <1>2, <1>4, <1>6 DEF G

LEMMA FramePushed ==
  ASSUME NEW F, FramesInv(F), NEW g, IsFrame(g), F # <<>> => g.call = "walk"
  PROVE  /\ FramesInv(Append(F, g))
         /\ Len(Append(F, g)) = Len(F) + 1
         /\ Append(F, g) # <<>>
         /\ Append(F, g)[1] = IF F = <<>> THEN g ELSE F[1]
<1>1. PICK S : F \in Seq(S)
  BY DEF FramesInv
<1> DEFINE T == S \cup {g}
<1>2. F \in Seq(T) /\ Len(F) \in Nat /\ g \in T /\ (F # <<>> => Len(F) > 0)
  BY <1>1, SeqMonotonic, EmptySeq
<1> DEFINE G == Append(F, g)
<1>3. /\ G \in Seq(T) /\ Len(G) = Len(F) + 1 /\ G # <<>>
      /\ \A j \in 1..Len(F) : G[j] = F[j]
      /\ G[Len(F) + 1] = g
  BY <1>2, AppendProperties
<1> HIDE DEF G
<1>4. F = <<>> => Len(F) = 0
  BY EmptySeq
<1>5. \A i \in 1..Len(G) : i \in 1..Len(F) \/ i = Len(F) + 1
  BY <1>2, <1>3
<1>6. \A i \in 1..Len(G) : IsFrame(G[i]) /\ (i > 1 => G[i].call = "walk")
  BY <1>2, <1>3, <1>4, <1>5 DEF FramesInv
<1>7. FramesInv(G)
  BY <1>3, <1>6 DEF FramesInv
<1> QED BY <1>2, <1>3, <1>4, <1>7 DEF G

LEMMA OneFrame ==
  ASSUME NEW g, IsFrame(g)
  PROVE  /\ FramesInv(<<g>>) /\ Len(<<g>>) = 1 /\ <<g>> # <<>> /\ <<g>>[1] = g
<1>1. <<g>> \in Seq({g}) /\ Len(<<g>>) = 1 /\ <<g>>[1] = g
  OBVIOUS
<1>2. <<g>> # <<>>
  BY <1>1, EmptySeq
<1>3. \A i \in 1..Len(<<g>>) : IsFrame(<<g>>[i]) /\ (i > 1 => <<g>>[i].call = "walk")
  BY <1>1
<1> QED BY <1>1, <1>2, <1>3 DEF FramesInv

LEMMA TopIsFrame ==
  ASSUME LifeInv, frames # <<>>
  PROVE  /\ IsFrame(Top) /\ Len(frames) \in Nat \ {0}
         /\ Top.call # "walk" => Len(frames) = 1 /\ Top = frames[1]
<1>1. PICK S : frames \in Seq(S)
  BY DEF LifeInv, FramesInv
<1>2. Len(frames) \in Nat \ {0}
  BY <1>1, EmptySeq
<1> QED BY <1>2 DEF LifeInv, FramesInv, Top

-----------------------------------------------------------------------------
(***************************************************************************)
(* Entering and leaving the library                                        *)
(***************************************************************************)
MemHead == [init : BOOLEAN, fini : BOOLEAN, recur : Nat, safe : BOOLEAN]

LEMMA Counted ==
  ASSUME NEW m \in MemHead
  PROVE  LET up == [m EXCEPT !.recur = @ + 1]
         IN  /\ up \in MemHead /\ up.recur = m.recur + 1
             /\ up.init = m.init /\ up.fini = m.fini
  BY DEF MemHead

LEMMA OneOrMore == \A n \in Nat \ {0} : n = 1 \/ n > 1
  OBVIOUS

LEMMA NoFrames ==
  ASSUME LifeInv PROVE frames = <<>> <=> memhead.recur = 0
<1>1. PICK S : frames \in Seq(S)
  BY DEF LifeInv, FramesInv
<1> QED BY <1>1, EmptySeq DEF LifeInv

\* A step that neither enters nor leaves, or enters and leaves at once.
LEMMA Stayed ==
  ASSUME LifeInv, SignalInv, wanted' = wanted,
         FramesInv(frames'), Len(frames') = Len(frames),
         frames' # <<>> <=> frames # <<>>,
         memhead' \in MemHead, memhead'.recur = memhead.recur,
         memhead'.init = memhead.init, memhead'.fini = memhead.fini,
         UNCHANGED signals \/ Through(memhead')
  PROVE  LifeInv' /\ SignalInv'
<1>1. LifeInv'
  BY DEF LifeInv, MemHead
<1>2. CASE UNCHANGED signals
  BY <1>1, <1>2 DEF SignalInv
<1>3. CASE Through(memhead')
  <2>1. CASE memhead.recur # 0
    BY <1>1, <1>3, <2>1 DEF Through, SignalInv
  <2>2. CASE memhead.recur = 0
    <3>1. frames = <<>>
      BY <2>2, NoFrames
    <3>2. ~signals.saved /\ signals.now = wanted
      BY <3>1 DEF SignalInv
    <3>3. signals' = Restored(Saved(signals))
      BY <1>3, <2>2 DEF Through
    <3>4. CASE memhead.safe
      <4>1. signals' = [now |-> wanted, was |-> wanted, saved |-> FALSE]
        BY <2>2, <3>2, <3>3, <3>4 DEF Restored, Saved
      <4> QED BY <1>1, <4>1 DEF SignalInv, Behaviour
    <3>5. CASE ~memhead.safe
      BY <1>1, <3>2, <3>3, <3>5 DEF Restored, Saved, SignalInv
    <3> QED BY <3>4, <3>5
  <2> QED BY <2>1, <2>2
<1> QED BY <1>1, <1>2, <1>3

LEMMA Entered ==
  ASSUME LifeInv, SignalInv, wanted' = wanted, Enter, memhead.init,
         FramesInv(frames'), Len(frames') = Len(frames) + 1, frames' # <<>>
  PROVE  /\ LifeInv' /\ SignalInv'
         /\ memhead'.init = memhead.init /\ memhead'.fini = memhead.fini
<1>0. memhead \in MemHead /\ memhead' = [memhead EXCEPT !.recur = @ + 1]
  BY DEF LifeInv, Enter, MemHead
<1>1. /\ memhead' \in MemHead /\ memhead'.recur = memhead.recur + 1
      /\ memhead'.init = memhead.init /\ memhead'.fini = memhead.fini
  BY <1>0, Counted
<1>2. LifeInv'
  BY <1>1 DEF LifeInv, MemHead
<1>3. CASE memhead.recur = 0 /\ memhead.safe
  <2>1. ~signals.saved /\ signals.now = wanted
    BY <1>3, NoFrames DEF SignalInv
  <2>2. signals' = [now |-> "ignore", was |-> wanted, saved |-> TRUE]
    BY <1>3, <2>1 DEF Enter, Saved
  <2> QED BY <1>1, <1>2, <2>2 DEF SignalInv, Behaviour
<1>4. CASE ~(memhead.recur = 0 /\ memhead.safe)
  BY <1>1, <1>2, <1>4 DEF SignalInv, Enter, Saved
<1> QED BY <1>1, <1>2, <1>3, <1>4

LEMMA Left ==
  ASSUME LifeInv, SignalInv, wanted' = wanted, frames # <<>>,
         NEW m \in MemHead, Leave(m), m.recur = memhead.recur,
         ~(m.init /\ m.fini), Len(frames) > 1 => m.init,
         frames' = SubSeq(frames, 1, Len(frames) - 1)
  PROVE  /\ LifeInv' /\ SignalInv'
         /\ memhead'.init = m.init /\ memhead'.fini = m.fini
<1>1. Len(frames) \in Nat \ {0} /\ memhead.recur = Len(frames)
  BY TopIsFrame DEF LifeInv
<1>2. FramesInv(frames') /\ Len(frames') = Len(frames) - 1
  BY FramePopped DEF LifeInv
<1>3. /\ memhead' \in MemHead /\ memhead'.recur = m.recur - 1
      /\ memhead'.init = m.init /\ memhead'.fini = m.fini
  BY <1>1 DEF Leave, MemHead
<1>4. frames' # <<>> <=> Len(frames) > 1
  <2>1. PICK S : frames' \in Seq(S)
    BY <1>2 DEF FramesInv
  <2>2. frames' # <<>> <=> Len(frames') # 0
    BY <2>1, EmptySeq
  <2> QED BY <1>1, <1>2, <2>2
<1>5. LifeInv'
  BY <1>1, <1>2, <1>3, <1>4 DEF LifeInv, MemHead
<1>6. CASE memhead.recur = 1
  <2>1. CASE signals.saved
    <3>1. signals.was = wanted
      BY <2>1 DEF SignalInv
    <3>2. signals' = [signals EXCEPT !.now = wanted, !.saved = FALSE]
      BY <1>6, <2>1, <3>1 DEF Leave, Restored
    <3> QED BY <1>3, <1>5, <3>2 DEF SignalInv, Behaviour
  <2>2. CASE ~signals.saved
    BY <1>3, <1>5, <1>6, <2>2 DEF Leave, Restored, SignalInv
  <2> QED BY <2>1, <2>2
<1>7. CASE memhead.recur # 1
  <2>1. signals' = signals
    BY <1>7 DEF Leave
  <2>2. frames' # <<>>
    <3>1. Len(frames) = 1 \/ Len(frames) > 1
      BY <1>1, OneOrMore
    <3> QED BY <3>1, <1>1, <1>4, <1>7, Zenon
  <2> QED BY <1>3, <1>5, <2>1, <2>2 DEF SignalInv
<1> QED BY <1>3, <1>5, <1>6, <1>7

-----------------------------------------------------------------------------
(***************************************************************************)
(* Calls under way and signals                                             *)
(***************************************************************************)
\* A step that leaves the functions to be called at the end alone.
FinisKept ==
    /\ UNCHANGED <<finis, registered, ran>>
    /\ memhead'.init = memhead.init /\ memhead'.fini = memhead.fini
    /\ FiniRuns' => FiniRuns

LEMMA FramesUnchanged ==
  ASSUME LifeInv, SignalInv, UNCHANGED <<frames, wanted, finis, registered, ran>>,
         memhead' \in MemHead, memhead'.recur = memhead.recur,
         memhead'.init = memhead.init, memhead'.fini = memhead.fini,
         UNCHANGED signals \/ Through(memhead')
  PROVE  LifeInv' /\ SignalInv' /\ FinisKept
<1>1. FramesInv(frames')
  BY DEF LifeInv
<1>2. LifeInv' /\ SignalInv'
  BY <1>1, Stayed
<1> QED BY <1>2 DEF FinisKept, FiniRuns

LEMMA InitialiseStep ==
  ASSUME LifeInv, SignalInv, Initialise PROVE LifeInv' /\ SignalInv' /\ ~FiniRuns'
<1> DEFINE g == [call |-> "init", calling |-> FALSE]
<1>1. IsFrame(g) /\ g.call = "init"
  BY DEF IsFrame
<1>2. frames' = <<g>> /\ FramesInv(<<g>>) /\ Len(<<g>>) = 1 /\ <<g>> # <<>>
      /\ <<g>>[1] = g
  BY <1>1, OneFrame DEF Initialise
<1>3. /\ memhead' \in MemHead /\ memhead'.recur = 1
      /\ memhead'.init /\ ~memhead'.fini
  BY DEF Initialise, MemHead
<1>4. LifeInv'
  BY <1>2, <1>3 DEF LifeInv, MemHead
<1>5. UNCHANGED <<signals, wanted>> /\ ~signals.saved
  BY DEF Initialise, SignalInv
<1>6. SignalInv'
  BY <1>5 DEF SignalInv
<1>7. ~FiniRuns'
  BY <1>1, <1>2 DEF FiniRuns
<1> QED BY <1>4, <1>6, <1>7

\* The call on top is replaced, by one that does the same.
LEMMA TopReplaced ==
  ASSUME LifeInv, SignalInv, frames # <<>>, UNCHANGED <<memhead, signals, wanted>>,
         NEW g, IsFrame(g), g.call = Top.call, frames' = [frames EXCEPT ![Len(frames)] = g]
  PROVE  /\ LifeInv' /\ SignalInv' /\ frames' # <<>>
         /\ frames'[1] = IF Len(frames) = 1 THEN g ELSE frames[1]
         /\ g.call # "fini" \/ ~g.calling => (FiniRuns' => FiniRuns)
<1> DEFINE F == [frames EXCEPT ![Len(frames)] = g]
<1>1. g.call = frames[Len(frames)].call
  BY DEF Top
<1>2. /\ FramesInv(F) /\ Len(F) = Len(frames) /\ F # <<>>
      /\ F[1] = IF Len(frames) = 1 THEN g ELSE frames[1]
  BY <1>1, FrameReplaced DEF LifeInv
<1>3. frames' = F
  OBVIOUS
<1> HIDE DEF F
<1>4. memhead' \in MemHead /\ UNCHANGED signals
  BY DEF LifeInv, MemHead
<1>5. LifeInv' /\ SignalInv'
  BY <1>2, <1>3, <1>4, Stayed
<1>6. g.call # "fini" \/ ~g.calling => (FiniRuns' => FiniRuns)
  BY <1>2, <1>3 DEF FiniRuns
<1> QED BY <1>2, <1>3, <1>5, <1>6

LEMMA TopMarked ==
  ASSUME NEW b
  PROVE  [frames EXCEPT ![Len(frames)].calling = b]
            = [frames EXCEPT ![Len(frames)] = [Top EXCEPT !.calling = b]]
  BY DEF Top

\* The call on top returns to one that has not ended, or to main().
LEMMA TopPopped ==
  ASSUME LifeInv, SignalInv, frames # <<>>, Leave(memhead),
         UNCHANGED <<wanted, finis, registered, ran>>,
         frames' = SubSeq(frames, 1, Len(frames) - 1)
  PROVE  LifeInv' /\ SignalInv' /\ FinisKept
<1>1. memhead \in MemHead /\ memhead.init /\ ~(memhead.init /\ memhead.fini)
  BY DEF LifeInv, MemHead
<1>2. /\ LifeInv' /\ SignalInv'
      /\ memhead'.init = memhead.init /\ memhead'.fini = memhead.fini
  BY <1>1, Left
<1>3. Len(frames) \in Nat \ {0}
  BY TopIsFrame
<1> DEFINE F == SubSeq(frames, 1, Len(frames) - 1)
<1>4. /\ FramesInv(F) /\ Len(F) = Len(frames) - 1
      /\ Len(frames) > 1 => F[1] = frames[1]
  BY FramePopped DEF LifeInv
<1>5. frames' = F
  OBVIOUS
<1> HIDE DEF F
<1>6. FiniRuns' => FiniRuns
  <2>1. CASE Len(frames) = 1
    <3>1. PICK S : F \in Seq(S)
      BY <1>4 DEF FramesInv
    <3>2. F = <<>>
      BY <2>1, <1>4, <3>1, EmptySeq
    <3> QED BY <3>2, <1>5 DEF FiniRuns
  <2>2. CASE Len(frames) > 1
    BY <2>2, <1>4, <1>5 DEF FiniRuns
  <2>3. Len(frames) = 1 \/ Len(frames) > 1
    BY <1>3, OneOrMore
  <2> QED BY <2>1, <2>2, <2>3
<1> QED BY <1>2, <1>6 DEF FinisKept

LEMMA CallInitStep ==
  ASSUME LifeInv, SignalInv, CallInit PROVE LifeInv' /\ SignalInv' /\ FinisKept
<1>1. frames # <<>> /\ Top.call = "init" /\ UNCHANGED <<wanted, finis, registered, ran>>
  BY DEF CallInit, ghostVars
<1>2. IsFrame(Top)
  BY <1>1, TopIsFrame
<1>3. CASE inits # <<>>
  <2> DEFINE g == [Top EXCEPT !.calling = TRUE]
  <2>1. IsFrame(g) /\ g.call = Top.call /\ g.call # "fini"
    BY <1>1, <1>2, Marked
  <2>2. frames' = [frames EXCEPT ![Len(frames)] = g] /\ UNCHANGED <<memhead, signals>>
    BY <1>3, TopMarked DEF CallInit
  <2> HIDE DEF g
  <2>3. LifeInv' /\ SignalInv' /\ (FiniRuns' => FiniRuns)
    BY <1>1, <2>1, <2>2, TopReplaced
  <2> QED BY <1>1, <2>2, <2>3 DEF FinisKept
<1>4. CASE inits = <<>>
  <2>1. frames' = SubSeq(frames, 1, Len(frames) - 1) /\ Leave(memhead)
    BY <1>4 DEF CallInit
  <2> QED BY <1>1, <2>1, TopPopped
<1> QED BY <1>3, <1>4

LEMMA ReturnStep ==
  ASSUME LifeInv, SignalInv, Return
  PROVE  /\ LifeInv' /\ SignalInv' /\ UNCHANGED <<memhead, registered, ran>>
         /\ FiniRuns' => FiniRuns
         /\ finis' = finis \/ (FiniRuns /\ Len(finis) = MAXFINIS /\ finis' = <<>>)
<1>1. /\ frames # <<>> /\ Top.calling /\ UNCHANGED <<wanted, registered, ran>>
      /\ UNCHANGED <<memhead, signals>>
  BY DEF Return, ghostVars
<1>2. IsFrame(Top)
  BY <1>1, TopIsFrame
<1> DEFINE g == [Top EXCEPT !.calling = FALSE]
<1>3. IsFrame(g) /\ g.call = Top.call /\ ~g.calling
  BY <1>2, Marked
<1>4. frames' = [frames EXCEPT ![Len(frames)] = g]
  BY TopMarked DEF Return
<1> HIDE DEF g
<1>5. LifeInv' /\ SignalInv' /\ (FiniRuns' => FiniRuns)
  BY <1>1, <1>3, <1>4, TopReplaced
<1>6. Top.call = "fini" => FiniRuns
  BY <1>1, TopIsFrame DEF FiniRuns
<1> QED BY <1>1, <1>5, <1>6 DEF Return

LEMMA FinaliseStep ==
  ASSUME LifeInv, SignalInv, Finalise PROVE LifeInv' /\ SignalInv' /\ FinisKept
<1> DEFINE g == [call |-> "fini", calling |-> FALSE]
<1>1. IsFrame(g) /\ ~g.calling
  BY DEF IsFrame
<1>2. frames' = <<g>> /\ FramesInv(<<g>>) /\ Len(<<g>>) = 1 /\ <<g>> # <<>>
      /\ <<g>>[1] = g
  BY <1>1, OneFrame DEF Finalise
<1>3. /\ frames = <<>> /\ memhead.init /\ Enter
      /\ UNCHANGED <<wanted, finis, registered, ran>>
  BY DEF Finalise, ghostVars
<1>4. Len(frames) = 0
  BY <1>3, EmptySeq
<1> HIDE DEF g
<1>5. /\ LifeInv' /\ SignalInv'
      /\ memhead'.init = memhead.init /\ memhead'.fini = memhead.fini
  <2>1. Len(frames') = Len(frames) + 1
    BY <1>2, <1>4
  <2>2. FramesInv(frames') /\ frames' # <<>> /\ wanted' = wanted
    BY <1>2, <1>3
  <2> QED BY <1>3, <2>1, <2>2, Entered
<1> QED BY <1>1, <1>2, <1>3, <1>5 DEF FinisKept, FiniRuns

LEMMA CallFiniStep ==
  ASSUME LifeInv, SignalInv, CallFini
  PROVE  /\ LifeInv' /\ SignalInv' /\ memhead.init
         /\ finis # <<>> => memhead' = memhead
         /\ finis = <<>> => ~memhead'.init /\ memhead'.fini /\ ~FiniRuns'
<1>1. frames # <<>> /\ Top.call = "fini" /\ wanted' = wanted /\ memhead.init
  BY DEF CallFini, LifeInv
<1>2. IsFrame(Top) /\ Len(frames) = 1
  BY <1>1, TopIsFrame
<1>3. CASE finis # <<>>
  <2> DEFINE g == [Top EXCEPT !.calling = TRUE]
  <2>1. IsFrame(g) /\ g.call = Top.call
    BY <1>2, Marked
  <2>2. frames' = [frames EXCEPT ![Len(frames)] = g] /\ UNCHANGED <<memhead, signals>>
    BY <1>2, <1>3, TopMarked DEF CallFini
  <2> HIDE DEF g
  <2>3. LifeInv' /\ SignalInv'
    BY <1>1, <2>1, <2>2, TopReplaced
  <2> QED BY <1>1, <1>3, <2>2, <2>3
<1>4. CASE finis = <<>>
  <2> DEFINE m == [memhead EXCEPT !.init = FALSE, !.fini = TRUE]
  <2>1. m \in MemHead /\ m.recur = memhead.recur /\ ~m.init /\ m.fini
    BY DEF LifeInv, MemHead
  <2>2. frames' = <<>> /\ Leave(m)
    BY <1>4 DEF CallFini
  <2>3. SubSeq(frames, 1, Len(frames) - 1) = <<>>
    BY <1>2, SubSeqEmpty
  <2> HIDE DEF m
  <2>4. LifeInv' /\ SignalInv' /\ ~memhead'.init /\ memhead'.fini
    BY <1>1, <1>2, <2>1, <2>2, <2>3, Left
  <2> QED BY <1>1, <1>4, <2>2, <2>4 DEF FiniRuns
<1> QED BY <1>3, <1>4

LEMMA StartWalkStep ==
  ASSUME LifeInv, SignalInv, NEW all, NEW since, StartWalk(all, since)
  PROVE  LifeInv' /\ SignalInv' /\ FinisKept
<1> DEFINE g == [call |-> "walk", calling |-> FALSE, all |-> all, since |-> since,
                 n |-> list[1].slot, p |-> 0, met |-> <<>>, due |-> Due(since)]
<1>1. IsFrame(g) /\ g.call = "walk"
  BY DEF IsFrame
<1>2. /\ frames' = Append(frames, g) /\ Enter /\ memhead.init
      /\ UNCHANGED <<wanted, finis, registered, ran>>
  BY DEF StartWalk, ghostVars, Running
<1> HIDE DEF g
<1>3. /\ FramesInv(frames') /\ Len(frames') = Len(frames) + 1 /\ frames' # <<>>
      /\ frames'[1] = IF frames = <<>> THEN g ELSE frames[1]
  BY <1>1, <1>2, FramePushed DEF LifeInv
<1>4. /\ LifeInv' /\ SignalInv'
      /\ memhead'.init = memhead.init /\ memhead'.fini = memhead.fini
  BY <1>2, <1>3, Entered
<1> QED BY <1>1, <1>2, <1>3, <1>4 DEF FinisKept, FiniRuns

LEMMA WalkOnStep ==
  ASSUME LifeInv, SignalInv, WalkOn PROVE LifeInv' /\ SignalInv' /\ FinisKept
<1>1. /\ frames # <<>> /\ Top.call = "walk"
      /\ UNCHANGED <<wanted, finis, registered, ran>>
  BY DEF WalkOn
<1>2. IsFrame(Top)
  BY <1>1, TopIsFrame
<1>3. CASE Link(Top.n) = -1
  <2>1. frames' = SubSeq(frames, 1, Len(frames) - 1) /\ Leave(memhead)
    BY <1>3 DEF WalkOn
  <2> QED BY <1>1, <2>1, TopPopped
<1>4. CASE Link(Top.n) # -1
  <2> DEFINE x == NodeIn(Top.n)
             g == IF Shown(Top, x)
                  THEN [Top EXCEPT !.calling = TRUE, !.p = Link(Top.n),
                                   !.met = Append(@, x.num)]
                  ELSE [Top EXCEPT !.n = Link(Top.n)]
  <2>1. IsFrame(g) /\ g.call = Top.call /\ g.call # "fini"
    BY <1>1, <1>2 DEF IsFrame
  <2>2. frames' = [frames EXCEPT ![Len(frames)] = g] /\ UNCHANGED <<memhead, signals>>
    BY <1>4 DEF WalkOn
  <2> HIDE DEF g
  <2>3. LifeInv' /\ SignalInv' /\ (FiniRuns' => FiniRuns)
    BY <1>1, <2>1, <2>2, TopReplaced
  <2> QED BY <1>1, <2>2, <2>3 DEF FinisKept
<1> QED BY <1>3, <1>4

LEMMA ReturnShownStep ==
  ASSUME LifeInv, SignalInv, NEW stop, ReturnShown(stop)
  PROVE  LifeInv' /\ SignalInv' /\ FinisKept
<1>1. /\ frames # <<>> /\ Top.call = "walk"
      /\ UNCHANGED <<wanted, finis, registered, ran>>
  BY DEF ReturnShown, ghostVars
<1>2. IsFrame(Top)
  BY <1>1, TopIsFrame
<1>3. CASE stop
  <2>1. frames' = SubSeq(frames, 1, Len(frames) - 1) /\ Leave(memhead)
    BY <1>3 DEF ReturnShown
  <2> QED BY <1>1, <2>1, TopPopped
<1>4. CASE ~stop
  <2> DEFINE g == [Top EXCEPT !.calling = FALSE, !.n = Top.p]
  <2>1. IsFrame(g) /\ g.call = Top.call /\ g.call # "fini"
    BY <1>1, <1>2 DEF IsFrame
  <2>2. frames' = [frames EXCEPT ![Len(frames)] = g] /\ UNCHANGED <<memhead, signals>>
    BY <1>4 DEF ReturnShown, Top
  <2> HIDE DEF g
  <2>3. LifeInv' /\ SignalInv' /\ (FiniRuns' => FiniRuns)
    BY <1>1, <2>1, <2>2, TopReplaced
  <2> QED BY <1>1, <2>2, <2>3 DEF FinisKept
<1> QED BY <1>3, <1>4

\* The program's own calls that the library answers at once.
PlainCall ==
    \/ \E b \in BOOLEAN : SetSafe(b)
    \/ DeleteCalls \/ HeapCalls

LEMMA PlainStep ==
  ASSUME LifeInv, SignalInv, PlainCall PROVE LifeInv' /\ SignalInv' /\ FinisKept
<1>1. memhead \in MemHead
  BY DEF LifeInv, MemHead
<1>2. ASSUME NEW b \in BOOLEAN, SetSafe(b) PROVE LifeInv' /\ SignalInv' /\ FinisKept
  <2> DEFINE m == [memhead EXCEPT !.safe = b]
  <2>1. /\ m \in MemHead /\ m.recur = memhead.recur
        /\ m.init = memhead.init /\ m.fini = memhead.fini
    BY <1>1 DEF MemHead
  <2>2. /\ Through(m) /\ memhead' = m
        /\ UNCHANGED <<frames, wanted, finis, registered, ran>>
    BY <1>2 DEF SetSafe, Through, ghostVars
  <2> HIDE DEF m
  <2>3. Through(memhead')
    BY <2>2
  <2> QED BY <2>1, <2>2, <2>3, FramesUnchanged
<1>3. CASE DeleteCalls
  <2>1. UNCHANGED <<memhead, signals, frames, wanted, finis, registered, ran>>
    BY <1>3 DEF DeleteCalls, PushDelete, EndDelete, PlainDelete, PopDelete, lifeVars
  <2> QED BY <1>1, <2>1, FramesUnchanged
<1>4. CASE HeapCalls
  <2>1. Through(memhead) /\ UNCHANGED <<frames, wanted, finis, registered, ran>>
    BY <1>4 DEF HeapCalls, Malloc, Free, ghostVars
  <2>2. memhead' = memhead /\ Through(memhead')
    BY <2>1 DEF Through
  <2> QED BY <1>1, <2>1, <2>2, FramesUnchanged
<1> QED BY <1>2, <1>3, <1>4 DEF PlainCall

LEMMA InstallStep ==
  ASSUME LifeInv, SignalInv, NEW h \in {"default", "handler"}, Install(h)
  PROVE  LifeInv' /\ SignalInv' /\ FinisKept
<1>1. UNCHANGED <<memhead, frames, finis, registered, ran>>
  BY DEF Install, lifeVars
<1>2. LifeInv' /\ FinisKept
  BY <1>1 DEF LifeInv, FinisKept, FiniRuns
<1>3. ~signals.saved /\ signals' = [signals EXCEPT !.now = h] /\ wanted' = h
  BY DEF Install, SignalInv
<1>4. SignalInv'
  BY <1>3 DEF SignalInv, Behaviour
<1> QED BY <1>2, <1>4

LEMMA AtExitStep ==
  ASSUME LifeInv, SignalInv, AtExit
  PROVE  LifeInv' /\ SignalInv' /\ memhead' = memhead /\ (FiniRuns' => FiniRuns)
<1>1. Through(memhead) /\ UNCHANGED <<frames, wanted>>
  BY DEF AtExit
<1>2. memhead' = memhead /\ Through(memhead') /\ memhead \in MemHead
  BY <1>1 DEF Through, LifeInv, MemHead
<1>3. FramesInv(frames') /\ (FiniRuns' => FiniRuns)
  BY <1>1 DEF LifeInv, FiniRuns
<1>4. LifeInv' /\ SignalInv'
  BY <1>1, <1>2, <1>3, Stayed
<1> QED BY <1>2, <1>3, <1>4

-----------------------------------------------------------------------------
(***************************************************************************)
(* Functions called at the end                                             *)
(***************************************************************************)
EndInv == FinisInv /\ RanInv /\ (CAREFUL => AllRunInv)

LEMMA EndKept == ASSUME EndInv, FinisKept PROVE EndInv'
<1>1. /\ UNCHANGED <<finis, registered, ran>> /\ (FiniRuns' => FiniRuns)
      /\ memhead'.init = memhead.init /\ memhead'.fini = memhead.fini
  BY DEF FinisKept
<1> QED BY <1>1 DEF EndInv, FinisInv, RanInv, AllRunInv

LEMMA EndInitialise ==
  ASSUME EndInv, Initialise, ~FiniRuns', LibraryAssumption PROVE EndInv'
<1>1. /\ memhead'.init /\ ~memhead'.fini /\ ran = <<>> /\ ran' = ran
      /\ \/ finis' = <<>>
         \/ finis' = <<1>>
      /\ registered' = [k \in 1..Len(finis') |-> 0]
  BY DEF Initialise, EndInv, FinisInv
<1>2. Len(ran') = 0 /\ ran' \in Seq(Nat)
  BY <1>1, EmptySeq
<1>3. /\ finis' \in Seq(Nat) /\ Len(finis') <= 1
      /\ \A k \in 1..Len(finis') : finis'[k] = 1
  <2>1. CASE finis' = <<>>
    BY <2>1, EmptySeq
  <2>2. CASE finis' = <<1>>
    BY <2>2
  <2> QED BY <1>1, <2>1, <2>2
<1>4. registered' \in Seq(Nat) /\ Len(registered') = Len(finis')
  BY <1>1, <1>3
<1>5. FinisInv'
  BY <1>1, <1>2, <1>3, <1>4 DEF FinisInv, LibraryAssumption
<1>6. RanInv'
  BY <1>2 DEF RanInv
<1>7. AllRunInv'
  BY <1>1, <1>2, <1>3, <1>4 DEF AllRunInv
<1> QED BY <1>5, <1>6, <1>7 DEF EndInv

\* A function that is registered waits behind those that do.
LEMMA EndAtExit ==
  ASSUME LifeInv, EndInv, AtExit, memhead' = memhead, FiniRuns' => FiniRuns,
         LibraryAssumption
  PROVE  EndInv'
<1> DEFINE m == Len(registered) + 1
<1>1. /\ finis \in Seq(Nat) /\ registered \in Seq(Nat) /\ ran \in Seq(Nat)
      /\ Len(finis) \in Nat /\ Len(registered) \in Nat /\ Len(ran) \in Nat
      /\ m \in Nat /\ ran' = ran /\ memhead.init
  BY DEF EndInv, FinisInv, AtExit, Running
<1>2. CASE ~HasRoom
  <2>1. UNCHANGED <<finis, registered, ran>>
    BY <1>2 DEF AtExit
  <2>2. FinisKept
    BY <2>1 DEF FinisKept
  <2> QED BY <2>2, EndKept
<1>3. CASE HasRoom
  <2>1. registered' = Append(registered, Len(ran)) /\ finis' = Append(finis, m)
    <3>1. /\ registered' = Append(registered, Len(ran))
          /\ finis' = Append(finis, Len(registered'))
      BY <1>3 DEF AtExit
    <3>2. Len(registered') = m
      BY <1>1, <3>1
    <3> QED BY <3>1, <3>2
  <2>2. /\ registered' \in Seq(Nat) /\ Len(registered') = m
        /\ registered'[m] = Len(ran)
        /\ \A k \in 1..Len(registered) : registered'[k] = registered[k]
    BY <1>1, <2>1, AppendProperties
  <2>3. /\ finis' \in Seq(Nat) /\ Len(finis') = Len(finis) + 1
        /\ finis'[Len(finis) + 1] = m
        /\ \A k \in 1..Len(finis) : finis'[k] = finis[k]
    BY <1>1, <2>1, AppendProperties
  <2>4. Len(finis) < MAXFINIS
    BY <1>3 DEF HasRoom
  <2>5. \A k \in 1..Len(finis) : finis[k] \in 1..Len(registered)
    BY DEF EndInv, FinisInv
  <2> HIDE DEF m
  <2>6. m = Len(registered) + 1
    BY DEF m
  <2>7. FinisInv'
    <3>0. \A k \in 1..Len(finis') : k \in 1..Len(finis) \/ k = Len(finis) + 1
      BY <1>1, <2>3
    <3>1. \A k \in 1..Len(finis') : finis'[k] \in 1..m
      <4>1. \A k \in 1..Len(registered) : k \in 1..m /\ k < m
        BY <1>1, <2>6
      <4>2. m \in 1..m
        BY <1>1, <2>6
      <4> QED BY <2>3, <2>5, <3>0, <4>1, <4>2
    <3>2. \A k, l \in 1..Len(finis') : k < l => finis'[k] < finis'[l]
      <4>1. \A k, l \in 1..Len(finis) : k < l => finis[k] < finis[l]
        BY DEF EndInv, FinisInv
      <4>2. ASSUME NEW k \in 1..Len(finis'), NEW l \in 1..Len(finis'), k < l
            PROVE  finis'[k] < finis'[l]
        <5>1. k \in 1..Len(finis)
          BY <1>1, <2>3, <4>2
        <5>2. CASE l \in 1..Len(finis)
          BY <2>3, <4>1, <4>2, <5>1, <5>2
        <5>3. CASE l = Len(finis) + 1
          <6>1. finis'[l] = m /\ finis'[k] \in 1..Len(registered)
            BY <2>3, <2>5, <5>1, <5>3
          <6> QED BY <1>1, <2>6, <6>1
        <5> QED BY <3>0, <5>2, <5>3
      <4> QED BY <4>2
    <3>3. Len(finis') <= MAXFINIS
      BY <1>1, <2>3, <2>4 DEF LibraryAssumption
    <3> QED BY <1>1, <2>2, <2>3, <3>1, <3>2, <3>3 DEF FinisInv
  <2>8. RanInv'
    <3>1. \A i \in 1..Len(ran) : ran[i] \in 1..Len(registered)
      BY DEF EndInv, RanInv
    <3>2. \A i, j \in 1..Len(ran) :
            /\ i # j => ran[i] # ran[j]
            /\ i < j /\ ran[i] < ran[j] => registered'[ran[j]] >= i
      BY <2>2, <3>1 DEF EndInv, RanInv
    <3>3. ASSUME NEW i \in 1..Len(ran), NEW k \in 1..Len(finis')
          PROVE  /\ ran[i] # finis'[k]
                 /\ ran[i] < finis'[k] => registered'[finis'[k]] >= i
      <4>1. CASE k = Len(finis) + 1
        <5>1. finis'[k] = m /\ registered'[m] = Len(ran)
          BY <2>2, <2>3, <4>1
        <5>2. ran[i] # m /\ Len(ran) >= i
          BY <1>1, <2>6, <3>1
        <5> QED BY <5>1, <5>2
      <4>2. CASE k # Len(finis) + 1
        <5>1. k \in 1..Len(finis)
          BY <1>1, <2>3, <4>2
        <5>2. finis'[k] = finis[k] /\ registered'[finis[k]] = registered[finis[k]]
          BY <2>2, <2>3, <2>5, <5>1
        <5> QED BY <5>1, <5>2 DEF EndInv, RanInv
      <4> QED BY <4>1, <4>2
    <3>4. \A i \in 1..Len(ran) : ran[i] \in 1..m
      BY <1>1, <2>6, <3>1
    <3> QED BY <1>1, <2>2, <3>2, <3>3, <3>4 DEF RanInv
  <2>9. CAREFUL => AllRunInv'
    <3>1. SUFFICES ASSUME CAREFUL PROVE AllRunInv'
      OBVIOUS
    <3>2. FiniRuns => Len(finis) + 1 < MAXFINIS
      BY <3>1 DEF AtExit, FiniRuns
    <3>3. memhead.init => ~memhead.fini
      BY DEF LifeInv
    <3> QED BY <1>1, <2>2, <2>3, <2>6, <3>1, <3>2, <3>3 DEF AllRunInv, EndInv
  <2> QED BY <2>7, <2>8, <2>9 DEF EndInv
<1> QED BY <1>2, <1>3

\* The last function that waits is called.
LEMMA EndCallFini ==
  ASSUME EndInv, CallFini, memhead.init,
         finis # <<>> => memhead' = memhead,
         finis = <<>> => ~memhead'.init /\ memhead'.fini /\ ~FiniRuns',
         LibraryAssumption
  PROVE  EndInv'
<1>1. /\ finis \in Seq(Nat) /\ registered \in Seq(Nat) /\ ran \in Seq(Nat)
      /\ Len(finis) \in Nat /\ Len(registered) \in Nat /\ Len(ran) \in Nat
      /\ registered' = registered
  <2>1. registered' = registered
    BY DEF CallFini
  <2> QED BY <2>1 DEF EndInv, FinisInv
<1>2. CASE finis = <<>>
  <2>1. UNCHANGED <<finis, ran>> /\ Len(finis) = 0
    BY <1>2, EmptySeq DEF CallFini
  <2>2. FinisInv' /\ RanInv'
    BY <1>1, <1>2, <2>1 DEF EndInv, FinisInv, RanInv
  <2>3. CAREFUL => AllRunInv'
    BY <1>1, <1>2, <2>1 DEF EndInv, AllRunInv
  <2> QED BY <2>2, <2>3 DEF EndInv
<1>3. CASE finis # <<>>
  <2> DEFINE n == Len(finis)
             x == finis[n]
             r == n - 1
             rest == SubSeq(finis, 1, r)
  <2>1. n \in Nat \ {0} /\ r \in Nat /\ n = r + 1
    BY <1>1, <1>3, EmptySeq
  <2>2. /\ rest \in Seq(Nat) /\ Len(rest) = r /\ \A k \in 1..r : rest[k] = finis[k]
        /\ x \in Nat
    <3>1. \A i \in 1..n : finis[i] \in Nat
      BY <1>1, ElementOfSeq
    <3>2. \A i \in 1..r : finis[i] \in Nat
      BY <2>1, <3>1
    <3>3. x \in Nat
      BY <2>1, <3>1
    <3> HIDE DEF n, r
    <3> QED BY <2>1, <3>2, <3>3, SubSeqProperties
  <2>3. finis' = rest
    <3>1. SubSeq(finis, n + 1, n) = <<>>
      BY <2>1, SubSeqEmpty
    <3>2. finis' = rest \o SubSeq(finis, n + 1, n)
      BY <1>3 DEF CallFini, NextFini
    <3> HIDE DEF rest, n
    <3> QED BY <2>2, <3>1, <3>2, ConcatEmptySeq
  <2>4. ran' = Append(ran, x)
    BY <1>3 DEF CallFini, NextFini
  <2>5. /\ ran' \in Seq(Nat) /\ Len(ran') = Len(ran) + 1 /\ ran'[Len(ran) + 1] = x
        /\ \A i \in 1..Len(ran) : ran'[i] = ran[i]
    BY <1>1, <2>2, <2>4, AppendProperties
  <2>6. /\ \A k \in 1..n : finis[k] \in 1..Len(registered)
        /\ \A k, l \in 1..n : k < l => finis[k] < finis[l]
        /\ n <= MAXFINIS
    BY DEF EndInv, FinisInv
  <2>7. /\ x \in 1..Len(registered)
        /\ \A k \in 1..r : finis[k] < x
    BY <2>1, <2>6
  <2>8. memhead' = memhead
    BY <1>3
  <2> DEFINE q == Len(ran)
  <2>9. \A i \in 1..q : ran[i] # x /\ (ran[i] < x => registered[x] >= i)
    BY <1>1, <2>1 DEF EndInv, RanInv
  <2>10. \A i \in 1..q : ran[i] \in 1..Len(registered)
    BY DEF EndInv, RanInv
  <2> HIDE DEF n, x, r, rest
  <2>11. FinisInv'
    <3>1. \A k, l \in 1..r : k < l => rest[k] < rest[l]
      BY <2>1, <2>2, <2>6
    <3>2. \A k \in 1..r : rest[k] \in 1..Len(registered)
      BY <2>1, <2>2, <2>6
    <3>3. r <= MAXFINIS
      BY <2>1, <2>6 DEF LibraryAssumption
    <3> QED BY <1>1, <2>2, <2>3, <2>5, <2>8, <3>1, <3>2, <3>3 DEF FinisInv
  <2>12. RanInv'
    <3>1. \A i \in 1..q + 1 : i \in 1..q \/ i = q + 1
      BY <1>1
    <3>2. \A i \in 1..q + 1 : ran'[i] \in 1..Len(registered)
      BY <2>5, <2>7, <2>10, <3>1
    <3>3. ASSUME NEW i \in 1..q + 1, NEW j \in 1..q + 1
          PROVE  /\ i # j => ran'[i] # ran'[j]
                 /\ i < j /\ ran'[i] < ran'[j] => registered[ran'[j]] >= i
      <4>1. CASE i \in 1..q /\ j \in 1..q
        BY <2>5, <4>1 DEF EndInv, RanInv
      <4>2. CASE i \in 1..q /\ j = q + 1
        BY <2>5, <2>9, <4>2
      <4>3. CASE i = q + 1 /\ j \in 1..q
        <5>1. ran'[i] = x /\ ran'[j] = ran[j] /\ ran[j] # x
          BY <2>5, <2>9, <4>3
        <5>2. ~(i < j)
          BY <1>1, <4>3
        <5> QED BY <5>1, <5>2
      <4>4. CASE i = q + 1 /\ j = q + 1
        BY <1>1, <4>4
      <4> QED BY <3>1, <4>1, <4>2, <4>3, <4>4
    <3>4. ASSUME NEW i \in 1..q + 1, NEW k \in 1..r
          PROVE  /\ ran'[i] # rest[k]
                 /\ ran'[i] < rest[k] => registered[rest[k]] >= i
      <4>1. k \in 1..n /\ rest[k] = finis[k]
        BY <2>1, <2>2
      <4>2. CASE i \in 1..q
        BY <2>5, <4>1, <4>2 DEF EndInv, RanInv, n
      <4>3. CASE i = q + 1
        <5>1. ran'[i] = x /\ rest[k] < x /\ rest[k] \in Nat /\ x \in Nat
          BY <2>2, <2>5, <2>7, <4>1, <4>3
        <5> QED BY <5>1
      <4> QED BY <3>1, <4>2, <4>3
    <3> QED BY <1>1, <2>2, <2>3, <2>5, <3>2, <3>3, <3>4 DEF RanInv
  <2>13. CAREFUL => AllRunInv'
    <3>1. SUFFICES ASSUME CAREFUL PROVE AllRunInv'
      OBVIOUS
    <3>2. Len(ran) + n = Len(registered) /\ r < MAXFINIS
      BY <2>1, <2>6, <3>1 DEF EndInv, AllRunInv, n, LibraryAssumption
    <3>3. memhead.fini => Len(ran) = Len(registered)
      BY <3>1 DEF EndInv, AllRunInv
    <3>4. ~memhead.fini
      BY <1>1, <2>1, <3>2, <3>3
    <3>5. Len(finis') = r /\ Len(ran') + r = Len(registered)
      BY <1>1, <2>1, <2>2, <2>3, <2>5, <3>2
    <3> QED BY <1>1, <2>8, <3>2, <3>4, <3>5 DEF AllRunInv
  <2> QED BY <2>11, <2>12, <2>13 DEF EndInv
<1> QED BY <1>2, <1>3

LEMMA EndReturn ==
  ASSUME LifeInv, EndInv, UNCHANGED <<memhead, registered, ran>>, FiniRuns' => FiniRuns,
         finis' = finis \/ (FiniRuns /\ Len(finis) = MAXFINIS /\ finis' = <<>>),
         LibraryAssumption
  PROVE  EndInv'
<1>1. CASE finis' = finis
  <2>1. FinisKept
    BY <1>1 DEF FinisKept
  <2> QED BY <2>1, EndKept
<1>2. CASE FiniRuns /\ Len(finis) = MAXFINIS /\ finis' = <<>>
  <2>1. ~CAREFUL
    BY <1>2 DEF EndInv, AllRunInv, LibraryAssumption
  <2>2. finis' \in Seq(Nat) /\ Len(finis') = 0
    BY <1>2, EmptySeq
  <2>3. FinisInv' /\ RanInv'
    BY <2>2 DEF EndInv, FinisInv, RanInv, LibraryAssumption
  <2> QED BY <2>1, <2>3 DEF EndInv
<1> QED BY <1>1, <1>2

-----------------------------------------------------------------------------
(***************************************************************************)
(* The delete stack                                                        *)
(***************************************************************************)
LEMMA PlaceInStack ==
  ASSUME NEW n \in Nat \ {0}, NEW d \in 0..n - 1 PROVE d % n = d
  OBVIOUS

LEMMA DeletePush ==
  ASSUME DeleteInv, PushDelete, LibraryAssumption PROVE DeleteInv'
<1> DEFINE n == Len(pending) + 1
<1>1. /\ pending \in Seq(Nat) /\ Len(pending) \in Nat /\ n \in Nat /\ plain \in Nat
      /\ UNCHANGED <<told, plain>> /\ delpos' = delpos + 1
      /\ delpos = Len(pending) - plain /\ MAXDELSTACK \in Nat \ {0}
  BY DEF DeleteInv, PushDelete, LibraryAssumption
<1>2. pending' = Append(pending, plain)
  BY DEF PushDelete
<1>3. /\ pending' \in Seq(Nat) /\ Len(pending') = n
      /\ pending'[n] = plain /\ \A i \in 1..Len(pending) : pending'[i] = pending[i]
  BY <1>1, <1>2, AppendProperties
<1>4. DeletionsTold'
  BY <1>1 DEF DeleteInv, DeletionsTold
<1>5. delpos = n - 1 - plain /\ delpos \in Int
  BY <1>1
<1>6. /\ dels' \in [0..MAXDELSTACK - 1 -> Nat]
      /\ \A d \in 0..MAXDELSTACK - 1 : dels'[d] = IF d = delpos THEN n ELSE dels[d]
  <2>1. CASE Stored(delpos)
    <3>1. delpos \in 0..MAXDELSTACK - 1
      BY <1>1, <1>5, <2>1 DEF Stored
    <3>2. delpos % MAXDELSTACK = delpos
      BY <1>1, <3>1, PlaceInStack
    <3>3. dels' = [dels EXCEPT ![delpos] = n]
      BY <2>1, <3>2 DEF PushDelete
    <3> HIDE DEF n
    <3> QED BY <1>1, <3>1, <3>3 DEF DeleteInv
  <2>2. CASE ~Stored(delpos)
    <3>1. dels' = dels /\ \A d \in 0..MAXDELSTACK - 1 : d # delpos
      BY <1>1, <1>5, <2>2 DEF PushDelete, Stored
    <3> QED BY <3>1 DEF DeleteInv
  <2> QED BY <2>1, <2>2
<1>7. Placed(pending', plain, dels')
  <2> HIDE DEF n
  <2> SUFFICES ASSUME NEW i \in 1..n
               PROVE  /\ pending'[i] <= plain
                      /\ pending'[i] = plain /\ i - 1 - plain \in 0..MAXDELSTACK - 1
                           => dels'[i - 1 - plain] = i
    BY <1>3 DEF Placed
  <2>1. CASE i = n
    BY <1>1, <1>3, <1>5, <1>6, <2>1
  <2>2. CASE i # n
    <3>1. i \in 1..Len(pending)
      BY <1>1, <2>2 DEF n
    <3>4. pending'[i] = pending[i]
      BY <1>3, <3>1
    <3>2. /\ pending[i] <= plain
          /\ pending[i] = plain /\ i - 1 - plain \in 0..MAXDELSTACK - 1
               => dels[i - 1 - plain] = i
      BY <3>1 DEF DeleteInv, Placed
    <3>3. i - 1 - plain # delpos
      BY <1>1, <1>5, <2>2
    <3> QED BY <1>6, <3>2, <3>3, <3>4
  <2> QED BY <2>1, <2>2
<1>8. delpos' = Len(pending') - plain
  BY <1>1, <1>3
<1> QED BY <1>1, <1>3, <1>4, <1>6, <1>7, <1>8 DEF DeleteInv

\* A deletion with a position that nothing was mixed with is the last of those
\* that are in their places.
LEMMA DeleteEnd ==
  ASSUME DeleteInv, EndDelete, LibraryAssumption PROVE DeleteInv'
<1> DEFINE n == Len(pending)
           d == delpos - 1
           got == IF d >= 0 /\ d < MAXDELSTACK THEN dels[d] ELSE 0
           m == n - 1
<1>1. /\ pending \in Seq(Nat) /\ pending # <<>> /\ plain \in Nat
      /\ delpos = n - plain /\ MAXDELSTACK \in Nat \ {0}
  BY DEF DeleteInv, EndDelete, LibraryAssumption
<1>2. n \in Nat \ {0} /\ m \in Nat /\ d = n - 1 - plain /\ d \in Int
  BY <1>1, EmptySeq
<1>3. /\ told' = [own |-> n, before |-> pending[n], mixed |-> pending[n] # plain,
                  got |-> got]
      /\ delpos' = d /\ pending' = SubSeq(pending, 1, m) /\ UNCHANGED <<dels, plain>>
  BY DEF EndDelete, PopDelete
<1>4. \A i \in 1..n :
        /\ pending[i] <= plain
        /\ pending[i] = plain /\ i - 1 - plain \in 0..MAXDELSTACK - 1
             => dels[i - 1 - plain] = i
  BY DEF DeleteInv, Placed
<1>5. DeletionsTold'
  <2> SUFFICES ASSUME pending[n] = plain
               PROVE  got = IF n - pending[n] \in 1..MAXDELSTACK THEN n ELSE 0
    BY <1>3 DEF DeletionsTold
  <2>1. d \in 0..MAXDELSTACK - 1 => dels[d] = n
    BY <1>2, <1>4
  <2>2. /\ d \in 0..MAXDELSTACK - 1 <=> d >= 0 /\ d < MAXDELSTACK
        /\ d \in 0..MAXDELSTACK - 1 <=> n - pending[n] \in 1..MAXDELSTACK
    BY <1>1, <1>2
  <2> QED BY <2>1, <2>2
<1>6. pending' \in Seq(Nat) /\ Len(pending') = m
      /\ \A i \in 1..m : pending'[i] = pending[i]
  <2>1. \A i \in 1..m : i \in 1..n /\ pending[i] \in Nat
    BY <1>1, <1>2
  <2> HIDE DEF m, n
  <2>2. /\ SubSeq(pending, 1, m) \in Seq(Nat)
        /\ Len(SubSeq(pending, 1, m)) = IF 1 <= m THEN m - 1 + 1 ELSE 0
        /\ \A i \in 1..m - 1 + 1 : SubSeq(pending, 1, m)[i] = pending[1 + i - 1]
    BY <1>2, <2>1, SubSeqProperties
  <2> QED BY <1>2, <1>3, <2>2
<1>7. Placed(pending', plain, dels)
  <2>1. \A i \in 1..m : i \in 1..n
    BY <1>2
  <2> HIDE DEF m, n
  <2> QED BY <1>4, <1>6, <2>1 DEF Placed
<1>8. delpos' = Len(pending') - plain
  BY <1>2, <1>3, <1>6
<1>9. dels' \in [0..MAXDELSTACK - 1 -> Nat] /\ UNCHANGED <<dels, plain>>
  BY <1>3 DEF DeleteInv
<1> QED BY <1>1, <1>5, <1>6, <1>7, <1>8, <1>9 DEF DeleteInv

\* One without a position leaves none of them in its place, and if there are none
\* the top of the stack is below its first place.
LEMMA DeletePlain ==
  ASSUME DeleteInv, PlainDelete, LibraryAssumption PROVE DeleteInv'
<1> DEFINE d == delpos - 1
           got == IF d >= 0 /\ d < MAXDELSTACK THEN dels[d] ELSE 0
<1>1. /\ pending \in Seq(Nat) /\ plain \in Nat /\ Len(pending) \in Nat
      /\ delpos = Len(pending) - plain /\ MAXDELSTACK \in Nat \ {0}
      /\ (pending = <<>> => Len(pending) = 0)
  BY DEF DeleteInv, LibraryAssumption
<1>2. /\ told' = [own |-> 0, before |-> plain, mixed |-> pending # <<>>, got |-> got]
      /\ delpos' = d /\ plain' = plain + 1 /\ UNCHANGED <<dels, pending>>
  BY DEF PlainDelete, PopDelete
<1>3. DeletionsTold'
  <2>1. told'.own = 0 /\ told'.got = got /\ told'.mixed = (pending # <<>>)
    BY <1>2
  <2>2. pending = <<>> => got = 0
    BY <1>1
  <2>3. told'.mixed \/ told'.got = 0
    BY <2>1, <2>2
  <2> QED BY <2>1, <2>3 DEF DeletionsTold
<1>4. \A i \in 1..Len(pending) : pending[i] <= plain /\ pending[i] \in Nat
  BY <1>1 DEF DeleteInv, Placed
<1>5. \A i \in 1..Len(pending) : pending[i] <= plain + 1 /\ pending[i] # plain + 1
  BY <1>1, <1>4
<1>6. Placed(pending, plain + 1, dels)
  BY <1>5 DEF Placed
<1>7. plain + 1 \in Nat /\ delpos' = Len(pending) - (plain + 1)
  BY <1>1, <1>2
<1>8. dels \in [0..MAXDELSTACK - 1 -> Nat]
  BY DEF DeleteInv
<1> QED BY <1>1, <1>2, <1>3, <1>6, <1>7, <1>8 DEF DeleteInv

LEMMA DeleteKept ==
  ASSUME DeleteInv, UNCHANGED <<delVars, pending, told, plain>> PROVE DeleteInv'
  BY DEF DeleteInv, DeletionsTold, delVars

LEMMA DeleteStep ==
  ASSUME DeleteInv, [LibraryNext]_libraryVars, LibraryAssumption PROVE DeleteInv'
<1>1. CASE PushDelete
  BY <1>1, DeletePush
<1>2. CASE EndDelete
  BY <1>2, DeleteEnd
<1>3. CASE PlainDelete
  BY <1>3, DeletePlain
<1>4. CASE LifeNext \/ WalkCalls \/ ExitCalls
  BY <1>4, DeleteKept
     DEF LifeNext, WalkCalls, ExitCalls, Initialise, CallInit, Finalise, CallFini,
         Return, WalkOn, ReturnShown, StartWalk, AtExit, ghostVars
<1>5. CASE SignalCalls \/ HeapCalls
  BY <1>5, DeleteKept
     DEF SignalCalls, HeapCalls, Install, SetSafe, Malloc, Free, ghostVars
<1>6. CASE UNCHANGED libraryVars
  BY <1>6, DeleteKept DEF libraryVars, ghostVars
<1> QED BY <1>1, <1>2, <1>3, <1>4, <1>5, <1>6 DEF LibraryNext, DeleteCalls

-----------------------------------------------------------------------------
(***************************************************************************)
(* All together                                                            *)
(***************************************************************************)
IInv == LifeInv /\ SignalInv /\ EndInv /\ DeleteInv

LEMMA InitIInv == LibraryInit => IInv
<1> SUFFICES ASSUME LibraryInit PROVE IInv
  OBVIOUS
<1> USE LibraryAssumption DEF LibraryInit
<1>1. LifeInv
  <2>1. frames \in Seq({}) /\ Len(frames) = 0 /\ 0 \in Nat
    BY EmptySeq
  <2>2. FramesInv(frames)
    BY <2>1 DEF FramesInv
  <2> QED BY <2>1, <2>2 DEF LifeInv
<1>2. SignalInv
  BY DEF SignalInv, Behaviour
<1>3. EndInv
  <2>1. /\ finis \in Seq(Nat) /\ registered \in Seq(Nat) /\ ran \in Seq(Nat)
        /\ Len(finis) = 0 /\ Len(registered) = 0 /\ Len(ran) = 0
    BY EmptySeq
  <2>2. FinisInv
    BY <2>1 DEF FinisInv
  <2>3. RanInv
    BY <2>1 DEF RanInv
  <2>4. AllRunInv
    BY <2>1 DEF AllRunInv, FiniRuns
  <2> QED BY <2>2, <2>3, <2>4 DEF EndInv
<1>4. DeleteInv
  <2>1. pending \in Seq(Nat) /\ Len(pending) = 0 /\ plain \in Nat /\ plain = 0
    BY EmptySeq
  <2>2. dels \in [0..MAXDELSTACK - 1 -> Nat] /\ delpos = 0
    OBVIOUS
  <2>3. told.own = 0 /\ told.got = 0
    OBVIOUS
  <2>4. DeletionsTold
    BY <2>3 DEF DeletionsTold
  <2>5. Placed(pending, plain, dels)
    BY <2>1 DEF Placed
  <2>6. delpos = Len(pending) - plain
    BY <2>1, <2>2
  <2> QED BY <2>1, <2>2, <2>4, <2>5, <2>6, Zenon DEF DeleteInv
<1> QED BY <1>1, <1>2, <1>3, <1>4 DEF IInv

\* Each step of the library and of the program keeps IInv.
LEMMA NextIInv == IInv /\ [LibraryNext]_libraryVars => IInv'
<1> SUFFICES ASSUME IInv, [LibraryNext]_libraryVars PROVE IInv'
  OBVIOUS
<1>1. LifeInv /\ SignalInv /\ EndInv /\ DeleteInv
  BY DEF IInv
<1>2. DeleteInv'
  BY <1>1, DeleteStep, LibraryAssumption
<1>3. SUFFICES LifeInv' /\ SignalInv' /\ EndInv'
  BY <1>2 DEF IInv
<1>4. CASE LifeInv' /\ SignalInv' /\ FinisKept
  BY <1>1, <1>4, EndKept
<1>5. CASE Initialise
  BY <1>1, <1>5, InitialiseStep, EndInitialise, LibraryAssumption
<1>6. CASE CallInit
  BY <1>1, <1>4, <1>6, CallInitStep
<1>7. CASE Finalise
  BY <1>1, <1>4, <1>7, FinaliseStep
<1>8. CASE CallFini
  BY <1>1, <1>8, CallFiniStep, EndCallFini, LibraryAssumption
<1>9. CASE Return
  BY <1>1, <1>9, ReturnStep, EndReturn, LibraryAssumption
<1>10. CASE WalkOn
  BY <1>1, <1>4, <1>10, WalkOnStep
<1>11. ASSUME NEW stop \in BOOLEAN, ReturnShown(stop)
       PROVE  LifeInv' /\ SignalInv' /\ EndInv'
  BY <1>1, <1>4, <1>11, ReturnShownStep
<1>12. ASSUME NEW all \in BOOLEAN, NEW since \in {0, 1}, StartWalk(all, since)
       PROVE  LifeInv' /\ SignalInv' /\ EndInv'
  BY <1>1, <1>4, <1>12, StartWalkStep
<1>13. CASE AtExit
  BY <1>1, <1>13, AtExitStep, EndAtExit, LibraryAssumption
<1>14. ASSUME NEW h \in {"default", "handler"}, Install(h)
       PROVE  LifeInv' /\ SignalInv' /\ EndInv'
  BY <1>1, <1>4, <1>14, InstallStep
<1>15. CASE PlainCall
  BY <1>1, <1>4, <1>15, PlainStep
<1>16. CASE UNCHANGED libraryVars
  <2>1. UNCHANGED <<memhead, frames, finis, signals, wanted, registered, ran>>
    BY <1>16 DEF libraryVars, lifeVars, ghostVars
  <2>2. LifeInv' /\ SignalInv' /\ FinisKept
    BY <1>1, <2>1 DEF LifeInv, SignalInv, FinisKept, FiniRuns
  <2> QED BY <1>4, <2>2
<1> QED
  BY <1>5, <1>6, <1>7, <1>8, <1>9, <1>10, <1>11, <1>12, <1>13, <1>14, <1>15, <1>16
     DEF LibraryNext, LifeNext, WalkCalls, ExitCalls, SignalCalls, PlainCall

LEMMA AlwaysIInv == LibrarySpec => []IInv
<1>1. LibraryInit => IInv
  BY InitIInv
<1>2. IInv /\ [LibraryNext]_libraryVars => IInv'
  BY NextIInv
<1> QED BY <1>1, <1>2, PTL DEF LibrarySpec

\* Outside the library SIGINT does what the program wants, and nothing in a call
\* that began under SAFESIGNALS, however calls are nested and whatever becomes of
\* that option: savesignals() and restoresignals() in inter.c.
THEOREM SignalsAreHeld == LibrarySpec => []SignalsHeld
<1>1. IInv => SignalsHeld
  <2> SUFFICES ASSUME IInv PROVE SignalsHeld
    OBVIOUS
  <2>1. LifeInv /\ SignalInv
    BY DEF IInv
  <2> QED BY <2>1, NoFrames DEF SignalInv, SignalsHeld
<1> QED BY <1>1, AlwaysIInv, PTL

\* The delete stack of inter.c tells a deletion its own position if there is a place
\* for it, and none otherwise, for a stack of any size and deletions nested to any
\* depth, as long as those with and those without a position are not mixed.
THEOREM DeletionsAreTold == LibrarySpec => []DeletionsTold
<1>1. IInv => DeletionsTold
  BY DEF IInv, DeleteInv
<1> QED BY <1>1, AlwaysIInv, PTL

\* If no function that __mp_fini() calls fills the table of them up, all that have
\* been registered run, each once and in the right order.
THEOREM FinishersDoRun == ASSUME CAREFUL PROVE LibrarySpec => []FinishersRun
<1>1. IInv => FinishersRun
  <2> SUFFICES ASSUME IInv PROVE FinishersRun
    OBVIOUS
  <2>1. RanInv /\ AllRunInv
    BY DEF IInv, EndInv
  <2> QED BY <2>1 DEF RanInv, AllRunInv, FinishersRun
<1> QED BY <1>1, AlwaysIInv, PTL
-----------------------------------------------------------------------------
(***************************************************************************)
(* The tools: what holds of blocks, traces, heapdiffs and files            *)
(***************************************************************************)
ToolNames == {"mtrace", "mgauge", "heapdiff"}
Hooks == ToolNames \cup {"none"}
Blocks == [num : Nat, at : ADDRS, data : Seq(Nat), event : Nat,
           kind : {"heap", "stack", "ended"}, freed : BOOLEAN]
Diffs == [id : Nat, event : Nat, flags : FLAGS, nofree : Nat, was : SUBSET Blocks,
          freed : SUBSET (Nat \X ADDRS), touched : SUBSET Nat]
DiffFiles == [id : Nat, num : Nat, data : Seq(Nat)]
Traces == [on : BOOLEAN, atexit : BOOLEAN, since : Nat, oldpro : Hooks,
           oldepi : Hooks, pointer : ADDRS \cup {NULL, MINUS1}, size : Int]
Gauges == [on : BOOLEAN, paused : BOOLEAN, count : Nat, shown : Int, rate : Nat,
           old : Hooks]
Entries == [at : ADDRS \cup {NULL, MINUS1}, size : Int]

\* What a call of the library changes.
States == [blocks : SUBSET Blocks, event : Nat, mtrace : Traces,
           reader : SUBSET Entries, gauge : Gauges, diffs : Seq(Diffs),
           files : SUBSET DiffFiles]

\* Blocks, kept ones too, are at places of their own, and allocated ones have numbers
\* of their own, which are not used again; z are the numbers of blocks that have been
\* resized to nothing.
BlocksRight(B, e, z) ==
    /\ \A b \in B : b.num <= e /\ b.event <= e
    /\ \A b, c \in B : b.at = c.at => b = c
    /\ \A b, c \in Live(B) : b.num = c.num => b = c
    /\ \A b \in Live(B) : b.num \notin z
    /\ \A n \in z : n <= e

Contents(h) == "contents" \in h.flags
ListsFreed(h) == "freed" \in h.flags

\* A heapdiff sees what has become of blocks since it was started, and one that lists
\* freed blocks has all of them kept: q is the option, which the heapdiffs put back.
DiffRight(h, B, e) ==
    /\ h.event <= e
    /\ ListsFreed(h) => h.freed = {<<b.num, b.at>> : b \in {c \in Retained(B) :
                                                               c.event > h.event}}
    /\ \A b \in Live(B) : b.event > h.event <=> b.num \in h.touched
    /\ \A n \in h.touched : n <= e
    /\ \A w \in h.was : w.num <= e
    /\ \A w, x \in h.was : w.num = x.num => w = x

DiffsRight(D, B, e) == \A i \in DOMAIN D : DiffRight(D[i], B, e)

QueueRight(D, q) ==
    \A i \in DOMAIN D : ListsFreed(D[i]) =>
        q = ALL /\ \A j \in DOMAIN D : j > i => D[j].nofree = ALL

\* The files are those that the heapdiffs under way have written of the blocks that are
\* still there, and maybe some of blocks resized to nothing; n heapdiffs have been
\* started.  Of the blocks with the numbers X, which are to be freed, there are none.
IdsRight(D, n) ==
    /\ \A i \in DOMAIN D : D[i].id \in 1..n
    /\ \A i, j \in DOMAIN D : i # j => D[i].id # D[j].id

FileRight(f, D, B) ==
    \E i \in DOMAIN D : \E w \in D[i].was :
        Contents(D[i]) /\ f = File(D[i].id, w) /\ \E b \in Live(B) : b.num = w.num

FilesRight(F, D, B, z, n, X) ==
    /\ \A f \in F : f.id \in 1..n /\ f.num \notin X
    /\ \A f \in F : f.num \in z \/ FileRight(f, D, B)
    /\ \A i \in DOMAIN D : Contents(D[i]) => \A w \in D[i].was, b \in Live(B) :
        b.num = w.num /\ b.num \notin X => File(D[i].id, w) \in F

\* The reader of the trace knows the blocks, and the gauge shows them.
TracedOf(B, since) ==
    {[at |-> b.at, size |-> Len(b.data)] : b \in {c \in Live(B) : c.event > since}}
TraceRight(s, in) == s.mtrace.on /\ ~in => s.reader = TracedOf(s.blocks, s.mtrace.since)
GaugeRight(g, B) == g.on /\ ~g.paused /\ g.rate = 1 => g.shown = Total(B)

\* What holds within a call: q, z and n as above, in for a trace that is excused, and
\* X for the blocks whose files have gone.
HeapRight(s, q, z, n, X) ==
    /\ s \in States
    /\ BlocksRight(s.blocks, s.event, z)
    /\ DiffsRight(s.diffs, s.blocks, s.event)
    /\ QueueRight(s.diffs, q)
    /\ IdsRight(s.diffs, n)
    /\ FilesRight(s.files, s.diffs, s.blocks, z, n, X)
    /\ s.mtrace.since <= s.event

Right(s, q, z, n, in, X) ==
    /\ HeapRight(s, q, z, n, X)
    /\ TraceRight(s, in)
    /\ GaugeRight(s.gauge, s.blocks)

\* Who is called for the other: the trace's prologue function and the heapdiffs' one,
\* the trace's epilogue function and the gauge's.
ProChain(h, m, d) ==
    /\ ~m.on /\ d.total = 0 => h.pro = "none"
    /\ m.on /\ d.total = 0 => h.pro = "mtrace" /\ m.oldpro = "none"
    /\ ~m.on /\ d.total # 0 => h.pro = "heapdiff" /\ d.old = "none"
    /\ m.on /\ d.total # 0 =>
        \/ h.pro = "mtrace" /\ m.oldpro = "heapdiff" /\ d.old = "none"
        \/ h.pro = "heapdiff" /\ d.old = "mtrace" /\ m.oldpro = "none"

EpiChain(h, m, g) ==
    /\ ~m.on /\ ~g.on => h.epi = "none"
    /\ m.on /\ ~g.on => h.epi = "mtrace" /\ m.oldepi = "none"
    /\ ~m.on /\ g.on => h.epi = "mgauge" /\ g.old = "none"
    /\ m.on /\ g.on =>
        \/ h.epi = "mtrace" /\ m.oldepi = "mgauge" /\ g.old = "none"
        \/ h.epi = "mgauge" /\ g.old = "mtrace" /\ m.oldepi = "none"

WithContents(D) == {i \in DOMAIN D : Contents(D[i])}

\* The heapdiffs are at the places f within the tools that have been started, and the
\* one that was started last is called first.
Places(f, N, D) ==
    /\ f \in [DOMAIN D -> DOMAIN N]
    /\ \A i, j \in DOMAIN D : i < j => f[i] < f[j]
    /\ \A k \in DOMAIN N : N[k] = "heapdiff" <=> \E i \in DOMAIN D : f[i] = k

Nested(f, N, D, h, m, g) ==
    /\ Places(f, N, D)
    /\ \A k, l \in DOMAIN N : N[k] = N[l] /\ N[k] # "heapdiff" => k = l
    /\ m.on <=> \E k \in DOMAIN N : N[k] = "mtrace"
    /\ g.on <=> \E k \in DOMAIN N : N[k] = "mgauge"
    /\ \A k, l \in DOMAIN N : N[k] = "mtrace" /\ N[l] = "mgauge" =>
        h.epi = IF k < l THEN "mgauge" ELSE "mtrace"
    /\ \A k \in DOMAIN N, i \in WithContents(D) :
        N[k] = "mtrace" /\ (\A j \in WithContents(D) : i <= j) =>
            h.pro = IF k < f[i] THEN "heapdiff" ELSE "mtrace"

HooksInv ==
    /\ hooks \in [pro : Hooks, epi : Hooks] /\ mtrace \in Traces /\ gauge \in Gauges
    /\ hd \in [count : Nat, total : Nat, old : Hooks]
    /\ nesting \in Seq(ToolNames)
    /\ hd.total = Cardinality(WithContents(diffs))
    /\ ProChain(hooks, mtrace, hd)
    /\ EpiChain(hooks, mtrace, gauge)
    /\ \E f \in [DOMAIN diffs -> DOMAIN nesting] :
        Nested(f, nesting, diffs, hooks, mtrace, gauge)

AtExitInv ==
    /\ \E S : atexit \in Seq(S)
    /\ mtrace.on => mtrace.atexit
    /\ mtrace.atexit => \E i \in DOMAIN atexit : atexit[i] = "muntrace"
    /\ hd.count > 0 => \E i \in DOMAIN atexit : atexit[i] = "cleanup"

CallInv ==
    /\ steps \in Int /\ queue \in Nat /\ zeroed \in SUBSET Nat /\ within \in BOOLEAN
    /\ Right(Now, queue, zeroed, hd.count, within, {})
    /\ HooksInv /\ AtExitInv

-----------------------------------------------------------------------------
(***************************************************************************)
(* The tools: their functions                                              *)
(***************************************************************************)
Places0 == ADDRS \cup {NULL, MINUS1}

\* The files that are left when those of the block at p have been removed.
FilesWithout(s, p) ==
    {f \in s.files : ~(Forgets(f) /\ \E b \in s.blocks : b.at = p /\ b.num = f.num)}

SameBut(s, t, changed) ==
    /\ DOMAIN t = DOMAIN s
    /\ \A k \in DOMAIN s : k \notin changed => t[k] = s[k]

LEMMA StateFields ==
  ASSUME NEW s \in States
  PROVE  /\ DOMAIN s = {"blocks", "event", "mtrace", "reader", "gauge", "diffs", "files"}
         /\ s.blocks \in SUBSET Blocks /\ s.event \in Nat /\ s.mtrace \in Traces
         /\ s.reader \in SUBSET Entries /\ s.gauge \in Gauges
         /\ s.diffs \in Seq(Diffs) /\ s.files \in SUBSET DiffFiles
  BY DEF States

Prologued(s, t, p, l) ==
    /\ t \in States
    /\ t.blocks = s.blocks /\ t.event = s.event /\ t.reader = s.reader
    /\ t.gauge = s.gauge /\ t.diffs = s.diffs
    /\ t.files = IF hd.total # 0 /\ l = FREED THEN FilesWithout(s, p) ELSE s.files
    /\ t.mtrace = IF mtrace.on THEN [s.mtrace EXCEPT !.pointer = p, !.size = l]
                  ELSE s.mtrace

LEMMA HeapdiffPrologueIs ==
  ASSUME NEW s \in States, NEW p, NEW l
  PROVE  LET t == HeapdiffPrologue(s, p, l)
         IN  /\ t \in States
             /\ t.blocks = s.blocks /\ t.event = s.event /\ t.reader = s.reader
             /\ t.gauge = s.gauge /\ t.diffs = s.diffs /\ t.mtrace = s.mtrace
             /\ t.files = IF l = FREED THEN FilesWithout(s, p) ELSE s.files
<1> DEFINE F == FilesWithout(s, p)
<1>1. F \in SUBSET DiffFiles
  BY DEF FilesWithout, States
<1>2. HeapdiffPrologue(s, p, l) = IF l # FREED THEN s ELSE [s EXCEPT !.files = F]
  BY DEF HeapdiffPrologue, FilesWithout
<1> HIDE DEF F
<1>3. CASE l = FREED
  BY <1>1, <1>2, <1>3 DEF States, F
<1>4. CASE l # FREED
  BY <1>2, <1>4
<1> QED BY <1>3, <1>4

LEMMA MtracePrologueIs ==
  ASSUME NEW s \in States, NEW p \in Places0, NEW l \in Int
  PROVE  LET t == MtracePrologue(s, p, l)
         IN  /\ t \in States
             /\ t.blocks = s.blocks /\ t.event = s.event /\ t.reader = s.reader
             /\ t.gauge = s.gauge /\ t.diffs = s.diffs /\ t.files = s.files
             /\ t.mtrace = [s.mtrace EXCEPT !.pointer = p, !.size = l]
<1> DEFINE m == [s.mtrace EXCEPT !.pointer = p, !.size = l]
<1>1. m \in Traces
  BY DEF Traces, States, Places0
<1>2. MtracePrologue(s, p, l) = [s EXCEPT !.mtrace = m]
  BY DEF MtracePrologue, States, Traces
<1> HIDE DEF m
<1> QED BY <1>1, <1>2 DEF States, m

\* Whatever the order, each tool's function is called once.
LEMMA PrologueIs ==
  ASSUME HooksInv, NEW s \in States, NEW p \in Places0, NEW l \in Int
  PROVE  Prologued(s, Prologue(s, p, l), p, l)
<1> DEFINE H(t) == CallPrologue("heapdiff", t, p, l)
           M(t) == CallPrologue("mtrace", t, p, l)
           N(t) == CallPrologue("none", t, p, l)
           q == Prologues
<1>1. /\ H(s) = HeapdiffPrologue(s, p, l) /\ M(s) = MtracePrologue(s, p, l)
      /\ \A t : N(t) = t
  BY DEF CallPrologue
<1>2. /\ H(M(s)) = HeapdiffPrologue(M(s), p, l)
      /\ M(H(s)) = MtracePrologue(H(s), p, l)
  BY DEF CallPrologue
<1>3. Prologue(s, p, l)
        = CallPrologue(q[3], CallPrologue(q[2], CallPrologue(q[1], s, p, l), p, l), p, l)
  BY DEF Prologue
<1>4. ProChain(hooks, mtrace, hd) /\ mtrace.on \in BOOLEAN
  BY DEF HooksInv, Traces
<1>5. CASE ~mtrace.on /\ hd.total = 0
  <2>1. q = <<"none", "none", "none">>
    BY <1>4, <1>5 DEF ProChain, Prologues
  <2>2. q[1] = "none" /\ q[2] = "none" /\ q[3] = "none"
    BY <2>1
  <2> HIDE DEF q
  <2>3. Prologue(s, p, l) = s
    BY <1>1, <1>3, <2>2
  <2> QED BY <1>5, <2>3 DEF Prologued
<1>6. CASE mtrace.on /\ hd.total = 0
  <2>1. q = <<"none", "none", "mtrace">>
    BY <1>4, <1>6 DEF ProChain, Prologues
  <2>2. q[1] = "none" /\ q[2] = "none" /\ q[3] = "mtrace"
    BY <2>1
  <2> HIDE DEF q
  <2>3. Prologue(s, p, l) = MtracePrologue(s, p, l)
    BY <1>1, <1>3, <2>2
  <2> DEFINE u == MtracePrologue(s, p, l)
             m == [s.mtrace EXCEPT !.pointer = p, !.size = l]
  <2>4. /\ u \in States
        /\ u.blocks = s.blocks /\ u.event = s.event /\ u.reader = s.reader
        /\ u.gauge = s.gauge /\ u.diffs = s.diffs /\ u.files = s.files
        /\ u.mtrace = m
    BY MtracePrologueIs
  <2> HIDE DEF u, m
  <2>5. Prologued(s, u, p, l)
    BY <1>6, <2>4 DEF Prologued, m
  <2> QED BY <2>3, <2>5 DEF u
<1>7. CASE ~mtrace.on /\ hd.total # 0
  <2>1. q = <<"none", "none", "heapdiff">>
    BY <1>4, <1>7 DEF ProChain, Prologues
  <2>2. q[1] = "none" /\ q[2] = "none" /\ q[3] = "heapdiff"
    BY <2>1
  <2> HIDE DEF q
  <2>3. Prologue(s, p, l) = HeapdiffPrologue(s, p, l)
    BY <1>1, <1>3, <2>2
  <2> QED BY <1>7, <2>3, HeapdiffPrologueIs DEF Prologued
<1>8. CASE /\ mtrace.on /\ hd.total # 0
           /\ hooks.pro = "mtrace" /\ mtrace.oldpro = "heapdiff" /\ hd.old = "none"
  <2>1. q = <<"none", "heapdiff", "mtrace">>
    BY <1>8 DEF Prologues
  <2>2. q[1] = "none" /\ q[2] = "heapdiff" /\ q[3] = "mtrace"
    BY <2>1
  <2> HIDE DEF q
  <2>3. Prologue(s, p, l) = MtracePrologue(HeapdiffPrologue(s, p, l), p, l)
    BY <1>1, <1>2, <1>3, <2>2
  <2> DEFINE t == HeapdiffPrologue(s, p, l)
  <2>4. /\ t \in States
        /\ t.blocks = s.blocks /\ t.event = s.event /\ t.reader = s.reader
        /\ t.gauge = s.gauge /\ t.diffs = s.diffs /\ t.mtrace = s.mtrace
        /\ t.files = IF l = FREED THEN FilesWithout(s, p) ELSE s.files
    BY HeapdiffPrologueIs
  <2> HIDE DEF t
  <2>5. Prologue(s, p, l) = MtracePrologue(t, p, l)
    BY <2>3 DEF t
  <2> DEFINE u == MtracePrologue(t, p, l)
             m == [t.mtrace EXCEPT !.pointer = p, !.size = l]
  <2>6. /\ u \in States
        /\ u.blocks = t.blocks /\ u.event = t.event /\ u.reader = t.reader
        /\ u.gauge = t.gauge /\ u.diffs = t.diffs /\ u.files = t.files
        /\ u.mtrace = m
    BY <2>4, MtracePrologueIs
  <2>7. m = [s.mtrace EXCEPT !.pointer = p, !.size = l]
    BY <2>4
  <2> HIDE DEF u, m
  <2>8. Prologued(s, u, p, l)
    BY <1>8, <2>4, <2>6, <2>7 DEF Prologued
  <2> QED BY <2>5, <2>8 DEF u
<1>9. CASE /\ mtrace.on /\ hd.total # 0
           /\ hooks.pro = "heapdiff" /\ hd.old = "mtrace" /\ mtrace.oldpro = "none"
  <2>1. q = <<"none", "mtrace", "heapdiff">>
    BY <1>9 DEF Prologues
  <2>2. q[1] = "none" /\ q[2] = "mtrace" /\ q[3] = "heapdiff"
    BY <2>1
  <2> HIDE DEF q
  <2>3. Prologue(s, p, l) = HeapdiffPrologue(MtracePrologue(s, p, l), p, l)
    BY <1>1, <1>2, <1>3, <2>2
  <2> DEFINE t == MtracePrologue(s, p, l)
             m == [s.mtrace EXCEPT !.pointer = p, !.size = l]
  <2>4. /\ t \in States
        /\ t.blocks = s.blocks /\ t.event = s.event /\ t.reader = s.reader
        /\ t.gauge = s.gauge /\ t.diffs = s.diffs /\ t.files = s.files
        /\ t.mtrace = m
    BY MtracePrologueIs
  <2> HIDE DEF t
  <2>5. Prologue(s, p, l) = HeapdiffPrologue(t, p, l)
    BY <2>3 DEF t
  <2>6. FilesWithout(t, p) = FilesWithout(s, p)
    BY <2>4 DEF FilesWithout
  <2> HIDE DEF m
  <2> DEFINE u == HeapdiffPrologue(t, p, l)
  <2>7. /\ u \in States
        /\ u.blocks = t.blocks /\ u.event = t.event /\ u.reader = t.reader
        /\ u.gauge = t.gauge /\ u.diffs = t.diffs /\ u.mtrace = t.mtrace
        /\ u.files = IF l = FREED THEN FilesWithout(t, p) ELSE t.files
    BY <2>4, HeapdiffPrologueIs
  <2> HIDE DEF u
  <2>8. Prologue(s, p, l) = u
    BY <2>5 DEF u
  <2>9. Prologued(s, u, p, l)
    BY <1>9, <2>4, <2>6, <2>7 DEF Prologued, m
  <2> QED BY <2>8, <2>9
<1> QED BY <1>4, <1>5, <1>6, <1>7, <1>8, <1>9 DEF ProChain

\* What stays as it is in a call.
SameDiff(h, d) ==
    /\ h.id = d.id /\ h.event = d.event /\ h.flags = d.flags
    /\ h.nofree = d.nofree /\ h.was = d.was
SameDiffs(D, E) == DOMAIN D = DOMAIN E /\ \A i \in DOMAIN E : SameDiff(D[i], E[i])
SameTrace(m, n) ==
    /\ m.on = n.on /\ m.atexit = n.atexit /\ m.since = n.since
    /\ m.oldpro = n.oldpro /\ m.oldepi = n.oldepi
SameGauge(g, k) ==
    g.on = k.on /\ g.paused = k.paused /\ g.rate = k.rate /\ g.old = k.old
Same(s) ==
    SameTrace(s.mtrace, mtrace) /\ SameGauge(s.gauge, gauge) /\ SameDiffs(s.diffs, diffs)

Epilogued(s, t, p) ==
    /\ t \in States
    /\ t.blocks = s.blocks /\ t.event = s.event /\ t.mtrace = s.mtrace
    /\ t.diffs = s.diffs /\ t.files = s.files
    /\ t.reader = IF mtrace.on THEN Read(s.reader, Lines(s, p)) ELSE s.reader
    /\ SameGauge(t.gauge, s.gauge) /\ GaugeRight(t.gauge, s.blocks)

LEMMA SizeAtType ==
  ASSUME NEW B \in SUBSET Blocks, NEW p
  PROVE  SizeAt(B, p) \in Nat
<1>1. CASE At(B, p) = {}
  BY <1>1 DEF SizeAt
<1>2. CASE At(B, p) # {}
  <2> DEFINE c == CHOOSE b \in At(B, p) : TRUE
  <2>1. c \in At(B, p)
    BY <1>2
  <2> HIDE DEF c
  <2>2. c.data \in Seq(Nat)
    BY <2>1 DEF At, Live, Blocks
  <2>3. Len(c.data) \in Nat
    BY <2>2, LenProperties
  <2>4. SizeAt(B, p) = Len(c.data)
    BY <1>2 DEF SizeAt, c
  <2> QED BY <2>3, <2>4
<1> QED BY <1>1, <1>2

LEMMA TotalType ==
  ASSUME NEW B \in SUBSET Blocks
  PROVE  Total(B) \in Nat
<1> DEFINE f == [p \in ADDRS |-> SizeAt(B, p)]
<1>1. IsFiniteSet(ADDRS)
  BY ToolsAssumption DEF ToolsAssumption
<1>2. \A p \in ADDRS : f[p] \in Nat
  BY SizeAtType
<1> HIDE DEF f
<1>3. SumOf(f, ADDRS) \in Nat
  BY <1>1, <1>2, SumNat
<1> QED BY <1>3 DEF Total, f

LEMMA LinesType ==
  ASSUME NEW s \in States, NEW p \in Places0
  PROVE  LET x == Lines(s, p)
         IN  x.gone \in Places0 /\ x.new \in Places0 /\ x.size \in Int
<1>1. s.mtrace.pointer \in Places0 /\ s.mtrace.size \in Int
  BY DEF States, Traces, Places0
<1>2. SizeAt(s.blocks, s.mtrace.pointer) \in Int
  BY SizeAtType DEF States
<1>3. NULL \in Places0 /\ 0 \in Int
  BY DEF Places0
<1>4. \A g \in Places0, n \in Places0, l \in Int :
        /\ Line(g, n, l).gone \in Places0 /\ Line(g, n, l).new \in Places0
        /\ Line(g, n, l).size \in Int
  BY DEF Line
<1> QED BY <1>1, <1>2, <1>3, <1>4 DEF Lines

LEMMA MtraceEpilogueIs ==
  ASSUME NEW s \in States, NEW p \in Places0
  PROVE  LET t == MtraceEpilogue(s, p)
         IN  /\ t \in States
             /\ t.blocks = s.blocks /\ t.event = s.event /\ t.mtrace = s.mtrace
             /\ t.gauge = s.gauge /\ t.diffs = s.diffs /\ t.files = s.files
             /\ t.reader = Read(s.reader, Lines(s, p))
<1> DEFINE r == Read(s.reader, Lines(s, p))
           x == Lines(s, p)
<1>1. x.gone \in Places0 /\ x.new \in Places0 /\ x.size \in Int
  BY LinesType
<1> HIDE DEF x
<1>2. s.reader \in SUBSET Entries
  BY DEF States
<1>3. Read(s.reader, x) \in SUBSET Entries
  BY <1>1, <1>2 DEF Read, Entries, Places0
<1>4. r \in SUBSET Entries
  BY <1>3 DEF x
<1>5. MtraceEpilogue(s, p) = [s EXCEPT !.reader = r]
  BY DEF MtraceEpilogue, States
<1> HIDE DEF r
<1> QED BY <1>4, <1>5 DEF States, r

LEMMA MgaugeEpilogueIs ==
  ASSUME NEW s \in States
  PROVE  LET t == MgaugeEpilogue(s)
         IN  /\ t \in States
             /\ t.blocks = s.blocks /\ t.event = s.event /\ t.mtrace = s.mtrace
             /\ t.reader = s.reader /\ t.diffs = s.diffs /\ t.files = s.files
             /\ SameGauge(t.gauge, s.gauge) /\ GaugeRight(t.gauge, s.blocks)
<1> DEFINE B == s.blocks
           g == IF s.gauge.count % s.gauge.rate = 0 THEN Updated(s.gauge, B) ELSE s.gauge
           k == [g EXCEPT !.count = @ + 1]
<1>1. s.gauge \in Gauges /\ Total(B) \in Int
  BY TotalType DEF States
<1>2. /\ Updated(s.gauge, B) \in Gauges /\ SameGauge(Updated(s.gauge, B), s.gauge)
      /\ ~s.gauge.paused => Updated(s.gauge, B).shown = Total(B)
  <2>1. CASE s.gauge.paused
    BY <1>1, <2>1 DEF Updated, SameGauge
  <2>2. CASE ~s.gauge.paused
    BY <1>1, <2>2 DEF Updated, SameGauge, Gauges
  <2> QED BY <2>1, <2>2
<1>3. g \in Gauges /\ SameGauge(g, s.gauge)
  BY <1>1, <1>2 DEF SameGauge
<1>4. s.gauge.rate = 1 /\ ~s.gauge.paused => g.shown = Total(B)
  <2>1. s.gauge.rate = 1 => s.gauge.count % s.gauge.rate = 0
    BY <1>1 DEF Gauges
  <2> QED BY <1>2, <2>1
<1> HIDE DEF g
<1>5. k \in Gauges /\ SameGauge(k, s.gauge) /\ k.shown = g.shown
  BY <1>3 DEF Gauges, SameGauge
<1>6. GaugeRight(k, B)
  BY <1>4, <1>5 DEF GaugeRight, SameGauge
<1>7. MgaugeEpilogue(s) = [s EXCEPT !.gauge = k]
  BY DEF MgaugeEpilogue, g
<1> HIDE DEF k
<1> QED BY <1>5, <1>6, <1>7 DEF States

\* A step of the epilogue functions from s to t: by the trace, the gauge, or none.
EpilogueStep(s, t, p, traced, shown) ==
    /\ t \in States
    /\ t.blocks = s.blocks /\ t.event = s.event /\ t.mtrace = s.mtrace
    /\ t.diffs = s.diffs /\ t.files = s.files
    /\ t.reader = IF traced THEN Read(s.reader, Lines(s, p)) ELSE s.reader
    /\ SameGauge(t.gauge, s.gauge)
    /\ IF shown THEN GaugeRight(t.gauge, s.blocks) ELSE t.gauge = s.gauge

LEMMA EpilogueSteps ==
  ASSUME NEW s \in States, NEW p \in Places0
  PROVE  /\ EpilogueStep(s, MtraceEpilogue(s, p), p, TRUE, FALSE)
         /\ EpilogueStep(s, MgaugeEpilogue(s), p, FALSE, TRUE)
         /\ EpilogueStep(s, s, p, FALSE, FALSE)
<1>1. EpilogueStep(s, s, p, FALSE, FALSE)
  BY DEF EpilogueStep, SameGauge
<1>2. EpilogueStep(s, MgaugeEpilogue(s), p, FALSE, TRUE)
  BY MgaugeEpilogueIs DEF EpilogueStep
<1>3. EpilogueStep(s, MtraceEpilogue(s, p), p, TRUE, FALSE)
  BY MtraceEpilogueIs DEF EpilogueStep, SameGauge
<1> QED BY <1>1, <1>2, <1>3

\* The order in which the two are called does not matter.
LEMMA EpilogueTwo ==
  ASSUME NEW s \in States, NEW t, NEW u, NEW p \in Places0, NEW first \in BOOLEAN,
         EpilogueStep(s, t, p, first, ~first), EpilogueStep(t, u, p, ~first, first)
  PROVE  EpilogueStep(s, u, p, TRUE, TRUE)
<1>1. Lines(t, p) = Lines(s, p)
  BY DEF EpilogueStep, Lines
<1>2. u.reader = Read(s.reader, Lines(s, p))
  BY <1>1 DEF EpilogueStep
<1>3. GaugeRight(u.gauge, s.blocks)
  BY DEF EpilogueStep
<1> QED BY <1>2, <1>3 DEF EpilogueStep, SameGauge

LEMMA EpilogueIs ==
  ASSUME HooksInv, NEW s \in States, SameGauge(s.gauge, gauge), NEW p \in Places0
  PROVE  Epilogued(s, Epilogue(s, p), p)
<1> DEFINE e == Epilogues
           call(tool, t) == CallEpilogue(tool, t, p)
<1>1. \A t : /\ call("mtrace", t) = MtraceEpilogue(t, p)
             /\ call("mgauge", t) = MgaugeEpilogue(t)
             /\ call("none", t) = t
  BY DEF CallEpilogue
<1>2. Epilogue(s, p) = call(e[3], call(e[2], call(e[1], s)))
  BY DEF Epilogue
<1>3. EpiChain(hooks, mtrace, gauge) /\ mtrace.on \in BOOLEAN /\ gauge.on \in BOOLEAN
  BY DEF HooksInv, Traces, Gauges
<1> HIDE DEF call
<1>4. EpilogueStep(s, Epilogue(s, p), p, mtrace.on, gauge.on)
  <2>1. CASE ~mtrace.on /\ ~gauge.on
    <3>1. e = <<"none", "none", "none">>
      BY <1>3, <2>1 DEF EpiChain, Epilogues
    <3>2. e[1] = "none" /\ e[2] = "none" /\ e[3] = "none"
      BY <3>1
    <3> HIDE DEF e
    <3>3. Epilogue(s, p) = s
      BY <1>1, <1>2, <3>2
    <3> QED BY <1>3, <2>1, <3>3, EpilogueSteps
  <2>2. CASE mtrace.on /\ ~gauge.on
    <3>1. e = <<"mtrace", "none", "none">>
      BY <1>3, <2>2 DEF EpiChain, Epilogues
    <3>2. e[1] = "mtrace" /\ e[2] = "none" /\ e[3] = "none"
      BY <3>1
    <3> HIDE DEF e
    <3>3. Epilogue(s, p) = MtraceEpilogue(s, p)
      BY <1>1, <1>2, <3>2
    <3> QED BY <1>3, <2>2, <3>3, EpilogueSteps
  <2>3. CASE ~mtrace.on /\ gauge.on
    <3>1. e = <<"mgauge", "none", "none">>
      BY <1>3, <2>3 DEF EpiChain, Epilogues
    <3>2. e[1] = "mgauge" /\ e[2] = "none" /\ e[3] = "none"
      BY <3>1
    <3> HIDE DEF e
    <3>3. Epilogue(s, p) = MgaugeEpilogue(s)
      BY <1>1, <1>2, <3>2
    <3> QED BY <1>3, <2>3, <3>3, EpilogueSteps
  <2>4. CASE /\ mtrace.on /\ gauge.on
             /\ hooks.epi = "mtrace" /\ mtrace.oldepi = "mgauge" /\ gauge.old = "none"
    <3>1. e = <<"mtrace", "mgauge", "none">>
      BY <2>4 DEF Epilogues
    <3>2. e[1] = "mtrace" /\ e[2] = "mgauge" /\ e[3] = "none"
      BY <3>1
    <3> HIDE DEF e
    <3> DEFINE t == MtraceEpilogue(s, p)
    <3>3. Epilogue(s, p) = MgaugeEpilogue(t)
      BY <1>1, <1>2, <3>2
    <3>4. EpilogueStep(s, t, p, TRUE, FALSE)
      BY EpilogueSteps
    <3> HIDE DEF t
    <3>5. EpilogueStep(t, MgaugeEpilogue(t), p, FALSE, TRUE)
      BY <3>4, EpilogueSteps DEF EpilogueStep
    <3>6. EpilogueStep(s, MgaugeEpilogue(t), p, TRUE, TRUE)
      BY <3>4, <3>5, EpilogueTwo
    <3> QED BY <1>3, <2>4, <3>3, <3>6
  <2>5. CASE /\ mtrace.on /\ gauge.on
             /\ hooks.epi = "mgauge" /\ gauge.old = "mtrace" /\ mtrace.oldepi = "none"
    <3>1. e = <<"mgauge", "mtrace", "none">>
      BY <2>5 DEF Epilogues
    <3>2. e[1] = "mgauge" /\ e[2] = "mtrace" /\ e[3] = "none"
      BY <3>1
    <3> HIDE DEF e
    <3> DEFINE t == MgaugeEpilogue(s)
    <3>3. Epilogue(s, p) = MtraceEpilogue(t, p)
      BY <1>1, <1>2, <3>2
    <3>4. EpilogueStep(s, t, p, FALSE, TRUE)
      BY EpilogueSteps
    <3> HIDE DEF t
    <3>5. EpilogueStep(t, MtraceEpilogue(t, p), p, TRUE, FALSE)
      BY <3>4, EpilogueSteps DEF EpilogueStep
    <3>6. EpilogueStep(s, MtraceEpilogue(t, p), p, TRUE, TRUE)
      BY <3>4, <3>5, EpilogueTwo
    <3> QED BY <1>3, <2>5, <3>3, <3>6
  <2> QED BY <1>3, <2>1, <2>2, <2>3, <2>4, <2>5 DEF EpiChain
<1>5. GaugeRight(Epilogue(s, p).gauge, s.blocks)
  <2>1. CASE gauge.on
    BY <1>4, <2>1 DEF EpilogueStep
  <2>2. CASE ~gauge.on
    BY <1>4, <2>2 DEF EpilogueStep, SameGauge, GaugeRight
  <2> QED BY <1>3, <2>1, <2>2
<1> QED BY <1>4, <1>5 DEF EpilogueStep, Epilogued

-----------------------------------------------------------------------------
(***************************************************************************)
(* The tools: freeing a block                                              *)
(***************************************************************************)
\* Blocks are in places of their own, so that there are fewer than ALL.
LEMMA FewKept ==
  ASSUME NEW B \in SUBSET Blocks, \A b, c \in B : b.at = c.at => b = c
  PROVE  /\ IsFiniteSet(B) /\ IsFiniteSet(Retained(B))
         /\ Cardinality(Retained(B)) \in Nat /\ Cardinality(Retained(B)) < ALL
<1> DEFINE R == Retained(B)
           f == [b \in B |-> b.at]
<1>1. IsFiniteSet(ADDRS) /\ Cardinality(ADDRS) < ALL
  BY ToolsAssumption DEF ToolsAssumption
<1>2. f \in Injection(B, ADDRS)
  BY DEF Blocks, Injection, IsInjective
<1> HIDE DEF f
<1>3. IsFiniteSet(B) /\ Cardinality(B) <= Cardinality(ADDRS)
  BY <1>1, <1>2, FS_Injection
<1>4. R \in SUBSET B
  BY DEF Retained
<1> HIDE DEF R
<1>5. IsFiniteSet(R) /\ Cardinality(R) <= Cardinality(B)
  BY <1>3, <1>4, FS_Subset
<1>6. Cardinality(R) \in Nat /\ Cardinality(B) \in Nat /\ Cardinality(ADDRS) \in Nat
  BY <1>1, <1>3, <1>5, FS_CardinalityType
<1>7. ALL \in Nat
  BY DEF ALL
<1>8. Cardinality(R) < ALL
  BY <1>1, <1>3, <1>5, <1>6, <1>7
<1> QED BY <1>3, <1>5, <1>6, <1>8 DEF R

\* Whatever heapdiffs see, they remain the same.
Sees(E, D, F, T) ==
    /\ E \in Seq(Diffs) /\ SameDiffs(E, D)
    /\ \A i \in DOMAIN D : E[i].freed = D[i].freed \cup F /\ E[i].touched = D[i].touched \cup T

LEMMA SeenIs ==
  ASSUME NEW D \in Seq(Diffs), NEW F \in SUBSET (Nat \X ADDRS), NEW T \in SUBSET Nat
  PROVE  Sees(Seen(D, F, T), D, F, T)
<1> DEFINE g(h) == [h EXCEPT !.freed = @ \cup F, !.touched = @ \cup T]
           E == [i \in DOMAIN D |-> g(D[i])]
<1>1. \A h \in Diffs : /\ g(h) \in Diffs /\ SameDiff(g(h), h)
                       /\ g(h).freed = h.freed \cup F /\ g(h).touched = h.touched \cup T
  BY DEF Diffs, SameDiff
<1>2. Seen(D, F, T) = E
  BY DEF Seen
<1> HIDE DEF g
<1>3. Len(D) \in Nat /\ DOMAIN D = 1..Len(D) /\ \A i \in DOMAIN D : D[i] \in Diffs
  BY LenProperties, ElementOfSeq
<1>4. E \in [1..Len(D) -> Diffs]
  BY <1>1, <1>3
<1>5. E \in Seq(Diffs)
  <2> HIDE DEF E
  <2> QED BY <1>3, <1>4, IsASeq
<1>6. \A i \in DOMAIN D : E[i] = g(D[i])
  OBVIOUS
<1>7. DOMAIN E = DOMAIN D
  OBVIOUS
<1> HIDE DEF E
<1> QED BY <1>1, <1>2, <1>3, <1>5, <1>6, <1>7 DEF SameDiffs, Sees

IfKept(s, b) ==
    IF queue = 0 THEN {} ELSE {[b EXCEPT !.freed = TRUE, !.event = s.event]}

\* A block is freed: it is kept, or not, and others may go that were kept.
LEMMA FreeBlockIs ==
  ASSUME NEW s \in States, NEW b \in Live(s.blocks)
  PROVE  LET t == FreeBlock(s, b)
         IN  /\ t \in States
             /\ t.event = s.event /\ t.mtrace = s.mtrace /\ t.reader = s.reader
             /\ t.gauge = s.gauge /\ t.files = s.files
             /\ t.diffs = Seen(s.diffs, {<<b.num, b.at>>}, {})
             /\ Live(t.blocks) = Live(s.blocks) \ {b}
             /\ Retained(t.blocks) \subseteq Retained(s.blocks) \cup IfKept(s, b)
             /\ queue # 0 /\ Cardinality(Retained(s.blocks)) # queue =>
                    Retained(t.blocks) = Retained(s.blocks) \cup IfKept(s, b)
<1> DEFINE full == queue # 0 /\ Cardinality(Retained(s.blocks)) = queue
           room == IF full THEN s.blocks \ Oldest(s.blocks) ELSE s.blocks
           B == (room \ {b}) \cup IfKept(s, b)
           D == Seen(s.diffs, {<<b.num, b.at>>}, {})
<1>1. FreeBlock(s, b) = [s EXCEPT !.blocks = B, !.diffs = D]
  BY DEF FreeBlock, IfKept, States
<1>2. b \in Blocks /\ ~b.freed /\ b \in s.blocks /\ s.blocks \in SUBSET Blocks /\ s.event \in Nat
  BY DEF Live, States
<1>3. D \in Seq(Diffs)
  <2>1. s.diffs \in Seq(Diffs) /\ {<<b.num, b.at>>} \in SUBSET (Nat \X ADDRS)
    BY <1>2 DEF States, Blocks
  <2> QED BY <2>1, SeenIs DEF Sees
<1>4. IfKept(s, b) \in SUBSET Blocks /\ \A k \in IfKept(s, b) : k.freed
  BY <1>2 DEF IfKept, Blocks
<1>5. room \in SUBSET s.blocks /\ Live(room) = Live(s.blocks)
  BY DEF Oldest, Retained, Live
<1>6. ~full => room = s.blocks
  OBVIOUS
<1> HIDE DEF room, D
<1>7. B \in SUBSET Blocks
  BY <1>2, <1>4, <1>5
<1>8. Live(B) = Live(s.blocks) \ {b}
  <2>1. Live(B) = Live(room) \ {b}
    BY <1>4 DEF Live
  <2> QED BY <1>5, <2>1
<1>9. Retained(B) = Retained(room) \cup IfKept(s, b)
  BY <1>2, <1>4 DEF Retained
<1>10. Retained(room) \subseteq Retained(s.blocks)
  BY <1>5 DEF Retained
<1> HIDE DEF B
<1> DEFINE t == FreeBlock(s, b)
<1>11. /\ t \in States /\ t.blocks = B /\ t.diffs = D
       /\ t.event = s.event /\ t.mtrace = s.mtrace /\ t.reader = s.reader
       /\ t.gauge = s.gauge /\ t.files = s.files
  BY <1>1, <1>3, <1>7 DEF States
<1> HIDE DEF t, full
<1>12. Retained(t.blocks) \subseteq Retained(s.blocks) \cup IfKept(s, b)
  BY <1>9, <1>10, <1>11
<1>13. queue # 0 /\ Cardinality(Retained(s.blocks)) # queue =>
         Retained(t.blocks) = Retained(s.blocks) \cup IfKept(s, b)
  BY <1>6, <1>9, <1>11 DEF full
<1> QED BY <1>8, <1>11, <1>12, <1>13 DEF t, D

\* The freed and the others are all there are.
LEMMA LiveOrKept ==
  ASSUME NEW B
  PROVE  \A b : b \in B <=> b \in Live(B) \/ b \in Retained(B)
  BY DEF Live, Retained

\* After a block is freed, blocks are as right as before.
LEMMA FreeKeepsBlocks ==
  ASSUME NEW s \in States, NEW b \in Live(s.blocks), NEW z,
         BlocksRight(s.blocks, s.event, z)
  PROVE  LET t == FreeBlock(s, b) IN BlocksRight(t.blocks, t.event, z)
<1> DEFINE t == FreeBlock(s, b)
<1>1. /\ t.event = s.event /\ Live(t.blocks) = Live(s.blocks) \ {b}
      /\ Retained(t.blocks) \subseteq Retained(s.blocks) \cup IfKept(s, b)
  BY FreeBlockIs
<1> HIDE DEF t
<1>2. b \in Blocks /\ b \in s.blocks /\ ~b.freed /\ s.blocks \in SUBSET Blocks /\ s.event \in Nat
  BY DEF Live, States
<1>3. \A k \in IfKept(s, b) : /\ k.num = b.num /\ k.at = b.at /\ k.event = s.event
                            /\ IfKept(s, b) = {k}
  BY <1>2 DEF IfKept, Blocks
<1>4. \A c \in t.blocks : c \in s.blocks \ {b} \/ c \in IfKept(s, b)
  <2>1. b \notin Retained(s.blocks)
    BY <1>2 DEF Retained
  <2> QED BY <1>1, <2>1, LiveOrKept
<1>5. \A c \in t.blocks : c.num <= s.event /\ c.event <= s.event
  BY <1>2, <1>3, <1>4 DEF BlocksRight, Blocks
<1>6. \A c, d \in t.blocks : c.at = d.at => c = d
  <2> SUFFICES ASSUME NEW c \in t.blocks, NEW d \in t.blocks, c.at = d.at
               PROVE  c = d
    OBVIOUS
  <2>1. CASE c \in s.blocks \ {b} /\ d \in s.blocks \ {b}
    BY <2>1 DEF BlocksRight
  <2>2. CASE c \in IfKept(s, b) /\ d \in IfKept(s, b)
    BY <1>3, <2>2
  <2>3. CASE c \in s.blocks \ {b} /\ d \in IfKept(s, b)
    BY <1>2, <1>3, <2>3 DEF BlocksRight
  <2>4. CASE c \in IfKept(s, b) /\ d \in s.blocks \ {b}
    BY <1>2, <1>3, <2>4 DEF BlocksRight
  <2> QED BY <1>4, <2>1, <2>2, <2>3, <2>4
<1>7. \A c \in Live(t.blocks) : c \in Live(s.blocks)
  BY <1>1
<1>8. BlocksRight(t.blocks, s.event, z)
  BY <1>5, <1>6, <1>7 DEF BlocksRight
<1> QED BY <1>1, <1>8 DEF t

\* So are the heapdiffs, of which none lists freed blocks unless all are kept.
LEMMA FreeKeepsDiff ==
  ASSUME NEW s \in States, NEW b \in Live(s.blocks), NEW z, queue \in Nat,
         BlocksRight(s.blocks, s.event, z),
         NEW h, h \in Diffs, DiffRight(h, s.blocks, s.event), h.event < s.event,
         ListsFreed(h) => queue = ALL,
         NEW g, SameDiff(g, h), g.freed = h.freed \cup {<<b.num, b.at>>},
         g.touched = h.touched \cup {}
  PROVE  DiffRight(g, FreeBlock(s, b).blocks, s.event)
<1> DEFINE t == FreeBlock(s, b)
<1>1. /\ Live(t.blocks) = Live(s.blocks) \ {b}
      /\ Retained(t.blocks) \subseteq Retained(s.blocks) \cup IfKept(s, b)
      /\ queue # 0 /\ Cardinality(Retained(s.blocks)) # queue =>
            Retained(t.blocks) = Retained(s.blocks) \cup IfKept(s, b)
  BY FreeBlockIs
<1> HIDE DEF t
<1>2. b \in Blocks /\ s.blocks \in SUBSET Blocks /\ s.event \in Nat
  BY DEF Live, States
<1>3. h.event \in Nat /\ g.event = h.event /\ g.was = h.was /\ g.touched = h.touched
  BY DEF Diffs, SameDiff
<1>4. ListsFreed(g) => g.freed = {<<c.num, c.at>> : c \in {d \in Retained(t.blocks) :
                                                              d.event > g.event}}
  <2> SUFFICES ASSUME ListsFreed(g)
               PROVE  g.freed = {<<c.num, c.at>> : c \in {d \in Retained(t.blocks) :
                                                              d.event > g.event}}
    OBVIOUS
  <2>1. ListsFreed(h)
    BY DEF ListsFreed, SameDiff
  <2>2. h.freed = {<<c.num, c.at>> : c \in {d \in Retained(s.blocks) : d.event > h.event}}
    BY <2>1 DEF DiffRight
  <2>3. queue = ALL /\ queue # 0
    BY <2>1 DEF ALL
  <2>4. Cardinality(Retained(s.blocks)) # queue
    <3>1. \A c, d \in s.blocks : c.at = d.at => c = d
      BY DEF BlocksRight
    <3>2. Cardinality(Retained(s.blocks)) \in Nat /\ Cardinality(Retained(s.blocks)) < ALL
      BY <1>2, <3>1, FewKept
    <3> QED BY <2>3, <3>2
  <2> DEFINE k == [b EXCEPT !.freed = TRUE, !.event = s.event]
  <2>5. Retained(t.blocks) = Retained(s.blocks) \cup {k}
    BY <1>1, <2>3, <2>4 DEF IfKept
  <2>6. k.num = b.num /\ k.at = b.at /\ k.event = s.event
    BY <1>2 DEF Blocks
  <2> HIDE DEF k
  <2>7. k.event > g.event
    BY <1>2, <1>3, <2>6
  <2>8. {d \in Retained(t.blocks) : d.event > g.event}
          = {d \in Retained(s.blocks) : d.event > h.event} \cup {k}
    BY <1>3, <2>5, <2>7
  <2> QED BY <2>2, <2>6, <2>8
<1>5. \A c \in Live(t.blocks) : c.event > g.event <=> c.num \in g.touched
  BY <1>1, <1>3 DEF DiffRight
<1>6. DiffRight(g, t.blocks, s.event)
  BY <1>3, <1>4, <1>5 DEF DiffRight
<1> QED BY <1>6 DEF t

\* Before an operation the event is counted, so that it is later than any heapdiff.
DiffsEarlier(D, e) == \A i \in DOMAIN D : D[i].event < e

LEMMA FreeKeepsDiffs ==
  ASSUME NEW s \in States, NEW b \in Live(s.blocks), NEW z, queue \in Nat,
         BlocksRight(s.blocks, s.event, z), DiffsRight(s.diffs, s.blocks, s.event),
         DiffsEarlier(s.diffs, s.event), QueueRight(s.diffs, queue)
  PROVE  LET t == FreeBlock(s, b)
         IN  DiffsRight(t.diffs, t.blocks, t.event) /\ SameDiffs(t.diffs, s.diffs)
<1> DEFINE t == FreeBlock(s, b)
           F == {<<b.num, b.at>>}
<1>1. t.event = s.event /\ t.diffs = Seen(s.diffs, F, {})
  BY FreeBlockIs
<1>2. s.diffs \in Seq(Diffs) /\ F \in SUBSET (Nat \X ADDRS)
  BY DEF States, Live, Blocks
<1>3. /\ SameDiffs(t.diffs, s.diffs)
      /\ \A i \in DOMAIN s.diffs : /\ t.diffs[i].freed = s.diffs[i].freed \cup F
                                   /\ t.diffs[i].touched = s.diffs[i].touched \cup {}
  <2> HIDE DEF t, F
  <2>1. {} \in SUBSET Nat
    OBVIOUS
  <2>2. Sees(t.diffs, s.diffs, F, {})
    BY <1>1, <1>2, <2>1, SeenIs
  <2> QED BY <2>2 DEF Sees
<1>4. \A i \in DOMAIN s.diffs : s.diffs[i] \in Diffs
  BY <1>2, ElementOfSeq
<1> HIDE DEF t
<1>5. ASSUME NEW i \in DOMAIN t.diffs
      PROVE  DiffRight(t.diffs[i], t.blocks, t.event)
  <2> DEFINE g == t.diffs[i]
             h == s.diffs[i]
  <2>1. i \in DOMAIN s.diffs /\ h \in Diffs /\ SameDiff(g, h)
    BY <1>3, <1>4 DEF SameDiffs
  <2>2. g.freed = h.freed \cup {<<b.num, b.at>>} /\ g.touched = h.touched \cup {}
    BY <1>3, <2>1
  <2>3. /\ DiffRight(h, s.blocks, s.event) /\ h.event < s.event
        /\ ListsFreed(h) => queue = ALL
    BY <2>1 DEF DiffsRight, DiffsEarlier, QueueRight
  <2> HIDE DEF g, h
  <2>4. DiffRight(g, FreeBlock(s, b).blocks, s.event)
    BY <2>1, <2>2, <2>3, FreeKeepsDiff
  <2> QED BY <1>1, <2>4 DEF t, g
<1> QED BY <1>3, <1>5 DEF DiffsRight, t

-----------------------------------------------------------------------------
(***************************************************************************)
(* The tools: what the steps of a call leave right                         *)
(***************************************************************************)
LEMMA SameKeepsQueue ==
  ASSUME NEW D, NEW E, SameDiffs(E, D), NEW q, QueueRight(D, q)
  PROVE  QueueRight(E, q)
  BY DEF SameDiffs, SameDiff, QueueRight, ListsFreed

LEMMA SameKeepsIds ==
  ASSUME NEW D, NEW E, SameDiffs(E, D), NEW n, IdsRight(D, n)
  PROVE  IdsRight(E, n)
  BY DEF SameDiffs, SameDiff, IdsRight

LEMMA SameFileRight ==
  ASSUME NEW D, NEW E, SameDiffs(E, D), NEW B, NEW f, FileRight(f, D, B)
  PROVE  FileRight(f, E, B)
  BY DEF SameDiffs, SameDiff, FileRight, Contents

LEMMA SameKeepsFiles ==
  ASSUME NEW D, NEW E, SameDiffs(E, D), NEW F, NEW B, NEW z, NEW n, NEW X,
         FilesRight(F, D, B, z, n, X)
  PROVE  FilesRight(F, E, B, z, n, X)
<1>1. \A f \in F : f.num \in z \/ FileRight(f, E, B)
  BY SameFileRight DEF FilesRight
<1>2. \A i \in DOMAIN E : /\ i \in DOMAIN D /\ D[i].was = E[i].was
                          /\ Contents(E[i]) => Contents(D[i])
                          /\ D[i].id = E[i].id
  BY DEF SameDiffs, SameDiff, Contents
<1>3. \A i \in DOMAIN E : Contents(E[i]) => \A w \in E[i].was, b \in Live(B) :
        b.num = w.num /\ b.num \notin X => File(E[i].id, w) \in F
  BY <1>2 DEF FilesRight
<1> QED BY <1>1, <1>3 DEF FilesRight

\* When a block is freed its files have gone.
LEMMA FreeKeepsFiles ==
  ASSUME NEW F, NEW D, NEW B, NEW C, NEW z, NEW n, NEW X, NEW b \in Live(B),
         Live(C) = Live(B) \ {b},
         \A c \in Live(B) : c.num = b.num => c = b,
         FilesRight(F, D, B, z, n, X \cup {b.num})
  PROVE  FilesRight(F, D, C, z, n, X)
<1>1. \A f \in F : f.num \notin X /\ f.num # b.num
  BY DEF FilesRight
<1>2. ASSUME NEW f \in F, f.num \notin z PROVE FileRight(f, D, C)
  <2>1. FileRight(f, D, B)
    BY <1>2 DEF FilesRight
  <2>2. PICK i \in DOMAIN D : \E w \in D[i].was :
          Contents(D[i]) /\ f = File(D[i].id, w) /\ \E c \in Live(B) : c.num = w.num
    BY <2>1 DEF FileRight
  <2>3. PICK w \in D[i].was :
          Contents(D[i]) /\ f = File(D[i].id, w) /\ \E c \in Live(B) : c.num = w.num
    BY <2>2
  <2>4. f.num = w.num
    BY <2>3 DEF File
  <2>5. \E c \in Live(C) : c.num = w.num
    BY <1>1, <2>3, <2>4
  <2> QED BY <2>3, <2>5 DEF FileRight
<1>3. ASSUME NEW i \in DOMAIN D, Contents(D[i]), NEW w \in D[i].was, NEW c \in Live(C),
             c.num = w.num, c.num \notin X
      PROVE  File(D[i].id, w) \in F
  <2>1. c.num \notin X \cup {b.num} /\ c \in Live(B)
    BY <1>3
  <2> QED BY <1>3, <2>1 DEF FilesRight
<1> QED BY <1>1, <1>2, <1>3 DEF FilesRight

\* A block that has been resized to nothing leaves its files behind.
LEMMA ZeroKeepsFiles ==
  ASSUME NEW F, NEW D, NEW B, NEW C, NEW z, NEW n, NEW b \in Live(B),
         Live(C) = Live(B) \ {b},
         \A c \in Live(B) : c.num = b.num => c = b,
         FilesRight(F, D, B, z, n, {})
  PROVE  FilesRight(F, D, C, z \cup {b.num}, n, {})
<1>1. ASSUME NEW f \in F, f.num \notin z \cup {b.num} PROVE FileRight(f, D, C)
  <2>1. FileRight(f, D, B)
    BY <1>1 DEF FilesRight
  <2>2. PICK i \in DOMAIN D : \E w \in D[i].was :
          Contents(D[i]) /\ f = File(D[i].id, w) /\ \E c \in Live(B) : c.num = w.num
    BY <2>1 DEF FileRight
  <2>3. PICK w \in D[i].was :
          Contents(D[i]) /\ f = File(D[i].id, w) /\ \E c \in Live(B) : c.num = w.num
    BY <2>2
  <2>4. f.num = w.num
    BY <2>3 DEF File
  <2>5. \E c \in Live(C) : c.num = w.num
    BY <1>1, <2>3, <2>4
  <2> QED BY <2>3, <2>5 DEF FileRight
<1>2. ASSUME NEW i \in DOMAIN D, Contents(D[i]), NEW w \in D[i].was, NEW c \in Live(C),
             c.num = w.num
      PROVE  File(D[i].id, w) \in F
  <2>1. c.num \notin {} /\ c \in Live(B)
    BY <1>2
  <2> QED BY <1>2, <2>1 DEF FilesRight
<1> QED BY <1>1, <1>2 DEF FilesRight

LEMMA FreeKeepsHeap ==
  ASSUME NEW s, NEW b \in Live(s.blocks), NEW z, NEW n, NEW X, queue \in Nat,
         HeapRight(s, queue, z, n, X \cup {b.num}), DiffsEarlier(s.diffs, s.event)
  PROVE  HeapRight(FreeBlock(s, b), queue, z, n, X)
<1> DEFINE t == FreeBlock(s, b)
<1>0. s \in States
  BY DEF HeapRight
<1>1. /\ t \in States /\ t.event = s.event /\ t.mtrace = s.mtrace /\ t.files = s.files
      /\ Live(t.blocks) = Live(s.blocks) \ {b}
  BY <1>0, FreeBlockIs
<1>2. BlocksRight(t.blocks, t.event, z)
  BY <1>0, FreeKeepsBlocks DEF HeapRight
<1>3. DiffsRight(t.diffs, t.blocks, t.event) /\ SameDiffs(t.diffs, s.diffs)
  BY <1>0, FreeKeepsDiffs DEF HeapRight
<1> HIDE DEF t
<1>4. QueueRight(t.diffs, queue) /\ IdsRight(t.diffs, n)
  BY <1>3, SameKeepsQueue, SameKeepsIds DEF HeapRight
<1>5. FilesRight(s.files, s.diffs, t.blocks, z, n, X)
  <2>1. \A c \in Live(s.blocks) : c.num = b.num => c = b
    BY DEF HeapRight, BlocksRight
  <2>2. FilesRight(s.files, s.diffs, s.blocks, z, n, X \cup {b.num})
    BY DEF HeapRight
  <2> QED BY <1>1, <2>1, <2>2, FreeKeepsFiles
<1>6. FilesRight(t.files, t.diffs, t.blocks, z, n, X)
  BY <1>1, <1>3, <1>5, SameKeepsFiles
<1>7. t.mtrace.since <= t.event
  BY <1>1 DEF HeapRight
<1> QED BY <1>1, <1>2, <1>3, <1>4, <1>6, <1>7 DEF HeapRight, t

\* The next event.
EventCounted(s) == [s EXCEPT !.event = @ + 1]

CountedIs(s, t) ==
    /\ t \in States /\ t.event = s.event + 1
    /\ t.blocks = s.blocks /\ t.mtrace = s.mtrace /\ t.reader = s.reader
    /\ t.gauge = s.gauge /\ t.diffs = s.diffs /\ t.files = s.files

LEMMA CountedFacts ==
  ASSUME NEW s \in States
  PROVE  CountedIs(s, EventCounted(s))
  BY DEF EventCounted, States, CountedIs

LEMMA CountKeepsHeap ==
  ASSUME NEW s, NEW q, NEW z, NEW n, NEW X, z \in SUBSET Nat, HeapRight(s, q, z, n, X)
  PROVE  /\ HeapRight(EventCounted(s), q, z, n, X)
         /\ DiffsEarlier(EventCounted(s).diffs, EventCounted(s).event)
<1> DEFINE t == EventCounted(s)
<1>1. s \in States /\ CountedIs(s, t)
  BY CountedFacts DEF HeapRight
<1> HIDE DEF t
<1>2. s.event \in Nat /\ s.mtrace.since \in Nat /\ s.blocks \in SUBSET Blocks
  BY <1>1 DEF States, Traces
<1>3. \A i \in DOMAIN s.diffs : s.diffs[i] \in Diffs
  BY <1>1, ElementOfSeq DEF States
<1>4. \A m \in Nat : m <= s.event => m <= t.event /\ m < t.event
  BY <1>1, <1>2 DEF CountedIs
<1>5. BlocksRight(t.blocks, t.event, z)
  <2>1. \A b \in s.blocks : b.num \in Nat /\ b.event \in Nat
    BY <1>2 DEF Blocks
  <2>2. \A b \in s.blocks : b.num <= t.event /\ b.event <= t.event
    BY <1>4, <2>1 DEF HeapRight, BlocksRight
  <2>3. \A m \in z : m <= t.event
    BY <1>4 DEF HeapRight, BlocksRight
  <2>4. t.blocks = s.blocks
    BY <1>1 DEF CountedIs
  <2> QED BY <2>2, <2>3, <2>4 DEF HeapRight, BlocksRight
<1>6. ASSUME NEW i \in DOMAIN s.diffs
      PROVE  DiffRight(s.diffs[i], s.blocks, t.event) /\ s.diffs[i].event < t.event
  <2> DEFINE h == s.diffs[i]
  <2>1. h \in Diffs /\ DiffRight(h, s.blocks, s.event)
    BY <1>3 DEF HeapRight, DiffsRight
  <2> HIDE DEF h
  <2>2. h.event \in Nat /\ h.touched \in SUBSET Nat /\ \A w \in h.was : w.num \in Nat
    BY <2>1 DEF Diffs, Blocks
  <2>3. h.event <= t.event /\ h.event < t.event
    BY <1>4, <2>1, <2>2 DEF DiffRight
  <2>4. \A m \in h.touched : m <= t.event
    BY <1>4, <2>1, <2>2 DEF DiffRight
  <2>5. \A w \in h.was : w.num <= t.event
    BY <1>4, <2>1, <2>2 DEF DiffRight
  <2>6. DiffRight(h, s.blocks, t.event)
    BY <2>1, <2>3, <2>4, <2>5 DEF DiffRight
  <2> QED BY <2>3, <2>6 DEF h
<1>7. DiffsRight(t.diffs, t.blocks, t.event) /\ DiffsEarlier(t.diffs, t.event)
  BY <1>1, <1>6 DEF CountedIs, DiffsRight, DiffsEarlier
<1>8. t.mtrace.since <= t.event
  BY <1>1, <1>2, <1>4 DEF CountedIs, HeapRight
<1>9. /\ QueueRight(t.diffs, q) /\ IdsRight(t.diffs, n)
      /\ FilesRight(t.files, t.diffs, t.blocks, z, n, X)
  BY <1>1 DEF CountedIs, HeapRight
<1> QED BY <1>1, <1>5, <1>7, <1>8, <1>9 DEF HeapRight, t, CountedIs

LEMMA SameDiffsContents ==
  ASSUME NEW D, NEW E, SameDiffs(E, D)
  PROVE  WithContents(E) = WithContents(D)
  BY DEF SameDiffs, SameDiff, WithContents, Contents

\* There are heapdiffs with contents, and their function is called, if any have files.
LEMMA NoContents ==
  ASSUME HooksInv, hd.total = 0, NEW D, SameDiffs(D, diffs), diffs \in Seq(Diffs)
  PROVE  \A i \in DOMAIN D : ~Contents(D[i])
<1>1. Cardinality(WithContents(diffs)) = 0
  BY DEF HooksInv
<1>2. WithContents(diffs) = {}
  <2>1. DOMAIN diffs = 1..Len(diffs) /\ Len(diffs) \in Nat
    BY LenProperties
  <2>2. IsFiniteSet(1..Len(diffs))
    BY <2>1, FS_Interval
  <2>3. WithContents(diffs) \in SUBSET (1..Len(diffs))
    BY <2>1 DEF WithContents
  <2>4. IsFiniteSet(WithContents(diffs))
    BY <2>2, <2>3, FS_Subset
  <2> QED BY <1>1, <2>4, FS_EmptySet
<1>3. WithContents(D) = {}
  BY <1>2, SameDiffsContents
<1> QED BY <1>3 DEF WithContents

LEMMA PrologueKeepsHeap ==
  ASSUME HooksInv, NEW s, NEW q, NEW z, NEW X, HeapRight(s, q, z, hd.count, X),
         NEW p \in Places0, NEW l \in Int, l # FREED \/ \A b \in s.blocks : b.at # p
  PROVE  HeapRight(Prologue(s, p, l), q, z, hd.count, X)
<1> DEFINE t == Prologue(s, p, l)
<1>1. s \in States /\ Prologued(s, t, p, l)
  BY PrologueIs DEF HeapRight
<1> HIDE DEF t
<1>2. t.files = s.files
  BY <1>1 DEF Prologued, FilesWithout
<1>3. t.mtrace.since = s.mtrace.since
  BY <1>1 DEF Prologued, States, Traces
<1> QED BY <1>1, <1>2, <1>3 DEF HeapRight, Prologued, t

LEMMA PrologueFrees ==
  ASSUME HooksInv, diffs \in Seq(Diffs),
         NEW s, SameDiffs(s.diffs, diffs), NEW q, NEW z, NEW X,
         HeapRight(s, q, z, hd.count, X), NEW b \in Live(s.blocks)
  PROVE  HeapRight(Prologue(s, b.at, FREED), q, z, hd.count, X \cup {b.num})
<1> DEFINE t == Prologue(s, b.at, FREED)
           n == hd.count
           Y == X \cup {b.num}
<1>0. s \in States /\ s.blocks \in SUBSET Blocks /\ b \in s.blocks
  BY DEF HeapRight, States, Live
<1>1. b.at \in Places0 /\ FREED \in Int
  BY <1>0 DEF Blocks, Places0, FREED
<1>2. Prologued(s, t, b.at, FREED)
  BY <1>0, <1>1, PrologueIs
<1> HIDE DEF t
<1>3. t.mtrace.since = s.mtrace.since
  BY <1>0, <1>2 DEF Prologued, States, Traces
<1>4. FilesRight(s.files, s.diffs, s.blocks, z, n, X)
  BY DEF HeapRight
<1>5. FilesRight(t.files, s.diffs, s.blocks, z, n, Y)
  <2>1. CASE hd.total = 0
    <3>1. t.files = s.files
      BY <1>2, <2>1 DEF Prologued
    <3>2. \A i \in DOMAIN s.diffs : ~Contents(s.diffs[i])
      BY <2>1, NoContents
    <3>3. \A f \in s.files : f.num \in z
      BY <1>4, <3>2 DEF FilesRight, FileRight
    <3>4. b.num \notin z
      BY DEF HeapRight, BlocksRight
    <3>5. \A f \in s.files : f.num # b.num
      BY <3>3, <3>4
    <3> QED BY <1>4, <3>1, <3>2, <3>5 DEF FilesRight
  <2>2. CASE hd.total # 0
    <3>1. t.files = FilesWithout(s, b.at)
      BY <1>2, <2>2 DEF Prologued
    <3>2. \A c \in s.blocks : c.at = b.at => c = b
      BY <1>0 DEF HeapRight, BlocksRight
    <3>3. \A f \in s.files : f.id \in 1..hd.count
      BY <1>4 DEF FilesRight
    <3>4. \A f : f \in t.files <=> f \in s.files /\ f.num # b.num
      BY <1>0, <3>1, <3>2, <3>3 DEF FilesWithout, Forgets
    <3>5. \A f \in t.files : f.id \in 1..n /\ f.num \notin Y
      BY <1>4, <3>4 DEF FilesRight
    <3>6. \A f \in t.files : f.num \in z \/ FileRight(f, s.diffs, s.blocks)
      BY <1>4, <3>4 DEF FilesRight
    <3>7. ASSUME NEW i \in DOMAIN s.diffs, Contents(s.diffs[i]), NEW w \in s.diffs[i].was,
                 NEW c \in Live(s.blocks), c.num = w.num, c.num \notin Y
          PROVE  File(s.diffs[i].id, w) \in t.files
      <4>1. File(s.diffs[i].id, w) \in s.files
        BY <1>4, <3>7 DEF FilesRight
      <4>2. File(s.diffs[i].id, w).num = w.num
        BY DEF File
      <4> QED BY <3>4, <3>7, <4>1, <4>2
    <3> QED BY <3>5, <3>6, <3>7 DEF FilesRight
  <2> QED BY <2>1, <2>2
<1> QED BY <1>2, <1>3, <1>5 DEF HeapRight, Prologued, t

\* The epilogue functions tell the reader and the gauge what has become of the heap.
TellsTrace(s, p, in) ==
    mtrace.on /\ ~in =>
        Read(s.reader, Lines(s, p)) = TracedOf(s.blocks, s.mtrace.since)

LEMMA EpilogueRight ==
  ASSUME HooksInv, NEW s, Same(s), NEW q, NEW z, NEW n, NEW X, NEW in,
         HeapRight(s, q, z, n, X), NEW p \in Places0, TellsTrace(s, p, in)
  PROVE  Right(Epilogue(s, p), q, z, n, in, X) /\ Same(Epilogue(s, p))
<1> DEFINE t == Epilogue(s, p)
<1>1. s \in States /\ SameGauge(s.gauge, gauge)
  BY DEF HeapRight, Same
<1>2. Epilogued(s, t, p)
  BY <1>1, EpilogueIs
<1> HIDE DEF t
<1>3. HeapRight(t, q, z, n, X)
  BY <1>2 DEF HeapRight, Epilogued
<1>4. TraceRight(t, in)
  BY <1>2 DEF Epilogued, Same, SameTrace, TraceRight, TellsTrace
<1>5. GaugeRight(t.gauge, t.blocks)
  BY <1>2 DEF Epilogued
<1>6. Same(t)
  BY <1>2 DEF Epilogued, Same, SameGauge
<1> QED BY <1>3, <1>4, <1>5, <1>6 DEF Right, t

LEMMA TraceWithout ==
  ASSUME NEW B \in SUBSET Blocks, NEW b \in Live(B), NEW C, Live(C) = Live(B) \ {b},
         \A c, d \in B : c.at = d.at => c = d, NEW since
  PROVE  {e \in TracedOf(B, since) : e.at # b.at} = TracedOf(C, since)
<1>1. \A c \in Live(B) : c.at = b.at <=> c = b
  BY DEF Live
<1>2. \A c : [at |-> c.at, size |-> Len(c.data)].at = c.at
  OBVIOUS
<1> QED BY <1>1, <1>2 DEF TracedOf

LEMMA SameDiffsTransitive ==
  ASSUME NEW C, NEW D, NEW E, SameDiffs(C, D), SameDiffs(D, E)
  PROVE  SameDiffs(C, E)
  BY DEF SameDiffs, SameDiff

\* A line that says that nothing is at b any more.
LEMMA GoneLine ==
  ASSUME NEW s, NEW p, NEW a \in ADDRS, s.mtrace.pointer = a,
         s.mtrace.size = FREED \/ s.mtrace.size = 0
  PROVE  Read(s.reader, Lines(s, p)) = {e \in s.reader : e.at # a}
<1>1. a # MINUS1 /\ a # NULL
  BY ToolsAssumption DEF ToolsAssumption
<1>2. Lines(s, p) = Line(a, NULL, 0)
  BY <1>1 DEF Lines, FREED, STRINGSIZE
<1> QED BY <1>2 DEF Read, Line

\* The tools are told that the block at p is to be freed, and that it is.
LEMMA TellsFreed ==
  ASSUME NEW s, NEW t, NEW in, NEW b \in Live(s.blocks),
         s.blocks \in SUBSET Blocks, \A c, d \in s.blocks : c.at = d.at => c = d,
         mtrace.on => s.mtrace.on, TraceRight(s, in),
         Live(t.blocks) = Live(s.blocks) \ {b}, t.reader = s.reader,
         mtrace.on /\ ~in => /\ t.mtrace.pointer = b.at /\ t.mtrace.since = s.mtrace.since
                             /\ t.mtrace.size = FREED \/ t.mtrace.size = 0,
         NEW p
  PROVE  TellsTrace(t, p, in)
<1> SUFFICES ASSUME mtrace.on, ~in
             PROVE  Read(t.reader, Lines(t, p)) = TracedOf(t.blocks, t.mtrace.since)
  BY DEF TellsTrace
<1>1. t.reader = TracedOf(s.blocks, t.mtrace.since)
  BY DEF TraceRight
<1>2. b.at \in ADDRS
  BY DEF Live, Blocks
<1>3. Read(t.reader, Lines(t, p)) = {e \in t.reader : e.at # b.at}
  BY <1>2, GoneLine
<1>4. {e \in TracedOf(s.blocks, t.mtrace.since) : e.at # b.at}
        = TracedOf(t.blocks, t.mtrace.since)
  BY TraceWithout
<1> QED BY <1>1, <1>3, <1>4

LEMMA FreeEndedRight ==
  ASSUME HooksInv, diffs \in Seq(Diffs), queue \in Nat, zeroed \in SUBSET Nat,
         NEW s, Same(s), NEW in, NEW X, NEW b \in Live(s.blocks),
         Right(s, queue, zeroed, hd.count, in, X)
  PROVE  LET u == FreeEnded(s, b)
         IN  /\ Right(u, queue, zeroed, hd.count, in, X) /\ Same(u)
             /\ Live(u.blocks) = Live(s.blocks) \ {b}
<1> DEFINE t == Prologue(s, b.at, FREED)
           v == EventCounted(t)
           u == FreeBlock(v, b)
           e == Epilogue(u, MINUS1)
           n == hd.count
           Y == X \cup {b.num}
<1>0. FreeEnded(s, b) = e
  BY DEF FreeEnded, EventCounted
<1>1. /\ HeapRight(s, queue, zeroed, n, X) /\ s \in States /\ s.blocks \in SUBSET Blocks
      /\ b \in s.blocks /\ TraceRight(s, in)
  BY DEF Right, HeapRight, States, Live
<1>2. SameDiffs(s.diffs, diffs)
  BY DEF Same
<1>3. b.at \in Places0 /\ FREED \in Int /\ MINUS1 \in Places0
  BY <1>1 DEF Blocks, Places0, FREED
<1>4. HeapRight(t, queue, zeroed, n, Y)
  BY <1>1, <1>2, PrologueFrees
<1>5. Prologued(s, t, b.at, FREED)
  BY <1>1, <1>3, PrologueIs
<1> HIDE DEF t
<1>6. CountedIs(t, v)
  BY <1>4, CountedFacts DEF HeapRight
<1>7. HeapRight(v, queue, zeroed, n, Y) /\ DiffsEarlier(v.diffs, v.event)
  BY <1>4, CountKeepsHeap
<1> HIDE DEF v
<1>8. b \in Live(v.blocks) /\ v.blocks = s.blocks /\ v.reader = s.reader
      /\ v.mtrace = t.mtrace /\ v.gauge = s.gauge /\ v.diffs = s.diffs
  BY <1>5, <1>6 DEF Prologued, CountedIs
<1>9. HeapRight(u, queue, zeroed, n, X)
  BY <1>7, <1>8, FreeKeepsHeap
<1>10. /\ Live(u.blocks) = Live(s.blocks) \ {b}
       /\ u.reader = s.reader /\ u.mtrace = t.mtrace /\ u.gauge = s.gauge
  BY <1>7, <1>8, FreeBlockIs DEF HeapRight
<1>11. SameDiffs(u.diffs, s.diffs)
  BY <1>7, <1>8, FreeKeepsDiffs DEF HeapRight
<1> HIDE DEF u
<1>12. SameTrace(t.mtrace, s.mtrace)
       /\ (mtrace.on => t.mtrace.pointer = b.at /\ t.mtrace.size = FREED)
  BY <1>1, <1>5 DEF Prologued, SameTrace, States, Traces
<1>13. Same(u)
  <2>1. SameDiffs(u.diffs, diffs)
    BY <1>2, <1>11, SameDiffsTransitive
  <2> QED BY <1>10, <1>12, <2>1 DEF Same, SameTrace
<1>14. TellsTrace(u, MINUS1, in)
  <2>1. mtrace.on => s.mtrace.on
    BY DEF Same, SameTrace
  <2>2. \A c, d \in s.blocks : c.at = d.at => c = d
    BY <1>1 DEF HeapRight, BlocksRight
  <2>3. mtrace.on => /\ u.mtrace.pointer = b.at /\ u.mtrace.since = s.mtrace.since
                     /\ u.mtrace.size = FREED \/ u.mtrace.size = 0
    BY <1>10, <1>12 DEF SameTrace
  <2> QED BY <1>1, <1>10, <2>1, <2>2, <2>3, TellsFreed
<1>15. Right(e, queue, zeroed, n, in, X) /\ Same(e)
  BY <1>3, <1>9, <1>13, <1>14, EpilogueRight
<1>16. e.blocks = u.blocks
  <2>1. u \in States /\ SameGauge(u.gauge, gauge)
    BY <1>9, <1>13 DEF HeapRight, Same
  <2> QED BY <1>3, <2>1, EpilogueIs DEF Epilogued
<1> HIDE DEF e
<1> QED BY <1>0, <1>10, <1>15, <1>16

-----------------------------------------------------------------------------
(***************************************************************************)
(* The tools: freeing all blocks that are out of scope                     *)
(***************************************************************************)
LEMMA NewestIs ==
  ASSUME NEW E \in SUBSET Blocks, E # {}, NEW e \in Nat, \A b \in E : b.num <= e
  PROVE  Newest(E) \in E
<1> DEFINE S == {e - b.num : b \in E}
<1>1. \A b \in E : b.num \in Nat /\ e - b.num \in Nat
  BY DEF Blocks
<1>2. S \in SUBSET Nat /\ S # {}
  BY <1>1
<1>3. PICK m \in S : \A k \in S : m <= k
  <2> HIDE DEF S
  <2> QED BY <1>2, Least
<1>4. PICK b \in E : m = e - b.num
  BY <1>3
<1>5. \A c \in E : c.num <= b.num
  <2> TAKE c \in E
  <2>1. e - b.num <= e - c.num
    BY <1>3, <1>4
  <2> QED BY <1>1, <2>1
<1> QED BY <1>5 DEF Newest

\* What is left of the blocks: those that are not out of scope, at least.
Leaves(s, t, all) ==
    /\ Live(t.blocks) \subseteq Live(s.blocks)
    /\ Live(s.blocks) \ Ended(s.blocks, all) \subseteq Live(t.blocks)

\* Blocks have been freed, and the tools know it.
FreedRight(s, t, all, in, X) ==
    /\ Right(t, queue, zeroed, hd.count, in, X) /\ Same(t)
    /\ Leaves(s, t, all)

LEMMA FreeLastRight ==
  ASSUME HooksInv, diffs \in Seq(Diffs), queue \in Nat, zeroed \in SUBSET Nat,
         NEW s, NEW t, NEW in, NEW X, NEW all, FreedRight(s, t, all, in, X)
  PROVE  FreedRight(s, FreeLast(t, all), all, in, X)
<1> DEFINE E == Ended(t.blocks, all)
           b == Newest(E)
<1>1. t \in States /\ t.blocks \in SUBSET Blocks /\ t.event \in Nat
  BY DEF FreedRight, Right, HeapRight, States
<1>2. CASE E = {}
  BY <1>2 DEF FreeLast
<1>3. CASE E # {}
  <2>1. E \in SUBSET Blocks /\ \A c \in E : c.num <= t.event
    BY <1>1 DEF Ended, Live, FreedRight, Right, HeapRight, BlocksRight
  <2>2. b \in E
    <3> HIDE DEF E
    <3> QED BY <1>1, <1>3, <2>1, NewestIs
  <2>3. FreeLast(t, all) = FreeEnded(t, b)
    BY <1>3 DEF FreeLast
  <2> HIDE DEF b
  <2>4. b \in Live(t.blocks)
    BY <2>2 DEF Ended
  <2> DEFINE u == FreeEnded(t, b)
  <2>5. /\ Right(u, queue, zeroed, hd.count, in, X) /\ Same(u)
        /\ Live(u.blocks) = Live(t.blocks) \ {b}
    BY <2>4, FreeEndedRight DEF FreedRight
  <2>6. b \in Live(s.blocks) => b \in Ended(s.blocks, all)
    BY <2>2 DEF Ended
  <2> HIDE DEF u
  <2>7. Leaves(s, u, all)
    BY <2>5, <2>6 DEF Leaves, FreedRight
  <2> QED BY <2>3, <2>5, <2>7 DEF FreedRight, u
<1> QED BY <1>2, <1>3

\* How the blocks are gone through.
FreedBy(s, all, f) ==
    f = [n \in 0..Cardinality(Ended(s.blocks, all)) |->
            IF n = 0 THEN s ELSE FreeLast(f[n - 1], all)]

LEMMA FreeAllEndedRight ==
  ASSUME HooksInv, diffs \in Seq(Diffs), queue \in Nat, zeroed \in SUBSET Nat,
         NEW s, Same(s), NEW in, NEW X, NEW all,
         Right(s, queue, zeroed, hd.count, in, X)
  PROVE  FreedRight(s, FreeAllEnded(s, all), all, in, X)
<1> DEFINE N == Cardinality(Ended(s.blocks, all))
           V == {t \in States : FreedRight(s, t, all, in, X)}
           step == [k \in 1..N |-> [t \in V |-> FreeLast(t, all)]]
           f == CHOOSE f : FreedBy(s, all, f)
<1>1. s \in States /\ s.blocks \in SUBSET Blocks
  BY DEF Right, HeapRight, States
<1>2. N \in Nat
  <2>1. IsFiniteSet(s.blocks)
    BY <1>1, FewKept DEF Right, HeapRight, BlocksRight
  <2>2. Ended(s.blocks, all) \in SUBSET s.blocks
    BY DEF Ended, Live
  <2> QED BY <2>1, <2>2, FS_Subset, FS_CardinalityType
<1>3. s \in V
  BY <1>1 DEF FreedRight, Leaves
<1>4. \A t \in V : FreeLast(t, all) \in V
  <2> TAKE t \in V
  <2>1. FreedRight(s, FreeLast(t, all), all, in, X)
    BY FreeLastRight
  <2> QED BY <2>1 DEF FreedRight, Right, HeapRight
<1> HIDE DEF V, N
<1>5. step \in [1..N -> [V -> V]] /\ \A k \in 1..N, t \in V : step[k][t] = FreeLast(t, all)
  BY <1>4
<1> HIDE DEF step
<1>6. PICK g \in [0..N -> V] : Unrolls(g, N, s, step)
  BY <1>2, <1>3, <1>5, Recursion
<1>7. \A k \in 1..N : g[k] = FreeLast(g[k - 1], all)
  BY <1>2, <1>5, <1>6 DEF Unrolls
<1>8. FreedBy(s, all, g)
  BY <1>2, <1>6, <1>7 DEF FreedBy, Unrolls, N
<1>9. FreedBy(s, all, f)
  BY <1>8
<1>10. FreeAllEnded(s, all) = f[N]
  BY DEF FreeAllEnded, FreedBy, N
<1> HIDE DEF f
<1>11. f[0] = s /\ \A k \in 1..N : f[k] = FreeLast(f[k - 1], all)
  <2>1. f = [n \in 0..N |-> IF n = 0 THEN s ELSE FreeLast(f[n - 1], all)]
    BY <1>9 DEF FreedBy, N
  <2> QED BY <1>2, <2>1
<1> DEFINE M == {n \in Nat : n <= N => f[n] \in V}
<1>12. 0 \in M
  BY <1>3, <1>11
<1>13. ASSUME NEW n \in Nat, n \in M PROVE n + 1 \in M
  <2> SUFFICES ASSUME n + 1 <= N PROVE f[n + 1] \in V
    OBVIOUS
  <2>1. f[n] \in V
    BY <1>2, <1>13
  <2>2. n + 1 \in 1..N /\ (n + 1) - 1 = n
    BY <1>2
  <2>3. f[n + 1] = FreeLast(f[n], all)
    BY <1>11, <2>2
  <2> QED BY <1>4, <2>1, <2>3
<1>14. N \in M
  <2>1. \A n \in Nat : n \in M => n + 1 \in M
    BY <1>13
  <2> HIDE DEF M
  <2> QED BY <1>2, <1>12, <2>1, Induction
<1>15. f[N] \in V
  BY <1>2, <1>14
<1> QED BY <1>10, <1>15 DEF V

LEMMA FreeAllNone ==
  ASSUME NEW s, NEW all, Ended(s.blocks, all) = {}
  PROVE  FreeAllEnded(s, all) = s
<1> DEFINE f == CHOOSE f : f = [n \in 0..0 |-> IF n = 0 THEN s ELSE FreeLast(f[n - 1], all)]
           g == [n \in 0..0 |-> s]
<1>1. Cardinality(Ended(s.blocks, all)) = 0
  BY FS_EmptySet
<1>2. FreeAllEnded(s, all) = f[0]
  BY <1>1 DEF FreeAllEnded
<1>3. g = [n \in 0..0 |-> IF n = 0 THEN s ELSE FreeLast(g[n - 1], all)]
  OBVIOUS
<1> HIDE DEF g
<1>4. f = [n \in 0..0 |-> IF n = 0 THEN s ELSE FreeLast(f[n - 1], all)]
  BY <1>3
<1> HIDE DEF f
<1>5. f[0] = s
  BY <1>4
<1> QED BY <1>2, <1>5

-----------------------------------------------------------------------------
(***************************************************************************)
(* The tools: the start of an operation                                    *)
(***************************************************************************)
Excused == within \/ (mtrace.on /\ Ended(blocks, FALSE) # {})

\* The functions have been called for p and l and blocks out of scope are freed.
Begun(t, p, l, X) ==
    /\ Right(t, queue, zeroed, hd.count, Excused, X) /\ Same(t)
    /\ Leaves(Now, t, FALSE)
    /\ mtrace.on /\ ~Excused => t.mtrace.pointer = p /\ t.mtrace.size = l

LEMMA NowFields ==
  /\ Now.blocks = blocks /\ Now.event = event /\ Now.mtrace = mtrace
  /\ Now.reader = reader /\ Now.gauge = gauge /\ Now.diffs = diffs /\ Now.files = files
  BY DEF Now

LEMMA NowIsSame ==
  ASSUME CallInv
  PROVE  /\ Same(Now) /\ Now \in States /\ diffs \in Seq(Diffs) /\ blocks \in SUBSET Blocks
         /\ Right(Now, queue, zeroed, hd.count, Excused, {})
<1>1. Same(Now)
  BY NowFields DEF Same, SameTrace, SameGauge, SameDiffs, SameDiff
<1>2. Right(Now, queue, zeroed, hd.count, within, {})
  BY DEF CallInv
<1>3. Now \in States
  BY <1>2 DEF Right, HeapRight
<1>4. diffs \in Seq(Diffs) /\ blocks \in SUBSET Blocks
  BY <1>3, NowFields, StateFields
<1>5. TraceRight(Now, Excused)
  BY <1>2 DEF Right, TraceRight, Excused
<1> QED BY <1>1, <1>2, <1>3, <1>4, <1>5 DEF Right

LEMMA BegunAfter ==
  ASSUME CallInv, NEW p \in Places0, NEW l \in Int, NEW X,
         HeapRight(Prologue(Now, p, l), queue, zeroed, hd.count, X)
  PROVE  Begun(Begin(p, l), p, l, X)
<1> DEFINE s == Prologue(Now, p, l)
           t == FreeAllEnded(s, FALSE)
<1>1. /\ HooksInv /\ queue \in Nat /\ zeroed \in SUBSET Nat
  BY DEF CallInv
<1>2. /\ Same(Now) /\ Now \in States /\ diffs \in Seq(Diffs)
      /\ Right(Now, queue, zeroed, hd.count, Excused, {})
  BY NowIsSame
<1>3. Prologued(Now, s, p, l)
  BY <1>1, <1>2, PrologueIs
<1>4. Begin(p, l) = t
  BY DEF Begin
<1> HIDE DEF s
<1>5. /\ SameTrace(s.mtrace, mtrace) /\ s.mtrace.since = Now.mtrace.since
      /\ mtrace.on => s.mtrace.pointer = p /\ s.mtrace.size = l
  BY <1>2, <1>3, NowFields DEF Prologued, States, Traces, SameTrace
<1>6. Same(s)
  BY <1>2, <1>3, <1>5 DEF Same, Prologued
<1>7. TraceRight(s, Excused)
  BY <1>2, <1>3, <1>5, NowFields DEF Right, TraceRight, Prologued, SameTrace
<1>8. GaugeRight(s.gauge, s.blocks)
  BY <1>2, <1>3 DEF Right, Prologued
<1>9. Right(s, queue, zeroed, hd.count, Excused, X)
  BY <1>7, <1>8 DEF Right, s
<1>10. FreedRight(s, t, FALSE, Excused, X)
  BY <1>1, <1>2, <1>6, <1>9, FreeAllEndedRight
<1>11. ASSUME mtrace.on, ~Excused
       PROVE  t.mtrace.pointer = p /\ t.mtrace.size = l
  <2>1. Ended(s.blocks, FALSE) = {}
    BY <1>3, <1>11, NowFields DEF Excused, Prologued
  <2>2. t = s
    BY <2>1, FreeAllNone
  <2> HIDE DEF t
  <2> QED BY <1>5, <1>11, <2>2
<1> HIDE DEF t
<1>12. Leaves(Now, t, FALSE)
  BY <1>3, <1>10 DEF FreedRight, Leaves, Prologued
<1>13. Begun(t, p, l, X)
  BY <1>10, <1>11, <1>12 DEF FreedRight, Begun
<1> QED BY <1>4, <1>13

\* Nothing is to be freed at p.
LEMMA BeginRight ==
  ASSUME CallInv, NEW p \in Places0, NEW l \in Int, l # FREED \/ p \notin ADDRS
  PROVE  Begun(Begin(p, l), p, l, {})
<1>1. HooksInv /\ HeapRight(Now, queue, zeroed, hd.count, {})
  BY DEF CallInv, Right
<1>2. \A b \in Now.blocks : b.at \in ADDRS
  BY NowIsSame, NowFields DEF Blocks
<1>3. HeapRight(Prologue(Now, p, l), queue, zeroed, hd.count, {})
  BY <1>1, <1>2, PrologueKeepsHeap
<1> QED BY <1>3, BegunAfter

\* Block b is.
LEMMA BeginFrees ==
  ASSUME CallInv, NEW b \in Live(blocks)
  PROVE  Begun(Begin(b.at, FREED), b.at, FREED, {b.num})
<1>1. HooksInv /\ HeapRight(Now, queue, zeroed, hd.count, {})
  BY DEF CallInv, Right
<1>2. SameDiffs(Now.diffs, diffs) /\ diffs \in Seq(Diffs) /\ blocks \in SUBSET Blocks
  BY NowIsSame DEF Same
<1>3. b \in Live(Now.blocks)
  BY NowFields
<1>4. HeapRight(Prologue(Now, b.at, FREED), queue, zeroed, hd.count, {} \cup {b.num})
  BY <1>1, <1>2, <1>3, PrologueFrees
<1>5. b.at \in Places0 /\ FREED \in Int /\ {} \cup {b.num} = {b.num}
  BY <1>2 DEF Places0, FREED, Live, Blocks
<1>6. HeapRight(Prologue(Now, b.at, FREED), queue, zeroed, hd.count, {b.num})
  BY <1>4, <1>5
<1> QED BY <1>5, <1>6, BegunAfter

-----------------------------------------------------------------------------
(***************************************************************************)
(* The tools: blocks that are new or have been resized                     *)
(***************************************************************************)
\* From blocks B to C: those in R have gone, and there is x, in a place of its own,
\* with a number of its own, at event e.
Put(B, C, R, x, e) ==
    /\ B \in SUBSET Blocks /\ R \subseteq Live(B) /\ C = (B \ R) \cup {x}
    /\ x \in Blocks /\ ~x.freed /\ x.event = e /\ x.num <= e
    /\ \A b \in B \ R : b.at # x.at
    /\ \A b \in Live(B) \ R : b.num # x.num

LEMMA PutSplits ==
  ASSUME NEW B, NEW C, NEW R, NEW x, NEW e, Put(B, C, R, x, e)
  PROVE  /\ Live(C) = (Live(B) \ R) \cup {x} /\ Retained(C) = Retained(B)
         /\ C \in SUBSET Blocks
<1>1. \A b \in R : ~b.freed
  BY DEF Put, Live
<1> QED BY <1>1 DEF Put, Live, Retained

LEMMA PutKeepsBlocks ==
  ASSUME NEW B, NEW C, NEW R, NEW x, NEW e \in Nat, NEW z,
         Put(B, C, R, x, e), BlocksRight(B, e, z), x.num \notin z
  PROVE  BlocksRight(C, e, z)
<1>1. Live(C) = (Live(B) \ R) \cup {x}
  BY PutSplits
<1>2. \A b \in C : b = x \/ b \in B \ R
  BY DEF Put
<1>3. \A b \in C : b.num <= e /\ b.event <= e
  BY <1>2 DEF Put, BlocksRight
<1>4. \A b, c \in C : b.at = c.at => b = c
  BY <1>2 DEF Put, BlocksRight
<1>5. \A b, c \in Live(C) : b.num = c.num => b = c
  BY <1>1 DEF Put, BlocksRight
<1>6. \A b \in Live(C) : b.num \notin z
  BY <1>1 DEF BlocksRight
<1> QED BY <1>3, <1>4, <1>5, <1>6 DEF BlocksRight

LEMMA PutKeepsDiff ==
  ASSUME NEW B, NEW C, NEW R, NEW x, NEW e \in Nat, Put(B, C, R, x, e),
         NEW h \in Diffs, DiffRight(h, B, e), h.event < e,
         NEW g, SameDiff(g, h), g.freed = h.freed, g.touched = h.touched \cup {x.num}
  PROVE  DiffRight(g, C, e)
<1>1. Live(C) = (Live(B) \ R) \cup {x} /\ Retained(C) = Retained(B)
  BY PutSplits
<1>2. h.event \in Nat /\ g.event = h.event /\ g.was = h.was /\ h.touched \in SUBSET Nat
  BY DEF Diffs, SameDiff
<1>3. ListsFreed(g) => g.freed = {<<b.num, b.at>> : b \in {c \in Retained(C) :
                                                              c.event > g.event}}
  BY <1>1, <1>2 DEF DiffRight, ListsFreed, SameDiff
<1>4. \A b \in Live(C) : b.event > g.event <=> b.num \in g.touched
  <2> TAKE b \in Live(C)
  <2>1. CASE b = x
    BY <1>2, <2>1 DEF Put
  <2>2. CASE b \in Live(B) \ R
    <3>1. b.num # x.num
      BY <2>2 DEF Put
    <3>2. b.event > h.event <=> b.num \in h.touched
      BY <2>2 DEF DiffRight
    <3> QED BY <1>2, <3>1, <3>2
  <2> QED BY <1>1, <2>1, <2>2
<1>5. \A n \in g.touched : n <= e
  BY DEF Put, DiffRight
<1> QED BY <1>2, <1>3, <1>4, <1>5 DEF DiffRight

\* All heapdiffs see the block x.
LEMMA PutKeepsDiffs ==
  ASSUME NEW B, NEW C, NEW R, NEW x, NEW e \in Nat, Put(B, C, R, x, e),
         NEW D \in Seq(Diffs), DiffsRight(D, B, e), DiffsEarlier(D, e)
  PROVE  LET E == Seen(D, {}, {x.num})
         IN  E \in Seq(Diffs) /\ SameDiffs(E, D) /\ DiffsRight(E, C, e)
<1> DEFINE E == Seen(D, {}, {x.num})
<1>1. {} \in SUBSET (Nat \X ADDRS) /\ {x.num} \in SUBSET Nat
  BY DEF Put, Blocks
<1>2. Sees(E, D, {}, {x.num})
  BY <1>1, SeenIs
<1> HIDE DEF E
<1>3. \A i \in DOMAIN D : D[i] \in Diffs
  BY ElementOfSeq
<1>4. ASSUME NEW i \in DOMAIN E PROVE DiffRight(E[i], C, e)
  <2> DEFINE g == E[i]
             h == D[i]
  <2>1. i \in DOMAIN D /\ h \in Diffs /\ SameDiff(g, h)
    BY <1>2, <1>3 DEF Sees, SameDiffs
  <2>2. g.freed = h.freed /\ g.touched = h.touched \cup {x.num}
    BY <1>2, <2>1 DEF Sees
  <2>3. DiffRight(h, B, e) /\ h.event < e
    BY <2>1 DEF DiffsRight, DiffsEarlier
  <2> HIDE DEF g, h
  <2>4. DiffRight(g, C, e)
    BY <2>1, <2>2, <2>3, PutKeepsDiff
  <2> QED BY <2>4 DEF g
<1> QED BY <1>2, <1>4 DEF Sees, DiffsRight, E

\* Files belong to blocks by their numbers.
Nums(B) == {b.num : b \in Live(B)}

LEMMA NumsKeepFiles ==
  ASSUME NEW F, NEW D, NEW B, NEW C, NEW z, NEW n, NEW m,
         FilesRight(F, D, B, z, n, {}),
         Nums(C) = Nums(B) \/ Nums(C) = Nums(B) \cup {m},
         Nums(C) # Nums(B) => \A i \in DOMAIN D : \A w \in D[i].was : w.num # m
  PROVE  FilesRight(F, D, C, z, n, {})
<1>1. ASSUME NEW f \in F, f.num \notin z PROVE FileRight(f, D, C)
  <2>1. FileRight(f, D, B)
    BY <1>1 DEF FilesRight
  <2>2. PICK i \in DOMAIN D : \E w \in D[i].was :
          Contents(D[i]) /\ f = File(D[i].id, w) /\ \E c \in Live(B) : c.num = w.num
    BY <2>1 DEF FileRight
  <2>3. PICK w \in D[i].was :
          Contents(D[i]) /\ f = File(D[i].id, w) /\ \E c \in Live(B) : c.num = w.num
    BY <2>2
  <2>4. w.num \in Nums(B)
    BY <2>3 DEF Nums
  <2>5. w.num \in Nums(C)
    BY <2>4
  <2>6. \E c \in Live(C) : c.num = w.num
    BY <2>5 DEF Nums
  <2> QED BY <2>3, <2>6 DEF FileRight
<1>2. ASSUME NEW i \in DOMAIN D, Contents(D[i]), NEW w \in D[i].was, NEW c \in Live(C),
             c.num = w.num
      PROVE  File(D[i].id, w) \in F
  <2>1. w.num \in Nums(C)
    BY <1>2 DEF Nums
  <2>2. w.num \in Nums(B)
    BY <2>1
  <2>3. \E b \in Live(B) : b.num = w.num
    BY <2>2 DEF Nums
  <2> QED BY <1>2, <2>3 DEF FilesRight
<1> QED BY <1>1, <1>2 DEF FilesRight

\* What the trace's reader knows after a block has been put.
TracedThen(C, B, since, gone, x) ==
    TracedOf(C, since) = {y \in TracedOf(B, since) : y.at # gone}
                            \cup {[at |-> x.at, size |-> Len(x.data)]}

LEMMA TracedAfter ==
  ASSUME NEW B, NEW C, NEW R, NEW x, Live(C) = (Live(B) \ R) \cup {x},
         NEW since, x.event > since, NEW gone,
         \A b \in Live(B) : b.at = gone <=> b \in R
  PROVE  TracedThen(C, B, since, gone, x)
<1>1. {c \in Live(C) : c.event > since} = {c \in Live(B) \ R : c.event > since} \cup {x}
  OBVIOUS
<1>2. {y \in TracedOf(B, since) : y.at # gone}
        = {[at |-> b.at, size |-> Len(b.data)] : b \in {c \in Live(B) \ R : c.event > since}}
  <2>1. \A b : [at |-> b.at, size |-> Len(b.data)].at = b.at
    OBVIOUS
  <2> QED BY <2>1 DEF TracedOf
<1> QED BY <1>1, <1>2 DEF TracedOf, TracedThen

\* The operation has its event, after all that has been before.
Ready(v, p, l, X) ==
    /\ HeapRight(v, queue, zeroed, hd.count, X) /\ Same(v)
    /\ TraceRight(v, Excused)
    /\ Leaves(Now, v, FALSE)
    /\ mtrace.on /\ ~Excused => v.mtrace.pointer = p /\ v.mtrace.size = l
    /\ DiffsEarlier(v.diffs, v.event) /\ v.mtrace.since < v.event
    /\ \A b \in v.blocks : b.num < v.event
    /\ \A m \in zeroed : m < v.event
    /\ \A i \in DOMAIN v.diffs : \A w \in v.diffs[i].was : w.num < v.event

LEMMA ReadyAfter ==
  ASSUME NEW t, NEW p, NEW l, NEW X, Begun(t, p, l, X), zeroed \in SUBSET Nat
  PROVE  Ready(EventCounted(t), p, l, X)
<1> DEFINE v == EventCounted(t)
<1>1. HeapRight(t, queue, zeroed, hd.count, X) /\ t \in States
  BY DEF Begun, Right, HeapRight
<1>2. CountedIs(t, v)
  BY <1>1, CountedFacts
<1>3. HeapRight(v, queue, zeroed, hd.count, X) /\ DiffsEarlier(v.diffs, v.event)
  BY <1>1, CountKeepsHeap
<1> HIDE DEF v
<1>4. t.event \in Nat /\ t.mtrace.since \in Nat /\ t.blocks \in SUBSET Blocks
      /\ t.diffs \in Seq(Diffs)
  BY <1>1 DEF States, Traces
<1>5. \A m \in Nat : m <= t.event => m < v.event
  BY <1>2, <1>4 DEF CountedIs
<1>6. v.mtrace.since < v.event
  BY <1>1, <1>2, <1>4, <1>5 DEF HeapRight, CountedIs
<1>7. \A b \in v.blocks : b.num < v.event
  <2>1. \A b \in t.blocks : b.num \in Nat /\ b.num <= t.event
    BY <1>1, <1>4 DEF HeapRight, BlocksRight, Blocks
  <2> QED BY <1>2, <1>5, <2>1 DEF CountedIs
<1>8. \A m \in zeroed : m < v.event
  BY <1>1, <1>5 DEF HeapRight, BlocksRight
<1>9. ASSUME NEW i \in DOMAIN v.diffs, NEW w \in v.diffs[i].was PROVE w.num < v.event
  <2>1. v.diffs = t.diffs
    BY <1>2 DEF CountedIs
  <2>2. t.diffs[i] \in Diffs /\ DiffRight(t.diffs[i], t.blocks, t.event)
    BY <1>1, <1>4, <1>9, <2>1, ElementOfSeq DEF HeapRight, DiffsRight
  <2>3. w.num \in Nat /\ w.num <= t.event
    BY <1>9, <2>1, <2>2 DEF DiffRight, Diffs, Blocks
  <2> QED BY <1>5, <2>3
<1>10. Same(v) /\ TraceRight(v, Excused) /\ Leaves(Now, v, FALSE)
  BY <1>2 DEF CountedIs, Begun, Right, Same, TraceRight, Leaves
<1>11. mtrace.on /\ ~Excused => v.mtrace.pointer = p /\ v.mtrace.size = l
  BY <1>2 DEF CountedIs, Begun
<1> QED BY <1>3, <1>6, <1>7, <1>8, <1>9, <1>10, <1>11 DEF Ready, v

LEMMA PutKeepsHeap ==
  ASSUME NEW B, NEW C, NEW R, NEW x, NEW D \in Seq(Diffs), NEW F, NEW z, NEW q, NEW n,
         NEW w \in States, w.blocks = C, w.diffs = Seen(D, {}, {x.num}), w.files = F,
         Put(B, C, R, x, w.event), BlocksRight(B, w.event, z), x.num \notin z,
         DiffsRight(D, B, w.event), DiffsEarlier(D, w.event),
         QueueRight(D, q), IdsRight(D, n), FilesRight(F, D, C, z, n, {}),
         w.mtrace.since <= w.event
  PROVE  HeapRight(w, q, z, n, {}) /\ SameDiffs(w.diffs, D)
<1>1. w.event \in Nat
  BY DEF States
<1>2. BlocksRight(w.blocks, w.event, z)
  BY <1>1, PutKeepsBlocks
<1>3. SameDiffs(w.diffs, D) /\ DiffsRight(w.diffs, w.blocks, w.event)
  BY <1>1, PutKeepsDiffs
<1>4. QueueRight(w.diffs, q) /\ IdsRight(w.diffs, n)
  BY <1>3, SameKeepsQueue, SameKeepsIds
<1>5. FilesRight(w.files, w.diffs, w.blocks, z, n, {})
  BY <1>3, SameKeepsFiles
<1> QED BY <1>2, <1>3, <1>4, <1>5 DEF HeapRight

\* A line about what is at q from now on, and what was at another place.
LineIs(s, p, gone, new, size) == Lines(s, p) = Line(gone, new, size)

\* The trace is under way, since before x.
TraceStays(s, w, x) ==
    mtrace.on => /\ s.mtrace.on /\ w.mtrace.since = s.mtrace.since
                 /\ x.event > s.mtrace.since

\* From s to w there is x for the blocks in R, and the trace gets a line on x and on
\* where they have been.
Told(s, w, R, x, gone, in) ==
    /\ Live(w.blocks) = (Live(s.blocks) \ R) \cup {x} /\ x.at \in ADDRS
    /\ \A b \in Live(s.blocks) : b.at = gone <=> b \in R
    /\ mtrace.on /\ ~in => LineIs(w, x.at, gone, x.at, Len(x.data))

LEMMA TellsPut ==
  ASSUME NEW s, NEW w, NEW R, NEW x, NEW gone, NEW in, Told(s, w, R, x, gone, in),
         TraceStays(s, w, x), TraceRight(s, in), w.reader = s.reader
  PROVE  TellsTrace(w, x.at, in)
<1> SUFFICES ASSUME mtrace.on, ~in
             PROVE  Read(w.reader, Lines(w, x.at)) = TracedOf(w.blocks, w.mtrace.since)
  BY DEF TellsTrace
<1> DEFINE since == w.mtrace.since
           B == s.blocks
           C == w.blocks
<1>1. w.reader = TracedOf(B, since) /\ x.event > since
  BY DEF TraceRight, TraceStays
<1>2. x.at # NULL
  BY ToolsAssumption DEF ToolsAssumption, Told
<1>3. Read(w.reader, Line(gone, x.at, Len(x.data)))
        = {y \in w.reader : y.at # gone} \cup {[at |-> x.at, size |-> Len(x.data)]}
  BY <1>2 DEF Read, Line
<1>4. Live(C) = (Live(B) \ R) \cup {x} /\ \A b \in Live(B) : b.at = gone <=> b \in R
  BY DEF Told
<1> HIDE DEF since, B, C
<1>5. TracedThen(C, B, since, gone, x)
  BY <1>1, <1>4, TracedAfter
<1> QED BY <1>1, <1>3, <1>5 DEF LineIs, Told, since, C, TracedThen

\* A line that says nothing.
LEMMA TellsNothing ==
  ASSUME NEW v, NEW in, NEW p, v \in States, mtrace.on => v.mtrace.on, TraceRight(v, in),
         mtrace.on /\ ~in => \E l : LineIs(v, p, NULL, NULL, l)
  PROVE  TellsTrace(v, p, in)
<1> SUFFICES ASSUME mtrace.on, ~in
             PROVE  Read(v.reader, Lines(v, p)) = TracedOf(v.blocks, v.mtrace.since)
  BY DEF TellsTrace
<1>1. PICK l : Lines(v, p) = Line(NULL, NULL, l)
  BY DEF LineIs
<1>2. v.reader = TracedOf(v.blocks, v.mtrace.since)
  BY DEF TraceRight
<1>3. \A b \in Live(v.blocks) : b.at # NULL
  BY ToolsAssumption DEF ToolsAssumption, States, Blocks, Live
<1>4. \A y \in v.reader : y.at # NULL
  BY <1>2, <1>3 DEF TracedOf
<1>5. Read(v.reader, Line(NULL, NULL, l)) = v.reader
  BY <1>4 DEF Read, Line
<1> QED BY <1>1, <1>2, <1>5

-----------------------------------------------------------------------------
(***************************************************************************)
(* The tools: after an operation                                           *)
(***************************************************************************)
LEMMA NestedKept ==
  ASSUME NEW f, NEW N, NEW D, NEW h, NEW m, NEW g, Nested(f, N, D, h, m, g),
         NEW E, SameDiffs(E, D), NEW k, k.on = m.on, NEW j, j.on = g.on
  PROVE  Nested(f, N, E, h, k, j)
<1>1. DOMAIN E = DOMAIN D /\ WithContents(E) = WithContents(D)
  BY SameDiffsContents DEF SameDiffs
<1>2. Places(f, N, E)
  BY <1>1 DEF Nested, Places
<1> QED BY <1>1, <1>2 DEF Nested

LEMMA HooksKept ==
  ASSUME HooksInv, SameTrace(mtrace', mtrace), SameGauge(gauge', gauge),
         SameDiffs(diffs', diffs), mtrace' \in Traces, gauge' \in Gauges,
         UNCHANGED <<hooks, hd, nesting>>
  PROVE  HooksInv'
<1>1. WithContents(diffs') = WithContents(diffs) /\ DOMAIN diffs' = DOMAIN diffs
  BY SameDiffsContents DEF SameDiffs
<1>2. mtrace'.on = mtrace.on /\ gauge'.on = gauge.on
  BY DEF SameTrace, SameGauge
<1>3. ProChain(hooks', mtrace', hd') /\ EpiChain(hooks', mtrace', gauge')
  BY DEF HooksInv, ProChain, EpiChain, SameTrace, SameGauge
<1>4. \E f \in [DOMAIN diffs' -> DOMAIN nesting'] :
        Nested(f, nesting', diffs', hooks', mtrace', gauge')
  <2>1. PICK f \in [DOMAIN diffs -> DOMAIN nesting] :
          Nested(f, nesting, diffs, hooks, mtrace, gauge)
    BY DEF HooksInv
  <2>2. Nested(f, nesting, diffs', hooks, mtrace', gauge')
    BY <1>2, <2>1, NestedKept
  <2> QED BY <1>1, <2>1, <2>2
<1>5. hd'.total = Cardinality(WithContents(diffs'))
  BY <1>1 DEF HooksInv
<1> QED BY <1>3, <1>4, <1>5 DEF HooksInv

LEMMA AtExitKept ==
  ASSUME AtExitInv, mtrace'.on = mtrace.on, mtrace'.atexit = mtrace.atexit,
         UNCHANGED <<hd, atexit>>
  PROVE  AtExitInv'
  BY DEF AtExitInv

LEMMA NowAfter ==
  ASSUME NEW r \in States, Becomes(r)
  PROVE  Now' = r
<1>1. /\ Now'.blocks = r.blocks /\ Now'.event = r.event /\ Now'.mtrace = r.mtrace
      /\ Now'.reader = r.reader /\ Now'.gauge = r.gauge /\ Now'.diffs = r.diffs
      /\ Now'.files = r.files
  BY DEF Becomes, Now
<1>2. DOMAIN Now' = {"blocks", "event", "mtrace", "reader", "gauge", "diffs", "files"}
  BY DEF Now
<1>3. Now' = [k \in DOMAIN Now' |-> Now'[k]]
  BY DEF Now
<1>4. r = [k \in DOMAIN r |-> r[k]]
  BY DEF States
<1>5. DOMAIN r = {"blocks", "event", "mtrace", "reader", "gauge", "diffs", "files"}
  BY StateFields
<1> QED BY <1>1, <1>2, <1>3, <1>4, <1>5

LEMMA OperationKeeps ==
  ASSUME CallInv, NEW r, Right(r, queue, zeroed', hd.count, within', {}), Same(r),
         Becomes(r), UNCHANGED <<queue, hooks, hd, atexit, nesting>>,
         steps' \in Int, zeroed' \in SUBSET Nat, within' \in BOOLEAN
  PROVE  CallInv'
<1>1. r \in States
  BY DEF Right, HeapRight
<1>2. Now' = r
  BY <1>1, NowAfter
<1>3. Right(Now', queue', zeroed', hd'.count, within', {})
  BY <1>2
<1>4. mtrace' = r.mtrace /\ gauge' = r.gauge /\ diffs' = r.diffs
  BY DEF Becomes
<1>5. HooksInv'
  BY <1>1, <1>4, StateFields, HooksKept DEF CallInv, Same
<1>6. AtExitInv'
  BY <1>4, AtExitKept DEF CallInv, Same, SameTrace
<1> QED BY <1>3, <1>5, <1>6 DEF CallInv

-----------------------------------------------------------------------------
(***************************************************************************)
(* The tools: the operations                                               *)
(***************************************************************************)
\* The state w before the epilogue functions are called with p.
Finished(w, p) ==
    HeapRight(w, queue, zeroed, hd.count, {}) /\ Same(w) /\ TellsTrace(w, p, Excused)

LEMMA FinishedRight ==
  ASSUME HooksInv, NEW w, NEW p \in Places0, Finished(w, p)
  PROVE  /\ Right(Epilogue(w, p), queue, zeroed, hd.count, Excused, {})
         /\ Same(Epilogue(w, p))
  BY EpilogueRight DEF Finished

LEMMA SizeAtIs ==
  ASSUME NEW B, \A c, d \in B : c.at = d.at => c = d, NEW b \in Live(B)
  PROVE  SizeAt(B, b.at) = Len(b.data)
<1>1. At(B, b.at) = {b}
  BY DEF At, Live
<1> QED BY <1>1 DEF SizeAt

\* Nothing has been done, but for the event.
LEMMA FailedFinished ==
  ASSUME NEW v, NEW p \in Places0, NEW l \in Int, Ready(v, p, l, {}),
         l # FREED, p \in ADDRS => l # 0
  PROVE  Finished(v, NULL)
<1>1. v \in States
  BY DEF Ready, HeapRight
<1>2. mtrace.on => v.mtrace.on
  BY DEF Ready, Same, SameTrace
<1>3. mtrace.on /\ ~Excused => \E k : LineIs(v, NULL, NULL, NULL, k)
  BY DEF Ready, LineIs, Lines, Places0
<1>4. TellsTrace(v, NULL, Excused)
  BY <1>1, <1>2, <1>3, TellsNothing DEF Ready
<1> QED BY <1>4 DEF Ready, Finished

\* From v to w a block x is put for those in R, where blocks and heapdiffs have been
\* made B and D.
PutSteps(v, w, B, D, R, x) ==
    /\ Put(B, w.blocks, R, x, v.event)
    /\ BlocksRight(B, v.event, zeroed) /\ x.num \notin zeroed
    /\ D \in Seq(Diffs) /\ DiffsRight(D, B, v.event) /\ SameDiffs(D, v.diffs)
    /\ FilesRight(v.files, D, w.blocks, zeroed, hd.count, {})
    /\ w \in States /\ w.event = v.event /\ w.mtrace = v.mtrace /\ w.reader = v.reader
    /\ w.gauge = v.gauge /\ w.files = v.files /\ w.diffs = Seen(D, {}, {x.num})

LEMMA PutFinished ==
  ASSUME NEW v, NEW p, NEW l, Ready(v, p, l, {}), NEW w,
         NEW B, NEW D, NEW R, NEW x, NEW S, NEW gone,
         PutSteps(v, w, B, D, R, x), Told(v, w, S, x, gone, Excused)
  PROVE  Finished(w, x.at)
<1>1. /\ HeapRight(v, queue, zeroed, hd.count, {}) /\ v \in States /\ v.event \in Nat
      /\ v.mtrace.since \in Nat /\ v.blocks \in SUBSET Blocks
  BY DEF Ready, HeapRight, States, Traces
<1>2. /\ QueueRight(D, queue) /\ IdsRight(D, hd.count)
  BY <1>1, SameKeepsQueue, SameKeepsIds DEF HeapRight, PutSteps
<1>3. DiffsEarlier(D, v.event)
  BY DEF Ready, DiffsEarlier, SameDiffs, SameDiff, PutSteps
<1>4. w.mtrace.since <= w.event
  BY <1>1 DEF HeapRight, PutSteps
<1>5. HeapRight(w, queue, zeroed, hd.count, {}) /\ SameDiffs(w.diffs, D)
  <2> DEFINE C == w.blocks
             F == v.files
             e == v.event
  <2>1. /\ Put(B, C, R, x, e) /\ BlocksRight(B, e, zeroed)
        /\ DiffsRight(D, B, e) /\ DiffsEarlier(D, e) /\ w.event = e
        /\ FilesRight(F, D, C, zeroed, hd.count, {}) /\ w.blocks = C /\ w.files = F
    BY <1>3 DEF PutSteps
  <2>2. D \in Seq(Diffs) /\ w \in States /\ w.diffs = Seen(D, {}, {x.num})
        /\ x.num \notin zeroed
    BY DEF PutSteps
  <2> HIDE DEF C, F, e
  <2> QED BY <1>2, <1>4, <2>1, <2>2, PutKeepsHeap
<1>6. SameDiffs(w.diffs, diffs)
  <2>1. SameDiffs(w.diffs, v.diffs)
    BY <1>5, SameDiffsTransitive DEF PutSteps
  <2> QED BY <2>1, SameDiffsTransitive DEF Ready, Same
<1>7. Same(w)
  BY <1>6 DEF Ready, Same, PutSteps
<1>8. TellsTrace(w, x.at, Excused)
  <2>1. w.reader = v.reader
    BY DEF PutSteps
  <2>2. TraceStays(v, w, x)
    BY DEF Ready, Same, SameTrace, PutSteps, Put, TraceStays
  <2>3. TraceRight(v, Excused)
    BY DEF Ready
  <2> DEFINE in == Excused
  <2>4. TraceRight(v, in) /\ Told(v, w, S, x, gone, in)
    BY <2>3
  <2> HIDE DEF in
  <2>5. TellsTrace(w, x.at, in)
    BY <2>1, <2>2, <2>4, TellsPut
  <2> QED BY <2>5 DEF in
<1> QED BY <1>5, <1>7, <1>8 DEF Finished

New(v, a, d, k) ==
    [v EXCEPT !.blocks = @ \cup {NewRecord(v, a, d, k)}, !.diffs = Seen(@, {}, {v.event})]

LEMMA NewFinished ==
  ASSUME zeroed \in SUBSET Nat,
         NEW v, NEW p \in Places0, NEW l \in Int, Ready(v, p, l, {}),
         NEW a \in FreeAddrs(v.blocks), NEW d \in Seq(Nat), NEW k \in {"heap", "stack"},
         \/ p \notin ADDRS /\ l = Len(d)
         \/ l = STRINGSIZE /\ \E b \in Live(v.blocks) : b.at = p /\ b.data = d
  PROVE  Finished(New(v, a, d, k), a)
<1> DEFINE x == NewRecord(v, a, d, k)
           C == v.blocks \cup {x}
           E == Seen(v.diffs, {}, {x.num})
           w == New(v, a, d, k)
<1>1. /\ HeapRight(v, queue, zeroed, hd.count, {}) /\ v \in States /\ v.event \in Nat
      /\ v.blocks \in SUBSET Blocks /\ v.diffs \in Seq(Diffs)
      /\ \A b, c \in v.blocks : b.at = c.at => b = c
  BY DEF Ready, HeapRight, States, BlocksRight
<1>2. a \in ADDRS /\ \A b \in v.blocks : b.at # a
  BY DEF FreeAddrs
<1>3. x \in Blocks /\ x.num = v.event /\ x.event = v.event /\ ~x.freed /\ x.at = a
      /\ x.data = d
  BY <1>1, <1>2 DEF NewRecord, Blocks
<1>4. w = [v EXCEPT !.blocks = C, !.diffs = E]
  BY <1>1, <1>3 DEF New, States
<1> HIDE DEF x
<1>5. \A b \in v.blocks : b.num # v.event
  BY <1>1 DEF Ready, Blocks
<1>6. x.num \notin zeroed
  BY <1>1, <1>3 DEF Ready
<1>7. Put(v.blocks, C, {}, x, v.event)
  BY <1>1, <1>2, <1>3, <1>5 DEF Put, Live
<1>8. C \in SUBSET Blocks
  BY <1>1, <1>3
<1>9. E \in Seq(Diffs)
  BY <1>1, <1>7, PutKeepsDiffs DEF Ready, HeapRight
<1> HIDE DEF C, E
<1>10. /\ w \in States /\ w.blocks = C /\ w.diffs = E
       /\ w.event = v.event /\ w.mtrace = v.mtrace /\ w.reader = v.reader
       /\ w.gauge = v.gauge /\ w.files = v.files
  BY <1>1, <1>4, <1>8, <1>9 DEF States
<1> HIDE DEF w
<1>11. FilesRight(v.files, v.diffs, C, zeroed, hd.count, {})
  <2>1. Live(C) = (Live(v.blocks) \ {}) \cup {x}
    BY <1>7, PutSplits
  <2>2. Nums(C) = Nums(v.blocks) \cup {x.num}
    BY <2>1 DEF Nums
  <2>3. \A i \in DOMAIN v.diffs : \A y \in v.diffs[i].was : y.num # x.num
    <3>1. \A i \in DOMAIN v.diffs : \A y \in v.diffs[i].was : y.num \in Nat
      <4>1. \A i \in DOMAIN v.diffs : v.diffs[i] \in Diffs
        BY <1>1, ElementOfSeq
      <4>2. \A i \in DOMAIN v.diffs : v.diffs[i].was \in SUBSET Blocks
        BY <4>1 DEF Diffs
      <4> QED BY <4>2 DEF Blocks
    <3> QED BY <1>1, <1>3, <3>1 DEF Ready
  <2>4. FilesRight(v.files, v.diffs, v.blocks, zeroed, hd.count, {})
    BY <1>1 DEF HeapRight
  <2> QED BY <2>2, <2>3, <2>4, NumsKeepFiles
<1>12. mtrace.on /\ ~Excused => LineIs(w, x.at, NULL, x.at, Len(x.data))
  <2> SUFFICES ASSUME mtrace.on, ~Excused PROVE Lines(w, a) = Line(NULL, a, Len(d))
    BY <1>3 DEF LineIs
  <2>1. w.mtrace.pointer = p /\ w.mtrace.size = l
    BY <1>10 DEF Ready
  <2>2. a # NULL /\ Len(d) \in Nat /\ MINUS1 \notin ADDRS /\ NULL \notin ADDRS
    BY <1>2, ToolsAssumption, LenProperties DEF ToolsAssumption
  <2>3. CASE p \notin ADDRS /\ l = Len(d)
    BY <2>1, <2>2, <2>3 DEF Lines, Places0, FREED, STRINGSIZE
  <2>4. CASE l = STRINGSIZE /\ \E b \in Live(v.blocks) : b.at = p /\ b.data = d
    <3>1. PICK b \in Live(v.blocks) : b.at = p /\ b.data = d
      BY <2>4
    <3>2. b \in Live(C) /\ p \in ADDRS
      BY <1>1, <1>7, <3>1, PutSplits DEF Live, Blocks
    <3>3. \A c, e \in C : c.at = e.at => c = e
      <4> DEFINE B == v.blocks
                 e == v.event
                 R == {}
      <4>1. Put(B, C, R, x, e) /\ e \in Nat /\ BlocksRight(B, e, zeroed)
        BY <1>1, <1>7 DEF HeapRight
      <4> HIDE DEF B, e, R
      <4>2. BlocksRight(C, e, zeroed)
        BY <1>6, <4>1, PutKeepsBlocks
      <4> QED BY <4>2 DEF BlocksRight
    <3>4. SizeAt(C, p) = Len(d)
      BY <3>1, <3>2, <3>3, SizeAtIs
    <3> QED BY <1>10, <2>1, <2>2, <2>4, <3>2, <3>4 DEF Lines, FREED, STRINGSIZE
  <2> QED BY <2>3, <2>4
<1>13. \A b \in Live(v.blocks) : b.at = NULL <=> b \in {}
  BY <1>1, ToolsAssumption DEF ToolsAssumption, Live, Blocks
<1>14. /\ BlocksRight(v.blocks, v.event, zeroed) /\ DiffsRight(v.diffs, v.blocks, v.event)
       /\ SameDiffs(v.diffs, v.diffs)
  BY <1>1 DEF HeapRight, SameDiffs, SameDiff
<1>15. PutSteps(v, w, v.blocks, v.diffs, {}, x)
  BY <1>1, <1>6, <1>7, <1>10, <1>11, <1>14 DEF PutSteps, E
<1>16. Told(v, w, {}, x, NULL, Excused)
  <2>1. Live(C) = (Live(v.blocks) \ {}) \cup {x}
    BY <1>7, PutSplits
  <2> QED BY <1>2, <1>3, <1>10, <1>12, <1>13, <2>1 DEF Told
<1>17. Finished(w, x.at)
  BY <1>15, <1>16, PutFinished
<1> QED BY <1>3, <1>17 DEF w

\* A call has been made whose state is w before the epilogue functions.
LEMMA OperationDone ==
  ASSUME CallInv, Operation, UNCHANGED zeroed, NEW w, NEW p \in Places0, Finished(w, p),
         Becomes(Epilogue(w, p))
  PROVE  CallInv'
<1> DEFINE r == Epilogue(w, p)
<1>1. Right(r, queue, zeroed, hd.count, Excused, {}) /\ Same(r)
  BY FinishedRight DEF CallInv
<1> HIDE DEF r
<1>2. within' = Excused /\ zeroed' = zeroed
  BY DEF Operation, Excused
<1>3. steps' \in Int /\ within' \in BOOLEAN /\ zeroed' \in SUBSET Nat
  BY <1>2 DEF Operation, Step, CallInv
<1>4. Right(r, queue, zeroed', hd.count, within', {}) /\ Becomes(r)
  BY <1>1, <1>2 DEF r
<1> QED BY <1>1, <1>3, <1>4, OperationKeeps DEF Operation

\* Blocks that are not out of scope are still there.
LEMMA Survives ==
  ASSUME NEW b \in Live(blocks), b.kind # "ended", NEW v, NEW p, NEW l, NEW X,
         Ready(v, p, l, X)
  PROVE  b \in Live(v.blocks)
<1>1. b \notin Ended(blocks, FALSE)
  BY DEF Ended
<1> QED BY <1>1, NowFields DEF Ready, Leaves

LEMMA FreeFinished ==
  ASSUME queue \in Nat, NEW v, NEW b \in Live(v.blocks), Ready(v, b.at, FREED, {b.num})
  PROVE  Finished(FreeBlock(v, b), MINUS1)
<1> DEFINE u == FreeBlock(v, b)
<1>1. /\ HeapRight(v, queue, zeroed, hd.count, {} \cup {b.num})
      /\ v \in States /\ v.blocks \in SUBSET Blocks
      /\ \A c, d \in v.blocks : c.at = d.at => c = d
  BY DEF Ready, HeapRight, States, BlocksRight
<1>2. HeapRight(u, queue, zeroed, hd.count, {})
  BY <1>1, FreeKeepsHeap DEF Ready
<1>3. /\ u.mtrace = v.mtrace /\ u.reader = v.reader /\ u.gauge = v.gauge
      /\ Live(u.blocks) = Live(v.blocks) \ {b}
  BY <1>1, FreeBlockIs
<1>4. SameDiffs(u.diffs, v.diffs)
  BY <1>1, FreeKeepsDiffs DEF Ready, HeapRight
<1> HIDE DEF u
<1>5. Same(u)
  BY <1>3, <1>4, SameDiffsTransitive DEF Ready, Same
<1>6. TellsTrace(u, MINUS1, Excused)
  <2> DEFINE in == Excused
  <2>1. TraceRight(v, in) /\ (mtrace.on => v.mtrace.on)
    BY DEF Ready, Same, SameTrace
  <2>2. mtrace.on /\ ~in => /\ u.mtrace.pointer = b.at /\ u.mtrace.since = v.mtrace.since
                            /\ u.mtrace.size = FREED \/ u.mtrace.size = 0
    BY <1>3 DEF Ready
  <2> HIDE DEF in
  <2>3. TellsTrace(u, MINUS1, in)
    BY <1>1, <1>3, <2>1, <2>2, TellsFreed
  <2> QED BY <2>3 DEF in
<1> QED BY <1>2, <1>5, <1>6 DEF Finished, u

LEMMA ReleaseBlockKeeps ==
  ASSUME CallInv, NEW b \in Live(blocks), b.kind # "ended", Release(b.at)
  PROVE  CallInv'
<1> DEFINE v == EventCounted(Begin(b.at, FREED))
<1>1. Begun(Begin(b.at, FREED), b.at, FREED, {b.num})
  BY BeginFrees
<1>2. Ready(v, b.at, FREED, {b.num})
  BY <1>1, ReadyAfter DEF CallInv
<1>3. Becomes(Epilogue(IF At(v.blocks, b.at) = {} THEN v
                       ELSE FreeBlock(v, CHOOSE c \in At(v.blocks, b.at) : TRUE), MINUS1))
  BY DEF Release, EventCounted
<1> HIDE DEF v
<1>4. b \in Live(v.blocks)
  BY <1>2, Survives
<1>5. At(v.blocks, b.at) = {b}
  BY <1>2, <1>4 DEF At, Live, Ready, HeapRight, BlocksRight
<1>6. Becomes(Epilogue(FreeBlock(v, b), MINUS1))
  BY <1>3, <1>5
<1>7. Finished(FreeBlock(v, b), MINUS1)
  BY <1>2, <1>4, FreeFinished DEF CallInv
<1>8. MINUS1 \in Places0 /\ Operation /\ UNCHANGED zeroed
  BY DEF Places0, Release
<1> QED BY <1>6, <1>7, <1>8, OperationDone

LEMMA ReleaseNothingKeeps ==
  ASSUME CallInv, Release(NULL)
  PROVE  CallInv'
<1> DEFINE v == EventCounted(Begin(NULL, FREED))
<1>0. NULL \in Places0 /\ MINUS1 \in Places0 /\ FREED \in Int /\ NULL \notin ADDRS
  BY ToolsAssumption DEF ToolsAssumption, Places0, FREED
<1>1. Begun(Begin(NULL, FREED), NULL, FREED, {})
  BY <1>0, BeginRight
<1>2. Ready(v, NULL, FREED, {})
  BY <1>1, ReadyAfter DEF CallInv
<1>3. Becomes(Epilogue(IF At(v.blocks, NULL) = {} THEN v
                       ELSE FreeBlock(v, CHOOSE c \in At(v.blocks, NULL) : TRUE), MINUS1))
  BY DEF Release, EventCounted
<1> HIDE DEF v
<1>4. v \in States /\ v.blocks \in SUBSET Blocks
  BY <1>2 DEF Ready, HeapRight, States
<1>5. At(v.blocks, NULL) = {}
  BY <1>0, <1>4 DEF At, Live, Blocks
<1>6. Becomes(Epilogue(v, MINUS1))
  BY <1>3, <1>5
<1>7. Finished(v, MINUS1)
  <2>1. mtrace.on => v.mtrace.on
    BY <1>2 DEF Ready, Same, SameTrace
  <2>2. mtrace.on /\ ~Excused => \E k : LineIs(v, MINUS1, NULL, NULL, k)
    BY <1>2 DEF Ready, LineIs, Lines, NULL, MINUS1, FREED
  <2>3. TellsTrace(v, MINUS1, Excused)
    BY <1>2, <1>4, <2>1, <2>2, TellsNothing DEF Ready
  <2> QED BY <1>2, <2>3 DEF Ready, Finished
<1>8. Operation /\ UNCHANGED zeroed
  BY DEF Release
<1> QED BY <1>0, <1>6, <1>7, <1>8, OperationDone

LEMMA NewBlockKeeps ==
  ASSUME CallInv, NEW p \in Places0, NEW l \in Int, NEW d \in Seq(Nat),
         NEW k \in {"heap", "stack"}, NewBlock(p, l, d, k),
         \/ p \notin ADDRS /\ l = Len(d)
         \/ l = STRINGSIZE /\ \E b \in Live(blocks) : b.kind # "ended" /\ b.at = p /\ b.data = d
  PROVE  CallInv'
<1> DEFINE v == EventCounted(Begin(p, l))
<1>0. l # FREED /\ (p \in ADDRS => l # 0) /\ NULL \in Places0 /\ NULL \notin ADDRS
  BY ToolsAssumption, LenProperties DEF ToolsAssumption, Places0, FREED, STRINGSIZE
<1>1. Begun(Begin(p, l), p, l, {})
  BY <1>0, BeginRight
<1>2. Ready(v, p, l, {})
  BY <1>1, ReadyAfter DEF CallInv
<1>3. \E a \in FreeAddrs(v.blocks) \cup (IF k = "heap" THEN {NULL} ELSE {}) :
        Becomes(Epilogue(IF a = NULL THEN v ELSE New(v, a, d, k), a))
  BY DEF NewBlock, EventCounted, New
<1> HIDE DEF v
<1>4. \/ p \notin ADDRS /\ l = Len(d)
      \/ l = STRINGSIZE /\ \E b \in Live(v.blocks) : b.at = p /\ b.data = d
  BY <1>2, Survives
<1>5. PICK a \in FreeAddrs(v.blocks) \cup {NULL} :
        Becomes(Epilogue(IF a = NULL THEN v ELSE New(v, a, d, k), a))
  BY <1>3
<1>6. Operation /\ UNCHANGED zeroed /\ zeroed \in SUBSET Nat
  BY DEF NewBlock, CallInv
<1>7. CASE a = NULL
  <2>1. Finished(v, NULL)
    BY <1>0, <1>2, FailedFinished
  <2> QED BY <1>0, <1>5, <1>6, <1>7, <2>1, OperationDone
<1>8. CASE a # NULL
  <2>1. a \in FreeAddrs(v.blocks) /\ a \in Places0
    BY <1>5, <1>8 DEF FreeAddrs, Places0
  <2>2. Finished(New(v, a, d, k), a)
    BY <1>2, <1>4, <1>6, <2>1, NewFinished
  <2>3. Becomes(Epilogue(New(v, a, d, k), a))
    BY <1>5, <1>8
  <2> QED BY <1>6, <2>1, <2>2, <2>3, OperationDone
<1> QED BY <1>7, <1>8

\* A block that is resized to nothing is freed, but its files stay.
LEMMA FreeLeavesFiles ==
  ASSUME queue \in Nat, NEW v, NEW b \in Live(v.blocks), Ready(v, b.at, 0, {})
  PROVE  LET u == FreeBlock(v, b)
         IN  /\ HeapRight(u, queue, zeroed \cup {b.num}, hd.count, {}) /\ Same(u)
             /\ TellsTrace(u, NULL, Excused)
<1> DEFINE u == FreeBlock(v, b)
           z == zeroed \cup {b.num}
           n == hd.count
<1>1. /\ HeapRight(v, queue, zeroed, n, {}) /\ v \in States /\ v.blocks \in SUBSET Blocks
      /\ BlocksRight(v.blocks, v.event, zeroed) /\ DiffsEarlier(v.diffs, v.event)
      /\ \A c, d \in v.blocks : c.at = d.at => c = d
  BY DEF Ready, HeapRight, States, BlocksRight
<1>2. /\ u \in States /\ u.event = v.event /\ u.mtrace = v.mtrace /\ u.reader = v.reader
      /\ u.gauge = v.gauge /\ u.files = v.files /\ Live(u.blocks) = Live(v.blocks) \ {b}
  BY <1>1, FreeBlockIs
<1>3. BlocksRight(u.blocks, v.event, zeroed)
  BY <1>1, <1>2, FreeKeepsBlocks
<1>4. DiffsRight(u.diffs, u.blocks, u.event) /\ SameDiffs(u.diffs, v.diffs)
  BY <1>1, FreeKeepsDiffs DEF HeapRight
<1> HIDE DEF u
<1>5. BlocksRight(u.blocks, u.event, z)
  <2>1. \A c \in Live(u.blocks) : c.num # b.num
    BY <1>1, <1>2 DEF BlocksRight
  <2>2. b.num <= v.event
    BY <1>1 DEF BlocksRight, Live
  <2>3. \A c \in Live(u.blocks) : c.num \notin z
    BY <1>3, <2>1 DEF BlocksRight
  <2>4. \A m \in z : m <= v.event
    BY <1>3, <2>2 DEF BlocksRight
  <2> QED BY <1>2, <1>3, <2>3, <2>4 DEF BlocksRight
<1>6. QueueRight(u.diffs, queue) /\ IdsRight(u.diffs, n)
  BY <1>1, <1>4, SameKeepsQueue, SameKeepsIds DEF HeapRight
<1>7. FilesRight(v.files, v.diffs, u.blocks, z, n, {})
  <2>1. \A c \in Live(v.blocks) : c.num = b.num => c = b
    BY <1>1 DEF BlocksRight
  <2>2. FilesRight(v.files, v.diffs, v.blocks, zeroed, n, {})
    BY <1>1 DEF HeapRight
  <2> QED BY <1>2, <2>1, <2>2, ZeroKeepsFiles
<1>8. FilesRight(u.files, u.diffs, u.blocks, z, n, {})
  BY <1>2, <1>4, <1>7, SameKeepsFiles
<1>9. u.mtrace.since <= u.event
  BY <1>1, <1>2 DEF HeapRight
<1>10. HeapRight(u, queue, z, n, {})
  BY <1>2, <1>4, <1>5, <1>6, <1>8, <1>9 DEF HeapRight
<1>11. Same(u)
  BY <1>2, <1>4, SameDiffsTransitive DEF Ready, Same
<1>12. TellsTrace(u, NULL, Excused)
  <2> DEFINE in == Excused
  <2>1. TraceRight(v, in) /\ (mtrace.on => v.mtrace.on)
    BY DEF Ready, Same, SameTrace
  <2>2. mtrace.on /\ ~in => /\ u.mtrace.pointer = b.at /\ u.mtrace.since = v.mtrace.since
                            /\ u.mtrace.size = FREED \/ u.mtrace.size = 0
    BY <1>2 DEF Ready
  <2> HIDE DEF in
  <2>3. TellsTrace(u, NULL, in)
    BY <1>1, <1>2, <2>1, <2>2, TellsFreed
  <2> QED BY <2>3 DEF in
<1> QED BY <1>10, <1>11, <1>12 DEF u

LEMMA ResizeToNothingKeeps ==
  ASSUME CallInv, NEW b \in Live(blocks), b.kind # "ended", ResizeToNothing(b)
  PROVE  CallInv'
<1> DEFINE v == EventCounted(Begin(b.at, 0))
           u == FreeBlock(v, b)
           r == Epilogue(u, NULL)
<1>1. b \in Blocks /\ b.at \in Places0 /\ b.num \in Nat /\ 0 \in Int /\ 0 # FREED
      /\ NULL \in Places0
  BY NowIsSame DEF Live, Blocks, Places0, FREED
<1>2. Begun(Begin(b.at, 0), b.at, 0, {})
  BY <1>1, BeginRight
<1>3. Ready(v, b.at, 0, {})
  BY <1>2, ReadyAfter DEF CallInv
<1>4. Becomes(r) /\ zeroed' = zeroed \cup {b.num} /\ Operation
  BY DEF ResizeToNothing, EventCounted
<1> HIDE DEF v
<1>5. b \in Live(v.blocks)
  BY <1>3, Survives
<1>6. /\ HeapRight(u, queue, zeroed', hd.count, {}) /\ Same(u)
      /\ TellsTrace(u, NULL, Excused)
  BY <1>3, <1>4, <1>5, FreeLeavesFiles DEF CallInv
<1> HIDE DEF u
<1>7. within' = Excused
  BY <1>4 DEF Operation, Excused
<1>8. steps' \in Int /\ within' \in BOOLEAN /\ zeroed' \in SUBSET Nat
  <2>1. zeroed' \in SUBSET Nat
    BY <1>1, <1>4 DEF CallInv
  <2>2. steps' \in Int
    BY <1>4 DEF Operation, Step, CallInv
  <2>3. within' \in BOOLEAN
    BY <1>4 DEF Operation
  <2> QED BY <2>1, <2>2, <2>3
<1> DEFINE in == within'
           z == zeroed'
<1>9. HeapRight(u, queue, z, hd.count, {}) /\ TellsTrace(u, NULL, in)
  BY <1>6, <1>7
<1> HIDE DEF in, z
<1>10. Right(r, queue, z, hd.count, in, {}) /\ Same(r)
  BY <1>1, <1>6, <1>9, EpilogueRight DEF CallInv
<1> HIDE DEF r
<1> QED BY <1>4, <1>8, <1>10, OperationKeeps DEF Operation, in, z

\* Block b with l bytes at a.
Moved(v, b, a, l) ==
    [b EXCEPT !.at = a, !.event = v.event, !.data = Resized(b.data, l)]

LEMMA MovedIs ==
  ASSUME NEW b \in Blocks, NEW v, v.event \in Nat, NEW a \in ADDRS, NEW l \in Nat
  PROVE  LET x == Moved(v, b, a, l)
         IN  /\ x \in Blocks /\ x.num = b.num /\ x.at = a /\ x.event = v.event
             /\ x.freed = b.freed /\ Len(x.data) = l
<1> DEFINE y == Resized(b.data, l)
<1>1. b.data \in Seq(Nat)
  BY DEF Blocks
<1>2. \A i \in 1..l : i <= Len(b.data) => b.data[i] \in Nat
  <2>1. DOMAIN b.data = 1..Len(b.data) /\ Len(b.data) \in Nat
    BY <1>1, LenProperties
  <2> QED BY <1>1, <2>1, ElementOfSeq
<1>3. y \in [1..l -> Nat]
  BY <1>2 DEF Resized
<1> HIDE DEF y
<1>4. y \in Seq(Nat) /\ Len(y) = l
  <2>1. y \in Seq(Nat)
    BY <1>3, IsASeq
  <2>2. DOMAIN y = 1..l /\ DOMAIN y = 1..Len(y) /\ Len(y) \in Nat
    BY <1>3, <2>1, LenProperties
  <2> QED BY <2>1, <2>2
<1> DEFINE x == Moved(v, b, a, l)
<1>5. x = [b EXCEPT !.at = a, !.event = v.event, !.data = y]
  BY DEF Moved, y
<1> HIDE DEF x
<1>6. /\ x \in Blocks /\ x.num = b.num /\ x.at = a /\ x.event = v.event
      /\ x.freed = b.freed /\ x.data = y
  BY <1>4, <1>5 DEF Blocks
<1> QED BY <1>4, <1>6 DEF x

\* The line on a block that is resized.
LEMMA ResizedLine ==
  ASSUME NEW v, NEW p \in ADDRS, NEW l \in Nat, l # 0, Ready(v, p, l, {}),
         NEW w, w.mtrace = v.mtrace, NEW a \in ADDRS
  PROVE  mtrace.on /\ ~Excused => LineIs(w, a, p, a, l)
<1>1. p # MINUS1 /\ p # NULL /\ a # NULL
  BY ToolsAssumption DEF ToolsAssumption
<1>2. l # FREED /\ l # STRINGSIZE
  BY DEF FREED, STRINGSIZE
<1>3. mtrace.on /\ ~Excused => w.mtrace.pointer = p /\ w.mtrace.size = l
  BY DEF Ready
<1> QED BY <1>1, <1>2, <1>3 DEF LineIs, Lines

\* The state after block b has got l bytes at a, where the blocks and heapdiffs were
\* B and D.
Resizes(v, B, D, R, x) ==
    [v EXCEPT !.blocks = (B \ R) \cup {x}, !.diffs = Seen(D, {}, {x.num})]

ResizeSteps(v, B, D, R, b) ==
    /\ B \in SUBSET Blocks /\ BlocksRight(B, v.event, zeroed)
    /\ D \in Seq(Diffs) /\ DiffsRight(D, B, v.event) /\ SameDiffs(D, v.diffs)
    /\ R \subseteq Live(B) /\ Live(B) \ R = Live(v.blocks) \ {b}

LEMMA ResizeFinished ==
  ASSUME NEW v, NEW b \in Live(v.blocks), NEW l \in Nat, l # 0, Ready(v, b.at, l, {}),
         NEW B, NEW D, NEW R, ResizeSteps(v, B, D, R, b),
         NEW a \in ADDRS, \A c \in B \ R : c.at # a
  PROVE  Finished(Resizes(v, B, D, R, Moved(v, b, a, l)), a)
<1> DEFINE x == Moved(v, b, a, l)
           C == (B \ R) \cup {x}
           E == Seen(D, {}, {x.num})
           w == Resizes(v, B, D, R, x)
<1>1. /\ HeapRight(v, queue, zeroed, hd.count, {}) /\ v \in States /\ v.event \in Nat
      /\ v.blocks \in SUBSET Blocks /\ b \in v.blocks /\ b \in Blocks /\ ~b.freed
      /\ BlocksRight(v.blocks, v.event, zeroed) /\ DiffsEarlier(v.diffs, v.event)
  BY DEF Ready, HeapRight, States, BlocksRight, Live
<1>2. /\ x \in Blocks /\ x.num = b.num /\ x.at = a /\ x.event = v.event
      /\ ~x.freed /\ Len(x.data) = l
  BY <1>1, MovedIs
<1> HIDE DEF x
<1>3. b.num <= v.event /\ b.num \notin zeroed
  BY <1>1 DEF BlocksRight
<1>4. \A c \in Live(B) \ R : c.num # x.num
  BY <1>1, <1>2 DEF ResizeSteps, BlocksRight
<1>5. Put(B, C, R, x, v.event)
  BY <1>2, <1>3, <1>4 DEF Put, ResizeSteps
<1>6. Live(C) = (Live(v.blocks) \ {b}) \cup {x} /\ C \in SUBSET Blocks
  BY <1>5, PutSplits DEF ResizeSteps
<1>7. DiffsEarlier(D, v.event)
  BY <1>1 DEF ResizeSteps, SameDiffs, SameDiff, DiffsEarlier
<1>8. E \in Seq(Diffs)
  BY <1>1, <1>5, <1>7, PutKeepsDiffs DEF ResizeSteps
<1>9. w = [v EXCEPT !.blocks = C, !.diffs = E]
  BY DEF Resizes
<1> HIDE DEF C, E, w
<1>10. /\ w \in States /\ w.blocks = C /\ w.diffs = E
       /\ w.event = v.event /\ w.mtrace = v.mtrace /\ w.reader = v.reader
       /\ w.gauge = v.gauge /\ w.files = v.files
  BY <1>1, <1>6, <1>8, <1>9 DEF States
<1>11. FilesRight(v.files, D, C, zeroed, hd.count, {})
  <2>1. Nums(C) = Nums(v.blocks)
    BY <1>2, <1>6 DEF Nums
  <2>2. FilesRight(v.files, v.diffs, v.blocks, zeroed, hd.count, {})
    BY <1>1 DEF HeapRight
  <2>3. FilesRight(v.files, v.diffs, C, zeroed, hd.count, {})
    BY <2>1, <2>2, NumsKeepFiles
  <2> QED BY <2>3, SameKeepsFiles DEF ResizeSteps
<1>12. PutSteps(v, w, B, D, R, x)
  BY <1>2, <1>3, <1>5, <1>10, <1>11 DEF PutSteps, ResizeSteps, E
<1>13. Told(v, w, {b}, x, b.at, Excused)
  <2>1. \A c \in Live(v.blocks) : c.at = b.at <=> c \in {b}
    BY <1>1 DEF BlocksRight, Live
  <2>2. b.at \in ADDRS
    BY <1>1 DEF Blocks
  <2>3. mtrace.on /\ ~Excused => LineIs(w, a, b.at, a, l)
    BY <1>10, <2>2, ResizedLine
  <2> QED BY <1>2, <1>6, <1>10, <2>1, <2>3 DEF Told
<1>14. Finished(w, x.at)
  BY <1>12, <1>13, PutFinished
<1> QED BY <1>2, <1>14 DEF w, x

\* With nothing kept, heapdiffs see a block go without listing it.
LEMMA GoneKeepsDiffs ==
  ASSUME queue = 0, NEW v, NEW b \in Live(v.blocks), v \in States,
         HeapRight(v, queue, zeroed, hd.count, {})
  PROVE  DiffsRight(v.diffs, FreeBlock(v, b).blocks, v.event)
<1> DEFINE u == FreeBlock(v, b)
<1>1. Live(u.blocks) = Live(v.blocks) \ {b}
  BY FreeBlockIs
<1> HIDE DEF u
<1>2. ASSUME NEW i \in DOMAIN v.diffs PROVE DiffRight(v.diffs[i], u.blocks, v.event)
  <2>1. DiffRight(v.diffs[i], v.blocks, v.event)
    BY DEF HeapRight, DiffsRight
  <2>2. ~ListsFreed(v.diffs[i])
    BY DEF HeapRight, QueueRight, ALL
  <2> QED BY <1>1, <2>1, <2>2 DEF DiffRight
<1> QED BY <1>2 DEF DiffsRight, u

LEMMA ResizeInPlace ==
  ASSUME NEW v \in States, NEW b, NEW x, x.num = b.num
  PROVE  LET t == [v EXCEPT !.blocks = (@ \ {b}) \cup {x}]
         IN  [t EXCEPT !.diffs = Seen(@, {}, {b.num})] = Resizes(v, v.blocks, v.diffs, {b}, x)
<1> DEFINE B == (v.blocks \ {b}) \cup {x}
           D == Seen(v.diffs, {}, {b.num})
           t == [v EXCEPT !.blocks = B]
<1>1. t.diffs = v.diffs
  BY DEF States
<1>2. [t EXCEPT !.diffs = Seen(@, {}, {b.num})] = [t EXCEPT !.diffs = D]
  BY <1>1 DEF States
<1>3. Resizes(v, v.blocks, v.diffs, {b}, x) = [v EXCEPT !.blocks = B, !.diffs = D]
  BY DEF Resizes
<1> HIDE DEF B, D
<1>4. [t EXCEPT !.diffs = D] = [v EXCEPT !.blocks = B, !.diffs = D]
  BY DEF States
<1> QED BY <1>2, <1>3, <1>4 DEF B

LEMMA ResizeElsewhere ==
  ASSUME NEW v \in States, NEW b, NEW x, x.num = b.num
  PROVE  LET t == FreeBlock(v, b)
             moved == IF queue = 0 THEN [t EXCEPT !.diffs = v.diffs] ELSE t
             w == [moved EXCEPT !.blocks = @ \cup {x}]
         IN  [w EXCEPT !.diffs = Seen(@, {}, {b.num})]
                = Resizes(v, t.blocks, moved.diffs, {}, x)
<1> DEFINE t == FreeBlock(v, b)
           moved == IF queue = 0 THEN [t EXCEPT !.diffs = v.diffs] ELSE t
           w == [moved EXCEPT !.blocks = @ \cup {x}]
           B == t.blocks
           D == moved.diffs
           E == Seen(D, {}, {b.num})
<1>1. PICK B1, D1 : t = [v EXCEPT !.blocks = B1, !.diffs = D1]
  BY DEF FreeBlock, States
<1> HIDE DEF t
<1>2. t.blocks = B1 /\ t.diffs = D1
  BY <1>1 DEF States
<1>3. PICK D2 : moved = [v EXCEPT !.blocks = B1, !.diffs = D2]
  BY <1>1 DEF States
<1> HIDE DEF moved
<1>4. moved.blocks = B /\ moved.diffs = D2
  BY <1>2, <1>3 DEF States
<1>5. w = [v EXCEPT !.blocks = B \cup {x}, !.diffs = D2]
  BY <1>3, <1>4 DEF States
<1> HIDE DEF w
<1>6. w.diffs = D
  BY <1>4, <1>5 DEF States
<1>7. [w EXCEPT !.diffs = Seen(@, {}, {b.num})] = [w EXCEPT !.diffs = E]
  BY <1>5, <1>6 DEF States
<1> HIDE DEF E
<1>8. [w EXCEPT !.diffs = E] = [v EXCEPT !.blocks = B \cup {x}, !.diffs = E]
  BY <1>5 DEF States
<1>9. Resizes(v, B, D, {}, x) = [v EXCEPT !.blocks = B \cup {x}, !.diffs = E]
  <2>1. (B \ {}) \cup {x} = B \cup {x}
    OBVIOUS
  <2> QED BY <2>1 DEF Resizes, E
<1> QED BY <1>7, <1>8, <1>9 DEF w, moved, t

LEMMA ResizeKeeps ==
  ASSUME CallInv, NEW b \in Live(blocks), b.kind # "ended", NEW l \in Nat, l # 0,
         Resize(b, l)
  PROVE  CallInv'
<1> DEFINE v == EventCounted(Begin(b.at, l))
           x(a) == Moved(v, b, a, l)
           t == FreeBlock(v, b)
           moved == IF queue = 0 THEN [t EXCEPT !.diffs = v.diffs] ELSE t
           w(a) == [moved EXCEPT !.blocks = @ \cup {x(a)}]
           stay == [v EXCEPT !.blocks = (@ \ {b}) \cup {x(b.at)}]
           Touched(s) == [s EXCEPT !.diffs = Seen(@, {}, {b.num})]
<1>1. b \in Blocks /\ b.at \in Places0 /\ b.at \in ADDRS /\ l \in Int /\ l # FREED
      /\ NULL \in Places0
  BY NowIsSame DEF Live, Blocks, Places0, FREED
<1>2. Begun(Begin(b.at, l), b.at, l, {})
  BY <1>1, BeginRight
<1>3. Ready(v, b.at, l, {})
  BY <1>2, ReadyAfter DEF CallInv
<1>4. /\ Operation /\ UNCHANGED zeroed
      /\ \/ Becomes(Epilogue(v, NULL))
         \/ queue = 0 /\ Becomes(Epilogue(Touched(stay), b.at))
         \/ \E a \in FreeAddrs(v.blocks) : Becomes(Epilogue(Touched(w(a)), a))
  BY DEF Resize, EventCounted, Moved
<1> HIDE DEF v
<1>5. b \in Live(v.blocks)
  BY <1>3, Survives
<1>6. /\ v \in States /\ v.event \in Nat /\ v.blocks \in SUBSET Blocks /\ b \in v.blocks
      /\ HeapRight(v, queue, zeroed, hd.count, {}) /\ DiffsEarlier(v.diffs, v.event)
      /\ BlocksRight(v.blocks, v.event, zeroed) /\ v.diffs \in Seq(Diffs)
      /\ DiffsRight(v.diffs, v.blocks, v.event) /\ QueueRight(v.diffs, queue)
  BY <1>3, <1>5 DEF Ready, HeapRight, States, Live
<1>7. \A a \in ADDRS : x(a).num = b.num
  BY <1>1, <1>6, MovedIs
<1>8. SameDiffs(v.diffs, v.diffs)
  BY DEF SameDiffs, SameDiff
<1>9. CASE Becomes(Epilogue(v, NULL))
  <2>1. Finished(v, NULL)
    BY <1>1, <1>3, FailedFinished
  <2> QED BY <1>1, <1>4, <1>9, <2>1, OperationDone
<1>10. CASE queue = 0 /\ Becomes(Epilogue(Touched(stay), b.at))
  <2>1. Touched(stay) = Resizes(v, v.blocks, v.diffs, {b}, x(b.at))
    BY <1>1, <1>6, <1>7, ResizeInPlace
  <2>2. ResizeSteps(v, v.blocks, v.diffs, {b}, b)
    BY <1>5, <1>6, <1>8 DEF ResizeSteps
  <2>3. \A c \in v.blocks \ {b} : c.at # b.at
    BY <1>6 DEF BlocksRight
  <2>4. Finished(Resizes(v, v.blocks, v.diffs, {b}, x(b.at)), b.at)
    BY <1>1, <1>3, <1>5, <2>2, <2>3, ResizeFinished
  <2> HIDE DEF Touched, stay, x
  <2>5. Finished(Touched(stay), b.at)
    BY <2>1, <2>4
  <2> QED BY <1>1, <1>4, <1>10, <2>5, OperationDone
<1>11. CASE \E a \in FreeAddrs(v.blocks) : Becomes(Epilogue(Touched(w(a)), a))
  <2>1. PICK a \in FreeAddrs(v.blocks) : Becomes(Epilogue(Touched(w(a)), a))
    BY <1>11
  <2>2. a \in ADDRS /\ a \in Places0 /\ \A c \in v.blocks : c.at # a
    BY DEF FreeAddrs, Places0
  <2> DEFINE D == moved.diffs
  <2>3. Touched(w(a)) = Resizes(v, t.blocks, D, {}, x(a))
    BY <1>6, <1>7, <2>2, ResizeElsewhere
  <2>4. /\ t \in States /\ Live(t.blocks) = Live(v.blocks) \ {b}
        /\ Retained(t.blocks) \subseteq Retained(v.blocks) \cup IfKept(v, b)
        /\ t.event = v.event
    BY <1>5, <1>6, FreeBlockIs
  <2>5. BlocksRight(t.blocks, t.event, zeroed)
    BY <1>5, <1>6, FreeKeepsBlocks
  <2>6. DiffsRight(t.diffs, t.blocks, t.event) /\ SameDiffs(t.diffs, v.diffs)
    BY <1>5, <1>6, FreeKeepsDiffs DEF CallInv
  <2>7. queue = 0 => DiffsRight(v.diffs, t.blocks, v.event)
    BY <1>5, <1>6, GoneKeepsDiffs
  <2> HIDE DEF t
  <2>8. D = IF queue = 0 THEN v.diffs ELSE t.diffs
    BY <2>4 DEF States
  <2>9. t.blocks \in SUBSET Blocks /\ t.diffs \in Seq(Diffs)
    BY <2>4 DEF States
  <2> HIDE DEF D
  <2>10. D \in Seq(Diffs) /\ DiffsRight(D, t.blocks, v.event) /\ SameDiffs(D, v.diffs)
    BY <1>6, <1>8, <2>4, <2>6, <2>7, <2>8, <2>9
  <2>11. ResizeSteps(v, t.blocks, D, {}, b)
    BY <2>4, <2>5, <2>9, <2>10 DEF ResizeSteps
  <2>12. \A c \in t.blocks \ {} : c.at # a
    <3> TAKE c \in t.blocks \ {}
    <3>1. CASE c \in Live(t.blocks)
      BY <2>2, <2>4, <3>1 DEF Live
    <3>2. CASE c \in Retained(v.blocks)
      BY <2>2, <3>2 DEF Retained
    <3>3. CASE c \in IfKept(v, b)
      <4>1. c.at = b.at
        BY <1>1, <3>3 DEF IfKept, Blocks
      <4> QED BY <1>6, <2>2, <4>1
    <3> QED BY <2>4, <3>1, <3>2, <3>3, LiveOrKept
  <2> HIDE DEF Touched, w, x
  <2>13. Finished(Resizes(v, t.blocks, D, {}, x(a)), a)
    BY <1>1, <1>3, <1>5, <2>2, <2>11, <2>12, ResizeFinished DEF x
  <2>14. Finished(Touched(w(a)), a)
    BY <2>3, <2>13
  <2> QED BY <1>4, <2>1, <2>2, <2>14, OperationDone
<1> QED BY <1>4, <1>9, <1>10, <1>11

LEMMA CheckKeeps ==
  ASSUME CallInv, Check
  PROVE  CallInv'
<1> DEFINE r == FreeAllEnded(Now, FALSE)
<1>1. /\ HooksInv /\ queue \in Nat /\ zeroed \in SUBSET Nat
      /\ Right(Now, queue, zeroed, hd.count, within, {})
  BY DEF CallInv
<1>2. Same(Now) /\ diffs \in Seq(Diffs)
  BY NowIsSame
<1>3. FreedRight(Now, r, FALSE, within, {})
  BY <1>1, <1>2, FreeAllEndedRight
<1>4. Becomes(r)
  BY DEF Check
<1> HIDE DEF r
<1>5. Right(r, queue, zeroed, hd.count, within, {}) /\ Same(r)
  BY <1>3 DEF FreedRight
<1>6. steps' \in Int
  BY DEF Check, Step, CallInv
<1>7. /\ UNCHANGED <<queue, hooks, hd, atexit, nesting>>
      /\ zeroed' = zeroed /\ within' = within
  BY DEF Check
<1>8. zeroed' \in SUBSET Nat /\ within' \in BOOLEAN
  BY <1>1, <1>7 DEF CallInv
<1>9. Right(r, queue, zeroed', hd.count, within', {})
  BY <1>5, <1>7
<1> QED BY <1>4, <1>5, <1>6, <1>7, <1>8, <1>9, OperationKeeps

-----------------------------------------------------------------------------
(***************************************************************************)
(* The tools: what the program does itself with its blocks                 *)
(***************************************************************************)
\* Blocks that the tools do not tell from one another.
Alike(b, c) ==
    /\ b.num = c.num /\ b.at = c.at /\ b.event = c.event /\ b.freed = c.freed
    /\ Len(b.data) = Len(c.data)

AllAlike(B, C) ==
    /\ B \in SUBSET Blocks /\ C \in SUBSET Blocks
    /\ \A c \in C : \E b \in B : Alike(b, c)
    /\ \A b \in B : \E c \in C : Alike(b, c)
    /\ \A b, c \in C : b.at = c.at => b = c

LEMMA AlikeBlocks ==
  ASSUME NEW B, NEW C, AllAlike(B, C), NEW e, NEW z, BlocksRight(B, e, z)
  PROVE  BlocksRight(C, e, z)
<1>1. \A b \in C : b.num <= e /\ b.event <= e
  BY DEF AllAlike, Alike, BlocksRight
<1>2. ASSUME NEW b \in Live(C), NEW c \in Live(C), b.num = c.num PROVE b = c
  <2>1. PICK b1 \in B : Alike(b1, b)
    BY DEF AllAlike, Live
  <2>2. PICK c1 \in B : Alike(c1, c)
    BY DEF AllAlike, Live
  <2>3. b1 = c1
    BY <1>2, <2>1, <2>2 DEF Alike, BlocksRight, Live
  <2> QED BY <2>1, <2>2, <2>3 DEF Alike, AllAlike, Live
<1>3. \A b \in Live(C) : b.num \notin z
  BY DEF AllAlike, Alike, BlocksRight, Live
<1> QED BY <1>1, <1>2, <1>3 DEF AllAlike, BlocksRight

LEMMA AlikeDiff ==
  ASSUME NEW B, NEW C, AllAlike(B, C), NEW e, NEW h, DiffRight(h, B, e)
  PROVE  DiffRight(h, C, e)
<1>1. {<<b.num, b.at>> : b \in {c \in Retained(C) : c.event > h.event}}
        = {<<b.num, b.at>> : b \in {c \in Retained(B) : c.event > h.event}}
  BY DEF AllAlike, Alike, Retained
<1>2. \A b \in Live(C) : b.event > h.event <=> b.num \in h.touched
  BY DEF AllAlike, Alike, Live, DiffRight
<1> QED BY <1>1, <1>2 DEF DiffRight

LEMMA AlikeTotal ==
  ASSUME NEW B, NEW C, AllAlike(B, C), \A b, c \in B : b.at = c.at => b = c
  PROVE  Total(B) = Total(C)
<1>1. ASSUME NEW p \in ADDRS PROVE SizeAt(B, p) = SizeAt(C, p)
  <2>1. CASE At(B, p) = {}
    <3>1. At(C, p) = {}
      BY <2>1 DEF At, Live, AllAlike, Alike
    <3> QED BY <2>1, <3>1 DEF SizeAt
  <2>2. CASE At(B, p) # {}
    <3>1. PICK b \in Live(B) : b.at = p
      BY <2>2 DEF At
    <3>2. PICK c \in C : Alike(b, c)
      BY <3>1 DEF AllAlike, Live
    <3>3. c \in Live(C) /\ c.at = p
      BY <3>1, <3>2 DEF Alike, Live
    <3>4. SizeAt(B, b.at) = Len(b.data)
      BY SizeAtIs
    <3>5. SizeAt(C, c.at) = Len(c.data)
      BY <3>3, SizeAtIs DEF AllAlike
    <3> QED BY <3>1, <3>2, <3>3, <3>4, <3>5 DEF Alike
  <2> QED BY <2>1, <2>2
<1>2. [p \in ADDRS |-> SizeAt(B, p)] = [p \in ADDRS |-> SizeAt(C, p)]
  BY <1>1
<1> QED BY <1>2 DEF Total

LEMMA AlikeTraced ==
  ASSUME NEW B, NEW C, AllAlike(B, C), NEW since
  PROVE  TracedOf(B, since) = TracedOf(C, since)
<1>1. \A y : y \in TracedOf(B, since) => y \in TracedOf(C, since)
  BY DEF TracedOf, AllAlike, Alike, Live
<1>2. \A y : y \in TracedOf(C, since) => y \in TracedOf(B, since)
  BY DEF TracedOf, AllAlike, Alike, Live
<1> QED BY <1>1, <1>2

LEMMA AlikeNums ==
  ASSUME NEW B, NEW C, AllAlike(B, C)
  PROVE  Nums(C) = Nums(B)
  BY DEF Nums, AllAlike, Alike, Live

LEMMA AlikeRight ==
  ASSUME NEW s, NEW t, NEW q, NEW z, NEW n, NEW in, Right(s, q, z, n, in, {}),
         AllAlike(s.blocks, t.blocks), t \in States,
         t.event = s.event /\ t.mtrace = s.mtrace /\ t.reader = s.reader,
         t.gauge = s.gauge /\ t.diffs = s.diffs /\ t.files = s.files
  PROVE  Right(t, q, z, n, in, {})
<1> DEFINE B == s.blocks
           C == t.blocks
           D == s.diffs
           F == s.files
<1>1. /\ AllAlike(B, C) /\ BlocksRight(B, s.event, z) /\ FilesRight(F, D, B, z, n, {})
      /\ \A i \in DOMAIN D : DiffRight(D[i], B, s.event)
  BY DEF Right, HeapRight, DiffsRight
<1> HIDE DEF B, C, D, F
<1>2. BlocksRight(C, s.event, z)
  BY <1>1, AlikeBlocks
<1>3. \A i \in DOMAIN D : DiffRight(D[i], C, s.event)
  BY <1>1, AlikeDiff
<1>4. FilesRight(F, D, C, z, n, {})
  BY <1>1, AlikeNums, NumsKeepFiles
<1>5. Total(B) = Total(C)
  BY <1>1, AlikeTotal DEF BlocksRight
<1>6. TracedOf(B, s.mtrace.since) = TracedOf(C, s.mtrace.since)
  BY <1>1, AlikeTraced
<1>7. HeapRight(t, q, z, n, {})
  BY <1>2, <1>3, <1>4 DEF Right, HeapRight, DiffsRight, C, D, F
<1>8. TraceRight(t, in)
  BY <1>6 DEF Right, TraceRight, B, C
<1>9. GaugeRight(t.gauge, t.blocks)
  BY <1>5 DEF Right, GaugeRight, B, C
<1> QED BY <1>7, <1>8, <1>9 DEF Right

LEMMA AlikeKeeps ==
  ASSUME CallInv, AllAlike(blocks, blocks'), steps' \in Int,
         UNCHANGED <<event, queue, hooks, mtrace, reader, gauge, hd, diffs, files,
                     atexit, nesting, within, zeroed>>
  PROVE  CallInv'
<1> DEFINE r == [Now EXCEPT !.blocks = blocks']
<1>1. Now \in States /\ Same(Now)
  BY NowIsSame
<1>2. blocks' \in SUBSET Blocks /\ Now.blocks = blocks
  BY NowFields DEF AllAlike
<1>3. /\ r \in States /\ r.blocks = blocks'
      /\ r.event = Now.event /\ r.mtrace = Now.mtrace /\ r.reader = Now.reader
      /\ r.gauge = Now.gauge /\ r.diffs = Now.diffs /\ r.files = Now.files
  BY <1>1, <1>2 DEF States
<1> HIDE DEF r
<1>4. Right(r, queue, zeroed, hd.count, within, {})
  BY <1>2, <1>3, AlikeRight DEF CallInv
<1>5. Same(r)
  BY <1>1, <1>3 DEF Same
<1>6. Becomes(r)
  BY <1>3, NowFields DEF Becomes
<1>7. zeroed' = zeroed /\ within' = within /\ zeroed' \in SUBSET Nat /\ within' \in BOOLEAN
  BY DEF CallInv
<1>8. Right(r, queue, zeroed', hd.count, within', {})
  BY <1>4, <1>7
<1> QED BY <1>5, <1>6, <1>7, <1>8, OperationKeeps

LEMMA LeaveFunctionKeeps ==
  ASSUME CallInv, LeaveFunction
  PROVE  CallInv'
<1> DEFINE g(b) == IF b.kind = "stack" /\ ~b.freed THEN [b EXCEPT !.kind = "ended"] ELSE b
<1>1. blocks \in SUBSET Blocks /\ \A b, c \in blocks : b.at = c.at => b = c
  BY NowIsSame, NowFields DEF CallInv, Right, HeapRight, BlocksRight
<1>2. \A b \in Blocks : g(b) \in Blocks /\ Alike(b, g(b))
  BY DEF Blocks, Alike
<1>3. blocks' = {g(b) : b \in blocks}
  BY DEF LeaveFunction
<1> HIDE DEF g
<1>4. \A b \in blocks : b \in Blocks /\ Alike(b, g(b)) /\ g(b) \in Blocks
  BY <1>1, <1>2
<1>5. AllAlike(blocks, blocks')
  <2>1. \A c \in blocks' : c \in Blocks /\ \E b \in blocks : Alike(b, c)
    BY <1>3, <1>4
  <2>2. \A b \in blocks : \E c \in blocks' : Alike(b, c)
    BY <1>3, <1>4
  <2>3. \A b, c \in blocks' : b.at = c.at => b = c
    BY <1>1, <1>3, <1>4 DEF Alike
  <2> QED BY <1>1, <2>1, <2>2, <2>3 DEF AllAlike
<1>6. steps' \in Int
  BY DEF LeaveFunction, Step, CallInv
<1> QED BY <1>5, <1>6, AlikeKeeps DEF LeaveFunction

LEMMA WriteKeeps ==
  ASSUME CallInv, NEW b \in Live(blocks), NEW d \in Seq(Nat), Write(b, d)
  PROVE  CallInv'
<1> DEFINE x == [b EXCEPT !.data = d]
<1>1. /\ blocks \in SUBSET Blocks /\ \A c, y \in blocks : c.at = y.at => c = y
      /\ b \in blocks
  BY NowIsSame, NowFields DEF CallInv, Right, HeapRight, BlocksRight, Live
<1>2. x \in Blocks /\ Alike(b, x)
  BY <1>1 DEF Blocks, Alike, Write
<1>3. blocks' = (blocks \ {b}) \cup {x}
  BY DEF Write
<1> HIDE DEF x
<1>4. AllAlike(blocks, blocks')
  <2>1. \A c \in blocks' : c \in Blocks /\ \E y \in blocks : Alike(y, c)
    BY <1>1, <1>2, <1>3 DEF Alike
  <2>2. \A c \in blocks : \E y \in blocks' : Alike(c, y)
    BY <1>2, <1>3 DEF Alike
  <2>3. \A c, y \in blocks' : c.at = y.at => c = y
    BY <1>1, <1>2, <1>3 DEF Alike
  <2> QED BY <1>1, <2>1, <2>2, <2>3 DEF AllAlike
<1>5. steps' \in Int
  BY DEF Write, Step, CallInv
<1> QED BY <1>4, <1>5, AlikeKeeps DEF Write

-----------------------------------------------------------------------------
(***************************************************************************)
(* The tools: one is started or ended within the others                    *)
(***************************************************************************)
\* T is S and then x.
Extends(T, S, n, x) ==
    /\ n \in Nat /\ DOMAIN S = 1..n /\ DOMAIN T = 1..(n + 1)
    /\ (\A i \in 1..n : T[i] = S[i]) /\ T[n + 1] = x

LEMMA AppendExtends ==
  ASSUME NEW V, NEW S \in Seq(V), NEW x \in V
  PROVE  Append(S, x) \in Seq(V) /\ Extends(Append(S, x), S, Len(S), x)
<1> DEFINE T == Append(S, x)
           n == Len(S)
<1>1. /\ T \in Seq(V) /\ Len(T) = n + 1 /\ T[n + 1] = x
      /\ \A i \in 1..n : T[i] = S[i]
  BY AppendProperties
<1>2. n \in Nat /\ DOMAIN S = 1..n
  BY LenProperties
<1> HIDE DEF T
<1>3. DOMAIN T = 1..(n + 1)
  BY <1>1, LenProperties
<1> QED BY <1>1, <1>2, <1>3 DEF Extends, T

LEMMA RemoveExtends ==
  ASSUME NEW V, NEW T \in Seq(V), T # <<>>
  PROVE  LET S == SubSeq(T, 1, Len(T) - 1)
         IN  S \in Seq(V) /\ Extends(T, S, Len(T) - 1, T[Len(T)])
<1> DEFINE S == SubSeq(T, 1, Len(T) - 1)
           n == Len(T) - 1
<1>1. Len(T) \in Nat /\ DOMAIN T = 1..Len(T) /\ Len(T) # 0
  BY LenProperties, EmptySeq
<1>2. n \in Nat /\ n + 1 = Len(T) /\ 1 \in Int /\ n \in Int
  BY <1>1
<1>3. \A i \in 1..n : T[i] \in V
  BY <1>1, <1>2, ElementOfSeq
<1> HIDE DEF n
<1>4. S = SubSeq(T, 1, n)
  BY DEF n
<1>5. /\ S \in Seq(V) /\ Len(S) = IF 1 <= n THEN n - 1 + 1 ELSE 0
      /\ \A i \in 1..(n - 1 + 1) : S[i] = T[1 + i - 1]
  BY <1>2, <1>3, <1>4, SubSeqProperties
<1> HIDE DEF S
<1>6. Len(S) = n /\ n - 1 + 1 = n /\ \A i \in 1..n : 1 + i - 1 = i
  BY <1>2, <1>5
<1>7. DOMAIN S = 1..n /\ \A i \in 1..n : T[i] = S[i]
  BY <1>5, <1>6, LenProperties
<1>8. Extends(T, S, n, T[Len(T)])
  BY <1>1, <1>2, <1>7 DEF Extends
<1> QED BY <1>5, <1>8 DEF n, S

\* Where the heapdiffs are does not change when another tool is started or ended.
LEMMA PlacesStay ==
  ASSUME NEW S, NEW T, NEW n, NEW x, x # "heapdiff", Extends(T, S, n, x), NEW f, NEW D
  PROVE  Places(f, S, D) <=> Places(f, T, D)
<1>1. ASSUME Places(f, S, D) PROVE Places(f, T, D)
  <2>1. f \in [DOMAIN D -> 1..n] /\ n \in Nat
    BY <1>1 DEF Extends, Places
  <2>2. \A i \in DOMAIN D : f[i] \in 1..n
    BY <2>1
  <2>3. f \in [DOMAIN D -> DOMAIN T]
    BY <2>1 DEF Extends
  <2>4. \A k \in DOMAIN T : T[k] = "heapdiff" <=> \E i \in DOMAIN D : f[i] = k
    <3> TAKE k \in DOMAIN T
    <3>1. CASE k \in 1..n
      BY <1>1, <3>1 DEF Places, Extends
    <3>2. CASE k = n + 1
      BY <2>1, <2>2, <3>2 DEF Extends
    <3> QED BY <2>1, <3>1, <3>2 DEF Extends
  <2> QED BY <1>1, <2>3, <2>4 DEF Places
<1>2. ASSUME Places(f, T, D) PROVE Places(f, S, D)
  <2>1. n \in Nat /\ f \in [DOMAIN D -> 1..(n + 1)]
    BY <1>2 DEF Extends, Places
  <2>2. n + 1 \in 1..(n + 1)
    BY <2>1
  <2>3. \A i \in DOMAIN D : f[i] \in 1..n
    <3> TAKE i \in DOMAIN D
    <3>1. f[i] # n + 1
      BY <1>2, <2>2 DEF Extends, Places
    <3>2. f[i] \in 1..(n + 1)
      BY <2>1
    <3> QED BY <2>1, <3>1, <3>2
  <2>4. f \in [DOMAIN D -> DOMAIN S]
    BY <2>1, <2>3 DEF Extends
  <2>5. \A k \in DOMAIN S : S[k] = "heapdiff" <=> \E i \in DOMAIN D : f[i] = k
    <3> TAKE k \in DOMAIN S
    <3>1. k \in 1..n /\ k \in DOMAIN T /\ S[k] = T[k]
      BY <2>1 DEF Extends
    <3> QED BY <1>2, <3>1 DEF Places
  <2> QED BY <1>2, <2>4, <2>5 DEF Places
<1> QED BY <1>1, <1>2

LEMMA NestedTraceStarts ==
  ASSUME NEW f, NEW N, NEW D, NEW h, NEW m, NEW g, Nested(f, N, D, h, m, g), ~m.on,
         NEW O, NEW n, Extends(O, N, n, "mtrace"), NEW j, j.pro = "mtrace", j.epi = "mtrace",
         NEW k, k.on
  PROVE  Nested(f, O, D, j, k, g)
<1>1. Places(f, O, D)
  BY PlacesStay DEF Nested
<1>2. n \in Nat /\ DOMAIN N = 1..n /\ DOMAIN O = 1..(n + 1) /\ O[n + 1] = "mtrace"
      /\ \A i \in 1..n : O[i] = N[i] /\ N[i] # "mtrace"
  BY DEF Extends, Nested
<1>3. \A l \in DOMAIN O : l \in 1..n \/ l = n + 1
  BY <1>2
<1>4. \A l \in DOMAIN O : O[l] = "mtrace" <=> l = n + 1
  BY <1>2, <1>3
<1>5. \A p, l \in DOMAIN O : O[p] = O[l] /\ O[p] # "heapdiff" => p = l
  <2> TAKE p, l \in DOMAIN O
  <2>1. CASE p \in 1..n /\ l \in 1..n
    BY <1>2, <2>1 DEF Nested
  <2> QED BY <1>3, <1>4, <2>1
<1>6. g.on <=> \E l \in DOMAIN O : O[l] = "mgauge"
  <2>1. g.on <=> \E l \in DOMAIN N : N[l] = "mgauge"
    BY DEF Nested
  <2> QED BY <1>2, <1>3, <2>1
<1>7. \A p, l \in DOMAIN O : O[p] = "mtrace" /\ O[l] = "mgauge" => ~(p < l)
  <2> SUFFICES ASSUME NEW p \in DOMAIN O, NEW l \in DOMAIN O, O[p] = "mtrace"
               PROVE  ~(p < l)
    OBVIOUS
  <2>1. p = n + 1 /\ l \in 1..(n + 1)
    BY <1>2, <1>4
  <2> QED BY <1>2, <2>1
<1>8. \A p \in DOMAIN O, i \in WithContents(D) : O[p] = "mtrace" => ~(p < f[i])
  <2> SUFFICES ASSUME NEW p \in DOMAIN O, NEW i \in WithContents(D), O[p] = "mtrace"
               PROVE  ~(p < f[i])
    OBVIOUS
  <2>1. p = n + 1 /\ f[i] \in 1..(n + 1)
    BY <1>1, <1>2, <1>4 DEF Places, WithContents
  <2> QED BY <1>2, <2>1
<1>9. \E l \in DOMAIN O : O[l] = "mtrace"
  <2>1. n + 1 \in DOMAIN O
    BY <1>2
  <2> QED BY <1>2, <2>1
<1>10. k.on <=> \E l \in DOMAIN O : O[l] = "mtrace"
  BY <1>9
<1> QED BY <1>1, <1>5, <1>6, <1>7, <1>8, <1>10 DEF Nested

LEMMA NestedGaugeStarts ==
  ASSUME NEW f, NEW N, NEW D, NEW h, NEW m, NEW g, Nested(f, N, D, h, m, g), ~g.on,
         NEW O, NEW n, Extends(O, N, n, "mgauge"), NEW j, j.pro = h.pro, j.epi = "mgauge",
         NEW k, k.on
  PROVE  Nested(f, O, D, j, m, k)
<1>1. Places(f, O, D)
  BY PlacesStay DEF Nested
<1>2. n \in Nat /\ DOMAIN N = 1..n /\ DOMAIN O = 1..(n + 1) /\ O[n + 1] = "mgauge"
      /\ \A i \in 1..n : O[i] = N[i] /\ N[i] # "mgauge"
  BY DEF Extends, Nested
<1>3. \A l \in DOMAIN O : l \in 1..n \/ l = n + 1
  BY <1>2
<1>4. \A l \in DOMAIN O : O[l] = "mgauge" <=> l = n + 1
  BY <1>2, <1>3
<1>5. \A p, l \in DOMAIN O : O[p] = O[l] /\ O[p] # "heapdiff" => p = l
  <2> TAKE p, l \in DOMAIN O
  <2>1. CASE p \in 1..n /\ l \in 1..n
    BY <1>2, <2>1 DEF Nested
  <2> QED BY <1>3, <1>4, <2>1
<1>6. m.on <=> \E l \in DOMAIN O : O[l] = "mtrace"
  <2>1. m.on <=> \E l \in DOMAIN N : N[l] = "mtrace"
    BY DEF Nested
  <2> QED BY <1>2, <1>3, <2>1
<1>7. \A p, l \in DOMAIN O : O[p] = "mtrace" /\ O[l] = "mgauge" => p < l
  <2> SUFFICES ASSUME NEW p \in DOMAIN O, NEW l \in DOMAIN O, O[p] = "mtrace",
                      O[l] = "mgauge"
               PROVE  p < l
    OBVIOUS
  <2>1. l = n + 1 /\ p \in 1..(n + 1) /\ p # n + 1
    BY <1>2, <1>4
  <2> QED BY <1>2, <2>1
<1>8. \A p \in DOMAIN O, i \in WithContents(D) :
        O[p] = "mtrace" /\ (\A l \in WithContents(D) : i <= l) =>
            h.pro = IF p < f[i] THEN "heapdiff" ELSE "mtrace"
  <2> SUFFICES ASSUME NEW p \in DOMAIN O, NEW i \in WithContents(D), O[p] = "mtrace",
                      \A l \in WithContents(D) : i <= l
               PROVE  h.pro = IF p < f[i] THEN "heapdiff" ELSE "mtrace"
    OBVIOUS
  <2>1. p \in DOMAIN N /\ N[p] = "mtrace"
    BY <1>2, <1>3
  <2> QED BY <2>1 DEF Nested
<1>9. \E l \in DOMAIN O : O[l] = "mgauge"
  <2>1. n + 1 \in DOMAIN O
    BY <1>2
  <2> QED BY <1>2, <2>1
<1>10. k.on <=> \E l \in DOMAIN O : O[l] = "mgauge"
  BY <1>9
<1> QED BY <1>1, <1>5, <1>6, <1>7, <1>8, <1>10 DEF Nested

LEMMA NestedTraceEnds ==
  ASSUME NEW f, NEW O, NEW D, NEW h, NEW m, NEW g, Nested(f, O, D, h, m, g),
         NEW N, NEW n, Extends(O, N, n, "mtrace"), NEW j, NEW k, ~k.on
  PROVE  Nested(f, N, D, j, k, g)
<1>1. Places(f, N, D)
  BY PlacesStay DEF Nested
<1>2. n \in Nat /\ DOMAIN N = 1..n /\ DOMAIN O = 1..(n + 1) /\ O[n + 1] = "mtrace"
      /\ \A i \in 1..n : O[i] = N[i]
  BY DEF Extends
<1>3. \A i \in 1..n : i \in DOMAIN O /\ i # n + 1
  BY <1>2
<1>4. n + 1 \in DOMAIN O
  BY <1>2
<1>5. \A i \in DOMAIN N : N[i] # "mtrace"
  BY <1>2, <1>3, <1>4 DEF Nested
<1>6. \A p, l \in DOMAIN N : N[p] = N[l] /\ N[p] # "heapdiff" => p = l
  BY <1>2, <1>3 DEF Nested
<1>7. g.on <=> \E l \in DOMAIN N : N[l] = "mgauge"
  <2>1. g.on <=> \E l \in DOMAIN O : O[l] = "mgauge"
    BY DEF Nested
  <2>2. \A l \in DOMAIN O : l \in 1..n \/ l = n + 1
    BY <1>2
  <2> QED BY <1>2, <1>3, <2>1, <2>2
<1> QED BY <1>1, <1>5, <1>6, <1>7 DEF Nested

LEMMA NestedGaugeEnds ==
  ASSUME NEW f, NEW O, NEW D, NEW h, NEW m, NEW g, Nested(f, O, D, h, m, g),
         NEW N, NEW n, Extends(O, N, n, "mgauge"), NEW j, j.pro = h.pro, NEW k, ~k.on
  PROVE  Nested(f, N, D, j, m, k)
<1>1. Places(f, N, D)
  BY PlacesStay DEF Nested
<1>2. n \in Nat /\ DOMAIN N = 1..n /\ DOMAIN O = 1..(n + 1) /\ O[n + 1] = "mgauge"
      /\ \A i \in 1..n : O[i] = N[i]
  BY DEF Extends
<1>3. \A i \in 1..n : i \in DOMAIN O /\ i # n + 1
  BY <1>2
<1>4. n + 1 \in DOMAIN O
  BY <1>2
<1>5. \A i \in DOMAIN N : N[i] # "mgauge"
  BY <1>2, <1>3, <1>4 DEF Nested
<1>6. \A p, l \in DOMAIN N : N[p] = N[l] /\ N[p] # "heapdiff" => p = l
  BY <1>2, <1>3 DEF Nested
<1>7. m.on <=> \E l \in DOMAIN N : N[l] = "mtrace"
  <2>1. m.on <=> \E l \in DOMAIN O : O[l] = "mtrace"
    BY DEF Nested
  <2>2. \A l \in DOMAIN O : l \in 1..n \/ l = n + 1
    BY <1>2
  <2> QED BY <1>2, <1>3, <2>1, <2>2
<1>8. \A p \in DOMAIN N, i \in WithContents(D) :
        N[p] = "mtrace" /\ (\A l \in WithContents(D) : i <= l) =>
            h.pro = IF p < f[i] THEN "heapdiff" ELSE "mtrace"
  BY <1>2, <1>3 DEF Nested
<1> QED BY <1>1, <1>5, <1>6, <1>7, <1>8 DEF Nested

\* The tool that was started last is called first.
LEMMA TraceIsFirst ==
  ASSUME NEW f, NEW O, NEW D \in Seq(Diffs), NEW h, NEW m, NEW g, Nested(f, O, D, h, m, g),
         NEW N, NEW n, Extends(O, N, n, "mtrace")
  PROVE  /\ g.on => h.epi = "mtrace"
         /\ WithContents(D) # {} => h.pro = "mtrace"
<1>1. n \in Nat /\ DOMAIN O = 1..(n + 1) /\ O[n + 1] = "mtrace" /\ n + 1 \in DOMAIN O
  BY DEF Extends
<1>2. ASSUME g.on PROVE h.epi = "mtrace"
  <2>1. PICK l \in DOMAIN O : O[l] = "mgauge"
    BY <1>2 DEF Nested
  <2>2. ~(n + 1 < l)
    BY <1>1
  <2> QED BY <1>1, <2>1, <2>2 DEF Nested
<1>3. ASSUME WithContents(D) # {} PROVE h.pro = "mtrace"
  <2>1. WithContents(D) \in SUBSET Nat
    BY LenProperties DEF WithContents
  <2>2. PICK i \in WithContents(D) : \A j \in WithContents(D) : i <= j
    BY <1>3, <2>1, Least
  <2>3. f[i] \in 1..(n + 1)
    BY <1>1 DEF Nested, Places, WithContents
  <2>4. ~(n + 1 < f[i])
    BY <1>1, <2>3
  <2> QED BY <1>1, <2>2, <2>4 DEF Nested
<1> QED BY <1>2, <1>3

LEMMA GaugeIsFirst ==
  ASSUME NEW f, NEW O, NEW D, NEW h, NEW m, NEW g, Nested(f, O, D, h, m, g),
         NEW N, NEW n, Extends(O, N, n, "mgauge"), m.on
  PROVE  h.epi = "mgauge"
<1>1. n \in Nat /\ DOMAIN O = 1..(n + 1) /\ O[n + 1] = "mgauge" /\ n + 1 \in DOMAIN O
  BY DEF Extends
<1>2. PICK k \in DOMAIN O : O[k] = "mtrace"
  BY DEF Nested
<1>3. k < n + 1
  <2>1. k # n + 1
    BY <1>1, <1>2
  <2> QED BY <1>1, <2>1
<1> QED BY <1>1, <1>2, <1>3 DEF Nested

\* The last heapdiff is where the tool is that was started last, if that is one.
LEMMA LastPlace ==
  ASSUME NEW f, NEW O, NEW E, Places(f, O, E), NEW N, NEW n, Extends(O, N, n, "heapdiff"),
         NEW D, NEW d, NEW y, Extends(E, D, d, y)
  PROVE  f[d + 1] = n + 1 /\ \A i \in 1..d : f[i] \in 1..n
<1>1. /\ n \in Nat /\ DOMAIN O = 1..(n + 1) /\ O[n + 1] = "heapdiff" /\ n + 1 \in DOMAIN O
      /\ d \in Nat /\ DOMAIN E = 1..(d + 1) /\ d + 1 \in DOMAIN E
  BY DEF Extends
<1>2. \A i \in 1..(d + 1) : f[i] \in 1..(n + 1)
  BY <1>1 DEF Places
<1>3. PICK i \in 1..(d + 1) : f[i] = n + 1
  BY <1>1 DEF Places
<1>4. i = d + 1
  <2>1. i < d + 1 => f[i] < f[d + 1]
    BY <1>1 DEF Places
  <2>2. f[d + 1] \in 1..(n + 1)
    BY <1>1, <1>2
  <2> QED BY <1>1, <1>3, <2>1, <2>2
<1>5. ASSUME NEW l \in 1..d PROVE f[l] \in 1..n
  <2>1. l \in 1..(d + 1) /\ l < d + 1
    BY <1>1
  <2>2. f[l] < f[d + 1]
    BY <1>1, <2>1 DEF Places
  <2>3. f[l] \in 1..(n + 1)
    BY <1>2, <2>1
  <2> QED BY <1>1, <1>3, <1>4, <2>2, <2>3
<1> QED BY <1>3, <1>4, <1>5

LEMMA DiffIsFirst ==
  ASSUME NEW f, NEW O, NEW E, NEW h, NEW m, NEW g, Nested(f, O, E, h, m, g),
         NEW N, NEW n, Extends(O, N, n, "heapdiff"), m.on,
         NEW D, NEW d, NEW y, Extends(E, D, d, y), WithContents(E) = {d + 1}
  PROVE  h.pro = "heapdiff"
<1>1. f[d + 1] = n + 1
  BY LastPlace DEF Nested
<1>2. PICK k \in DOMAIN O : O[k] = "mtrace"
  BY DEF Nested
<1>3. k < n + 1
  <2>1. n \in Nat /\ DOMAIN O = 1..(n + 1) /\ O[n + 1] = "heapdiff"
    BY DEF Extends
  <2>2. k # n + 1
    BY <1>2, <2>1
  <2> QED BY <2>1, <2>2
<1>4. \A i \in WithContents(E) : d + 1 <= i
  BY DEF Extends
<1>5. d + 1 \in WithContents(E)
  OBVIOUS
<1> QED BY <1>1, <1>2, <1>3, <1>4, <1>5 DEF Nested

LEMMA ContentsExtended ==
  ASSUME NEW D, NEW E, NEW d, NEW y, Extends(E, D, d, y)
  PROVE  /\ WithContents(E) = WithContents(D) \cup (IF Contents(y) THEN {d + 1} ELSE {})
         /\ d + 1 \notin WithContents(D) /\ \A i \in WithContents(D) : i \in 1..d
<1>1. \A i \in DOMAIN E : i \in 1..d \/ i = d + 1
  BY DEF Extends
<1>2. \A i \in 1..d : i \in DOMAIN E /\ E[i] = D[i] /\ i # d + 1
  BY DEF Extends
<1>3. d + 1 \in DOMAIN E /\ E[d + 1] = y /\ DOMAIN D = 1..d
  BY DEF Extends
<1> QED BY <1>1, <1>2, <1>3 DEF WithContents

LEMMA PlacesDiffStarts ==
  ASSUME NEW f, NEW N, NEW D, Places(f, N, D), NEW O, NEW n, Extends(O, N, n, "heapdiff"),
         NEW E, NEW d, NEW y, Extends(E, D, d, y)
  PROVE  Places([i \in 1..(d + 1) |-> IF i = d + 1 THEN n + 1 ELSE f[i]], O, E)
<1> DEFINE r == [i \in 1..(d + 1) |-> IF i = d + 1 THEN n + 1 ELSE f[i]]
<1>1. /\ n \in Nat /\ DOMAIN O = 1..(n + 1) /\ O[n + 1] = "heapdiff" /\ DOMAIN N = 1..n
      /\ \A k \in 1..n : O[k] = N[k]
      /\ d \in Nat /\ DOMAIN E = 1..(d + 1) /\ DOMAIN D = 1..d
  BY DEF Extends
<1>2. \A i \in 1..d : f[i] \in 1..n
  BY <1>1 DEF Places
<1>3. \A i \in 1..d : r[i] = f[i] /\ r[i] \in 1..n
  BY <1>1, <1>2
<1>4. r[d + 1] = n + 1
  BY <1>1
<1>5. \A i \in 1..(d + 1) : i \in 1..d \/ i = d + 1
  BY <1>1
<1>6. r \in [DOMAIN E -> DOMAIN O]
  <2>1. \A i \in 1..(d + 1) : r[i] \in 1..(n + 1)
    BY <1>1, <1>3, <1>4, <1>5
  <2>2. DOMAIN r = 1..(d + 1) /\ r = [i \in 1..(d + 1) |-> r[i]]
    OBVIOUS
  <2> HIDE DEF r
  <2> QED BY <1>1, <2>1, <2>2
<1> HIDE DEF r
<1>7. \A i, j \in DOMAIN E : i < j => r[i] < r[j]
  <2> SUFFICES ASSUME NEW i \in 1..(d + 1), NEW j \in 1..(d + 1), i < j
               PROVE  r[i] < r[j]
    BY <1>1
  <2>1. i \in 1..d
    BY <1>1
  <2>2. CASE j \in 1..d
    BY <1>1, <1>3, <2>1, <2>2 DEF Places
  <2>3. CASE j = d + 1
    BY <1>1, <1>3, <1>4, <2>1, <2>3
  <2> QED BY <1>5, <2>2, <2>3
<1>8. \A k \in DOMAIN O : O[k] = "heapdiff" <=> \E i \in DOMAIN E : r[i] = k
  <2> TAKE k \in DOMAIN O
  <2>1. CASE k = n + 1
    BY <1>1, <1>4, <2>1
  <2>2. CASE k \in 1..n
    <3>1. O[k] = "heapdiff" <=> \E i \in 1..d : f[i] = k
      BY <1>1, <2>2 DEF Places
    <3>2. (\E i \in 1..(d + 1) : r[i] = k) <=> \E i \in 1..d : f[i] = k
      <4>1. k # n + 1 /\ \A i \in 1..d : i \in 1..(d + 1)
        BY <1>1, <2>2
      <4> QED BY <1>3, <1>4, <1>5, <4>1
    <3> QED BY <1>1, <3>1, <3>2
  <2> QED BY <1>1, <2>1, <2>2
<1> QED BY <1>6, <1>7, <1>8 DEF Places, r

LEMMA NestedDiffStarts ==
  ASSUME NEW f, NEW N, NEW D, NEW h, NEW m, NEW g, Nested(f, N, D, h, m, g),
         NEW O, NEW n, Extends(O, N, n, "heapdiff"),
         NEW E, NEW d, NEW y, Extends(E, D, d, y), NEW j, j.epi = h.epi,
         j.pro = IF Contents(y) /\ WithContents(D) = {} THEN "heapdiff" ELSE h.pro
  PROVE  \E r \in [DOMAIN E -> DOMAIN O] : Nested(r, O, E, j, m, g)
<1> DEFINE r == [i \in 1..(d + 1) |-> IF i = d + 1 THEN n + 1 ELSE f[i]]
<1>1. Places(r, O, E)
  BY PlacesDiffStarts DEF Nested
<1>2. /\ n \in Nat /\ DOMAIN O = 1..(n + 1) /\ O[n + 1] = "heapdiff" /\ DOMAIN N = 1..n
      /\ \A k \in 1..n : O[k] = N[k]
      /\ d \in Nat
  BY DEF Extends
<1>3. \A k \in DOMAIN O : k \in 1..n \/ k = n + 1
  BY <1>2
<1>4. r[d + 1] = n + 1 /\ \A i \in 1..d : r[i] = f[i]
  BY <1>2
<1> HIDE DEF r
<1>5. \A k, l \in DOMAIN O : O[k] = O[l] /\ O[k] # "heapdiff" => k = l
  BY <1>2, <1>3 DEF Nested
<1>6. \A k \in DOMAIN O : O[k] # "heapdiff" => k \in DOMAIN N /\ O[k] = N[k]
  BY <1>2, <1>3
<1>7. \A k \in DOMAIN N : k \in DOMAIN O /\ O[k] = N[k]
  BY <1>2
<1>8. m.on <=> \E k \in DOMAIN O : O[k] = "mtrace"
  <2>1. m.on <=> \E k \in DOMAIN N : N[k] = "mtrace"
    BY DEF Nested
  <2> QED BY <1>6, <1>7, <2>1
<1>9. g.on <=> \E k \in DOMAIN O : O[k] = "mgauge"
  <2>1. g.on <=> \E k \in DOMAIN N : N[k] = "mgauge"
    BY DEF Nested
  <2> QED BY <1>6, <1>7, <2>1
<1>10. \A k, l \in DOMAIN O : O[k] = "mtrace" /\ O[l] = "mgauge" =>
         j.epi = IF k < l THEN "mgauge" ELSE "mtrace"
  BY <1>6 DEF Nested
<1>11. /\ WithContents(E) = WithContents(D) \cup (IF Contents(y) THEN {d + 1} ELSE {})
       /\ \A i \in WithContents(D) : i \in 1..d
  BY ContentsExtended
<1>12. \A k \in DOMAIN O, i \in WithContents(E) :
         O[k] = "mtrace" /\ (\A l \in WithContents(E) : i <= l) =>
            j.pro = IF k < r[i] THEN "heapdiff" ELSE "mtrace"
  <2> SUFFICES ASSUME NEW k \in DOMAIN O, NEW i \in WithContents(E), O[k] = "mtrace",
                      \A l \in WithContents(E) : i <= l
               PROVE  j.pro = IF k < r[i] THEN "heapdiff" ELSE "mtrace"
    OBVIOUS
  <2>1. k \in DOMAIN N /\ N[k] = "mtrace" /\ k \in 1..n
    BY <1>2, <1>6
  <2>2. CASE WithContents(D) = {}
    <3>1. i = d + 1 /\ Contents(y)
      BY <1>11, <2>2
    <3>2. k < r[i]
      BY <1>2, <1>4, <2>1, <3>1
    <3> QED BY <2>2, <3>1, <3>2
  <2>3. CASE WithContents(D) # {}
    <3>1. \A l \in WithContents(D) : i <= l
      BY <1>11
    <3>2. i \in WithContents(D)
      <4>1. PICK l \in WithContents(D) : TRUE
        BY <2>3
      <4>2. l \in 1..d /\ i <= l
        BY <1>11, <3>1, <4>1
      <4>3. i = d + 1 => FALSE
        BY <1>2, <4>2
      <4> QED BY <1>11, <4>3
    <3>3. h.pro = IF k < f[i] THEN "heapdiff" ELSE "mtrace"
      BY <2>1, <3>1, <3>2 DEF Nested
    <3> QED BY <1>4, <1>11, <2>3, <3>2, <3>3
  <2> QED BY <2>2, <2>3
<1>13. Nested(r, O, E, j, m, g)
  BY <1>1, <1>5, <1>8, <1>9, <1>10, <1>12 DEF Nested
<1> QED BY <1>1, <1>13 DEF Places

LEMMA PlacesDiffEnds ==
  ASSUME NEW f, NEW O, NEW E, Places(f, O, E), NEW N, NEW n, Extends(O, N, n, "heapdiff"),
         NEW D, NEW d, NEW y, Extends(E, D, d, y)
  PROVE  Places([i \in 1..d |-> f[i]], N, D)
<1> DEFINE r == [i \in 1..d |-> f[i]]
<1>1. /\ n \in Nat /\ DOMAIN O = 1..(n + 1) /\ DOMAIN N = 1..n
      /\ \A k \in 1..n : O[k] = N[k]
      /\ d \in Nat /\ DOMAIN E = 1..(d + 1) /\ DOMAIN D = 1..d
  BY DEF Extends
<1>2. f[d + 1] = n + 1 /\ \A i \in 1..d : f[i] \in 1..n
  BY LastPlace
<1>3. \A i \in 1..d : r[i] = f[i] /\ i \in 1..(d + 1)
  BY <1>1
<1>4. r \in [DOMAIN D -> DOMAIN N]
  BY <1>1, <1>2
<1> HIDE DEF r
<1>5. \A i, l \in DOMAIN D : i < l => r[i] < r[l]
  BY <1>1, <1>3 DEF Places
<1>6. \A k \in DOMAIN N : N[k] = "heapdiff" <=> \E i \in DOMAIN D : r[i] = k
  <2> TAKE k \in DOMAIN N
  <2>1. k \in DOMAIN O /\ k # n + 1 /\ N[k] = O[k]
    BY <1>1
  <2>2. O[k] = "heapdiff" <=> \E i \in 1..(d + 1) : f[i] = k
    BY <1>1, <2>1 DEF Places
  <2>3. \A i \in 1..(d + 1) : i \in 1..d \/ i = d + 1
    BY <1>1
  <2>4. (\E i \in 1..(d + 1) : f[i] = k) <=> \E i \in 1..d : r[i] = k
    BY <1>2, <1>3, <2>1, <2>3
  <2> QED BY <1>1, <2>1, <2>2, <2>4
<1> QED BY <1>4, <1>5, <1>6 DEF Places, r

LEMMA NestedDiffEnds ==
  ASSUME NEW f, NEW O, NEW E, NEW h, NEW m, NEW g, Nested(f, O, E, h, m, g),
         NEW N, NEW n, Extends(O, N, n, "heapdiff"),
         NEW D, NEW d, NEW y, Extends(E, D, d, y), NEW j, j.epi = h.epi,
         WithContents(D) # {} => j.pro = h.pro
  PROVE  \E r \in [DOMAIN D -> DOMAIN N] : Nested(r, N, D, j, m, g)
<1> DEFINE r == [i \in 1..d |-> f[i]]
<1>1. Places(r, N, D)
  BY PlacesDiffEnds DEF Nested
<1>2. /\ n \in Nat /\ DOMAIN O = 1..(n + 1) /\ O[n + 1] = "heapdiff" /\ DOMAIN N = 1..n
      /\ \A k \in 1..n : O[k] = N[k]
      /\ d \in Nat
  BY DEF Extends
<1>3. \A k \in DOMAIN O : k \in 1..n \/ k = n + 1
  BY <1>2
<1>4. \A i \in 1..d : r[i] = f[i]
  OBVIOUS
<1> HIDE DEF r
<1>5. \A k \in DOMAIN O : O[k] # "heapdiff" => k \in DOMAIN N /\ O[k] = N[k]
  BY <1>2, <1>3
<1>6. \A k \in DOMAIN N : k \in DOMAIN O /\ O[k] = N[k]
  BY <1>2
<1>7. \A k, l \in DOMAIN N : N[k] = N[l] /\ N[k] # "heapdiff" => k = l
  BY <1>6 DEF Nested
<1>8. m.on <=> \E k \in DOMAIN N : N[k] = "mtrace"
  <2>1. m.on <=> \E k \in DOMAIN O : O[k] = "mtrace"
    BY DEF Nested
  <2> QED BY <1>5, <1>6, <2>1
<1>9. g.on <=> \E k \in DOMAIN N : N[k] = "mgauge"
  <2>1. g.on <=> \E k \in DOMAIN O : O[k] = "mgauge"
    BY DEF Nested
  <2> QED BY <1>5, <1>6, <2>1
<1>10. \A k, l \in DOMAIN N : N[k] = "mtrace" /\ N[l] = "mgauge" =>
         j.epi = IF k < l THEN "mgauge" ELSE "mtrace"
  BY <1>6 DEF Nested
<1>11. /\ WithContents(E) = WithContents(D) \cup (IF Contents(y) THEN {d + 1} ELSE {})
       /\ \A i \in WithContents(D) : i \in 1..d
  BY ContentsExtended
<1>12. \A k \in DOMAIN N, i \in WithContents(D) :
         N[k] = "mtrace" /\ (\A l \in WithContents(D) : i <= l) =>
            j.pro = IF k < r[i] THEN "heapdiff" ELSE "mtrace"
  <2> SUFFICES ASSUME NEW k \in DOMAIN N, NEW i \in WithContents(D), N[k] = "mtrace",
                      \A l \in WithContents(D) : i <= l
               PROVE  j.pro = IF k < r[i] THEN "heapdiff" ELSE "mtrace"
    OBVIOUS
  <2>1. k \in DOMAIN O /\ O[k] = "mtrace"
    BY <1>6
  <2>2. i \in WithContents(E) /\ i \in 1..d
    BY <1>11
  <2>3. \A l \in WithContents(E) : i <= l
    <3> TAKE l \in WithContents(E)
    <3>1. CASE l \in WithContents(D)
      BY <3>1
    <3>2. CASE l = d + 1
      BY <1>2, <2>2, <3>2
    <3> QED BY <1>11, <3>1, <3>2
  <2>4. h.pro = IF k < f[i] THEN "heapdiff" ELSE "mtrace"
    BY <2>1, <2>2, <2>3 DEF Nested
  <2> QED BY <1>4, <2>2, <2>4
<1>13. Nested(r, N, D, j, m, g)
  BY <1>1, <1>7, <1>8, <1>9, <1>10, <1>12 DEF Nested
<1> QED BY <1>1, <1>13 DEF Places

-----------------------------------------------------------------------------
(***************************************************************************)
(* The tools: tracing and the gauge                                        *)
(***************************************************************************)
LEMMA Fields ==
  ASSUME CallInv
  PROVE  /\ blocks \in SUBSET Blocks /\ event \in Nat /\ mtrace \in Traces
         /\ reader \in SUBSET Entries /\ gauge \in Gauges /\ diffs \in Seq(Diffs)
         /\ files \in SUBSET DiffFiles
         /\ BlocksRight(blocks, event, zeroed) /\ DiffsRight(diffs, blocks, event)
         /\ QueueRight(diffs, queue) /\ IdsRight(diffs, hd.count)
         /\ FilesRight(files, diffs, blocks, zeroed, hd.count, {})
         /\ mtrace.since <= event
<1>1. Now \in States
  BY NowIsSame
<1>2. HeapRight(Now, queue, zeroed, hd.count, {})
  BY DEF CallInv, Right
<1> QED BY <1>1, <1>2, NowFields, StateFields DEF HeapRight

LEMMA NowFieldsAfter ==
  /\ Now'.blocks = blocks' /\ Now'.event = event' /\ Now'.mtrace = mtrace'
  /\ Now'.reader = reader' /\ Now'.gauge = gauge' /\ Now'.diffs = diffs'
  /\ Now'.files = files'
  BY DEF Now

LEMMA StateAfter ==
  ASSUME blocks' \in SUBSET Blocks, event' \in Nat, mtrace' \in Traces,
         reader' \in SUBSET Entries, gauge' \in Gauges, diffs' \in Seq(Diffs),
         files' \in SUBSET DiffFiles
  PROVE  Now' \in States
<1>1. Now' = [blocks |-> blocks', event |-> event', mtrace |-> mtrace', reader |-> reader',
              gauge |-> gauge', diffs |-> diffs', files |-> files']
  BY DEF Now
<1> QED BY <1>1 DEF States

LEMMA ToolKeeps ==
  ASSUME CallInv, UNCHANGED <<blocks, event, queue, diffs, files, hd, zeroed>>,
         mtrace' \in Traces, mtrace'.since <= event, reader' \in SUBSET Entries,
         gauge' \in Gauges, within' \in BOOLEAN, steps' \in Int,
         TraceRight(Now', within'), GaugeRight(gauge', blocks), HooksInv', AtExitInv'
  PROVE  CallInv'
<1>1. Now' \in States
  BY Fields, StateAfter
<1>2. HeapRight(Now', queue', zeroed', hd'.count, {})
  BY <1>1, Fields, NowFieldsAfter DEF HeapRight
<1>3. Right(Now', queue', zeroed', hd'.count, within', {})
  BY <1>2, NowFieldsAfter DEF Right
<1> QED BY <1>3 DEF CallInv

\* The functions to be called at the end have become y, maybe with x.
AtExitGrows(y, x) ==
    /\ \E S : y \in Seq(S)
    /\ \A i \in DOMAIN atexit : i \in DOMAIN y /\ y[i] = atexit[i]
    /\ y = Append(atexit, x) => \E i \in DOMAIN y : y[i] = x

LEMMA AtExitAppends ==
  ASSUME AtExitInv, NEW x, NEW y, y = atexit \/ y = Append(atexit, x)
  PROVE  AtExitGrows(y, x)
<1>1. PICK S : atexit \in Seq(S)
  BY DEF AtExitInv
<1> DEFINE U == S \cup {x}
<1>2. atexit \in Seq(U) /\ x \in U
  <2>1. Len(atexit) \in Nat /\ atexit \in [1..Len(atexit) -> S]
    BY <1>1, LenProperties
  <2>2. atexit \in [1..Len(atexit) -> U]
    BY <2>1
  <2> QED BY <2>1, <2>2, IsASeq
<1> HIDE DEF U
<1>3. Append(atexit, x) \in Seq(U) /\ Extends(Append(atexit, x), atexit, Len(atexit), x)
  BY <1>2, AppendExtends
<1>4. \E T : y \in Seq(T)
  BY <1>2, <1>3
<1>5. ASSUME NEW i \in DOMAIN atexit PROVE i \in DOMAIN y /\ y[i] = atexit[i]
  BY <1>3 DEF Extends
<1>6. ASSUME y = Append(atexit, x) PROVE \E i \in DOMAIN y : y[i] = x
  <2>1. Len(atexit) + 1 \in DOMAIN y /\ y[Len(atexit) + 1] = x
    BY <1>3, <1>6 DEF Extends
  <2> QED BY <2>1
<1> QED BY <1>4, <1>5, <1>6 DEF AtExitGrows

LEMMA Appends ==
  ASSUME HooksInv, NEW x \in ToolNames, Starts(x)
  PROVE  nesting' \in Seq(ToolNames) /\ Extends(nesting', nesting, Len(nesting), x)
  BY AppendExtends DEF Starts, HooksInv

LEMMA Removes ==
  ASSUME HooksInv, NEW x, Ends(x)
  PROVE  nesting' \in Seq(ToolNames) /\ Extends(nesting, nesting', Len(nesting) - 1, x)
  BY RemoveExtends DEF Ends, HooksInv

LEMMA NestedPlaces ==
  ASSUME NEW f, NEW N, NEW D, NEW h, NEW m, NEW g, Nested(f, N, D, h, m, g)
  PROVE  f \in [DOMAIN D -> DOMAIN N]
  BY DEF Nested, Places

LEMMA StartTraceKeeps ==
  ASSUME CallInv, StartTrace
  PROVE  CallInv'
<1>1. /\ HooksInv /\ AtExitInv /\ mtrace \in Traces /\ gauge \in Gauges /\ event \in Nat
      /\ BlocksRight(blocks, event, zeroed) /\ hooks \in [pro : Hooks, epi : Hooks]
  BY Fields DEF CallInv, HooksInv
<1>2. /\ mtrace' \in Traces /\ mtrace'.on /\ mtrace'.atexit /\ mtrace'.since = event
      /\ mtrace'.oldpro = hooks.pro /\ mtrace'.oldepi = hooks.epi
  BY <1>1 DEF StartTrace, Traces
<1>3. /\ ~mtrace.on /\ UNCHANGED <<blocks, event, queue, gauge, hd, diffs, files, zeroed>>
      /\ hooks' = [pro |-> "mtrace", epi |-> "mtrace"] /\ reader' = {} /\ within' = FALSE
      /\ atexit' = IF mtrace.atexit THEN atexit ELSE Append(atexit, "muntrace")
  BY DEF StartTrace
<1>4. ProChain(hooks', mtrace', hd')
  BY <1>1, <1>2, <1>3 DEF HooksInv, ProChain
<1>5. EpiChain(hooks', mtrace', gauge')
  BY <1>1, <1>2, <1>3 DEF HooksInv, EpiChain
<1>6. nesting' \in Seq(ToolNames) /\ Extends(nesting', nesting, Len(nesting), "mtrace")
  BY <1>1, Appends DEF StartTrace, ToolNames
<1>7. \E f \in [DOMAIN diffs' -> DOMAIN nesting'] :
        Nested(f, nesting', diffs', hooks', mtrace', gauge')
  <2>1. PICK f \in [DOMAIN diffs -> DOMAIN nesting] :
          Nested(f, nesting, diffs, hooks, mtrace, gauge)
    BY <1>1 DEF HooksInv
  <2> DEFINE O == nesting'
             n == Len(nesting)
             j == hooks'
             k == mtrace'
  <2>2. Extends(O, nesting, n, "mtrace") /\ j.pro = "mtrace" /\ j.epi = "mtrace" /\ k.on
    BY <1>2, <1>3, <1>6
  <2> HIDE DEF O, n, j, k
  <2>3. Nested(f, O, diffs, j, k, gauge)
    BY <1>3, <2>1, <2>2, NestedTraceStarts
  <2>4. Nested(f, nesting', diffs', hooks', mtrace', gauge')
    BY <1>3, <2>3 DEF O, j, k
  <2> QED BY <2>4, NestedPlaces
<1>8. HooksInv'
  <2>1. hooks' \in [pro : Hooks, epi : Hooks]
    BY <1>3 DEF Hooks, ToolNames
  <2> QED BY <1>1, <1>2, <1>3, <1>4, <1>5, <1>6, <1>7, <2>1 DEF HooksInv
<1>9. AtExitInv'
  <2>1. /\ \E S : atexit' \in Seq(S)
        /\ \A i \in DOMAIN atexit : i \in DOMAIN atexit' /\ atexit'[i] = atexit[i]
        /\ ~mtrace.atexit => \E i \in DOMAIN atexit' : atexit'[i] = "muntrace"
    <3> DEFINE y == atexit'
    <3>1. y = atexit \/ y = Append(atexit, "muntrace")
      BY <1>3
    <3>2. ~mtrace.atexit => y = Append(atexit, "muntrace")
      BY <1>3
    <3> HIDE DEF y
    <3>3. AtExitGrows(y, "muntrace")
      BY <1>1, <3>1, AtExitAppends
    <3> QED BY <3>2, <3>3 DEF y, AtExitGrows
  <2>2. \E i \in DOMAIN atexit' : atexit'[i] = "muntrace"
    BY <1>1, <2>1 DEF AtExitInv
  <2>3. hd'.count > 0 => \E i \in DOMAIN atexit' : atexit'[i] = "cleanup"
    BY <1>1, <1>3, <2>1 DEF AtExitInv
  <2> QED BY <1>2, <2>1, <2>2, <2>3 DEF AtExitInv
<1>10. TraceRight(Now', within')
  <2>1. TracedOf(blocks, event) = {}
    <3>1. blocks \in SUBSET Blocks
      BY Fields
    <3>2. \A b \in Live(blocks) : b.event \in Nat /\ b.event <= event
      BY <1>1, <3>1 DEF BlocksRight, Live, Blocks
    <3>3. \A b \in Live(blocks) : ~(b.event > event)
      BY <1>1, <3>2
    <3> QED BY <3>3 DEF TracedOf
  <2> QED BY <1>2, <1>3, <2>1, NowFieldsAfter DEF TraceRight
<1>11. GaugeRight(gauge', blocks)
  BY <1>3, NowFields DEF CallInv, Right
<1>12. steps' \in Int /\ within' \in BOOLEAN /\ reader' \in SUBSET Entries
       /\ mtrace'.since <= event
  <2>1. steps' \in Int
    BY DEF StartTrace, Step, CallInv
  <2>2. mtrace'.since <= event
    BY <1>1, <1>2
  <2> QED BY <1>3, <2>1, <2>2
<1> QED BY <1>1, <1>2, <1>3, <1>8, <1>9, <1>10, <1>11, <1>12, ToolKeeps

LEMMA EndTraceKeeps ==
  ASSUME CallInv, EndTrace
  PROVE  CallInv'
<1>1. /\ HooksInv /\ AtExitInv /\ mtrace \in Traces /\ gauge \in Gauges
      /\ hooks \in [pro : Hooks, epi : Hooks] /\ diffs \in Seq(Diffs)
  BY Fields DEF CallInv, HooksInv
<1>2. /\ mtrace' \in Traces /\ ~mtrace'.on /\ mtrace'.atexit = mtrace.atexit
      /\ mtrace'.since = mtrace.since
      /\ mtrace'.oldpro = mtrace.oldpro /\ mtrace'.oldepi = mtrace.oldepi
  BY <1>1 DEF EndTrace, Traces
<1>3. /\ mtrace.on
      /\ UNCHANGED <<blocks, event, queue, reader, gauge, hd, diffs, files, atexit,
                     within, zeroed>>
      /\ hooks' = [pro |-> mtrace.oldpro, epi |-> mtrace.oldepi]
  BY DEF EndTrace
<1> DEFINE n == Len(nesting) - 1
<1>4. nesting' \in Seq(ToolNames) /\ Extends(nesting, nesting', n, "mtrace")
  BY <1>1, Removes DEF EndTrace
<1>5. PICK f \in [DOMAIN diffs -> DOMAIN nesting] :
        Nested(f, nesting, diffs, hooks, mtrace, gauge)
  BY <1>1 DEF HooksInv
<1>6. \E r \in [DOMAIN diffs' -> DOMAIN nesting'] :
        Nested(r, nesting', diffs', hooks', mtrace', gauge')
  <2> DEFINE N == nesting'
             j == hooks'
             k == mtrace'
  <2>1. Extends(nesting, N, n, "mtrace") /\ ~k.on
    BY <1>2, <1>4
  <2> HIDE DEF N, n, j, k
  <2>2. Nested(f, N, diffs, j, k, gauge)
    BY <1>5, <2>1, NestedTraceEnds
  <2>3. Nested(f, nesting', diffs', hooks', mtrace', gauge')
    BY <1>3, <2>2 DEF N, j, k
  <2> QED BY <2>3, NestedPlaces
<1>7. /\ gauge.on => hooks.epi = "mtrace"
      /\ WithContents(diffs) # {} => hooks.pro = "mtrace"
  <2> DEFINE N == nesting'
  <2>1. Extends(nesting, N, n, "mtrace")
    BY <1>4
  <2> HIDE DEF N, n
  <2> QED BY <1>1, <1>5, <2>1, TraceIsFirst
<1>8. hd.total # 0 => WithContents(diffs) # {}
  BY <1>1, FS_EmptySet DEF HooksInv
<1>9. ProChain(hooks', mtrace', hd')
  BY <1>1, <1>2, <1>3, <1>7, <1>8 DEF HooksInv, ProChain
<1>10. EpiChain(hooks', mtrace', gauge')
  BY <1>1, <1>2, <1>3, <1>7 DEF HooksInv, EpiChain
<1>11. HooksInv'
  <2>1. hooks' \in [pro : Hooks, epi : Hooks]
    BY <1>1, <1>3 DEF Traces
  <2> QED BY <1>1, <1>2, <1>3, <1>4, <1>6, <1>9, <1>10, <2>1 DEF HooksInv
<1>12. AtExitInv'
  BY <1>1, <1>2, <1>3 DEF AtExitInv
<1>13. TraceRight(Now', within')
  BY <1>2, NowFieldsAfter DEF TraceRight
<1>14. GaugeRight(gauge', blocks)
  BY <1>3, NowFields DEF CallInv, Right
<1>15. steps' \in Int /\ within' \in BOOLEAN /\ reader' \in SUBSET Entries
       /\ mtrace'.since <= event
  <2>1. steps' \in Int
    BY DEF EndTrace, Step, CallInv
  <2>2. within' \in BOOLEAN
    BY <1>3 DEF CallInv
  <2> QED BY <1>2, <1>3, <2>1, <2>2, Fields
<1> QED BY <1>1, <1>2, <1>3, <1>11, <1>12, <1>13, <1>14, <1>15, ToolKeeps

LEMMA StartGaugeKeeps ==
  ASSUME CallInv, NEW u \in Nat, StartGauge(u)
  PROVE  CallInv'
<1>1. /\ HooksInv /\ AtExitInv /\ mtrace \in Traces /\ gauge \in Gauges
      /\ hooks \in [pro : Hooks, epi : Hooks] /\ Total(blocks) \in Int
  BY Fields, TotalType DEF CallInv, HooksInv
<1>2. /\ gauge' \in Gauges /\ gauge'.on /\ gauge'.old = hooks.epi
      /\ gauge'.shown = Total(blocks)
  BY <1>1 DEF StartGauge, Gauges
<1>3. /\ ~gauge.on
      /\ UNCHANGED <<blocks, event, queue, mtrace, reader, hd, diffs, files, atexit,
                     within, zeroed>>
  BY DEF StartGauge
<1>4. hooks' \in [pro : Hooks, epi : Hooks] /\ hooks'.pro = hooks.pro /\ hooks'.epi = "mgauge"
  BY <1>1 DEF StartGauge, Hooks, ToolNames
<1>5. ProChain(hooks', mtrace', hd')
  BY <1>1, <1>3, <1>4 DEF HooksInv, ProChain
<1>6. EpiChain(hooks', mtrace', gauge')
  BY <1>1, <1>2, <1>3, <1>4 DEF HooksInv, EpiChain
<1>7. nesting' \in Seq(ToolNames) /\ Extends(nesting', nesting, Len(nesting), "mgauge")
  BY <1>1, Appends DEF StartGauge, ToolNames
<1>8. \E f \in [DOMAIN diffs' -> DOMAIN nesting'] :
        Nested(f, nesting', diffs', hooks', mtrace', gauge')
  <2>1. PICK f \in [DOMAIN diffs -> DOMAIN nesting] :
          Nested(f, nesting, diffs, hooks, mtrace, gauge)
    BY <1>1 DEF HooksInv
  <2> DEFINE O == nesting'
             n == Len(nesting)
             j == hooks'
             k == gauge'
  <2>2. Extends(O, nesting, n, "mgauge") /\ j.pro = hooks.pro /\ j.epi = "mgauge" /\ k.on
    BY <1>2, <1>4, <1>7
  <2> HIDE DEF O, n, j, k
  <2>3. Nested(f, O, diffs, j, mtrace, k)
    BY <1>3, <2>1, <2>2, NestedGaugeStarts
  <2>4. Nested(f, nesting', diffs', hooks', mtrace', gauge')
    BY <1>3, <2>3 DEF O, j, k
  <2> QED BY <2>4, NestedPlaces
<1>9. HooksInv'
  BY <1>1, <1>2, <1>3, <1>4, <1>5, <1>6, <1>7, <1>8 DEF HooksInv
<1>10. AtExitInv'
  BY <1>1, <1>3 DEF AtExitInv
<1>11. TraceRight(Now', within')
  BY <1>3, NowFields, NowFieldsAfter DEF CallInv, Right, TraceRight
<1>12. GaugeRight(gauge', blocks)
  BY <1>2 DEF GaugeRight
<1>13. steps' \in Int /\ within' \in BOOLEAN /\ reader' \in SUBSET Entries
       /\ mtrace'.since <= event
  <2>1. steps' \in Int
    BY DEF StartGauge, Step, CallInv
  <2>2. within' \in BOOLEAN
    BY <1>3 DEF CallInv
  <2> QED BY <1>3, <2>1, <2>2, Fields
<1> QED BY <1>1, <1>2, <1>3, <1>9, <1>10, <1>11, <1>12, <1>13, ToolKeeps

LEMMA UpdatedIs ==
  ASSUME NEW g \in Gauges, NEW B \in SUBSET Blocks
  PROVE  Updated(g, B) \in Gauges /\ Updated(g, B).old = g.old
<1>1. Total(B) \in Int
  BY TotalType
<1>2. CASE g.paused
  BY <1>2 DEF Updated
<1>3. CASE ~g.paused
  BY <1>1, <1>3 DEF Updated, Gauges
<1> QED BY <1>2, <1>3

LEMMA EndGaugeKeeps ==
  ASSUME CallInv, EndGauge
  PROVE  CallInv'
<1>1. /\ HooksInv /\ AtExitInv /\ mtrace \in Traces /\ gauge \in Gauges
      /\ hooks \in [pro : Hooks, epi : Hooks] /\ blocks \in SUBSET Blocks
  BY Fields DEF CallInv, HooksInv
<1>2. gauge' \in Gauges /\ ~gauge'.on /\ gauge'.old = gauge.old
  <2> DEFINE g == Updated(gauge, blocks)
  <2>1. g \in Gauges /\ g.old = gauge.old
    BY <1>1, UpdatedIs
  <2>2. gauge' = [g EXCEPT !.on = FALSE, !.paused = FALSE, !.count = 0, !.rate = 0]
    BY DEF EndGauge
  <2> HIDE DEF g
  <2> QED BY <2>1, <2>2 DEF Gauges
<1>3. /\ gauge.on
      /\ UNCHANGED <<blocks, event, queue, mtrace, reader, hd, diffs, files, atexit,
                     within, zeroed>>
  BY DEF EndGauge
<1>4. /\ hooks' \in [pro : Hooks, epi : Hooks]
      /\ hooks'.pro = hooks.pro /\ hooks'.epi = gauge.old
  BY <1>1 DEF EndGauge, Gauges
<1> DEFINE n == Len(nesting) - 1
<1>5. nesting' \in Seq(ToolNames) /\ Extends(nesting, nesting', n, "mgauge")
  BY <1>1, Removes DEF EndGauge
<1>6. PICK f \in [DOMAIN diffs -> DOMAIN nesting] :
        Nested(f, nesting, diffs, hooks, mtrace, gauge)
  BY <1>1 DEF HooksInv
<1>7. \E r \in [DOMAIN diffs' -> DOMAIN nesting'] :
        Nested(r, nesting', diffs', hooks', mtrace', gauge')
  <2> DEFINE N == nesting'
             j == hooks'
             k == gauge'
  <2>1. Extends(nesting, N, n, "mgauge") /\ ~k.on /\ j.pro = hooks.pro
    BY <1>2, <1>4, <1>5
  <2> HIDE DEF N, n, j, k
  <2>2. Nested(f, N, diffs, j, mtrace, k)
    BY <1>6, <2>1, NestedGaugeEnds
  <2>3. Nested(f, nesting', diffs', hooks', mtrace', gauge')
    BY <1>3, <2>2 DEF N, j, k
  <2> QED BY <2>3, NestedPlaces
<1>8. mtrace.on => hooks.epi = "mgauge"
  <2> DEFINE N == nesting'
  <2>1. Extends(nesting, N, n, "mgauge")
    BY <1>5
  <2> HIDE DEF N, n
  <2> QED BY <1>6, <2>1, GaugeIsFirst
<1>9. ProChain(hooks', mtrace', hd')
  BY <1>1, <1>3, <1>4 DEF HooksInv, ProChain
<1>10. EpiChain(hooks', mtrace', gauge')
  BY <1>1, <1>2, <1>3, <1>4, <1>8 DEF HooksInv, EpiChain
<1>11. HooksInv'
  BY <1>1, <1>2, <1>3, <1>4, <1>5, <1>7, <1>9, <1>10 DEF HooksInv
<1>12. AtExitInv'
  BY <1>1, <1>3 DEF AtExitInv
<1>13. TraceRight(Now', within')
  BY <1>3, NowFields, NowFieldsAfter DEF CallInv, Right, TraceRight
<1>14. GaugeRight(gauge', blocks)
  BY <1>2 DEF GaugeRight
<1>15. steps' \in Int /\ within' \in BOOLEAN /\ reader' \in SUBSET Entries
       /\ mtrace'.since <= event
  <2>1. steps' \in Int
    BY DEF EndGauge, Step, CallInv
  <2>2. within' \in BOOLEAN
    BY <1>3 DEF CallInv
  <2> QED BY <1>3, <2>1, <2>2, Fields
<1> QED BY <1>1, <1>2, <1>3, <1>11, <1>12, <1>13, <1>14, <1>15, ToolKeeps

LEMMA PauseGaugeKeeps ==
  ASSUME CallInv, NEW p \in BOOLEAN, PauseGauge(p)
  PROVE  CallInv'
<1>1. /\ HooksInv /\ AtExitInv /\ mtrace \in Traces /\ gauge \in Gauges
      /\ Total(blocks) \in Int
  BY Fields, TotalType DEF CallInv, HooksInv
<1>2. /\ gauge' \in Gauges /\ gauge'.on = gauge.on /\ gauge'.old = gauge.old
      /\ gauge'.shown = Total(blocks)
  BY <1>1 DEF PauseGauge, Gauges
<1>3. UNCHANGED <<blocks, event, queue, hooks, mtrace, reader, hd, diffs, files,
                  atexit, nesting, within, zeroed>>
  BY DEF PauseGauge
<1>4. \E f \in [DOMAIN diffs' -> DOMAIN nesting'] :
        Nested(f, nesting', diffs', hooks', mtrace', gauge')
  <2>1. PICK f \in [DOMAIN diffs -> DOMAIN nesting] :
          Nested(f, nesting, diffs, hooks, mtrace, gauge)
    BY <1>1 DEF HooksInv
  <2> DEFINE k == gauge'
  <2>2. SameDiffs(diffs, diffs) /\ k.on = gauge.on
    BY <1>2 DEF SameDiffs, SameDiff
  <2> HIDE DEF k
  <2>3. Nested(f, nesting, diffs, hooks, mtrace, k)
    BY <2>1, <2>2, NestedKept
  <2> QED BY <1>3, <2>3, NestedPlaces DEF k
<1>5. ProChain(hooks', mtrace', hd') /\ EpiChain(hooks', mtrace', gauge')
  BY <1>1, <1>2, <1>3 DEF HooksInv, ProChain, EpiChain
<1>6. HooksInv'
  BY <1>1, <1>2, <1>3, <1>4, <1>5 DEF HooksInv
<1>7. AtExitInv'
  BY <1>1, <1>3 DEF AtExitInv
<1>8. TraceRight(Now', within')
  BY <1>3, NowFields, NowFieldsAfter DEF CallInv, Right, TraceRight
<1>9. GaugeRight(gauge', blocks)
  BY <1>2 DEF GaugeRight
<1>10. steps' \in Int /\ within' \in BOOLEAN /\ reader' \in SUBSET Entries
       /\ mtrace'.since <= event
  <2>1. steps' \in Int
    BY DEF PauseGauge, Step, CallInv
  <2>2. within' \in BOOLEAN
    BY <1>3 DEF CallInv
  <2> QED BY <1>3, <2>1, <2>2, Fields
<1> QED BY <1>1, <1>2, <1>3, <1>6, <1>7, <1>8, <1>9, <1>10, ToolKeeps

-----------------------------------------------------------------------------
(***************************************************************************)
(* The tools: heapdiffs                                                    *)
(***************************************************************************)
LEMMA ContentsFinite ==
  ASSUME NEW D \in Seq(Diffs)
  PROVE  IsFiniteSet(WithContents(D)) /\ Cardinality(WithContents(D)) \in Nat
<1>1. DOMAIN D = 1..Len(D) /\ Len(D) \in Nat
  BY LenProperties
<1>2. IsFiniteSet(1..Len(D))
  BY <1>1, FS_Interval
<1>3. WithContents(D) \in SUBSET (1..Len(D))
  BY <1>1 DEF WithContents
<1> QED BY <1>2, <1>3, FS_Subset, FS_CardinalityType

\* The heapdiff that StartDiff adds.
NewDiff(flags) ==
    [id |-> hd.count + 1, event |-> event, flags |-> flags, nofree |-> SavedQueue,
     was |-> Live(blocks), freed |-> {}, touched |-> {}]

LEMMA NewDiffIs ==
  ASSUME CallInv, NEW flags \in FLAGS
  PROVE  /\ NewDiff(flags) \in Diffs /\ DiffRight(NewDiff(flags), blocks, event)
         /\ NewDiff(flags).id = hd.count + 1 /\ NewDiff(flags).flags = flags
         /\ NewDiff(flags).nofree = queue /\ NewDiff(flags).was = Live(blocks)
<1> DEFINE h == NewDiff(flags)
<1>1. /\ blocks \in SUBSET Blocks /\ event \in Nat /\ queue \in Nat /\ hd.count \in Nat
      /\ BlocksRight(blocks, event, zeroed)
  BY Fields DEF CallInv, HooksInv
<1>2. /\ h.id = hd.count + 1 /\ h.event = event /\ h.flags = flags /\ h.nofree = queue
      /\ h.was = Live(blocks) /\ h.freed = {} /\ h.touched = {}
  BY DEF NewDiff, SavedQueue
<1>3. h \in Diffs
  <2>1. Live(blocks) \in SUBSET Blocks
    BY <1>1 DEF Live
  <2> QED BY <1>1, <2>1 DEF NewDiff, SavedQueue, Diffs
<1> HIDE DEF h
<1>4. \A b \in blocks : ~(b.event > event) /\ b.num <= event
  <2>1. \A b \in blocks : b.event \in Nat /\ b.event <= event /\ b.num <= event
    BY <1>1 DEF Blocks, BlocksRight
  <2> QED BY <1>1, <2>1
<1>5. h.freed = {<<b.num, b.at>> : b \in {c \in Retained(blocks) : c.event > h.event}}
  BY <1>2, <1>4 DEF Retained
<1>6. \A b \in Live(blocks) : b.event > h.event <=> b.num \in h.touched
  BY <1>2, <1>4 DEF Live
<1>7. \A w \in h.was : w.num <= event
  BY <1>2, <1>4 DEF Live
<1>8. \A w, x \in h.was : w.num = x.num => w = x
  BY <1>1, <1>2 DEF BlocksRight
<1>9. DiffRight(h, blocks, event)
  BY <1>1, <1>2, <1>5, <1>6, <1>7, <1>8 DEF DiffRight
<1> QED BY <1>2, <1>3, <1>9 DEF h

LEMMA AddedDiffs ==
  ASSUME NEW D, NEW E, NEW d, NEW y, Extends(E, D, d, y), NEW B, NEW e, NEW q, NEW n \in Nat,
         DiffsRight(D, B, e), DiffRight(y, B, e), QueueRight(D, q), IdsRight(D, n),
         y.id = n + 1, y.nofree = q
  PROVE  /\ DiffsRight(E, B, e) /\ IdsRight(E, n + 1)
         /\ QueueRight(E, IF ListsFreed(y) THEN ALL ELSE q)
<1>1. /\ d \in Nat /\ DOMAIN E = 1..(d + 1) /\ DOMAIN D = 1..d /\ E[d + 1] = y
      /\ \A i \in 1..d : E[i] = D[i]
  BY DEF Extends
<1>2. \A i \in DOMAIN E : i \in 1..d \/ i = d + 1
  BY <1>1
<1>3. DiffsRight(E, B, e)
  BY <1>1, <1>2 DEF DiffsRight
<1>4. IdsRight(E, n + 1)
  <2>1. \A i \in 1..d : E[i].id \in 1..n
    BY <1>1 DEF IdsRight
  <2>2. \A i \in 1..n : i \in 1..(n + 1) /\ i # n + 1
    OBVIOUS
  <2>3. n + 1 \in 1..(n + 1)
    OBVIOUS
  <2>4. \A i \in DOMAIN E : E[i].id \in 1..(n + 1)
    BY <1>1, <1>2, <2>1, <2>2, <2>3
  <2>5. \A i, j \in DOMAIN E : i # j => E[i].id # E[j].id
    <3> TAKE i, j \in DOMAIN E
    <3>1. CASE i \in 1..d /\ j \in 1..d
      BY <1>1, <3>1 DEF IdsRight
    <3>2. CASE i \in 1..d /\ j = d + 1
      BY <1>1, <2>1, <2>2, <3>2
    <3>3. CASE i = d + 1 /\ j \in 1..d
      BY <1>1, <2>1, <2>2, <3>3
    <3> QED BY <1>2, <3>1, <3>2, <3>3
  <2> QED BY <2>4, <2>5 DEF IdsRight
<1> DEFINE r == IF ListsFreed(y) THEN ALL ELSE q
<1>5. QueueRight(E, r)
  <2> SUFFICES ASSUME NEW i \in DOMAIN E, ListsFreed(E[i])
               PROVE  r = ALL /\ \A j \in DOMAIN E : j > i => E[j].nofree = ALL
    BY DEF QueueRight
  <2>1. CASE i = d + 1
    <3>1. r = ALL
      BY <1>1, <2>1
    <3>2. \A j \in DOMAIN E : ~(j > i)
      BY <1>1, <2>1
    <3> QED BY <3>1, <3>2
  <2>2. CASE i \in 1..d
    <3>1. q = ALL /\ \A j \in 1..d : j > i => D[j].nofree = ALL
      BY <1>1, <2>2 DEF QueueRight
    <3>2. r = ALL
      BY <3>1
    <3> HIDE DEF r
    <3>3. ASSUME NEW j \in DOMAIN E, j > i PROVE E[j].nofree = ALL
      BY <1>1, <1>2, <3>1, <3>3
    <3> QED BY <3>2, <3>3
  <2> QED BY <1>2, <2>1, <2>2
<1> QED BY <1>3, <1>4, <1>5

LEMMA AddedFiles ==
  ASSUME NEW D, NEW E, NEW d, NEW y, Extends(E, D, d, y), NEW B, NEW z, NEW n \in Nat, NEW F,
         FilesRight(F, D, B, z, n, {}), y.id = n + 1, y.was = Live(B)
  PROVE  FilesRight(F \cup (IF Contents(y) THEN {File(n + 1, b) : b \in Live(B)} ELSE {}),
                    E, B, z, n + 1, {})
<1> DEFINE N == IF Contents(y) THEN {File(n + 1, b) : b \in Live(B)} ELSE {}
           G == F \cup N
<1>1. /\ d \in Nat /\ DOMAIN E = 1..(d + 1) /\ DOMAIN D = 1..d /\ E[d + 1] = y
      /\ \A i \in 1..d : E[i] = D[i]
      /\ d + 1 \in DOMAIN E /\ \A i \in 1..d : i \in DOMAIN E
  BY DEF Extends
<1>2. \A i \in DOMAIN E : i \in 1..d \/ i = d + 1
  BY <1>1
<1>3. \A f \in N : f.id = n + 1 /\ Contents(y) /\ \E w \in Live(B) : f = File(n + 1, w)
  BY DEF File
<1>4. Contents(y) => \A w \in Live(B) : File(n + 1, w) \in N
  OBVIOUS
<1> HIDE DEF N
<1>5. \A f \in G : f.id \in 1..(n + 1) /\ f.num \notin {}
  <2>1. \A i \in 1..n : i \in 1..(n + 1)
    OBVIOUS
  <2>2. n + 1 \in 1..(n + 1)
    OBVIOUS
  <2> QED BY <1>3, <2>1, <2>2 DEF FilesRight
<1>6. ASSUME NEW f \in G, f.num \notin z PROVE FileRight(f, E, B)
  <2>1. CASE f \in F
    <3>1. FileRight(f, D, B)
      BY <1>6, <2>1 DEF FilesRight
    <3>2. PICK i \in DOMAIN D : \E w \in D[i].was :
            Contents(D[i]) /\ f = File(D[i].id, w) /\ \E b \in Live(B) : b.num = w.num
      BY <3>1 DEF FileRight
    <3>3. i \in DOMAIN E /\ E[i] = D[i]
      BY <1>1
    <3> QED BY <3>2, <3>3 DEF FileRight
  <2>2. CASE f \in N
    <3>1. PICK w \in Live(B) : f = File(n + 1, w) /\ Contents(y)
      BY <1>3, <2>2
    <3> QED BY <1>1, <3>1 DEF FileRight
  <2> QED BY <2>1, <2>2
<1>7. ASSUME NEW i \in DOMAIN E, Contents(E[i]), NEW w \in E[i].was, NEW b \in Live(B),
             b.num = w.num
      PROVE  File(E[i].id, w) \in G
  <2>1. CASE i = d + 1
    BY <1>1, <1>4, <1>7, <2>1
  <2>2. CASE i \in 1..d
    <3>1. E[i] = D[i] /\ i \in DOMAIN D
      BY <1>1, <2>2
    <3>2. b.num \notin {}
      OBVIOUS
    <3>3. File(D[i].id, w) \in F
      BY <1>7, <3>1, <3>2 DEF FilesRight
    <3> QED BY <3>1, <3>3
  <2> QED BY <1>2, <2>1, <2>2
<1>8. FilesRight(G, E, B, z, n + 1, {})
  BY <1>5, <1>6, <1>7 DEF FilesRight
<1> QED BY <1>8 DEF N

\* Contents files of what is there.
LEMMA FilesType ==
  ASSUME NEW B \in SUBSET Blocks, NEW id \in Nat
  PROVE  {File(id, b) : b \in Live(B)} \in SUBSET DiffFiles
<1>1. \A b \in Live(B) : b.num \in Nat /\ b.data \in Seq(Nat)
  BY DEF Live, Blocks
<1> QED BY <1>1 DEF File, DiffFiles

LEMMA StartDiffHooks ==
  ASSUME CallInv, NEW flags \in FLAGS, StartDiff(flags)
  PROVE  HooksInv'
<1> DEFINE y == NewDiff(flags)
           E == diffs'
           O == nesting'
           d == Len(diffs)
           n == Len(nesting)
           j == hooks'
<1>1. /\ HooksInv /\ mtrace \in Traces /\ gauge \in Gauges /\ diffs \in Seq(Diffs)
      /\ hooks \in [pro : Hooks, epi : Hooks] /\ hd \in [count : Nat, total : Nat, old : Hooks]
      /\ hd.total = Cardinality(WithContents(diffs))
  BY Fields DEF CallInv, HooksInv
<1>2. y \in Diffs /\ y.flags = flags
  BY NewDiffIs
<1>3. /\ E = Append(diffs, y) /\ Starts("heapdiff")
      /\ UNCHANGED <<mtrace, gauge>>
      /\ j = IF Contents(y) /\ hd.total = 0 THEN [hooks EXCEPT !.pro = "heapdiff"] ELSE hooks
      /\ hd' = [count |-> hd.count + 1, total |-> hd.total + IF Contents(y) THEN 1 ELSE 0,
                old |-> IF Contents(y) /\ hd.total = 0 THEN hooks.pro ELSE hd.old]
  BY <1>2 DEF StartDiff, NewDiff, Contents
<1> HIDE DEF y, j
<1>4. E \in Seq(Diffs) /\ Extends(E, diffs, d, y)
  BY <1>1, <1>2, <1>3, AppendExtends
<1>5. O \in Seq(ToolNames) /\ Extends(O, nesting, n, "heapdiff")
  BY <1>1, <1>3, Appends DEF ToolNames
<1> HIDE DEF E, O, d, n
<1>6. hd.total = 0 <=> WithContents(diffs) = {}
  BY <1>1, ContentsFinite, FS_EmptySet
<1>7. hd'.total = Cardinality(WithContents(E))
  <2>1. /\ WithContents(E) = WithContents(diffs) \cup (IF Contents(y) THEN {d + 1} ELSE {})
        /\ d + 1 \notin WithContents(diffs)
    BY <1>4, ContentsExtended
  <2>2. IsFiniteSet(WithContents(diffs)) /\ Cardinality(WithContents(diffs)) \in Nat
    BY <1>1, ContentsFinite
  <2>3. CASE Contents(y)
    <3>1. Cardinality(WithContents(E)) = Cardinality(WithContents(diffs)) + 1
      BY <2>1, <2>2, <2>3, FS_AddElement
    <3>2. hd'.total = hd.total + 1
      BY <1>3, <2>3
    <3> QED BY <1>1, <3>1, <3>2
  <2>4. CASE ~Contents(y)
    <3>1. WithContents(E) = WithContents(diffs)
      BY <2>1, <2>4
    <3>2. hd'.total = hd.total
      BY <1>1, <1>3, <2>4
    <3> QED BY <1>1, <3>1, <3>2
  <2> QED BY <2>3, <2>4
<1>8. j.epi = hooks.epi
      /\ j.pro = IF Contents(y) /\ WithContents(diffs) = {} THEN "heapdiff" ELSE hooks.pro
  BY <1>1, <1>3, <1>6
<1>9. \E r \in [DOMAIN E -> DOMAIN O] : Nested(r, O, E, j, mtrace, gauge)
  <2>1. PICK f \in [DOMAIN diffs -> DOMAIN nesting] :
          Nested(f, nesting, diffs, hooks, mtrace, gauge)
    BY <1>1 DEF HooksInv
  <2> QED BY <1>4, <1>5, <1>8, <2>1, NestedDiffStarts
<1>10. j \in [pro : Hooks, epi : Hooks] /\ hd' \in [count : Nat, total : Nat, old : Hooks]
  BY <1>1, <1>3 DEF Hooks, ToolNames
<1>11. ProChain(j, mtrace', hd')
  <2>1. ProChain(hooks, mtrace, hd) /\ mtrace.on \in BOOLEAN
    BY <1>1 DEF HooksInv, Traces
  <2>2. CASE Contents(y) /\ hd.total = 0
    <3>1. j.pro = "heapdiff" /\ hd'.old = hooks.pro /\ hd'.total = 1
      BY <1>1, <1>3, <2>2
    <3> QED BY <1>3, <2>1, <2>2, <3>1 DEF ProChain
  <2>3. CASE ~(Contents(y) /\ hd.total = 0)
    <3>1. j.pro = hooks.pro /\ hd'.old = hd.old /\ (hd'.total = 0 <=> hd.total = 0)
      BY <1>1, <1>3, <2>3
    <3> QED BY <1>3, <2>1, <3>1 DEF ProChain
  <2> QED BY <2>2, <2>3
<1>12. EpiChain(j, mtrace', gauge')
  BY <1>1, <1>3, <1>8 DEF HooksInv, EpiChain
<1> QED BY <1>1, <1>3, <1>5, <1>7, <1>9, <1>10, <1>11, <1>12 DEF HooksInv, E, O, j

LEMMA StartDiffKeeps ==
  ASSUME CallInv, NEW flags \in FLAGS, StartDiff(flags)
  PROVE  CallInv'
<1> DEFINE y == NewDiff(flags)
           E == diffs'
           d == Len(diffs)
           c == hd.count
           q == queue
           F == files'
<1>1. /\ HooksInv /\ AtExitInv /\ diffs \in Seq(Diffs) /\ c \in Nat /\ q \in Nat
      /\ blocks \in SUBSET Blocks /\ event \in Nat /\ files \in SUBSET DiffFiles
      /\ DiffsRight(diffs, blocks, event) /\ QueueRight(diffs, q) /\ IdsRight(diffs, c)
      /\ FilesRight(files, diffs, blocks, zeroed, c, {})
  BY Fields DEF CallInv, HooksInv
<1>2. /\ y \in Diffs /\ DiffRight(y, blocks, event) /\ y.id = c + 1 /\ y.flags = flags
      /\ y.nofree = q /\ y.was = Live(blocks)
  BY NewDiffIs
<1>3. /\ E = Append(diffs, y)
      /\ UNCHANGED <<blocks, event, mtrace, reader, gauge, within, zeroed>>
      /\ F = files \cup (IF Contents(y) THEN {File(c + 1, b) : b \in Live(blocks)} ELSE {})
      /\ hd'.count = c + 1
      /\ atexit' = IF c + 1 = 1 THEN Append(atexit, "cleanup") ELSE atexit
      /\ queue' = IF ListsFreed(y) THEN ALL ELSE q
  BY <1>2 DEF StartDiff, NewDiff, Contents, ListsFreed, Files
<1> HIDE DEF y
<1>4. E \in Seq(Diffs) /\ Extends(E, diffs, d, y)
  BY <1>1, <1>2, <1>3, AppendExtends
<1> HIDE DEF E, d, c, q, F
<1>5. /\ DiffsRight(E, blocks, event) /\ IdsRight(E, c + 1)
      /\ QueueRight(E, IF ListsFreed(y) THEN ALL ELSE q)
  BY <1>1, <1>2, <1>4, AddedDiffs
<1>6. FilesRight(F, E, blocks, zeroed, c + 1, {})
  BY <1>1, <1>2, <1>3, <1>4, AddedFiles
<1>7. F \in SUBSET DiffFiles
  <2>1. {File(c + 1, b) : b \in Live(blocks)} \in SUBSET DiffFiles
    BY <1>1, FilesType
  <2> QED BY <1>1, <1>3, <2>1
<1>8. Now' \in States
  BY <1>3, <1>4, <1>7, Fields, StateAfter DEF E, F
<1>9. HeapRight(Now', queue', zeroed', hd'.count, {})
  <2>1. QueueRight(E, queue')
    BY <1>3, <1>5
  <2> QED BY <1>3, <1>5, <1>6, <1>8, <2>1, Fields, NowFieldsAfter DEF HeapRight, E, F
<1>10. TraceRight(Now', within') /\ GaugeRight(Now'.gauge, Now'.blocks)
  BY <1>3, NowFields, NowFieldsAfter DEF CallInv, Right, TraceRight, GaugeRight
<1>11. AtExitInv'
  <2> DEFINE x == atexit'
  <2>1. x = atexit \/ x = Append(atexit, "cleanup")
    BY <1>3
  <2>2. c = 0 => x = Append(atexit, "cleanup")
    BY <1>3
  <2> HIDE DEF x
  <2>3. AtExitGrows(x, "cleanup")
    BY <1>1, <2>1, AtExitAppends
  <2>4. \E i \in DOMAIN x : x[i] = "cleanup"
    BY <1>1, <2>2, <2>3 DEF AtExitGrows, AtExitInv, c
  <2> QED BY <1>1, <1>3, <2>3, <2>4 DEF AtExitInv, AtExitGrows, x
<1>12. HooksInv'
  BY StartDiffHooks
<1>13. /\ steps' \in Int /\ queue' \in Nat /\ zeroed' \in SUBSET Nat /\ within' \in BOOLEAN
  <2>1. steps' \in Int
    BY DEF StartDiff, Step, CallInv
  <2>2. queue' \in Nat
    BY <1>1, <1>3 DEF ALL
  <2> QED BY <1>3, <2>1, <2>2 DEF CallInv
<1> QED BY <1>9, <1>10, <1>11, <1>12, <1>13 DEF CallInv, Right

LEMMA RecycledIs ==
  ASSUME NEW B \in SUBSET Blocks, \A b, c \in B : b.at = c.at => b = c, NEW n
  PROVE  /\ Recycled(B, n) \subseteq B /\ Live(Recycled(B, n)) = Live(B)
         /\ n = ALL => Recycled(B, n) = B
<1>1. Recycled(B, n) \subseteq B /\ Live(Recycled(B, n)) = Live(B)
  BY DEF Recycled, Live
<1>2. ASSUME NEW b \in B PROVE Cardinality({c \in Retained(B) : c.event >= b.event}) <= ALL
  <2> DEFINE S == {c \in Retained(B) : c.event >= b.event}
             R == Retained(B)
  <2>1. S \in SUBSET R
    OBVIOUS
  <2>2. IsFiniteSet(R) /\ Cardinality(R) \in Nat /\ Cardinality(R) < ALL
    BY FewKept
  <2> HIDE DEF S, R
  <2>3. IsFiniteSet(S) /\ Cardinality(S) <= Cardinality(R)
    BY <2>1, <2>2, FS_Subset
  <2>4. Cardinality(S) \in Nat
    BY <2>3, FS_CardinalityType
  <2>5. ALL \in Nat
    BY DEF ALL
  <2>6. Cardinality(S) <= ALL
    BY <2>2, <2>3, <2>4, <2>5
  <2> QED BY <2>6 DEF S, R
<1>3. n = ALL => Recycled(B, n) = B
  BY <1>2 DEF Recycled
<1> QED BY <1>1, <1>3

LEMMA RemovedDiffs ==
  ASSUME NEW D, NEW E, NEW d, NEW y, Extends(E, D, d, y), NEW B, NEW C, NEW e, NEW q, NEW n,
         DiffsRight(E, B, e), QueueRight(E, q), IdsRight(E, n),
         Live(C) = Live(B), y.nofree = ALL => C = B
  PROVE  DiffsRight(D, C, e) /\ IdsRight(D, n) /\ QueueRight(D, y.nofree)
<1>1. /\ d \in Nat /\ DOMAIN D = 1..d /\ E[d + 1] = y /\ d + 1 \in DOMAIN E
      /\ \A i \in 1..d : i \in DOMAIN E /\ E[i] = D[i] /\ d + 1 > i
  BY DEF Extends
<1>2. \A i \in DOMAIN D : ListsFreed(D[i]) => y.nofree = ALL
  BY <1>1 DEF QueueRight
<1>3. ASSUME NEW i \in DOMAIN D PROVE DiffRight(D[i], C, e)
  <2>1. DiffRight(D[i], B, e)
    BY <1>1 DEF DiffsRight
  <2>2. CASE ListsFreed(D[i])
    BY <1>2, <2>1, <2>2
  <2>3. CASE ~ListsFreed(D[i])
    BY <2>1, <2>3 DEF DiffRight
  <2> QED BY <2>2, <2>3
<1>4. IdsRight(D, n)
  BY <1>1 DEF IdsRight
<1>5. QueueRight(D, y.nofree)
  BY <1>1, <1>2 DEF QueueRight
<1> QED BY <1>3, <1>4, <1>5 DEF DiffsRight

\* The files of heapdiff y of blocks that are allocated.
FilesOf(F, y, B) == {f \in F : f.id = y.id /\ \E b \in Live(B) : f.num = b.num}

LEMMA RemovedFiles ==
  ASSUME NEW D, NEW E, NEW d, NEW y, Extends(E, D, d, y), NEW B, NEW C, NEW z, NEW n, NEW F,
         NEW G, FilesRight(F, E, B, z, n, {}), IdsRight(E, n), Live(C) = Live(B),
         G = F \ (IF Contents(y) THEN FilesOf(F, y, B) ELSE {})
  PROVE  FilesRight(G, D, C, z, n, {})
<1>1. /\ d \in Nat /\ DOMAIN D = 1..d /\ E[d + 1] = y /\ d + 1 \in DOMAIN E
      /\ DOMAIN E = 1..(d + 1)
      /\ \A i \in 1..d : i \in DOMAIN E /\ E[i] = D[i] /\ i # d + 1
  BY DEF Extends
<1>2. G \subseteq F
  OBVIOUS
<1>3. ASSUME NEW f \in G, f.num \notin z PROVE FileRight(f, D, C)
  <2>1. FileRight(f, E, B)
    BY <1>3 DEF FilesRight
  <2>2. PICK i \in DOMAIN E : \E w \in E[i].was :
          Contents(E[i]) /\ f = File(E[i].id, w) /\ \E c \in Live(B) : c.num = w.num
    BY <2>1 DEF FileRight
  <2>3. PICK w \in E[i].was :
          Contents(E[i]) /\ f = File(E[i].id, w) /\ \E c \in Live(B) : c.num = w.num
    BY <2>2
  <2>4. f.id = E[i].id /\ f.num = w.num
    BY <2>3 DEF File
  <2>5. i # d + 1
    <3> SUFFICES ASSUME i = d + 1 PROVE FALSE
      OBVIOUS
    <3>1. Contents(y) /\ f.id = y.id
      BY <1>1, <2>3, <2>4
    <3>2. f \in FilesOf(F, y, B)
      BY <1>2, <2>3, <2>4, <3>1 DEF FilesOf
    <3> QED BY <1>3, <3>1, <3>2
  <2>6. i \in DOMAIN D /\ E[i] = D[i]
    BY <1>1, <2>5
  <2> QED BY <2>3, <2>6 DEF FileRight
<1>4. ASSUME NEW i \in DOMAIN D, Contents(D[i]), NEW w \in D[i].was, NEW c \in Live(C),
             c.num = w.num
      PROVE  File(D[i].id, w) \in G
  <2>1. i \in DOMAIN E /\ E[i] = D[i] /\ i # d + 1 /\ c.num \notin {}
    BY <1>1
  <2>2. File(D[i].id, w) \in F
    BY <1>4, <2>1 DEF FilesRight
  <2>3. D[i].id # y.id
    BY <1>1, <2>1 DEF IdsRight
  <2>4. File(D[i].id, w).id = D[i].id
    BY DEF File
  <2> QED BY <2>2, <2>3, <2>4 DEF FilesOf
<1> QED BY <1>2, <1>3, <1>4 DEF FilesRight

LEMMA DifferencesTell ==
  ASSUME NEW x \in Seq(Nat), NEW y \in Seq(Nat)
  PROVE  Differences(x, y) > 0 <=> x # y
<1> DEFINE n == Min({Len(x), Len(y)})
           S == {i \in 1..n : x[i] # y[i]}
           k == IF Len(x) # Len(y) THEN 1 ELSE 0
<1>1. Len(x) \in Nat /\ Len(y) \in Nat /\ DOMAIN x = 1..Len(x) /\ DOMAIN y = 1..Len(y)
  BY LenProperties
<1>2. Differences(x, y) = Cardinality(S) + k
  BY DEF Differences
<1>3. n \in Nat /\ (Len(x) = Len(y) => n = Len(x))
  <2>1. \E m \in {Len(x), Len(y)} : \A l \in {Len(x), Len(y)} : m <= l
    BY <1>1
  <2>2. n \in {Len(x), Len(y)}
    BY <2>1 DEF Min
  <2> QED BY <1>1, <2>2
<1> HIDE DEF n
<1>4. IsFiniteSet(S) /\ Cardinality(S) \in Nat /\ (Cardinality(S) = 0 <=> S = {})
  <2>1. IsFiniteSet(1..n)
    BY <1>3, FS_Interval
  <2>2. S \in SUBSET (1..n)
    OBVIOUS
  <2> HIDE DEF S
  <2> QED BY <2>1, <2>2, FS_Subset, FS_CardinalityType, FS_EmptySet
<1>5. ASSUME x = y PROVE S = {} /\ k = 0
  BY <1>5
<1>6. ASSUME S = {}, k = 0 PROVE x = y
  <2>1. Len(x) = Len(y)
    BY <1>6
  <2>2. \A i \in 1..Len(x) : x[i] = y[i]
    BY <1>3, <1>6, <2>1
  <2> QED BY <2>1, <2>2, SeqEqual
<1>7. k \in {0, 1}
  OBVIOUS
<1> HIDE DEF S, k
<1> QED BY <1>2, <1>4, <1>5, <1>6, <1>7

\* What EndDiff does, without what it reports.
LEMMA EndDiffIs ==
  ASSUME CallInv, EndDiff
  PROVE  LET y == diffs[Len(diffs)]
         IN  /\ diffs' \in Seq(Diffs) /\ Extends(diffs, diffs', Len(diffs) - 1, y)
             /\ y \in Diffs /\ Len(diffs) \in DOMAIN diffs /\ Ends("heapdiff")
             /\ UNCHANGED <<event, mtrace, reader, gauge, atexit, within, zeroed>>
             /\ hooks' = IF Contents(y) /\ hd.total = 1 THEN [hooks EXCEPT !.pro = hd.old]
                         ELSE hooks
             /\ hd' = [hd EXCEPT !.total = IF Contents(y) THEN @ - 1 ELSE @]
             /\ files' = files \ (IF Contents(y) THEN FilesOf(files, y, blocks) ELSE {})
             /\ blocks' = Recycled(blocks, y.nofree) /\ queue' = y.nofree
<1> DEFINE y == diffs[Len(diffs)]
<1>1. diffs \in Seq(Diffs) /\ hd \in [count : Nat, total : Nat, old : Hooks]
  BY Fields DEF CallInv, HooksInv
<1>2. diffs # <<>> /\ diffs' = SubSeq(diffs, 1, Len(diffs) - 1)
  BY DEF EndDiff
<1>3. diffs' \in Seq(Diffs) /\ Extends(diffs, diffs', Len(diffs) - 1, y)
  BY <1>1, <1>2, RemoveExtends
<1>4. Len(diffs) \in DOMAIN diffs /\ y \in Diffs
  <2>1. Len(diffs) \in Nat /\ DOMAIN diffs = 1..Len(diffs) /\ Len(diffs) # 0
    BY <1>1, <1>2, LenProperties, EmptySeq
  <2>2. Len(diffs) \in 1..Len(diffs)
    BY <2>1
  <2> QED BY <1>1, <2>1, <2>2, ElementOfSeq
<1>5. hd' = [hd EXCEPT !.total = IF Contents(y) THEN @ - 1 ELSE @]
  <2>1. hd' = [hd EXCEPT !.total = @ - IF Contents(y) THEN 1 ELSE 0]
    BY DEF EndDiff, Contents
  <2>2. hd.total - (IF Contents(y) THEN 1 ELSE 0) = IF Contents(y) THEN hd.total - 1 ELSE hd.total
    BY <1>1
  <2> HIDE DEF y
  <2> QED BY <2>1, <2>2
<1>6. files' = files \ (IF Contents(y) THEN FilesOf(files, y, blocks) ELSE {})
  <2> DEFINE Mine(b) == {f \in files : f.id = y.id /\ f.num = b.num}
             L(S) == IF Contents(y) THEN S ELSE {}
  <2>1. files' = files \ UNION {L(Mine(b)) : b \in Live(blocks)}
    BY DEF EndDiff, Contents
  <2> HIDE DEF y
  <2>2. UNION {L(Mine(b)) : b \in Live(blocks)}
          = IF Contents(y) THEN FilesOf(files, y, blocks) ELSE {}
    <3>1. CASE Contents(y)
      BY <3>1 DEF FilesOf
    <3>2. CASE ~Contents(y)
      BY <3>2
    <3> QED BY <3>1, <3>2
  <2> QED BY <2>1, <2>2
<1>7. /\ hooks' = IF Contents(y) /\ hd.total = 1 THEN [hooks EXCEPT !.pro = hd.old] ELSE hooks
      /\ blocks' = Recycled(blocks, y.nofree) /\ queue' = y.nofree
      /\ UNCHANGED <<event, mtrace, reader, gauge, atexit, within, zeroed>>
      /\ Ends("heapdiff")
  BY DEF EndDiff, Contents
<1> QED BY <1>3, <1>4, <1>5, <1>6, <1>7

LEMMA EndDiffHooks ==
  ASSUME CallInv, EndDiff
  PROVE  HooksInv'
<1> DEFINE y == diffs[Len(diffs)]
           D == diffs'
           N == nesting'
           d == Len(diffs) - 1
           n == Len(nesting) - 1
           j == hooks'
<1>1. /\ HooksInv /\ mtrace \in Traces /\ gauge \in Gauges /\ diffs \in Seq(Diffs)
      /\ hooks \in [pro : Hooks, epi : Hooks] /\ hd \in [count : Nat, total : Nat, old : Hooks]
      /\ hd.total = Cardinality(WithContents(diffs))
      /\ ProChain(hooks, mtrace, hd) /\ EpiChain(hooks, mtrace, gauge)
  BY Fields DEF CallInv, HooksInv
<1>2. /\ D \in Seq(Diffs) /\ Extends(diffs, D, d, y) /\ UNCHANGED <<mtrace, gauge>>
      /\ Ends("heapdiff")
      /\ j = IF Contents(y) /\ hd.total = 1 THEN [hooks EXCEPT !.pro = hd.old] ELSE hooks
      /\ hd' = [hd EXCEPT !.total = IF Contents(y) THEN @ - 1 ELSE @]
  BY EndDiffIs
<1>3. N \in Seq(ToolNames) /\ Extends(nesting, N, n, "heapdiff")
  BY <1>1, <1>2, Removes
<1> HIDE DEF y, D, N, d, n, j
<1>4. /\ WithContents(diffs) = WithContents(D) \cup (IF Contents(y) THEN {d + 1} ELSE {})
      /\ d + 1 \notin WithContents(D)
  BY <1>2, ContentsExtended
<1>5. IsFiniteSet(WithContents(D)) /\ Cardinality(WithContents(D)) \in Nat
  BY <1>2, ContentsFinite
<1>6. Cardinality(WithContents(diffs))
        = IF Contents(y) THEN Cardinality(WithContents(D)) + 1 ELSE Cardinality(WithContents(D))
  <2>1. CASE Contents(y)
    BY <1>4, <1>5, <2>1, FS_AddElement
  <2>2. CASE ~Contents(y)
    BY <1>4, <2>2
  <2> QED BY <2>1, <2>2
<1>7. /\ hd' \in [count : Nat, total : Nat, old : Hooks] /\ hd'.old = hd.old
      /\ hd'.total = Cardinality(WithContents(D))
  <2>1. CASE Contents(y)
    <3>1. hd' = [hd EXCEPT !.total = hd.total - 1]
      BY <1>2, <2>1
    <3>2. hd.total - 1 = Cardinality(WithContents(D))
      BY <1>1, <1>5, <1>6, <2>1
    <3> QED BY <1>1, <1>5, <3>1, <3>2
  <2>2. CASE ~Contents(y)
    <3>1. hd' = hd
      BY <1>1, <1>2, <2>2
    <3> QED BY <1>1, <1>6, <2>2, <3>1
  <2> QED BY <2>1, <2>2
<1>8. PICK f \in [DOMAIN diffs -> DOMAIN nesting] :
        Nested(f, nesting, diffs, hooks, mtrace, gauge)
  BY <1>1 DEF HooksInv
<1>9. j.epi = hooks.epi /\ (WithContents(D) # {} => j.pro = hooks.pro)
  <2>1. WithContents(D) # {} => ~(Contents(y) /\ hd.total = 1)
    <3>1. WithContents(D) # {} => Cardinality(WithContents(D)) # 0
      BY <1>5, FS_EmptySet
    <3> QED BY <1>1, <1>5, <1>6, <3>1
  <2> QED BY <1>1, <1>2, <2>1
<1>10. \E r \in [DOMAIN D -> DOMAIN N] : Nested(r, N, D, j, mtrace, gauge)
  <2>1. Extends(nesting, N, n, "heapdiff") /\ Extends(diffs, D, d, y)
    BY <1>2, <1>3
  <2> DEFINE O == nesting
             E == diffs
             h == hooks
             m == mtrace
             g == gauge
  <2>2. Nested(f, O, E, h, m, g) /\ Extends(O, N, n, "heapdiff") /\ Extends(E, D, d, y)
    BY <1>8, <2>1
  <2>3. j.epi = h.epi /\ (WithContents(D) # {} => j.pro = h.pro)
    BY <1>9
  <2> HIDE DEF O, E, h, m, g
  <2>4. \E r \in [DOMAIN D -> DOMAIN N] : Nested(r, N, D, j, m, g)
    BY <2>2, <2>3, NestedDiffEnds
  <2> QED BY <2>4 DEF m, g
<1>11. j \in [pro : Hooks, epi : Hooks]
  BY <1>1, <1>2
<1>12. ProChain(j, mtrace', hd')
  <2>1. CASE Contents(y) /\ hd.total = 1
    <3>1. hd'.total = 0 /\ j.pro = hd.old
      BY <1>1, <1>2, <1>5, <1>6, <1>7, <2>1
    <3>2. WithContents(diffs) = {d + 1}
      <4>1. Cardinality(WithContents(D)) = 0
        BY <1>7, <3>1
      <4>2. WithContents(D) = {}
        BY <1>5, <4>1, FS_EmptySet
      <4> QED BY <1>4, <2>1, <4>2
    <3>3. mtrace.on => hooks.pro = "heapdiff"
      BY <1>2, <1>3, <1>8, <3>2, DiffIsFirst
    <3>4. hd.total # 0 /\ mtrace.on \in BOOLEAN
      BY <1>1, <2>1 DEF Traces
    <3> QED BY <1>1, <1>2, <3>1, <3>3, <3>4 DEF ProChain
  <2>2. CASE ~(Contents(y) /\ hd.total = 1)
    <3>1. j = hooks
      BY <1>2, <2>2
    <3>2. hd'.total = 0 <=> hd.total = 0
      BY <1>1, <1>5, <1>6, <1>7, <2>2
    <3> QED BY <1>1, <1>2, <1>7, <3>1, <3>2 DEF ProChain
  <2> QED BY <2>1, <2>2
<1>13. EpiChain(j, mtrace', gauge')
  BY <1>1, <1>2, <1>9 DEF EpiChain
<1> QED BY <1>1, <1>2, <1>3, <1>7, <1>10, <1>11, <1>12, <1>13 DEF HooksInv, D, N, j

LEMMA LiveTotal ==
  ASSUME NEW B, NEW C, Live(C) = Live(B)
  PROVE  Total(C) = Total(B)
<1>1. \A p : SizeAt(C, p) = SizeAt(B, p)
  BY DEF SizeAt, At
<1>2. [p \in ADDRS |-> SizeAt(C, p)] = [p \in ADDRS |-> SizeAt(B, p)]
  BY <1>1
<1> QED BY <1>2 DEF Total

LEMMA EndDiffKeeps ==
  ASSUME CallInv, EndDiff
  PROVE  CallInv'
<1> DEFINE y == diffs[Len(diffs)]
           D == diffs'
           d == Len(diffs) - 1
           c == hd.count
           q == queue
           C == blocks'
           G == files'
<1>1. /\ HooksInv /\ AtExitInv /\ c \in Nat /\ q \in Nat
      /\ blocks \in SUBSET Blocks /\ files \in SUBSET DiffFiles
      /\ BlocksRight(blocks, event, zeroed)
      /\ DiffsRight(diffs, blocks, event) /\ QueueRight(diffs, q) /\ IdsRight(diffs, c)
      /\ FilesRight(files, diffs, blocks, zeroed, c, {})
      /\ hd \in [count : Nat, total : Nat, old : Hooks]
  BY Fields DEF CallInv, HooksInv
<1>2. /\ D \in Seq(Diffs) /\ Extends(diffs, D, d, y) /\ y \in Diffs
      /\ UNCHANGED <<event, mtrace, reader, gauge, atexit, within, zeroed>>
      /\ G = files \ (IF Contents(y) THEN FilesOf(files, y, blocks) ELSE {})
      /\ C = Recycled(blocks, y.nofree) /\ queue' = y.nofree
      /\ hd' = [hd EXCEPT !.total = IF Contents(y) THEN @ - 1 ELSE @]
  BY EndDiffIs
<1> HIDE DEF y, D, d, C, G, q
<1>3. C \subseteq blocks /\ Live(C) = Live(blocks) /\ (y.nofree = ALL => C = blocks)
  BY <1>1, <1>2, RecycledIs DEF BlocksRight
<1>4. hd'.count = c
  BY <1>1, <1>2
<1> HIDE DEF c
<1>5. DiffsRight(D, C, event) /\ IdsRight(D, c) /\ QueueRight(D, y.nofree)
  BY <1>1, <1>2, <1>3, RemovedDiffs
<1>6. FilesRight(G, D, C, zeroed, c, {})
  BY <1>1, <1>2, <1>3, RemovedFiles
<1>7. BlocksRight(C, event, zeroed)
  BY <1>1, <1>3 DEF BlocksRight
<1>8. Now' \in States
  <2>1. C \in SUBSET Blocks /\ G \in SUBSET DiffFiles
    BY <1>1, <1>2, <1>3
  <2> QED BY <1>2, <2>1, Fields, StateAfter DEF C, D, G
<1>9. HeapRight(Now', queue', zeroed', hd'.count, {})
  BY <1>2, <1>4, <1>5, <1>6, <1>7, <1>8, Fields, NowFieldsAfter DEF HeapRight, C, D, G
<1>10. TraceRight(Now', within')
  <2>1. TracedOf(C, mtrace.since) = TracedOf(blocks, mtrace.since)
    BY <1>3 DEF TracedOf
  <2>2. mtrace.on /\ ~within => reader = TracedOf(C, mtrace.since)
    BY <2>1, NowFields DEF CallInv, Right, TraceRight
  <2> QED BY <1>2, <2>2, NowFieldsAfter DEF TraceRight, C
<1>11. GaugeRight(Now'.gauge, Now'.blocks)
  <2>1. Total(C) = Total(blocks)
    BY <1>3, LiveTotal
  <2> QED BY <1>2, <2>1, NowFields, NowFieldsAfter DEF CallInv, Right, GaugeRight, C
<1>12. AtExitInv'
  BY <1>1, <1>2, <1>4 DEF AtExitInv, c
<1>13. HooksInv'
  BY EndDiffHooks
<1>14. /\ steps' \in Int /\ queue' \in Nat /\ zeroed' \in SUBSET Nat /\ within' \in BOOLEAN
  <2>1. steps' \in Int
    BY DEF EndDiff, CallInv
  <2>2. queue' \in Nat
    BY <1>2 DEF Diffs
  <2> QED BY <1>2, <2>1, <2>2 DEF CallInv
<1> QED BY <1>9, <1>10, <1>11, <1>12, <1>13, <1>14 DEF CallInv, Right

\* What a heapdiff says of the contents, and what is the case.
StillThere(h) == {b.num : b \in Live(blocks)} \cap {b.num : b \in h.was}
Unchanged(h) ==
    {b.num : b \in {c \in Live(blocks) : \E w \in h.was : w.num = c.num /\ w.data = c.data}}
Differs(b, h) == \E w \in h.was : w.num = b.num /\ w.data # b.data

LEMMA ChangedTells ==
  ASSUME CallInv, NEW D, NEW d, NEW y, Extends(diffs, D, d, y), y \in Diffs, Contents(y)
  PROVE  {b.num : b \in Changed(y.id)} = StillThere(y) \ Unchanged(y)
<1>1. /\ d \in Nat /\ d + 1 \in DOMAIN diffs /\ diffs[d + 1] = y
  BY DEF Extends
<1>2. /\ blocks \in SUBSET Blocks /\ BlocksRight(blocks, event, zeroed)
      /\ DiffRight(y, blocks, event) /\ IdsRight(diffs, hd.count)
      /\ FilesRight(files, diffs, blocks, zeroed, hd.count, {})
  BY <1>1, Fields DEF DiffsRight
<1>3. /\ \A b \in Live(blocks) : b.data \in Seq(Nat) /\ b.num \notin zeroed
      /\ \A b, c \in Live(blocks) : b.num = c.num => b = c
  BY <1>2 DEF BlocksRight, Blocks, Live
<1>4. \A w \in y.was : w.data \in Seq(Nat)
  BY DEF Diffs, Blocks
<1>5. \A w, x \in y.was : w.num = x.num => w = x
  BY <1>2 DEF DiffRight
<1>6. ASSUME NEW b \in Live(blocks) PROVE b \in Changed(y.id) <=> Differs(b, y)
  <2>1. ASSUME b \in Changed(y.id) PROVE Differs(b, y)
    <3>1. PICK f \in files : f.id = y.id /\ f.num = b.num /\ Differences(f.data, b.data) > 0
      BY <2>1 DEF Changed
    <3>2. FileRight(f, diffs, blocks)
      BY <1>2, <1>3, <3>1 DEF FilesRight
    <3>3. PICK i \in DOMAIN diffs : \E w \in diffs[i].was : f = File(diffs[i].id, w)
      BY <3>2 DEF FileRight
    <3>4. PICK w \in diffs[i].was : f = File(diffs[i].id, w)
      BY <3>3
    <3>5. f.id = diffs[i].id /\ f.num = w.num /\ f.data = w.data
      BY <3>4 DEF File
    <3>6. i = d + 1
      BY <1>1, <1>2, <3>1, <3>5 DEF IdsRight
    <3>7. w \in y.was
      BY <1>1, <3>4, <3>6
    <3>8. w.data # b.data
      BY <1>3, <1>4, <3>1, <3>5, <3>7, DifferencesTell
    <3> QED BY <3>1, <3>5, <3>7, <3>8 DEF Differs
  <2>2. ASSUME Differs(b, y) PROVE b \in Changed(y.id)
    <3>1. PICK w \in y.was : w.num = b.num /\ w.data # b.data
      BY <2>2 DEF Differs
    <3>2. File(y.id, w) \in files
      <4>1. b.num = w.num /\ b.num \notin {}
        BY <3>1
      <4> QED BY <1>1, <1>2, <4>1 DEF FilesRight
    <3>3. /\ File(y.id, w).id = y.id /\ File(y.id, w).num = b.num
          /\ File(y.id, w).data = w.data
      BY <3>1 DEF File
    <3>4. Differences(w.data, b.data) > 0
      BY <1>3, <1>4, <3>1, DifferencesTell
    <3> QED BY <3>2, <3>3, <3>4 DEF Changed
  <2> QED BY <2>1, <2>2
<1>7. Changed(y.id) \subseteq Live(blocks)
  BY DEF Changed
<1>8. ASSUME NEW b \in Changed(y.id) PROVE b.num \in StillThere(y) \ Unchanged(y)
  <2>1. b \in Live(blocks) /\ Differs(b, y)
    BY <1>6, <1>7
  <2>2. PICK w \in y.was : w.num = b.num /\ w.data # b.data
    BY <2>1 DEF Differs
  <2>3. b.num \in StillThere(y)
    BY <2>1, <2>2 DEF StillThere
  <2>4. b.num \notin Unchanged(y)
    <3> SUFFICES ASSUME b.num \in Unchanged(y) PROVE FALSE
      OBVIOUS
    <3>1. PICK c \in Live(blocks) :
            b.num = c.num /\ \E x \in y.was : x.num = c.num /\ x.data = c.data
      BY DEF Unchanged
    <3>2. c = b
      BY <1>3, <2>1, <3>1
    <3>3. PICK x \in y.was : x.num = b.num /\ x.data = b.data
      BY <3>1, <3>2
    <3>4. x = w
      BY <1>5, <2>2, <3>3
    <3> QED BY <2>2, <3>3, <3>4
  <2> QED BY <2>3, <2>4
<1>9. ASSUME NEW n \in StillThere(y) \ Unchanged(y) PROVE \E b \in Changed(y.id) : n = b.num
  <2>1. PICK b \in Live(blocks) : n = b.num
    BY DEF StillThere
  <2>2. PICK w \in y.was : n = w.num
    BY DEF StillThere
  <2>3. w.data # b.data
    BY <2>1, <2>2 DEF Unchanged
  <2>4. Differs(b, y)
    BY <2>1, <2>2, <2>3 DEF Differs
  <2> QED BY <1>6, <2>1, <2>4
<1> QED BY <1>8, <1>9

LEMMA ReportIs ==
  ASSUME EndDiff, NEW y, y = diffs[Len(diffs)],
         NEW B, B = {b \in blocks : b.event > y.event}
  PROVE  /\ report'.changed = IF Contents(y) THEN {b.num : b \in Changed(y.id)} ELSE {}
         /\ report'.freed = IF ListsFreed(y) THEN {<<b.num, b.at>> : b \in Retained(B)} ELSE {}
         /\ report'.unfreed = IF "unfreed" \in y.flags THEN {b.num : b \in Live(B)} ELSE {}
         /\ report'.truth.changed = IF Contents(y) THEN StillThere(y) \ Unchanged(y) ELSE {}
         /\ report'.truth.freed = IF ListsFreed(y) THEN y.freed ELSE {}
         /\ report'.truth.unfreed = IF "unfreed" \in y.flags
                THEN y.touched \cap {b.num : b \in Live(blocks)} ELSE {}
  BY DEF EndDiff, Contents, ListsFreed, StillThere, Unchanged

LEMMA EndDiffTells ==
  ASSUME CallInv, EndDiff
  PROVE  DiffsAreTrue'
<1> DEFINE y == diffs[Len(diffs)]
           B == {b \in blocks : b.event > y.event}
<1>1. Extends(diffs, diffs', Len(diffs) - 1, y) /\ y \in Diffs /\ Len(diffs) \in DOMAIN diffs
  BY EndDiffIs
<1>2. DiffRight(y, blocks, event)
  BY <1>1, Fields DEF DiffsRight
<1> HIDE DEF y
<1>3. /\ report'.changed = IF Contents(y) THEN {b.num : b \in Changed(y.id)} ELSE {}
      /\ report'.freed = IF ListsFreed(y) THEN {<<b.num, b.at>> : b \in Retained(B)} ELSE {}
      /\ report'.unfreed = IF "unfreed" \in y.flags THEN {b.num : b \in Live(B)} ELSE {}
      /\ report'.truth.changed = IF Contents(y) THEN StillThere(y) \ Unchanged(y) ELSE {}
      /\ report'.truth.freed = IF ListsFreed(y) THEN y.freed ELSE {}
      /\ report'.truth.unfreed = IF "unfreed" \in y.flags
            THEN y.touched \cap {b.num : b \in Live(blocks)} ELSE {}
  BY ReportIs DEF y
<1>4. report'.changed = report'.truth.changed
  BY <1>1, <1>3, ChangedTells
<1>5. report'.freed = report'.truth.freed
  <2>1. Retained(B) = {c \in Retained(blocks) : c.event > y.event}
    BY DEF Retained
  <2>2. ListsFreed(y) => y.freed = {<<b.num, b.at>> : b \in Retained(B)}
    BY <1>2, <2>1 DEF DiffRight
  <2> QED BY <1>3, <2>2
<1>6. report'.unfreed = report'.truth.unfreed
  <2>1. Live(B) = {b \in Live(blocks) : b.event > y.event}
    BY DEF Live
  <2>2. \A b \in Live(blocks) : b.event > y.event <=> b.num \in y.touched
    BY <1>2 DEF DiffRight
  <2>3. {b.num : b \in Live(B)} = y.touched \cap {b.num : b \in Live(blocks)}
    BY <2>1, <2>2
  <2> QED BY <1>3, <2>3
<1> QED BY <1>4, <1>5, <1>6 DEF DiffsAreTrue

-----------------------------------------------------------------------------
(***************************************************************************)
(* The tools: the end of the program                                       *)
(***************************************************************************)
Closed(m, F, z) == ~m.on /\ {f \in F : f.num \notin z} = {}

LEMMA ExitIs ==
  ASSUME Exit, NEW s, s = FreeAllEnded(Now, TRUE)
  PROVE  /\ steps' = -1 /\ UNCHANGED <<report, zeroed>>
         /\ (\E i \in DOMAIN atexit : atexit[i] = "muntrace") /\ mtrace.on =>
                mtrace' = [s.mtrace EXCEPT !.on = FALSE]
         /\ ~mtrace.on => mtrace' = s.mtrace
         /\ hd.total # 0 /\ (\E i \in DOMAIN atexit : atexit[i] = "cleanup") =>
                files' = Cleaned(s)
         /\ hd.total = 0 => files' = s.files
  BY DEF Exit

LEMMA ExitCloses ==
  ASSUME CallInv, Exit
  PROVE  steps' = -1 /\ Closed(mtrace', files', zeroed') /\ UNCHANGED report
<1> DEFINE s == FreeAllEnded(Now, TRUE)
<1>1. /\ HooksInv /\ AtExitInv /\ queue \in Nat /\ zeroed \in SUBSET Nat
      /\ Right(Now, queue, zeroed, hd.count, within, {})
  BY DEF CallInv
<1>2. Same(Now) /\ diffs \in Seq(Diffs)
  BY NowIsSame
<1>3. FreedRight(Now, s, TRUE, within, {})
  BY <1>1, <1>2, FreeAllEndedRight
<1>4. /\ steps' = -1 /\ UNCHANGED <<report, zeroed>>
      /\ (\E i \in DOMAIN atexit : atexit[i] = "muntrace") /\ mtrace.on =>
             mtrace' = [s.mtrace EXCEPT !.on = FALSE]
      /\ ~mtrace.on => mtrace' = s.mtrace
      /\ hd.total # 0 /\ (\E i \in DOMAIN atexit : atexit[i] = "cleanup") =>
             files' = Cleaned(s)
      /\ hd.total = 0 => files' = s.files
  BY ExitIs
<1> HIDE DEF s
<1>5. /\ s \in States /\ SameTrace(s.mtrace, mtrace) /\ SameDiffs(s.diffs, diffs)
      /\ FilesRight(s.files, s.diffs, s.blocks, zeroed, hd.count, {})
  BY <1>3 DEF FreedRight, Right, HeapRight, Same
<1>6. ~mtrace'.on
  <2>1. CASE mtrace.on
    <3>1. mtrace' = [s.mtrace EXCEPT !.on = FALSE]
      BY <1>1, <1>4, <2>1 DEF AtExitInv
    <3>2. s.mtrace \in Traces
      BY <1>5 DEF States
    <3> QED BY <3>1, <3>2 DEF Traces
  <2>2. CASE ~mtrace.on
    BY <1>4, <1>5, <2>2 DEF SameTrace
  <2> QED BY <2>1, <2>2
<1>7. ASSUME NEW f \in files' PROVE f.num \in zeroed
  <2>1. CASE hd.total = 0
    <3>1. f \in s.files
      BY <1>4, <1>7, <2>1
    <3>2. \A i \in DOMAIN s.diffs : ~Contents(s.diffs[i])
      BY <1>1, <1>2, <1>5, <2>1, NoContents
    <3>3. ~FileRight(f, s.diffs, s.blocks)
      BY <3>2 DEF FileRight
    <3> QED BY <1>5, <3>1, <3>3 DEF FilesRight
  <2>2. CASE hd.total # 0
    <3>1. \E i \in DOMAIN atexit : atexit[i] = "cleanup"
      <4>1. PICK i \in DOMAIN diffs : TRUE
        <5>1. hd.total = Cardinality(WithContents(diffs))
          BY <1>1 DEF HooksInv
        <5>2. WithContents(diffs) # {}
          BY <2>2, <5>1, FS_EmptySet
        <5> QED BY <5>2 DEF WithContents
      <4>2. diffs[i].id \in 1..hd.count
        BY Fields DEF IdsRight
      <4>3. hd.count > 0
        BY <1>1, <4>2 DEF HooksInv
      <4> QED BY <1>1, <4>3 DEF AtExitInv
    <3>2. f \in s.files /\ ~\E b \in s.blocks : b.num = f.num
      BY <1>4, <1>7, <2>2, <3>1 DEF Cleaned
    <3>3. ~FileRight(f, s.diffs, s.blocks)
      <4> SUFFICES ASSUME FileRight(f, s.diffs, s.blocks) PROVE FALSE
        OBVIOUS
      <4>1. PICK i \in DOMAIN s.diffs : \E w \in s.diffs[i].was :
              f = File(s.diffs[i].id, w) /\ \E b \in Live(s.blocks) : b.num = w.num
        BY DEF FileRight
      <4>2. PICK w \in s.diffs[i].was :
              f = File(s.diffs[i].id, w) /\ \E b \in Live(s.blocks) : b.num = w.num
        BY <4>1
      <4>3. f.num = w.num
        BY <4>2 DEF File
      <4> QED BY <3>2, <4>2, <4>3 DEF Live
    <3> QED BY <1>5, <3>2, <3>3 DEF FilesRight
  <2> QED BY <2>1, <2>2
<1> QED BY <1>4, <1>6, <1>7 DEF Closed

-----------------------------------------------------------------------------
(***************************************************************************)
(* The tools: what holds of the program                                    *)
(***************************************************************************)
ToolsInv ==
    /\ steps \in Int
    /\ steps >= 0 => CallInv
    /\ steps < 0 => Closed(mtrace, files, zeroed)
    /\ DiffsAreTrue

LEMMA ToolsBegin ==
  ASSUME ToolsInit
  PROVE  ToolsInv
<1>1. /\ blocks = {} /\ event = 0 /\ queue \in QUEUES
      /\ hooks = [pro |-> "none", epi |-> "none"]
      /\ mtrace = [on |-> FALSE, atexit |-> FALSE, since |-> 0, oldpro |-> "none",
                   oldepi |-> "none", pointer |-> NULL, size |-> 0]
      /\ reader = {}
      /\ gauge = [on |-> FALSE, paused |-> FALSE, count |-> 0, shown |-> 0,
                  rate |-> 0, old |-> "none"]
      /\ hd = [count |-> 0, total |-> 0, old |-> "none"]
      /\ diffs = <<>> /\ files = {} /\ atexit = <<>> /\ nesting = <<>>
      /\ steps = 0 /\ within = FALSE /\ zeroed = {}
      /\ report = [changed |-> {}, freed |-> {}, unfreed |-> {},
                   truth |-> [changed |-> {}, freed |-> {}, unfreed |-> {}]]
  BY DEF ToolsInit
<1>2. DOMAIN diffs = {} /\ DOMAIN nesting = {} /\ DOMAIN atexit = {}
  <2>1. DOMAIN <<>> = {}
    OBVIOUS
  <2> QED BY <1>1, <2>1
<1>3. diffs \in Seq(Diffs) /\ nesting \in Seq(ToolNames) /\ atexit \in Seq({})
  BY <1>1
<1>4. mtrace \in Traces /\ ~mtrace.on /\ ~mtrace.atexit /\ mtrace.since = 0
  BY <1>1 DEF Traces, Hooks
<1>5. gauge \in Gauges /\ ~gauge.on
  BY <1>1 DEF Gauges, Hooks
<1>6. /\ hooks \in [pro : Hooks, epi : Hooks] /\ hooks.pro = "none" /\ hooks.epi = "none"
      /\ hd \in [count : Nat, total : Nat, old : Hooks] /\ hd.count = 0 /\ hd.total = 0
  BY <1>1 DEF Hooks
<1>7. Live(blocks) = {} /\ Retained(blocks) = {}
  BY <1>1 DEF Live, Retained
<1>8. Now \in States
  BY <1>1, <1>3, <1>4, <1>5 DEF States, Now
<1>9. HeapRight(Now, queue, zeroed, hd.count, {})
  <2>1. BlocksRight(blocks, event, zeroed)
    BY <1>1, <1>7 DEF BlocksRight
  <2>2. DiffsRight(diffs, blocks, event) /\ QueueRight(diffs, queue) /\ IdsRight(diffs, hd.count)
    BY <1>2 DEF DiffsRight, QueueRight, IdsRight
  <2>3. FilesRight(files, diffs, blocks, zeroed, hd.count, {})
    BY <1>1, <1>2 DEF FilesRight
  <2> QED BY <1>1, <1>4, <1>8, <2>1, <2>2, <2>3, NowFields DEF HeapRight
<1>10. Right(Now, queue, zeroed, hd.count, within, {})
  BY <1>4, <1>5, <1>9, NowFields DEF Right, TraceRight, GaugeRight
<1>11. WithContents(diffs) = {}
  BY <1>2 DEF WithContents
<1>12. ProChain(hooks, mtrace, hd) /\ EpiChain(hooks, mtrace, gauge)
  BY <1>4, <1>5, <1>6 DEF ProChain, EpiChain
<1>13. \E f \in [DOMAIN diffs -> DOMAIN nesting] :
         Nested(f, nesting, diffs, hooks, mtrace, gauge)
  <2>1. PICK f : f \in [DOMAIN diffs -> DOMAIN nesting]
    <3> DEFINE f == [i \in DOMAIN diffs |-> 0]
    <3>1. f \in [DOMAIN diffs -> DOMAIN nesting]
      BY <1>2
    <3> QED BY <3>1
  <2>2. Places(f, nesting, diffs)
    BY <1>2, <2>1 DEF Places
  <2>3. Nested(f, nesting, diffs, hooks, mtrace, gauge)
    BY <1>2, <1>4, <1>5, <2>2 DEF Nested
  <2> QED BY <2>1, <2>3
<1>14. HooksInv
  <2>1. hd.total = Cardinality(WithContents(diffs))
    BY <1>6, <1>11, FS_EmptySet
  <2> QED BY <1>3, <1>4, <1>5, <1>6, <1>12, <1>13, <2>1 DEF HooksInv
<1>15. AtExitInv
  <2>1. \E S : atexit \in Seq(S)
    BY <1>3
  <2> QED BY <1>4, <1>6, <2>1 DEF AtExitInv
<1>16. queue \in Nat
  BY <1>1, ToolsAssumption DEF ToolsAssumption
<1>17. CallInv
  <2>1. steps \in Int /\ zeroed \in SUBSET Nat
    BY <1>1
  <2>2. within \in BOOLEAN
    BY <1>1
  <2> QED BY <1>10, <1>14, <1>15, <1>16, <2>1, <2>2 DEF CallInv
<1>18. DiffsAreTrue
  BY <1>1 DEF DiffsAreTrue
<1> QED BY <1>1, <1>17, <1>18 DEF ToolsInv

\* Contents are not empty, and addresses are not those that say something else.
LEMMA Values ==
  /\ \A d \in CONTENTS : d \in Seq(Nat) /\ Len(d) \in Nat /\ Len(d) # 0
  /\ NULL \notin ADDRS /\ MINUS1 \notin ADDRS
  /\ NULL \in Places0 /\ MINUS1 \in Places0 /\ \A a \in ADDRS : a \in Places0
<1>1. ASSUME NEW d \in CONTENTS PROVE d \in Seq(Nat) /\ Len(d) \in Nat /\ Len(d) # 0
  <2>1. d \in Seq(Nat) /\ d # <<>>
    BY ToolsAssumption DEF ToolsAssumption
  <2> QED BY <2>1, LenProperties, EmptySeq
<1> QED BY <1>1, ToolsAssumption DEF ToolsAssumption, Places0

LEMMA BlockCallsKeep ==
  ASSUME CallInv, BlockCalls
  PROVE  CallInv'
<1>1. ASSUME NEW d \in CONTENTS, Allocate(d) PROVE CallInv'
  <2>1. PICK p \in {MINUS1, NULL} : NewBlock(p, Len(d), d, "heap")
    BY <1>1 DEF Allocate
  <2>2. p \in Places0 /\ p \notin ADDRS /\ d \in Seq(Nat) /\ Len(d) \in Int
    BY Values
  <2> QED BY <2>1, <2>2, NewBlockKeeps
<1>2. ASSUME NEW b \in Live(blocks), b.kind = "heap", Release(b.at) PROVE CallInv'
  BY <1>2, ReleaseBlockKeeps
<1>3. ASSUME NEW b \in Live(blocks), NEW d \in CONTENTS, b.kind = "heap", Resize(b, Len(d))
      PROVE  CallInv'
  <2>1. Len(d) \in Nat /\ Len(d) # 0
    BY Values
  <2> QED BY <1>3, <2>1, ResizeKeeps
<1> QED BY <1>1, <1>2, <1>3 DEF BlockCalls

LEMMA StringCallsKeep ==
  ASSUME CallInv, StringCalls
  PROVE  CallInv'
<1>1. ASSUME NEW b \in Live(blocks), b.kind = "heap", Duplicate(b) PROVE CallInv'
  <2>1. NewBlock(b.at, STRINGSIZE, b.data, "heap")
    BY <1>1 DEF Duplicate
  <2>2. b.data \in Seq(Nat) /\ b.at \in Places0 /\ b.kind # "ended" /\ STRINGSIZE \in Int
    BY <1>1, Fields, Values DEF Live, Blocks, STRINGSIZE
  <2> DEFINE p == b.at
             e == b.data
  <2>3. \E c \in Live(blocks) : c.kind # "ended" /\ c.at = p /\ c.data = e
    BY <2>2
  <2>4. NewBlock(p, STRINGSIZE, e, "heap") /\ p \in Places0 /\ e \in Seq(Nat)
    BY <2>1, <2>2
  <2> HIDE DEF p, e
  <2> QED BY <2>2, <2>3, <2>4, NewBlockKeeps
<1>2. ASSUME NEW b \in Live(blocks), b.kind = "heap", ResizeToNothing(b) PROVE CallInv'
  BY <1>2, ResizeToNothingKeeps
<1>3. ASSUME Release(NULL) PROVE CallInv'
  BY <1>3, ReleaseNothingKeeps
<1> QED BY <1>1, <1>2, <1>3 DEF StringCalls

LEMMA StackCallsKeep ==
  ASSUME CallInv, StackCalls
  PROVE  CallInv'
<1>1. ASSUME NEW d \in CONTENTS, AllocateOnStack(d) PROVE CallInv'
  <2>1. NewBlock(MINUS1, Len(d), d, "stack")
    BY <1>1 DEF AllocateOnStack
  <2>2. MINUS1 \in Places0 /\ MINUS1 \notin ADDRS /\ d \in Seq(Nat) /\ Len(d) \in Int
    BY Values
  <2> QED BY <2>1, <2>2, NewBlockKeeps
<1>2. ASSUME NEW b \in Live(blocks), b.kind = "stack", Release(b.at) PROVE CallInv'
  BY <1>2, ReleaseBlockKeeps
<1> QED BY <1>1, <1>2, CheckKeeps, LeaveFunctionKeeps DEF StackCalls

LEMMA CallsKeep ==
  ASSUME CallInv, BlockCalls \/ StringCalls \/ StackCalls \/ Writes \/ TraceCalls
                    \/ GaugeCalls \/ DiffCalls
  PROVE  CallInv'
<1>1. CASE Writes
  <2>1. PICK b \in Live(blocks), d \in CONTENTS : Write(b, d)
    BY <1>1 DEF Writes
  <2> QED BY <2>1, Values, WriteKeeps
<1>2. CASE TraceCalls
  BY <1>2, StartTraceKeeps, EndTraceKeeps DEF TraceCalls
<1>3. CASE GaugeCalls
  <2>1. ASSUME NEW u \in RATES, StartGauge(u) PROVE CallInv'
    <3>1. u \in Nat
      BY ToolsAssumption DEF ToolsAssumption
    <3> QED BY <2>1, <3>1, StartGaugeKeeps
  <2> QED BY <1>3, <2>1, EndGaugeKeeps, PauseGaugeKeeps DEF GaugeCalls
<1>4. CASE DiffCalls
  BY <1>4, StartDiffKeeps, EndDiffKeeps DEF DiffCalls
<1> QED BY <1>1, <1>2, <1>3, <1>4, BlockCallsKeep, StringCallsKeep, StackCallsKeep

LEMMA CallsStep ==
  ASSUME BlockCalls \/ StringCalls \/ StackCalls \/ Writes \/ TraceCalls \/ GaugeCalls
            \/ DiffCalls
  PROVE  Step \/ EndDiff
<1>1. CASE BlockCalls
  BY <1>1 DEF BlockCalls, Allocate, NewBlock, Release, Resize, Operation
<1>2. CASE StringCalls
  BY <1>2 DEF StringCalls, Duplicate, NewBlock, ResizeToNothing, Release, Operation
<1>3. CASE StackCalls
  BY <1>3 DEF StackCalls, AllocateOnStack, NewBlock, Release, Check, LeaveFunction, Operation
<1>4. CASE Writes
  BY <1>4 DEF Writes, Write
<1>5. CASE TraceCalls \/ GaugeCalls
  BY <1>5 DEF TraceCalls, StartTrace, EndTrace, GaugeCalls, StartGauge, EndGauge, PauseGauge
<1>6. CASE DiffCalls
  BY <1>6 DEF DiffCalls, StartDiff
<1> QED BY <1>1, <1>2, <1>3, <1>4, <1>5, <1>6

\* Nothing but the end of a heapdiff reports anything.
LEMMA CallsReport ==
  ASSUME CallInv, DiffsAreTrue, Step \/ EndDiff
  PROVE  DiffsAreTrue' /\ steps \in 0..MAXSTEPS - 1 /\ steps' = steps + 1
<1>1. CASE Step
  BY <1>1 DEF Step, DiffsAreTrue
<1>2. CASE EndDiff
  <2>1. steps \in 0..MAXSTEPS - 1 /\ steps' = steps + 1
    BY <1>2 DEF EndDiff
  <2> QED BY <1>2, <2>1, EndDiffTells
<1> QED BY <1>1, <1>2

LEMMA ToolsKeeps ==
  ASSUME ToolsInv, [ToolsNext]_toolsVars
  PROVE  ToolsInv'
<1> DEFINE Calls == \/ BlockCalls \/ StringCalls \/ StackCalls \/ Writes
                    \/ TraceCalls \/ GaugeCalls \/ DiffCalls
<1>1. CASE Calls
  <2>1. steps \in Int /\ DiffsAreTrue /\ (steps >= 0 => CallInv)
    BY DEF ToolsInv
  <2>2. steps >= 0
    <3>1. Step \/ EndDiff
      BY <1>1, CallsStep
    <3>2. steps \in 0..MAXSTEPS - 1
      BY <3>1 DEF Step, EndDiff
    <3> QED BY <2>1, <3>2
  <2>3. CallInv
    BY <2>1, <2>2
  <2>4. CallInv' /\ DiffsAreTrue' /\ steps' = steps + 1
    BY <1>1, <2>1, <2>3, CallsStep, CallsKeep, CallsReport
  <2>5. steps' \in Int /\ ~(steps' < 0)
    BY <2>1, <2>2, <2>4
  <2> QED BY <2>4, <2>5 DEF ToolsInv
<1>2. CASE Exit
  <2>1. CallInv /\ DiffsAreTrue
    BY <1>2 DEF ToolsInv, Exit
  <2>2. steps' = -1 /\ Closed(mtrace', files', zeroed') /\ UNCHANGED report
    BY <1>2, <2>1, ExitCloses
  <2>3. steps' \in Int /\ ~(steps' >= 0)
    BY <2>2
  <2>4. DiffsAreTrue'
    BY <2>1, <2>2 DEF DiffsAreTrue
  <2> QED BY <2>2, <2>3, <2>4 DEF ToolsInv
<1>3. CASE UNCHANGED toolsVars
  <2>1. /\ UNCHANGED <<blocks, event, queue, hooks, mtrace, reader, gauge, hd>>
        /\ UNCHANGED <<diffs, files, atexit, nesting, steps, report, within, zeroed>>
    BY <1>3 DEF toolsVars
  <2>2. Now' = Now
    BY <2>1 DEF Now
  <2>3. HooksInv' <=> HooksInv
    BY <2>1 DEF HooksInv, ProChain, EpiChain
  <2>4. AtExitInv' <=> AtExitInv
    BY <2>1 DEF AtExitInv
  <2>5. CallInv' <=> CallInv
    BY <2>1, <2>2, <2>3, <2>4 DEF CallInv
  <2>6. DiffsAreTrue' <=> DiffsAreTrue
    BY <2>1 DEF DiffsAreTrue
  <2> QED BY <2>1, <2>5, <2>6 DEF ToolsInv
<1> QED BY <1>1, <1>2, <1>3 DEF ToolsNext

THEOREM ToolsSafe == ToolsSpec => []ToolsInv
<1>1. ToolsInit => ToolsInv
  BY ToolsBegin
<1>2. ToolsInv /\ [ToolsNext]_toolsVars => ToolsInv'
  BY ToolsKeeps
<1> QED BY <1>1, <1>2, PTL DEF ToolsSpec

\* While a trace is on and is not excused, its reader knows which of the blocks that are
\* younger than it are allocated, where and how large: in whatever order the tools have
\* hooked into the prologue and epilogue functions of src/inter.c.
THEOREM TraceAlwaysTells == ToolsSpec => []TraceTells
<1>1. ToolsInv => TraceTells
  <2> SUFFICES ASSUME ToolsInv, mtrace.on, ~within PROVE reader = Traced
    BY DEF TraceTells
  <2>1. CallInv
    BY DEF ToolsInv, Closed
  <2>2. TraceRight(Now, within)
    BY <2>1 DEF CallInv, Right
  <2> QED BY <2>2, NowFields DEF TraceRight, TracedOf, Traced
<1> QED BY <1>1, ToolsSafe, PTL

\* What the end of a heapdiff reports as changed, freed and unfreed is what has been
\* changed, freed and not freed since it was started, with other heapdiffs in it.
THEOREM DiffsAlwaysTrue == ToolsSpec => []DiffsAreTrue
<1>1. ToolsInv => DiffsAreTrue
  BY DEF ToolsInv
<1> QED BY <1>1, ToolsSafe, PTL

\* A gauge updated at every event shows the bytes that are allocated, whoever calls its
\* epilogue function.
THEOREM GaugeStaysCurrent == ToolsSpec => []GaugeIsCurrent
<1>1. ToolsInv => GaugeIsCurrent
  <2> SUFFICES ASSUME ToolsInv, gauge.on, ~gauge.paused, gauge.rate = 1, steps >= 0
               PROVE  gauge.shown = Total(blocks)
    BY DEF GaugeIsCurrent
  <2>1. GaugeRight(Now.gauge, Now.blocks)
    BY DEF ToolsInv, CallInv, Right
  <2> QED BY <2>1, NowFields DEF GaugeRight
<1> QED BY <1>1, ToolsSafe, PTL

\* The files of allocation contents are those of the heapdiffs under way and of blocks
\* that were there and still are, and none is left when the program has ended.
THEOREM FilesAlwaysBelong == ToolsSpec => []FilesBelong
<1>1. ToolsInv => FilesBelong
  <2> SUFFICES ASSUME ToolsInv PROVE FilesBelong
    OBVIOUS
  <2> DEFINE R == Range(diffs)
             want == {<<h.id, b.num>> : h \in {d \in R : "contents" \in d.flags},
                                        b \in Live(blocks)}
             was == {<<h.id, b.num>> : h \in R, b \in UNION {d.was : d \in R}}
             have == {<<f.id, f.num>> : f \in {g \in files : g.num \notin zeroed}}
  <2>1. FilesBelong <=>
          IF steps < 0 THEN have = {}
          ELSE /\ have \subseteq want \cap was
               /\ \A h \in R : "contents" \in h.flags =>
                    \A b \in Live(blocks) : (\E w \in h.was : w.num = b.num)
                        => <<h.id, b.num>> \in have
    BY DEF FilesBelong
  <2>2. R = {diffs[i] : i \in DOMAIN diffs}
    BY DEF Range
  <2> HIDE DEF R
  <2>3. CASE steps < 0
    <3>1. \A f \in files : f.num \in zeroed
      BY <2>3 DEF ToolsInv, Closed
    <3>2. have = {}
      BY <3>1
    <3> QED BY <2>1, <2>3, <3>2
  <2>4. CASE ~(steps < 0)
    <3>1. CallInv
      BY <2>4 DEF ToolsInv
    <3>2. /\ FilesRight(files, diffs, blocks, zeroed, hd.count, {})
          /\ \A b \in Live(blocks) : b.num \notin zeroed
      BY <3>1, Fields DEF BlocksRight
    <3>3. ASSUME NEW f \in files, f.num \notin zeroed PROVE <<f.id, f.num>> \in want \cap was
      <4>1. FileRight(f, diffs, blocks)
        BY <3>2, <3>3 DEF FilesRight
      <4>2. PICK i \in DOMAIN diffs : \E w \in diffs[i].was :
              /\ Contents(diffs[i]) /\ f = File(diffs[i].id, w)
              /\ \E b \in Live(blocks) : b.num = w.num
        BY <4>1 DEF FileRight
      <4>3. PICK w \in diffs[i].was :
              /\ Contents(diffs[i]) /\ f = File(diffs[i].id, w)
              /\ \E b \in Live(blocks) : b.num = w.num
        BY <4>2
      <4>4. PICK b \in Live(blocks) : b.num = w.num
        BY <4>3
      <4>5. f.id = diffs[i].id /\ f.num = w.num
        BY <4>3 DEF File
      <4> DEFINE h == diffs[i]
      <4>6. h \in R /\ "contents" \in h.flags /\ w \in h.was /\ f.id = h.id
        BY <2>2, <4>3, <4>5 DEF Contents
      <4> HIDE DEF h
      <4>7. <<f.id, f.num>> \in want
        BY <4>4, <4>5, <4>6
      <4>8. w \in UNION {d.was : d \in R}
        BY <4>6
      <4>9. <<f.id, f.num>> \in was
        BY <4>5, <4>6, <4>8
      <4> QED BY <4>7, <4>9
    <3>4. ASSUME NEW h \in R, "contents" \in h.flags, NEW b \in Live(blocks),
                 NEW w \in h.was, w.num = b.num
          PROVE  <<h.id, b.num>> \in have
      <4>1. PICK i \in DOMAIN diffs : diffs[i] = h
        BY <2>2
      <4>2. File(h.id, w) \in files
        <5>1. Contents(h) /\ b.num = w.num /\ b.num \notin {}
          BY <3>4 DEF Contents
        <5> QED BY <3>2, <4>1, <5>1 DEF FilesRight
      <4>3. File(h.id, w).id = h.id /\ File(h.id, w).num = b.num
        BY <3>4 DEF File
      <4> DEFINE f == File(h.id, w)
      <4>4. f \in files /\ f.id = h.id /\ f.num = b.num /\ f.num \notin zeroed
        BY <3>2, <4>2, <4>3
      <4> HIDE DEF f
      <4> QED BY <4>4
    <3>5. have \subseteq want \cap was
      BY <3>3
    <3> QED BY <2>1, <2>4, <3>4, <3>5
  <2> QED BY <2>3, <2>4
<1> QED BY <1>1, ToolsSafe, PTL
=============================================================================
