---------------------------- MODULE RecallProofs ----------------------------
(***************************************************************************)
(* Proofs about `ico recall` (module Recall), for any processes, pages,    *)
(* topics, answers of the model, commands and upsets: the types, that a    *)
(* rebuild nobody disturbs leaves the wiki in the index, that reported     *)
(* cards were visible, that nothing cites an unseen page, and that a quiz  *)
(* that ends is recorded whole.                                            *)
(*                                                                         *)
(* All five follow from one inductive invariant, Inv.  It adds to the      *)
(* types of what is in memory:                                             *)
(*   Distinct  - processes at work have numbers of their own, of commands  *)
(*               that were given;                                          *)
(*   Indexing  - an undisturbed rebuild is the only one, and has indexed   *)
(*               what it has not still to do; rows of a page, and rebuilds *)
(*               that have it still to do, are no more than the commands;  *)
(*   Seen      - a generation that has asked was shown pages, and holds,   *)
(*               stages and stores only what cites them;                   *)
(*   Stored    - each card a generation has passed was seen under a name   *)
(*               of its own, unless another one wrote to that name;        *)
(*   Recorded  - a session has a row and a trace for each question it has  *)
(*               passed, in their order, and the row of the present one    *)
(*               from its INSERT on.                                       *)
(* Blinded stands beside it: scores of 0 that come of a failed query, told *)
(* or about to be, are no more than the things that went wrong.            *)
(***************************************************************************)
EXTENDS Recall, FiniteSetTheorems, SequenceTheorems, WellFoundedInduction, TLAPS

\* The steps of a generation after its search, of its card files, and of a session.
Writing == {"card", "rename", "quiz", "finish", "trace"}
Session == {"answer", "record", "weigh", "tell"}
Generating == {"insert", "search", "ask"} \cup Writing

CardAnswer == [concept : DOMAIN Slug, cites : SUBSET Pages]
Result == [concept : Concepts, correct : BOOLEAN, n : 1..MaxCommands]
Trace == [n : 1..MaxCommands, q : Nat, row : Nat, score : Nat \X Nat]
Process == [step : {"idle", "export"} \cup Generating \cup Session,
            n : 0..MaxCommands, topic : Topics \cup {None}, todo : SUBSET Pages,
            alone : BOOLEAN, cards : Seq(CardAnswer), quiz : Seq(Asked), at : Nat \ {0},
            given : Given \cup {None}, verdict : BOOLEAN, score : Nat \X Nat,
            read : SUBSET CardFile]

\* What goes with which step.
Phased(r) ==
    /\ r.step \in Generating \cup Session => r.topic \in Topics
    /\ r.step = "search" => r.todo = {}
    /\ r.step \in {"insert", "search", "ask"} => r.at = 1
    /\ r.step \in {"card", "rename"} => r.at \in 1..Len(r.cards)
    /\ r.step \in Session => r.at \in 1..Len(r.quiz)

Typed ==
    /\ wiki \subseteq Pages /\ index \in [Pages -> Nat]
    /\ \A f \in DOMAIN files : files[f] \in File(f)
    /\ \A f \in DOMAIN tmps : tmps[f] \in File(f)
    /\ deck \subseteq CardFile
    /\ results \in Seq(Result) /\ told \subseteq Trace
    /\ \A h \in told : h.row \in DOMAIN results /\ h.score[1] <= h.score[2]
    /\ ended \subseteq [n : 1..MaxCommands, topic : Topics, items : Seq(Asked)]
    /\ proc \in [Procs -> Process] /\ \A p \in Procs : Phased(proc[p])
    /\ commands \in 0..MaxCommands
    /\ DOMAIN shown \subseteq 1..commands /\ \A n \in DOMAIN shown : shown[n] \subseteq Pages

Busy(r) == r.step \in Generating \cup Session
Distinct ==
    /\ \A p \in Procs : Busy(proc[p]) => proc[p].n \in 1..commands
    /\ \A p, q \in Procs : Busy(proc[p]) /\ Busy(proc[q]) /\ proc[p].n = proc[q].n => p = q

Pending(g) == {n \in 1..commands :
    \E p \in Procs : At(p, "insert") /\ proc[p].n = n /\ g \in proc[p].todo}
Indexing ==
    /\ \A p \in Procs : Rebuilding(p) /\ proc[p].alone =>
          /\ \A q \in Procs : Rebuilding(q) => q = p
          /\ proc[p].todo \subseteq wiki
          /\ \A g \in Pages : index[g] = IF g \in wiki \ proc[p].todo THEN 1 ELSE 0
    /\ \A g \in Pages : index[g] + Cardinality(Pending(g)) <= commands

CardSeen(c) == c.by \in DOMAIN shown /\ c.cites \subseteq shown[c.by]
QuizSeen(z) == /\ z.by \in DOMAIN shown
               /\ \A i \in 1..Len(z.items) : z.items[i].cites \subseteq shown[z.by]
FileSeen(f, content) == IF f[1] = "card" THEN CardSeen(content) ELSE QuizSeen(content)
\* A process before its search has been shown nothing, one that writes cites what it was shown.
Holds(r) ==
    /\ r.step \in {"insert", "search"} => r.n \notin DOMAIN shown
    /\ r.step = "ask" => r.n \in DOMAIN shown
    /\ r.step \in Writing =>
          /\ r.n \in DOMAIN shown
          /\ \A k \in 1..Len(r.cards) : r.cards[k].cites \subseteq shown[r.n]
          /\ \A k \in 1..Len(r.quiz) : r.quiz[k].cites \subseteq shown[r.n]
    /\ r.step = "export" => \A c \in r.read : CardSeen(c)
Seen ==
    /\ \A f \in DOMAIN files : FileSeen(f, files[f])
    /\ \A f \in DOMAIN tmps : FileSeen(f, tmps[f])
    /\ \A c \in deck : CardSeen(c)
    /\ \A p \in Procs : Holds(proc[p])

\* The card k of generation n was seen under its name, unless another one wrote there.
Kept(n, name, k) ==
    /\ name \in DOMAIN writers /\ n \in writers[name]
    /\ Alone(name) => name \in DOMAIN ever /\ \E c \in ever[name] : c.by = n /\ c.k = k
\* The cards that a generation has passed.
Passed(r) == IF r.step \in {"card", "rename"} THEN 1..(r.at - 1) ELSE 1..Len(r.cards)
\* Those are kept, and the one it has staged is its own, unless another one staged there.
Keeps(r) ==
    /\ r.step \in Writing =>
          \A k \in Passed(r) : Kept(r.n, <<"card", Names(r.cards, r.topic)[k]>>, k)
    /\ r.step = "rename" =>
          /\ CardName(r) \in DOMAIN writers /\ r.n \in writers[CardName(r)]
          /\ Alone(CardName(r)) /\ CardName(r) \in DOMAIN tmps => tmps[CardName(r)] = Card(r)
\* The cards of a generation that has reported are kept, under names of their own.
Reported(g) ==
    \A k \in DOMAIN g.names :
       /\ \A j \in DOMAIN g.names : g.names[j] = g.names[k] => j = k
       /\ Kept(g.n, <<"card", g.names[k]>>, k)
Stored ==
    /\ \A p \in Procs : Keeps(proc[p])
    /\ \A g \in generated : Reported(g)

RowsOf(n) == {i \in 1..Len(results) : results[i].n = n}
TracesOf(n) == {h \in told : h.n = n}
\* The score was counted when the row i, and perhaps later ones, was there, or not
\* at all.
Counted(score, i, concept) ==
    \/ \E m \in i..Len(results) : score = Tally(SubSeq(results, 1, m), concept)
    \/ score = Unread
\* The traces of session n are of the first `last` questions, in the order of their rows.
Told(n, items, topic, last) ==
    /\ {h.q : h \in TracesOf(n)} = 1..last
    /\ \A h, t \in TracesOf(n) : h.q < t.q => h.row < t.row
    /\ \A h \in TracesOf(n) : results[h.row].concept = Concept(items[h.q], topic)
\* The row i is the last one of the session, and of its present question.
InPlay(r, i) ==
    /\ i \in RowsOf(r.n) /\ \A j \in RowsOf(r.n) : j <= i
    /\ results[i].concept = Own(r)
    /\ \A h \in TracesOf(r.n) : h.row < i
    /\ r.step = "tell" => Counted(r.score, i, Own(r)) /\ r.score[1] <= r.score[2]
\* What a session has recorded.
Sits(r) ==
    /\ Told(r.n, r.quiz, r.topic, r.at - 1)
    /\ Cardinality(RowsOf(r.n)) = IF r.step \in {"weigh", "tell"} THEN r.at ELSE r.at - 1
    /\ r.step \in {"weigh", "tell"} => \E i \in 1..Len(results) : InPlay(r, i)
Recorded ==
    /\ \A i \in 1..Len(results) : results[i].n <= commands
    /\ \A h \in told : h.n <= commands /\ Counted(h.score, h.row, results[h.row].concept)
    /\ \A p \in Procs : proc[p].step \in Session => Sits(proc[p])
    /\ \A s \in ended :
          /\ s.n <= commands /\ \A p \in Procs : Busy(proc[p]) => proc[p].n # s.n
          /\ Told(s.n, s.items, s.topic, Len(s.items))
          /\ Cardinality(RowsOf(s.n)) = Len(s.items)

Inv == Typed /\ Distinct /\ Indexing /\ Seen /\ Stored /\ Recorded

-----------------------------------------------------------------------------
(* Numbers and functions *)

\* A set of numbers that is not empty has a least one.
LEMMA LeastNat ==
    ASSUME NEW T, T \subseteq Nat, T # {}
    PROVE  \E m \in T : \A k \in T : m <= k
<1>1. PICK m \in T : \A k \in T : ~(<<k, m>> \in OpToRel(<, Nat))
  BY NatLessThanWellFounded, WFMin
<1>2. ASSUME NEW k \in T PROVE m <= k
  <2>1. m \in Nat /\ k \in Nat /\ ~(k < m)
    BY <1>1 DEF OpToRel
  <2>2. QED
    BY <2>1
<1>3. QED
  BY <1>1, <1>2

LEMMA PutIs ==
    ASSUME NEW f, NEW k, NEW v
    PROVE  /\ DOMAIN Put(f, k, v) = DOMAIN f \cup {k} /\ Put(f, k, v)[k] = v
           /\ \A x \in DOMAIN f : x # k => Put(f, k, v)[x] = f[x]
BY DEF Put

LEMMA DropIs ==
    ASSUME NEW f, NEW k
    PROVE  /\ DOMAIN Drop(f, k) = DOMAIN f \ {k}
           /\ \A x \in DOMAIN Drop(f, k) : Drop(f, k)[x] = f[x]
BY DEF Drop

\* An empty list is a function of nothing.
LEMMA NothingIs == DOMAIN <<>> = {} /\ \A S : <<>> \in Seq(S) /\ Len(<<>>) = 0
OBVIOUS

\* Rows of one command are counted with a set of numbers of commands.
LEMMA PendingIs ==
    ASSUME NEW g, commands \in Nat
    PROVE  IsFiniteSet(Pending(g)) /\ Cardinality(Pending(g)) \in Nat
<1>1. IsFiniteSet(1..commands)
  BY FS_Interval
<1>2. IsFiniteSet(Pending(g))
  BY <1>1, FS_Subset DEF Pending
<1>3. QED
  BY <1>2, FS_CardinalityType

LEMMA InvIsTypeOK == Inv => TypeOK
<1> SUFFICES ASSUME Inv PROVE TypeOK
  OBVIOUS
<1>1. index \in [Pages -> 0..MaxCommands]
  <2>1. ASSUME NEW g \in Pages PROVE index[g] \in 0..MaxCommands
    BY PendingIs, RecallAssumption DEF Inv, Typed, Indexing
  <2>2. QED
    BY <2>1 DEF Inv, Typed
<1>2. ASSUME NEW p \in Procs
      PROVE  /\ proc[p].step \in {"idle", "insert", "search", "ask", "card", "rename", "quiz",
                               "finish", "trace", "answer", "record", "weigh", "tell", "export"}
             /\ proc[p].step \in {"card", "rename"} => proc[p].at \in 1..Len(proc[p].cards)
             /\ proc[p].step \in {"answer", "record", "weigh", "tell"} =>
                   proc[p].at \in 1..Len(proc[p].quiz)
             /\ proc[p].read \subseteq CardFile
  <2>1. proc[p] \in Process /\ Phased(proc[p])
    BY DEF Inv, Typed
  <2>2. QED
    BY <2>1 DEF Process, Phased, Generating, Writing, Session
<1>3. QED
  BY <1>1, <1>2 DEF Inv, Typed, TypeOK, Result, Trace

-----------------------------------------------------------------------------
(* File names *)

Parts == (UNION {ToSet(Slug[c]) : c \in DOMAIN Slug}) \cup Nat \cup {"card"}
Name == Seq(Parts)

LEMMA NumbersAreParts == Nat \subseteq Parts /\ "card" \in Parts
<1>1. \A n \in Nat : n \in Parts
  BY Zenon DEF Parts
<1>2. "card" \in Parts
  BY Zenon DEF Parts
<1>3. QED
  BY <1>1, <1>2

LEMMA SlugIs == \A c \in DOMAIN Slug : Slug[c] \in Name
<1>1. ASSUME NEW c \in DOMAIN Slug PROVE Slug[c] \in Name
  <2>1. Slug[c] \in Seq(ToSet(Slug[c])) /\ ToSet(Slug[c]) \subseteq Parts
    BY RecallAssumption DEF Parts
  <2>2. QED
    BY <2>1, SeqMonotonic DEF Name
<1>2. QED
  BY <1>1

\* Appending other parts to a name gives other names.
LEMMA AppendIs ==
    ASSUME NEW base \in Name, NEW x \in Parts
    PROVE  /\ Append(base, x) \in Name
           /\ \A y \in Parts : Append(base, x) = Append(base, y) => x = y
<1> HIDE DEF Parts
<1>1. ASSUME NEW y \in Parts
      PROVE  Append(base, y) \in Name /\ Append(base, y)[Len(base) + 1] = y
  BY DEF Name
<1>2. QED
  BY <1>1

\* A generation never uses a name twice: there is always a number that is free.
LEMMA NumberedIs ==
    ASSUME NEW base \in Name, NEW used, IsFiniteSet(used)
    PROVE  Numbered(base, used) \in Name /\ Numbered(base, used) \notin used
<1> DEFINE numbers == 2..(Cardinality(used) + 2)
           free == {n \in numbers : Append(base, n) \notin used}
<1>0. Cardinality(used) \in Nat
  BY FS_CardinalityType
<1>1. \A n \in numbers : n \in Nat /\ n \in Parts
  <2>1. \A n \in numbers : n \in Nat
    BY <1>0
  <2>2. QED
    BY <2>1, NumbersAreParts
<1>2. free # {}
  <2>1. SUFFICES ASSUME \A n \in numbers : Append(base, n) \in used PROVE FALSE
    OBVIOUS
  <2> DEFINE f == [n \in numbers |-> Append(base, n)]
  <2>2. f \in [numbers -> used]
    <3> HIDE DEF numbers
    <3>1. QED
      BY <2>1
  <2>3. IsFiniteSet(numbers) /\ Cardinality(numbers) = Cardinality(used) + 1
    BY <1>0, FS_Interval, SMTT(30)
  <2>4. Cardinality(used) < Cardinality(numbers)
    BY <1>0, <2>3
  <2>5. \E m, n \in numbers : m # n /\ f[m] = f[n]
    <3> HIDE DEF numbers, f
    <3>1. QED
      BY <2>2, <2>3, <2>4, FS_PigeonHole
  <2>6. QED
    <3> HIDE DEF numbers
    <3>1. QED
      BY <1>1, <2>5, AppendIs
<1>3. \E n \in free : \A m \in free : n <= m
  <2>1. free \subseteq Nat
    BY <1>1
  <2> HIDE DEF free
  <2>2. QED
    BY <1>2, <2>1, LeastNat
<1>4. CASE base \in used
  <2>1. PICK n \in free : Numbered(base, used) = Append(base, n)
    BY <1>3, <1>4 DEF Numbered
  <2>2. QED
    BY <1>1, <2>1, AppendIs
<1>5. CASE base \notin used
  BY <1>5 DEF Numbered
<1>6. QED
  BY <1>4, <1>5

\* The names of the first n cards.
Listed(cards, topic, n, F) ==
    F = [k \in 1..n |-> Numbered(CardBase(cards, topic, k), {F[j] : j \in 1..(k - 1)})]

\* The recursion over the cards has a value at each of them.
LEMMA ListExists ==
    ASSUME NEW cards, NEW topic, NEW n \in Nat
    PROVE  \E F : Listed(cards, topic, n, F)
<1> DEFINE T == {k \in 0..n : ~ \E F : Listed(cards, topic, k, F)}
<1>1. CASE T = {}
  BY <1>1
<1>2. CASE T # {}
  <2>1. T \subseteq Nat
    OBVIOUS
  <2>2. PICK m \in T : \A k \in T : m <= k
    <3> HIDE DEF T
    <3>1. QED
      BY <1>2, <2>1, LeastNat
  <2>3. m \in 0..n /\ ~ \E F : Listed(cards, topic, m, F)
    BY <2>2
  <2>4. CASE m = 0
    <3> DEFINE F == [k \in 1..0 |-> 0]
               H == [k \in 1..0 |-> Numbered(CardBase(cards, topic, k), {F[j] : j \in 1..(k - 1)})]
    <3>1. F = H
      <4>1. \A k \in 1..0 : F[k] = H[k]
        OBVIOUS
      <4>2. DOMAIN F = 1..0 /\ DOMAIN H = 1..0 /\ F = [k \in 1..0 |-> F[k]] /\ H = [k \in 1..0 |-> H[k]]
        OBVIOUS
      <4> HIDE DEF F, H
      <4>3. QED
        BY <4>1, <4>2
    <3>2. Listed(cards, topic, 0, F)
      BY <3>1 DEF Listed
    <3>3. QED
      BY <2>3, <2>4, <3>2
  <2>5. CASE m # 0
    <3>1. m - 1 \in 0..n /\ m - 1 \notin T
      BY <2>2, <2>3, <2>5
    <3>2. PICK G : Listed(cards, topic, m - 1, G)
      BY <3>1
    <3> DEFINE last == Numbered(CardBase(cards, topic, m), {G[j] : j \in 1..(m - 1)})
               F == [k \in 1..m |-> IF k = m THEN last ELSE G[k]]
               H == [k \in 1..m |-> Numbered(CardBase(cards, topic, k), {F[j] : j \in 1..(k - 1)})]
    <3>3. ASSUME NEW k \in 1..m PROVE F[k] = H[k]
      <4>1. {F[j] : j \in 1..(k - 1)} = {G[j] : j \in 1..(k - 1)}
        <5>1. \A j \in 1..(k - 1) : F[j] = G[j]
          BY <2>3
        <5> HIDE DEF F
        <5>2. QED
          BY <5>1
      <4>2. H[k] = Numbered(CardBase(cards, topic, k), {G[j] : j \in 1..(k - 1)})
        <5> HIDE DEF F
        <5>1. QED
          BY <4>1
      <4>3. CASE k = m
        BY <4>2, <4>3
      <4>4. CASE k # m
        <5>1. k \in 1..(m - 1)
          BY <2>3, <4>4
        <5>2. G[k] = Numbered(CardBase(cards, topic, k), {G[j] : j \in 1..(k - 1)})
          BY <3>2, <5>1 DEF Listed
        <5>3. F[k] = G[k]
          BY <4>4
        <5>4. QED
          BY <4>2, <5>2, <5>3
      <4>5. QED
        BY <4>3, <4>4
    <3>4. F = H
      <4>1. DOMAIN F = 1..m /\ DOMAIN H = 1..m /\ F = [k \in 1..m |-> F[k]]
            /\ H = [k \in 1..m |-> H[k]]
        OBVIOUS
      <4> HIDE DEF F, H
      <4>2. QED
        BY <3>3, <4>1
    <3>5. Listed(cards, topic, m, F)
      BY <3>4 DEF Listed
    <3>6. QED
      BY <2>3, <3>5
  <2>6. QED
    BY <2>4, <2>5
<1>3. QED
  BY <1>1, <1>2

\* Every card of a generation has a name of its own.
LEMMA NamesIs ==
    ASSUME NEW cards \in Seq(CardAnswer), NEW topic \in Topics
    PROVE  /\ DOMAIN Names(cards, topic) = 1..Len(cards)
           /\ \A k \in 1..Len(cards) : Names(cards, topic)[k] \in Name
           /\ \A j, k \in 1..Len(cards) :
                 Names(cards, topic)[j] = Names(cards, topic)[k] => j = k
<1> DEFINE n == Len(cards)
           F == CHOOSE G : Listed(cards, topic, n, G)
<1>1. n \in Nat /\ DOMAIN cards = 1..n
  OBVIOUS
<1>2. Listed(cards, topic, n, F)
  BY <1>1, ListExists
<1>3. Names(cards, topic) = F
  BY <1>1 DEF Names, Listed
<1> HIDE DEF F
<1>4. ASSUME NEW k \in 1..n
      PROVE  F[k] \in Name /\ \A j \in 1..(k - 1) : F[j] # F[k]
  <2>1. CardBase(cards, topic, k) \in Name
    <3>1. cards[k].concept \in DOMAIN Slug /\ topic \in DOMAIN Slug
      <4>1. cards[k] \in CardAnswer /\ Topics \subseteq DOMAIN Slug
        BY <1>1, RecallAssumption
      <4>2. QED
        BY <4>1 DEF CardAnswer
    <3>2. QED
      BY <3>1, SlugIs, AppendIs, NumbersAreParts DEF CardBase
  <2>2. IsFiniteSet({F[j] : j \in 1..(k - 1)})
    <3>1. IsFiniteSet(1..(k - 1))
      BY <1>1, FS_Interval
    <3> DEFINE U == {F[j] : j \in 1..(k - 1)}
               f == [j \in 1..(k - 1) |-> F[j]]
    <3>2. f \in Surjection(1..(k - 1), U)
      BY DEF Surjection
    <3> HIDE DEF f, U
    <3>3. IsFiniteSet(U)
      BY <3>1, <3>2, FS_Surjection
    <3>4. QED
      BY <3>3 DEF U
  <2>3. F[k] = Numbered(CardBase(cards, topic, k), {F[j] : j \in 1..(k - 1)})
    BY <1>2 DEF Listed
  <2>4. F[k] \in Name /\ F[k] \notin {F[j] : j \in 1..(k - 1)}
    BY <2>1, <2>2, <2>3, NumberedIs
  <2>5. QED
    BY <2>4
<1>5. DOMAIN F = 1..n
  BY <1>2 DEF Listed
<1>6. ASSUME NEW j \in 1..n, NEW k \in 1..n, F[j] = F[k] PROVE j = k
  BY <1>1, <1>4, <1>6
<1>7. QED
  BY <1>3, <1>4, <1>5, <1>6

-----------------------------------------------------------------------------
(* The records of processes *)

\* All but whether a rebuild is disturbed.
Alike(r, q) ==
    /\ q.step = r.step /\ q.n = r.n /\ q.topic = r.topic /\ q.todo = r.todo
    /\ q.cards = r.cards /\ q.quiz = r.quiz /\ q.at = r.at /\ q.score = r.score
    /\ q.read = r.read

LEMMA IdleIs ==
    /\ Idle \in Process /\ Phased(Idle) /\ Idle.step = "idle" /\ ~Busy(Idle)
    /\ Idle.at = 1 /\ Idle.read = {}
BY NothingIs, RecallAssumption DEF Idle, Process, Phased, Busy, Generating, Writing, Session

LEMMA StepTo ==
    ASSUME NEW r \in Process, NEW s \in {"idle", "export"} \cup Generating \cup Session
    PROVE  LET q == [r EXCEPT !.step = s]
           IN  q \in Process /\ q.step = s /\ Alike(r, [q EXCEPT !.step = r.step])
BY DEF Process, Alike

LEMMA BecomeIs ==
    ASSUME Typed, NEW p \in Procs, NEW r \in Process, Phased(r), Become(p, r)
    PROVE  /\ proc' \in [Procs -> Process] /\ \A q \in Procs : Phased(proc'[q])
           /\ proc'[p] = r /\ \A q \in Procs : q # p => proc'[q] = proc[q]
<1>1. proc \in [Procs -> Process] /\ \A q \in Procs : Phased(proc[q])
  BY DEF Typed
<1>2. proc' = [proc EXCEPT ![p] = r]
  BY DEF Become
<1>3. proc'[p] = r /\ \A q \in Procs : q # p => proc'[q] = proc[q]
  BY <1>1, <1>2
<1>4. proc' \in [Procs -> Process]
  BY <1>1, <1>2
<1>5. QED
  BY <1>1, <1>3, <1>4

LEMMA DisturbedIs ==
    ASSUME Typed
    PROVE  /\ Disturbed \in [Procs -> Process]
           /\ \A q \in Procs : /\ Alike(proc[q], Disturbed[q]) /\ Phased(Disturbed[q])
                               /\ Rebuilding(q) => ~Disturbed[q].alone
<1>1. ASSUME NEW q \in Procs
      PROVE  /\ Disturbed[q] \in Process
             /\ Alike(proc[q], Disturbed[q]) /\ Phased(Disturbed[q])
             /\ Rebuilding(q) => ~Disturbed[q].alone
  <2>1. proc[q] \in Process /\ Phased(proc[q])
    BY DEF Typed
  <2>2. Disturbed[q] = IF Rebuilding(q) THEN [proc[q] EXCEPT !.alone = FALSE] ELSE proc[q]
    BY DEF Disturbed
  <2>3. Disturbed[q] \in Process /\ Alike(proc[q], Disturbed[q])
        /\ (Rebuilding(q) => ~Disturbed[q].alone)
    <3>1. CASE Rebuilding(q)
      <4>1. Disturbed[q] = [proc[q] EXCEPT !.alone = FALSE]
        BY <2>2, <3>1
      <4>2. Disturbed[q] \in Process
        BY <2>1, <4>1 DEF Process
      <4>3. Alike(proc[q], Disturbed[q]) /\ ~Disturbed[q].alone
        BY <2>1, <4>1 DEF Process, Alike
      <4>4. QED
        BY <4>2, <4>3
    <3>2. CASE ~Rebuilding(q)
      BY <2>1, <2>2, <3>2 DEF Alike
    <3>3. QED
      BY <3>1, <3>2
  <2>4. QED
    BY <2>1, <2>3 DEF Alike, Phased
<1>2. DOMAIN Disturbed = Procs /\ Disturbed = [q \in Procs |-> Disturbed[q]]
  BY DEF Disturbed
<1>3. Disturbed \in [Procs -> Process]
  BY <1>1, <1>2
<1>4. QED
  BY <1>1, <1>3

-----------------------------------------------------------------------------
(* What the steps that change nothing else leave *)

\* A process that is busy was busy before, with the same number.
GoesOn(q) == Busy(proc'[q]) => Busy(proc[q]) /\ proc'[q].n = proc[q].n

LEMMA AlikeGoesOn ==
    ASSUME NEW q, Alike(proc[q], proc'[q])
    PROVE  GoesOn(q)
BY DEF Alike, GoesOn, Busy

LEMMA DistinctStays ==
    ASSUME Distinct, commands \in Nat, commands' \in Nat, commands <= commands',
           \A q \in Procs : GoesOn(q)
    PROVE  Distinct'
BY DEF Distinct, GoesOn

LEMMA DistinctNew ==
    ASSUME Distinct, commands \in Nat, commands' = commands + 1, NEW p \in Procs,
           proc'[p].n = commands + 1, \A q \in Procs : q # p => GoesOn(q)
    PROVE  Distinct'
<1>1. \A q \in Procs : Busy(proc'[q]) => proc'[q].n \in 1..(commands + 1)
  BY DEF Distinct, GoesOn
<1>2. \A q \in Procs : q # p /\ Busy(proc'[q]) => proc'[q].n \in 1..commands
  BY DEF Distinct, GoesOn
<1>3. ASSUME NEW q \in Procs, NEW s \in Procs, Busy(proc'[q]), Busy(proc'[s]),
             proc'[q].n = proc'[s].n
      PROVE  q = s
  BY <1>2, <1>3 DEF Distinct, GoesOn
<1>4. QED
  BY <1>1, <1>3 DEF Distinct

LEMMA SeenStays ==
    ASSUME Seen, UNCHANGED <<files, tmps, shown>>, \A c \in deck' : CardSeen(c),
           \A q \in Procs : Alike(proc[q], proc'[q]) \/ Holds(proc[q])'
    PROVE  Seen'
<1>1. ASSUME NEW q \in Procs PROVE Holds(proc[q])'
  <2>1. CASE Alike(proc[q], proc'[q])
    <3>1. Holds(proc[q])
      BY DEF Seen
    <3>2. QED
      BY <2>1, <3>1 DEF Holds, Alike, CardSeen
  <2>2. QED
    BY <2>1
<1>2. QED
  BY <1>1 DEF Seen, FileSeen, CardSeen, QuizSeen

LEMMA StoredStays ==
    ASSUME Stored, UNCHANGED <<tmps, ever, writers>>, \A g \in generated' : Reported(g),
           \A q \in Procs : Alike(proc[q], proc'[q]) \/ Keeps(proc[q])'
    PROVE  Stored'
<1>1. ASSUME NEW q \in Procs PROVE Keeps(proc[q])'
  <2>1. CASE Alike(proc[q], proc'[q])
    <3>1. Keeps(proc[q])
      BY DEF Stored
    <3>2. CardName(proc'[q]) = CardName(proc[q]) /\ Card(proc'[q]) = Card(proc[q])
          /\ Passed(proc'[q]) = Passed(proc[q])
      BY <2>1 DEF Alike, CardName, Card, Passed
    <3>3. QED
      BY <2>1, <3>1, <3>2 DEF Keeps, Alike, Kept, Alone
  <2>2. QED
    BY <2>1
<1>2. QED
  BY <1>1, SMTT(30) DEF Stored, Reported, Kept, Alone

\* Of results, traces and sessions that ended nothing is lost or gained.
LEMMA RecordedStays ==
    ASSUME Recorded, UNCHANGED <<results, told, ended>>, commands \in Nat, commands' \in Nat,
           commands <= commands',
           \A s \in ended : s.n <= commands,
           \A q \in Procs : GoesOn(q) \/ proc'[q].n = commands + 1,
           \A q \in Procs : proc'[q].step \in Session => Alike(proc[q], proc'[q]) \/ Sits(proc[q])',
           \A i \in 1..Len(results) : results[i].n \in Nat,
           \A h \in told : h.n \in Nat, \A s \in ended : s.n \in Nat
    PROVE  Recorded'
<1>1. ASSUME NEW q \in Procs, proc'[q].step \in Session PROVE Sits(proc[q])'
  <2>1. CASE Alike(proc[q], proc'[q])
    <3>1. Sits(proc[q])
      BY <1>1, <2>1 DEF Recorded, Alike
    <3>2. Own(proc[q])' = Own(proc[q])
      BY <2>1 DEF Alike, Own, Question
    <3>3. RowsOf(proc[q].n)' = RowsOf(proc[q].n) /\ TracesOf(proc[q].n)' = TracesOf(proc[q].n)
      BY <2>1 DEF Alike, RowsOf, TracesOf
    <3>4. Told(proc[q].n, proc[q].quiz, proc[q].topic, proc[q].at - 1)'
      BY <2>1, <3>1, <3>3 DEF Alike, Sits, Told
    <3>5. ASSUME NEW i \in 1..Len(results), InPlay(proc[q], i) PROVE InPlay(proc[q], i)'
      BY <2>1, <3>2, <3>3, <3>5 DEF InPlay, Alike, Counted
    <3>6. QED
      BY <2>1, <3>1, <3>3, <3>4, <3>5 DEF Sits, Alike
  <2>2. QED
    BY <1>1, <2>1
<1>2. \A n : RowsOf(n)' = RowsOf(n) /\ TracesOf(n)' = TracesOf(n)
  BY DEF RowsOf, TracesOf
<1>3. ASSUME NEW s \in ended
      PROVE  /\ s.n <= commands' /\ \A q \in Procs : Busy(proc'[q]) => proc'[q].n # s.n
             /\ Told(s.n, s.items, s.topic, Len(s.items))'
             /\ Cardinality(RowsOf(s.n)') = Len(s.items)
  <2>1. Told(s.n, s.items, s.topic, Len(s.items)) /\ Cardinality(RowsOf(s.n)) = Len(s.items)
        /\ \A q \in Procs : Busy(proc[q]) => proc[q].n # s.n
    BY DEF Recorded
  <2>2. Told(s.n, s.items, s.topic, Len(s.items))'
    BY <1>2, <2>1 DEF Told
  <2>3. QED
    BY <1>2, <2>1, <2>2 DEF GoesOn
<1>4. \A h \in told : Counted(h.score, h.row, results[h.row].concept)'
  BY DEF Recorded, Counted
<1>5. QED
  BY <1>1, <1>3, <1>4 DEF Recorded

\* A step that neither rebuilds nor begins to.
LEMMA IndexingStays ==
    ASSUME Indexing, UNCHANGED <<wiki, index>>, commands \in Nat, commands' \in Nat,
           commands <= commands', index \in [Pages -> Nat], Distinct, NEW p \in Procs, proc'[p].step \notin {"insert", "search"},
           \A q \in Procs : q # p => proc'[q] = proc[q]
    PROVE  Indexing'
<1>1. \A q \in Procs : Rebuilding(q)' => q # p /\ Rebuilding(q)
  BY DEF Rebuilding
<1>2. ASSUME NEW g \in Pages PROVE index'[g] + Cardinality(Pending(g)') <= commands'
  <2>1. Pending(g)' \subseteq Pending(g)
    <3>1. ASSUME NEW n \in Pending(g)' PROVE n \in Pending(g)
      <4>1. PICK q \in Procs : At(q, "insert")' /\ proc'[q].n = n /\ g \in proc'[q].todo
        BY DEF Pending
      <4>2. q # p
        BY <4>1 DEF At
      <4>3. At(q, "insert") /\ proc[q].n = n /\ g \in proc[q].todo
        BY <4>1, <4>2 DEF At
      <4>4. n \in 1..commands
        BY <4>3 DEF Distinct, Busy, At, Generating
      <4>5. QED
        BY <4>3, <4>4 DEF Pending
    <3>2. QED
      BY <3>1
  <2>2. IsFiniteSet(Pending(g)) /\ Cardinality(Pending(g)) \in Nat
    BY PendingIs
  <2>3. Cardinality(Pending(g)') \in Nat /\ Cardinality(Pending(g)') <= Cardinality(Pending(g))
    BY <2>1, <2>2, FS_Subset, FS_CardinalityType
  <2>4. index'[g] = index[g] /\ index[g] + Cardinality(Pending(g)) <= commands
    BY DEF Indexing
  <2>5. index[g] \in Nat
    OBVIOUS
  <2>6. QED
    BY <2>2, <2>3, <2>4, <2>5
<1>3. ASSUME NEW q \in Procs, Rebuilding(q)', proc'[q].alone
      PROVE  /\ \A s \in Procs : Rebuilding(s)' => s = q
             /\ proc'[q].todo \subseteq wiki'
             /\ \A g \in Pages : index'[g] = IF g \in wiki' \ proc'[q].todo THEN 1 ELSE 0
  <2>1. q # p /\ Rebuilding(q) /\ proc'[q] = proc[q]
    BY <1>1, <1>3
  <2>2. QED
    BY <1>1, <1>3, <2>1 DEF Indexing
<1>4. QED
  BY <1>2, <1>3 DEF Indexing

LEMMA RecordsAre ==
    ASSUME Typed
    PROVE  /\ Len(results) \in Nat /\ DOMAIN results = 1..Len(results)
           /\ \A i \in 1..Len(results) :
                 /\ results[i] \in Result /\ results[i].n \in Nat
                 /\ results[i].concept \in Concepts
           /\ \A h \in told : /\ h \in Trace /\ h.n \in Nat /\ h.q \in Nat /\ h.row \in Nat
                              /\ h.row \in 1..Len(results)
           /\ \A s \in ended : s.n \in Nat /\ s.items \in Seq(Asked) /\ Len(s.items) \in Nat
<1>1. results \in Seq(Result) /\ told \subseteq Trace
      /\ ended \subseteq [n : 1..MaxCommands, topic : Topics, items : Seq(Asked)]
      /\ \A h \in told : h.row \in DOMAIN results
  BY DEF Typed
<1>2. Len(results) \in Nat /\ DOMAIN results = 1..Len(results)
      /\ \A i \in 1..Len(results) : results[i] \in Result
  <2> HIDE DEF Result
  <2>1. QED
    BY <1>1
<1>3. ASSUME NEW i \in 1..Len(results)
      PROVE  results[i].n \in Nat /\ results[i].concept \in Concepts
  BY <1>2 DEF Result
<1>4. \A h \in told : h.n \in Nat /\ h.q \in Nat /\ h.row \in Nat
  BY <1>1 DEF Trace
<1>5. \A s \in ended : s.n \in Nat /\ s.items \in Seq(Asked) /\ Len(s.items) \in Nat
  BY <1>1
<1>6. QED
  BY <1>1, <1>2, <1>3, <1>4, <1>5

\* Process p goes on with the record r, of its command or of a new one.
Moves(p, r) ==
    /\ Become(p, r) /\ r \in Process /\ Phased(r)
    /\ \/ commands' = commands /\ (Busy(r) => Busy(proc[p]) /\ r.n = proc[p].n)
       \/ commands' = commands + 1 /\ commands < MaxCommands /\ (Busy(r) => r.n = commands + 1)

LEMMA MovesIs ==
    ASSUME Inv, NEW p \in Procs, NEW r, Moves(p, r)
    PROVE  /\ proc' \in [Procs -> Process] /\ \A q \in Procs : Phased(proc'[q])
           /\ proc'[p] = r /\ \A q \in Procs : q # p => proc'[q] = proc[q]
           /\ \A q \in Procs : q # p => Alike(proc[q], proc'[q]) /\ GoesOn(q)
           /\ commands \in Nat /\ commands' \in Nat /\ commands <= commands'
           /\ commands' \in 0..MaxCommands /\ DOMAIN shown \subseteq 1..commands'
           /\ \A q \in Procs : GoesOn(q) \/ proc'[q].n = commands + 1
           /\ Distinct'
<1>1. /\ proc' \in [Procs -> Process] /\ \A q \in Procs : Phased(proc'[q])
      /\ proc'[p] = r /\ \A q \in Procs : q # p => proc'[q] = proc[q]
  BY BecomeIs DEF Inv, Moves
<1>2. /\ commands \in Nat /\ commands' \in Nat /\ commands <= commands'
      /\ commands' \in 0..MaxCommands
  BY RecallAssumption DEF Inv, Typed, Moves
<1>3. DOMAIN shown \subseteq 1..commands'
  BY <1>2 DEF Inv, Typed
<1>4. \A q \in Procs : q # p => Alike(proc[q], proc'[q]) /\ GoesOn(q)
  BY <1>1 DEF GoesOn, Alike
<1>5. CASE commands' = commands + 1 /\ r.n = commands + 1
  <2>1. Distinct'
    BY <1>1, <1>2, <1>4, <1>5, DistinctNew DEF Inv
  <2>2. QED
    BY <1>1, <1>2, <1>3, <1>4, <1>5, <2>1
<1>6. CASE ~(commands' = commands + 1 /\ r.n = commands + 1)
  <2>1. GoesOn(p)
    BY <1>1, <1>6 DEF GoesOn, Moves
  <2>2. \A q \in Procs : GoesOn(q)
    BY <1>4, <2>1
  <2>3. Distinct'
    BY <1>2, <2>2, DistinctStays DEF Inv
  <2>4. QED
    BY <1>1, <1>2, <1>3, <1>4, <2>2, <2>3
<1>7. QED
  BY <1>5, <1>6

LEMMA IndexingMoves ==
    ASSUME Inv, NEW p \in Procs, NEW r, Moves(p, r), r.step \notin {"insert", "search"},
           UNCHANGED <<wiki, index>>
    PROVE  Indexing'
BY MovesIs, IndexingStays DEF Inv, Typed

LEMMA SeenMoves ==
    ASSUME Inv, NEW p \in Procs, NEW r, Moves(p, r), Holds(r),
           UNCHANGED <<files, tmps, shown>>, \A c \in deck' : CardSeen(c)
    PROVE  Seen'
<1>1. Holds(proc[p])'
  BY MovesIs DEF Holds, CardSeen
<1>2. \A q \in Procs : Alike(proc[q], proc'[q]) \/ Holds(proc[q])'
  BY <1>1, MovesIs
<1>3. QED
  BY <1>2, SeenStays DEF Inv

LEMMA StoredMoves ==
    ASSUME Inv, NEW p \in Procs, NEW r, Moves(p, r), Keeps(r),
           UNCHANGED <<tmps, ever, writers>>, \A g \in generated' : Reported(g)
    PROVE  Stored'
<1>1. Keeps(proc[p])'
  BY MovesIs DEF Keeps, Kept, Alone
<1>2. \A q \in Procs : Alike(proc[q], proc'[q]) \/ Keeps(proc[q])'
  BY <1>1, MovesIs
<1>3. QED
  BY <1>2, StoredStays DEF Inv

LEMMA RecordedMoves ==
    ASSUME Inv, NEW p \in Procs, NEW r, Moves(p, r), r.step \in Session => Sits(r),
           UNCHANGED <<results, told, ended>>
    PROVE  Recorded'
<1>1. r.step \in Session => Sits(proc[p])'
  <2>1. proc'[p] = r
    BY MovesIs
  <2>2. QED
    BY <2>1 DEF Sits, Told, InPlay, Counted, RowsOf, TracesOf
<1>2. /\ \A s \in ended : s.n <= commands
      /\ \A s \in ended : s.n \in Nat
      /\ \A i \in 1..Len(results) : results[i].n \in Nat
      /\ \A h \in told : h.n \in Nat
  BY RecordsAre DEF Inv, Recorded
<1>3. \A q \in Procs : proc'[q].step \in Session => Alike(proc[q], proc'[q]) \/ Sits(proc[q])'
  BY <1>1, MovesIs
<1>4. Recorded /\ UNCHANGED <<results, told, ended>>
  BY DEF Inv
<1>5. commands \in Nat /\ commands' \in Nat /\ commands <= commands'
      /\ \A q \in Procs : GoesOn(q) \/ proc'[q].n = commands + 1
  BY MovesIs
<1>6. QED
  BY <1>2, <1>3, <1>4, <1>5, RecordedStays

\* A step of one process that changes nothing but its record, and perhaps gives it a command.
LEMMA Proceeds ==
    ASSUME Inv, NEW p \in Procs, NEW r \in Process, Phased(r), Become(p, r),
           r.step \notin {"insert", "search"},
           UNCHANGED <<wiki, index, files, tmps, ever, writers, deck, results, told, ended, generated, shown>>,
           \/ commands' = commands /\ (Busy(r) => Busy(proc[p]) /\ r.n = proc[p].n)
           \/ commands' = commands + 1 /\ commands < MaxCommands /\ (Busy(r) => r.n = commands + 1),
           Holds(r), Keeps(r), r.step \in Session => Sits(r)
    PROVE  Inv'
<1>1. Moves(p, r)
  BY DEF Moves
<1>2. /\ \A c \in deck' : CardSeen(c)
      /\ \A g \in generated' : Reported(g)
  BY DEF Inv, Seen, Stored
<1>3. Distinct' /\ Indexing' /\ Seen' /\ Stored' /\ Recorded'
  BY <1>1, <1>2, MovesIs, IndexingMoves, SeenMoves, StoredMoves, RecordedMoves
<1>4. Typed'
  BY <1>1, MovesIs DEF Inv, Typed
<1>5. QED
  BY <1>3, <1>4 DEF Inv

-----------------------------------------------------------------------------
(* The first state, and the steps of one process that change little *)

LEMMA IdleHolds == /\ Holds(Idle) /\ Keeps(Idle)
                   /\ Idle.step \notin Session /\ Idle.step \notin {"insert", "search"}
BY IdleIs DEF Holds, Keeps, Writing, Session

LEMMA InitInv == Init => Inv
<1> SUFFICES ASSUME Init PROVE Inv
  OBVIOUS
<1>1. /\ \A q \in Procs : proc[q] = Idle
      /\ proc \in [Procs -> Process] /\ commands = 0 /\ commands \in Nat
      /\ DOMAIN files = {} /\ DOMAIN tmps = {} /\ DOMAIN shown = {} /\ Len(results) = 0
      /\ results \in Seq(Result)
  BY IdleIs, NothingIs DEF Init
<1>2. Typed
  <2>1. wiki \subseteq Pages /\ index \in [Pages -> Nat] /\ deck = {} /\ told = {} /\ ended = {}
    BY DEF Init
  <2>2. commands \in 0..MaxCommands
    BY <1>1, RecallAssumption
  <2>3. QED
    BY <1>1, <2>1, <2>2, IdleIs DEF Typed
<1>3. Distinct
  BY <1>1, IdleIs DEF Distinct
<1>4. Indexing
  <2>1. \A q \in Procs : ~Rebuilding(q) /\ ~At(q, "insert")
    BY <1>1, IdleIs DEF Rebuilding, At
  <2>2. ASSUME NEW g \in Pages PROVE index[g] + Cardinality(Pending(g)) <= commands
    <3>1. Pending(g) = {}
      BY <2>1 DEF Pending
    <3>2. index[g] = 0 /\ commands = 0
      BY DEF Init
    <3>3. QED
      BY <3>1, <3>2, FS_EmptySet
  <2>3. QED
    BY <2>1, <2>2 DEF Indexing
<1>5. Seen
  BY <1>1, IdleHolds DEF Seen, Init
<1>6. Stored
  BY <1>1, IdleHolds DEF Stored, Init
<1>7. Recorded
  BY <1>1, IdleHolds DEF Recorded, Init
<1>8. QED
  BY <1>2, <1>3, <1>4, <1>5, <1>6, <1>7 DEF Inv

\* A command that ends, well or not, before it changes anything.
LEMMA GoesIdle ==
    ASSUME Inv, NEW p \in Procs, Become(p, Idle),
           UNCHANGED <<wiki, index, files, tmps, ever, writers, deck, results, told, ended, generated, shown, commands>>
    PROVE  Inv'
BY IdleIs, IdleHolds, Proceeds

LEMMA StopsInv ==
    ASSUME Inv, NEW p \in Procs, Stops(p)
    PROVE  Inv'
BY GoesIdle DEF Stops, store, session


\* What the model answers cites, when parsed, only pages that were shown.
LEMMA FirstKnownIs ==
    ASSUME NEW cites \in Seq(Pages \cup {Phantom}), NEW pages \in SUBSET Pages
    PROVE  FirstKnown(cites, pages) \in Pages \cup {None}
<1> DEFINE known == {i \in 1..Len(cites) : cites[i] \in pages}
<1>1. DOMAIN cites = 1..Len(cites) /\ Len(cites) \in Nat
  OBVIOUS
<1>2. CASE known = {}
  <2>1. Known(cites, pages) = {}
    BY <1>1, <1>2 DEF Known, ToSet
  <2>2. QED
    BY <2>1 DEF FirstKnown
<1>3. CASE known # {}
  <2>1. \E i \in known : \A j \in known : i <= j
    <3>1. known \subseteq Nat
      BY <1>1
    <3> HIDE DEF known
    <3>2. QED
      BY <1>3, <3>1, LeastNat
  <2>2. \E i \in DOMAIN cites : cites[i] \in pages /\ \A j \in 1..(i - 1) : cites[j] \notin pages
    BY <1>1, <2>1
  <2>3. Known(cites, pages) # {}
    BY <2>2 DEF Known, ToSet
  <2>4. FirstKnown(cites, pages) \in pages
    BY <2>2, <2>3 DEF FirstKnown
  <2>5. QED
    BY <2>4
<1>4. QED
  BY <1>2, <1>3

LEMMA ParsedIs ==
    ASSUME NEW r \in Responses, NEW pages \in SUBSET Pages
    PROVE  LET parsed == Parsed(r, pages)
           IN  /\ parsed.cards \in Seq(CardAnswer) /\ parsed.quiz \in Seq(Asked)
               /\ Len(parsed.cards) = Len(r.cards)
               /\ r.cards # <<>> => Len(r.cards) \in Nat \ {0}
               /\ \A k \in 1..Len(parsed.cards) : parsed.cards[k].cites \subseteq pages
               /\ \A k \in 1..Len(parsed.quiz) : parsed.quiz[k].cites \subseteq pages
<1> DEFINE parsed == Parsed(r, pages)
<1>1. /\ r.cards \in Seq(ToSet(r.cards)) /\ r.quiz \in Seq(ToSet(r.quiz))
      /\ \A q \in ToSet(r.cards) : q.concept \in DOMAIN Slug
      /\ \A q \in ToSet(r.quiz) : q.cites \in Seq(Pages \cup {Phantom})
  BY RecallAssumption
<1>2. /\ Len(r.cards) \in Nat /\ DOMAIN r.cards = 1..Len(r.cards)
      /\ Len(r.quiz) \in Nat /\ DOMAIN r.quiz = 1..Len(r.quiz)
      /\ \A k \in 1..Len(r.cards) : r.cards[k] \in ToSet(r.cards)
      /\ \A k \in 1..Len(r.quiz) : r.quiz[k] \in ToSet(r.quiz)
  BY <1>1, LenProperties DEF ToSet
<1>3. parsed.cards \in [1..Len(r.cards) -> CardAnswer]
  <2>1. \A k \in 1..Len(r.cards) :
           [concept |-> r.cards[k].concept, cites |-> Known(r.cards[k].cites, pages)] \in CardAnswer
    BY <1>1, <1>2 DEF CardAnswer, Known
  <2>2. QED
    BY <1>2, <2>1 DEF Parsed
<1>4. parsed.quiz \in [1..Len(r.quiz) -> Asked]
  <2>1. \A k \in 1..Len(r.quiz) :
           [cites |-> Known(r.quiz[k].cites, pages), first |-> FirstKnown(r.quiz[k].cites, pages)] \in Asked
    BY <1>1, <1>2, FirstKnownIs DEF Asked, Known
  <2>2. QED
    BY <1>2, <2>1 DEF Parsed
<1>5. \A k \in 1..Len(r.cards) : parsed.cards[k].cites \subseteq pages
  BY <1>2 DEF Parsed, Known
<1>6. \A k \in 1..Len(r.quiz) : parsed.quiz[k].cites \subseteq pages
  BY <1>2 DEF Parsed, Known
<1>7. r.cards # <<>> => Len(r.cards) \in Nat \ {0}
  BY <1>1, EmptySeq
<1> HIDE DEF parsed
<1>8. parsed.cards \in Seq(CardAnswer) /\ parsed.quiz \in Seq(Asked)
      /\ Len(parsed.cards) = Len(r.cards) /\ Len(parsed.quiz) = Len(r.quiz)
  BY <1>2, <1>3, <1>4, SMTT(30)
<1>9. QED
  BY <1>5, <1>6, <1>7, <1>8 DEF parsed

LEMMA AskInv ==
    ASSUME Inv, NEW p \in Procs, Ask(p)
    PROVE  Inv'
<1>1. UNCHANGED <<wiki, index, files, tmps, ever, writers, deck, results, told, ended, generated, shown, commands>>
      /\ At(p, "ask")
  BY DEF Ask, store, session, counts
<1>2. CASE Become(p, Idle)
  BY <1>1, <1>2, GoesIdle
<1>3. ASSUME NEW r \in Responses, r.cards # <<>>,
             Become(p, [proc[p] EXCEPT !.step = "card", !.cards = Parsed(r, shown[proc[p].n]).cards,
                                       !.quiz = Parsed(r, shown[proc[p].n]).quiz])
      PROVE  Inv'
  <2> DEFINE parsed == Parsed(r, shown[proc[p].n])
             w == [proc[p] EXCEPT !.step = "card", !.cards = parsed.cards, !.quiz = parsed.quiz]
  <2>1. proc[p] \in Process /\ Phased(proc[p]) /\ Holds(proc[p])
    BY DEF Inv, Typed, Seen
  <2>2. proc[p].n \in DOMAIN shown /\ shown[proc[p].n] \subseteq Pages /\ proc[p].at = 1
        /\ proc[p].topic \in Topics /\ proc[p].step = "ask"
    BY <1>1, <2>1 DEF Inv, Typed, At, Holds, Phased, Generating
  <2>3. /\ parsed.cards \in Seq(CardAnswer) /\ parsed.quiz \in Seq(Asked)
        /\ Len(parsed.cards) \in Nat \ {0}
        /\ \A k \in 1..Len(parsed.cards) : parsed.cards[k].cites \subseteq shown[proc[p].n]
        /\ \A k \in 1..Len(parsed.quiz) : parsed.quiz[k].cites \subseteq shown[proc[p].n]
    BY <1>3, <2>2, ParsedIs
  <2> HIDE DEF parsed
  <2>4. w \in Process
    BY <2>1, <2>3 DEF Process, Generating, Writing
  <2>5. /\ w.step = "card" /\ w.n = proc[p].n /\ w.at = 1 /\ w.topic = proc[p].topic
        /\ w.cards = parsed.cards /\ w.quiz = parsed.quiz
    BY <2>1, <2>2 DEF Process
  <2> HIDE DEF w
  <2>6. Phased(w) /\ w.step \notin Session /\ w.step \notin {"insert", "search"}
    BY <2>2, <2>3, <2>5 DEF Phased, Session
  <2>7. Holds(w)
    BY <2>2, <2>3, <2>5 DEF Holds
  <2>8. Keeps(w)
    BY <2>5 DEF Keeps, Passed
  <2>9. Busy(proc[p])
    BY <2>2 DEF Busy, Generating
  <2>10. Become(p, w)
    BY <1>3 DEF w, parsed
  <2>11. QED
    BY <1>1, <2>4, <2>5, <2>6, <2>7, <2>8, <2>9, <2>10, Proceeds
<1>4. QED
  BY <1>2, <1>3 DEF Ask

-----------------------------------------------------------------------------
(* Sessions: what neither records nor reports; and the export *)

LEMMA TallyIs ==
    ASSUME NEW rows, Len(rows) \in Nat, DOMAIN rows = 1..Len(rows), NEW concept
    PROVE  /\ Tally(rows, concept) \in Nat \X Nat
           /\ Tally(rows, concept)[1] <= Tally(rows, concept)[2]
<1> DEFINE of == {i \in DOMAIN rows : rows[i].concept = concept}
           right == {i \in of : rows[i].correct}
<1>1. IsFiniteSet(DOMAIN rows)
  BY FS_Interval
<1>2. IsFiniteSet(of)
  <2>1. of \in SUBSET DOMAIN rows
    OBVIOUS
  <2> HIDE DEF of
  <2>2. QED
    BY <1>1, <2>1, FS_Subset
<1>3. Cardinality(right) \in Nat /\ Cardinality(of) \in Nat /\ Cardinality(right) <= Cardinality(of)
  <2>1. right \in SUBSET of
    OBVIOUS
  <2> HIDE DEF right, of
  <2>2. QED
    BY <1>2, <2>1, FS_Subset, FS_CardinalityType
<1>4. Tally(rows, concept) = <<Cardinality(right), Cardinality(of)>>
  BY DEF Tally
<1>5. QED
  BY <1>3, <1>4

LEMMA OpenQuizInv ==
    ASSUME Inv, NEW p \in Procs, NEW topic \in Topics, NEW given \in Given,
           OpenQuiz(p, topic, given)
    PROVE  Inv'
<1> DEFINE f == QuizName(topic)
           w == [Idle EXCEPT !.step = "answer", !.n = commands + 1, !.given = given,
                             !.topic = files[f].topic, !.quiz = files[f].items]
<1>1. /\ UNCHANGED <<wiki, index, files, tmps, ever, writers, deck, results, told, ended, generated, shown>>
      /\ Usable(f) /\ Become(p, w) /\ commands < MaxCommands /\ commands' = commands + 1
  BY DEF OpenQuiz, store, session, Starts
<1>2. files[f] \in QuizFile /\ f \in DOMAIN files
  <2>1. f[1] = "quiz"
    BY DEF QuizName
  <2>2. QED
    BY <1>1, <2>1 DEF Inv, Typed, File, Usable
<1>3. files[f].items \in Seq(Asked) /\ files[f].topic \in Topics /\ files[f].items # <<>>
  BY <1>1, <1>2 DEF QuizFile, Usable
<1>4. Len(files[f].items) \in Nat \ {0}
  BY <1>3, EmptySeq
<1>5. commands \in Nat /\ commands + 1 \in 0..MaxCommands
  BY <1>1, RecallAssumption DEF Inv, Typed
<1> HIDE DEF f
<1>6. /\ w.step = "answer" /\ w.n = commands + 1 /\ w.at = 1 /\ w.topic = files[f].topic
      /\ w.quiz = files[f].items
  BY DEF Idle
<1>7. w \in Process
  BY <1>3, <1>5, IdleIs DEF Process, Session
<1> HIDE DEF w
<1>8. Phased(w) /\ w.step \notin {"insert", "search"}
  BY <1>3, <1>4, <1>6 DEF Phased
<1>9. Holds(w) /\ Keeps(w)
  BY <1>6 DEF Holds, Keeps, Writing
<1>10. Sits(w)
  <2>1. TracesOf(w.n) = {}
    <3>1. \A h \in told : h.n <= commands /\ h.n \in Nat
      BY RecordsAre DEF Inv, Recorded
    <3>2. QED
      BY <1>5, <1>6, <3>1 DEF TracesOf
  <2>2. RowsOf(w.n) = {}
    <3>1. \A i \in 1..Len(results) : results[i].n <= commands /\ results[i].n \in Nat
      BY RecordsAre DEF Inv, Recorded
    <3>2. QED
      BY <1>5, <1>6, <3>1 DEF RowsOf
  <2>3. Told(w.n, w.quiz, w.topic, w.at - 1)
    BY <1>6, <2>1 DEF Told
  <2>4. QED
    BY <1>6, <2>2, <2>3, FS_EmptySet DEF Sits
<1>11. QED
  BY <1>1, <1>6, <1>7, <1>8, <1>9, <1>10, Proceeds

LEMMA AnswerInv ==
    ASSUME Inv, NEW p \in Procs, Answer(p)
    PROVE  Inv'
<1>1. UNCHANGED <<wiki, index, files, tmps, ever, writers, deck, results, told, ended, generated, shown, commands>>
      /\ At(p, "answer")
  BY DEF Answer, store, session, counts
<1>2. CASE Become(p, Idle)
  BY <1>1, <1>2, GoesIdle
<1>3. ASSUME NEW score \in Scores,
             Become(p, [proc[p] EXCEPT !.step = "record", !.verdict = Correct(score)])
      PROVE  Inv'
  <2> DEFINE w == [proc[p] EXCEPT !.step = "record", !.verdict = Correct(score)]
  <2>1. proc[p] \in Process /\ Phased(proc[p]) /\ Sits(proc[p]) /\ proc[p].step = "answer"
    BY <1>1 DEF Inv, Typed, Recorded, At, Session
  <2>2. w \in Process
    BY <2>1, ZenonT(40) DEF Process, Session, Correct
  <2>3. /\ w.step = "record" /\ w.n = proc[p].n /\ w.at = proc[p].at /\ w.topic = proc[p].topic
        /\ w.quiz = proc[p].quiz
    BY <2>1 DEF Process
  <2>4. Become(p, w)
    BY <1>3
  <2> HIDE DEF w
  <2>5. Phased(w) /\ w.step \notin {"insert", "search"}
    BY <2>1, <2>3 DEF Phased, Session
  <2>6. Holds(w) /\ Keeps(w) /\ Sits(w) /\ Busy(proc[p])
    BY <2>1, <2>3 DEF Holds, Keeps, Sits, Writing, Session, Busy
  <2>7. QED
    BY <1>1, <2>2, <2>3, <2>4, <2>5, <2>6, Proceeds
<1>4. QED
  BY <1>2, <1>3 DEF Answer

LEMMA WeighInv ==
    ASSUME Inv, NEW p \in Procs, Weigh(p)
    PROVE  Inv'
<1>1. UNCHANGED <<wiki, index, files, tmps, ever, writers, deck, results, told, ended, generated, shown, commands>>
      /\ At(p, "weigh")
  BY DEF Weigh, store, session
<1>2. PICK score \in {Score(p), Unread} :
          Become(p, [proc[p] EXCEPT !.step = "tell", !.score = score])
  BY DEF Weigh
<1> DEFINE w == [proc[p] EXCEPT !.step = "tell", !.score = score]
<1>3. proc[p] \in Process /\ Phased(proc[p]) /\ Sits(proc[p]) /\ proc[p].step = "weigh"
  BY <1>1 DEF Inv, Typed, Recorded, At, Session
<1>4. Len(results) \in Nat /\ DOMAIN results = 1..Len(results) /\ results \in Seq(Result)
  BY RecordsAre DEF Inv, Typed
<1>5. score \in Nat \X Nat /\ score[1] <= score[2]
  <2>1. Score(p) \in Nat \X Nat /\ Score(p)[1] <= Score(p)[2]
    BY <1>4, TallyIs DEF Score
  <2>2. Unread \in Nat \X Nat /\ Unread[1] <= Unread[2]
    BY DEF Unread
  <2>3. QED
    BY <2>1, <2>2
<1>6. w \in Process
  BY <1>3, <1>5 DEF Process, Session
<1>7. /\ w.step = "tell" /\ w.n = proc[p].n /\ w.at = proc[p].at /\ w.topic = proc[p].topic
      /\ w.quiz = proc[p].quiz /\ w.score = score
  BY <1>3 DEF Process
<1>8. Become(p, w)
  BY <1>2
<1> HIDE DEF w
<1>9. Phased(w) /\ w.step \notin {"insert", "search"}
  BY <1>3, <1>7 DEF Phased, Session
<1>10. Holds(w) /\ Keeps(w) /\ Busy(proc[p])
  BY <1>3, <1>7 DEF Holds, Keeps, Writing, Session, Busy
<1>11. Sits(w)
  <2>1. Own(w) = Own(proc[p])
    BY <1>7 DEF Own, Question
  <2>2. PICK i \in 1..Len(results) : InPlay(proc[p], i)
    BY <1>3 DEF Sits
  <2>3. Counted(w.score, i, Own(w))
    <3>1. SubSeq(results, 1, Len(results)) = results
      BY <1>4, SubSeqFull
    <3>2. Len(results) \in i..Len(results)
      BY <1>4
    <3>3. w.score = Tally(results, Own(w)) \/ w.score = Unread
      BY <1>2, <1>7, <2>1 DEF Score
    <3>4. QED
      BY <3>1, <3>2, <3>3 DEF Counted
  <2>4. InPlay(w, i)
    BY <1>5, <1>7, <2>1, <2>2, <2>3 DEF InPlay
  <2>5. QED
    BY <1>3, <1>7, <2>4 DEF Sits
<1>12. QED
  BY <1>1, <1>6, <1>7, <1>8, <1>9, <1>10, <1>11, Proceeds

LEMMA ExportInv ==
    ASSUME Inv, NEW p \in Procs, NEW topic, Export(p, topic)
    PROVE  Inv'
<1> DEFINE w == [Idle EXCEPT !.step = "export", !.read = Wanted(topic)]
<1>1. /\ UNCHANGED <<wiki, index, files, tmps, ever, writers, deck, results, told, ended, generated, shown>>
      /\ Become(p, w) /\ commands < MaxCommands /\ commands' = commands + 1
  BY DEF Export, store, session, Starts
<1>2. ASSUME NEW c \in Wanted(topic) PROVE c \in CardFile /\ CardSeen(c)
  <2>1. PICK f \in DOMAIN files : f[1] = "card" /\ c = files[f]
    BY DEF Wanted
  <2>2. QED
    BY <2>1 DEF Inv, Typed, Seen, File, FileSeen
<1>3. w.step = "export" /\ w.read = Wanted(topic)
  BY DEF Idle
<1>4. w \in Process
  BY <1>2, IdleIs DEF Process
<1> HIDE DEF w
<1>5. Phased(w) /\ Keeps(w) /\ ~Busy(w) /\ w.step \notin {"insert", "search"} /\ w.step \notin Session
  BY <1>3 DEF Phased, Keeps, Busy, Generating, Writing, Session
<1>6. Holds(w)
  BY <1>2, <1>3 DEF Holds, Writing
<1>7. QED
  BY <1>1, <1>4, <1>5, <1>6, Proceeds

-----------------------------------------------------------------------------
(* The ends of an export and of a generation; the search *)

LEMMA IdleMoves ==
    ASSUME NEW p \in Procs, Become(p, Idle), UNCHANGED commands
    PROVE  Moves(p, Idle)
BY IdleIs DEF Moves

LEMMA WriteDeckInv ==
    ASSUME Inv, NEW p \in Procs, WriteDeck(p)
    PROVE  Inv'
<1>1. /\ UNCHANGED <<wiki, index, files, tmps, ever, writers, results, told, ended, generated, shown, commands>>
      /\ proc[p].step = "export" /\ deck' = proc[p].read /\ Become(p, Idle)
  BY DEF WriteDeck, store, session, counts, At
<1>2. Moves(p, Idle)
  BY <1>1, IdleMoves
<1>3. deck' \subseteq CardFile /\ \A c \in deck' : CardSeen(c)
  <2>1. proc[p] \in Process /\ Holds(proc[p])
    BY DEF Inv, Typed, Seen
  <2>2. QED
    BY <1>1, <2>1 DEF Process, Holds
<1>4. Typed'
  BY <1>1, <1>2, <1>3, MovesIs DEF Inv, Typed
<1>5. \A g \in generated' : Reported(g)
  BY <1>1 DEF Inv, Stored
<1>6. Distinct' /\ Indexing' /\ Seen' /\ Stored' /\ Recorded'
  BY <1>1, <1>2, <1>3, <1>5, IdleHolds, MovesIs, IndexingMoves, SeenMoves, StoredMoves, RecordedMoves
<1>7. QED
  BY <1>4, <1>6 DEF Inv

LEMMA TraceGenerateInv ==
    ASSUME Inv, NEW p \in Procs, TraceGenerate(p)
    PROVE  Inv'
<1> DEFINE names == Names(proc[p].cards, proc[p].topic)
<1>1. /\ UNCHANGED <<wiki, index, files, tmps, ever, writers, deck, results, told, ended, shown, commands>>
      /\ proc[p].step = "trace" /\ Become(p, Idle)
      /\ generated' = generated \cup {[n |-> proc[p].n, names |-> names]}
  BY DEF TraceGenerate, store, session, counts, At
<1>2. Moves(p, Idle)
  BY <1>1, IdleMoves
<1>3. Reported([n |-> proc[p].n, names |-> names])
  <2>1. proc[p].cards \in Seq(CardAnswer) /\ proc[p].topic \in Topics
    BY <1>1 DEF Inv, Typed, Process, Phased, Generating, Writing
  <2>2. DOMAIN names = 1..Len(proc[p].cards)
        /\ \A j, k \in 1..Len(proc[p].cards) : names[j] = names[k] => j = k
    BY <2>1, NamesIs
  <2>3. \A k \in 1..Len(proc[p].cards) : Kept(proc[p].n, <<"card", names[k]>>, k)
    <3>1. Keeps(proc[p])
      BY DEF Inv, Stored
    <3>2. QED
      BY <1>1, <3>1 DEF Keeps, Passed, Writing
  <2> HIDE DEF names
  <2>4. QED
    BY <2>2, <2>3 DEF Reported
<1> HIDE DEF names
<1>4. \A g \in generated' : Reported(g)
  BY <1>1, <1>3 DEF Inv, Stored
<1>5. Typed'
  BY <1>1, <1>2, MovesIs DEF Inv, Typed
<1>6. \A c \in deck' : CardSeen(c)
  BY <1>1 DEF Inv, Seen
<1>7. Distinct' /\ Indexing' /\ Seen' /\ Stored' /\ Recorded'
  BY <1>1, <1>2, <1>4, <1>6, IdleHolds, MovesIs, IndexingMoves, SeenMoves, StoredMoves, RecordedMoves
<1>8. QED
  BY <1>5, <1>7 DEF Inv

LEMMA SearchInv ==
    ASSUME Inv, NEW p \in Procs, Search(p)
    PROVE  Inv'
<1>1. /\ UNCHANGED <<wiki, index, files, tmps, ever, writers, deck, results, told, ended, generated, commands>>
      /\ proc[p].step = "search"
  BY DEF Search, store, session, counts, At
<1>2. CASE Become(p, Idle) /\ UNCHANGED shown
  BY <1>1, <1>2, GoesIdle
<1>3. ASSUME NEW found \in SUBSET Hits(proc[p].topic), shown' = Put(shown, proc[p].n, found),
             Become(p, [proc[p] EXCEPT !.step = "ask", !.todo = {}, !.alone = TRUE])
      PROVE  Inv'
  <2> DEFINE w == [proc[p] EXCEPT !.step = "ask", !.todo = {}, !.alone = TRUE]
  <2>1. /\ proc[p] \in Process /\ Phased(proc[p]) /\ Busy(proc[p]) /\ Rebuilding(p)
        /\ proc[p].n \notin DOMAIN shown /\ proc[p].n \in 1..commands
        /\ proc[p].topic \in Topics
    BY <1>1 DEF Inv, Typed, Seen, Holds, Distinct, Busy, Generating, Rebuilding, Phased
  <2>2. w \in Process
    BY <2>1 DEF Process, Generating
  <2>3. /\ w.step = "ask" /\ w.n = proc[p].n /\ w.topic = proc[p].topic /\ w.at = proc[p].at
        /\ w.cards = proc[p].cards /\ w.quiz = proc[p].quiz
    BY <2>1 DEF Process
  <2>4. Become(p, w)
    BY <1>3
  <2> HIDE DEF w
  <2>5. Phased(w)
    BY <1>1, <2>1, <2>3 DEF Phased, Session
  <2>6. Moves(p, w)
    BY <1>1, <2>1, <2>2, <2>3, <2>4, <2>5 DEF Moves
  <2>7. Keeps(w) /\ w.step \notin Session /\ w.step \notin {"insert", "search"}
    BY <2>3 DEF Keeps, Writing, Session
  <2>8. /\ DOMAIN shown' = DOMAIN shown \cup {proc[p].n} /\ shown'[proc[p].n] = found
        /\ \A n \in DOMAIN shown : shown'[n] = shown[n]
    <3>1. /\ DOMAIN shown' = DOMAIN shown \cup {proc[p].n} /\ shown'[proc[p].n] = found
          /\ \A n \in DOMAIN shown : n # proc[p].n => shown'[n] = shown[n]
      BY <1>3 DEF Put
    <3>2. QED
      BY <2>1, <3>1
  <2>9. found \subseteq Pages
    BY <2>1, RecallAssumption DEF Hits
  <2>10. Typed'
    <3>1. DOMAIN shown' \subseteq 1..commands'
      BY <1>1, <2>1, <2>8 DEF Inv, Typed
    <3>2. \A n \in DOMAIN shown' : shown'[n] \subseteq Pages
      BY <2>8, <2>9 DEF Inv, Typed
    <3>3. QED
      BY <1>1, <2>6, <3>1, <3>2, MovesIs DEF Inv, Typed
  <2>11. Distinct' /\ Indexing' /\ Recorded'
    BY <1>1, <2>6, <2>7, MovesIs, IndexingMoves, RecordedMoves
  <2>12. Stored'
    <3>1. \A g \in generated' : Reported(g)
      BY <1>1 DEF Inv, Stored
    <3>2. QED
      BY <1>1, <2>6, <2>7, <3>1, StoredMoves
  <2>13. Seen'
    <3>1. \A c : CardSeen(c) => CardSeen(c)'
      BY <2>8 DEF CardSeen
    <3>2. \A z : QuizSeen(z) => QuizSeen(z)'
      BY <2>8 DEF QuizSeen
    <3>3. /\ \A f \in DOMAIN files' : FileSeen(f, files[f])'
          /\ \A f \in DOMAIN tmps' : FileSeen(f, tmps[f])'
          /\ \A c \in deck' : CardSeen(c)'
      BY <1>1, <3>1, <3>2 DEF Inv, Seen, FileSeen
    <3>4. ASSUME NEW q \in Procs PROVE Holds(proc[q])'
      <4>1. CASE q = p
        <5>1. proc'[q] = w
          BY <2>6, <4>1, MovesIs
        <5>2. QED
          BY <2>3, <2>8, <5>1 DEF Holds, Writing
      <4>2. CASE q # p
        <5>1. proc'[q] = proc[q] /\ Holds(proc[q])
          BY <2>6, <4>2, MovesIs DEF Inv, Seen
        <5>2. proc[q].step \in {"insert", "search"} => proc[q].n # proc[p].n
          BY <2>1, <4>2 DEF Inv, Distinct, Busy, Generating
        <5>3. QED
          BY <2>8, <3>1, <5>1, <5>2 DEF Holds
      <4>3. QED
        BY <4>1, <4>2
    <3>5. QED
      BY <3>3, <3>4 DEF Seen
  <2>14. QED
    BY <2>10, <2>11, <2>12, <2>13 DEF Inv
<1>4. QED
  BY <1>2, <1>3 DEF Search

-----------------------------------------------------------------------------
(* What a session records and reports *)

\* Rows are only appended.
Grows == /\ Len(results) <= Len(results')
         /\ \A i \in 1..Len(results) : results'[i] = results[i]

LEMMA CountedGrows ==
    ASSUME Typed, Typed', Grows, NEW score, NEW i \in 1..Len(results), NEW concept,
           Counted(score, i, concept)
    PROVE  Counted(score, i, concept)'
<1>1. CASE score = Unread
  BY <1>1 DEF Counted
<1>2. CASE \E m \in i..Len(results) : score = Tally(SubSeq(results, 1, m), concept)
  <2>1. PICK m \in i..Len(results) : score = Tally(SubSeq(results, 1, m), concept)
    BY <1>2
  <2>2. Len(results) \in Nat /\ Len(results') \in Nat /\ m \in 1..Len(results) /\ m \in Nat
    BY RecordsAre DEF Typed
  <2>3. SubSeq(results', 1, m) = SubSeq(results, 1, m)
    <3>1. /\ \A j \in 1..m : results[j] \in Result /\ results'[j] = results[j]
          /\ \A j \in 1..m : results'[j] \in Result
      BY <2>2, RecordsAre DEF Grows
    <3> DEFINE s == SubSeq(results, 1, m)
               t == SubSeq(results', 1, m)
    <3>2. s \in Seq(Result) /\ Len(s) = m /\ \A j \in 1..m : s[j] = results[j]
      BY <2>2, <3>1, SubSeqProperties
    <3>3. t \in Seq(Result) /\ Len(t) = m /\ \A j \in 1..m : t[j] = results'[j]
      BY <2>2, <3>1, SubSeqProperties
    <3> HIDE DEF s, t
    <3>4. s = t
      BY <3>1, <3>2, <3>3, SeqEqual
    <3>5. QED
      BY <3>4 DEF s, t
  <2>4. m \in i..Len(results')
    BY <2>2 DEF Grows
  <2>5. QED
    BY <2>1, <2>3, <2>4 DEF Counted
<1>3. QED
  BY <1>1, <1>2 DEF Counted

LEMMA ToldGrows ==
    ASSUME Typed, Grows, NEW n, TracesOf(n)' = TracesOf(n), NEW items, NEW topic, NEW last,
           Told(n, items, topic, last)
    PROVE  Told(n, items, topic, last)'
<1>1. \A h \in TracesOf(n) : results'[h.row] = results[h.row]
  BY RecordsAre DEF TracesOf, Grows
<1>2. QED
  BY <1>1 DEF Told

LEMMA SitsGrows ==
    ASSUME Typed, Typed', Grows, NEW q \in Procs, proc'[q] = proc[q], NEW n, n = proc[q].n,
           RowsOf(n)' = RowsOf(n), TracesOf(n)' = TracesOf(n), Sits(proc[q])
    PROVE  Sits(proc[q])'
<1>1. RowsOf(proc[q].n)' = RowsOf(proc[q].n) /\ TracesOf(proc[q].n)' = TracesOf(proc[q].n)
  BY DEF RowsOf, TracesOf
<1>2. Told(proc[q].n, proc[q].quiz, proc[q].topic, proc[q].at - 1)'
  <2>1. Told(n, proc[q].quiz, proc[q].topic, proc[q].at - 1)
    BY DEF Sits
  <2>2. PICK items, topic, last :
           items = proc[q].quiz /\ topic = proc[q].topic /\ last = proc[q].at - 1
    OBVIOUS
  <2>3. Told(n, items, topic, last)'
    BY <2>1, <2>2, ToldGrows
  <2>4. QED
    BY <2>2, <2>3 DEF Told, TracesOf
<1>3. ASSUME NEW i \in 1..Len(results), InPlay(proc[q], i)
      PROVE  i \in 1..Len(results') /\ InPlay(proc[q], i)'
  <2>1. Own(proc[q])' = Own(proc[q])
    BY DEF Own, Question
  <2>2. results'[i] = results[i] /\ i \in 1..Len(results')
    BY RecordsAre DEF Grows, Typed
  <2>3. Counted(proc[q].score, i, Own(proc[q])) => Counted(proc[q].score, i, Own(proc[q]))'
    <3>1. PICK score, concept : score = proc[q].score /\ concept = Own(proc[q])
      OBVIOUS
    <3>2. Counted(score, i, concept) => Counted(score, i, concept)'
      BY CountedGrows
    <3>3. QED
      BY <2>1, <3>1, <3>2 DEF Counted
  <2>4. QED
    BY <1>1, <1>3, <2>1, <2>2, <2>3 DEF InPlay
<1>4. QED
  BY <1>1, <1>2, <1>3 DEF Sits

\* A step of one session n leaves what the others have recorded.
LEMMA RecordedAt ==
    ASSUME Inv, Typed', Grows, NEW p \in Procs, NEW r, Moves(p, r), UNCHANGED commands,
           proc[p].step \in Session, NEW n, n = proc[p].n,
           \A k \in Nat : k # n => RowsOf(k)' = RowsOf(k) /\ TracesOf(k)' = TracesOf(k),
           \A h \in TracesOf(n)' : Counted(h.score, h.row, results[h.row].concept)',
           r.step \in Session => Sits(proc[p])',
           \A s \in ended' : s \in ended \/
               (s.n = n /\ ~Busy(r) /\ Told(s.n, s.items, s.topic, Len(s.items))'
               /\ Cardinality(RowsOf(s.n)') = Len(s.items))
    PROVE  Recorded'
<1>1. n \in Nat /\ n <= commands /\ Busy(proc[p]) /\ commands \in Nat
  BY DEF Inv, Typed, Distinct, Busy
<1>2. \A q \in Procs : q # p => proc'[q] = proc[q] /\ (Busy(proc[q]) => proc[q].n # n /\ proc[q].n \in Nat)
  BY <1>1, MovesIs DEF Inv, Distinct
<1>3. ASSUME NEW i \in 1..Len(results') PROVE results'[i].n <= commands'
  <2>1. results'[i].n \in Nat
    <3>1. results' \in Seq(Result)
      BY DEF Typed
    <3>2. results'[i] \in Result
      BY <3>1, ElementOfSeq
    <3>3. QED
      BY <3>2 DEF Result
  <2>2. CASE results'[i].n = n
    BY <1>1, <2>2
  <2>3. CASE results'[i].n # n
    <3>1. PICK k \in Nat : k = results'[i].n
      BY <2>1
    <3>2. i \in RowsOf(k)'
      BY <3>1 DEF RowsOf
    <3>3. i \in RowsOf(k)
      BY <2>3, <3>1, <3>2
    <3>4. QED
      BY <3>1, <3>3 DEF RowsOf, Inv, Recorded
  <2>4. QED
    BY <2>2, <2>3
<1>4. ASSUME NEW h \in told'
      PROVE  h.n <= commands' /\ Counted(h.score, h.row, results[h.row].concept)'
  <2>1. h.n \in Nat
    BY DEF Typed, Trace
  <2>2. CASE h.n = n
    <3>1. h \in TracesOf(n)'
      BY <2>2 DEF TracesOf
    <3>2. QED
      BY <1>1, <2>2, <3>1
  <2>3. CASE h.n # n
    <3>1. h \in TracesOf(h.n)'
      BY DEF TracesOf
    <3>2. h \in TracesOf(h.n)
      BY <2>1, <2>3, <3>1
    <3>3. h \in told /\ h.row \in 1..Len(results)
      BY <3>2, RecordsAre DEF TracesOf, Inv
    <3>4. h.n <= commands /\ Counted(h.score, h.row, results[h.row].concept)
      BY <3>3 DEF Inv, Recorded
    <3>5. Counted(h.score, h.row, results[h.row].concept)'
      <4>1. PICK concept : concept = results[h.row].concept
        OBVIOUS
      <4>2. Counted(h.score, h.row, concept)'
        BY <3>3, <3>4, <4>1, CountedGrows DEF Inv
      <4>3. results'[h.row].concept = concept
        BY <3>3, <4>1 DEF Grows
      <4>4. QED
        BY <4>2, <4>3 DEF Counted
    <3>6. QED
      BY <3>4, <3>5
  <2>4. QED
    BY <2>2, <2>3
<1>5. ASSUME NEW q \in Procs, proc'[q].step \in Session PROVE Sits(proc[q])'
  <2>1. CASE q = p
    BY <1>5, <2>1, MovesIs
  <2>2. CASE q # p
    <3>1. PICK k : k = proc[q].n
      OBVIOUS
    <3>2. proc'[q] = proc[q] /\ Sits(proc[q]) /\ k \in Nat /\ k # n
      BY <1>2, <1>5, <2>2, <3>1 DEF Inv, Recorded, Busy
    <3>3. QED
      BY <3>1, <3>2, SitsGrows DEF Inv
  <2>3. QED
    BY <2>1, <2>2
<1>6. ASSUME NEW s \in ended'
      PROVE  /\ s.n <= commands' /\ \A q \in Procs : Busy(proc'[q]) => proc'[q].n # s.n
             /\ Told(s.n, s.items, s.topic, Len(s.items))'
             /\ Cardinality(RowsOf(s.n)') = Len(s.items)
  <2>1. CASE s \in ended
    <3>1. /\ s.n <= commands /\ s.n # n /\ s.n \in Nat
          /\ \A q \in Procs : Busy(proc[q]) => proc[q].n # s.n
          /\ Told(s.n, s.items, s.topic, Len(s.items)) /\ Cardinality(RowsOf(s.n)) = Len(s.items)
      BY <1>1, <2>1, RecordsAre DEF Inv, Recorded
    <3>2. RowsOf(s.n)' = RowsOf(s.n) /\ TracesOf(s.n)' = TracesOf(s.n)
      BY <3>1
    <3>3. Told(s.n, s.items, s.topic, Len(s.items))'
      BY <3>1, <3>2, ToldGrows DEF Inv
    <3>4. \A q \in Procs : Busy(proc'[q]) => proc'[q].n # s.n
      BY <1>1, <1>2, <3>1, MovesIs DEF Moves
    <3>5. QED
      BY <3>1, <3>2, <3>3, <3>4
  <2>2. CASE s \notin ended
    <3>1. s.n = n /\ ~Busy(r) /\ Told(s.n, s.items, s.topic, Len(s.items))'
          /\ Cardinality(RowsOf(s.n)') = Len(s.items)
      BY <2>2
    <3>2. \A q \in Procs : Busy(proc'[q]) => proc'[q].n # s.n
      BY <1>2, <3>1, MovesIs
    <3>3. QED
      BY <1>1, <3>1, <3>2
  <2>3. QED
    BY <2>1, <2>2
<1>7. QED
  BY <1>3, <1>4, <1>5, <1>6 DEF Recorded

LEMMA OwnIs ==
    ASSUME NEW r \in Process, Phased(r), r.step \in Session
    PROVE  Own(r) \in Concepts /\ Own(r) = Concept(r.quiz[r.at], r.topic)
<1>1. r.quiz \in Seq(Asked) /\ r.at \in 1..Len(r.quiz) /\ r.topic \in Topics
  BY DEF Process, Phased
<1>2. r.quiz[r.at] \in Asked
  BY <1>1, ElementOfSeq
<1>3. QED
  BY <1>1, <1>2 DEF Own, Question, Concept, Concepts, Asked

LEMMA RecordInv ==
    ASSUME Inv, NEW p \in Procs, Record(p)
    PROVE  Inv'
<1> DEFINE row == [concept |-> Own(proc[p]), correct |-> proc[p].verdict, n |-> proc[p].n]
<1>0. PICK w : w = [proc[p] EXCEPT !.step = "weigh"]
  OBVIOUS
<1>1. /\ UNCHANGED <<wiki, index, files, tmps, ever, writers, deck, told, ended, generated, shown, commands>>
      /\ proc[p].step = "record" /\ Become(p, w) /\ results' = Append(results, row)
  BY <1>0 DEF Record, store, counts, At
<1>2. /\ proc[p] \in Process /\ Phased(proc[p]) /\ Sits(proc[p]) /\ Busy(proc[p])
      /\ proc[p].n \in 1..MaxCommands /\ proc[p].step \in Session
  BY <1>1, RecallAssumption DEF Inv, Typed, Recorded, Session, Busy, Distinct
<1>3. /\ w \in Process /\ w.step = "weigh" /\ w.n = proc[p].n /\ w.at = proc[p].at
      /\ w.topic = proc[p].topic /\ w.quiz = proc[p].quiz
  BY <1>0, <1>2 DEF Process, Session
<1>4. Phased(w) /\ Holds(w) /\ Keeps(w) /\ w.step \notin {"insert", "search"} /\ w.step \in Session
  BY <1>2, <1>3 DEF Phased, Holds, Keeps, Session, Writing
<1>5. Moves(p, w)
  BY <1>1, <1>2, <1>3, <1>4 DEF Moves
<1>6. row \in Result /\ row.n = proc[p].n /\ row.concept = Own(proc[p])
  BY <1>2, OwnIs DEF Result, Process
<1> HIDE DEF row
<1>7. results \in Seq(Result) /\ Len(results) \in Nat /\ DOMAIN results = 1..Len(results)
  BY RecordsAre DEF Inv, Typed
<1>8. /\ results' \in Seq(Result) /\ Len(results') = Len(results) + 1
      /\ results'[Len(results) + 1] = row
      /\ \A i \in 1..Len(results) : results'[i] = results[i]
  <2> HIDE DEF Result
  <2>1. QED
    BY <1>1, <1>6, <1>7
<1>9. Grows
  BY <1>7, <1>8 DEF Grows
<1>10. Typed'
  <2>1. \A h \in told' : h.row \in DOMAIN results' /\ h.score[1] <= h.score[2]
    <3>1. DOMAIN results' = 1..(Len(results) + 1)
      BY <1>8, LenProperties
    <3>2. QED
      BY <1>1, <1>7, <3>1 DEF Inv, Typed
  <2>2. QED
    BY <1>1, <1>5, <1>8, <2>1, MovesIs DEF Inv, Typed
<1>11. Indexing' /\ Distinct' /\ Seen' /\ Stored'
  <2>1. /\ \A c \in deck' : CardSeen(c)
        /\ \A g \in generated' : Reported(g)
    BY <1>1 DEF Inv, Seen, Stored
  <2>2. QED
    BY <1>1, <1>4, <1>5, <2>1, MovesIs, IndexingMoves, SeenMoves, StoredMoves
<1>12. PICK n : n = proc[p].n
  OBVIOUS
<1>13. \A k : TracesOf(k)' = TracesOf(k)
  BY <1>1 DEF TracesOf
<1>14. RowsOf(n)' = RowsOf(n) \cup {Len(results) + 1}
       /\ \A k : k # n => RowsOf(k)' = RowsOf(k)
  <2>1. 1..Len(results') = (1..Len(results)) \cup {Len(results) + 1}
    BY <1>7, <1>8
  <2>2. QED
    BY <1>6, <1>8, <1>12, <2>1 DEF RowsOf
<1>15. IsFiniteSet(RowsOf(n)) /\ Cardinality(RowsOf(n)) = proc[p].at - 1
       /\ Len(results) + 1 \notin RowsOf(n)
  <2>1. RowsOf(n) \in SUBSET (1..Len(results)) /\ IsFiniteSet(1..Len(results))
    BY <1>7, FS_Interval DEF RowsOf
  <2>2. Cardinality(RowsOf(n)) = proc[p].at - 1
    BY <1>1, <1>2, <1>12 DEF Sits
  <2>3. QED
    BY <1>7, <2>1, <2>2, FS_Subset
<1>16. Cardinality(RowsOf(n)') = proc[p].at
  <2>1. proc[p].at \in Nat
    BY <1>2 DEF Process
  <2>2. Cardinality(RowsOf(n) \cup {Len(results) + 1}) = Cardinality(RowsOf(n)) + 1
    BY <1>15, FS_AddElement
  <2>3. QED
    BY <1>14, <1>15, <2>1, <2>2
<1>17. \A h \in TracesOf(n)' : Counted(h.score, h.row, results[h.row].concept)'
  <2>1. ASSUME NEW h \in TracesOf(n)
        PROVE  Counted(h.score, h.row, results[h.row].concept)'
    <3>1. h \in told /\ h.row \in 1..Len(results)
      BY RecordsAre DEF TracesOf, Inv
    <3>2. PICK concept : concept = results[h.row].concept
      OBVIOUS
    <3>3. Counted(h.score, h.row, concept)
      BY <3>1, <3>2 DEF Inv, Recorded
    <3>4. Counted(h.score, h.row, concept)'
      BY <1>9, <1>10, <3>1, <3>3, CountedGrows DEF Inv
    <3>5. results'[h.row].concept = concept
      BY <1>8, <3>1, <3>2
    <3>6. QED
      BY <3>4, <3>5 DEF Counted
  <2>2. QED
    BY <1>13, <2>1
<1>18. Sits(proc[p])'
  <2>1. proc'[p] = w
    BY <1>5, MovesIs
  <2>2. Told(w.n, w.quiz, w.topic, w.at - 1)'
    <3>1. Told(w.n, w.quiz, w.topic, w.at - 1)
      BY <1>2, <1>3 DEF Sits
    <3>2. TracesOf(w.n)' = TracesOf(w.n)
      BY <1>13
    <3>3. QED
      BY <1>9, <3>1, <3>2, ToldGrows DEF Inv
  <2>3. Cardinality(RowsOf(w.n)') = w.at
    BY <1>3, <1>12, <1>16
  <2>4. PICK i : i = Len(results) + 1
    OBVIOUS
  <2>5. InPlay(w, i)'
    <3>1. i \in RowsOf(w.n)' /\ \A j \in RowsOf(w.n)' : j <= i
      <4>1. \A j \in RowsOf(n) : j <= i
        BY <1>7, <2>4 DEF RowsOf
      <4>2. QED
        BY <1>3, <1>7, <1>12, <1>14, <2>4, <4>1
    <3>2. results'[i].concept = Own(w)
      BY <1>3, <1>6, <1>8, <2>4 DEF Own, Question
    <3>3. \A h \in TracesOf(w.n)' : h.row < i
      <4>1. \A h \in told : h.row \in 1..Len(results)
        BY RecordsAre DEF Inv
      <4>2. QED
        BY <1>1, <1>7, <2>4, <4>1 DEF TracesOf
    <3>4. QED
      BY <1>3, <3>1, <3>2, <3>3 DEF InPlay
  <2>6. i \in 1..Len(results')
    BY <1>7, <1>8, <2>4
  <2>7. QED
    BY <1>3, <2>1, <2>2, <2>3, <2>5, <2>6 DEF Sits, Told, TracesOf, RowsOf, InPlay, Counted
<1>19. Recorded'
  <2>1. UNCHANGED commands /\ proc[p].step \in Session
    BY <1>1, <1>2
  <2>2. \A k \in Nat : k # n => RowsOf(k)' = RowsOf(k) /\ TracesOf(k)' = TracesOf(k)
    BY <1>13, <1>14
  <2>3. \A s \in ended' : s \in ended \/
           (s.n = n /\ ~Busy(w) /\ Told(s.n, s.items, s.topic, Len(s.items))'
           /\ Cardinality(RowsOf(s.n)') = Len(s.items))
    BY <1>1
  <2>4. QED
    BY <1>5, <1>9, <1>10, <1>12, <1>17, <1>18, <2>1, <2>2, <2>3, RecordedAt
<1>20. QED
  BY <1>10, <1>11, <1>19 DEF Inv

LEMMA TellInv ==
    ASSUME Inv, NEW p \in Procs, Tell(p)
    PROVE  Inv'
<1>1. /\ UNCHANGED <<wiki, index, files, tmps, ever, writers, deck, results, generated, shown, commands>>
      /\ proc[p].step = "tell"
  BY DEF Tell, store, counts, At
<1>2. /\ proc[p] \in Process /\ Phased(proc[p]) /\ Sits(proc[p]) /\ Busy(proc[p])
      /\ proc[p].n \in 1..MaxCommands /\ proc[p].n <= commands /\ proc[p].step \in Session
      /\ proc[p].at \in 1..Len(proc[p].quiz) /\ proc[p].at \in Nat
      /\ proc[p].quiz \in Seq(Asked) /\ proc[p].topic \in Topics
  <2>1. /\ proc[p] \in Process /\ Phased(proc[p]) /\ Sits(proc[p]) /\ Busy(proc[p])
        /\ proc[p].step \in Session
    BY <1>1 DEF Inv, Typed, Recorded, Session, Busy
  <2>2. proc[p].n \in 1..MaxCommands /\ proc[p].n <= commands
    BY <2>1, RecallAssumption DEF Inv, Typed, Distinct
  <2>3. QED
    BY <2>1, <2>2 DEF Process, Phased, Session
<1>3. PICK n, items, topic, at : n = proc[p].n /\ items = proc[p].quiz /\ topic = proc[p].topic
                                 /\ at = proc[p].at
  OBVIOUS
<1>4. PICK i \in 1..Len(results) : InPlay(proc[p], i)
  BY <1>1, <1>2 DEF Sits
<1>5. Len(results) \in Nat /\ DOMAIN results = 1..Len(results) /\ Len(items) \in Nat
  BY <1>2, <1>3, RecordsAre, LenProperties DEF Inv
<1>6. /\ i \in RowsOf(n) /\ \A j \in RowsOf(n) : j <= i
      /\ results[i].concept = Concept(items[at], topic)
      /\ \A h \in TracesOf(n) : h.row < i
      /\ Counted(proc[p].score, i, results[i].concept)
      /\ proc[p].score[1] <= proc[p].score[2]
  <2>1. Own(proc[p]) = Concept(items[at], topic)
    BY <1>3 DEF Own, Question
  <2>2. QED
    BY <1>1, <1>3, <1>4, <2>1 DEF InPlay
<1>7. OwnRow(p) = i
  <2>1. i \in DOMAIN results /\ results[i].n = proc[p].n
        /\ \A j \in DOMAIN results : results[j].n = proc[p].n => j <= i
    BY <1>3, <1>5, <1>6 DEF RowsOf
  <2>2. ASSUME NEW j \in DOMAIN results, results[j].n = proc[p].n,
               \A k \in DOMAIN results : results[k].n = proc[p].n => k <= j
        PROVE  j = i
    BY <1>5, <2>1, <2>2
  <2>3. QED
    BY <2>1, <2>2 DEF OwnRow
<1>8. PICK t : t = [n |-> n, q |-> at, row |-> i, score |-> proc[p].score]
  OBVIOUS
<1>9. told' = told \cup {t}
  BY <1>3, <1>7, <1>8 DEF Tell
<1>10. t \in Trace /\ t.n = n /\ t.q = at /\ t.row = i /\ t.score = proc[p].score
  BY <1>2, <1>3, <1>5, <1>8 DEF Trace, Process
<1>11. Grows
  BY <1>1, <1>5 DEF Grows
<1>12. /\ \A k : RowsOf(k)' = RowsOf(k)
       /\ TracesOf(n)' = TracesOf(n) \cup {t}
       /\ \A k : k # n => TracesOf(k)' = TracesOf(k)
  BY <1>1, <1>9, <1>10 DEF RowsOf, TracesOf
<1>13. Told(n, items, topic, at)'
  <2>1. Told(n, items, topic, at - 1)
    BY <1>2, <1>3 DEF Sits
  <2>2. {h.q : h \in TracesOf(n)'} = 1..at
    <3>1. {h.q : h \in TracesOf(n)'} = {h.q : h \in TracesOf(n)} \cup {at}
      BY <1>10, <1>12
    <3>2. {h.q : h \in TracesOf(n)} = 1..(at - 1)
      BY <2>1 DEF Told
    <3>3. 1..at = (1..(at - 1)) \cup {at}
      BY <1>2, <1>3
    <3>4. QED
      BY <3>1, <3>2, <3>3
  <2>3. ASSUME NEW h \in TracesOf(n)', NEW u \in TracesOf(n)', h.q < u.q
        PROVE  h.row < u.row
    <3>1. \A v \in TracesOf(n) : v.q \in 1..(at - 1)
      BY <2>1 DEF Told
    <3>2. CASE h = t
      BY <1>2, <1>3, <1>10, <1>12, <2>3, <3>1, <3>2
    <3>3. CASE h # t /\ u = t
      BY <1>6, <1>10, <1>12, <3>3
    <3>4. CASE h # t /\ u # t
      BY <1>12, <2>1, <2>3, <3>4 DEF Told
    <3>5. QED
      BY <3>2, <3>3, <3>4
  <2>4. \A h \in TracesOf(n)' : results'[h.row].concept = Concept(items[h.q], topic)
    BY <1>1, <1>6, <1>10, <1>12, <2>1 DEF Told
  <2>5. QED
    BY <2>2, <2>3, <2>4 DEF Told
<1>14. Cardinality(RowsOf(n)') = at
  BY <1>1, <1>2, <1>3, <1>12 DEF Sits
<1>15. \A h \in told' : h \in Trace /\ h.row \in DOMAIN results' /\ h.score[1] <= h.score[2]
  BY <1>1, <1>5, <1>6, <1>9, <1>10 DEF Inv, Typed
<1>16. \A h \in TracesOf(n)' : Counted(h.score, h.row, results[h.row].concept)'
  <2>1. \A h \in TracesOf(n)' : Counted(h.score, h.row, results[h.row].concept)
    BY <1>6, <1>10, <1>12 DEF TracesOf, Inv, Recorded
  <2>2. QED
    BY <1>1, <2>1 DEF Counted
<1>17. ASSUME NEW w \in Process, Phased(w), Moves(p, w), w.step \notin {"insert", "search"},
              Holds(w), Keeps(w), w.step \in Session => Sits(proc[p])',
              ended' \subseteq [n : 1..MaxCommands, topic : Topics, items : Seq(Asked)],
              \A s \in ended' : s \in ended \/
                  (s.n = n /\ ~Busy(w) /\ Told(s.n, s.items, s.topic, Len(s.items))'
                  /\ Cardinality(RowsOf(s.n)') = Len(s.items))
       PROVE  Inv'
  <2>1. Typed'
    BY <1>1, <1>15, <1>17, MovesIs DEF Inv, Typed
  <2>2. /\ \A c \in deck' : CardSeen(c)
        /\ \A g \in generated' : Reported(g)
    BY <1>1 DEF Inv, Seen, Stored
  <2>3. Indexing' /\ Distinct' /\ Seen' /\ Stored'
    BY <1>1, <1>17, <2>2, MovesIs, IndexingMoves, SeenMoves, StoredMoves
  <2>4. \A k \in Nat : k # n => RowsOf(k)' = RowsOf(k) /\ TracesOf(k)' = TracesOf(k)
    BY <1>12
  <2>5. UNCHANGED commands /\ proc[p].step \in Session
    BY <1>1, <1>2
  <2>6. Recorded'
    BY <1>3, <1>11, <1>16, <1>17, <2>1, <2>4, <2>5, RecordedAt
  <2>7. QED
    BY <2>1, <2>3, <2>6 DEF Inv
<1>18. CASE proc[p].at < Len(proc[p].quiz)
  <2>1. PICK w : w = [proc[p] EXCEPT !.step = "answer", !.at = @ + 1]
    OBVIOUS
  <2>2. Become(p, w) /\ ended' = ended
    BY <1>18, <2>1 DEF Tell
  <2>3. /\ w \in Process /\ w.step = "answer" /\ w.n = n /\ w.at = at + 1
        /\ w.topic = topic /\ w.quiz = items
    <3>1. proc[p].at + 1 \in Nat \ {0}
      BY <1>2
    <3>2. w \in Process
      BY <1>2, <2>1, <3>1 DEF Process, Session
    <3>3. QED
      BY <1>2, <1>3, <2>1, <3>2 DEF Process
  <2>4. /\ Phased(w) /\ Holds(w) /\ Keeps(w) /\ w.step \notin {"insert", "search"}
        /\ w.step \in Session
    BY <1>2, <1>3, <1>5, <1>18, <2>3, SMTT(30) DEF Phased, Holds, Keeps, Session, Writing
  <2>5. Moves(p, w)
    BY <1>1, <1>2, <1>3, <2>2, <2>3, <2>4 DEF Moves
  <2>6. Sits(proc[p])'
    <3>1. proc'[p] = w
      BY <2>5, MovesIs
    <3>2. Told(w.n, w.quiz, w.topic, w.at - 1)'
      BY <1>2, <1>3, <1>13, <2>3
    <3>3. Cardinality(RowsOf(w.n)') = w.at - 1
      BY <1>2, <1>3, <1>14, <2>3
    <3>4. QED
      BY <2>3, <3>1, <3>2, <3>3 DEF Sits, Told, TracesOf, RowsOf
  <2>7. /\ ended' \subseteq [n : 1..MaxCommands, topic : Topics, items : Seq(Asked)]
        /\ \A s \in ended' : s \in ended \/
              (s.n = n /\ ~Busy(w) /\ Told(s.n, s.items, s.topic, Len(s.items))'
              /\ Cardinality(RowsOf(s.n)') = Len(s.items))
    BY <2>2 DEF Inv, Typed
  <2>8. QED
    BY <1>17, <2>3, <2>4, <2>5, <2>6, <2>7
<1>19. CASE ~(proc[p].at < Len(proc[p].quiz))
  <2>1. PICK s : s = [n |-> n, topic |-> topic, items |-> items]
    OBVIOUS
  <2>2. Become(p, Idle) /\ ended' = ended \cup {s}
    BY <1>3, <1>19, <2>1 DEF Tell
  <2>3. /\ s \in [n : 1..MaxCommands, topic : Topics, items : Seq(Asked)]
        /\ s.n = n /\ s.items = items /\ s.topic = topic
    BY <1>2, <1>3, <2>1
  <2>4. at = Len(items)
    BY <1>2, <1>3, <1>5, <1>19
  <2>5. Told(s.n, s.items, s.topic, Len(s.items))' /\ Cardinality(RowsOf(s.n)') = Len(s.items)
    BY <1>13, <1>14, <2>3, <2>4
  <2>6. Moves(p, Idle)
    BY <1>1, <2>2, IdleMoves
  <2>7. /\ ended' \subseteq [n : 1..MaxCommands, topic : Topics, items : Seq(Asked)]
        /\ \A z \in ended' : z \in ended \/
              (z.n = n /\ ~Busy(Idle) /\ Told(z.n, z.items, z.topic, Len(z.items))'
              /\ Cardinality(RowsOf(z.n)') = Len(z.items))
    <3>1. ended \subseteq [n : 1..MaxCommands, topic : Topics, items : Seq(Asked)]
      BY DEF Inv, Typed
    <3>2. ~Busy(Idle)
      BY IdleIs
    <3>3. ASSUME NEW z \in ended', z \notin ended
          PROVE  z.n = n /\ Told(z.n, z.items, z.topic, Len(z.items))'
                 /\ Cardinality(RowsOf(z.n)') = Len(z.items)
      <4>1. z = s
        BY <2>2, <3>3
      <4>2. QED
        BY <2>3, <2>5, <4>1
    <3>4. QED
      BY <2>2, <2>3, <3>1, <3>2, <3>3
  <2>8. QED
    BY <1>17, <2>6, <2>7, IdleIs, IdleHolds
<1>20. QED
  BY <1>18, <1>19

-----------------------------------------------------------------------------
(* Cards and quizzes: staging and renaming *)

\* What was kept is kept while contents and writers of files only grow.
LEMMA KeptGrows ==
    ASSUME \A f \in DOMAIN writers : f \in DOMAIN writers' /\ writers[f] \subseteq writers'[f],
           \A f \in DOMAIN ever : f \in DOMAIN ever' /\ ever[f] \subseteq ever'[f],
           NEW n, NEW name, NEW k, Kept(n, name, k)
    PROVE  Kept(n, name, k)'
<1>1. name \in DOMAIN writers' /\ n \in writers'[name] /\ n \in writers[name]
      /\ writers[name] \subseteq writers'[name]
  BY DEF Kept
<1>2. Alone(name)' => Alone(name)
  BY <1>1 DEF Alone
<1>3. QED
  BY <1>1, <1>2 DEF Kept

LEMMA KeepsSame ==
    ASSUME NEW q, NEW r, proc'[q] = r, Keeps(r)'
    PROVE  Keeps(proc[q])'
BY DEF Keeps, Kept, Alone

LEMMA StagedInv ==
    ASSUME Inv, NEW p \in Procs, NEW name, NEW content, NEW next, Staged(p, name, content, next),
           content \in File(name), FileSeen(name, content),
           \/ /\ proc[p].step = "card" /\ next = "rename"
              /\ name = CardName(proc[p]) /\ content = Card(proc[p])
           \/ proc[p].step = "quiz" /\ next = "finish"
    PROVE  Inv'
<1>1. /\ UNCHANGED <<wiki, index, files, ever, deck, results, told, ended, generated, shown, commands>>
      /\ tmps' = Put(tmps, name, content)
      /\ writers' = Put(writers, name, Had(writers, name) \cup {proc[p].n})
  BY DEF Staged, session, counts
<1>2. /\ proc[p] \in Process /\ Phased(proc[p]) /\ Holds(proc[p]) /\ Keeps(proc[p])
      /\ proc[p].step \in Writing /\ Busy(proc[p])
  BY DEF Inv, Typed, Seen, Stored, Writing, Busy, Generating
<1>3. PICK w : w = [proc[p] EXCEPT !.step = next]
  OBVIOUS
<1>4. /\ w \in Process /\ w.step = next /\ w.n = proc[p].n /\ w.at = proc[p].at
      /\ w.topic = proc[p].topic /\ w.quiz = proc[p].quiz /\ w.cards = proc[p].cards
  BY <1>2, <1>3 DEF Process, Generating, Writing
<1>5. /\ Phased(w) /\ w.step \notin {"insert", "search"} /\ w.step \notin Session
      /\ w.step \in Writing /\ Passed(w) = Passed(proc[p])
      /\ CardName(w) = CardName(proc[p]) /\ Card(w) = Card(proc[p])
  BY <1>2, <1>4 DEF Phased, Session, Writing, Generating, Passed, CardName, Card
<1>6. Holds(w)
  BY <1>2, <1>4, <1>5 DEF Holds, Writing
<1>7. Become(p, w) /\ Moves(p, w)
  BY <1>1, <1>2, <1>3, <1>4, <1>5 DEF Moves, Staged
<1>8. /\ DOMAIN tmps' = DOMAIN tmps \cup {name} /\ tmps'[name] = content
      /\ \A f \in DOMAIN tmps : f # name => tmps'[f] = tmps[f]
  BY <1>1 DEF Put
<1>9. /\ DOMAIN writers' = DOMAIN writers \cup {name} /\ proc[p].n \in writers'[name]
      /\ \A f \in DOMAIN writers : f # name => writers'[f] = writers[f]
      /\ \A f \in DOMAIN writers : writers[f] \subseteq writers'[f]
  BY <1>1 DEF Put, Had
<1>10. Typed'
  <2>1. \A f \in DOMAIN tmps' : tmps'[f] \in File(f)
    BY <1>8 DEF Inv, Typed
  <2>2. QED
    BY <1>1, <1>7, <2>1, MovesIs DEF Inv, Typed
<1>11. Distinct' /\ Indexing' /\ Recorded'
  BY <1>1, <1>5, <1>7, MovesIs, IndexingMoves, RecordedMoves
<1>12. Seen'
  <2>1. \A c : CardSeen(c)' <=> CardSeen(c)
    BY <1>1 DEF CardSeen
  <2>2. \A f, z : FileSeen(f, z)' <=> FileSeen(f, z)
    BY <1>1 DEF FileSeen, CardSeen, QuizSeen
  <2>3. /\ \A f \in DOMAIN files' : FileSeen(f, files[f])'
        /\ \A f \in DOMAIN tmps' : FileSeen(f, tmps[f])'
        /\ \A c \in deck' : CardSeen(c)'
    <3>1. \A f \in DOMAIN tmps' : FileSeen(f, tmps'[f])
      BY <1>8 DEF Inv, Seen
    <3>2. \A f \in DOMAIN tmps' : FileSeen(f, tmps[f])'
      BY <1>1, <3>1 DEF FileSeen, CardSeen, QuizSeen
    <3>3. QED
      BY <1>1, <2>1, <2>2, <3>2 DEF Inv, Seen
  <2>4. ASSUME NEW q \in Procs PROVE Holds(proc[q])'
    <3>1. (q # p => proc'[q] = proc[q] /\ Holds(proc[q])) /\ (q = p => proc'[q] = w)
      BY <1>7, MovesIs DEF Inv, Seen
    <3>2. QED
      BY <1>1, <1>6, <3>1 DEF Holds, CardSeen
  <2>5. QED
    BY <2>3, <2>4 DEF Seen
<1>13. Stored'
  <2>1. \A n, f, k : Kept(n, f, k) => Kept(n, f, k)'
    BY <1>1, <1>9, KeptGrows
  <2>2. \A g \in generated' : Reported(g)'
    BY <1>1, <2>1 DEF Inv, Stored, Reported
  <2>3. ASSUME NEW q \in Procs PROVE Keeps(proc[q])'
    <3>1. CASE q # p
      <4>1. proc'[q] = proc[q] /\ Keeps(proc[q])
        BY <1>7, <3>1, MovesIs DEF Inv, Stored
      <4>2. ASSUME proc[q].step = "rename"
            PROVE  /\ CardName(proc[q]) \in DOMAIN writers'
                   /\ proc[q].n \in writers'[CardName(proc[q])]
                   /\ CardName(proc[q]) \in DOMAIN tmps' =>
                         \/ \A n : writers'[CardName(proc[q])] # {n}
                         \/ tmps'[CardName(proc[q])] = Card(proc[q])
        <5>1. /\ CardName(proc[q]) \in DOMAIN writers
              /\ proc[q].n \in writers[CardName(proc[q])]
              /\ Alone(CardName(proc[q])) /\ CardName(proc[q]) \in DOMAIN tmps =>
                    tmps[CardName(proc[q])] = Card(proc[q])
          BY <4>1, <4>2 DEF Keeps
        <5>2. proc[q].n \in writers'[CardName(proc[q])] /\ CardName(proc[q]) \in DOMAIN writers'
          BY <1>9, <5>1
        <5>3. CASE CardName(proc[q]) = name
          <6>1. proc[q].n # proc[p].n
            BY <1>2, <3>1, <4>2 DEF Inv, Distinct, Busy, Generating, Writing
          <6>2. QED
            BY <1>9, <5>2, <5>3, <6>1
        <5>4. CASE CardName(proc[q]) # name
          BY <1>8, <1>9, <5>1, <5>2, <5>4 DEF Alone
        <5>5. QED
          BY <5>3, <5>4
      <4>3. \A k \in Passed(proc[q]) : proc[q].step \in Writing =>
               Kept(proc[q].n, <<"card", Names(proc[q].cards, proc[q].topic)[k]>>, k)
        BY <4>1 DEF Keeps
      <4>4. PICK r : r = proc[q]
        OBVIOUS
      <4>5. Keeps(r)'
        <5>1. \A k \in Passed(r) : r.step \in Writing =>
                 Kept(r.n, <<"card", Names(r.cards, r.topic)[k]>>, k)'
          BY <2>1, <4>3, <4>4
        <5>2. r.step = "rename" => /\ CardName(r) \in DOMAIN writers' /\ r.n \in writers'[CardName(r)]
                                   /\ Alone(CardName(r))' /\ CardName(r) \in DOMAIN tmps' =>
                                         tmps'[CardName(r)] = Card(r)
          BY <4>2, <4>4 DEF Alone
        <5>3. QED
          BY <5>1, <5>2 DEF Keeps
      <4>6. QED
        BY <4>1, <4>4, <4>5, KeepsSame
    <3>2. CASE q = p
      <4>1. \A k \in Passed(w) : Kept(w.n, <<"card", Names(w.cards, w.topic)[k]>>, k)'
        BY <1>2, <1>4, <1>5, <2>1 DEF Keeps
      <4>2. w.step = "rename" => /\ CardName(w) \in DOMAIN writers' /\ w.n \in writers'[CardName(w)]
                                 /\ tmps'[CardName(w)] = Card(w)
        BY <1>4, <1>5, <1>8, <1>9
      <4>3. Keeps(w)'
        BY <4>1, <4>2 DEF Keeps
      <4>4. proc'[q] = w
        BY <1>7, <3>2, MovesIs
      <4>5. QED
        BY <4>3, <4>4, KeepsSame
    <3>3. QED
      BY <3>1, <3>2
  <2>4. QED
    BY <2>2, <2>3 DEF Stored
<1>14. QED
  BY <1>10, <1>11, <1>12, <1>13 DEF Inv

LEMMA StageCardInv ==
    ASSUME Inv, NEW p \in Procs, StageCard(p)
    PROVE  Inv'
<1>1. proc[p].step = "card" /\ Staged(p, CardName(proc[p]), Card(proc[p]), "rename")
  BY DEF StageCard, At
<1>2. /\ proc[p] \in Process /\ Phased(proc[p]) /\ Holds(proc[p]) /\ proc[p].step \in Writing
      /\ proc[p].n \in 1..MaxCommands
  BY <1>1, RecallAssumption DEF Inv, Typed, Seen, Distinct, Busy, Generating, Writing
<1>3. /\ proc[p].cards \in Seq(CardAnswer) /\ proc[p].at \in 1..Len(proc[p].cards)
      /\ proc[p].topic \in Topics /\ proc[p].at \in Nat \ {0}
  BY <1>1, <1>2 DEF Process, Phased, Generating, Writing
<1>4. proc[p].cards[proc[p].at] \in CardAnswer
  <2> HIDE DEF CardAnswer
  <2>1. QED
    BY <1>3, ElementOfSeq
<1>5. CardName(proc[p])[1] = "card"
  BY DEF CardName
<1>6. Card(proc[p]) \in CardFile
  BY <1>2, <1>3, <1>4 DEF Card, CardFile, CardAnswer
<1>7. CardSeen(Card(proc[p]))
  BY <1>2, <1>3 DEF Card, CardSeen, Holds
<1>8. QED
  BY <1>1, <1>5, <1>6, <1>7, StagedInv DEF File, FileSeen

LEMMA StageQuizInv ==
    ASSUME Inv, NEW p \in Procs, StageQuiz(p)
    PROVE  Inv'
<1>1. proc[p].step = "quiz" /\ Staged(p, QuizName(proc[p].topic), Quiz(proc[p]), "finish")
  BY DEF StageQuiz, At
<1>2. /\ proc[p] \in Process /\ Phased(proc[p]) /\ Holds(proc[p]) /\ proc[p].step \in Writing
      /\ proc[p].n \in 1..MaxCommands
  BY <1>1, RecallAssumption DEF Inv, Typed, Seen, Distinct, Busy, Generating, Writing
<1>3. proc[p].quiz \in Seq(Asked) /\ proc[p].topic \in Topics
  BY <1>1, <1>2 DEF Process, Phased, Generating, Writing
<1>4. QuizName(proc[p].topic)[1] = "quiz"
  BY DEF QuizName
<1>5. Quiz(proc[p]) \in QuizFile
  BY <1>2, <1>3 DEF Quiz, QuizFile
<1>6. QuizSeen(Quiz(proc[p]))
  BY <1>2 DEF Quiz, QuizSeen, Holds
<1>7. QED
  BY <1>1, <1>4, <1>5, <1>6, StagedInv DEF File, FileSeen

\* The first of two processes that rename one .tmp file takes what is in it.
LEMMA RenamedInv ==
    ASSUME Inv, NEW p \in Procs, NEW name \in DOMAIN tmps, NEW w, Moves(p, w),
           UNCHANGED <<wiki, index, deck, results, told, ended, generated, shown, writers, commands>>,
           files' = Put(files, name, tmps[name]),
           ever' = Put(ever, name, Had(ever, name) \cup {tmps[name]}),
           tmps' = Drop(tmps, name),
           w.step \notin {"insert", "search", "rename"}, w.step \notin Session, Holds(w),
           w.step \in Writing =>
              \A k \in Passed(w) : Kept(w.n, <<"card", Names(w.cards, w.topic)[k]>>, k)'
    PROVE  Inv'
<1>1. /\ DOMAIN files' = DOMAIN files \cup {name} /\ files'[name] = tmps[name]
      /\ \A f \in DOMAIN files : f # name => files'[f] = files[f]
  BY DEF Put
<1>2. /\ \A f \in DOMAIN ever : f \in DOMAIN ever' /\ ever[f] \subseteq ever'[f]
  BY DEF Put, Had
<1>3. /\ DOMAIN tmps' \subseteq DOMAIN tmps
      /\ \A f \in DOMAIN tmps' : tmps'[f] = tmps[f]
  BY DEF Drop
<1>4. Typed'
  <2>1. /\ \A f \in DOMAIN files' : files'[f] \in File(f)
        /\ \A f \in DOMAIN tmps' : tmps'[f] \in File(f)
    BY <1>1, <1>3 DEF Inv, Typed
  <2>2. QED
    BY <2>1, MovesIs DEF Inv, Typed
<1>5. Distinct' /\ Indexing' /\ Recorded'
  BY MovesIs, IndexingMoves, RecordedMoves
<1>6. Seen'
  <2>1. /\ \A f \in DOMAIN files' : FileSeen(f, files'[f])
        /\ \A f \in DOMAIN tmps' : FileSeen(f, tmps'[f])
        /\ \A c \in deck' : CardSeen(c)
    BY <1>1, <1>3 DEF Inv, Seen
  <2>2. /\ \A f \in DOMAIN files' : FileSeen(f, files[f])'
        /\ \A f \in DOMAIN tmps' : FileSeen(f, tmps[f])'
        /\ \A c \in deck' : CardSeen(c)'
    BY <2>1 DEF FileSeen, CardSeen, QuizSeen
  <2>3. ASSUME NEW q \in Procs PROVE Holds(proc[q])'
    <3>1. (q # p => proc'[q] = proc[q] /\ Holds(proc[q])) /\ (q = p => proc'[q] = w)
      BY MovesIs DEF Inv, Seen
    <3>2. QED
      BY <3>1 DEF Holds, CardSeen
  <2>4. QED
    BY <2>2, <2>3 DEF Seen
<1>7. Stored'
  <2>1. \A n, f, k : Kept(n, f, k) => Kept(n, f, k)'
    BY <1>2, KeptGrows
  <2>2. \A g \in generated' : Reported(g)'
    BY <2>1 DEF Inv, Stored, Reported
  <2>3. ASSUME NEW q \in Procs PROVE Keeps(proc[q])'
    <3>1. CASE q # p
      <4>1. PICK r : r = proc[q]
        OBVIOUS
      <4>2. proc'[q] = r /\ Keeps(r)
        BY <3>1, <4>1, MovesIs DEF Inv, Stored
      <4>3. r.step \in Writing =>
               \A k \in Passed(r) : Kept(r.n, <<"card", Names(r.cards, r.topic)[k]>>, k)'
        BY <2>1, <4>2 DEF Keeps
      <4>4. r.step = "rename" =>
               /\ CardName(r) \in DOMAIN writers' /\ r.n \in writers'[CardName(r)]
               /\ Alone(CardName(r))' /\ CardName(r) \in DOMAIN tmps' => tmps'[CardName(r)] = Card(r)
        BY <1>3, <4>2 DEF Keeps, Alone
      <4>5. Keeps(r)'
        BY <4>3, <4>4 DEF Keeps
      <4>6. QED
        BY <4>2, <4>5, KeepsSame
    <3>2. CASE q = p
      <4>1. Keeps(w)'
        BY DEF Keeps
      <4>2. proc'[q] = w
        BY <3>2, MovesIs
      <4>3. QED
        BY <4>1, <4>2, KeepsSame
    <3>3. QED
      BY <3>1, <3>2
  <2>4. QED
    BY <2>2, <2>3 DEF Stored
<1>8. QED
  BY <1>4, <1>5, <1>6, <1>7 DEF Inv

LEMMA RenameCardInv ==
    ASSUME Inv, NEW p \in Procs, RenameCard(p)
    PROVE  Inv'
<1> DEFINE name == CardName(proc[p])
<1>1. PICK w : w = [proc[p] EXCEPT !.at = IF @ = Len(proc[p].cards) THEN @ ELSE @ + 1,
                       !.step = IF proc[p].at = Len(proc[p].cards) THEN "quiz" ELSE "card"]
  OBVIOUS
<1>2. proc[p].step = "rename" /\ Renamed(p, name, w)
  BY <1>1 DEF RenameCard, At
<1>3. UNCHANGED <<wiki, index, deck, results, told, ended, generated, shown, writers, commands>>
  BY <1>2 DEF Renamed, session, counts
<1>4. CASE name \notin DOMAIN tmps
  BY <1>2, <1>3, <1>4, GoesIdle DEF Renamed
<1>5. CASE name \in DOMAIN tmps
  <2>1. /\ proc[p] \in Process /\ Phased(proc[p]) /\ Holds(proc[p]) /\ Keeps(proc[p])
        /\ Busy(proc[p])
    BY <1>2 DEF Inv, Typed, Seen, Stored, Busy, Generating, Writing
  <2>2. /\ proc[p].cards \in Seq(CardAnswer) /\ proc[p].at \in 1..Len(proc[p].cards)
        /\ Len(proc[p].cards) \in Nat
    BY <1>2, <2>1, LenProperties DEF Process, Phased
  <2>3. w \in Process
    <3>1. proc[p].at \in Nat \ {0} /\ proc[p].at + 1 \in Nat \ {0}
      BY <2>2
    <3>2. QED
      <4>1. (IF proc[p].at = Len(proc[p].cards) THEN proc[p].at ELSE proc[p].at + 1) \in Nat \ {0}
        BY <3>1
      <4>2. (IF proc[p].at = Len(proc[p].cards) THEN "quiz" ELSE "card")
               \in {"idle", "export"} \cup Generating \cup Session
        BY DEF Generating, Writing
      <4>3. QED
        BY <1>1, <2>1, <4>1, <4>2, ZenonT(40) DEF Process
  <2>4. /\ w.n = proc[p].n /\ w.topic = proc[p].topic /\ w.cards = proc[p].cards
        /\ w.quiz = proc[p].quiz
        /\ w.step = IF proc[p].at = Len(proc[p].cards) THEN "quiz" ELSE "card"
        /\ w.at = IF proc[p].at = Len(proc[p].cards) THEN proc[p].at ELSE proc[p].at + 1
    BY <1>1, <2>1 DEF Process
  <2>5. Phased(w)
    BY <1>2, <2>1, <2>2, <2>4 DEF Phased, Generating, Writing, Session
  <2>6. Holds(w)
    BY <1>2, <2>1, <2>4 DEF Holds, Writing
  <2>7. Moves(p, w)
    BY <1>2, <1>3, <1>5, <2>1, <2>3, <2>4, <2>5 DEF Moves, Renamed
  <2>8. Passed(w) = 1..proc[p].at
    BY <2>2, <2>4 DEF Passed
  <2>9. /\ files' = Put(files, name, tmps[name]) /\ tmps' = Drop(tmps, name)
        /\ ever' = Put(ever, name, Had(ever, name) \cup {tmps[name]})
    BY <1>2, <1>5 DEF Renamed
  <2>10. ASSUME NEW k \in Passed(w)
         PROVE  Kept(w.n, <<"card", Names(w.cards, w.topic)[k]>>, k)'
    <3>1. PICK n, f : n = proc[p].n /\ f = <<"card", Names(proc[p].cards, proc[p].topic)[k]>>
      OBVIOUS
    <3>2. CASE k \in 1..(proc[p].at - 1)
      <4>1. Kept(n, f, k)
        BY <1>2, <2>1, <3>1, <3>2 DEF Keeps, Passed, Writing
      <4>2. \A x \in DOMAIN ever : x \in DOMAIN ever' /\ ever[x] \subseteq ever'[x]
        BY <2>9 DEF Put, Had
      <4>3. Kept(n, f, k)'
        BY <1>3, <4>1, <4>2, KeptGrows
      <4>4. QED
        BY <2>4, <3>1, <4>3
    <3>3. CASE k = proc[p].at
      <4>1. f = name
        BY <3>1, <3>3 DEF CardName
      <4>2. f \in DOMAIN writers /\ n \in writers[f] /\ (Alone(f) => tmps[f] = Card(proc[p]))
        BY <1>2, <1>5, <2>1, <3>1, <4>1 DEF Keeps
      <4>3. f \in DOMAIN ever' /\ tmps[f] \in ever'[f]
        BY <2>9, <4>1 DEF Put
      <4>4. Card(proc[p]).by = n /\ Card(proc[p]).k = k
        BY <3>1, <3>3 DEF Card
      <4>5. Kept(n, f, k)'
        BY <1>3, <4>2, <4>3, <4>4 DEF Kept, Alone
      <4>6. QED
        BY <2>4, <3>1, <4>5
    <3>4. QED
      BY <2>2, <2>8, <3>2, <3>3
  <2>11. w.step \notin {"insert", "search", "rename"} /\ w.step \notin Session
    BY <2>4 DEF Session
  <2> HIDE DEF name
  <2>12. QED
    BY <1>3, <1>5, <2>6, <2>7, <2>9, <2>10, <2>11, RenamedInv
<1>6. QED
  BY <1>4, <1>5

LEMMA RenameQuizInv ==
    ASSUME Inv, NEW p \in Procs, RenameQuiz(p)
    PROVE  Inv'
<1> DEFINE name == QuizName(proc[p].topic)
<1>1. PICK w : w = [proc[p] EXCEPT !.step = "trace"]
  OBVIOUS
<1>2. proc[p].step = "finish" /\ Renamed(p, name, w)
  BY <1>1 DEF RenameQuiz, At
<1>3. UNCHANGED <<wiki, index, deck, results, told, ended, generated, shown, writers, commands>>
  BY <1>2 DEF Renamed, session, counts
<1>4. CASE name \notin DOMAIN tmps
  BY <1>2, <1>3, <1>4, GoesIdle DEF Renamed
<1>5. CASE name \in DOMAIN tmps
  <2>1. /\ proc[p] \in Process /\ Phased(proc[p]) /\ Holds(proc[p]) /\ Keeps(proc[p])
        /\ Busy(proc[p])
    BY <1>2 DEF Inv, Typed, Seen, Stored, Busy, Generating, Writing
  <2>2. /\ w \in Process /\ w.n = proc[p].n /\ w.topic = proc[p].topic
        /\ w.cards = proc[p].cards /\ w.quiz = proc[p].quiz /\ w.step = "trace" /\ w.at = proc[p].at
    BY <1>1, <2>1 DEF Process, Generating, Writing
  <2>3. Phased(w) /\ Holds(w)
    BY <1>2, <2>1, <2>2 DEF Phased, Holds, Generating, Writing, Session
  <2>4. Moves(p, w)
    BY <1>2, <1>3, <1>5, <2>1, <2>2, <2>3 DEF Moves, Renamed
  <2>5. /\ files' = Put(files, name, tmps[name]) /\ tmps' = Drop(tmps, name)
        /\ ever' = Put(ever, name, Had(ever, name) \cup {tmps[name]})
    BY <1>2, <1>5 DEF Renamed
  <2>6. ASSUME NEW k \in Passed(w)
        PROVE  Kept(w.n, <<"card", Names(w.cards, w.topic)[k]>>, k)'
    <3>1. Kept(w.n, <<"card", Names(w.cards, w.topic)[k]>>, k)
      BY <1>2, <2>1, <2>2 DEF Keeps, Passed, Writing
    <3>2. \A x \in DOMAIN ever : x \in DOMAIN ever' /\ ever[x] \subseteq ever'[x]
      BY <2>5 DEF Put, Had
    <3>3. QED
      BY <1>3, <3>1, <3>2, KeptGrows
  <2>7. w.step \notin {"insert", "search", "rename"} /\ w.step \notin Session
    BY <2>2 DEF Session
  <2> HIDE DEF name
  <2>8. QED
    BY <1>3, <1>5, <2>3, <2>4, <2>5, <2>6, <2>7, RenamedInv
<1>6. QED
  BY <1>4, <1>5

-----------------------------------------------------------------------------
(* The index *)

LEMMA InsertInv ==
    ASSUME Inv, NEW p \in Procs, Insert(p)
    PROVE  Inv'
<1>1. /\ UNCHANGED <<wiki, files, tmps, ever, writers, deck, results, told, ended, generated, shown, commands>>
      /\ proc[p].step = "insert"
  BY DEF Insert, store, session, counts, At
<1>2. CASE Become(p, Idle) /\ UNCHANGED index
  BY <1>1, <1>2, GoesIdle
<1>3. ASSUME NEW g \in proc[p].todo, g \in wiki, index' = [index EXCEPT ![g] = @ + 1],
             Become(p, [proc[p] EXCEPT !.todo = @ \ {g}, !.step = Filling(proc[p].todo \ {g})])
      PROVE  Inv'
  <2>1. PICK w : w = [proc[p] EXCEPT !.todo = @ \ {g}, !.step = Filling(proc[p].todo \ {g})]
    OBVIOUS
  <2>2. /\ proc[p] \in Process /\ Phased(proc[p]) /\ Holds(proc[p]) /\ Busy(proc[p])
        /\ Rebuilding(p) /\ proc[p].n \in 1..commands /\ g \in Pages
    BY <1>1, <1>3, SMTT(30) DEF Inv, Typed, Seen, Busy, Generating, Rebuilding, Distinct
  <2>3. /\ w \in Process /\ w.n = proc[p].n /\ w.topic = proc[p].topic /\ w.at = proc[p].at
        /\ w.cards = proc[p].cards /\ w.quiz = proc[p].quiz /\ w.alone = proc[p].alone
        /\ w.todo = proc[p].todo \ {g} /\ w.step \in {"insert", "search"}
        /\ w.step = "search" => w.todo = {}
    BY <2>1, <2>2 DEF Process, Generating, Filling
  <2>4. Phased(w) /\ Holds(w) /\ Keeps(w) /\ w.step \notin Session
    BY <1>1, <2>2, <2>3 DEF Phased, Holds, Keeps, Generating, Writing, Session
  <2>5. Moves(p, w)
    BY <1>1, <1>3, <2>1, <2>2, <2>3, <2>4 DEF Moves
  <2>6. /\ index \in [Pages -> Nat] /\ index' \in [Pages -> Nat] /\ index'[g] = index[g] + 1
        /\ \A x \in Pages : x # g => index'[x] = index[x]
    BY <1>3, <2>2 DEF Inv, Typed
  <2>7. Typed'
    BY <1>1, <2>5, <2>6, MovesIs DEF Inv, Typed
  <2>8. /\ \A c \in deck' : CardSeen(c)
        /\ \A z \in generated' : Reported(z)
    BY <1>1 DEF Inv, Seen, Stored
  <2>9. Distinct' /\ Seen' /\ Stored' /\ Recorded'
    BY <1>1, <2>4, <2>5, <2>8, MovesIs, SeenMoves, StoredMoves, RecordedMoves
  <2>10. proc'[p] = w /\ \A q \in Procs : q # p => proc'[q] = proc[q]
    BY <2>5, MovesIs
  <2>11. ASSUME NEW q \in Procs, Rebuilding(q)', proc'[q].alone
         PROVE  /\ \A s \in Procs : Rebuilding(s)' => s = q
                /\ proc'[q].todo \subseteq wiki'
                /\ \A x \in Pages : index'[x] = IF x \in wiki' \ proc'[q].todo THEN 1 ELSE 0
    <3>1. Rebuilding(q) /\ proc[q].alone /\ \A s \in Procs : Rebuilding(s)' => Rebuilding(s)
      BY <2>2, <2>3, <2>10, <2>11 DEF Rebuilding
    <3>2. /\ \A s \in Procs : Rebuilding(s) => s = q
          /\ proc[q].todo \subseteq wiki
          /\ \A x \in Pages : index[x] = IF x \in wiki \ proc[q].todo THEN 1 ELSE 0
      BY <3>1 DEF Inv, Indexing
    <3>3. q = p
      BY <2>2, <3>2
    <3>4. ASSUME NEW x \in Pages
          PROVE  index'[x] = IF x \in wiki' \ proc'[q].todo THEN 1 ELSE 0
      <4>1. CASE x = g
        BY <1>1, <1>3, <2>3, <2>6, <2>10, <3>2, <3>3, <4>1
      <4>2. CASE x # g
        BY <1>1, <2>3, <2>6, <2>10, <3>2, <3>3, <4>2
      <4>3. QED
        BY <4>1, <4>2
    <3>5. QED
      BY <1>1, <2>3, <2>10, <3>1, <3>2, <3>3, <3>4
  <2>12. ASSUME NEW x \in Pages
         PROVE  index'[x] + Cardinality(Pending(x)') <= commands'
    <3>1. /\ IsFiniteSet(Pending(x)) /\ Cardinality(Pending(x)) \in Nat
          /\ index[x] + Cardinality(Pending(x)) <= commands /\ commands \in Nat
      BY PendingIs DEF Inv, Indexing, Typed
    <3>2. Pending(x)' \subseteq Pending(x)
      <4>1. ASSUME NEW n \in Pending(x)' PROVE n \in Pending(x)
        <5>1. PICK q \in Procs : proc'[q].step = "insert" /\ proc'[q].n = n /\ x \in proc'[q].todo
          BY DEF Pending, At
        <5>2. proc[q].step = "insert" /\ proc[q].n = n /\ x \in proc[q].todo
          BY <1>1, <2>3, <2>10, <5>1
        <5>3. n \in 1..commands
          BY <1>1 DEF Pending
        <5>4. QED
          BY <5>2, <5>3 DEF Pending, At
      <4>2. QED
        BY <4>1
    <3>3. Cardinality(Pending(x)') \in Nat /\ Cardinality(Pending(x)') <= Cardinality(Pending(x))
      BY <3>1, <3>2, FS_Subset, FS_CardinalityType
    <3>4. CASE x # g
      BY <1>1, <2>6, <3>1, <3>3, <3>4
    <3>5. CASE x = g
      <4>1. proc[p].n \in Pending(g)
        BY <1>1, <1>3, <2>2 DEF Pending, At
      <4>2. proc[p].n \notin Pending(g)'
        <5>1. ASSUME NEW q \in Procs, proc'[q].step = "insert", proc'[q].n = proc[p].n,
                     g \in proc'[q].todo
              PROVE  FALSE
          <6>1. q # p
            BY <2>3, <2>10, <5>1
          <6>2. Busy(proc[q]) /\ proc[q].n = proc[p].n
            BY <2>10, <5>1, <6>1 DEF Busy, Generating
          <6>3. QED
            BY <2>2, <6>1, <6>2 DEF Inv, Distinct
        <5>2. QED
          BY <5>1 DEF Pending, At
      <4>3. Pending(g)' \subseteq Pending(g) \ {proc[p].n}
        BY <3>2, <3>5, <4>2
      <4>4. /\ IsFiniteSet(Pending(g) \ {proc[p].n})
            /\ Cardinality(Pending(g) \ {proc[p].n}) = Cardinality(Pending(g)) - 1
        BY <3>1, <3>5, <4>1, FS_RemoveElement
      <4>5. Cardinality(Pending(g)') <= Cardinality(Pending(g)) - 1
        BY <4>3, <4>4, FS_Subset
      <4>6. index[g] \in Nat
        BY <2>2, <2>6
      <4>7. QED
        BY <1>1, <2>6, <3>1, <3>3, <3>5, <4>5, <4>6
    <3>6. QED
      BY <3>4, <3>5
  <2>13. Indexing'
    BY <2>11, <2>12 DEF Indexing
  <2>14. QED
    BY <2>7, <2>9, <2>13 DEF Inv
<1>4. QED
  BY <1>2, <1>3 DEF Insert

LEMMA GenerateInv ==
    ASSUME Inv, NEW p \in Procs, NEW topic \in Topics, Generate(p, topic)
    PROVE  Inv'
<1>1. PICK w : w = [Idle EXCEPT !.step = Filling(wiki), !.n = commands + 1, !.topic = topic,
                                !.todo = wiki, !.alone = ~\E q \in Procs : Rebuilding(q)]
  OBVIOUS
<1>2. /\ UNCHANGED <<wiki, files, tmps, ever, writers, deck, results, told, ended, generated, shown>>
      /\ proc[p].step = "idle" /\ index' = Emptied /\ proc' = [Disturbed EXCEPT ![p] = w]
      /\ commands < MaxCommands /\ commands' = commands + 1
  BY <1>1 DEF Generate, store, session, At, Starts
<1>3. wiki \subseteq Pages /\ commands \in Nat /\ commands' \in Nat /\ commands' \in 0..MaxCommands
      /\ commands <= commands'
  BY <1>2, RecallAssumption DEF Inv, Typed
<1>4. /\ w.step = Filling(wiki) /\ w.n = commands + 1 /\ w.topic = topic /\ w.todo = wiki
      /\ w.alone = (~\E q \in Procs : Rebuilding(q)) /\ w.at = 1
  BY <1>1 DEF Idle
<1>5. w.step \in {"insert", "search"} /\ (w.step = "search" => w.todo = {})
  BY <1>4 DEF Filling
<1>6. w \in Process
  <2>1. Idle \in Process /\ commands + 1 \in 0..MaxCommands
        /\ Filling(wiki) \in {"insert", "search"}
    BY <1>2, <1>3, <1>4, <1>5, IdleIs
  <2>2. QED
    BY <1>1, <1>3, <2>1, ZenonT(40) DEF Process, Generating
<1>7. Phased(w) /\ w.step \notin Session /\ w.step \notin Writing
  BY <1>4, <1>5 DEF Phased, Session, Writing
<1>8. /\ proc' \in [Procs -> Process] /\ proc'[p] = w
      /\ \A q \in Procs : q # p => Alike(proc[q], proc'[q]) /\ (Rebuilding(q) => ~proc'[q].alone)
      /\ \A q \in Procs : Phased(proc'[q])
  BY <1>2, <1>6, <1>7, DisturbedIs DEF Inv
<1>9. Typed'
  <2>1. index' \in [Pages -> Nat]
    BY <1>2 DEF Emptied
  <2>2. DOMAIN shown' \subseteq 1..commands'
    BY <1>2, <1>3 DEF Inv, Typed
  <2>3. QED
    BY <1>2, <1>3, <1>8, <2>1, <2>2 DEF Inv, Typed
<1>10. \A q \in Procs : q # p => GoesOn(q)
  BY <1>8, AlikeGoesOn
<1>11. Distinct'
  BY <1>2, <1>3, <1>4, <1>8, <1>10, DistinctNew DEF Inv
<1>12. Indexing'
  <2>1. ASSUME NEW q \in Procs, Rebuilding(q)', proc'[q].alone
        PROVE  /\ \A s \in Procs : Rebuilding(s)' => s = q
               /\ proc'[q].todo \subseteq wiki'
               /\ \A x \in Pages : index'[x] = IF x \in wiki' \ proc'[q].todo THEN 1 ELSE 0
    <3>1. \A s \in Procs : s # p => (Rebuilding(s)' <=> Rebuilding(s))
      BY <1>8 DEF Rebuilding, Alike
    <3>2. q = p
      BY <1>8, <2>1, <3>1
    <3>3. \A s \in Procs : ~Rebuilding(s)
      BY <1>4, <1>8, <2>1, <3>2
    <3>4. \A x \in Pages : index'[x] = 0
      BY <1>2 DEF Emptied
    <3>5. QED
      BY <1>2, <1>4, <1>8, <3>1, <3>2, <3>3, <3>4
  <2>2. ASSUME NEW x \in Pages PROVE index'[x] + Cardinality(Pending(x)') <= commands'
    <3>1. index'[x] = 0
      BY <1>2 DEF Emptied
    <3>2. Pending(x)' \subseteq 1..commands'
      BY DEF Pending
    <3>3. IsFiniteSet(1..commands') /\ Cardinality(1..commands') = commands'
      BY <1>3, FS_Interval
    <3>4. Cardinality(Pending(x)') \in Nat /\ Cardinality(Pending(x)') <= commands'
      BY <3>2, <3>3, FS_Subset, FS_CardinalityType
    <3>5. QED
      BY <3>1, <3>4
  <2>3. QED
    BY <2>1, <2>2 DEF Indexing
<1>13. Seen'
  <2>1. w.n \notin DOMAIN shown
    BY <1>3, <1>4 DEF Inv, Typed
  <2>2. Holds(proc[p])'
    BY <1>2, <1>5, <1>7, <1>8, <2>1 DEF Holds
  <2>3. \A c \in deck' : CardSeen(c)
    BY <1>2 DEF Inv, Seen
  <2>4. QED
    BY <1>2, <1>8, <2>2, <2>3, SeenStays DEF Inv
<1>14. Stored'
  <2>1. Keeps(proc[p])'
    BY <1>5, <1>7, <1>8 DEF Keeps
  <2>2. \A g \in generated' : Reported(g)
    BY <1>2 DEF Inv, Stored
  <2>3. QED
    BY <1>2, <1>8, <2>1, <2>2, StoredStays DEF Inv
<1>15. Recorded'
  <2>1. \A q \in Procs : GoesOn(q) \/ proc'[q].n = commands + 1
    BY <1>4, <1>8, <1>10
  <2>2. \A q \in Procs : proc'[q].step \in Session => Alike(proc[q], proc'[q]) \/ Sits(proc[q])'
    BY <1>7, <1>8
  <2>3. /\ \A s \in ended : s.n <= commands
        /\ \A s \in ended : s.n \in Nat
        /\ \A i \in 1..Len(results) : results[i].n \in Nat
        /\ \A h \in told : h.n \in Nat
    BY RecordsAre DEF Inv, Recorded
  <2>4. Recorded /\ UNCHANGED <<results, told, ended>>
    BY <1>2 DEF Inv
  <2>5. QED
    BY <1>3, <2>1, <2>2, <2>3, <2>4, RecordedStays
<1>16. QED
  BY <1>9, <1>11, <1>12, <1>13, <1>14, <1>15 DEF Inv

LEMMA EditInv ==
    ASSUME Inv, NEW g \in Pages, Edit(g)
    PROVE  Inv'
<1>1. /\ UNCHANGED <<index, files, tmps, ever, writers, deck, results, told, ended, generated, shown, commands>>
      /\ proc' = Disturbed /\ wiki' = IF g \in wiki THEN wiki \ {g} ELSE wiki \cup {g}
  BY DEF Edit, store, session
<1>2. commands \in Nat /\ commands' \in Nat /\ commands <= commands'
  BY <1>1 DEF Inv, Typed
<1>3. /\ proc' \in [Procs -> Process]
      /\ \A q \in Procs : /\ Alike(proc[q], proc'[q]) /\ Phased(proc'[q])
                          /\ Rebuilding(q) => ~proc'[q].alone
  BY <1>1, DisturbedIs DEF Inv
<1>4. wiki' \subseteq Pages
  BY <1>1 DEF Inv, Typed
<1>5. Typed'
  BY <1>1, <1>3, <1>4 DEF Inv, Typed
<1>6. \A q \in Procs : GoesOn(q)
  BY <1>3, AlikeGoesOn
<1>7. Distinct'
  BY <1>2, <1>6, DistinctStays DEF Inv
<1>8. Indexing'
  <2>1. \A q \in Procs : Rebuilding(q)' => ~proc'[q].alone
    BY <1>3 DEF Rebuilding, Alike
  <2>2. \A x \in Pages : Pending(x)' = Pending(x)
    BY <1>1, <1>3 DEF Pending, At, Alike
  <2>3. QED
    BY <1>1, <2>1, <2>2 DEF Indexing, Inv
<1>9. /\ \A c \in deck' : CardSeen(c)
      /\ \A z \in generated' : Reported(z)
  BY <1>1 DEF Inv, Seen, Stored
<1>10. Seen' /\ Stored'
  BY <1>1, <1>3, <1>9, SeenStays, StoredStays DEF Inv
<1>11. Recorded'
  <2>1. \A q \in Procs : GoesOn(q) \/ proc'[q].n = commands + 1
    BY <1>6
  <2>2. \A q \in Procs : proc'[q].step \in Session => Alike(proc[q], proc'[q]) \/ Sits(proc[q])'
    BY <1>3
  <2>3. /\ \A s \in ended : s.n <= commands
        /\ \A s \in ended : s.n \in Nat
        /\ \A i \in 1..Len(results) : results[i].n \in Nat
        /\ \A h \in told : h.n \in Nat
    BY RecordsAre DEF Inv, Recorded
  <2>4. Recorded /\ UNCHANGED <<results, told, ended>>
    BY <1>1 DEF Inv
  <2>5. QED
    BY <1>2, <2>1, <2>2, <2>3, <2>4, RecordedStays
<1>12. QED
  BY <1>5, <1>7, <1>8, <1>10, <1>11 DEF Inv

-----------------------------------------------------------------------------
(* The theorems *)

LEMMA NextInv ==
    ASSUME Inv, [Next]_vars
    PROVE  Inv'
<1>1. CASE UNCHANGED vars
  <2>1. UNCHANGED <<wiki, index, files, tmps, deck, results, generated, told, ended, proc,
                    shown, ever, writers, commands>>
    BY <1>1 DEF vars
  <2>2. Typed' /\ Distinct'
    BY <2>1 DEF Inv, Typed, Distinct
  <2>3. Indexing'
    BY <2>1 DEF Inv, Indexing, Pending, Rebuilding, At
  <2>4. commands \in Nat /\ commands' \in Nat /\ commands <= commands'
    BY <2>1 DEF Inv, Typed
  <2>5. \A q \in Procs : Alike(proc[q], proc'[q]) /\ GoesOn(q)
    BY <2>1 DEF Alike, GoesOn
  <2>6. /\ \A c \in deck' : CardSeen(c)
        /\ \A z \in generated' : Reported(z)
    BY <2>1 DEF Inv, Seen, Stored
  <2>7. Seen' /\ Stored'
    BY <2>1, <2>5, <2>6, SeenStays, StoredStays DEF Inv
  <2>8. Recorded'
    <3>1. /\ \A s \in ended : s.n <= commands
          /\ \A s \in ended : s.n \in Nat
          /\ \A i \in 1..Len(results) : results[i].n \in Nat
          /\ \A h \in told : h.n \in Nat
      BY RecordsAre DEF Inv, Recorded
    <3>2. Recorded /\ UNCHANGED <<results, told, ended>>
      BY <2>1 DEF Inv
    <3>3. QED
      BY <2>4, <2>5, <3>1, <3>2, RecordedStays
  <2>9. QED
    BY <2>2, <2>3, <2>7, <2>8 DEF Inv
<1>2. CASE Next
  <2>1. ASSUME NEW p \in Procs, NEW t \in Topics, Generate(p, t) PROVE Inv'
    BY <2>1, GenerateInv
  <2>2. ASSUME NEW p \in Procs, NEW t \in Topics, NEW given \in Given, OpenQuiz(p, t, given)
        PROVE  Inv'
    BY <2>2, OpenQuizInv
  <2>3. ASSUME NEW p \in Procs, Insert(p) \/ Search(p) \/ Ask(p) \/ StageCard(p) \/ RenameCard(p)
        PROVE  Inv'
    BY <2>3, InsertInv, SearchInv, AskInv, StageCardInv, RenameCardInv
  <2>4. ASSUME NEW p \in Procs, StageQuiz(p) \/ RenameQuiz(p) \/ TraceGenerate(p)
        PROVE  Inv'
    BY <2>4, StageQuizInv, RenameQuizInv, TraceGenerateInv
  <2>5. ASSUME NEW p \in Procs, Answer(p) \/ Record(p) \/ Weigh(p) \/ Tell(p)
        PROVE  Inv'
    BY <2>5, AnswerInv, RecordInv, WeighInv, TellInv
  <2>6. ASSUME NEW p \in Procs, NEW t \in Topics \cup {None}, Export(p, t) PROVE Inv'
    BY <2>6, ExportInv
  <2>7. ASSUME NEW p \in Procs, WriteDeck(p) \/ Stops(p) PROVE Inv'
    BY <2>7, WriteDeckInv, StopsInv
  <2>8. ASSUME NEW g \in Pages, Edit(g) PROVE Inv'
    BY <2>8, EditInv
  <2>9. QED
    BY <1>2, <2>1, <2>2, <2>3, <2>4, <2>5, <2>6, <2>7, <2>8 DEF Next
<1>3. QED
  BY <1>1, <1>2

LEMMA Inductive == Spec => []Inv
<1>1. Init => Inv
  BY InitInv
<1>2. Inv /\ [Next]_vars => Inv'
  BY NextInv
<1>3. QED
  BY <1>1, <1>2, PTL DEF Spec

-----------------------------------------------------------------------------
(* Scores whose query failed *)

\* The sessions about to trace such a score, and the traces of one.
Blind(r) == r.step = "tell" /\ r.score = Unread
Waiting == {p \in Procs : Blind(proc[p])}
Zeroes == {h \in told : h.score = Unread}
Blinded ==
    /\ upsets \in Nat /\ IsFiniteSet(Waiting) /\ IsFiniteSet(Zeroes)
    /\ Cardinality(Waiting) + Cardinality(Zeroes) <= upsets

\* No session has become one of them.
Clear == \A p \in Procs : Blind(proc[p])' => Blind(proc[p])

LEMMA ClearStays ==
    ASSUME Blinded, Clear, told' = told, upsets' \in {upsets, upsets + 1}
    PROVE  Blinded'
<1>1. Waiting' \subseteq Waiting /\ Zeroes' = Zeroes
  BY DEF Clear, Waiting, Zeroes, Blind
<1>2. IsFiniteSet(Waiting') /\ Cardinality(Waiting') <= Cardinality(Waiting)
  BY <1>1, FS_Subset DEF Blinded
<1>3. Cardinality(Waiting') \in Nat /\ Cardinality(Waiting) \in Nat /\ Cardinality(Zeroes) \in Nat
  BY <1>2, FS_CardinalityType DEF Blinded
<1>4. QED
  BY <1>1, <1>2, <1>3 DEF Blinded

\* It has not if one process moves on, and not to tell of a failed query.
LEMMA MovesClear ==
    ASSUME Inv, NEW p \in Procs, NEW r, Become(p, r), ~Blind(r)
    PROVE  Clear
BY DEF Become, Clear, Blind, Inv, Typed

LEMMA DisturbedClear ==
    ASSUME Inv, NEW p \in Procs, NEW r, proc' = [Disturbed EXCEPT ![p] = r], r.step # "tell"
    PROVE  Clear
<1>1. Disturbed \in [Procs -> Process] /\ \A q \in Procs : Alike(proc[q], Disturbed[q])
  BY DisturbedIs DEF Inv
<1>2. \A q \in Procs : q # p => proc'[q] = Disturbed[q]
  BY <1>1
<1>3. proc'[p] = r
  BY <1>1
<1>4. QED
  BY <1>1, <1>2, <1>3 DEF Clear, Blind, Alike

LEMMA GenerationClear ==
    ASSUME Inv, NEW p \in Procs,
           \/ Insert(p) \/ Search(p) \/ Ask(p) \/ StageCard(p) \/ RenameCard(p)
           \/ StageQuiz(p) \/ RenameQuiz(p) \/ TraceGenerate(p) \/ WriteDeck(p)
    PROVE  Clear /\ UNCHANGED <<told, upsets>>
<1> USE DEF session, counts
<1>0. proc[p] \in Process /\ Idle.step # "tell"
  BY IdleIs DEF Inv, Typed
<1>1. CASE Insert(p)
  <2>1. CASE Become(p, Idle)
    BY <1>0, <1>1, <2>1, MovesClear DEF Blind, Insert
  <2>2. CASE \E g \in proc[p].todo :
               Become(p, [proc[p] EXCEPT !.todo = @ \ {g}, !.step = Filling(proc[p].todo \ {g})])
    <3>1. PICK g \in proc[p].todo :
            Become(p, [proc[p] EXCEPT !.todo = @ \ {g}, !.step = Filling(proc[p].todo \ {g})])
      BY <2>2
    <3>2. [proc[p] EXCEPT !.todo = @ \ {g}, !.step = Filling(proc[p].todo \ {g})].step # "tell"
      BY <1>0 DEF Process, Filling
    <3>3. QED
      BY <1>1, <3>1, <3>2, MovesClear DEF Blind, Insert
  <2>3. QED
    BY <1>1, <2>1, <2>2 DEF Insert
<1>2. CASE Search(p)
  <2>1. Become(p, Idle) \/ Become(p, [proc[p] EXCEPT !.step = "ask", !.todo = {}, !.alone = TRUE])
    BY <1>2 DEF Search
  <2>2. [proc[p] EXCEPT !.step = "ask", !.todo = {}, !.alone = TRUE].step # "tell"
    BY <1>0 DEF Process
  <2>3. QED
    BY <1>0, <1>2, <2>1, <2>2, MovesClear DEF Blind, Search
<1>3. CASE Ask(p)
  <2>1. \/ Become(p, Idle)
        \/ \E c, z : Become(p, [proc[p] EXCEPT !.step = "card", !.cards = c, !.quiz = z])
    BY <1>3 DEF Ask
  <2>2. \A c, z : [proc[p] EXCEPT !.step = "card", !.cards = c, !.quiz = z].step # "tell"
    BY <1>0 DEF Process
  <2>3. QED
    BY <1>0, <1>3, <2>1, <2>2, MovesClear DEF Blind, Ask
<1>4. CASE StageCard(p) \/ StageQuiz(p)
  <2>1. PICK s \in {"rename", "finish"} : Become(p, [proc[p] EXCEPT !.step = s])
    BY <1>4 DEF StageCard, StageQuiz, Staged
  <2>2. [proc[p] EXCEPT !.step = s].step # "tell"
    BY <1>0, <2>1 DEF Process
  <2>3. QED
    BY <1>4, <2>1, <2>2, MovesClear DEF Blind, StageCard, StageQuiz, Staged
<1>5. CASE RenameCard(p) \/ RenameQuiz(p)
  <2>1. \/ Become(p, Idle)
        \/ Become(p, [proc[p] EXCEPT !.step = "trace"])
        \/ Become(p, [proc[p] EXCEPT !.at = IF @ = Len(proc[p].cards) THEN @ ELSE @ + 1,
                    !.step = IF proc[p].at = Len(proc[p].cards) THEN "quiz" ELSE "card"])
    BY <1>5 DEF RenameCard, RenameQuiz, Renamed
  <2>2. [proc[p] EXCEPT !.step = "trace"].step # "tell"
    BY <1>0 DEF Process
  <2>3. [proc[p] EXCEPT !.at = IF @ = Len(proc[p].cards) THEN @ ELSE @ + 1,
           !.step = IF proc[p].at = Len(proc[p].cards) THEN "quiz" ELSE "card"].step # "tell"
    BY <1>0 DEF Process
  <2>4. QED
    BY <1>0, <1>5, <2>1, <2>2, <2>3, MovesClear DEF Blind, RenameCard, RenameQuiz, Renamed
<1>6. CASE TraceGenerate(p) \/ WriteDeck(p)
  BY <1>0, <1>6, MovesClear DEF Blind, TraceGenerate, WriteDeck
<1>7. QED
  BY <1>1, <1>2, <1>3, <1>4, <1>5, <1>6

LEMMA BeginsClear ==
    ASSUME Inv, NEW p \in Procs, NEW t, NEW given,
           Generate(p, t) \/ OpenQuiz(p, t, given) \/ Export(p, t)
    PROVE  Clear /\ UNCHANGED <<told, upsets>>
<1> USE DEF session
<1>1. CASE Generate(p, t)
  <2> DEFINE w == [Idle EXCEPT !.step = Filling(wiki), !.n = commands + 1, !.topic = t,
                               !.todo = wiki, !.alone = ~\E q \in Procs : Rebuilding(q)]
  <2>0. w.step = Filling(wiki) /\ proc' = [Disturbed EXCEPT ![p] = w]
    BY <1>1 DEF Generate, Idle
  <2> HIDE DEF w
  <2>1. PICK r : proc' = [Disturbed EXCEPT ![p] = r] /\ r.step = Filling(wiki)
    BY <2>0
  <2>2. r.step # "tell"
    BY <2>1 DEF Filling
  <2>3. QED
    BY <1>1, <2>1, <2>2, DisturbedClear DEF Generate
<1>2. CASE OpenQuiz(p, t, given)
  <2> DEFINE f == QuizName(t)
             w == [Idle EXCEPT !.step = "answer", !.n = commands + 1, !.given = given,
                               !.topic = files[f].topic, !.quiz = files[f].items]
  <2>0. w.step = "answer" /\ Become(p, w)
    BY <1>2 DEF OpenQuiz, Idle
  <2> HIDE DEF w
  <2>1. PICK r : Become(p, r) /\ r.step = "answer"
    BY <2>0
  <2>2. QED
    BY <1>2, <2>1, MovesClear DEF Blind, OpenQuiz
<1>3. CASE Export(p, t)
  <2> DEFINE w == [Idle EXCEPT !.step = "export", !.read = Wanted(t)]
  <2>0. w.step = "export" /\ Become(p, w)
    BY <1>3 DEF Export, Idle
  <2> HIDE DEF w
  <2>1. PICK r : Become(p, r) /\ r.step = "export"
    BY <2>0
  <2>2. QED
    BY <1>3, <2>1, MovesClear DEF Blind, Export
<1>4. QED
  BY <1>1, <1>2, <1>3

\* A score that was counted has at least its own row.
LEMMA ScoreIsCounted ==
    ASSUME Inv, NEW p \in Procs, At(p, "weigh")
    PROVE  Score(p) # Unread
<1>1. Len(results) \in Nat /\ DOMAIN results = 1..Len(results)
  BY RecordsAre DEF Inv
<1>2. Sits(proc[p]) /\ proc[p].step = "weigh"
  BY DEF Inv, Recorded, At, Session
<1>3. PICK i \in 1..Len(results) : results[i].concept = Own(proc[p])
  BY <1>2 DEF Sits, InPlay
<1> DEFINE of == {j \in DOMAIN results : results[j].concept = Own(proc[p])}
<1>4. of \in SUBSET DOMAIN results /\ i \in of
  BY <1>1, <1>3
<1>5. Score(p)[2] = Cardinality(of)
  BY DEF Score, Tally
<1> HIDE DEF of
<1>6. IsFiniteSet(of) /\ Cardinality(of) # 0
  <2>1. IsFiniteSet(DOMAIN results)
    BY <1>1, FS_Interval
  <2>2. IsFiniteSet(of)
    BY <1>4, <2>1, FS_Subset
  <2>3. QED
    BY <1>4, <2>2, FS_EmptySet
<1>7. QED
  BY <1>5, <1>6 DEF Unread

\* One more element is at most one more.
LEMMA OneMore ==
    ASSUME NEW S, IsFiniteSet(S), NEW x
    PROVE  IsFiniteSet(S \cup {x}) /\ Cardinality(S \cup {x}) <= Cardinality(S) + 1
<1>1. Cardinality(S) \in Nat
  BY FS_CardinalityType
<1>2. /\ IsFiniteSet(S \cup {x})
      /\ Cardinality(S \cup {x}) = IF x \in S THEN Cardinality(S) ELSE Cardinality(S) + 1
  BY FS_AddElement
<1>3. QED
  BY <1>1, <1>2

LEMMA WeighBlinds ==
    ASSUME Inv, Blinded, NEW p \in Procs, Weigh(p)
    PROVE  Blinded'
<1>1. told' = told /\ proc[p] \in Process /\ At(p, "weigh")
  BY DEF Weigh, session, Inv, Typed
<1>2. CASE Become(p, [proc[p] EXCEPT !.step = "tell", !.score = Score(p)]) /\ UNCHANGED upsets
  <2> DEFINE w == [proc[p] EXCEPT !.step = "tell", !.score = Score(p)]
  <2>1. w.score = Score(p)
    BY <1>1 DEF Process
  <2>2. ~Blind(w)
    BY <1>1, <2>1, ScoreIsCounted DEF Blind
  <2> HIDE DEF w
  <2>3. Become(p, w)
    BY <1>2 DEF w
  <2>4. Clear
    BY <2>2, <2>3, MovesClear
  <2>5. QED
    BY <1>1, <1>2, <2>4, ClearStays
<1>3. CASE Become(p, [proc[p] EXCEPT !.step = "tell", !.score = Unread]) /\ Upset
  <2>1. Waiting' \subseteq Waiting \cup {p} /\ Zeroes' = Zeroes
    <3>1. \A q \in Procs : q # p => proc'[q] = proc[q]
      BY <1>3 DEF Become, Inv, Typed
    <3>2. QED
      BY <1>1, <3>1 DEF Waiting, Zeroes, Blind
  <2>2. IsFiniteSet(Waiting \cup {p}) /\ Cardinality(Waiting \cup {p}) <= Cardinality(Waiting) + 1
    <3>1. IsFiniteSet(Waiting)
      BY DEF Blinded
    <3>2. QED
      BY <3>1, OneMore
  <2>3. IsFiniteSet(Waiting') /\ Cardinality(Waiting') <= Cardinality(Waiting \cup {p})
    BY <2>1, <2>2, FS_Subset
  <2>4. Cardinality(Waiting') \in Nat /\ Cardinality(Waiting) \in Nat
        /\ Cardinality(Zeroes) \in Nat /\ Cardinality(Waiting \cup {p}) \in Nat
    BY <2>2, <2>3, FS_CardinalityType DEF Blinded
  <2>5. upsets' = upsets + 1 /\ upsets \in Nat
    BY <1>3 DEF Upset, Blinded
  <2>6. QED
    BY <2>1, <2>2, <2>3, <2>4, <2>5 DEF Blinded
<1>4. QED
  BY <1>2, <1>3 DEF Weigh

LEMMA TellBlinds ==
    ASSUME Inv, Blinded, NEW p \in Procs, Tell(p)
    PROVE  Blinded'
<1>1. proc[p] \in Process /\ proc[p].step = "tell" /\ upsets' = upsets
  BY DEF Tell, At, counts, Inv, Typed
<1> DEFINE u == [n |-> proc[p].n, q |-> proc[p].at, row |-> OwnRow(p), score |-> proc[p].score]
<1>0. told' = told \cup {u} /\ u.score = proc[p].score
  BY DEF Tell
<1> HIDE DEF u
<1>2. PICK t : told' = told \cup {t} /\ t.score = proc[p].score
  BY <1>0
<1>3. PICK r : Become(p, r) /\ r.step # "tell"
  <2>1. \/ Become(p, Idle)
        \/ Become(p, [proc[p] EXCEPT !.step = "answer", !.at = @ + 1])
    BY DEF Tell
  <2>2. [proc[p] EXCEPT !.step = "answer", !.at = @ + 1].step # "tell"
    BY <1>1 DEF Process
  <2>3. QED
    BY <2>1, <2>2, IdleIs
<1>4. Waiting' \subseteq Waiting \ {p}
  BY <1>3 DEF Become, Waiting, Blind, Inv, Typed
<1>5. Cardinality(Waiting) \in Nat /\ Cardinality(Zeroes) \in Nat /\ upsets \in Nat
  BY FS_CardinalityType DEF Blinded
<1>6. CASE proc[p].score = Unread
  <2>1. p \in Waiting /\ Zeroes' = Zeroes \cup {t}
    BY <1>1, <1>2, <1>6 DEF Waiting, Blind, Zeroes
  <2>2. IsFiniteSet(Waiting \ {p}) /\ Cardinality(Waiting \ {p}) = Cardinality(Waiting) - 1
    BY <2>1, FS_RemoveElement DEF Blinded
  <2>3. IsFiniteSet(Waiting') /\ Cardinality(Waiting') <= Cardinality(Waiting \ {p})
    <3>1. Waiting' \in SUBSET (Waiting \ {p})
      BY <1>4
    <3>2. QED
      BY <2>2, <3>1, FS_Subset
  <2>4. IsFiniteSet(Zeroes') /\ Cardinality(Zeroes') <= Cardinality(Zeroes) + 1
    <3>1. IsFiniteSet(Zeroes)
      BY DEF Blinded
    <3>2. IsFiniteSet(Zeroes \cup {t}) /\ Cardinality(Zeroes \cup {t}) <= Cardinality(Zeroes) + 1
      BY <3>1, OneMore
    <3>3. QED
      BY <2>1, <3>2
  <2>5. Cardinality(Waiting') \in Nat /\ Cardinality(Zeroes') \in Nat
    BY <2>3, <2>4, FS_CardinalityType
  <2>6. QED
    BY <1>1, <1>5, <2>2, <2>3, <2>4, <2>5 DEF Blinded
<1>7. CASE proc[p].score # Unread
  <2>1. Zeroes' = Zeroes
    BY <1>2, <1>7 DEF Zeroes
  <2>2. IsFiniteSet(Waiting') /\ Cardinality(Waiting') <= Cardinality(Waiting)
    BY <1>4, FS_Subset DEF Blinded
  <2>3. Cardinality(Waiting') \in Nat
    BY <2>2, FS_CardinalityType
  <2>4. QED
    BY <1>1, <1>5, <2>1, <2>2, <2>3 DEF Blinded
<1>8. QED
  BY <1>6, <1>7

LEMMA OthersBlind ==
    ASSUME Inv, Blinded,
           \/ \E p \in Procs : Answer(p) \/ Record(p) \/ Stops(p)
           \/ \E g \in Pages : Edit(g)
    PROVE  Blinded'
<1>1. ASSUME NEW p \in Procs, Answer(p) \/ Record(p) \/ Stops(p) PROVE Blinded'
  <2>1. proc[p] \in Process
    BY DEF Inv, Typed
  <2>2. told' = told /\ upsets' \in {upsets, upsets + 1}
    BY <1>1 DEF Answer, Record, Stops, session, counts, Upset
  <2>3. PICK r : Become(p, r) /\ r.step # "tell"
    <3>1. CASE Become(p, Idle)
      BY <3>1, IdleIs
    <3>2. CASE Answer(p) /\ ~Become(p, Idle)
      <4>1. PICK v : Become(p, [proc[p] EXCEPT !.step = "record", !.verdict = v])
        BY <3>2 DEF Answer
      <4>2. [proc[p] EXCEPT !.step = "record", !.verdict = v].step # "tell"
        BY <2>1 DEF Process
      <4>3. QED
        BY <4>1, <4>2
    <3>3. CASE Record(p)
      <4>1. [proc[p] EXCEPT !.step = "weigh"].step # "tell"
        BY <2>1 DEF Process
      <4>2. QED
        BY <3>3, <4>1 DEF Record
    <3>4. QED
      BY <1>1, <3>1, <3>2, <3>3 DEF Stops
  <2>4. QED
    BY <2>2, <2>3, MovesClear, ClearStays DEF Blind
<1>2. ASSUME NEW g \in Pages, Edit(g) PROVE Blinded'
  <2>1. told' = told /\ upsets' = upsets + 1 /\ proc' = Disturbed
    BY <1>2 DEF Edit, session, Upset
  <2>2. Clear
    BY <2>1, DisturbedIs DEF Clear, Blind, Alike, Inv
  <2>3. QED
    BY <2>1, <2>2, ClearStays
<1>3. QED
  BY <1>1, <1>2

LEMMA BlindedAlways == Spec => []Blinded
<1>1. Init => Blinded
  <2> SUFFICES ASSUME Init PROVE Blinded
    OBVIOUS
  <2>1. Waiting = {} /\ Zeroes = {} /\ upsets = 0
    BY IdleIs DEF Init, Waiting, Blind, Zeroes
  <2>2. QED
    BY <2>1, FS_EmptySet DEF Blinded
<1>2. Inv /\ Blinded /\ [Next]_vars => Blinded'
  <2> SUFFICES ASSUME Inv, Blinded, [Next]_vars PROVE Blinded'
    OBVIOUS
  <2>1. CASE UNCHANGED vars
    BY <2>1 DEF vars, Blinded, Waiting, Blind, Zeroes
  <2>2. ASSUME NEW p \in Procs, NEW t, NEW given,
               Generate(p, t) \/ OpenQuiz(p, t, given) \/ Export(p, t)
        PROVE  Blinded'
    BY <2>2, BeginsClear, ClearStays
  <2>3. ASSUME NEW p \in Procs,
           \/ Insert(p) \/ Search(p) \/ Ask(p) \/ StageCard(p) \/ RenameCard(p)
           \/ StageQuiz(p) \/ RenameQuiz(p) \/ TraceGenerate(p) \/ WriteDeck(p)
        PROVE  Blinded'
    BY <2>3, GenerationClear, ClearStays
  <2>4. ASSUME NEW p \in Procs, Weigh(p) \/ Tell(p) PROVE Blinded'
    BY <2>4, WeighBlinds, TellBlinds
  <2>5. QED
    BY <2>1, <2>2, <2>3, <2>4, OthersBlind DEF Next
<1>3. QED
  BY <1>1, <1>2, Inductive, PTL DEF Spec

-----------------------------------------------------------------------------
(* The theorems *)

\* Whatever is generated, asked and exported at once: the types, and that a page
\* has no more rows than there were commands (indexCompiledPages inserts one by one).
THEOREM TypeCorrect == Spec => []TypeOK
BY Inductive, InvIsTypeOK, PTL

\* A rebuild of the index that is not disturbed ends with one row for each page
\* of the wiki, also when it started on the rows of others (indexCompiledPages).
THEOREM RebuiltIsWiki == Spec => []RebuiltIndexIsWiki
<1>1. Inv => RebuiltIndexIsWiki
  <2> SUFFICES ASSUME Inv, NEW p \in Procs, At(p, "search"), proc[p].alone, NEW g \in Pages
               PROVE  index[g] = IF g \in wiki THEN 1 ELSE 0
    BY DEF RebuiltIndexIsWiki
  <2>1. proc[p].todo = {} /\ Rebuilding(p)
    BY DEF Inv, Typed, Phased, At, Rebuilding
  <2>2. QED
    BY <2>1 DEF Inv, Indexing
<1>2. QED
  BY <1>1, Inductive, PTL

\* A generation that reports its cards has written each under a name of its own,
\* where it could be read, unless another generation wrote a .tmp file of that
\* name (the cards of generateRecall).
THEOREM CardsAreVisible == Spec => []CardsWereVisible
<1>1. Inv => CardsWereVisible
  BY DEF Inv, Stored, Reported, Kept, CardsWereVisible
<1>2. QED
  BY <1>1, Inductive, PTL

\* No card, quiz or exported deck cites a page its generation was not shown, though
\* processes rename each other's files (parseModelResponse, parseQuizFile).
THEOREM NothingUnseenIsCited == Spec => []Grounded
<1>1. Inv => Grounded
  <2> SUFFICES ASSUME Inv PROVE Grounded
    OBVIOUS
  <2>1. ASSUME NEW f \in DOMAIN files, f[1] # "card", NEW q \in ToSet(files[f].items)
        PROVE  q.cites \subseteq shown[files[f].by]
    <3>1. files[f] \in QuizFile /\ QuizSeen(files[f])
      BY <2>1 DEF Inv, Typed, Seen, File, FileSeen
    <3>2. files[f].items \in Seq(Asked)
      BY <3>1 DEF QuizFile
    <3>3. PICK i \in 1..Len(files[f].items) : q = files[f].items[i]
      BY <3>2, LenProperties DEF ToSet
    <3>4. QED
      BY <3>1, <3>3 DEF QuizSeen
  <2>2. ASSUME NEW f \in DOMAIN files, f[1] = "card"
        PROVE  files[f].cites \subseteq shown[files[f].by]
    BY <2>2 DEF Inv, Seen, FileSeen, CardSeen
  <2>3. \A c \in deck : c.cites \subseteq shown[c.by]
    BY DEF Inv, Seen, CardSeen
  <2>4. QED
    BY <2>1, <2>2, <2>3 DEF Grounded
<1>2. QED
  BY <1>1, Inductive, PTL

\* A quiz that ends has a row and a trace for each question it read, in their
\* order, whatever others generate and answer meanwhile; each score counts its own
\* row, or is the 0 of a query that failed, and there are no more of those than
\* things that went wrong (insertRecallResult, computeRetention).
THEOREM SessionsAreWhole == Spec => []SessionIsWhole
<1>1. Inv /\ Blinded => SessionIsWhole
  <2> SUFFICES ASSUME Inv, Blinded PROVE SessionIsWhole
    OBVIOUS
  <2>1. DOMAIN results = 1..Len(results)
    BY RecordsAre DEF Inv
  <2>2. ASSUME NEW s \in ended
        PROVE  /\ {h.q : h \in {t \in told : t.n = s.n}} = DOMAIN s.items
               /\ \A h, t \in told : h.n = s.n /\ t.n = s.n /\ h.q < t.q => h.row < t.row
               /\ Cardinality({i \in DOMAIN results : results[i].n = s.n}) = Len(s.items)
               /\ \A h \in told : h.n = s.n =>
                     results[h.row].concept = Concept(s.items[h.q], s.topic)
    <3>1. Told(s.n, s.items, s.topic, Len(s.items)) /\ Cardinality(RowsOf(s.n)) = Len(s.items)
      BY DEF Inv, Recorded
    <3>2. DOMAIN s.items = 1..Len(s.items)
      BY RecordsAre, LenProperties DEF Inv
    <3>3. RowsOf(s.n) = {i \in DOMAIN results : results[i].n = s.n}
      BY <2>1 DEF RowsOf
    <3>4. TracesOf(s.n) = {t \in told : t.n = s.n}
      BY DEF TracesOf
    <3>5. QED
      BY <3>1, <3>2, <3>3, <3>4 DEF Told
  <2>3. \A h \in told :
           \/ \E m \in h.row..Len(results) :
                 h.score = Tally(SubSeq(results, 1, m), results[h.row].concept)
           \/ h.score = Unread
    BY DEF Inv, Recorded, Counted
  <2>4. Cardinality({h \in told : h.score = Unread}) <= upsets
    <3>1. Cardinality(Zeroes) \in Nat /\ Cardinality(Waiting) \in Nat
      BY FS_CardinalityType DEF Blinded
    <3>2. Cardinality(Zeroes) <= upsets
      BY <3>1 DEF Blinded
    <3>3. QED
      BY <3>2 DEF Zeroes
  <2>5. QED
    BY <2>2, <2>3, <2>4 DEF SessionIsWhole
<1>2. QED
  BY <1>1, Inductive, BlindedAlways, PTL

=============================================================================
