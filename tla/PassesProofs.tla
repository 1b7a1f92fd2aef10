---------------------------- MODULE PassesProofs ----------------------------
(***************************************************************************)
(* Proofs about the passes of `ico compile` (module Passes), for every     *)
(* set of sources, titles and drafts and every batch size: the types, that *)
(* receipts precede pages, that nothing the model was asked or answered is *)
(* dropped, and that a page is affected by the sources it cites.           *)
(*                                                                         *)
(* All four follow from one inductive invariant, Inv.  What it adds:       *)
(*   Typed     - a page is where its kind and title put it, and a summary  *)
(*               drew on its own source only;                              *)
(*   InHand    - the page at work is in its .tmp file, and what it has of  *)
(*               its row, provenance and trace is what its step says;      *)
(*   Linking   - the link pass changes backlinks and nothing else;         *)
(*   Complete  - the inputs are those asked about and those left, each raw *)
(*               page is refused, written or still to come;                *)
(*   Drew      - what the model was shown had been summarized, and in      *)
(*               extract by a source the pass has read;                    *)
(*   Citations - the junction has all a page cites of what it was shown,   *)
(*               as long as its row tells of that page and of no failure.  *)
(***************************************************************************)
EXTENDS Passes, FiniteSetTheorems, SequenceTheorems, WellFoundedInduction, TLAPS

\* The steps of a pass whose page at work is in its .tmp file,
AtWork == {"row", "attribute", "provenance", "trace", "publish"}
\* has its row rewritten,
Late == {"attribute", "provenance", "trace", "publish"}
\* or is the next to be written; and those of a pass that has asked all it had to ask.
Writing == {"stage"} \cup AtWork
Asked == {"merge", "reduce", "reduced", "done"} \cup Writing

RunSteps == {"idle", "ask", "link", "receipt", "rename"} \cup Asked

\* A page the model was asked for, and a page where it belongs.
Made(g) == g \in Page /\ g.kind # "summary" /\ g.title \in Titles /\ g.key = Key[g.title]
InPlace(g, p) ==
    IF g.kind = "summary" THEN p = <<"sources", g.title>> /\ g.drew \subseteq {g.title} \X (0..MaxEdits)
    ELSE Made(g) /\ p = PathOf(g)

\* The pass that runs: its inputs and batches, what was answered, the pages to write.
Run == [pass : Generative \cup {"none", "link"},
        step : RunSteps,
        left : Seq(SUBSET Paths), inputs : SUBSET Paths, blind : BOOLEAN,
        asked : SUBSET Paths, tries : Nat, raw : Seq(Page),
        given : SUBSET Keys, lost : SUBSET Keys, pages : Seq(Page), at : Nat,
        written : SUBSET (Keys \X Paths), refused : SUBSET Keys, todo : SUBSET Paths]

StoreTyped ==
    /\ wiki \in [Paths -> Page \cup {None}] /\ tmp \in [Paths -> Page \cup {None}]
    /\ \A p \in Paths : /\ wiki[p] # None => InPlace(wiki[p], p)
                        /\ tmp[p] # None => InPlace(tmp[p], p)
    /\ rows \in [Keys -> Row \cup {None}]
    /\ \A k \in Keys : rows[k] # None => rows[k].path[1] = DirOf[rows[k].kind]
    /\ junction \in [Keys -> SUBSET Ids]
    /\ provenance \subseteq (Ids \cup {Batch}) \X Paths
    /\ traces \subseteq (Keys \X Paths) \cup {LinkTrace}
    /\ index \subseteq Paths /\ torn \subseteq Paths

RawsTyped ==
    /\ edition \in [Sources -> 0..MaxEdits] /\ newest \in [Sources -> 0..MaxEdits]
    /\ edits \in 0..MaxEdits /\ commands \in Nat
    /\ summarized \subseteq Ids

\* What goes with which step: only generative passes ask and write, only link renames in one go.
Phased(r) ==
    /\ r.step = "idle" <=> r = Idle
    /\ r.step = "ask" => r.left # <<>>
    /\ r.step \in {"ask", "merge", "reduce", "reduced"} \cup Writing => r.pass \in Generative
    /\ r.step \in {"link", "receipt", "rename"} => r.pass = "link"
    /\ r.step \in Writing => r.pages # <<>>
    /\ \A i \in DOMAIN r.raw : Made(r.raw[i])
    /\ \A i \in DOMAIN r.pages : Made(r.pages[i])

Typed ==
    /\ StoreTyped /\ RawsTyped
    /\ run \in Run /\ Phased(run)
    /\ queue \in Seq(Generative \cup {"summarize", "link"})
    /\ run # Idle => queue # <<>>

\* What a page has left.
Receipted(k, p) ==
    /\ rows[k] # None /\ <<k, p>> \in traces
    /\ \E id \in Ids \cup {Batch} : <<id, p>> \in provenance

\* The page at work, from its .tmp file to its receipts.
InHand ==
    /\ run.step \in AtWork => tmp[PathOf(Now)] = Now
    /\ run.step \in Late => /\ rows[Now.key] # None /\ rows[Now.key].path = PathOf(Now)
    /\ run.step \in {"trace", "publish"} => \E id \in Ids \cup {Batch} : <<id, PathOf(Now)>> \in provenance
    /\ run.step = "publish" => <<Now.key, PathOf(Now)>> \in traces

\* A page but for its backlinks.
Alike(g, h) == g.key = h.key /\ g.kind = h.kind /\ g.cites = h.cites /\ g.drew = h.drew

Linking ==
    /\ run.pass = "link" => \A p \in run.todo : wiki[p] # None
    /\ run.step \in {"receipt", "rename"} =>
          \A p \in run.todo : tmp[p] # None /\ Alike(tmp[p], wiki[p])

Receipts == ReceiptsPrecede /\ InHand /\ Linking

\* Every input was asked about or is left; every raw page is refused, visible under a
\* title of its file name, or left.
Handled(r, k) ==
    \/ k \in r.refused
    \/ \E i \in DOMAIN r.pages : r.pages[i].key = k
    \/ \E w \in r.written : w[1] = k
Complete ==
    /\ run.step = "ask" => run.inputs = run.asked \cup UNION ToSet(run.left)
    /\ run.step \in Asked /\ run.pass \in Generative => run.inputs = run.asked
    /\ run.step \in Writing \cup {"done"} /\ run.pass \in Generative =>
          \A i \in DOMAIN run.raw : Handled(run, run.raw[i].key)
    /\ run.step = "done" /\ run.pass \in Generative => run.pages = <<>>
    /\ \A w \in run.written : w[2] \in Paths /\ \E v \in run.written : v[2] = w[2] /\ wiki[v[2]] # None /\ wiki[v[2]].key = v[1]

\* What was shown to the model had been summarized, by a source the pass read.
Shown(g) ==
    /\ g.drew \subseteq summarized
    /\ run.pass = "extract" => \A id \in g.drew : <<"sources", id[1]>> \in run.inputs
Drew ==
    /\ \A p \in Paths : wiki[p] # None => wiki[p].drew \subseteq summarized
    /\ \A i \in DOMAIN run.raw : Shown(run.raw[i])
    /\ \A i \in DOMAIN run.pages : Shown(run.pages[i])
    /\ run.pass = "extract" => /\ \A p \in run.inputs : p[1] = "sources"
                               /\ \A i \in DOMAIN run.left : run.left[i] \subseteq run.inputs
    /\ run.pass \in Generative => /\ \A p \in run.inputs : wiki[p] # None
                                  /\ run.asked \subseteq run.inputs
                                  /\ \A i \in DOMAIN run.left : run.left[i] \subseteq run.inputs

\* Its row tells of the page that can be seen, and of no failure.
Told(p) ==
    /\ rows[wiki[p].key] # None /\ rows[wiki[p].key].path = p /\ p \notin torn
    /\ ~(run.step \in Late /\ PathOf(Now) = p)
Citations ==
    /\ \A p \in Pages : Told(p) => wiki[p].cites \cap wiki[p].drew \subseteq junction[wiki[p].key]
    /\ run.step \in {"provenance", "trace", "publish"} =>
          Now.cites \cap Now.drew \subseteq junction[Now.key]

-----------------------------------------------------------------------------
(* Pages and paths *)

\* Each kind has its directory, and only summaries are sources.
LEMMA DirOfIs ==
    \A k \in Kinds : DirOf[k] \in Dirs /\ (DirOf[k] = "sources" <=> k = "summary")
BY DEF Kinds, CrossKinds, DirOf, Dirs

\* A page the model made has a place outside the sources.
LEMMA MadeIs ==
    ASSUME NEW g, Made(g)
    PROVE  /\ PathOf(g) \in Paths /\ PathOf(g)[1] = DirOf[g.kind] /\ PathOf(g)[1] # "sources"
           /\ InPlace(g, PathOf(g)) /\ g \in Page /\ g # None /\ g.key \in Keys
<1>1. g \in Page /\ g.kind \in Kinds /\ g.kind # "summary" /\ g.title \in Titles
  BY DEF Made, Page
<1>2. DirOf[g.kind] \in Dirs \ {"sources"}
  BY <1>1, DirOfIs
<1>3. PathOf(g) \in Paths
  BY <1>1, <1>2 DEF PathOf, Paths
<1>4. g # None /\ g.key \in Keys
  BY <1>1, NoneAssumption DEF Made, Keys
<1>5. QED
  BY <1>1, <1>2, <1>3, <1>4 DEF PathOf, InPlace

\* A page in its place has a path of its kind.
LEMMA InPlaceIs ==
    ASSUME NEW g \in Page, NEW p \in Paths, InPlace(g, p)
    PROVE  p[1] = DirOf[g.kind] /\ (p[1] = "sources" <=> g.kind = "summary")
<1>1. g.kind \in Kinds
  BY DEF Page
<1>2. CASE g.kind = "summary"
  BY <1>1, <1>2, DirOfIs DEF InPlace, DirOf
<1>3. CASE g.kind # "summary"
  BY <1>3, MadeIs DEF InPlace
<1>4. QED
  BY <1>2, <1>3

\* The summary of a source is in its place.
LEMMA SummaryIs ==
    ASSUME NEW s \in Sources, NEW v \in 0..MaxEdits
    PROVE  /\ Summary(s, v) \in Page /\ InPlace(Summary(s, v), <<"sources", s>>)
           /\ <<"sources", s>> \in Paths /\ Summary(s, v) # None
           /\ Summary(s, v).kind = "summary" /\ Summary(s, v).drew = {<<s, v>>}
<1>1. <<s, v>> \in Ids /\ "summary" \in Kinds /\ "page" \in Forms
  BY DEF Ids, Kinds, Forms
<1>2. Summary(s, v) \in Page
  BY <1>1 DEF Summary, Page
<1>3. QED
  BY <1>2, NoneAssumption DEF Summary, InPlace, Paths

\* There are finitely many paths.
LEMMA PathsFinite == IsFiniteSet(Paths)
<1> DEFINE slugs == {Slug[t] : t \in Titles}
<1>1. IsFiniteSet(slugs)
  <2>1. [t \in Titles |-> Slug[t]] \in Surjection(Titles, slugs)
    BY DEF Surjection
  <2>2. QED
    BY <2>1, PassesAssumption, FS_Surjection
<1>2. IsFiniteSet(Dirs \ {"sources"}) /\ IsFiniteSet({"sources"})
  <2>1. IsFiniteSet({} \cup {"concepts"})
    BY FS_EmptySet, FS_AddElement
  <2>2. IsFiniteSet({} \cup {"concepts"} \cup {"entities"})
    BY <2>1, FS_AddElement
  <2>3. IsFiniteSet({} \cup {"concepts"} \cup {"entities"} \cup {"topics"})
    BY <2>2, FS_AddElement
  <2>4. IsFiniteSet({} \cup {"concepts"} \cup {"entities"} \cup {"topics"} \cup {"contradictions"})
    BY <2>3, FS_AddElement
  <2>5. IsFiniteSet({} \cup {"concepts"} \cup {"entities"} \cup {"topics"} \cup {"contradictions"}
                       \cup {"open-questions"})
    BY <2>4, FS_AddElement
  <2>6. Dirs \ {"sources"} = {} \cup {"concepts"} \cup {"entities"} \cup {"topics"}
                               \cup {"contradictions"} \cup {"open-questions"}
    BY DEF Dirs
  <2>7. QED
    BY <2>5, <2>6, FS_Singleton
<1>3. IsFiniteSet({"sources"} \X Sources) /\ IsFiniteSet((Dirs \ {"sources"}) \X slugs)
  BY <1>1, <1>2, PassesAssumption, FS_Product
<1>4. QED
  BY <1>3, FS_Union DEF Paths

\* Typed says what TypeOK says.
LEMMA TypedIsTypeOK == Typed => TypeOK
<1> SUFFICES ASSUME Typed PROVE TypeOK
  OBVIOUS
<1>1. ASSUME NEW p \in Paths
      PROVE  /\ wiki[p] # None => p[1] = DirOf[wiki[p].kind]
             /\ tmp[p] # None => p[1] = DirOf[tmp[p].kind]
  BY <1>1, InPlaceIs DEF Typed, StoreTyped
<1>2. /\ run.pass \in Generative \cup {"none", "link"}
      /\ run.step \in RunSteps
  BY DEF Typed, Run
<1>3. QED
  BY <1>1, <1>2 DEF Typed, TypeOK, StoreTyped, RawsTyped, RunSteps, Asked, Writing, AtWork

-----------------------------------------------------------------------------
(* The record of the pass that runs *)

\* What is the same in two records but for what changes.
Kept(r, q) ==
    /\ q.pass = r.pass /\ q.inputs = r.inputs /\ q.blind = r.blind /\ q.at = r.at
    /\ q.left = r.left /\ q.asked = r.asked /\ q.raw = r.raw /\ q.written = r.written
    /\ q.refused = r.refused /\ q.given = r.given /\ q.lost = r.lost

LEMMA IdleIs ==
    /\ Idle \in Run /\ Phased(Idle) /\ Idle.step = "idle" /\ Idle.pass = "none"
    /\ Idle.raw = <<>> /\ Idle.pages = <<>> /\ Idle.written = {} /\ Idle.todo = {}
    /\ Idle.left = <<>> /\ Idle.inputs = {} /\ Idle.asked = {} /\ Idle.refused = {}
    /\ Idle.given = {} /\ Idle.lost = {}
BY EmptySeq DEF Idle, Run, RunSteps, Phased, Asked, Writing, AtWork, Generative

LEMMA StepTo ==
    ASSUME NEW r \in Run, NEW s \in RunSteps
    PROVE  LET q == [r EXCEPT !.step = s]
           IN  q \in Run /\ q.step = s /\ Kept(r, q) /\ q.pages = r.pages /\ q.todo = r.todo
BY DEF Run, Kept

LEMMA TryAgain ==
    ASSUME NEW r \in Run, NEW n \in Nat
    PROVE  LET q == [r EXCEPT !.tries = n]
           IN  q \in Run /\ q.step = r.step /\ Kept(r, q) /\ q.pages = r.pages /\ q.todo = r.todo
BY DEF Run, Kept

LEMMA RejectTo ==
    ASSUME NEW r \in Run, NEW k \in Keys, NEW rest \in Seq(Page), NEW s \in RunSteps
    PROVE  [r EXCEPT !.refused = @ \cup {k}, !.pages = rest, !.step = s] \in Run
BY DEF Run

LEMMA PublishTo ==
    ASSUME NEW r \in Run, NEW w \in Keys \X Paths, NEW rest \in Seq(Page), NEW s \in RunSteps
    PROVE  [r EXCEPT !.written = @ \cup {w}, !.pages = rest, !.step = s] \in Run
BY DEF Run

LEMMA MergeTo ==
    ASSUME NEW r \in Run, NEW pages \in Seq(Page), NEW s \in RunSteps
    PROVE  [r EXCEPT !.pages = pages, !.step = s] \in Run
BY DEF Run

LEMMA LinkTo ==
    ASSUME NEW r \in Run, NEW p \in r.todo, NEW s \in RunSteps
    PROVE  [r EXCEPT !.todo = @ \ {p}, !.step = s] \in Run
BY DEF Run

LEMMA ReduceTo ==
    ASSUME NEW r \in Run, NEW raw \in Seq(Page), NEW s \in RunSteps,
           NEW given \in SUBSET Keys, NEW lost \in SUBSET Keys
    PROVE  [r EXCEPT !.step = s, !.tries = 0, !.raw = raw, !.given = given, !.lost = lost] \in Run
BY DEF Run

LEMMA AnswerTo ==
    ASSUME NEW r \in Run, NEW batch \in SUBSET Paths, NEW rest \in Seq(SUBSET Paths),
           NEW raw \in Seq(Page), NEW s \in RunSteps,
           NEW given \in SUBSET Keys, NEW lost \in SUBSET Keys
    PROVE  [r EXCEPT !.asked = @ \cup batch, !.left = rest, !.tries = 0, !.raw = raw,
                     !.given = given, !.lost = lost, !.step = s] \in Run
BY DEF Run

LEMMA BeginTo ==
    ASSUME NEW pass \in Generative, NEW inputs \in SUBSET Paths, NEW blind \in BOOLEAN,
           NEW left \in Seq(SUBSET Paths), NEW at \in Nat, NEW s \in RunSteps
    PROVE  [Idle EXCEPT !.pass = pass, !.inputs = inputs, !.blind = blind,
                        !.left = left, !.at = at, !.step = s] \in Run
BY EmptySeq DEF Idle, Run

LEMMA LinkFrom ==
    ASSUME NEW todo \in SUBSET Paths
    PROVE  LET q == [Idle EXCEPT !.pass = "link", !.step = "link", !.todo = todo]
           IN  /\ q \in Run /\ q.pass = "link" /\ q.step = "link" /\ q.todo = todo
               /\ q.raw = <<>> /\ q.pages = <<>> /\ q.written = {}
BY EmptySeq DEF Idle, Run, RunSteps

\* The first page and those after it.
LEMMA NowIs ==
    ASSUME NEW r \in Run, r.pages # <<>>, Phased(r)
    PROVE  /\ Head(r.pages) = r.pages[1] /\ 1 \in DOMAIN r.pages /\ Made(Head(r.pages))
           /\ Tail(r.pages) \in Seq(Page)
           /\ \A i \in DOMAIN Tail(r.pages) : /\ i + 1 \in DOMAIN r.pages
                                              /\ Tail(r.pages)[i] = r.pages[i + 1]
           /\ \A i \in DOMAIN r.pages : i # 1 => i - 1 \in DOMAIN Tail(r.pages)
<1>1. r.pages \in Seq(Page)
  BY DEF Run
<1>2. /\ Len(r.pages) \in Nat /\ DOMAIN r.pages = 1..Len(r.pages) /\ Len(r.pages) # 0
      /\ Tail(r.pages) \in Seq(Page) /\ Len(Tail(r.pages)) = Len(r.pages) - 1
      /\ \A i \in 1..Len(Tail(r.pages)) : Tail(r.pages)[i] = r.pages[i + 1]
  BY <1>1, HeadTailProperties, LenProperties, EmptySeq
<1>3. DOMAIN Tail(r.pages) = 1..(Len(r.pages) - 1)
  BY <1>2, LenProperties
<1>4. Head(r.pages) = r.pages[1] /\ 1 \in DOMAIN r.pages
  BY <1>1, <1>2
<1>5. Made(Head(r.pages))
  BY <1>4 DEF Phased
<1>6. QED
  BY <1>2, <1>3, <1>4, <1>5

-----------------------------------------------------------------------------
(* What the actions compute *)

\* A set can be put in a sequence that leaves nothing out.
LEMMA SetToSeqIs ==
    ASSUME NEW S, IsFiniteSet(S)
    PROVE  /\ SetToSeq(S) \in Seq(S) /\ Len(SetToSeq(S)) = Cardinality(S)
           /\ \A x \in S : \E i \in 1..Cardinality(S) : SetToSeq(S)[i] = x
<1> DEFINE n == Cardinality(S)
           f == SetToSeq(S)
<1>1. n \in Nat /\ ExistsBijection(1..n, S) /\ IsFiniteSet(1..n) /\ Cardinality(1..n) = n
  BY FS_CardinalityType, FS_Interval
<1>2. \E g \in [1..n -> S] : IsInjective(g)
  BY <1>1 DEF ExistsBijection, Bijection, Injection, IsInjective
<1>3. f \in [1..n -> S] /\ IsInjective(f)
  BY <1>2 DEF SetToSeq
<1>4. f \in Surjection(1..n, S)
  <2>1. f \in Injection(1..n, S)
    BY <1>3 DEF Injection, IsInjective
  <2> HIDE DEF f
  <2>2. QED
    BY <1>1, <2>1, FS_Injection
<1>5. f \in Seq(S) /\ Len(f) = n
  <2> HIDE DEF f, n
  <2>1. QED
    BY <1>1, <1>3
<1>6. \A x \in S : \E i \in 1..n : f[i] = x
  <2> HIDE DEF f, n
  <2>1. QED
    BY <1>4 DEF Surjection
<1>7. QED
  BY <1>5, <1>6

\* The batch of each position, and the positions of each batch.
LEMMA BatchOf ==
    ASSUME NEW n \in Nat, NEW i \in 1..n
    PROVE  \E b \in 1..((n + BatchSize - 1) \div BatchSize) :
              (b - 1) * BatchSize + 1 <= i /\ i <= b * BatchSize
<1> DEFINE q == (i - 1) \div BatchSize
           m == (n + BatchSize - 1) \div BatchSize
<1>1. BatchSize \in Nat /\ BatchSize > 0 /\ i - 1 \in Nat /\ n + BatchSize - 1 \in Nat
  BY PassesAssumption
<1>2. q \in Nat /\ q * BatchSize <= i - 1 /\ i - 1 < q * BatchSize + BatchSize
  BY <1>1, SMTT(30)
<1>3. m \in Nat /\ n + BatchSize - 1 < m * BatchSize + BatchSize
  BY <1>1, SMTT(30)
<1>4. q + 1 <= m
  <2> HIDE DEF q, m
  <2>1. q * BatchSize < m * BatchSize
    <3>1. q * BatchSize \in Int /\ m * BatchSize \in Int
      BY <1>1, <1>2, <1>3
    <3>2. QED
      BY <1>1, <1>2, <1>3, <3>1
  <2>2. QED
    BY <1>1, <1>2, <1>3, <2>1, SMTT(30)
<1>5. (q + 1) * BatchSize = q * BatchSize + BatchSize
  <2> HIDE DEF q
  <2>1. QED
    BY <1>1, <1>2
<1>7. QED
  <2> HIDE DEF q, m
  <2>1. q + 1 \in 1..m /\ ((q + 1) - 1) * BatchSize + 1 <= i /\ i <= (q + 1) * BatchSize
    BY <1>1, <1>2, <1>3, <1>4, <1>5
  <2>2. \E b \in 1..m : (b - 1) * BatchSize + 1 <= i /\ i <= b * BatchSize
    BY <2>1
  <2>3. QED
    BY <2>2 DEF m

\* The batches of a pass: every input is in one of them.
LEMMA ChunkIs ==
    ASSUME NEW S \in SUBSET Paths
    PROVE  /\ Chunk(SetToSeq(S)) \in Seq(SUBSET Paths)
           /\ UNION ToSet(Chunk(SetToSeq(S))) = S
           /\ S # {} => Chunk(SetToSeq(S)) # <<>>
           /\ \A i \in DOMAIN Chunk(SetToSeq(S)) : Chunk(SetToSeq(S))[i] \subseteq S
<1> DEFINE seq == SetToSeq(S)
           n == Cardinality(S)
           m == (n + BatchSize - 1) \div BatchSize
           last(b) == IF b * BatchSize < n THEN b * BatchSize ELSE n
           batch(b) == SubSeq(seq, (b - 1) * BatchSize + 1, last(b))
<1>1. IsFiniteSet(S) /\ n \in Nat /\ BatchSize \in Nat \ {0}
  BY PathsFinite, FS_Subset, FS_CardinalityType, PassesAssumption
<1>2. seq \in Seq(S) /\ Len(seq) = n /\ \A x \in S : \E i \in 1..n : seq[i] = x
  BY <1>1, SetToSeqIs
<1>3. m \in Nat
  <2> HIDE DEF n
  <2>1. QED
    BY <1>1, SMTT(30)
<1>4. Chunk(seq) = [b \in 1..m |-> ToSet(batch(b))]
  BY <1>2 DEF Chunk
<1> HIDE DEF seq, n, m
<1>5. ASSUME NEW b \in 1..m
      PROVE  /\ (b - 1) * BatchSize + 1 \in Nat \ {0} /\ last(b) \in Nat /\ last(b) <= n
             /\ last(b) = IF b * BatchSize < n THEN b * BatchSize ELSE n
  <2>1. b \in Nat /\ b - 1 \in Nat
    BY <1>3
  <2>2. b * BatchSize \in Nat /\ (b - 1) * BatchSize \in Nat
    BY <1>1, <2>1, SMTT(30)
  <2>3. QED
    BY <1>1, <2>2
<1> HIDE DEF last
<1>6. ASSUME NEW b \in 1..m
      PROVE  /\ ToSet(batch(b)) \subseteq S
             /\ \A i \in ((b - 1) * BatchSize + 1)..last(b) : seq[i] \in ToSet(batch(b))
  <2> DEFINE from == (b - 1) * BatchSize + 1
             upto == last(b)
  <2>1. from \in Nat \ {0} /\ upto \in Nat /\ upto <= n
    BY <1>5
  <2> HIDE DEF from, upto
  <2>2. \A i \in from..upto : seq[i] \in S
    BY <1>1, <1>2, <2>1
  <2>3. /\ SubSeq(seq, from, upto) \in Seq(S)
        /\ Len(SubSeq(seq, from, upto)) = IF from <= upto THEN upto - from + 1 ELSE 0
        /\ \A i \in 1..(upto - from + 1) : SubSeq(seq, from, upto)[i] = seq[from + i - 1]
    BY <2>1, <2>2, SubSeqProperties
  <2>4. ToSet(SubSeq(seq, from, upto)) \subseteq S
    BY <2>3 DEF ToSet
  <2>5. ASSUME NEW i \in from..upto PROVE seq[i] \in ToSet(SubSeq(seq, from, upto))
    <3>1. i - from + 1 \in 1..(upto - from + 1) /\ from <= upto
      BY <2>1
    <3>2. i - from + 1 \in DOMAIN SubSeq(seq, from, upto)
      BY <2>1, <2>3, <3>1
    <3>3. SubSeq(seq, from, upto)[i - from + 1] = seq[i]
      BY <2>1, <2>3, <3>1
    <3>4. QED
      BY <3>2, <3>3 DEF ToSet
  <2>6. QED
    BY <2>4, <2>5 DEF from, upto
<1> HIDE DEF batch
<1>7. Chunk(seq) \in Seq(SUBSET S) /\ Len(Chunk(seq)) = m
  BY <1>3, <1>4, <1>6
<1>8. ASSUME NEW x \in S PROVE x \in UNION ToSet(Chunk(seq))
  <2>1. PICK i \in 1..n : seq[i] = x
    BY <1>2
  <2>2. PICK b \in 1..m : (b - 1) * BatchSize + 1 <= i /\ i <= b * BatchSize
    <3>1. \E b \in 1..((n + BatchSize - 1) \div BatchSize) :
              (b - 1) * BatchSize + 1 <= i /\ i <= b * BatchSize
      BY <1>1, BatchOf
    <3>2. QED
      BY <3>1 DEF m
  <2>3. i \in ((b - 1) * BatchSize + 1)..last(b)
    BY <1>1, <1>5, <2>2
  <2>4. x \in ToSet(batch(b))
    BY <1>6, <2>1, <2>3
  <2>5. b \in DOMAIN Chunk(seq) /\ Chunk(seq)[b] = ToSet(batch(b))
    BY <1>4
  <2>6. QED
    BY <2>4, <2>5 DEF ToSet
<1>9. Chunk(seq) \in Seq(SUBSET Paths)
  <2>1. SUBSET S \subseteq SUBSET Paths
    OBVIOUS
  <2>2. QED
    BY <1>7, <2>1, SeqMonotonic
<1>10. \A i \in DOMAIN Chunk(seq) : Chunk(seq)[i] \subseteq S
  BY <1>4, <1>6
<1>11. UNION ToSet(Chunk(seq)) \subseteq S
  BY <1>10 DEF ToSet
<1>12. S # {} => Chunk(seq) # <<>>
  BY <1>8, EmptySeq DEF ToSet
<1>13. QED
  BY <1>8, <1>9, <1>10, <1>11, <1>12 DEF seq

\* What a batch of pages shows to the model.
LEMMA BatchIs ==
    ASSUME StoreTyped, NEW batch \in SUBSET Paths, \A p \in batch : wiki[p] # None
    PROVE  /\ Cited(batch) \subseteq Ids /\ Drawn(batch) \subseteq Ids
           /\ \A id \in Drawn(batch) : \E p \in batch : id \in wiki[p].drew
<1>1. \A p \in batch : wiki[p] \in Page
  BY DEF StoreTyped
<1>2. \A p \in batch : wiki[p].cites \subseteq Ids /\ wiki[p].drew \subseteq Ids
  BY <1>1 DEF Page
<1>3. QED
  BY <1>2 DEF Cited, Drawn

LEMMA WriteIs ==
    ASSUME StoreTyped, NEW batch \in SUBSET Paths, \A p \in batch : wiki[p] # None,
           NEW d \in Drafts, NEW kind \in Kinds \ {"summary"}
    PROVE  Made(Write(d, kind, batch)) /\ Write(d, kind, batch).drew = Drawn(batch)
<1>1. /\ d.title \in Titles /\ d.form \in Forms /\ d.cites \in {"shown", "none", "others"}
      /\ d.links \subseteq Links /\ Key[d.title] \in Keys
  BY PassesAssumption DEF Links, Keys
<1> DEFINE cites == CASE d.cites = "shown" -> Cited(batch)
                      [] d.cites = "none" -> {}
                      [] d.cites = "others" -> Ids \ Cited(batch)
<1>2. cites \subseteq Ids
  BY <1>1, BatchIs
<1>3. Drawn(batch) \subseteq Ids
  BY BatchIs
<1> HIDE DEF cites
<1>4. Write(d, kind, batch) = [title |-> d.title, key |-> Key[d.title], kind |-> kind,
          form |-> d.form, cites |-> cites, drew |-> Drawn(batch), links |-> d.links, back |-> {}]
  BY DEF Write, cites
<1>5. Write(d, kind, batch) \in Page
  BY <1>1, <1>2, <1>3, <1>4 DEF Page
<1>6. QED
  BY <1>1, <1>4, <1>5 DEF Made

\* A set of numbers that is not empty has a least member.
LEMMA LeastNat ==
    ASSUME NEW T, T \subseteq Nat, T # {}
    PROVE  \E m \in T : \A k \in T : m <= k
<1>1. PICK m \in T : \A k \in T : ~(<<k, m>> \in OpToRel(<, Nat))
  BY NatLessThanWellFounded, WFMin
<1>2. ASSUME NEW k \in T PROVE m <= k
  <2>1. m \in Nat /\ k \in Nat /\ ~(k < m)
    BY <1>1 DEF OpToRel
  <2>2. QED
    BY <2>1
<1>3. QED
  BY <1>1, <1>2

\* Every key of the raw pages is that of a first page, and FirstSeen lists them all.
LEMMA FirstIs ==
    ASSUME NEW raw \in Seq(Page), NEW first \in FirstSeen(raw)
    PROVE  /\ DOMAIN first = 1..Cardinality(First(raw)) /\ Cardinality(First(raw)) \in Nat
           /\ \A n \in DOMAIN first : first[n] \in DOMAIN raw
           /\ \A i \in DOMAIN raw : \E n \in DOMAIN first : raw[first[n]].key = raw[i].key
<1> DEFINE F == First(raw)
           c == Cardinality(F)
<1>1. Len(raw) \in Nat /\ DOMAIN raw = 1..Len(raw)
  BY LenProperties
<1>2. F \in SUBSET (1..Len(raw)) /\ IsFiniteSet(F) /\ c \in Nat
  <2>1. F \in SUBSET (1..Len(raw))
    BY <1>1 DEF First
  <2>2. IsFiniteSet(1..Len(raw))
    BY <1>1, FS_Interval
  <2> HIDE DEF F
  <2>3. QED
    BY <2>1, <2>2, FS_Subset, FS_CardinalityType
<1>3. first \in [1..c -> F] /\ \A m, n \in DOMAIN first : m < n => first[m] < first[n]
  BY DEF FirstSeen
<1>4. ASSUME NEW i \in DOMAIN raw PROVE \E j \in F : raw[j].key = raw[i].key
  <2> DEFINE G == {j \in DOMAIN raw : raw[j].key = raw[i].key}
  <2>1. G \subseteq Nat /\ G # {}
    BY <1>1
  <2>2. PICK j \in G : \A k \in G : j <= k
    <3> HIDE DEF G
    <3>1. QED
      BY <2>1, LeastNat
  <2>3. \A k \in 1..(j - 1) : raw[k].key # raw[j].key
    <3>1. SUFFICES ASSUME NEW k \in 1..(j - 1), raw[k].key = raw[j].key PROVE FALSE
      OBVIOUS
    <3>2. k \in DOMAIN raw /\ k < j
      BY <1>1, <2>2
    <3>3. k \in G
      BY <2>2, <3>1, <3>2
    <3>4. QED
      BY <1>1, <2>2, <3>2, <3>3
  <2>4. QED
    BY <2>2, <2>3 DEF First
<1> HIDE DEF F, c
<1>5. \A j \in F : \E n \in 1..c : first[n] = j
  <2>1. first \in Injection(1..c, F)
    <3>1. ASSUME NEW m \in 1..c, NEW n \in 1..c, m # n PROVE first[m] # first[n]
      <4>0. first[m] \in F /\ first[n] \in F
        BY <1>3
      <4>a. first[m] \in 1..Len(raw) /\ first[n] \in 1..Len(raw)
        BY <1>2, <4>0
      <4>b. m \in Int /\ n \in Int /\ m \in DOMAIN first /\ n \in DOMAIN first
        BY <1>2, <1>3
      <4>1. first[m] \in 1..Len(raw) /\ first[n] \in 1..Len(raw) /\ (m < n \/ n < m)
        BY <3>1, <4>a, <4>b
      <4>2. first[m] < first[n] \/ first[n] < first[m]
        BY <1>3, <4>1, <4>b
      <4>3. QED
        BY <1>1, <4>1, <4>2
    <3>2. QED
      BY <1>3, <3>1 DEF Injection, IsInjective
  <2>2. IsFiniteSet(1..c) /\ Cardinality(1..c) = c /\ Cardinality(F) = c
    BY <1>2, FS_Interval DEF c
  <2>3. first \in Surjection(1..c, F)
    BY <1>2, <2>1, <2>2, FS_Injection
  <2>4. QED
    BY <2>3 DEF Surjection
<1>6. QED
  <2>1. ASSUME NEW i \in DOMAIN raw
        PROVE  \E n \in DOMAIN first : raw[first[n]].key = raw[i].key
    <3>1. PICK j \in F : raw[j].key = raw[i].key
      BY <1>4
    <3>2. PICK n \in 1..c : first[n] = j
      BY <1>5
    <3>3. n \in DOMAIN first
      BY <1>3
    <3>4. QED
      BY <3>1, <3>2, <3>3
  <2>2. \A n \in DOMAIN first : first[n] \in DOMAIN raw
    BY <1>1, <1>2, <1>3
  <2>3. QED
    BY <1>2, <1>3, <2>1, <2>2 DEF c, F

LEMMA ListIs ==
    ASSUME NEW S, NEW c \in Nat, NEW s, DOMAIN s = 1..c, s = [n \in DOMAIN s |-> s[n]],
           \A n \in DOMAIN s : s[n] \in S
    PROVE  s \in Seq(S)
<1>1. s \in [1..c -> S]
  OBVIOUS
<1>2. QED
  BY <1>1

\* Merging: one page for each key, made of pages of that key.
Unites(raw, pages) ==
    /\ pages \in Seq(Page) /\ (pages = <<>> <=> raw = <<>>)
    /\ \A n \in DOMAIN pages :
          /\ Made(pages[n])
          /\ \E i \in DOMAIN raw : raw[i].kind = pages[n].kind
          /\ \A id \in pages[n].drew : \E i \in DOMAIN raw : id \in raw[i].drew
    /\ \A i \in DOMAIN raw : \E n \in DOMAIN pages : pages[n].key = raw[i].key

LEMMA MergedIs ==
    ASSUME NEW raw \in Seq(Page), \A i \in DOMAIN raw : Made(raw[i]),
           NEW first \in FirstSeen(raw), NEW union \in BOOLEAN,
           NEW longest \in [{g.key : g \in ToSet(raw)} -> DOMAIN raw],
           \A k \in DOMAIN longest : longest[k] \in Group(raw, k)
    PROVE  Unites(raw, Merged(raw, first, longest, union))
<1> DEFINE keys == {g.key : g \in ToSet(raw)}
           cites(k) == UNION {raw[i].cites : i \in Listing(raw, k)}
           drew(k) == UNION {raw[i].drew : i \in Listing(raw, k)}
           page(k) == IF union /\ Fenced(raw[longest[k]])
                      THEN [raw[longest[k]] EXCEPT !.cites = cites(k), !.drew = drew(k)]
                      ELSE raw[longest[k]]
           m == Merged(raw, first, longest, union)
<1>1. /\ \A i \in DOMAIN raw : raw[i] \in Page /\ raw[i].cites \subseteq Ids /\ raw[i].drew \subseteq Ids
      /\ \A i \in DOMAIN raw : raw[i].key \in keys
  <2>1. \A i \in DOMAIN raw : raw[i] \in Page
    BY DEF Made
  <2>2. \A i \in DOMAIN raw : raw[i].cites \subseteq Ids /\ raw[i].drew \subseteq Ids
    BY <2>1 DEF Page
  <2>3. QED
    BY <2>1, <2>2 DEF ToSet
<1>2. ASSUME NEW k \in keys
      PROVE  /\ longest[k] \in DOMAIN raw /\ raw[longest[k]].key = k
             /\ cites(k) \subseteq Ids /\ drew(k) \subseteq Ids
             /\ \A id \in drew(k) : \E i \in DOMAIN raw : id \in raw[i].drew
  BY <1>1 DEF Group, Listing
<1> HIDE DEF cites, drew, keys
<1>3. ASSUME NEW k \in keys
      PROVE  /\ Made(page(k)) /\ page(k).key = k
             /\ \E i \in DOMAIN raw : raw[i].kind = page(k).kind
             /\ \A id \in page(k).drew : \E i \in DOMAIN raw : id \in raw[i].drew
  <2> DEFINE g == raw[longest[k]]
  <2>1. Made(g) /\ g \in Page /\ g.key = k
    BY <1>1, <1>2
  <2>2. longest[k] \in DOMAIN raw /\ cites(k) \subseteq Ids /\ drew(k) \subseteq Ids
    BY <1>2
  <2>3. CASE union /\ Fenced(g)
    <3>1. page(k) = [g EXCEPT !.cites = cites(k), !.drew = drew(k)]
      BY <2>3
    <3> HIDE DEF g, page
    <3>2. /\ page(k) \in Page /\ page(k).key = g.key /\ page(k).kind = g.kind
          /\ page(k).title = g.title /\ page(k).drew = drew(k)
      BY <2>1, <2>2, <3>1 DEF Page
    <3>3. Made(page(k)) /\ page(k).key = k
      <4>1. page(k) \in Page /\ page(k).kind # "summary" /\ page(k).title \in Titles
        BY <2>1, <3>2 DEF Made
      <4>2. page(k).key = Key[page(k).title] /\ page(k).key = k
        BY <2>1, <3>2 DEF Made
      <4>3. QED
        BY <4>1, <4>2 DEF Made
    <3>4. \A id \in drew(k) : \E i \in DOMAIN raw : id \in raw[i].drew
      BY <1>2
    <3>5. \E i \in DOMAIN raw : raw[i].kind = page(k).kind
      BY <2>2, <3>2 DEF g
    <3>6. QED
      BY <3>2, <3>3, <3>4, <3>5
  <2>4. CASE ~(union /\ Fenced(g))
    <3>1. page(k) = g
      BY <2>4
    <3>2. QED
      BY <2>1, <2>2, <3>1
  <2>5. QED
    BY <2>3, <2>4
<1>4. m = [n \in DOMAIN first |-> page(raw[first[n]].key)]
  BY DEF Merged, cites, drew
<1> HIDE DEF page, m
<1>5. /\ DOMAIN first = 1..Cardinality(First(raw)) /\ Cardinality(First(raw)) \in Nat
      /\ \A n \in DOMAIN first : first[n] \in DOMAIN raw
      /\ \A i \in DOMAIN raw : \E n \in DOMAIN first : raw[first[n]].key = raw[i].key
  BY FirstIs
<1>6. ASSUME NEW n \in DOMAIN m
      PROVE  /\ n \in DOMAIN first /\ m[n] = page(raw[first[n]].key) /\ raw[first[n]].key \in keys
             /\ m[n] \in Page /\ m[n].key = raw[first[n]].key
  BY <1>1, <1>3, <1>4, <1>5 DEF Made
<1>7. m \in Seq(Page)
  <2> DEFINE c == Cardinality(First(raw))
  <2>1. c \in Nat /\ DOMAIN m = 1..c
    BY <1>4, <1>5
  <2> HIDE DEF c
  <2>2. m = [n \in DOMAIN m |-> m[n]]
    BY <1>4
  <2>3. \A n \in DOMAIN m : m[n] \in Page
    BY <1>6
  <2>4. QED
    BY <2>1, <2>2, <2>3, ListIs
<1>8. ASSUME NEW i \in DOMAIN raw PROVE \E n \in DOMAIN m : m[n].key = raw[i].key
  <2>1. PICK n \in DOMAIN first : raw[first[n]].key = raw[i].key
    BY <1>5
  <2>2. n \in DOMAIN m
    BY <1>4
  <2>3. m[n].key = raw[i].key
    BY <1>6, <2>1, <2>2
  <2>4. QED
    BY <2>2, <2>3
<1>9. m = <<>> <=> raw = <<>>
  <2>1. raw = <<>> => DOMAIN m = {}
    <3>1. raw = <<>> => DOMAIN raw = {}
      BY LenProperties, EmptySeq
    <3>2. QED
      BY <1>5, <1>6, <3>1
  <2>2. raw # <<>> => 1 \in DOMAIN raw
    BY LenProperties, EmptySeq
  <2>3. m = <<>> <=> DOMAIN m = {}
    BY <1>7, LenProperties, EmptySeq
  <2>4. QED
    BY <1>8, <2>1, <2>2, <2>3
<1>10. QED
  <2>1. \A n \in DOMAIN m :
          /\ Made(m[n]) /\ \E i \in DOMAIN raw : raw[i].kind = m[n].kind
          /\ \A id \in m[n].drew : \E i \in DOMAIN raw : id \in raw[i].drew
    BY <1>3, <1>6
  <2>2. QED
    BY <1>7, <1>8, <1>9, <2>1 DEF Unites, m

-----------------------------------------------------------------------------
(* The inductive invariant *)

Inv == Typed /\ Receipts /\ Complete /\ Drew /\ Citations

LEMMA InitInv == Init => Inv
<1> SUFFICES ASSUME Init PROVE Inv
  OBVIOUS
<1>1. Sources \subseteq Sources /\ 0 \in 0..MaxEdits /\ \A s \in Sources : <<s, 0>> \in Ids
  BY PassesAssumption DEF Ids
<1>2. ASSUME NEW p \in Paths
      PROVE  /\ wiki[p] \in Page \cup {None} /\ (wiki[p] # None => InPlace(wiki[p], p))
             /\ (wiki[p] # None => wiki[p].kind = "summary" /\ wiki[p].drew \subseteq summarized)
  <2>1. CASE p[1] = "sources"
    <3>1. p[2] \in Sources /\ p = <<"sources", p[2]>>
      BY <2>1 DEF Paths
    <3>2. wiki[p] = Summary(p[2], 0)
      BY <2>1 DEF Init
    <3>3. wiki[p].drew = {<<p[2], 0>>}
      BY <1>1, <3>1, <3>2, SummaryIs
    <3>4. QED
      BY <1>1, <3>1, <3>2, <3>3, SummaryIs DEF Init
  <2>2. CASE p[1] # "sources"
    BY <2>2 DEF Init
  <2>3. QED
    BY <2>1, <2>2
<1>3. wiki \in [Paths -> Page \cup {None}]
  <2>1. wiki = [p \in Paths |-> wiki[p]]
    BY DEF Init
  <2>2. QED
    BY <1>2, <2>1
<1>4. StoreTyped
  <2>1. index \subseteq Paths
    BY DEF Init, Paths
  <2>2. QED
    BY <1>2, <1>3, <2>1 DEF Init, StoreTyped
<1>5. RawsTyped
  BY <1>1, PassesAssumption DEF Init, RawsTyped
<1>6. run = Idle /\ queue = <<>>
  BY DEF Init
<1>7. Typed
  BY <1>4, <1>5, <1>6, IdleIs, EmptySeq DEF Typed
<1>8. Pages = {}
  BY <1>2 DEF Pages, Visible
<1>9. Receipts
  BY <1>6, <1>8, IdleIs DEF Receipts, ReceiptsPrecede, InHand, Linking, AtWork, Late
<1>10. DOMAIN run.raw = {} /\ DOMAIN run.pages = {}
  BY <1>6, IdleIs
<1>11. Complete
  BY <1>6, IdleIs DEF Complete, Asked, Writing, AtWork, Generative
<1>12. Drew
  BY <1>2, <1>6, <1>10, IdleIs DEF Drew, Generative
<1>13. Citations
  BY <1>6, <1>8, IdleIs DEF Citations, Late
<1>14. QED
  BY <1>7, <1>9, <1>11, <1>12, <1>13 DEF Inv

\* Nothing runs any more, and what was being written is marked as torn.
LEMMA Rests ==
    ASSUME Inv, run' = Idle,
           UNCHANGED <<wiki, tmp, rows, junction, provenance, traces>>,
           torn \subseteq torn', torn' \subseteq Paths,
           run.step \in Late => PathOf(Now) \in torn',
           summarized \subseteq summarized', index' \subseteq Paths, RawsTyped',
           queue' \in Seq(Generative \cup {"summarize", "link"})
    PROVE  Inv'
<1>1. StoreTyped'
  BY DEF Inv, Typed, StoreTyped, InPlace, Made, PathOf
<1>2. Typed'
  BY <1>1, IdleIs DEF Typed
<1>3. Pages' = Pages /\ \A p \in Pages : p \in Paths
  BY DEF Pages, Visible
<1>4. Receipts'
  <2>1. ReceiptsPrecede'
    BY <1>3 DEF Inv, Receipts, ReceiptsPrecede
  <2>2. QED
    BY <2>1, IdleIs DEF Receipts, InHand, Linking, AtWork, Late
<1>5. DOMAIN run'.raw = {} /\ DOMAIN run'.pages = {}
  BY IdleIs
<1>6. Complete'
  BY IdleIs DEF Complete, Asked, Writing, AtWork, Generative
<1>7. Drew'
  BY <1>5, IdleIs DEF Inv, Drew, Generative
<1>8. Citations'
  <2>1. ASSUME NEW p \in Pages, Told(p)' PROVE Told(p)
    BY <2>1 DEF Told
  <2>2. QED
    BY <1>3, <2>1, IdleIs DEF Inv, Citations, Late
<1>9. QED
  BY <1>2, <1>4, <1>6, <1>7, <1>8 DEF Inv

LEMMA PlansIs ==
    /\ All \in Seq(Generative \cup {"summarize", "link"})
    /\ \A plan \in Plans : Target(plan) \in Seq(Generative \cup {"summarize", "link"})
<1>1. All \in Seq(Generative \cup {"summarize", "link"})
  BY DEF All, Generative
<1>2. ASSUME NEW plan \in Plans
      PROVE  Target(plan) \in Seq(Generative \cup {"summarize", "link"})
  <2>1. plan \in {"sources", "concepts", "topics", "links", "contradictions", "gaps", "all"}
    BY PassesAssumption
  <2> DEFINE Passes == Generative \cup {"summarize", "link"}
  <2>0. \A pass \in Passes : <<pass>> \in Seq(Passes)
    OBVIOUS
  <2>2. CASE plan = "sources"
    <3>1. Target(plan) = <<"summarize">>
      BY <2>2 DEF Target
    <3>2. QED
      BY <1>1, <2>0, <3>1 DEF Generative
  <2>3. CASE plan = "concepts"
    <3>1. Target(plan) = <<"extract">>
      BY <2>3 DEF Target
    <3>2. QED
      BY <1>1, <2>0, <3>1 DEF Generative
  <2>4. CASE plan = "topics"
    <3>1. Target(plan) = <<"synthesize">>
      BY <2>4 DEF Target
    <3>2. QED
      BY <1>1, <2>0, <3>1 DEF Generative
  <2>5. CASE plan = "links"
    <3>1. Target(plan) = <<"link">>
      BY <2>5 DEF Target
    <3>2. QED
      BY <1>1, <2>0, <3>1 DEF Generative
  <2>6. CASE plan = "contradictions"
    <3>1. Target(plan) = <<"contradict">>
      BY <2>6 DEF Target
    <3>2. QED
      BY <1>1, <2>0, <3>1 DEF Generative
  <2>7. CASE plan = "gaps"
    <3>1. Target(plan) = <<"gap">>
      BY <2>7 DEF Target
    <3>2. QED
      BY <1>1, <2>0, <3>1 DEF Generative
  <2>8. CASE plan = "all"
    <3>1. Target(plan) = All
      BY <2>8 DEF Target
    <3>2. QED
      BY <1>1, <2>0, <3>1 DEF Generative
  <2>9. QED
    BY <2>1, <2>2, <2>3, <2>4, <2>5, <2>6, <2>7, <2>8
<1>3. QED
  BY <1>1, <1>2

LEMMA FinishInv == Inv /\ Finish => Inv'
<1> SUFFICES ASSUME Inv, Finish PROVE Inv'
  OBVIOUS
<1>1. run # Idle /\ queue # <<>> /\ run.step \notin Late
  BY IdleIs DEF Inv, Typed, Finish, Late
<1>2. queue' \in Seq(Generative \cup {"summarize", "link"})
  BY <1>1, HeadTailProperties DEF Inv, Typed, Finish
<1>3. index' \subseteq Paths /\ torn' \subseteq Paths
  BY DEF Inv, Typed, StoreTyped, Finish, Indexed, Visible
<1>4. RawsTyped'
  BY DEF Inv, Typed, RawsTyped, Finish, raws, counts
<1>5. QED
  BY <1>1, <1>2, <1>3, <1>4, Rests DEF Finish, raws

LEMMA StopsInv == Inv /\ Stops => Inv'
<1> SUFFICES ASSUME Inv, Stops PROVE Inv'
  OBVIOUS
<1>1. torn \subseteq torn' /\ torn' \subseteq Paths
      /\ (run.step \in Late => PathOf(Now) \in torn')
  <2>1. CASE run.step \in Late
    <3>1. PathOf(Now) \in Paths
      <4>1. run.pages # <<>> /\ run \in Run /\ Phased(run)
        BY <2>1 DEF Inv, Typed, Phased, Writing, AtWork, Late
      <4>2. QED
        BY <4>1, NowIs, MadeIs DEF Now
    <3>2. QED
      BY <2>1, <3>1 DEF Stops, Late, Inv, Typed, StoreTyped, Now
  <2>2. CASE run.step \notin Late
    BY <2>2 DEF Stops, Late, Inv, Typed, StoreTyped
  <2>3. QED
    BY <2>1, <2>2
<1>2. RawsTyped' /\ index' \subseteq Paths
  BY DEF Inv, Typed, RawsTyped, StoreTyped, Stops, raws
<1>3. queue' \in Seq(Generative \cup {"summarize", "link"})
  BY EmptySeq DEF Stops
<1>4. QED
  BY <1>1, <1>2, <1>3, Rests DEF Stops, raws

LEMMA RefusedInv == ASSUME Inv, NEW status, Refused(status) PROVE Inv'
<1>1. run.step \notin Late
  BY DEF Refused, Asking, Late
<1>2. RawsTyped' /\ index' \subseteq Paths /\ torn' \subseteq Paths
  BY DEF Inv, Typed, RawsTyped, StoreTyped, Refused, raws, store
<1>3. queue' \in Seq(Generative \cup {"summarize", "link"})
  BY EmptySeq DEF Refused
<1>4. QED
  BY <1>1, <1>2, <1>3, Rests DEF Refused, raws, store

LEMMA CompileInv == Inv /\ Compile => Inv'
<1> SUFFICES ASSUME Inv, Compile PROVE Inv'
  OBVIOUS
<1>1. run.step \notin Late
  BY IdleIs DEF Compile, Late
<1>2. RawsTyped' /\ index' \subseteq Paths /\ torn' \subseteq Paths
  BY DEF Inv, Typed, RawsTyped, StoreTyped, Compile, raws, store
<1>3. queue' \in Seq(Generative \cup {"summarize", "link"})
  BY PlansIs DEF Compile
<1>4. QED
  BY <1>1, <1>2, <1>3, Rests DEF Compile, raws, store

LEMMA CompileChangedInv == ASSUME Inv, NEW s \in Sources, CompileChanged(s) PROVE Inv'
<1>1. run.step \notin Late
  BY IdleIs DEF CompileChanged, Late
<1>2. RawsTyped' /\ index' \subseteq Paths /\ torn' \subseteq Paths
  <2>1. edition[s] \in 0..MaxEdits
    BY DEF Inv, Typed, RawsTyped
  <2>2. QED
    BY <2>1 DEF Inv, Typed, RawsTyped, StoreTyped, CompileChanged, store
<1>3. queue' \in Seq(Generative \cup {"summarize", "link"})
  <2>1. <<"summarize", "extract">> \in Seq(Generative \cup {"summarize", "link"})
    BY DEF Generative
  <2>2. QED
    BY <2>1, PlansIs DEF CompileChanged
<1>4. QED
  BY <1>1, <1>2, <1>3, Rests DEF CompileChanged, store

LEMMA EditInv == ASSUME Inv, NEW s, Edit(s) PROVE Inv'
<1>1. run.step \notin Late
  BY IdleIs DEF Edit, Late
<1>2. RawsTyped' /\ index' \subseteq Paths /\ torn' \subseteq Paths
  <2>1. edits + 1 \in 0..MaxEdits
    BY PassesAssumption DEF Inv, Typed, RawsTyped, Edit
  <2>2. edition' \in [Sources -> 0..MaxEdits]
    BY <2>1 DEF Inv, Typed, RawsTyped, Edit
  <2>3. QED
    BY <2>1, <2>2 DEF Inv, Typed, RawsTyped, StoreTyped, Edit, store
<1>3. queue' \in Seq(Generative \cup {"summarize", "link"})
  BY DEF Inv, Typed, Edit
<1>4. QED
  BY <1>1, <1>2, <1>3, Rests DEF Edit, store

LEMMA SummarizeInv == Inv /\ Summarize => Inv'
<1> DEFINE todo == {s \in Sources : Newest(s) \notin summarized}
<1> SUFFICES ASSUME Inv, Summarize PROVE Inv'
  OBVIOUS
<1>1. /\ run = Idle /\ run' = Idle /\ queue # <<>> /\ queue' = Tail(queue)
      /\ summarized' = summarized \cup {Newest(s) : s \in todo}
      /\ wiki' = [p \in Paths |-> IF p[1] = "sources" /\ p[2] \in todo
                                  THEN Summary(p[2], newest[p[2]]) ELSE wiki[p]]
      /\ index' = {p \in Paths : wiki'[p] # None}
      /\ UNCHANGED <<edition, newest, tmp, rows, junction, provenance, traces, torn, counts>>
  BY DEF Summarize
<1>2. \A s \in Sources : newest[s] \in 0..MaxEdits /\ Newest(s) \in Ids
  BY DEF Inv, Typed, RawsTyped, Newest, Ids
<1> HIDE DEF todo
<1>3. ASSUME NEW p \in Paths
      PROVE  \/ wiki'[p] = wiki[p]
             \/ /\ wiki'[p] \in Page /\ InPlace(wiki'[p], p) /\ wiki'[p].kind = "summary"
                /\ wiki'[p].drew \subseteq summarized'
                /\ p[1] = "sources"
  <2>1. CASE p[1] = "sources" /\ p[2] \in todo
    <3>1. p = <<"sources", p[2]>> /\ p[2] \in Sources
      BY <2>1 DEF Paths
    <3>2. wiki'[p] = Summary(p[2], newest[p[2]])
      BY <1>1, <2>1
    <3>3. <<p[2], newest[p[2]]>> \in summarized'
      BY <1>1, <2>1 DEF Newest
    <3>4. QED
      BY <1>2, <2>1, <3>1, <3>2, <3>3, SummaryIs
  <2>2. CASE ~(p[1] = "sources" /\ p[2] \in todo)
    BY <1>1, <2>2
  <2>3. QED
    BY <2>1, <2>2
<1>4. wiki' \in [Paths -> Page \cup {None}]
  <2>1. wiki' = [p \in Paths |-> wiki'[p]]
    BY <1>1
  <2>2. \A p \in Paths : wiki'[p] \in Page \cup {None}
    BY <1>3 DEF Inv, Typed, StoreTyped
  <2>3. QED
    BY <2>1, <2>2
<1>5. StoreTyped'
  <2>1. \A p \in Paths : wiki'[p] # None => InPlace(wiki'[p], p)
    BY <1>3 DEF Inv, Typed, StoreTyped
  <2>2. QED
    BY <1>1, <1>4, <2>1 DEF Inv, Typed, StoreTyped
<1>6. Typed'
  <2>1. summarized' \subseteq Ids
    BY <1>1, <1>2 DEF Inv, Typed, RawsTyped, todo
  <2>2. queue' \in Seq(Generative \cup {"summarize", "link"})
    BY <1>1, HeadTailProperties DEF Inv, Typed
  <2>3. RawsTyped'
    BY <1>1, <2>1 DEF Inv, Typed, RawsTyped, counts
  <2>4. QED
    BY <1>1, <1>5, <2>2, <2>3, IdleIs DEF Typed
<1>7. ASSUME NEW p \in Pages' PROVE p \in Pages /\ p \in Paths /\ wiki'[p] = wiki[p]
  <2>1. p \in Paths /\ wiki'[p] # None /\ wiki'[p].kind # "summary" /\ p[1] \in Dirs
    BY <1>7 DEF Pages, Visible
  <2>2. wiki'[p] = wiki[p]
    BY <1>3, <2>1
  <2>3. QED
    BY <2>1, <2>2 DEF Pages, Visible
<1>8. Receipts'
  <2>1. ReceiptsPrecede'
    BY <1>1, <1>7 DEF Inv, Receipts, ReceiptsPrecede
  <2>2. QED
    BY <1>1, <2>1, IdleIs DEF Receipts, InHand, Linking, AtWork, Late
<1>9. DOMAIN run'.raw = {} /\ DOMAIN run'.pages = {}
  BY <1>1, IdleIs
<1>10. Complete'
  BY <1>1, IdleIs DEF Complete, Asked, Writing, AtWork, Generative
<1>11. Drew'
  <2>1. \A p \in Paths : wiki'[p] # None => wiki'[p].drew \subseteq summarized'
    BY <1>1, <1>3 DEF Inv, Drew
  <2>2. QED
    BY <1>1, <1>9, <2>1, IdleIs DEF Drew, Generative
<1>12. Citations'
  <2>1. ASSUME NEW p \in Pages', Told(p)' PROVE Told(p)
    BY <1>1, <1>7, <2>1, IdleIs DEF Told, Late
  <2>2. QED
    BY <1>1, <1>7, <2>1, IdleIs DEF Inv, Citations, Late
<1>13. QED
  BY <1>6, <1>8, <1>10, <1>11, <1>12 DEF Inv

-----------------------------------------------------------------------------
(* Reading, asking and merging leave the store alone *)

LEMMA Elsewhere ==
    ASSUME Inv, UNCHANGED <<raws, store, queue, edits, commands>>,
           run' \in Run, Phased(run'), run' # Idle => queue # <<>>,
           run.step \notin Late, run'.step \notin AtWork
    PROVE  Typed' /\ ReceiptsPrecede' /\ InHand' /\ Citations'
<1>1. Typed'
  BY DEF Inv, Typed, StoreTyped, RawsTyped, raws, store, InPlace, Made, PathOf
<1>2. Pages' = Pages
  BY DEF Pages, Visible, store
<1>3. ReceiptsPrecede'
  BY <1>2 DEF Inv, Receipts, ReceiptsPrecede, store
<1>4. InHand' /\ run'.step \notin Late
  BY DEF InHand, AtWork, Late
<1>5. Citations'
  <2>1. ASSUME NEW p \in Pages, Told(p)' PROVE Told(p)
    BY <2>1 DEF Told, store
  <2>2. \A p \in Pages : Told(p)' => wiki[p].cites \cap wiki[p].drew \subseteq junction[wiki[p].key]
    BY <2>1 DEF Inv, Citations
  <2>3. QED
    BY <1>2, <1>4, <2>2 DEF Citations, Late, store
<1>6. QED
  BY <1>1, <1>3, <1>4, <1>5

\* The other parts depend on the run only through these fields.
LEMMA SameRun ==
    ASSUME Inv, UNCHANGED <<raws, store>>, Kept(run, run'),
           run'.pages = run.pages, run'.todo = run.todo, run'.step = run.step
    PROVE  Linking' /\ Complete' /\ Drew'
<1>1. Linking'
  BY DEF Inv, Receipts, Linking, store, Kept, Alike
<1>2. Complete'
  BY DEF Inv, Complete, Handled, Kept, store
<1>3. Drew'
  BY DEF Inv, Drew, Shown, Kept, store, raws
<1>4. QED
  BY <1>1, <1>2, <1>3

LEMMA RetryInv == ASSUME Inv, NEW status, Retry(status) PROVE Inv'
<1>1. /\ run \in Run /\ Phased(run) /\ run.step \in {"ask", "reduce"} /\ run.tries + 1 \in Nat
      /\ (run # Idle => queue # <<>>)
  BY DEF Inv, Typed, Retry, Asking, Run
<1>2. run' = [run EXCEPT !.tries = run.tries + 1]
  BY DEF Retry
<1>3. /\ run' \in Run /\ run'.step = run.step /\ Kept(run, run') /\ run'.pages = run.pages
      /\ run'.todo = run.todo
  BY <1>1, <1>2, TryAgain
<1>4. Phased(run') /\ (run' # Idle => queue # <<>>)
  BY <1>1, <1>3, IdleIs DEF Phased, Kept
<1>5. run.step \notin Late /\ run'.step \notin AtWork
  BY <1>1, <1>3 DEF Late, AtWork
<1>6. UNCHANGED <<raws, store, queue, edits, commands>>
  BY DEF Retry, counts
<1>7. Typed' /\ ReceiptsPrecede' /\ InHand' /\ Citations'
  BY <1>3, <1>4, <1>5, <1>6, Elsewhere
<1>8. Linking' /\ Complete' /\ Drew'
  BY <1>3, <1>6, SameRun
<1>9. QED
  BY <1>7, <1>8 DEF Inv, Receipts

LEMMA BeginInv ==
    ASSUME Inv, NEW pass \in Generative, NEW dirs, NEW blind \in BOOLEAN,
           Begin(pass, Visible(dirs), blind),
           pass = "extract" => dirs = {"sources"}
    PROVE  Inv'
<1> DEFINE inputs == Visible(dirs)
           left == Chunk(SetToSeq(inputs))
           step == IF inputs = {} THEN "done" ELSE "ask"
<1>1. /\ inputs \in SUBSET Paths /\ \A p \in inputs : wiki[p] # None
      /\ (pass = "extract" => \A p \in inputs : p[1] = "sources")
  BY DEF Visible
<1>2. run = Idle /\ queue # <<>> /\ commands \in Nat /\ step \in RunSteps
  BY DEF Begin, Inv, Typed, RawsTyped, RunSteps, Asked
<1>3. run' = [Idle EXCEPT !.pass = pass, !.inputs = inputs, !.blind = blind, !.left = left,
                          !.at = commands, !.step = step]
  BY DEF Begin
<1> HIDE DEF inputs
<1>4. /\ left \in Seq(SUBSET Paths) /\ UNION ToSet(left) = inputs
      /\ (inputs # {} => left # <<>>) /\ \A i \in DOMAIN left : left[i] \subseteq inputs
  BY <1>1, ChunkIs
<1>5. step \in {"ask", "done"} /\ (step = "done" <=> inputs = {})
  OBVIOUS
<1> HIDE DEF left, step
<1>6. /\ run' \in Run /\ run'.pass = pass /\ run'.inputs = inputs /\ run'.left = left
      /\ run'.step = step /\ run'.asked = {} /\ run'.raw = <<>> /\ run'.pages = <<>>
      /\ run'.written = {} /\ run'.refused = {} /\ run'.todo = {}
  <2>1. pass \in Generative /\ blind \in BOOLEAN /\ step \in RunSteps
    BY <1>2
  <2>2. /\ run'.pass = pass /\ run'.inputs = inputs /\ run'.left = left
        /\ run'.step = step /\ run'.asked = {} /\ run'.raw = <<>> /\ run'.pages = <<>>
        /\ run'.written = {} /\ run'.refused = {} /\ run'.todo = {}
    BY <1>3 DEF Idle
  <2>3. inputs \in SUBSET Paths /\ left \in Seq(SUBSET Paths) /\ commands \in Nat
    BY <1>1, <1>2, <1>4
  <2>4. run' \in Run
    <3>1. [Idle EXCEPT !.pass = pass, !.inputs = inputs, !.blind = blind, !.left = left,
                       !.at = commands, !.step = step] \in Run
      BY <2>1, <2>3, BeginTo, ZenonT(30)
    <3>2. QED
      BY <1>3, <3>1, ZenonT(30)
  <2>5. QED
    BY <2>2, <2>4
<1>7. DOMAIN run'.raw = {} /\ DOMAIN run'.pages = {}
  BY <1>6
<1>8. Phased(run')
  BY <1>4, <1>5, <1>6, <1>7, IdleIs DEF Phased, Writing, AtWork
<1>9. UNCHANGED <<raws, store, queue, edits, commands>>
  BY DEF Begin
<1>10. Typed' /\ ReceiptsPrecede' /\ InHand' /\ Citations'
  <2>1. run.step \notin Late /\ run'.step \notin AtWork
    BY <1>2, <1>5, <1>6, IdleIs DEF Late, AtWork
  <2>2. QED
    BY <1>2, <1>6, <1>8, <1>9, <2>1, Elsewhere
<1>11. Linking'
  BY <1>5, <1>6 DEF Linking, Generative
<1>12. Complete'
  BY <1>4, <1>5, <1>6, <1>7 DEF Complete, Asked, Writing, AtWork
<1>13. Drew'
  BY <1>1, <1>4, <1>6, <1>7, <1>9 DEF Inv, Drew, store, raws
<1>14. QED
  BY <1>10, <1>11, <1>12, <1>13 DEF Inv, Receipts

\* The batch that is asked about, and what was shown with it.
LEMMA HeadIs ==
    ASSUME Inv, run.step = "ask"
    PROVE  /\ run.left \in Seq(SUBSET Paths) /\ run.left # <<>> /\ run.pass \in Generative
           /\ Head(run.left) \in SUBSET Paths /\ Head(run.left) \subseteq run.inputs
           /\ Tail(run.left) \in Seq(SUBSET Paths)
           /\ (Len(run.left) = 1 <=> Tail(run.left) = <<>>)
           /\ UNION ToSet(run.left) = Head(run.left) \cup UNION ToSet(Tail(run.left))
           /\ \A i \in DOMAIN Tail(run.left) : Tail(run.left)[i] \subseteq run.inputs
           /\ \A p \in run.inputs : wiki[p] # None
<1> DEFINE left == run.left
<1>1. left \in Seq(SUBSET Paths) /\ left # <<>> /\ run.pass \in Generative
  BY DEF Inv, Typed, Phased, Run
<1>2. /\ \A i \in DOMAIN left : left[i] \subseteq run.inputs
      /\ \A p \in run.inputs : wiki[p] # None
  BY <1>1 DEF Inv, Drew
<1> HIDE DEF left
<1>3. /\ Len(left) \in Nat /\ DOMAIN left = 1..Len(left) /\ Len(left) # 0
      /\ Head(left) = left[1] /\ Tail(left) \in Seq(SUBSET Paths)
      /\ Len(Tail(left)) = Len(left) - 1
      /\ \A i \in 1..Len(Tail(left)) : Tail(left)[i] = left[i + 1]
      /\ DOMAIN Tail(left) = 1..(Len(left) - 1) /\ (Len(left) = 1 <=> Tail(left) = <<>>)
  <2> DEFINE Inputs == SUBSET Paths
  <2>1. left \in Seq(Inputs)
    BY <1>1
  <2> HIDE DEF Inputs
  <2>2. /\ Len(left) \in Nat /\ DOMAIN left = 1..Len(left) /\ Len(left) # 0
        /\ Tail(left) \in Seq(Inputs) /\ Len(Tail(left)) = Len(left) - 1
        /\ \A i \in 1..Len(Tail(left)) : Tail(left)[i] = left[i + 1]
    BY <1>1, <2>1, LenProperties, HeadTailProperties, EmptySeq
  <2>3. Head(left) = left[1]
    BY <1>1, <2>1
  <2>4. DOMAIN Tail(left) = 1..(Len(left) - 1) /\ (Len(left) = 1 <=> Tail(left) = <<>>)
    <3>1. DOMAIN Tail(left) = 1..Len(Tail(left))
      BY <2>2, LenProperties
    <3>2. Tail(left) # <<>> => Len(Tail(left)) # 0
      BY <2>2, EmptySeq
    <3>3. Tail(left) = <<>> => Len(Tail(left)) = 0
      BY <2>2, EmptySeq
    <3>4. QED
      BY <2>2, <3>1, <3>2, <3>3
  <2>5. QED
    BY <2>2, <2>3, <2>4 DEF Inputs
<1>5. 1 \in DOMAIN left /\ Head(left) \in SUBSET Paths
  BY <1>1, <1>3
<1>6. \A i \in DOMAIN Tail(left) : i + 1 \in DOMAIN left /\ Tail(left)[i] = left[i + 1]
  BY <1>3
<1>7. UNION ToSet(left) = Head(left) \cup UNION ToSet(Tail(left))
  <2>1. ASSUME NEW x \in UNION ToSet(left)
        PROVE  x \in Head(left) \cup UNION ToSet(Tail(left))
    <3>1. PICK i \in DOMAIN left : x \in left[i]
      BY DEF ToSet
    <3>2. CASE i = 1
      BY <1>3, <3>1, <3>2
    <3>3. CASE i # 1
      <4>1. i - 1 \in DOMAIN Tail(left) /\ Tail(left)[i - 1] = left[i]
        BY <1>3, <3>1, <3>3
      <4>2. QED
        BY <3>1, <4>1 DEF ToSet
    <3>4. QED
      BY <3>2, <3>3
  <2>2. Head(left) \subseteq UNION ToSet(left)
    BY <1>3, <1>5 DEF ToSet
  <2>3. UNION ToSet(Tail(left)) \subseteq UNION ToSet(left)
    <3>1. ToSet(Tail(left)) \subseteq ToSet(left)
      BY <1>6 DEF ToSet
    <3>2. QED
      BY <3>1
  <2>4. QED
    BY <2>1, <2>2, <2>3
<1>8. /\ Head(left) \subseteq run.inputs
      /\ \A i \in DOMAIN Tail(left) : Tail(left)[i] \subseteq run.inputs
  BY <1>2, <1>3, <1>5, <1>6
<1>9. QED
  BY <1>1, <1>2, <1>3, <1>5, <1>7, <1>8 DEF left

\* What two lists of pages have in common with their concatenation.
LEMMA BothIs ==
    ASSUME NEW s \in Seq(Page), NEW t \in Seq(Page)
    PROVE  /\ s \o t \in Seq(Page)
           /\ \A i \in DOMAIN (s \o t) : \/ \E j \in DOMAIN s : (s \o t)[i] = s[j]
                                         \/ \E j \in DOMAIN t : (s \o t)[i] = t[j]
           /\ \A j \in DOMAIN s : \E i \in DOMAIN (s \o t) : (s \o t)[i] = s[j]
           /\ \A j \in DOMAIN t : \E i \in DOMAIN (s \o t) : (s \o t)[i] = t[j]
<1>1. /\ Len(s) \in Nat /\ Len(t) \in Nat /\ DOMAIN s = 1..Len(s) /\ DOMAIN t = 1..Len(t)
      /\ s \o t \in Seq(Page) /\ Len(s \o t) = Len(s) + Len(t)
      /\ \A i \in 1..(Len(s) + Len(t)) :
            (s \o t)[i] = IF i <= Len(s) THEN s[i] ELSE t[i - Len(s)]
  BY LenProperties, ConcatProperties
<1>2. DOMAIN (s \o t) = 1..(Len(s) + Len(t))
  BY <1>1, LenProperties
<1>3. ASSUME NEW i \in DOMAIN (s \o t)
      PROVE  \/ \E j \in DOMAIN s : (s \o t)[i] = s[j]
             \/ \E j \in DOMAIN t : (s \o t)[i] = t[j]
  <2>1. CASE i <= Len(s)
    <3>1. i \in DOMAIN s /\ (s \o t)[i] = s[i]
      BY <1>1, <1>2, <2>1
    <3>2. QED
      BY <3>1
  <2>2. CASE ~(i <= Len(s))
    <3>1. i - Len(s) \in DOMAIN t /\ (s \o t)[i] = t[i - Len(s)]
      BY <1>1, <1>2, <2>2
    <3>2. QED
      BY <3>1
  <2>3. QED
    BY <2>1, <2>2
<1>4. ASSUME NEW j \in DOMAIN s PROVE j \in DOMAIN (s \o t) /\ (s \o t)[j] = s[j]
  BY <1>1, <1>2
<1>5. ASSUME NEW j \in DOMAIN t
      PROVE  Len(s) + j \in DOMAIN (s \o t) /\ (s \o t)[Len(s) + j] = t[j]
  <2>1. j \in 1..Len(t) /\ Len(s) + j \in 1..(Len(s) + Len(t)) /\ ~(Len(s) + j <= Len(s))
        /\ (Len(s) + j) - Len(s) = j
    BY <1>1
  <2>2. QED
    BY <1>1, <1>2, <2>1
<1>6. QED
  BY <1>1, <1>3, <1>4, <1>5

\* Pages written from what the model was shown.
Drawing(g) == Made(g) /\ Shown(g)

LEMMA RawIs == Inv => \A i \in DOMAIN run.raw : Drawing(run.raw[i])
BY DEF Inv, Typed, Phased, Drew, Drawing

LEMMA WriteDraws ==
    ASSUME Inv, NEW batch \in SUBSET Paths, \A p \in batch : wiki[p] # None,
           run.pass = "extract" => batch \subseteq run.inputs,
           NEW d \in Drafts, NEW kind \in Kinds \ {"summary"}
    PROVE  Drawing(Write(d, kind, batch))
<1>1. StoreTyped
  BY DEF Inv, Typed
<1>2. Made(Write(d, kind, batch)) /\ Write(d, kind, batch).drew = Drawn(batch)
  BY <1>1, WriteIs
<1>3. \A id \in Drawn(batch) : \E p \in batch : id \in wiki[p].drew
  BY <1>1, BatchIs
<1>4. Drawn(batch) \subseteq summarized
  BY <1>3 DEF Inv, Drew
<1>5. ASSUME run.pass = "extract", NEW id \in Drawn(batch)
      PROVE  <<"sources", id[1]>> \in run.inputs
  <2>1. PICK p \in batch : id \in wiki[p].drew
    BY <1>3
  <2>2. p \in run.inputs /\ p[1] = "sources" /\ p \in Paths /\ wiki[p] # None
    BY <1>5, <2>1 DEF Inv, Drew
  <2>3. wiki[p] \in Page /\ InPlace(wiki[p], p)
    BY <1>1, <2>2 DEF StoreTyped
  <2>4. wiki[p].kind = "summary"
    BY <2>2, <2>3, InPlaceIs
  <2>5. p = <<"sources", wiki[p].title>> /\ wiki[p].drew \subseteq {wiki[p].title} \X (0..MaxEdits)
    BY <2>3, <2>4 DEF InPlace
  <2>6. id[1] = wiki[p].title
    BY <2>1, <2>5
  <2>7. QED
    BY <2>2, <2>5, <2>6
<1>6. QED
  BY <1>2, <1>4, <1>5 DEF Drawing, Shown

\* The keys of pages the model was asked for.
LEMMA KeysAre ==
    ASSUME NEW pages \in Seq(Page), \A i \in DOMAIN pages : Made(pages[i])
    PROVE  /\ KeysOf(pages) \in SUBSET Keys
           /\ \A k : k \in KeysOf(pages) <=> \E i \in DOMAIN pages : pages[i].key = k
BY DEF KeysOf, ToSet, Made, Keys

\* All of an answer, or nothing.
LEMMA KeptIs ==
    ASSUME NEW pages \in Seq(Page), \A i \in DOMAIN pages : Drawing(pages[i]),
           NEW kept \in {pages, <<>>}
    PROVE  kept \in Seq(Page) /\ \A i \in DOMAIN kept : Drawing(kept[i])
<1>1. CASE kept = pages
  BY <1>1
<1>2. CASE kept = <<>>
  BY <1>2, EmptySeq
<1>3. QED
  BY <1>1, <1>2

LEMMA AnswerInv ==
    ASSUME Inv, run.step = "ask", NEW pages \in Seq(Page),
           \A i \in DOMAIN pages : Drawing(pages[i]),
           Answer(pages)
    PROVE  Inv'
<1>1. PICK kept \in {pages, <<>>} :
          run' = [run EXCEPT !.asked = @ \cup Head(run.left), !.left = Tail(@), !.tries = 0,
                             !.raw = @ \o kept, !.given = @ \cup KeysOf(pages),
                             !.lost = @ \cup (KeysOf(pages) \ KeysOf(kept)),
                             !.step = IF Len(run.left) = 1 THEN "merge" ELSE "ask"]
  BY DEF Answer
<1>2. kept \in Seq(Page) /\ \A i \in DOMAIN kept : Drawing(kept[i])
  BY <1>1, KeptIs
<1> DEFINE given == run.given \cup KeysOf(pages)
           lost == run.lost \cup (KeysOf(pages) \ KeysOf(kept))
<1>3. given \in SUBSET Keys /\ lost \in SUBSET Keys
  BY KeysAre DEF Drawing, Inv, Typed, Run
<1> HIDE DEF given, lost
<1> DEFINE raw == run.raw \o kept
           step == IF Len(run.left) = 1 THEN "merge" ELSE "ask"
           head == Head(run.left)
           rest == Tail(run.left)
<1>4. /\ run.left # <<>> /\ run.pass \in Generative
      /\ head \in SUBSET Paths /\ head \subseteq run.inputs /\ rest \in Seq(SUBSET Paths)
      /\ (step = "merge" <=> rest = <<>>) /\ step \in {"merge", "ask"}
      /\ UNION ToSet(run.left) = head \cup UNION ToSet(rest)
      /\ \A i \in DOMAIN rest : rest[i] \subseteq run.inputs
      /\ \A p \in run.inputs : wiki[p] # None
  BY HeadIs
<1>5. /\ run \in Run /\ Phased(run) /\ run.raw \in Seq(Page) /\ run # Idle /\ queue # <<>>
  BY IdleIs DEF Inv, Typed, Run
<1>6. raw \in Seq(Page) /\ \A i \in DOMAIN raw : Drawing(raw[i])
  BY <1>2, <1>5, BothIs, RawIs
<1>7. run' = [run EXCEPT !.asked = @ \cup head, !.left = rest, !.tries = 0, !.raw = raw,
                         !.given = given, !.lost = lost, !.step = step]
  BY <1>1 DEF given, lost
<1>8. step \in RunSteps
  BY <1>4 DEF RunSteps, Asked
<1> HIDE DEF raw, step, head, rest
<1>9. /\ run' \in Run /\ run'.step = step /\ run'.raw = raw /\ run'.left = rest
      /\ run'.asked = run.asked \cup head
      /\ run'.pass = run.pass /\ run'.inputs = run.inputs /\ run'.pages = run.pages
      /\ run'.written = run.written /\ run'.refused = run.refused /\ run'.todo = run.todo
  <2>1. run' \in Run
    <3>1. [run EXCEPT !.asked = @ \cup head, !.left = rest, !.tries = 0, !.raw = raw,
                      !.given = given, !.lost = lost, !.step = step] \in Run
      BY <1>3, <1>4, <1>5, <1>6, <1>8, AnswerTo
    <3>2. QED
      BY <1>7, <3>1
  <2>2. QED
    BY <1>5, <1>7, <2>1 DEF Run
<1>10. Phased(run')
  <2>1. \A i \in DOMAIN raw : Made(raw[i])
    BY <1>6 DEF Drawing
  <2>2. \A i \in DOMAIN run'.pages : Made(run'.pages[i])
    BY <1>5, <1>9 DEF Phased
  <2>3. run'.step \notin Writing /\ run' # Idle
    BY <1>4, <1>9, IdleIs DEF Writing, AtWork
  <2>4. QED
    BY <1>4, <1>9, <2>1, <2>2, <2>3 DEF Phased
<1>11. UNCHANGED <<raws, store, queue, edits, commands>>
  BY DEF Answer
<1>12. Typed' /\ ReceiptsPrecede' /\ InHand' /\ Citations'
  <2>1. run.step \notin Late /\ run'.step \notin AtWork
    BY <1>4, <1>9 DEF Late, AtWork
  <2>2. QED
    BY <1>5, <1>9, <1>10, <1>11, <2>1, Elsewhere
<1>13. Linking'
  BY <1>4, <1>9 DEF Linking, Generative
<1>14. Complete'
  <2>1. run.inputs = run.asked \cup UNION ToSet(run.left)
    BY DEF Inv, Complete
  <2>2. run'.step = "ask" => run'.inputs = run'.asked \cup UNION ToSet(run'.left)
    BY <1>4, <1>9, <2>1
  <2>3. rest = <<>> => UNION ToSet(rest) = {}
    BY DEF ToSet
  <2>4. run'.step \in Asked => run'.inputs = run'.asked
    BY <1>4, <1>9, <2>1, <2>3 DEF Asked, Writing, AtWork
  <2>5. run'.step \notin Writing \cup {"done"}
    BY <1>4, <1>9 DEF Writing, AtWork
  <2>6. \A w \in run'.written : w[2] \in Paths /\ \E v \in run'.written :
            v[2] = w[2] /\ wiki'[v[2]] # None /\ wiki'[v[2]].key = v[1]
    BY <1>9, <1>11 DEF Inv, Complete, store
  <2>7. QED
    BY <2>2, <2>4, <2>5, <2>6 DEF Complete
<1>15. Drew'
  <2>1. \A i \in DOMAIN raw : Shown(raw[i])
    BY <1>6 DEF Drawing
  <2>2. /\ (\A i \in DOMAIN run.raw : Shown(run.raw[i]))'
        /\ (\A i \in DOMAIN run.pages : Shown(run.pages[i]))'
    BY <1>9, <1>11, <2>1 DEF Inv, Drew, Shown, raws
  <2>3. run'.asked \subseteq run'.inputs
    BY <1>4, <1>9 DEF Inv, Drew
  <2>4. QED
    BY <1>4, <1>9, <1>11, <2>2, <2>3 DEF Inv, Drew, raws, store
<1>16. QED
  BY <1>12, <1>13, <1>14, <1>15 DEF Inv, Receipts

LEMMA AsksInv ==
    ASSUME Inv, NEW pass \in Generative, NEW kind \in [Drafts -> Kinds \ {"summary"}],
           NEW also \in SUBSET Paths, \A p \in also : wiki[p] # None,
           pass = "extract" => also = {},
           Asks(pass, kind, also)
    PROVE  Inv'
<1> DEFINE batch == Head(run.left) \cup also
<1>1. run.step = "ask" /\ run.pass = pass
  BY DEF Asks
<1>2. Head(run.left) \in SUBSET Paths /\ Head(run.left) \subseteq run.inputs
      /\ \A p \in run.inputs : wiki[p] # None
  BY <1>1, HeadIs
<1>3. batch \in SUBSET Paths /\ (\A p \in batch : wiki[p] # None)
      /\ (run.pass = "extract" => batch \subseteq run.inputs)
  BY <1>1, <1>2
<1>4. Answer(<<>>) \/ \E d \in Drafts : Answer(<<Write(d, kind[d], batch)>>)
  BY DEF Asks
<1> HIDE DEF batch
<1>5. CASE Answer(<<>>)
  <2>1. <<>> \in Seq(Page) /\ DOMAIN <<>> = {}
    BY EmptySeq
  <2>2. QED
    BY <1>1, <1>5, <2>1, AnswerInv
<1>6. ASSUME NEW d \in Drafts, Answer(<<Write(d, kind[d], batch)>>) PROVE Inv'
  <2> DEFINE g == Write(d, kind[d], batch)
  <2>1. Drawing(g)
    BY <1>3, WriteDraws
  <2> HIDE DEF g
  <2>2. g \in Page
    BY <2>1 DEF Drawing, Made
  <2>3. <<g>> \in Seq(Page) /\ \A i \in DOMAIN <<g>> : <<g>>[i] = g
    BY <2>2
  <2>4. Answer(<<g>>)
    BY <1>6 DEF g
  <2>5. \A i \in DOMAIN <<g>> : Drawing(<<g>>[i])
    BY <2>1, <2>3
  <2>6. QED
    BY <1>1, <2>3, <2>4, <2>5, AnswerInv
<1>7. QED
  BY <1>4, <1>5, <1>6

\* A pass that asks and merges goes on, with raw pages drawn from what was shown.
LEMMA GoesOn ==
    ASSUME Inv, UNCHANGED <<raws, store, queue, edits, commands>>,
           run.step \in {"merge", "reduce", "reduced"},
           run' \in Run, run'.step \in {"reduce", "reduced", "stage", "done"},
           run'.pass = run.pass, run'.inputs = run.inputs, run'.asked = run.asked,
           run'.left = run.left, run'.written = run.written, run'.refused = run.refused,
           run'.todo = run.todo,
           \A i \in DOMAIN run'.raw : Drawing(run'.raw[i]),
           \A i \in DOMAIN run'.pages : Drawing(run'.pages[i]),
           run'.step = "stage" => run'.pages # <<>>,
           run'.step = "done" => run'.pages = <<>>,
           run'.step \in {"stage", "done"} =>
              \A i \in DOMAIN run'.raw : \E n \in DOMAIN run'.pages : run'.pages[n].key = run'.raw[i].key
    PROVE  Inv'
<1>1. run.pass \in Generative /\ run # Idle /\ run' # Idle /\ queue # <<>>
  BY IdleIs DEF Inv, Typed, Phased
<1>2. Phased(run')
  <2>1. run'.step # "ask" /\ run'.step \notin {"link", "receipt", "rename"} /\ run'.step # "idle"
        /\ (run'.step \in Writing => run'.step = "stage")
    BY DEF Writing, AtWork
  <2>2. /\ \A i \in DOMAIN run'.raw : Made(run'.raw[i])
        /\ \A i \in DOMAIN run'.pages : Made(run'.pages[i])
    BY DEF Drawing
  <2>3. QED
    BY <1>1, <2>1, <2>2 DEF Phased
<1>3. Typed' /\ ReceiptsPrecede' /\ InHand' /\ Citations'
  <2>1. run.step \notin Late /\ run'.step \notin AtWork
    BY DEF Late, AtWork
  <2>2. QED
    BY <1>1, <1>2, <2>1, Elsewhere
<1>4. Linking'
  BY <1>1 DEF Linking, Generative
<1>5. Complete'
  <2>1. run.inputs = run.asked
    BY <1>1 DEF Inv, Complete, Asked
  <2>2. run'.step \in Writing \cup {"done"} =>
            \A i \in DOMAIN run'.raw : Handled(run', run'.raw[i].key)
    BY DEF Writing, AtWork, Handled
  <2>3. \A w \in run'.written : w[2] \in Paths /\ \E v \in run'.written :
            v[2] = w[2] /\ wiki'[v[2]] # None /\ wiki'[v[2]].key = v[1]
    BY DEF Inv, Complete, store
  <2>4. QED
    BY <2>1, <2>2, <2>3 DEF Complete
<1>6. Drew'
  <2>1. /\ (\A i \in DOMAIN run.raw : Shown(run.raw[i]))'
        /\ (\A i \in DOMAIN run.pages : Shown(run.pages[i]))'
    BY DEF Drawing, Shown, raws
  <2>2. QED
    BY <1>1, <2>1 DEF Inv, Drew, raws, store
<1>7. QED
  BY <1>3, <1>4, <1>5, <1>6 DEF Inv, Receipts

LEMMA ReducesInv == Inv /\ ContradictReduces => Inv'
<1> SUFFICES ASSUME Inv, ContradictReduces PROVE Inv'
  OBVIOUS
<1>1. run \in Run /\ "reduce" \in RunSteps /\ run' = [run EXCEPT !.step = "reduce"]
  BY DEF Inv, Typed, RunSteps, Asked, ContradictReduces
<1>2. run' \in Run /\ run'.step = "reduce" /\ Kept(run, run') /\ run'.pages = run.pages
      /\ run'.todo = run.todo
  BY <1>1, StepTo
<1>3. UNCHANGED <<raws, store, queue, edits, commands>> /\ run.step = "merge"
  BY DEF ContradictReduces, counts
<1>4. /\ \A i \in DOMAIN run'.raw : Drawing(run'.raw[i])
      /\ \A i \in DOMAIN run'.pages : Drawing(run'.pages[i])
  BY <1>2 DEF Inv, Typed, Phased, Drew, Drawing, Kept
<1>5. QED
  BY <1>2, <1>3, <1>4, GoesOn DEF Kept

LEMMA ReducedInv == Inv /\ ContradictReduced => Inv'
<1> SUFFICES ASSUME Inv, ContradictReduced PROVE Inv'
  OBVIOUS
<1>1. PICK pages \in {<<>>} \cup {<<Write(d, "contradiction", run.asked)>> : d \in Drafts} :
          \E kept \in {pages, <<>>} :
             run' = [run EXCEPT !.step = "reduced", !.tries = 0,
                       !.raw = @ \o kept, !.given = @ \cup KeysOf(pages),
                       !.lost = @ \cup (KeysOf(pages) \ KeysOf(kept))]
  BY DEF ContradictReduced
<1>2. run.step = "reduce" /\ UNCHANGED <<raws, store, queue, edits, commands>>
  BY DEF ContradictReduced
<1>3. run \in Run /\ run.raw \in Seq(Page) /\ run.asked \in SUBSET Paths /\ run.pass \in Generative
  BY <1>2 DEF Inv, Typed, Run, Phased
<1>4. run.asked \subseteq run.inputs /\ \A p \in run.asked : wiki[p] # None
  BY <1>3 DEF Inv, Drew
<1>5. pages \in Seq(Page) /\ \A i \in DOMAIN pages : Drawing(pages[i])
  <2>1. CASE pages = <<>>
    BY <2>1, EmptySeq
  <2>2. ASSUME NEW d \in Drafts, pages = <<Write(d, "contradiction", run.asked)>>
        PROVE  pages \in Seq(Page) /\ \A i \in DOMAIN pages : Drawing(pages[i])
    <3> DEFINE g == Write(d, "contradiction", run.asked)
    <3>1. "contradiction" \in Kinds \ {"summary"}
      BY DEF Kinds, CrossKinds
    <3>2. Drawing(g)
      BY <1>3, <1>4, <3>1, WriteDraws
    <3>3. pages = <<g>>
      BY <2>2
    <3> HIDE DEF g
    <3>4. g \in Page
      BY <3>2 DEF Drawing, Made
    <3>5. pages \in Seq(Page) /\ \A i \in DOMAIN pages : pages[i] = g
      BY <3>3, <3>4
    <3>6. QED
      BY <3>2, <3>5
  <2>3. QED
    BY <1>1, <2>1, <2>2
<1>6. PICK kept \in {pages, <<>>} :
          run' = [run EXCEPT !.step = "reduced", !.tries = 0,
                    !.raw = @ \o kept, !.given = @ \cup KeysOf(pages),
                    !.lost = @ \cup (KeysOf(pages) \ KeysOf(kept))]
  BY <1>1
<1> DEFINE raw == run.raw \o kept
           given == run.given \cup KeysOf(pages)
           lost == run.lost \cup (KeysOf(pages) \ KeysOf(kept))
<1>7. raw \in Seq(Page) /\ \A i \in DOMAIN raw : Drawing(raw[i])
  <2>1. kept \in Seq(Page) /\ \A i \in DOMAIN kept : Drawing(kept[i])
    BY <1>5, <1>6, KeptIs
  <2>2. QED
    BY <1>3, <2>1, RawIs, BothIs
<1>8. given \in SUBSET Keys /\ lost \in SUBSET Keys
  BY <1>3, <1>5, KeysAre DEF Drawing, Run
<1>9. run' = [run EXCEPT !.step = "reduced", !.tries = 0, !.raw = raw,
                         !.given = given, !.lost = lost]
  BY <1>6
<1> HIDE DEF raw, given, lost
<1>10. /\ run' \in Run /\ run'.step = "reduced" /\ run'.raw = raw
      /\ run'.pass = run.pass /\ run'.inputs = run.inputs /\ run'.asked = run.asked
      /\ run'.pages = run.pages /\ run'.left = run.left /\ run'.written = run.written
      /\ run'.refused = run.refused /\ run'.todo = run.todo
  <2>1. "reduced" \in RunSteps
    BY DEF RunSteps, Asked
  <2>2. [run EXCEPT !.step = "reduced", !.tries = 0, !.raw = raw,
                    !.given = given, !.lost = lost] \in Run
    BY <1>3, <1>7, <1>8, <2>1, ReduceTo
  <2>3. QED
    BY <1>3, <1>9, <2>2 DEF Run
<1>11. \A i \in DOMAIN run'.pages : Drawing(run'.pages[i])
  BY <1>10 DEF Inv, Typed, Phased, Drew, Drawing
<1>12. \A i \in DOMAIN run'.raw : Drawing(run'.raw[i])
  BY <1>7, <1>10
<1>13. QED
  BY <1>2, <1>10, <1>11, <1>12, GoesOn

LEMMA MergesInv ==
    ASSUME Inv, NEW pass \in Generative, NEW union \in BOOLEAN, Merges(pass, union)
    PROVE  Inv'
<1>1. run.step \in {"merge", "reduced"} /\ UNCHANGED <<raws, store, queue, edits, commands>>
  BY DEF Merges, counts
<1>2. PICK first \in FirstSeen(run.raw),
           longest \in [{g.key : g \in ToSet(run.raw)} -> DOMAIN run.raw] :
          /\ \A k \in DOMAIN longest : longest[k] \in Group(run.raw, k)
          /\ run' = [run EXCEPT !.pages = Merged(run.raw, first, longest, union),
                                !.step = IF run.raw = <<>> THEN "done" ELSE "stage"]
  BY DEF Merges
<1>3. run \in Run /\ run.raw \in Seq(Page) /\ \A i \in DOMAIN run.raw : Made(run.raw[i])
  BY DEF Inv, Typed, Run, Phased
<1> DEFINE pages == Merged(run.raw, first, longest, union)
           step == IF run.raw = <<>> THEN "done" ELSE "stage"
<1>4. Unites(run.raw, pages)
  BY <1>2, <1>3, MergedIs
<1>5. run' = [run EXCEPT !.pages = pages, !.step = step]
  BY <1>2
<1> HIDE DEF pages
<1>6. pages \in Seq(Page) /\ step \in RunSteps
  BY <1>4 DEF Unites, RunSteps, Asked, Writing
<1>7. run' \in Run /\ run'.step = step /\ Kept(run, run') /\ run'.pages = pages /\ run'.todo = run.todo
  <2> HIDE DEF step
  <2>1. [run EXCEPT !.pages = pages, !.step = step] \in Run
    BY <1>3, <1>6, MergeTo
  <2>2. QED
    BY <1>3, <1>5, <2>1 DEF Run, Kept
<1>8. \A n \in DOMAIN pages : Drawing(pages[n])
  <2>1. ASSUME NEW n \in DOMAIN pages PROVE Drawing(pages[n])
    <3>1. Made(pages[n]) /\ \A id \in pages[n].drew : \E i \in DOMAIN run.raw : id \in run.raw[i].drew
      BY <1>4 DEF Unites
    <3>2. \A i \in DOMAIN run.raw : Shown(run.raw[i])
      BY DEF Inv, Drew
    <3>3. Shown(pages[n])
      BY <3>1, <3>2 DEF Shown
    <3>4. QED
      BY <3>1, <3>3 DEF Drawing
  <2>2. QED
    BY <2>1
<1>9. /\ (run'.step = "stage" => run'.pages # <<>>) /\ (run'.step = "done" => run'.pages = <<>>)
      /\ \A i \in DOMAIN run.raw : \E n \in DOMAIN pages : pages[n].key = run.raw[i].key
  BY <1>4, <1>7 DEF Unites
<1>10. \A i \in DOMAIN run'.raw : Drawing(run'.raw[i])
  BY <1>7, RawIs DEF Kept
<1>11. QED
  BY <1>1, <1>7, <1>8, <1>9, <1>10, GoesOn DEF Kept

LEMMA LinkReadsInv == Inv /\ LinkReads => Inv'
<1> SUFFICES ASSUME Inv, LinkReads PROVE Inv'
  OBVIOUS
<1> DEFINE todo == {p \in Visible(Dirs) : Referrers(p[2]) # {}}
<1>1. run = Idle /\ queue # <<>> /\ UNCHANGED <<raws, store, queue, edits, commands>>
      /\ run' = [Idle EXCEPT !.pass = "link", !.step = "link", !.todo = todo]
  BY DEF LinkReads, counts
<1>2. todo \in SUBSET Paths /\ \A p \in todo : wiki[p] # None
  BY DEF Visible
<1> HIDE DEF todo
<1>3. /\ run' \in Run /\ run'.pass = "link" /\ run'.step = "link" /\ run'.todo = todo
      /\ run'.raw = <<>> /\ run'.pages = <<>> /\ run'.written = {}
  BY <1>1, <1>2, LinkFrom
<1>4. DOMAIN run'.raw = {} /\ DOMAIN run'.pages = {}
  BY <1>3
<1>5. Phased(run')
  BY <1>3, <1>4, IdleIs DEF Phased, Writing, AtWork
<1>6. Typed' /\ ReceiptsPrecede' /\ InHand' /\ Citations'
  <2>1. run.step \notin Late /\ run'.step \notin AtWork
    BY <1>1, <1>3, IdleIs DEF Late, AtWork
  <2>2. QED
    BY <1>1, <1>3, <1>5, <2>1, Elsewhere
<1>7. Linking'
  BY <1>1, <1>2, <1>3 DEF Linking, store
<1>8. Complete'
  BY <1>3, <1>4 DEF Complete, Asked, Writing, AtWork
<1>9. Drew'
  BY <1>1, <1>3, <1>4 DEF Inv, Drew, store, raws, Generative
<1>10. QED
  BY <1>6, <1>7, <1>8, <1>9 DEF Inv, Receipts

-----------------------------------------------------------------------------
(* Writing one page *)

LEMMA WritingIs ==
    ASSUME Inv, run.step \in Writing
    PROVE  /\ run \in Run /\ Phased(run) /\ run.pass \in Generative /\ run # Idle /\ queue # <<>>
           /\ run.pages # <<>> /\ Drawing(Now) /\ Now \in Page /\ Now # None /\ Now.key \in Keys
           /\ PathOf(Now) \in Paths /\ InPlace(Now, PathOf(Now)) /\ Now.kind \in Kinds
           /\ PathOf(Now)[1] = DirOf[Now.kind] /\ Now.kind # "summary" /\ run.at \in Nat
           /\ Tail(run.pages) \in Seq(Page)
<1>1. run \in Run /\ Phased(run) /\ run.pass \in Generative /\ run.pages # <<>>
  BY DEF Inv, Typed, Phased
<1>2. run # Idle /\ queue # <<>> /\ run.at \in Nat
  BY <1>1, IdleIs DEF Inv, Typed, Writing, AtWork, Run
<1>3. Now = run.pages[1] /\ 1 \in DOMAIN run.pages /\ Made(Now) /\ Tail(run.pages) \in Seq(Page)
  BY <1>1, NowIs DEF Now
<1>4. Drawing(Now)
  BY <1>3 DEF Inv, Drew, Drawing
<1>5. /\ PathOf(Now) \in Paths /\ PathOf(Now)[1] = DirOf[Now.kind]
      /\ InPlace(Now, PathOf(Now)) /\ Now \in Page /\ Now # None /\ Now.key \in Keys
  BY <1>3, MadeIs
<1>6. Now.kind \in Kinds /\ Now.kind # "summary"
  BY <1>3, <1>5 DEF Made, Page
<1>7. QED
  BY <1>1, <1>2, <1>3, <1>4, <1>5, <1>6

\* The next step for the same page.
LEMMA WriteOn ==
    ASSUME Inv, run.step \in Writing, NEW s \in AtWork, run' = [run EXCEPT !.step = s],
           UNCHANGED <<raws, wiki, queue, edits, commands>>, StoreTyped'
    PROVE  /\ Typed' /\ Linking' /\ Complete' /\ Drew'
           /\ Now' = Now /\ run'.step = s /\ run'.pass = run.pass /\ Pages' = Pages
<1>1. run \in Run /\ Phased(run) /\ run.pass \in Generative /\ run # Idle /\ queue # <<>>
  BY WritingIs
<1>2. s \in RunSteps /\ s \in Writing
  BY DEF RunSteps, Asked, Writing
<1>3. run' \in Run /\ run'.step = s /\ Kept(run, run') /\ run'.pages = run.pages /\ run'.todo = run.todo
  BY <1>1, <1>2, StepTo
<1>4. Phased(run') /\ run' # Idle
  <2>1. s \notin {"idle", "ask", "link", "receipt", "rename"}
    BY DEF AtWork
  <2>2. QED
    BY <1>1, <1>2, <1>3, <2>1, IdleIs DEF Phased, Kept
<1>5. Typed'
  BY <1>1, <1>3, <1>4 DEF Inv, Typed, RawsTyped, raws
<1>6. Linking'
  BY <1>1, <1>3 DEF Linking, Kept, Generative, AtWork
<1>7. Complete'
  <2>1. run.step \in Asked /\ run'.step \notin {"ask", "done"}
    BY <1>3 DEF Asked, AtWork
  <2>2. QED
    BY <1>1, <1>3, <2>1 DEF Inv, Complete, Kept, Handled
<1>8. Drew'
  BY <1>3 DEF Inv, Drew, Shown, Kept, raws
<1>9. Now' = Now /\ Pages' = Pages
  BY <1>3 DEF Now, Pages, Visible
<1>10. QED
  BY <1>3, <1>5, <1>6, <1>7, <1>8, <1>9 DEF Kept

LEMMA StageInv == Inv /\ Stage => Inv'
<1> SUFFICES ASSUME Inv, Stage PROVE Inv'
  OBVIOUS
<1>1. run.step \in Writing /\ run.step = "stage" /\ "row" \in AtWork /\ run' = [run EXCEPT !.step = "row"]
  BY DEF Stage, At, Writing, AtWork
<1>2. /\ UNCHANGED <<raws, wiki, rows, junction, provenance, traces, index, torn, queue, edits, commands>>
      /\ tmp' = [tmp EXCEPT ![PathOf(Now)] = Now]
  BY DEF Stage, counts
<1>3. /\ Now \in Page /\ PathOf(Now) \in Paths /\ InPlace(Now, PathOf(Now))
  BY <1>1, WritingIs
<1>4. tmp'[PathOf(Now)] = Now /\ \A p \in Paths : p # PathOf(Now) => tmp'[p] = tmp[p]
  BY <1>2, <1>3 DEF Inv, Typed, StoreTyped
<1>5. StoreTyped'
  <2>1. tmp' \in [Paths -> Page \cup {None}]
    BY <1>2, <1>3 DEF Inv, Typed, StoreTyped
  <2>2. \A p \in Paths : tmp'[p] # None => InPlace(tmp'[p], p)
    BY <1>3, <1>4 DEF Inv, Typed, StoreTyped
  <2>3. QED
    BY <1>2, <2>1, <2>2 DEF Inv, Typed, StoreTyped
<1>6. /\ Typed' /\ Linking' /\ Complete' /\ Drew'
      /\ Now' = Now /\ run'.step = "row" /\ Pages' = Pages
  BY <1>1, <1>2, <1>5, WriteOn
<1>7. ReceiptsPrecede'
  BY <1>2, <1>6 DEF Inv, Receipts, ReceiptsPrecede
<1>8. InHand'
  <2>1. PathOf(Now)' = PathOf(Now)
    BY <1>6 DEF PathOf
  <2>2. QED
    BY <1>4, <1>6, <2>1 DEF InHand, AtWork, Late
<1>9. Citations'
  BY <1>1, <1>2, <1>6 DEF Inv, Citations, Told, Late
<1>10. QED
  BY <1>6, <1>7, <1>8, <1>9 DEF Inv, Receipts

LEMMA UpsertInv == Inv /\ Upsert => Inv'
<1> SUFFICES ASSUME Inv, Upsert PROVE Inv'
  OBVIOUS
<1> DEFINE row == [kind |-> Now.kind, path |-> PathOf(Now), at |-> run.at]
<1>1. /\ run.step \in Writing /\ run.step = "row" /\ "attribute" \in AtWork
      /\ run' = [run EXCEPT !.step = "attribute"]
  BY DEF Upsert, At, Writing, AtWork
<1>2. /\ UNCHANGED <<raws, wiki, tmp, junction, provenance, traces, index, torn, queue, edits, commands>>
      /\ rows' = [rows EXCEPT ![Now.key] = row]
  BY DEF Upsert, counts
<1>3. /\ Now.key \in Keys /\ Now.kind \in Kinds /\ PathOf(Now) \in Paths /\ run.at \in Nat
      /\ PathOf(Now)[1] = DirOf[Now.kind]
  BY <1>1, WritingIs
<1>4. row \in Row /\ row # None /\ row.path = PathOf(Now) /\ row.path[1] = DirOf[row.kind]
  BY <1>3, NoneAssumption DEF Row
<1> HIDE DEF row
<1>5. rows'[Now.key] = row /\ \A k \in Keys : k # Now.key => rows'[k] = rows[k]
  BY <1>2, <1>3 DEF Inv, Typed, StoreTyped
<1>6. StoreTyped'
  <2>1. rows' \in [Keys -> Row \cup {None}]
    BY <1>2, <1>3, <1>4 DEF Inv, Typed, StoreTyped
  <2>2. \A k \in Keys : rows'[k] # None => rows'[k].path[1] = DirOf[rows'[k].kind]
    BY <1>4, <1>5 DEF Inv, Typed, StoreTyped
  <2>3. QED
    BY <1>2, <2>1, <2>2 DEF Inv, Typed, StoreTyped
<1>7. /\ Typed' /\ Linking' /\ Complete' /\ Drew'
      /\ Now' = Now /\ run'.step = "attribute" /\ Pages' = Pages
  BY <1>1, <1>2, <1>6, WriteOn
<1>8. PathOf(Now)' = PathOf(Now)
  BY <1>7 DEF PathOf
<1>9. \A p \in Pages : wiki[p].key \in Keys /\ p \in Paths
  BY MadeIs DEF Inv, Typed, StoreTyped, Pages, Visible, InPlace
<1>10. ReceiptsPrecede'
  BY <1>2, <1>4, <1>5, <1>7, <1>9 DEF Inv, Receipts, ReceiptsPrecede
<1>11. InHand'
  <2>1. tmp[PathOf(Now)] = Now
    BY <1>1 DEF Inv, Receipts, InHand, AtWork
  <2>2. QED
    BY <1>2, <1>4, <1>5, <1>7, <1>8, <2>1 DEF InHand, AtWork, Late
<1>12. Citations'
  <2>1. ASSUME NEW p \in Pages, Told(p)' PROVE Told(p)
    <3>1. p # PathOf(Now) /\ rows'[wiki[p].key] # None /\ rows'[wiki[p].key].path = p /\ p \notin torn
      BY <1>2, <1>7, <1>8, <2>1 DEF Told, Late
    <3>2. wiki[p].key # Now.key
      BY <1>4, <1>5, <3>1
    <3>3. rows'[wiki[p].key] = rows[wiki[p].key]
      BY <1>5, <1>9, <3>2
    <3>4. QED
      BY <1>1, <3>1, <3>3 DEF Told, Late
  <2>2. QED
    BY <1>2, <1>7, <2>1 DEF Inv, Citations
<1>13. QED
  BY <1>7, <1>10, <1>11, <1>12 DEF Inv, Receipts

\* What the model was shown is among what the pass takes for read.
LEMMA KnownIs == Inv /\ run.step \in Writing => Now.drew \subseteq Known
<1> SUFFICES ASSUME Inv, run.step \in Writing PROVE Now.drew \subseteq Known
  OBVIOUS
<1>1. Shown(Now)
  BY WritingIs DEF Drawing
<1>2. QED
  BY <1>1 DEF Known, Shown

LEMMA AttributeInv == Inv /\ Attribute => Inv'
<1> SUFFICES ASSUME Inv, Attribute PROVE Inv'
  OBVIOUS
<1> DEFINE new == IF Attributed = {} THEN junction[Now.key] ELSE Attributed
<1>1. /\ run.step \in Writing /\ run.step = "attribute" /\ "provenance" \in AtWork
      /\ run' = [run EXCEPT !.step = "provenance"]
  BY DEF Attribute, At, Writing, AtWork
<1>2. /\ UNCHANGED <<raws, wiki, tmp, rows, provenance, traces, index, torn, queue, edits, commands>>
      /\ junction' = [junction EXCEPT ![Now.key] = new]
  BY DEF Attribute, counts
<1>3. Now \in Page /\ Now.key \in Keys
  BY <1>1, WritingIs
<1>4. new \subseteq Ids
  BY <1>3 DEF Page, Attributed, Inv, Typed, StoreTyped
<1>5. Now.cites \cap Now.drew \subseteq new
  <2>1. Now.cites \cap Now.drew \subseteq Attributed
    BY <1>1, KnownIs DEF Attributed
  <2>2. QED
    BY <2>1
<1> HIDE DEF new
<1>6. junction'[Now.key] = new /\ \A k \in Keys : k # Now.key => junction'[k] = junction[k]
  BY <1>2, <1>3 DEF Inv, Typed, StoreTyped
<1>7. StoreTyped'
  <2>1. junction' \in [Keys -> SUBSET Ids]
    BY <1>2, <1>3, <1>4 DEF Inv, Typed, StoreTyped
  <2>2. QED
    BY <1>2, <2>1 DEF Inv, Typed, StoreTyped
<1>8. /\ Typed' /\ Linking' /\ Complete' /\ Drew'
      /\ Now' = Now /\ run'.step = "provenance" /\ Pages' = Pages
  BY <1>1, <1>2, <1>7, WriteOn
<1>9. PathOf(Now)' = PathOf(Now)
  BY <1>8 DEF PathOf
<1>10. ReceiptsPrecede'
  BY <1>2, <1>8 DEF Inv, Receipts, ReceiptsPrecede
<1>11. rows[Now.key] # None /\ rows[Now.key].path = PathOf(Now) /\ tmp[PathOf(Now)] = Now
  BY <1>1 DEF Inv, Receipts, InHand, AtWork, Late
<1>12. InHand'
  BY <1>2, <1>8, <1>9, <1>11 DEF InHand, AtWork, Late
<1>13. Citations'
  <2>1. ASSUME NEW p \in Pages, Told(p)'
        PROVE  wiki[p].cites \cap wiki[p].drew \subseteq junction'[wiki[p].key]
    <3>1. p # PathOf(Now) /\ rows[wiki[p].key] # None /\ rows[wiki[p].key].path = p /\ p \notin torn
      BY <1>2, <1>8, <1>9, <2>1 DEF Told, Late
    <3>2. wiki[p].key # Now.key
      BY <1>11, <3>1
    <3>3. wiki[p].key \in Keys
      BY MadeIs DEF Inv, Typed, StoreTyped, Pages, Visible, InPlace
    <3>4. Told(p)
      BY <3>1 DEF Told
    <3>5. QED
      BY <1>6, <3>2, <3>3, <3>4 DEF Inv, Citations
  <2>2. Now.cites \cap Now.drew \subseteq junction'[Now.key]
    BY <1>5, <1>6
  <2>3. QED
    BY <1>2, <1>8, <2>1, <2>2 DEF Citations
<1>14. QED
  BY <1>8, <1>10, <1>12, <1>13 DEF Inv, Receipts

LEMMA ProvenanceInv == Inv /\ RecordProvenance => Inv'
<1> SUFFICES ASSUME Inv, RecordProvenance PROVE Inv'
  OBVIOUS
<1> DEFINE ids == IF Attributed = {} THEN {Batch} ELSE Attributed
<1>1. /\ run.step \in Writing /\ run.step = "provenance" /\ "trace" \in AtWork
      /\ run' = [run EXCEPT !.step = "trace"]
  BY DEF RecordProvenance, At, Writing, AtWork
<1>2. /\ UNCHANGED <<raws, wiki, tmp, rows, junction, traces, index, torn, queue, edits, commands>>
      /\ provenance' = provenance \cup (ids \X {PathOf(Now)})
  BY DEF RecordProvenance, counts
<1>3. Now \in Page /\ PathOf(Now) \in Paths
  BY <1>1, WritingIs
<1>4. ids \subseteq Ids \cup {Batch} /\ \E id \in ids : TRUE
  BY <1>3 DEF Page, Attributed
<1> HIDE DEF ids
<1>5. \E id \in Ids \cup {Batch} : <<id, PathOf(Now)>> \in provenance'
  <2>1. PICK id \in ids : TRUE
    BY <1>4
  <2>2. id \in Ids \cup {Batch} /\ <<id, PathOf(Now)>> \in provenance'
    BY <1>2, <1>4, <2>1
  <2>3. QED
    BY <2>2
<1>6. StoreTyped'
  <2>1. provenance' \subseteq (Ids \cup {Batch}) \X Paths
    BY <1>2, <1>3, <1>4 DEF Inv, Typed, StoreTyped
  <2>2. QED
    BY <1>2, <2>1 DEF Inv, Typed, StoreTyped
<1>7. /\ Typed' /\ Linking' /\ Complete' /\ Drew'
      /\ Now' = Now /\ run'.step = "trace" /\ Pages' = Pages
  BY <1>1, <1>2, <1>6, WriteOn
<1>8. PathOf(Now)' = PathOf(Now)
  BY <1>7 DEF PathOf
<1>9. ReceiptsPrecede'
  BY <1>2, <1>7 DEF Inv, Receipts, ReceiptsPrecede
<1>10. rows[Now.key] # None /\ rows[Now.key].path = PathOf(Now) /\ tmp[PathOf(Now)] = Now
  BY <1>1 DEF Inv, Receipts, InHand, AtWork, Late
<1>11. InHand'
  BY <1>2, <1>5, <1>7, <1>8, <1>10 DEF InHand, AtWork, Late
<1>12. Citations'
  <2>1. ASSUME NEW p \in Pages, Told(p)' PROVE Told(p)
    BY <1>1, <1>2, <1>7, <1>8, <2>1 DEF Told, Late
  <2>2. Now.cites \cap Now.drew \subseteq junction[Now.key]
    BY <1>1 DEF Inv, Citations
  <2>3. QED
    BY <1>2, <1>7, <2>1, <2>2 DEF Inv, Citations
<1>13. QED
  BY <1>7, <1>9, <1>11, <1>12 DEF Inv, Receipts

LEMMA TraceInv == Inv /\ Trace => Inv'
<1> SUFFICES ASSUME Inv, Trace PROVE Inv'
  OBVIOUS
<1>1. /\ run.step \in Writing /\ run.step = "trace" /\ "publish" \in AtWork
      /\ run' = [run EXCEPT !.step = "publish"]
  BY DEF Trace, At, Writing, AtWork
<1>2. /\ UNCHANGED <<raws, wiki, tmp, rows, junction, provenance, index, torn, queue, edits, commands>>
      /\ traces' = traces \cup {<<Now.key, PathOf(Now)>>}
  BY DEF Trace, counts
<1>3. Now.key \in Keys /\ PathOf(Now) \in Paths
  BY <1>1, WritingIs
<1>4. StoreTyped'
  <2>1. traces' \subseteq (Keys \X Paths) \cup {LinkTrace}
    BY <1>2, <1>3 DEF Inv, Typed, StoreTyped
  <2>2. QED
    BY <1>2, <2>1 DEF Inv, Typed, StoreTyped
<1>5. /\ Typed' /\ Linking' /\ Complete' /\ Drew'
      /\ Now' = Now /\ run'.step = "publish" /\ Pages' = Pages
  BY <1>1, <1>2, <1>4, WriteOn
<1>6. PathOf(Now)' = PathOf(Now)
  BY <1>5 DEF PathOf
<1>7. ReceiptsPrecede'
  BY <1>2, <1>5 DEF Inv, Receipts, ReceiptsPrecede
<1>8. /\ rows[Now.key] # None /\ rows[Now.key].path = PathOf(Now) /\ tmp[PathOf(Now)] = Now
      /\ \E id \in Ids \cup {Batch} : <<id, PathOf(Now)>> \in provenance
  BY <1>1 DEF Inv, Receipts, InHand, AtWork, Late
<1>9. InHand'
  BY <1>2, <1>5, <1>6, <1>8 DEF InHand, AtWork, Late
<1>10. Citations'
  <2>1. ASSUME NEW p \in Pages, Told(p)' PROVE Told(p)
    BY <1>1, <1>2, <1>5, <1>6, <2>1 DEF Told, Late
  <2>2. Now.cites \cap Now.drew \subseteq junction[Now.key]
    BY <1>1 DEF Inv, Citations
  <2>3. QED
    BY <1>2, <1>5, <2>1, <2>2 DEF Inv, Citations
<1>11. QED
  BY <1>5, <1>7, <1>9, <1>10 DEF Inv, Receipts

\* On to the next page, after this one was refused or written.
LEMMA Advances ==
    ASSUME Inv, run.step \in Writing, run' \in Run,
           run'.pages = Tail(run.pages), run'.step = NextPage(Tail(run.pages)),
           run'.pass = run.pass, run'.inputs = run.inputs, run'.asked = run.asked,
           run'.raw = run.raw, run'.left = run.left, run'.todo = run.todo,
           run.refused \subseteq run'.refused, run.written \subseteq run'.written,
           Now.key \in run'.refused \/ \E w \in run'.written : w[1] = Now.key,
           \A w \in run'.written : w[2] \in Paths /\ \E v \in run'.written :
               v[2] = w[2] /\ wiki'[v[2]] # None /\ wiki'[v[2]].key = v[1],
           UNCHANGED raws,
           \A p \in Paths : /\ wiki[p] # None => wiki'[p] # None
                            /\ wiki'[p] # None => wiki'[p].drew \subseteq summarized
    PROVE  /\ Phased(run') /\ Linking' /\ Complete' /\ Drew'
           /\ run' # Idle /\ run'.step \in {"stage", "done"}
<1> DEFINE rest == Tail(run.pages)
<1>1. /\ run \in Run /\ Phased(run) /\ run.pass \in Generative /\ run.pages # <<>>
      /\ run.inputs = run.asked /\ run.inputs \subseteq Paths
  <2>1. run \in Run /\ Phased(run) /\ run.pass \in Generative /\ run.pages # <<>>
    BY WritingIs
  <2>2. QED
    BY <2>1 DEF Inv, Complete, Asked, Run
<1>2. /\ Now = run.pages[1]
      /\ \A i \in DOMAIN rest : i + 1 \in DOMAIN run.pages /\ rest[i] = run.pages[i + 1]
      /\ \A i \in DOMAIN run.pages : i # 1 => i - 1 \in DOMAIN rest
      /\ DOMAIN run.pages \subseteq Int
  <2>1. DOMAIN run.pages \subseteq Int
    <3>1. run.pages \in Seq(Page)
      BY <1>1 DEF Run
    <3>2. QED
      BY <3>1, LenProperties
  <2>2. QED
    BY <1>1, <2>1, NowIs DEF Now
<1> HIDE DEF rest
<1>3. /\ run'.pages = rest /\ run'.step \in {"stage", "done"}
      /\ (run'.step = "done" <=> rest = <<>>)
  BY DEF NextPage, rest
<1>4. run' # Idle
  BY <1>3, IdleIs
<1>5. Phased(run')
  <2>1. /\ \A i \in DOMAIN run'.raw : Made(run'.raw[i])
        /\ \A i \in DOMAIN run'.pages : Made(run'.pages[i])
    BY <1>1, <1>2, <1>3 DEF Phased
  <2>2. QED
    BY <1>1, <1>3, <1>4, <2>1 DEF Phased, Writing, AtWork
<1>6. Linking'
  BY <1>1, <1>3 DEF Linking, Generative
<1>7. Complete'
  <2>1. ASSUME NEW i \in DOMAIN run.raw PROVE Handled(run', run'.raw[i].key)
    <3> DEFINE k == run.raw[i].key
    <3>1. Handled(run, k)
      BY <1>1 DEF Inv, Complete
    <3> HIDE DEF k
    <3>2. ASSUME k \in run.refused PROVE Handled(run', k)
      BY <3>2 DEF Handled
    <3>3. ASSUME NEW n \in DOMAIN run.pages, run.pages[n].key = k PROVE Handled(run', k)
      <4>1. CASE n = 1
        <5>1. Now.key = k
          BY <1>2, <3>3, <4>1
        <5>2. QED
          BY <5>1 DEF Handled
      <4>2. CASE n # 1
        <5>1. n - 1 \in DOMAIN rest /\ rest[n - 1] = run.pages[(n - 1) + 1] /\ (n - 1) + 1 = n
          BY <1>2, <3>3, <4>2
        <5>2. n - 1 \in DOMAIN run'.pages /\ run'.pages[n - 1].key = k
          BY <1>3, <3>3, <5>1
        <5>3. QED
          BY <5>2 DEF Handled
      <4>3. QED
        BY <4>1, <4>2
    <3>4. ASSUME NEW w \in run.written, w[1] = k PROVE Handled(run', k)
      <4>1. w \in run'.written
        OBVIOUS
      <4>2. QED
        BY <3>4, <4>1 DEF Handled
    <3>5. Handled(run', k)
      BY <3>1, <3>2, <3>3, <3>4 DEF Handled
    <3>6. QED
      BY <3>5 DEF k
  <2>2. run'.step # "ask" /\ (run'.step = "done" => run'.pages = <<>>)
    BY <1>3
  <2>3. QED
    BY <1>1, <2>1, <2>2 DEF Complete
<1>8. Drew'
  <2>1. /\ (\A i \in DOMAIN run.raw : Shown(run.raw[i]))'
        /\ (\A i \in DOMAIN run.pages : Shown(run.pages[i]))'
    <3>1. \A i \in DOMAIN run.raw : Shown(run.raw[i])
      BY DEF Inv, Drew
    <3>2. \A i \in DOMAIN rest : Shown(rest[i])
      BY <1>2 DEF Inv, Drew
    <3>3. (\A i \in DOMAIN run.raw : Shown(run.raw[i]))'
      BY <3>1 DEF Shown, raws
    <3>4. (\A i \in DOMAIN run.pages : Shown(run.pages[i]))'
      BY <1>3, <3>2 DEF Shown, raws
    <3>5. QED
      BY <3>3, <3>4
  <2>2. \A p \in run'.inputs : wiki'[p] # None
    BY <1>1 DEF Inv, Drew
  <2>3. QED
    BY <1>1, <2>1, <2>2 DEF Inv, Drew, raws
<1>9. QED
  BY <1>3, <1>4, <1>5, <1>6, <1>7, <1>8

LEMMA RejectInv == Inv /\ Reject => Inv'
<1> SUFFICES ASSUME Inv, Reject PROVE Inv'
  OBVIOUS
<1>1. /\ run.step \in Writing /\ run.step = "stage"
      /\ UNCHANGED <<raws, store, queue, edits, commands>>
      /\ run' = [run EXCEPT !.refused = @ \cup {Now.key}, !.pages = Tail(@),
                            !.step = NextPage(Tail(run.pages))]
  BY DEF Reject, At, Writing, counts
<1>2. /\ run \in Run /\ Now.key \in Keys /\ Tail(run.pages) \in Seq(Page) /\ queue # <<>>
  BY <1>1, WritingIs
<1>3. NextPage(Tail(run.pages)) \in RunSteps
  BY DEF NextPage, RunSteps, Asked, Writing
<1>4. run' \in Run
  <2>1. [run EXCEPT !.refused = @ \cup {Now.key}, !.pages = Tail(run.pages),
                    !.step = NextPage(Tail(run.pages))] \in Run
    BY <1>2, <1>3, RejectTo
  <2>2. QED
    BY <1>1, <2>1
<1>5. /\ run'.pages = Tail(run.pages) /\ run'.step = NextPage(Tail(run.pages))
      /\ run'.pass = run.pass /\ run'.inputs = run.inputs /\ run'.asked = run.asked
      /\ run'.raw = run.raw /\ run'.left = run.left /\ run'.todo = run.todo
      /\ run'.refused = run.refused \cup {Now.key} /\ run'.written = run.written
  BY <1>1, <1>2 DEF Run
<1>6. \A w \in run'.written : w[2] \in Paths /\ \E v \in run'.written :
            v[2] = w[2] /\ wiki'[v[2]] # None /\ wiki'[v[2]].key = v[1]
  BY <1>1, <1>5 DEF Inv, Complete, store
<1>7. \A p \in Paths : /\ wiki[p] # None => wiki'[p] # None
                       /\ wiki'[p] # None => wiki'[p].drew \subseteq summarized
  BY <1>1 DEF Inv, Drew, store
<1>8. /\ Phased(run') /\ Linking' /\ Complete' /\ Drew'
      /\ run' # Idle /\ run'.step \in {"stage", "done"}
  BY <1>1, <1>4, <1>5, <1>6, <1>7, Advances
<1>9. run.step \notin Late /\ run'.step \notin AtWork
  BY <1>1, <1>8 DEF Late, AtWork
<1>10. Typed' /\ ReceiptsPrecede' /\ InHand' /\ Citations'
  BY <1>1, <1>2, <1>4, <1>8, <1>9, Elsewhere
<1>11. QED
  BY <1>8, <1>10 DEF Inv, Receipts

LEMMA PublishInv == Inv /\ Publish => Inv'
<1> SUFFICES ASSUME Inv, Publish PROVE Inv'
  OBVIOUS
<1> DEFINE P == PathOf(Now)
           w0 == <<Now.key, P>>
<1>1. /\ run.step \in Writing /\ run.step = "publish"
      /\ wiki' = [wiki EXCEPT ![P] = tmp[P]] /\ tmp' = [tmp EXCEPT ![P] = None]
      /\ torn' = torn \ {P}
      /\ UNCHANGED <<raws, rows, junction, provenance, traces, index, queue, edits, commands>>
      /\ run' = [run EXCEPT !.written = @ \cup {w0}, !.pages = Tail(@),
                            !.step = NextPage(Tail(run.pages))]
  BY DEF Publish, At, Writing, AtWork, counts
<1>2. /\ run \in Run /\ Now.key \in Keys /\ Tail(run.pages) \in Seq(Page) /\ queue # <<>>
      /\ P \in Paths /\ InPlace(Now, P) /\ Now \in Page /\ Now # None /\ Drawing(Now)
  BY <1>1, WritingIs
<1>3. /\ tmp[P] = Now /\ rows[Now.key] # None /\ rows[Now.key].path = P
      /\ \E id \in Ids \cup {Batch} : <<id, P>> \in provenance
      /\ w0 \in traces
      /\ Now.cites \cap Now.drew \subseteq junction[Now.key]
  BY <1>1 DEF Inv, Receipts, InHand, Citations, AtWork, Late
<1> HIDE DEF P
<1>4. /\ wiki'[P] = Now /\ tmp'[P] = None
      /\ \A p \in Paths : p # P => wiki'[p] = wiki[p] /\ tmp'[p] = tmp[p]
      /\ wiki' \in [Paths -> Page \cup {None}] /\ tmp' \in [Paths -> Page \cup {None}]
  BY <1>1, <1>2, <1>3 DEF Inv, Typed, StoreTyped
<1>5. StoreTyped'
  <2>1. \A p \in Paths : /\ wiki'[p] # None => InPlace(wiki'[p], p)
                         /\ tmp'[p] # None => InPlace(tmp'[p], p)
    BY <1>2, <1>4 DEF Inv, Typed, StoreTyped
  <2>2. QED
    BY <1>1, <1>4, <2>1 DEF Inv, Typed, StoreTyped
<1>6. NextPage(Tail(run.pages)) \in RunSteps /\ w0 \in Keys \X Paths
  BY <1>2 DEF NextPage, RunSteps, Asked, Writing
<1>7. run' \in Run
  <2> HIDE DEF w0
  <2>1. [run EXCEPT !.written = @ \cup {w0}, !.pages = Tail(run.pages),
                    !.step = NextPage(Tail(run.pages))] \in Run
    BY <1>2, <1>6, PublishTo
  <2>2. QED
    BY <1>1, <2>1
<1>8. /\ run'.pages = Tail(run.pages) /\ run'.step = NextPage(Tail(run.pages))
      /\ run'.pass = run.pass /\ run'.inputs = run.inputs /\ run'.asked = run.asked
      /\ run'.raw = run.raw /\ run'.left = run.left /\ run'.todo = run.todo
      /\ run'.refused = run.refused /\ run'.written = run.written \cup {w0}
  BY <1>1, <1>2 DEF Run
<1>9. ASSUME NEW w \in run'.written
      PROVE  w[2] \in Paths /\ \E v \in run'.written :
                v[2] = w[2] /\ wiki'[v[2]] # None /\ wiki'[v[2]].key = v[1]
  <2>1. w0 \in run'.written /\ w0[2] = P /\ w0[1] = Now.key /\ wiki'[w0[2]] # None
        /\ wiki'[w0[2]].key = w0[1]
    BY <1>2, <1>4, <1>8
  <2>2. CASE w[2] = P
    <3>1. w0[2] = w[2]
      BY <2>1, <2>2
    <3>2. QED
      BY <1>2, <2>1, <2>2, <3>1
  <2>3. CASE w[2] # P
    <3>1. w \in run.written
      BY <1>8, <2>1, <2>3
    <3>2. w[2] \in Paths
      BY <3>1 DEF Inv, Complete
    <3>3. PICK v \in run.written : v[2] = w[2] /\ wiki[v[2]] # None /\ wiki[v[2]].key = v[1]
      BY <3>1 DEF Inv, Complete
    <3>4. v \in run'.written /\ wiki'[v[2]] = wiki[v[2]]
      BY <1>4, <1>8, <2>3, <3>2, <3>3
    <3>5. QED
      BY <3>2, <3>3, <3>4
  <2>4. QED
    BY <2>2, <2>3
<1>10. \A p \in Paths : /\ wiki[p] # None => wiki'[p] # None
                        /\ wiki'[p] # None => wiki'[p].drew \subseteq summarized
  BY <1>2, <1>4 DEF Inv, Drew, Drawing, Shown
<1>11. \E w \in run'.written : w[1] = Now.key
  <2>1. w0 \in run'.written /\ w0[1] = Now.key
    BY <1>8
  <2>2. QED
    BY <2>1
<1>12. /\ Phased(run') /\ Linking' /\ Complete' /\ Drew'
       /\ run' # Idle /\ run'.step \in {"stage", "done"}
  BY <1>1, <1>7, <1>8, <1>9, <1>10, <1>11, Advances
<1>13. Typed'
  <2>1. torn' \subseteq Paths
    BY <1>1 DEF Inv, Typed, StoreTyped
  <2>2. QED
    BY <1>1, <1>2, <1>5, <1>7, <1>12 DEF Inv, Typed, RawsTyped, raws
<1>14. ASSUME NEW p \in Pages' PROVE p \in Paths /\ (p # P => p \in Pages /\ wiki'[p] = wiki[p])
  BY <1>4, <1>14 DEF Pages, Visible
<1>15. ReceiptsPrecede'
  <2>1. ASSUME NEW p \in Pages'
        PROVE  /\ rows[wiki'[p].key] # None /\ <<wiki'[p].key, p>> \in traces
               /\ \E id \in Ids \cup {Batch} : <<id, p>> \in provenance
    <3>1. CASE p = P
      BY <1>3, <1>4, <3>1
    <3>2. CASE p # P
      BY <1>14, <3>2 DEF Inv, Receipts, ReceiptsPrecede
    <3>3. QED
      BY <3>1, <3>2
  <2>2. QED
    BY <1>1, <2>1 DEF ReceiptsPrecede
<1>16. InHand' /\ run'.step \notin Late
  BY <1>12 DEF InHand, AtWork, Late
<1>17. Citations'
  <2>1. ASSUME NEW p \in Pages', Told(p)'
        PROVE  wiki'[p].cites \cap wiki'[p].drew \subseteq junction[wiki'[p].key]
    <3>1. CASE p = P
      BY <1>3, <1>4, <3>1
    <3>2. CASE p # P
      <4>1. p \in Pages /\ wiki'[p] = wiki[p]
        BY <1>14, <3>2
      <4>2. Told(p)
        BY <1>1, <2>1, <3>2, <4>1 DEF Told, P
      <4>3. QED
        BY <4>1, <4>2 DEF Inv, Citations
    <3>3. QED
      BY <3>1, <3>2
  <2>2. QED
    BY <1>1, <1>16, <2>1 DEF Citations, Late
<1>18. QED
  BY <1>12, <1>13, <1>15, <1>16, <1>17 DEF Inv, Receipts

-----------------------------------------------------------------------------
(* The link pass *)

\* Backlinks are all that changes in the pages.
LEMMA LinksOn ==
    ASSUME Inv, run.step \in {"link", "receipt", "rename"},
           run' \in Run, Kept(run, run'), run'.pages = run.pages,
           run'.step \in {"receipt", "rename", "done"}, StoreTyped',
           UNCHANGED <<raws, rows, junction, provenance, torn, queue, edits, commands>>,
           traces \subseteq traces',
           \A p \in Paths : wiki'[p] = wiki[p] \/ (wiki[p] # None /\ wiki'[p] # None /\ Alike(wiki[p], wiki'[p]))
    PROVE  Typed' /\ ReceiptsPrecede' /\ InHand' /\ Citations' /\ Complete' /\ Drew'
<1>1. run.pass = "link" /\ run # Idle /\ queue # <<>> /\ Phased(run)
  BY IdleIs DEF Inv, Typed, Phased
<1>2. run'.pass = "link" /\ "link" \notin Generative /\ run' # Idle
  BY <1>1, IdleIs DEF Kept, Generative
<1>3. Phased(run')
  <2>1. run'.step \notin {"idle", "ask", "merge", "reduce", "reduced"} \cup Writing
    BY DEF Writing, AtWork
  <2>2. QED
    BY <1>1, <1>2, <2>1 DEF Phased, Kept
<1>4. Typed'
  BY <1>1, <1>3 DEF Inv, Typed, RawsTyped, raws
<1>5. ASSUME NEW p \in Pages'
      PROVE  /\ p \in Pages /\ p \in Paths /\ wiki'[p].key = wiki[p].key
             /\ wiki'[p].cites = wiki[p].cites /\ wiki'[p].drew = wiki[p].drew
  <2>1. p \in Paths /\ p[1] \in Dirs /\ wiki'[p] # None /\ wiki'[p].kind # "summary"
    BY <1>5 DEF Pages, Visible
  <2>2. wiki'[p] = wiki[p] \/ (wiki[p] # None /\ Alike(wiki[p], wiki'[p]))
    BY <2>1
  <2>3. wiki[p] # None /\ wiki[p].kind # "summary"
    BY <2>1, <2>2 DEF Alike
  <2>4. QED
    BY <2>1, <2>2, <2>3 DEF Alike, Pages, Visible
<1>6. ReceiptsPrecede'
  <2>1. ASSUME NEW p \in Pages'
        PROVE  /\ rows[wiki'[p].key] # None /\ <<wiki'[p].key, p>> \in traces'
               /\ \E id \in Ids \cup {Batch} : <<id, p>> \in provenance
    BY <1>5 DEF Inv, Receipts, ReceiptsPrecede
  <2>2. QED
    BY <2>1 DEF ReceiptsPrecede
<1>7. run.step \notin Late /\ run'.step \notin Late /\ run'.step \notin AtWork
  BY DEF Late, AtWork
<1>8. InHand'
  BY <1>7 DEF InHand, AtWork, Late
<1>9. Citations'
  <2>1. ASSUME NEW p \in Pages', Told(p)'
        PROVE  wiki'[p].cites \cap wiki'[p].drew \subseteq junction[wiki'[p].key]
    <3>1. Told(p)
      BY <1>5, <1>7, <2>1 DEF Told
    <3>2. QED
      BY <1>5, <3>1 DEF Inv, Citations
  <2>2. QED
    BY <1>7, <2>1 DEF Citations, Late
<1>10. Complete'
  <2>1. ASSUME NEW w \in run.written
        PROVE  w[2] \in Paths /\ \E v \in run.written :
                  v[2] = w[2] /\ wiki'[v[2]] # None /\ wiki'[v[2]].key = v[1]
    <3>1. w[2] \in Paths
      BY DEF Inv, Complete
    <3>2. PICK v \in run.written : v[2] = w[2] /\ wiki[v[2]] # None /\ wiki[v[2]].key = v[1]
      BY DEF Inv, Complete
    <3>3. wiki'[v[2]] # None /\ wiki'[v[2]].key = v[1]
      BY <3>1, <3>2 DEF Alike
    <3>4. QED
      BY <3>1, <3>2, <3>3
  <2>2. \A w \in run'.written : w[2] \in Paths /\ \E v \in run'.written :
            v[2] = w[2] /\ wiki'[v[2]] # None /\ wiki'[v[2]].key = v[1]
    BY <2>1 DEF Kept
  <2>3. run'.step # "ask"
    OBVIOUS
  <2>4. run'.step \in Writing \cup {"done"} => run'.pass \notin Generative
    BY <1>2
  <2>5. QED
    BY <1>2, <2>2, <2>3 DEF Complete
<1>11. Drew'
  <2>1. /\ (\A i \in DOMAIN run.raw : Shown(run.raw[i]))'
        /\ (\A i \in DOMAIN run.pages : Shown(run.pages[i]))'
    BY DEF Inv, Drew, Shown, raws, Kept
  <2>2. \A p \in Paths : wiki'[p] # None => wiki'[p].drew \subseteq summarized
    BY DEF Inv, Drew, Alike
  <2>3. QED
    BY <1>2, <2>1, <2>2 DEF Drew, raws
<1>12. QED
  BY <1>4, <1>6, <1>8, <1>9, <1>10, <1>11

LEMMA LinkStagesInv == Inv /\ LinkStages => Inv'
<1> SUFFICES ASSUME Inv, LinkStages PROVE Inv'
  OBVIOUS
<1> DEFINE new(p) == [wiki[p] EXCEPT !.back = Referrers(p[2])]
           step == IF run.todo = {} THEN "done" ELSE "receipt"
<1>1. /\ run.step = "link" /\ run' = [run EXCEPT !.step = step]
      /\ tmp' = [p \in Paths |-> IF p \in run.todo THEN new(p) ELSE tmp[p]]
      /\ UNCHANGED <<raws, wiki, rows, junction, provenance, traces, index, torn, queue, edits, commands>>
  BY DEF LinkStages, counts
<1>2. run \in Run /\ run.pass = "link" /\ \A p \in run.todo : wiki[p] # None /\ p \in Paths
  BY <1>1 DEF Inv, Typed, Phased, Receipts, Linking, Run
<1>3. ASSUME NEW p \in run.todo
      PROVE  /\ new(p) \in Page /\ new(p) # None /\ InPlace(new(p), p) /\ Alike(new(p), wiki[p])
  <2> DEFINE g == wiki[p]
             h == new(p)
  <2>1. g \in Page /\ InPlace(g, p)
    BY <1>2 DEF Inv, Typed, StoreTyped
  <2>2. Referrers(p[2]) \subseteq Paths
    BY DEF Referrers, Visible
  <2>3. h = [g EXCEPT !.back = Referrers(p[2])]
    OBVIOUS
  <2> HIDE DEF g, h
  <2>4. /\ h \in Page /\ h.title = g.title /\ h.key = g.key /\ h.kind = g.kind
        /\ h.cites = g.cites /\ h.drew = g.drew
    BY <2>1, <2>2, <2>3 DEF Page
  <2>5. InPlace(h, p) /\ Alike(h, g) /\ h # None
    BY <2>1, <2>4, NoneAssumption DEF InPlace, Made, PathOf, Alike
  <2>6. QED
    BY <2>4, <2>5 DEF g, h
<1> HIDE DEF new
<1>4. StoreTyped'
  <2>1. \A p \in Paths : tmp'[p] \in Page \cup {None} /\ (tmp'[p] # None => InPlace(tmp'[p], p))
    BY <1>1, <1>3 DEF Inv, Typed, StoreTyped
  <2>2. tmp' = [p \in Paths |-> tmp'[p]]
    BY <1>1
  <2>3. tmp' \in [Paths -> Page \cup {None}]
    BY <2>1, <2>2
  <2>4. QED
    BY <1>1, <2>1, <2>3 DEF Inv, Typed, StoreTyped
<1>5. /\ run' \in Run /\ run'.step = step /\ Kept(run, run') /\ run'.pages = run.pages
      /\ run'.todo = run.todo
  <2>1. step \in RunSteps
    BY DEF RunSteps, Asked
  <2> HIDE DEF step
  <2>2. QED
    BY <1>1, <1>2, <2>1, StepTo
<1>6. Typed' /\ ReceiptsPrecede' /\ InHand' /\ Citations' /\ Complete' /\ Drew'
  BY <1>1, <1>4, <1>5, LinksOn
<1>7. Linking'
  BY <1>1, <1>2, <1>3, <1>5 DEF Linking
<1>8. QED
  BY <1>6, <1>7 DEF Inv, Receipts

LEMMA LinkTracesInv == Inv /\ LinkTraces => Inv'
<1> SUFFICES ASSUME Inv, LinkTraces PROVE Inv'
  OBVIOUS
<1>1. /\ run.step = "receipt" /\ run' = [run EXCEPT !.step = "rename"]
      /\ traces' = traces \cup {LinkTrace}
      /\ UNCHANGED <<raws, wiki, tmp, rows, junction, provenance, index, torn, queue, edits, commands>>
  BY DEF LinkTraces, counts
<1>2. run \in Run /\ "rename" \in RunSteps
  BY DEF Inv, Typed, RunSteps
<1>3. /\ run' \in Run /\ run'.step = "rename" /\ Kept(run, run') /\ run'.pages = run.pages
      /\ run'.todo = run.todo
  BY <1>1, <1>2, StepTo
<1>4. StoreTyped'
  BY <1>1 DEF Inv, Typed, StoreTyped
<1>5. Typed' /\ ReceiptsPrecede' /\ InHand' /\ Citations' /\ Complete' /\ Drew'
  BY <1>1, <1>3, <1>4, LinksOn
<1>6. Linking'
  BY <1>1, <1>3 DEF Inv, Receipts, Linking, Kept
<1>7. QED
  BY <1>5, <1>6 DEF Inv, Receipts

LEMMA LinkRenamesInv == Inv /\ LinkRenames => Inv'
<1> SUFFICES ASSUME Inv, LinkRenames PROVE Inv'
  OBVIOUS
<1>1. PICK p \in run.todo :
          /\ wiki' = [wiki EXCEPT ![p] = tmp[p]]
          /\ tmp' = [tmp EXCEPT ![p] = None]
          /\ run' = [run EXCEPT !.todo = @ \ {p},
                                !.step = IF run.todo = {p} THEN "done" ELSE "rename"]
  BY DEF LinkRenames
<1>2. /\ run.step = "rename"
      /\ UNCHANGED <<raws, rows, junction, provenance, traces, index, torn, queue, edits, commands>>
  BY DEF LinkRenames, counts
<1>3. /\ run \in Run /\ run.pass = "link" /\ run.todo \subseteq Paths /\ p \in Paths
      /\ \A q \in run.todo : wiki[q] # None /\ tmp[q] # None /\ Alike(tmp[q], wiki[q])
  BY <1>2 DEF Inv, Typed, Phased, Receipts, Linking, Run
<1>4. /\ wiki'[p] = tmp[p] /\ tmp'[p] = None /\ tmp[p] \in Page /\ InPlace(tmp[p], p)
      /\ \A q \in Paths : q # p => wiki'[q] = wiki[q] /\ tmp'[q] = tmp[q]
      /\ wiki' \in [Paths -> Page \cup {None}] /\ tmp' \in [Paths -> Page \cup {None}]
  BY <1>1, <1>3 DEF Inv, Typed, StoreTyped
<1>5. StoreTyped'
  <2>1. \A q \in Paths : /\ wiki'[q] # None => InPlace(wiki'[q], q)
                         /\ tmp'[q] # None => InPlace(tmp'[q], q)
    BY <1>4 DEF Inv, Typed, StoreTyped
  <2>2. QED
    BY <1>2, <1>4, <2>1 DEF Inv, Typed, StoreTyped
<1> DEFINE step == IF run.todo = {p} THEN "done" ELSE "rename"
<1>6. /\ run' \in Run /\ run'.step = step /\ Kept(run, run') /\ run'.pages = run.pages
      /\ run'.todo = run.todo \ {p}
  <2>1. step \in RunSteps /\ run' = [run EXCEPT !.todo = @ \ {p}, !.step = step]
    BY <1>1 DEF RunSteps, Asked
  <2> HIDE DEF step
  <2>2. [run EXCEPT !.todo = @ \ {p}, !.step = step] \in Run
    BY <1>3, <2>1, LinkTo
  <2>3. QED
    BY <1>3, <2>1, <2>2 DEF Run, Kept
<1>7. \A q \in Paths : wiki'[q] = wiki[q] \/ (wiki[q] # None /\ wiki'[q] # None /\ Alike(wiki[q], wiki'[q]))
  BY <1>3, <1>4 DEF Alike
<1>8. Typed' /\ ReceiptsPrecede' /\ InHand' /\ Citations' /\ Complete' /\ Drew'
  BY <1>2, <1>5, <1>6, <1>7, LinksOn
<1>9. Linking'
  BY <1>3, <1>4, <1>6 DEF Linking
<1>10. QED
  BY <1>8, <1>9 DEF Inv, Receipts

-----------------------------------------------------------------------------
(* All the steps *)

LEMMA KindsAre ==
    /\ ExtractKind \in [Drafts -> Kinds \ {"summary"}] /\ TopicKind \in [Drafts -> Kinds \ {"summary"}]
    /\ ContradictionKind \in [Drafts -> Kinds \ {"summary"}] /\ GapKind \in [Drafts -> Kinds \ {"summary"}]
<1>1. {"concept", "entity", "topic", "contradiction", "open-question"} \subseteq Kinds \ {"summary"}
  BY DEF Kinds, CrossKinds
<1>2. QED
  BY <1>1 DEF ExtractKind, TopicKind, ContradictionKind, GapKind

LEMMA ReadsInv ==
    Inv /\ (ExtractReads \/ SynthesizeReads \/ ContradictReads \/ GapReads) => Inv'
<1>1. Visible({}) = {} /\ TRUE \in BOOLEAN /\ FALSE \in BOOLEAN
      /\ {"extract", "synthesize", "contradict", "gap"} \subseteq Generative
  BY DEF Visible, Generative
<1>2. ASSUME Inv, ExtractReads PROVE Inv'
  BY <1>1, <1>2, BeginInv DEF ExtractReads
<1>3. ASSUME Inv, SynthesizeReads PROVE Inv'
  BY <1>1, <1>3, BeginInv DEF SynthesizeReads
<1>4. ASSUME Inv, ContradictReads PROVE Inv'
  BY <1>1, <1>4, BeginInv DEF ContradictReads
<1>5. ASSUME Inv, GapReads PROVE Inv'
  BY <1>1, <1>5, BeginInv DEF GapReads
<1>6. QED
  BY <1>2, <1>3, <1>4, <1>5

LEMMA AskingInv ==
    Inv /\ (ExtractAsks \/ SynthesizeAsks \/ ContradictAsks \/ GapAsks) => Inv'
<1>1. /\ Visible({"concepts"}) \in SUBSET Paths /\ \A p \in Visible({"concepts"}) : wiki[p] # None
      /\ {"extract", "synthesize", "contradict", "gap"} \subseteq Generative
  BY DEF Visible, Generative
<1>2. ASSUME Inv, ExtractAsks PROVE Inv'
  BY <1>1, <1>2, KindsAre, AsksInv DEF ExtractAsks
<1>3. ASSUME Inv, SynthesizeAsks PROVE Inv'
  BY <1>1, <1>3, KindsAre, AsksInv DEF SynthesizeAsks
<1>4. ASSUME Inv, ContradictAsks PROVE Inv'
  BY <1>1, <1>4, KindsAre, AsksInv DEF ContradictAsks
<1>5. ASSUME Inv, GapAsks PROVE Inv'
  BY <1>1, <1>5, KindsAre, AsksInv DEF GapAsks
<1>6. QED
  BY <1>2, <1>3, <1>4, <1>5

LEMMA MergingInv ==
    Inv /\ (ExtractMerges \/ SynthesizeMerges \/ ContradictMerges \/ GapMerges) => Inv'
<1>1. {"extract", "synthesize", "contradict", "gap"} \subseteq Generative
  BY DEF Generative
<1>2. ASSUME Inv, ExtractMerges PROVE Inv'
  BY <1>1, <1>2, MergesInv DEF ExtractMerges
<1>3. ASSUME Inv, SynthesizeMerges PROVE Inv'
  BY <1>1, <1>3, MergesInv DEF SynthesizeMerges
<1>4. ASSUME Inv, ContradictMerges PROVE Inv'
  BY <1>1, <1>4, MergesInv DEF ContradictMerges
<1>5. ASSUME Inv, GapMerges PROVE Inv'
  BY <1>1, <1>5, MergesInv DEF GapMerges
<1>6. QED
  BY <1>2, <1>3, <1>4, <1>5

LEMMA PageInv ==
    Inv /\ (\/ ExtractStages \/ SynthesizeStages \/ ContradictStages \/ GapStages
            \/ ExtractRecords \/ SynthesizeRecords \/ ContradictRecords \/ GapRecords) => Inv'
<1>1. Inv /\ (Reject \/ Stage \/ Upsert) => Inv'
  BY RejectInv, StageInv, UpsertInv
<1>2. Inv /\ (Attribute \/ RecordProvenance \/ Trace \/ Publish) => Inv'
  BY AttributeInv, ProvenanceInv, TraceInv, PublishInv
<1>3. QED
  BY <1>1, <1>2 DEF ExtractStages, SynthesizeStages, ContradictStages, GapStages,
        ExtractRecords, SynthesizeRecords, ContradictRecords, GapRecords

LEMMA NextInv == Inv /\ Next => Inv'
<1>1. Inv /\ Steps => Inv'
  <2>1. Inv /\ (\E status \in Statuses : Retry(status) \/ Refused(status)) => Inv'
    BY RetryInv, RefusedInv
  <2>2. QED
    BY <2>1, ReadsInv, AskingInv, MergingInv, PageInv, ReducesInv, ReducedInv,
       LinkReadsInv, LinkStagesInv, LinkTracesInv, LinkRenamesInv, SummarizeInv, FinishInv
       DEF Steps
<1>2. ASSUME Inv, NEW s \in Sources, CompileChanged(s) PROVE Inv'
  BY <1>2, CompileChangedInv
<1>3. ASSUME Inv, NEW s \in Edited, Edit(s) PROVE Inv'
  BY <1>3, EditInv
<1>4. QED
  BY <1>1, <1>2, <1>3, StopsInv, CompileInv DEF Next

LEMMA StutterInv == Inv /\ UNCHANGED vars => Inv'
<1> SUFFICES ASSUME Inv, UNCHANGED vars PROVE Inv'
  OBVIOUS
<1> USE DEF vars
<1>1. StoreTyped' /\ RawsTyped'
  BY DEF Inv, Typed, StoreTyped, RawsTyped
<1>2. Typed' /\ Pages' = Pages /\ Now' = Now
  BY <1>1 DEF Inv, Typed, Pages, Visible, Now
<1>3. Receipts'
  <2>1. ReceiptsPrecede'
    BY <1>2 DEF Inv, Receipts, ReceiptsPrecede
  <2>2. InHand'
    BY <1>2 DEF Inv, Receipts, InHand, PathOf
  <2>3. Linking'
    BY DEF Inv, Receipts, Linking
  <2>4. QED
    BY <2>1, <2>2, <2>3 DEF Receipts
<1>4. Complete'
  BY DEF Inv, Complete
<1>5. Drew'
  BY DEF Inv, Drew, Shown
<1>6. Citations'
  BY <1>2 DEF Inv, Citations, Told, PathOf
<1>7. QED
  BY <1>2, <1>3, <1>4, <1>5, <1>6 DEF Inv

LEMMA Inductive == Spec => []Inv
<1>1. Inv /\ [Next]_vars => Inv'
  BY NextInv, StutterInv
<1>2. QED
  BY InitInv, <1>1, PTL DEF Spec

-----------------------------------------------------------------------------
(* What a pass read and was answered *)

\* What a pass writes goes to other directories than it reads; so its inputs are all
\* that is there, as long as it runs; and each title it was given is in a raw page or lost.
Apart(g) == DirOf[g.kind] \notin MustRead[run.pass]
Account ==
    /\ \A k \in run.given : k \in run.lost \/ \E i \in DOMAIN run.raw : run.raw[i].key = k
    /\ run.pass \in Generative =>
          /\ \A i \in DOMAIN run.raw : Apart(run.raw[i])
          /\ \A i \in DOMAIN run.pages : Apart(run.pages[i])
          /\ ~run.blind => run.inputs = Visible(MustRead[run.pass])

LEMMA MustReadIs ==
    /\ \A pass \in Generative : DirOf["contradiction"] \notin MustRead[pass]
    /\ \A d \in Drafts : /\ DirOf[ExtractKind[d]] \notin MustRead["extract"]
                          /\ DirOf[TopicKind[d]] \notin MustRead["synthesize"]
                          /\ DirOf[ContradictionKind[d]] \notin MustRead["contradict"]
                          /\ DirOf[GapKind[d]] \notin MustRead["gap"]
<1>1. /\ DirOf["contradiction"] = "contradictions" /\ DirOf["concept"] = "concepts"
      /\ DirOf["entity"] = "entities" /\ DirOf["topic"] = "topics"
      /\ DirOf["open-question"] = "open-questions"
  BY DEF DirOf, Kinds, CrossKinds
<1>2. /\ MustRead["extract"] = {"sources"} /\ MustRead["synthesize"] = {"sources"}
      /\ MustRead["contradict"] = {"sources"}
      /\ MustRead["gap"] = {"sources", "concepts", "topics"}
  BY DEF MustRead
<1>3. ASSUME NEW d \in Drafts
      PROVE  /\ ExtractKind[d] \in {"concept", "entity"} /\ TopicKind[d] = "topic"
             /\ ContradictionKind[d] = "contradiction" /\ GapKind[d] = "open-question"
  BY DEF ExtractKind, TopicKind, ContradictionKind, GapKind
<1>4. QED
  BY <1>1, <1>2, <1>3 DEF Generative

\* No pass runs.
LEMMA RestAccount == ASSUME run' = Idle PROVE Account'
<1>1. run'.given = {} /\ run'.pass \notin Generative
  BY IdleIs DEF Generative
<1>2. QED
  BY <1>1 DEF Account

\* The link pass asks nothing.
LEMMA LinkAccount ==
    ASSUME Account, run.pass = "link", run' \in Run, Kept(run, run')
    PROVE  Account'
<1>1. run'.pass \notin Generative
  BY DEF Kept, Generative
<1>2. QED
  BY <1>1 DEF Account, Kept

\* The pass goes on to write some of its pages, and all that it reads stays in place.
LEMMA SameAccount ==
    ASSUME Inv, Account, run.pass \in Generative, run'.pass = run.pass, run'.blind = run.blind,
           run'.inputs = run.inputs, run'.raw = run.raw, run'.given = run.given,
           run'.lost = run.lost,
           \A i \in DOMAIN run'.pages : \/ \E j \in DOMAIN run.pages : run.pages[j] = run'.pages[i]
                                        \/ \E j \in DOMAIN run.raw : run.raw[j].kind = run'.pages[i].kind,
           \A p \in Paths : p[1] \in MustRead[run.pass] => wiki'[p] = wiki[p]
    PROVE  Account'
<1>1. \A i \in DOMAIN run'.pages : DirOf[run'.pages[i].kind] \notin MustRead[run'.pass]
  BY DEF Account, Apart
<1>2. \A i \in DOMAIN run'.raw : DirOf[run'.raw[i].kind] \notin MustRead[run'.pass]
  BY DEF Account, Apart
<1>3. Visible(MustRead[run.pass])' = Visible(MustRead[run.pass])
  BY DEF Visible
<1>4. \A k \in run'.given : k \in run'.lost \/ \E i \in DOMAIN run'.raw : run'.raw[i].key = k
  BY DEF Account
<1>5. (~run.blind => run.inputs = Visible(MustRead[run.pass]))'
  BY <1>3 DEF Account
<1>6. QED
  BY <1>1, <1>2, <1>4, <1>5 DEF Account, Apart

LEMMA BeginAccount ==
    ASSUME Inv, NEW pass \in Generative, NEW inputs \in SUBSET Paths, NEW blind \in BOOLEAN,
           Begin(pass, inputs, blind), ~blind => inputs = Visible(MustRead[pass])
    PROVE  Account'
<1>1. /\ run'.pass = pass /\ run'.inputs = inputs /\ run'.blind = blind
      /\ run'.given = {} /\ DOMAIN run'.raw = {} /\ DOMAIN run'.pages = {}
  BY EmptySeq DEF Begin, Idle
<1>2. Visible(MustRead[pass])' = Visible(MustRead[pass])
  BY DEF Begin, store, Visible
<1>3. (~run.blind => run.inputs = Visible(MustRead[run.pass]))'
  BY <1>1, <1>2
<1>4. QED
  BY <1>1, <1>3 DEF Account

LEMMA ReadsAccount ==
    Inv /\ (ExtractReads \/ SynthesizeReads \/ ContradictReads \/ GapReads) => Account'
<1>1. /\ \A dirs : Visible(dirs) \in SUBSET Paths
      /\ TRUE \in BOOLEAN /\ FALSE \in BOOLEAN /\ {} \in SUBSET Paths
      /\ {"extract", "synthesize", "contradict", "gap"} \subseteq Generative
  BY DEF Visible, Generative
<1>2. /\ MustRead["extract"] = {"sources"} /\ MustRead["synthesize"] = {"sources"}
      /\ MustRead["contradict"] = {"sources"}
      /\ MustRead["gap"] = {"sources", "concepts", "topics"}
  BY DEF MustRead
<1>3. ASSUME Inv, ExtractReads PROVE Account'
  BY <1>1, <1>2, <1>3, BeginAccount DEF ExtractReads
<1>4. ASSUME Inv, SynthesizeReads PROVE Account'
  BY <1>1, <1>2, <1>4, BeginAccount DEF SynthesizeReads
<1>5. ASSUME Inv, ContradictReads PROVE Account'
  BY <1>1, <1>2, <1>5, BeginAccount DEF ContradictReads
<1>6. ASSUME Inv, GapReads PROVE Account'
  BY <1>1, <1>2, <1>6, BeginAccount DEF GapReads
<1>7. QED
  BY <1>3, <1>4, <1>5, <1>6

\* An answer of which something is kept, or nothing.
LEMMA ReceivedAccount ==
    ASSUME Inv, Account, run.pass \in Generative,
           NEW pages \in Seq(Page), NEW kept \in {pages, <<>>},
           \A i \in DOMAIN pages : Apart(pages[i]),
           run'.raw = run.raw \o kept, run'.given = run.given \cup KeysOf(pages),
           run'.lost = run.lost \cup (KeysOf(pages) \ KeysOf(kept)),
           run'.pass = run.pass, run'.blind = run.blind, run'.inputs = run.inputs,
           run'.pages = run.pages, UNCHANGED wiki
    PROVE  Account'
<1>1. kept \in Seq(Page) /\ \A i \in DOMAIN kept : Apart(kept[i])
  <2>1. CASE kept = pages
    BY <2>1
  <2>2. CASE kept = <<>>
    BY <2>2, EmptySeq
  <2>3. QED
    BY <2>1, <2>2
<1>2. run.raw \in Seq(Page)
  BY DEF Inv, Typed, Run
<1> DEFINE raw == run.raw \o kept
<1>3. /\ \A i \in DOMAIN raw : \/ \E j \in DOMAIN run.raw : raw[i] = run.raw[j]
                               \/ \E j \in DOMAIN kept : raw[i] = kept[j]
      /\ \A j \in DOMAIN run.raw : \E i \in DOMAIN raw : raw[i] = run.raw[j]
      /\ \A j \in DOMAIN kept : \E i \in DOMAIN raw : raw[i] = kept[j]
  BY <1>1, <1>2, BothIs
<1> HIDE DEF raw
<1>4. run'.raw = raw
  BY DEF raw
<1>5. \A i \in DOMAIN run'.raw : DirOf[run'.raw[i].kind] \notin MustRead[run'.pass]
  BY <1>1, <1>3, <1>4 DEF Account, Apart
<1>6. \A i \in DOMAIN run'.pages : DirOf[run'.pages[i].kind] \notin MustRead[run'.pass]
  BY DEF Account, Apart
<1>7. ASSUME NEW k \in run'.given
      PROVE  k \in run'.lost \/ \E i \in DOMAIN run'.raw : run'.raw[i].key = k
  <2>1. CASE k \in run.given
    BY <1>3, <1>4, <2>1 DEF Account
  <2>2. CASE k \in KeysOf(kept)
    <3>1. PICK j \in DOMAIN kept : kept[j].key = k
      BY <2>2 DEF KeysOf, ToSet
    <3>2. QED
      BY <1>3, <1>4, <3>1
  <2>3. QED
    BY <2>1, <2>2
<1>8. (~run.blind => run.inputs = Visible(MustRead[run.pass]))'
  BY DEF Account, Visible
<1>9. QED
  BY <1>5, <1>6, <1>7, <1>8 DEF Account, Apart

\* The pages of the kind a pass asks for are written elsewhere than it reads.
LEMMA AsksAccount ==
    ASSUME Inv, Account, NEW pass \in Generative, NEW kind \in [Drafts -> Kinds \ {"summary"}],
           \A d \in Drafts : DirOf[kind[d]] \notin MustRead[pass],
           NEW also \in SUBSET Paths, \A p \in also : wiki[p] # None,
           Asks(pass, kind, also)
    PROVE  Account'
<1> DEFINE batch == Head(run.left) \cup also
<1>1. run.step = "ask" /\ run.pass = pass
  BY DEF Asks
<1>2. Head(run.left) \in SUBSET Paths /\ Head(run.left) \subseteq run.inputs
      /\ \A p \in run.inputs : wiki[p] # None
  BY <1>1, HeadIs
<1>3. batch \in SUBSET Paths /\ (\A p \in batch : wiki[p] # None)
  BY <1>1, <1>2
<1>4. Answer(<<>>) \/ \E d \in Drafts : Answer(<<Write(d, kind[d], batch)>>)
  BY DEF Asks
<1> HIDE DEF batch
<1>5. ASSUME NEW pages \in Seq(Page), \A i \in DOMAIN pages : Apart(pages[i]), Answer(pages)
      PROVE  Account'
  <2>1. PICK kept \in {pages, <<>>} :
          run' = [run EXCEPT !.asked = @ \cup Head(run.left), !.left = Tail(@), !.tries = 0,
                             !.raw = @ \o kept, !.given = @ \cup KeysOf(pages),
                             !.lost = @ \cup (KeysOf(pages) \ KeysOf(kept)),
                             !.step = IF Len(run.left) = 1 THEN "merge" ELSE "ask"]
    BY <1>5 DEF Answer
  <2>2. run \in Run /\ UNCHANGED wiki
    BY <1>5 DEF Inv, Typed, Answer, store
  <2>3. /\ run'.raw = run.raw \o kept /\ run'.given = run.given \cup KeysOf(pages)
        /\ run'.lost = run.lost \cup (KeysOf(pages) \ KeysOf(kept))
        /\ run'.pass = run.pass /\ run'.blind = run.blind /\ run'.inputs = run.inputs
        /\ run'.pages = run.pages
    BY <2>1, <2>2 DEF Run
  <2>4. QED
    BY <1>1, <1>5, <2>2, <2>3, ReceivedAccount
<1>6. CASE Answer(<<>>)
  <2>1. << >> \in Seq(Page) /\ \A i \in DOMAIN << >> : Apart(<< >>[i])
    OBVIOUS
  <2>2. QED
    BY <1>5, <1>6, <2>1
<1>7. ASSUME NEW d \in Drafts, Answer(<<Write(d, kind[d], batch)>>) PROVE Account'
  <2> DEFINE g == Write(d, kind[d], batch)
  <2>1. Made(g) /\ g.kind = kind[d]
    BY <1>3, WriteIs DEF Inv, Typed, Write
  <2>2. Answer(<<g>>)
    BY <1>7
  <2> HIDE DEF g
  <2>3. g \in Page /\ Apart(g)
    BY <1>1, <2>1 DEF Made, Apart
  <2>4. <<g>> \in Seq(Page) /\ \A i \in DOMAIN <<g>> : <<g>>[i] = g
    BY <2>3
  <2>5. QED
    BY <1>5, <2>2, <2>3, <2>4
<1>8. QED
  BY <1>4, <1>6, <1>7

LEMMA AskingAccount ==
    Inv /\ Account /\ (ExtractAsks \/ SynthesizeAsks \/ ContradictAsks \/ GapAsks) => Account'
<1>1. /\ Visible({"concepts"}) \in SUBSET Paths /\ \A p \in Visible({"concepts"}) : wiki[p] # None
      /\ {"extract", "synthesize", "contradict", "gap"} \subseteq Generative
  BY DEF Visible, Generative
<1>2. ASSUME Inv, Account, ExtractAsks PROVE Account'
  BY <1>1, <1>2, KindsAre, MustReadIs, AsksAccount DEF ExtractAsks
<1>3. ASSUME Inv, Account, SynthesizeAsks PROVE Account'
  BY <1>1, <1>3, KindsAre, MustReadIs, AsksAccount DEF SynthesizeAsks
<1>4. ASSUME Inv, Account, ContradictAsks PROVE Account'
  BY <1>1, <1>4, KindsAre, MustReadIs, AsksAccount DEF ContradictAsks
<1>5. ASSUME Inv, Account, GapAsks PROVE Account'
  BY <1>1, <1>5, KindsAre, MustReadIs, AsksAccount DEF GapAsks
<1>6. QED
  BY <1>2, <1>3, <1>4, <1>5

LEMMA ReducedAccount == Inv /\ Account /\ ContradictReduced => Account'
<1> SUFFICES ASSUME Inv, Account, ContradictReduced PROVE Account'
  OBVIOUS
<1>1. PICK pages \in {<<>>} \cup {<<Write(d, "contradiction", run.asked)>> : d \in Drafts} :
          \E kept \in {pages, <<>>} :
             run' = [run EXCEPT !.step = "reduced", !.tries = 0,
                       !.raw = @ \o kept, !.given = @ \cup KeysOf(pages),
                       !.lost = @ \cup (KeysOf(pages) \ KeysOf(kept))]
  BY DEF ContradictReduced
<1>2. run \in Run /\ run.pass \in Generative /\ UNCHANGED wiki
      /\ run.asked \in SUBSET Paths /\ \A p \in run.asked : wiki[p] # None
  BY DEF Inv, Typed, Phased, Drew, Run, ContradictReduced, store
<1>3. pages \in Seq(Page) /\ \A i \in DOMAIN pages : Apart(pages[i])
  <2>1. CASE pages = <<>>
    BY <2>1, EmptySeq
  <2>2. ASSUME NEW d \in Drafts, pages = <<Write(d, "contradiction", run.asked)>>
        PROVE  pages \in Seq(Page) /\ \A i \in DOMAIN pages : Apart(pages[i])
    <3> DEFINE g == Write(d, "contradiction", run.asked)
    <3>1. "contradiction" \in Kinds \ {"summary"}
      BY DEF Kinds, CrossKinds
    <3>2. Made(g) /\ g.kind = "contradiction"
      BY <1>2, <3>1, WriteIs DEF Inv, Typed, Write
    <3>3. pages = <<g>>
      BY <2>2
    <3> HIDE DEF g
    <3>4. g \in Page /\ Apart(g)
      BY <1>2, <3>2, MustReadIs DEF Made, Apart
    <3>5. pages \in Seq(Page) /\ \A i \in DOMAIN pages : pages[i] = g
      BY <3>3, <3>4
    <3>6. QED
      BY <3>4, <3>5
  <2>3. QED
    BY <1>1, <2>1, <2>2
<1>4. PICK kept \in {pages, <<>>} :
          run' = [run EXCEPT !.step = "reduced", !.tries = 0,
                    !.raw = @ \o kept, !.given = @ \cup KeysOf(pages),
                    !.lost = @ \cup (KeysOf(pages) \ KeysOf(kept))]
  BY <1>1
<1>5. /\ run'.raw = run.raw \o kept /\ run'.given = run.given \cup KeysOf(pages)
      /\ run'.lost = run.lost \cup (KeysOf(pages) \ KeysOf(kept))
      /\ run'.pass = run.pass /\ run'.blind = run.blind /\ run'.inputs = run.inputs
      /\ run'.pages = run.pages
  BY <1>2, <1>4 DEF Run
<1>6. QED
  BY <1>2, <1>3, <1>5, ReceivedAccount

LEMMA MergesAccount ==
    ASSUME Inv, Account, NEW pass \in Generative, NEW union \in BOOLEAN, Merges(pass, union)
    PROVE  Account'
<1>1. PICK first \in FirstSeen(run.raw),
           longest \in [{g.key : g \in ToSet(run.raw)} -> DOMAIN run.raw] :
          /\ \A k \in DOMAIN longest : longest[k] \in Group(run.raw, k)
          /\ run' = [run EXCEPT !.pages = Merged(run.raw, first, longest, union),
                                !.step = IF run.raw = <<>> THEN "done" ELSE "stage"]
  BY DEF Merges
<1>2. /\ run \in Run /\ run.raw \in Seq(Page) /\ \A i \in DOMAIN run.raw : Made(run.raw[i])
      /\ run.pass \in Generative /\ UNCHANGED wiki
  BY DEF Inv, Typed, Run, Phased, Merges, store
<1> DEFINE pages == Merged(run.raw, first, longest, union)
           step == IF run.raw = <<>> THEN "done" ELSE "stage"
<1>3. Unites(run.raw, pages)
  BY <1>1, <1>2, MergedIs
<1>4. run' = [run EXCEPT !.pages = pages, !.step = step]
  BY <1>1
<1> HIDE DEF pages, step
<1>5. /\ run'.pages = pages /\ run'.raw = run.raw /\ run'.given = run.given
      /\ run'.lost = run.lost /\ run'.pass = run.pass /\ run'.blind = run.blind
      /\ run'.inputs = run.inputs
  BY <1>2, <1>4 DEF Run
<1>6. \A i \in DOMAIN pages : \E j \in DOMAIN run.raw : run.raw[j].kind = pages[i].kind
  BY <1>3 DEF Unites
<1>7. QED
  BY <1>2, <1>5, <1>6, SameAccount

LEMMA MergingAccount ==
    Inv /\ Account /\ (ExtractMerges \/ SynthesizeMerges \/ ContradictMerges \/ GapMerges)
        => Account'
<1>1. {"extract", "synthesize", "contradict", "gap"} \subseteq Generative
  BY DEF Generative
<1>2. ASSUME Inv, Account, ExtractMerges PROVE Account'
  BY <1>1, <1>2, MergesAccount DEF ExtractMerges
<1>3. ASSUME Inv, Account, SynthesizeMerges PROVE Account'
  BY <1>1, <1>3, MergesAccount DEF SynthesizeMerges
<1>4. ASSUME Inv, Account, ContradictMerges PROVE Account'
  BY <1>1, <1>4, MergesAccount DEF ContradictMerges
<1>5. ASSUME Inv, Account, GapMerges PROVE Account'
  BY <1>1, <1>5, MergesAccount DEF GapMerges
<1>6. QED
  BY <1>2, <1>3, <1>4, <1>5

\* Only the step, the attempts or the receipts change.
LEMMA StepAccount ==
    ASSUME Inv, Account, run # Idle, run.step \in {"ask", "merge", "reduce"} \cup Writing,
           run' \in Run, Kept(run, run'), run'.pages = run.pages, UNCHANGED wiki
    PROVE  Account'
<1>1. run.pass \in Generative
  BY DEF Inv, Typed, Phased
<1>2. QED
  BY <1>1, SameAccount DEF Kept

LEMMA PageAccount ==
    ASSUME Inv, Account, Reject \/ Stage \/ Upsert \/ Attribute \/ RecordProvenance \/ Trace \/ Publish
    PROVE  Account'
<1>1. run.step \in Writing
  BY DEF Reject, Stage, Upsert, Attribute, RecordProvenance, Trace, Publish, At, Writing, AtWork
<1>2. /\ run \in Run /\ run # Idle /\ run.pass \in Generative /\ Phased(run) /\ run.pages # <<>>
  BY <1>1, WritingIs
<1>3. CASE Stage \/ Upsert \/ Attribute \/ RecordProvenance \/ Trace
  <2>1. PICK s \in RunSteps : run' = [run EXCEPT !.step = s]
    BY <1>3 DEF Stage, Upsert, Attribute, RecordProvenance, Trace, RunSteps, Asked, Writing, AtWork
  <2>2. UNCHANGED wiki
    BY <1>3 DEF Stage, Upsert, Attribute, RecordProvenance, Trace
  <2>3. run' \in Run /\ Kept(run, run') /\ run'.pages = run.pages
    BY <1>2, <2>1, StepTo
  <2>4. QED
    BY <1>1, <1>2, <2>2, <2>3, StepAccount
<1>4. CASE Reject \/ Publish
  <2>1. /\ run'.pages = Tail(run.pages) /\ run'.pass = run.pass /\ run'.blind = run.blind
        /\ run'.inputs = run.inputs /\ run'.raw = run.raw /\ run'.given = run.given
        /\ run'.lost = run.lost
    BY <1>2, <1>4 DEF Reject, Publish, Run
  <2>2. \A i \in DOMAIN run'.pages : \E j \in DOMAIN run.pages : run.pages[j] = run'.pages[i]
    <3>1. \A i \in DOMAIN Tail(run.pages) : /\ i + 1 \in DOMAIN run.pages
                                            /\ Tail(run.pages)[i] = run.pages[i + 1]
      BY <1>2, NowIs
    <3>2. QED
      BY <2>1, <3>1
  <2>3. \A p \in Paths : p[1] \in MustRead[run.pass] => wiki'[p] = wiki[p]
    <3>1. CASE Reject
      BY <3>1 DEF Reject, store
    <3>2. CASE Publish
      <4>1. Now = run.pages[1] /\ 1 \in DOMAIN run.pages
        BY <1>2, NowIs DEF Now
      <4>2. PathOf(Now)[1] \notin MustRead[run.pass]
        BY <1>1, <1>2, <4>1, WritingIs DEF Account, Apart
      <4>3. wiki' = [wiki EXCEPT ![PathOf(Now)] = tmp[PathOf(Now)]]
        BY <3>2 DEF Publish
      <4>4. QED
        BY <4>2, <4>3 DEF Inv, Typed, StoreTyped
    <3>3. QED
      BY <1>4, <3>1, <3>2
  <2>4. QED
    BY <1>2, <2>1, <2>2, <2>3, SameAccount
<1>5. QED
  BY <1>3, <1>4

LEMMA LinkingAccount ==
    ASSUME Inv, Account, LinkReads \/ LinkStages \/ LinkTraces \/ LinkRenames
    PROVE  Account'
<1>1. run \in Run /\ Phased(run)
  BY DEF Inv, Typed
<1>2. CASE LinkReads
  <2>1. run'.given = {} /\ run'.pass = "link"
    BY <1>2, IdleIs DEF LinkReads, Idle
  <2>2. QED
    BY <2>1 DEF Account, Generative
<1>3. CASE LinkStages \/ LinkTraces \/ LinkRenames
  <2>1. run.pass = "link"
    BY <1>1, <1>3 DEF LinkStages, LinkTraces, LinkRenames, Phased
  <2>2. run'.given = run.given /\ run'.lost = run.lost /\ run'.raw = run.raw /\ run'.pass = run.pass
    BY <1>1, <1>3 DEF LinkStages, LinkTraces, LinkRenames, Run
  <2>3. QED
    BY <2>1, <2>2 DEF Account, Generative
<1>4. QED
  BY <1>2, <1>3

LEMMA NextAccount == Inv /\ Account /\ Next => Account'
<1> SUFFICES ASSUME Inv, Account, Next PROVE Account'
  OBVIOUS
<1>1. CASE Finish \/ Stops \/ (\E status \in Statuses : Refused(status)) \/ Compile
           \/ (\E s \in Sources : CompileChanged(s)) \/ (\E s \in Edited : Edit(s)) \/ Summarize
  <2>1. run' = Idle
    BY <1>1 DEF Finish, Stops, Refused, Compile, CompileChanged, Edit, Summarize
  <2>2. QED
    BY <2>1, RestAccount
<1>2. CASE (\E status \in Statuses : Retry(status)) \/ ContradictReduces
  <2>1. run \in Run /\ run.step \in {"ask", "merge", "reduce"} /\ run # Idle /\ UNCHANGED wiki
    BY <1>2, IdleIs DEF Inv, Typed, Retry, Asking, ContradictReduces, store
  <2>2. run' \in Run /\ Kept(run, run') /\ run'.pages = run.pages
    <3>1. CASE \E status \in Statuses : Retry(status)
      <4>1. run' = [run EXCEPT !.tries = @ + 1] /\ run.tries + 1 \in Nat
        BY <2>1, <3>1 DEF Retry, Run
      <4>2. QED
        BY <2>1, <4>1, TryAgain
    <3>2. CASE ContradictReduces
      <4>1. run' = [run EXCEPT !.step = "reduce"] /\ "reduce" \in RunSteps
        BY <3>2 DEF ContradictReduces, RunSteps, Asked
      <4>2. QED
        BY <2>1, <4>1, StepTo
    <3>3. QED
      BY <1>2, <3>1, <3>2
  <2>3. QED
    BY <2>1, <2>2, StepAccount
<1>3. CASE \/ ExtractStages \/ SynthesizeStages \/ ContradictStages \/ GapStages
           \/ ExtractRecords \/ SynthesizeRecords \/ ContradictRecords \/ GapRecords
  BY <1>3, PageAccount DEF ExtractStages, SynthesizeStages, ContradictStages, GapStages,
        ExtractRecords, SynthesizeRecords, ContradictRecords, GapRecords
<1>4. QED
  BY <1>1, <1>2, <1>3, ReadsAccount, AskingAccount, ReducedAccount, MergingAccount,
     LinkingAccount DEF Next, Steps

LEMMA AlwaysAccount == Spec => []Account
<1>1. Init => Account
  BY IdleIs DEF Init, Account, Generative
<1>2. Inv /\ Account /\ [Next]_vars => Account'
  <2>1. ASSUME Account, UNCHANGED vars PROVE Account'
    BY <2>1 DEF vars, Account, Apart, Visible
  <2>2. QED
    BY <2>1, NextAccount
<1>3. QED
  BY <1>1, <1>2, Inductive, PTL DEF Spec

-----------------------------------------------------------------------------
(* The properties *)

\* Pages, rows, receipts and the pass that runs have their types: every page is in the
\* directory of its kind, and so is the path its row names.
THEOREM TypeCorrect == Spec => []TypeOK
<1>1. Inv => TypeOK
  BY TypedIsTypeOK DEF Inv
<1>2. QED
  BY <1>1, Inductive, PTL

\* No page of extract, synthesize, contradict or gap is visible before its row, its
\* provenance and its trace (G1), whatever step fails or is the last of its process.
THEOREM ReceiptsComeFirst == Spec => []ReceiptsPrecede
<1>1. Inv => ReceiptsPrecede
  BY DEF Inv, Receipts
<1>2. QED
  BY <1>1, Inductive, PTL

\* A pass that could list what it reads puts all of it before the model, and every title
\* the model gave it is refused or visible, but for those of answers that were not kept;
\* for any number of pages, batches, titles and failures.
THEOREM AllIsAccountedFor == Spec => []NothingIsDropped
<1>1. Inv /\ Account => NothingIsDropped
  <2> SUFFICES ASSUME Inv, Account, run.step = "done", run.pass \in Generative
               PROVE  /\ run.asked = run.inputs
                      /\ ~run.blind => run.inputs = Visible(MustRead[run.pass])
                      /\ \A k \in run.given :
                            Accounted(k) \/ (k \in run.lost /\ k \notin KeysOf(run.raw))
    BY DEF NothingIsDropped
  <2>1. run.asked = run.inputs /\ run.pages = <<>>
    BY DEF Inv, Complete, Asked
  <2>2. ~run.blind => run.inputs = Visible(MustRead[run.pass])
    BY DEF Account
  <2>3. ASSUME NEW i \in DOMAIN run.raw PROVE Accounted(run.raw[i].key)
    <3> DEFINE k == run.raw[i].key
    <3>1. Handled(run, k)
      BY DEF Inv, Complete
    <3>2. DOMAIN run.pages = {}
      BY <2>1, EmptySeq
    <3>3. k \in run.refused \/ \E w \in run.written : w[1] = k
      BY <3>1, <3>2 DEF Handled
    <3>4. \A w \in run.written : \E v \in run.written : v[2] = w[2] /\ wiki[v[2]].key = v[1]
      BY DEF Inv, Complete
    <3>5. QED
      BY <3>3, <3>4 DEF Accounted
  <2>4. ASSUME NEW k \in run.given, ~Accounted(k) PROVE k \in run.lost /\ k \notin KeysOf(run.raw)
    <3>1. k \notin KeysOf(run.raw)
      BY <2>3, <2>4 DEF KeysOf, ToSet
    <3>2. QED
      BY <2>3, <2>4, <3>1 DEF Account
  <2>5. QED
    BY <2>1, <2>2, <2>4
<1>2. QED
  BY <1>1, Inductive, AlwaysAccount, PTL

\* The diff of `ico compile --changed` finds every page that cites a source it was shown,
\* for any titles, drafts, batches, failures and commands.
THEOREM CitationsAreFollowed == Spec => []CitedIsAffected
<1>1. Inv => CitedIsAffected
  <2> SUFFICES ASSUME Inv, NEW s \in Sources, NEW p \in Pages, Sole(p),
                      Newest(s) \in wiki[p].cites \cap wiki[p].drew
               PROVE  p \in Affected(s)
    BY DEF CitedIsAffected
  <2>1. PICK k \in Keys : rows[k] # None /\ rows[k].path = p /\ wiki[p].key = k
    BY DEF Sole
  <2>2. Told(p)
    BY <2>1 DEF Told, Sole, Late
  <2>3. Newest(s) \in junction[k]
    BY <2>1, <2>2 DEF Inv, Citations
  <2>4. Latest(k)
    BY <2>1 DEF Latest, Sole
  <2>5. k \in AffectedKeys(s)
    BY <2>1, <2>3, <2>4 DEF AffectedKeys, Citing, Rowed
  <2>6. QED
    BY <2>1, <2>5 DEF Affected
<1>2. QED
  BY <1>1, Inductive, PTL
=============================================================================
