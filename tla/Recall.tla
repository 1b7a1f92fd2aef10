------------------------------- MODULE Recall -------------------------------
(***************************************************************************)
(* `ico recall generate`, `quiz` and `export` (cli/commands/recall.ts,     *)
(* compiler/recall, kernel/search.ts and recall-results.ts): processes     *)
(* that share a full-text index, card and quiz files and the table of      *)
(* results.  None takes a lock and none opens a transaction; any step may  *)
(* fail or be the last one of its process.                                 *)
(*                                                                         *)
(* A file name is a sequence: its slug, and the numbers appended to it.  A *)
(* card is the number of the generation and of the card, with the pages it *)
(* cites; a question of a quiz is the pages it cites and the first of them.*)
(***************************************************************************)
EXTENDS Integers, FiniteSets, Sequences, SequencesExt, TLC

CONSTANTS
    Procs,        \* processes
    Pages,        \* pages the wiki may have
    Base,         \* the base name of a page, cut at the first "_" of its path
    Topics,       \* topics given on the command line
    Matching,     \* pages a topic's query matches; a topic of stop words has none
    Slug,         \* slug of a topic or concept, as a sequence; <<>> if empty
    Responses,    \* answers of the model to a generation
    Given,        \* numbers of answers in --answers-file; None: asked one by one
    MaxPages,     \* the limit of the search
    Commands,     \* commands that are given
    MaxCommands,  \* bound: commands
    MaxUpsets,    \* bound: pages that come or go, steps that fail or are the last
    None

Phantom == "phantom"   \* a page the model makes up

ASSUME RecallAssumption ==
    /\ Matching \in [Topics -> SUBSET Pages] /\ Topics \subseteq DOMAIN Slug
    /\ Commands \subseteq {"generate", "quiz", "export"} /\ MaxCommands \in Nat
    /\ \A c \in DOMAIN Slug : Slug[c] \in Seq(ToSet(Slug[c]))
    /\ \A r \in Responses :
          /\ r.cards \in Seq(ToSet(r.cards)) /\ r.quiz \in Seq(ToSet(r.quiz))
          /\ \A q \in ToSet(r.cards) :
                q.concept \in DOMAIN Slug /\ q.cites \in Seq(Pages \cup {Phantom})
          /\ \A q \in ToSet(r.quiz) : q.cites \in Seq(Pages \cup {Phantom})

VARIABLES
    wiki,       \* pages there are
    index,      \* rows of pages_fts for each page
    files,      \* recall/cards and recall/quizzes: <<kind, name>> to content
    tmps,       \* the .tmp files beside them
    deck,       \* the exported cards
    results,    \* recall_results, in the order of insertion
    generated,  \* recall.generate traces
    told,       \* recall.result traces
    ended,      \* quiz sessions that ended well: what they had read
    proc,       \* the command each process runs
    shown,      \* history: pages each generation was shown
    ever,       \* history: contents each file ever had
    writers,    \* history: generations that wrote each .tmp file
    commands, upsets

vars == <<wiki, index, files, tmps, deck, results, generated, told, ended, proc,
          shown, ever, writers, commands, upsets>>
store == <<files, tmps, ever, writers>>
session == <<results, told, ended>>
counts == <<commands, upsets>>

Idle == [step |-> "idle", n |-> 0, topic |-> None, todo |-> {}, alone |-> TRUE,
         cards |-> <<>>, quiz |-> <<>>, at |-> 1, given |-> None,
         verdict |-> FALSE, score |-> <<0, 0>>, read |-> {}]

Asked == [cites : SUBSET Pages, first : Pages \cup {None}]
CardFile == [by : 1..MaxCommands, k : Nat \ {0}, topic : Topics, cites : SUBSET Pages]
QuizFile == [by : 1..MaxCommands, topic : Topics, items : Seq(Asked)]
File(f) == IF f[1] = "card" THEN CardFile ELSE QuizFile
Concepts == Topics \cup {Base[g] : g \in Pages}

\* A row is indexed at most once by each command; who writes a card, and who asks a
\* question, has one to write or to ask.
TypeOK ==
    /\ wiki \subseteq Pages /\ index \in [Pages -> 0..MaxCommands]
    /\ \A f \in DOMAIN files : files[f] \in File(f)
    /\ \A f \in DOMAIN tmps : tmps[f] \in File(f)
    /\ deck \subseteq CardFile
    /\ results \in Seq([concept : Concepts, correct : BOOLEAN, n : 1..MaxCommands])
    /\ \A h \in told : /\ h.n \in 1..MaxCommands /\ h.row \in DOMAIN results
                        /\ h.score \in Nat \X Nat /\ h.score[1] <= h.score[2]
    /\ \A p \in Procs :
          /\ proc[p].step \in {"idle", "insert", "search", "ask", "card", "rename", "quiz",
                               "finish", "trace", "answer", "record", "weigh", "tell", "export"}
          /\ proc[p].step \in {"card", "rename"} => proc[p].at \in 1..Len(proc[p].cards)
          /\ proc[p].step \in {"answer", "record", "weigh", "tell"} =>
                proc[p].at \in 1..Len(proc[p].quiz)
          /\ proc[p].read \subseteq CardFile

Init ==
    /\ wiki = Pages /\ index = [g \in Pages |-> 0]
    /\ files = <<>> /\ tmps = <<>> /\ deck = {}
    /\ results = <<>> /\ generated = {} /\ told = {} /\ ended = {}
    /\ proc = [p \in Procs |-> Idle]
    /\ shown = <<>> /\ ever = <<>> /\ writers = <<>>
    /\ commands = 0 /\ upsets = 0

Become(p, changed) == proc' = [proc EXCEPT ![p] = changed]
At(p, step) == proc[p].step = step
Starts(kind) == kind \in Commands /\ commands < MaxCommands /\ commands' = commands + 1
Upset == upsets < MaxUpsets /\ upsets' = upsets + 1
Put(f, k, v) == [x \in DOMAIN f \cup {k} |-> IF x = k THEN v ELSE f[x]]
Drop(f, k) == [x \in DOMAIN f \ {k} |-> f[x]]
Had(f, k) == IF k \in DOMAIN f THEN f[k] ELSE {}

-----------------------------------------------------------------------------
(* The index: emptied, then filled row by row, each statement on its own *)

Rebuilding(p) == proc[p].step \in {"insert", "search"}

\* History: another rebuild, or a change of the wiki, falls into this one.
Disturbed == [q \in Procs |-> IF Rebuilding(q) THEN [proc[q] EXCEPT !.alone = FALSE] ELSE proc[q]]

\* Slip: the rows of the last command stay.
SlipEmptied == index
Emptied == [g \in Pages |-> 0]

Filling(todo) == IF todo = {} THEN "search" ELSE "insert"

Generate(p, topic) ==
    /\ At(p, "idle") /\ Starts("generate")
    /\ index' = Emptied
    /\ proc' = [Disturbed EXCEPT ![p] =
                   [Idle EXCEPT !.step = Filling(wiki), !.n = commands + 1, !.topic = topic,
                                !.todo = wiki, !.alone = ~\E q \in Procs : Rebuilding(q)]]
    /\ UNCHANGED <<wiki, store, deck, session, generated, shown, upsets>>

\* A page that was listed and is gone ends the command.
Insert(p) ==
    /\ At(p, "insert")
    /\ \E g \in proc[p].todo :
          IF g \in wiki
          THEN /\ index' = [index EXCEPT ![g] = @ + 1]
               /\ Become(p, [proc[p] EXCEPT !.todo = @ \ {g},
                                            !.step = Filling(proc[p].todo \ {g})])
          ELSE Become(p, Idle) /\ UNCHANGED index
    /\ UNCHANGED <<wiki, store, deck, session, generated, shown, counts>>

\* Pages of the rows that match.
Hits(topic) == {g \in Matching[topic] : index[g] > 0}
Rows(pages) == MapThenSumSet(LAMBDA g : index[g], pages)

\* The best MaxPages rows, whichever they are; a page's second row takes a place
\* too.  Each page is read: no page, or one that is gone, is an error.
Search(p) ==
    /\ At(p, "search")
    /\ \E found \in SUBSET Hits(proc[p].topic) :
          /\ Cardinality(found) <= MaxPages
          /\ Rows(found) >= MaxPages \/ found = Hits(proc[p].topic)
          /\ IF found = {} \/ ~found \subseteq wiki
             THEN Become(p, Idle) /\ UNCHANGED shown
             ELSE /\ Become(p, [proc[p] EXCEPT !.step = "ask", !.todo = {}, !.alone = TRUE])
                  /\ shown' = Put(shown, proc[p].n, found)
    /\ UNCHANGED <<wiki, index, store, deck, session, generated, counts>>

-----------------------------------------------------------------------------
(* Cards and quiz *)

\* Only pages that were shown can be cited; and the first of them, if any.
Known(cites, pages) == ToSet(cites) \cap pages
FirstKnown(cites, pages) ==
    IF Known(cites, pages) = {} THEN None
    ELSE cites[CHOOSE i \in DOMAIN cites :
                  cites[i] \in pages /\ \A j \in 1..(i - 1) : cites[j] \notin pages]

\* Slip: the model may cite any page there is.
SlipParsed(r, pages) ==
    [cards |-> [k \in DOMAIN r.cards |-> [concept |-> r.cards[k].concept,
                                          cites |-> Known(r.cards[k].cites, Pages)]],
     quiz |-> [k \in DOMAIN r.quiz |-> [cites |-> Known(r.quiz[k].cites, Pages),
                                        first |-> FirstKnown(r.quiz[k].cites, Pages)]]]
Parsed(r, pages) ==
    [cards |-> [k \in DOMAIN r.cards |-> [concept |-> r.cards[k].concept,
                                          cites |-> Known(r.cards[k].cites, pages)]],
     quiz |-> [k \in DOMAIN r.quiz |-> [cites |-> Known(r.quiz[k].cites, pages),
                                        first |-> FirstKnown(r.quiz[k].cites, pages)]]]

\* No JSON, or not a single card, is an error; a quiz may be empty.
Ask(p) ==
    /\ At(p, "ask")
    /\ \E r \in Responses :
          IF r.cards = <<>>
          THEN Become(p, Idle)
          ELSE LET parsed == Parsed(r, shown[proc[p].n])
               IN  Become(p, [proc[p] EXCEPT !.step = "card", !.cards = parsed.cards,
                                             !.quiz = parsed.quiz])
    /\ UNCHANGED <<wiki, index, store, deck, session, generated, shown, counts>>

\* A name that this generation has used gets the first number, from 2, that is free.
Numbered(base, used) ==
    IF base \notin used THEN base
    ELSE LET free == {n \in 2..(Cardinality(used) + 2) : Append(base, n) \notin used}
         IN  Append(base, CHOOSE n \in free : \A m \in free : n <= m)

CardBase(cards, topic, k) ==
    LET own == Slug[cards[k].concept]
    IN  IF own # <<>> THEN own ELSE Append(Slug[topic], "card")

\* Slip: two cards of one generation may have one name.
SlipNames(cards, topic) == [k \in DOMAIN cards |-> CardBase(cards, topic, k)]
Names(cards, topic) ==
    LET name[k \in DOMAIN cards] ==
            Numbered(CardBase(cards, topic, k), {name[j] : j \in 1..(k - 1)})
    IN  name

QuizName(topic) == <<"quiz", IF Slug[topic] # <<>> THEN Slug[topic] ELSE <<"quiz">> >>
CardName(r) == <<"card", Names(r.cards, r.topic)[r.at]>>

Card(r) == [by |-> r.n, k |-> r.at, topic |-> r.topic, cites |-> r.cards[r.at].cites]
Quiz(r) == [by |-> r.n, topic |-> r.topic, items |-> r.quiz]

\* writeFileSync to a .tmp file that every process names alike ...
Staged(p, name, content, next) ==
    /\ tmps' = Put(tmps, name, content)
    /\ writers' = Put(writers, name, Had(writers, name) \cup {proc[p].n})
    /\ Become(p, [proc[p] EXCEPT !.step = next])
    /\ UNCHANGED <<wiki, index, files, deck, session, generated, shown, ever, counts>>

\* ... and rename: another process may have renamed it already.
Renamed(p, name, changed) ==
    /\ IF name \in DOMAIN tmps
       THEN /\ files' = Put(files, name, tmps[name])
            /\ ever' = Put(ever, name, Had(ever, name) \cup {tmps[name]})
            /\ tmps' = Drop(tmps, name)
            /\ Become(p, changed)
       ELSE Become(p, Idle) /\ UNCHANGED <<files, ever, tmps>>
    /\ UNCHANGED <<wiki, index, deck, session, generated, shown, writers, counts>>

StageCard(p) == At(p, "card") /\ Staged(p, CardName(proc[p]), Card(proc[p]), "rename")
RenameCard(p) ==
    /\ At(p, "rename")
    /\ Renamed(p, CardName(proc[p]),
               [proc[p] EXCEPT !.at = IF @ = Len(proc[p].cards) THEN @ ELSE @ + 1,
                               !.step = IF proc[p].at = Len(proc[p].cards) THEN "quiz" ELSE "card"])
StageQuiz(p) == At(p, "quiz") /\ Staged(p, QuizName(proc[p].topic), Quiz(proc[p]), "finish")
RenameQuiz(p) ==
    At(p, "finish") /\ Renamed(p, QuizName(proc[p].topic), [proc[p] EXCEPT !.step = "trace"])

TraceGenerate(p) ==
    /\ At(p, "trace")
    /\ generated' = generated \cup {[n |-> proc[p].n, names |-> Names(proc[p].cards, proc[p].topic)]}
    /\ Become(p, Idle)
    /\ UNCHANGED <<wiki, index, store, deck, session, shown, counts>>

-----------------------------------------------------------------------------
(* Quiz sessions *)

\* Slip: a question that cites no page has no concept.
SlipConcept(q, topic) == IF q.first = None THEN None ELSE Base[q.first]

\* The concept of a question is the base name of the first page it cites, as the
\* quiz file gives it back: parseQuizFile takes the sources up to the next "_".
Concept(q, topic) == IF q.first = None THEN topic ELSE Base[q.first]
Question(r) == r.quiz[r.at]
Own(r) == Concept(Question(r), r.topic)

\* A quiz that is missing or has no question is refused.
Usable(f) == f \in DOMAIN files /\ files[f].items # <<>>

\* The file is read once, and the topic is that of the file.
OpenQuiz(p, topic, given) ==
    LET f == QuizName(topic)
    IN  /\ At(p, "idle") /\ Slug[topic] # <<>> /\ Usable(f)
        /\ Starts("quiz")
        /\ Become(p, [Idle EXCEPT !.step = "answer", !.n = commands + 1, !.given = given,
                                  !.topic = files[f].topic, !.quiz = files[f].items])
        /\ UNCHANGED <<wiki, index, store, deck, session, generated, shown, upsets>>

\* The model's score of an answer: one that cannot be parsed counts as wrong.
Scores == {"correct", "wrong", "unreadable"}
Correct(score) == score = "correct"

\* The answer and its score.  Too few answers end the session with what it has
\* recorded.
Answer(p) ==
    /\ At(p, "answer")
    /\ IF proc[p].given # None /\ proc[p].at > proc[p].given
       THEN Become(p, Idle)
       ELSE \E score \in Scores :
               Become(p, [proc[p] EXCEPT !.step = "record", !.verdict = Correct(score)])
    /\ UNCHANGED <<wiki, index, store, deck, session, generated, shown, counts>>

Record(p) ==
    /\ At(p, "record")
    /\ results' = Append(results, [concept |-> Own(proc[p]), correct |-> proc[p].verdict, n |-> proc[p].n])
    /\ Become(p, [proc[p] EXCEPT !.step = "weigh"])
    /\ UNCHANGED <<wiki, index, store, deck, told, ended, generated, shown, counts>>

\* Correct answers and all answers of a concept.
Tally(rows, concept) ==
    LET of == {i \in DOMAIN rows : rows[i].concept = concept}
    IN  <<Cardinality({i \in of : rows[i].correct}), Cardinality(of)>>

\* Slip: the answers of this session count, not those of the concept.
SlipScore(p) == Tally(SelectSeq(results, LAMBDA row : row.n = proc[p].n), Own(proc[p]))
Score(p) == Tally(results, Own(proc[p]))

\* computeRetention is a query of its own after the INSERT.  One that fails is
\* swallowed: the score is 0, of no rows, and the session goes on.
Unread == <<0, 0>>
Weigh(p) ==
    /\ At(p, "weigh")
    /\ \/ Become(p, [proc[p] EXCEPT !.step = "tell", !.score = Score(p)]) /\ UNCHANGED upsets
       \/ Become(p, [proc[p] EXCEPT !.step = "tell", !.score = Unread]) /\ Upset
    /\ UNCHANGED <<wiki, index, store, deck, session, generated, shown, commands>>

\* The row this process inserted last.
OwnRow(p) == CHOOSE i \in DOMAIN results :
    results[i].n = proc[p].n /\ \A j \in DOMAIN results : results[j].n = proc[p].n => j <= i

Tell(p) ==
    /\ At(p, "tell")
    /\ told' = told \cup {[n |-> proc[p].n, q |-> proc[p].at, row |-> OwnRow(p),
                           score |-> proc[p].score]}
    /\ IF proc[p].at < Len(proc[p].quiz)
       THEN Become(p, [proc[p] EXCEPT !.step = "answer", !.at = @ + 1]) /\ UNCHANGED ended
       ELSE /\ Become(p, Idle)
            /\ ended' = ended \cup {[n |-> proc[p].n, topic |-> proc[p].topic,
                                     items |-> proc[p].quiz]}
    /\ UNCHANGED <<wiki, index, store, deck, results, generated, shown, counts>>

-----------------------------------------------------------------------------
(* Export, and what goes on around *)

\* All cards, or those of one topic.
Wanted(topic) ==
    LET cards == {files[f] : f \in {g \in DOMAIN files : g[1] = "card"}}
    IN  {c \in cards : topic # None => c.topic = topic}

\* None at all is an error.
Export(p, topic) ==
    /\ At(p, "idle") /\ Starts("export") /\ Wanted(topic) # {}
    /\ Become(p, [Idle EXCEPT !.step = "export", !.read = Wanted(topic)])
    /\ UNCHANGED <<wiki, index, store, deck, session, generated, shown, upsets>>

WriteDeck(p) ==
    /\ At(p, "export")
    /\ deck' = proc[p].read
    /\ Become(p, Idle)
    /\ UNCHANGED <<wiki, index, store, session, generated, shown, counts>>

Stops(p) ==
    /\ ~At(p, "idle") /\ Upset
    /\ Become(p, Idle)
    /\ UNCHANGED <<wiki, index, store, deck, session, generated, shown, commands>>

\* A page is compiled, or is taken out of the wiki.
Edit(g) ==
    /\ Upset
    /\ wiki' = IF g \in wiki THEN wiki \ {g} ELSE wiki \cup {g}
    /\ proc' = Disturbed
    /\ UNCHANGED <<index, store, deck, session, generated, shown, commands>>

Next ==
    \/ \E p \in Procs :
          \/ \E t \in Topics : Generate(p, t) \/ \E given \in Given : OpenQuiz(p, t, given)
          \/ Insert(p) \/ Search(p) \/ Ask(p) \/ StageCard(p) \/ RenameCard(p)
          \/ StageQuiz(p) \/ RenameQuiz(p) \/ TraceGenerate(p)
          \/ Answer(p) \/ Record(p) \/ Weigh(p) \/ Tell(p)
          \/ (\E t \in Topics \cup {None} : Export(p, t)) \/ WriteDeck(p)
          \/ Stops(p)
    \/ \E g \in Pages : Edit(g)

Spec == Init /\ [][Next]_vars

-----------------------------------------------------------------------------
(* Properties *)

\* A rebuild no other rebuild and no change of the wiki falls into leaves one
\* row for each page (indexCompiledPages), whatever was in the index before:
\* rows of a half-built one, or of one that two processes built at once.
RebuiltIndexIsWiki ==
    \A p \in Procs : At(p, "search") /\ proc[p].alone =>
        \A g \in Pages : index[g] = IF g \in wiki THEN 1 ELSE 0

Alone(name) == \E n \in writers[name] : writers[name] = {n}

\* A generation that reports its cards has written each to a file of its own,
\* where it could be seen (the cards of generateRecall), unless another one
\* wrote a file of that name.
CardsWereVisible ==
    \A g \in generated : \A k \in DOMAIN g.names :
        LET name == <<"card", g.names[k]>>
        IN  /\ \A j \in DOMAIN g.names : g.names[j] = g.names[k] => j = k
            /\ Alone(name) => \E c \in ever[name] : c.by = g.n /\ c.k = k

\* Cards, quizzes and exported decks cite only pages their generation had been
\* shown (parseModelResponse: cards never cite phantom pages).
Grounded ==
    /\ \A f \in DOMAIN files :
          IF f[1] = "card" THEN files[f].cites \subseteq shown[files[f].by]
          ELSE \A q \in ToSet(files[f].items) : q.cites \subseteq shown[files[f].by]
    /\ \A c \in deck : c.cites \subseteq shown[c.by]

\* A session that ends has one row and one trace for each question of the quiz
\* it read, in that order, though the file be replaced and others answer
\* meanwhile; and each score counts the rows of its concept up to its own or a
\* later one (computeRetention), or is the 0 of a query that failed.
SessionIsWhole ==
    /\ \A s \in ended :
          /\ {h.q : h \in {t \in told : t.n = s.n}} = DOMAIN s.items
          /\ \A h, t \in told : h.n = s.n /\ t.n = s.n /\ h.q < t.q => h.row < t.row
          /\ Cardinality({i \in DOMAIN results : results[i].n = s.n}) = Len(s.items)
          /\ \A h \in told : h.n = s.n =>
                results[h.row].concept = Concept(s.items[h.q], s.topic)
    /\ \A h \in told :
          \/ \E m \in h.row..Len(results) :
                h.score = Tally(SubSeq(results, 1, m), results[h.row].concept)
          \/ h.score = Unread
    /\ Cardinality({h \in told : h.score = Unread}) <= upsets

=============================================================================
