------------------------------- MODULE Passes -------------------------------
(***************************************************************************)
(* The passes of `ico compile` that work on the whole wiki: extract,       *)
(* synthesize, link, contradict and gap (packages/compiler/src/passes),    *)
(* the client they call, the commands that queue them (compile.ts) and     *)
(* the diff of `ico compile --changed` (incremental.ts) that decides which *)
(* of them run again.  One process at a time; any step may fail or be the  *)
(* last one of the process.                                                *)
(*                                                                         *)
(* The text of a page is reduced to what the properties tell apart: its    *)
(* title, its kind, the source ids it lists, the pages it links to and     *)
(* its Backlinks section; `drew` remembers which source versions the       *)
(* model had been shown when it wrote the page.  What summarize does to    *)
(* the rows of a source is in Maintenance; here it is one step.            *)
(***************************************************************************)
EXTENDS Integers, FiniteSets, Sequences, SequencesExt, TLC

CONSTANTS
    Sources,      \* stems of the raw files, and of their summary pages
    Titles,       \* titles the model may give to a page
    Key,          \* normalizeTitle: the key of a title; ids are ordered as keys
    Slug,         \* titleToSlug: the file stem of a title
    Drafts,       \* the pages the model may write
    BatchSize,    \* ICO_BATCH_SIZE
    MaxAttempts,  \* MAX_RETRIES of the client
    Wire,         \* "anthropic" or "openai": the provider's protocol
    Statuses,     \* the HTTP statuses it may answer with instead of 200
    Plans,        \* bound: the targets of `ico compile` that are given
    Edited,       \* bound: the sources whose files change
    MaxEdits,     \* bound: edits of raw files
    MaxCommands,  \* bound: commands
    MaxDrafts,    \* bound: pages the model writes in all
    MaxFaults,    \* bound: steps that fail or are the last
    None

Forms == {"page", "entity", "bare", "husk", "prose"}

ASSUME PassesAssumption ==
    /\ IsFiniteSet(Sources) /\ IsFiniteSet(Titles) /\ MaxEdits \in Nat
    /\ \A d \in Drafts :
          /\ d.title \in Titles
          /\ d.form \in Forms
          /\ d.cites \in {"shown", "none", "others"}
    /\ Plans \subseteq {"sources", "concepts", "topics", "links", "contradictions", "gaps", "all"}
    /\ DOMAIN Key = Titles /\ DOMAIN Slug = Titles
    /\ \A t \in Titles : Key[t] \in Nat
    /\ BatchSize \in Nat \ {0} /\ MaxAttempts \in Nat \ {0}

VARIABLES
    edition,      \* version of each raw file
    newest,       \* version in the newest sources row of its path
    summarized,   \* source ids <<stem, version>> with a summary row
    wiki,         \* visible page at each path
    tmp,          \* what is in the .tmp file beside it
    rows,         \* compilations row of each key: kind, path, compiled_at
    junction,     \* compilation_sources of each key
    provenance,   \* audit/provenance: <<source id or Batch, path>>
    traces,       \* compile.<pass> events: <<key, path>>
    index,        \* pages listed in wiki/index.md
    queue,        \* passes the command has still to run
    run,          \* the pass that runs
    torn,         \* history: paths whose row was rewritten but not their page
    edits, commands, drafted, faults

vars == <<edition, newest, summarized, wiki, tmp, rows, junction, provenance,
          traces, index, queue, run, torn, edits, commands, drafted, faults>>
store == <<wiki, tmp, rows, junction, provenance, traces, index, torn>>
raws == <<edition, newest, summarized>>
counts == <<edits, commands, drafted, faults>>

-----------------------------------------------------------------------------
(* Pages, paths and ids *)

LinkTrace == <<None, None>>
Keys == {Key[t] : t \in Titles}
Ids == Sources \X (0..MaxEdits)
Dirs == {"sources", "concepts", "entities", "topics", "contradictions", "open-questions"}
Paths == ({"sources"} \X Sources) \cup ((Dirs \ {"sources"}) \X {Slug[t] : t \in Titles})
Batch == <<None, 0>>   \* the provenance of a page without attributed sources
CrossKinds == {"topic", "contradiction", "open-question"}

Kinds == {"summary", "concept", "entity"} \cup CrossKinds

DirOf == [kind \in Kinds |-> CASE kind = "summary" -> "sources" [] kind = "concept" -> "concepts"
            [] kind = "entity" -> "entities" [] kind = "topic" -> "topics"
            [] kind = "contradiction" -> "contradictions"
            [] kind = "open-question" -> "open-questions"]

\* The summary page of one version of a source.
Summary(s, v) == [title |-> s, key |-> None, kind |-> "summary", form |-> "page",
                  cites |-> {<<s, v>>}, drew |-> {<<s, v>>}, links |-> {}, back |-> {}]

\* Links of drafts to pages that are not there are kept, and refer to nothing.
Links == UNION {d.links : d \in Drafts}
Page == [title : Titles \cup Sources, key : Keys \cup {None}, kind : Kinds, form : Forms,
         cites : SUBSET Ids, drew : SUBSET Ids, links : SUBSET Links, back : SUBSET Paths]
Row == [kind : Kinds, path : Paths, at : Nat]

ASSUME NoneAssumption == None \notin Page /\ None \notin Row

\* Slip: entities go where concepts go.
SlipPathOf(page) ==
    <<IF page.kind = "entity" THEN "concepts" ELSE DirOf[page.kind], Slug[page.title]>>
PathOf(page) == <<DirOf[page.kind], Slug[page.title]>>
Visible(dirs) == {p \in Paths : p[1] \in dirs /\ wiki[p] # None}
Cited(paths) == UNION {wiki[p].cites : p \in paths}
Drawn(paths) == UNION {wiki[p].drew : p \in paths}

Idle == [pass |-> "none", step |-> "idle", left |-> <<>>, inputs |-> {}, blind |-> FALSE,
         asked |-> {}, tries |-> 0, raw |-> <<>>, given |-> {}, lost |-> {},
         pages |-> <<>>, at |-> 0, written |-> {}, refused |-> {}, todo |-> {}]

\* The compile passes that ask the model.
Generative == {"extract", "synthesize", "contradict", "gap"}

TypeOK ==
    /\ edition \in [Sources -> 0..MaxEdits] /\ newest \in [Sources -> 0..MaxEdits]
    /\ summarized \subseteq Ids
    /\ wiki \in [Paths -> Page \cup {None}] /\ tmp \in [Paths -> Page \cup {None}]
    /\ \A p \in Paths : /\ wiki[p] # None => p[1] = DirOf[wiki[p].kind]
                        /\ tmp[p] # None => p[1] = DirOf[tmp[p].kind]
    /\ rows \in [Keys -> Row \cup {None}]
    /\ \A k \in Keys : rows[k] # None => rows[k].path[1] = DirOf[rows[k].kind]
    /\ junction \in [Keys -> SUBSET Ids]
    /\ provenance \subseteq (Ids \cup {Batch}) \X Paths
    /\ traces \subseteq (Keys \X Paths) \cup {LinkTrace}
    /\ index \subseteq Paths /\ torn \subseteq Paths
    /\ queue \in Seq(Generative \cup {"summarize", "link"})
    /\ run.pass \in Generative \cup {"none", "link"}
    /\ run.step \in {"idle", "ask", "merge", "stage", "row", "attribute", "provenance",
                     "trace", "publish", "link", "receipt", "rename", "done", "reduce", "reduced"}

Init ==
    /\ edition = [s \in Sources |-> 0] /\ newest = [s \in Sources |-> 0]
    /\ summarized = {<<s, 0>> : s \in Sources}
    /\ wiki = [p \in Paths |-> IF p[1] = "sources"
                               THEN Summary(p[2], 0) ELSE None]
    /\ tmp = [p \in Paths |-> None]
    /\ rows = [k \in Keys |-> None] /\ junction = [k \in Keys |-> {}]
    /\ provenance = {} /\ traces = {} /\ torn = {}
    /\ index = {"sources"} \X Sources
    /\ queue = <<>> /\ run = Idle
    /\ edits = 0 /\ commands = 0 /\ drafted = 0 /\ faults = 0

-----------------------------------------------------------------------------
(* Starting and ending a pass *)

\* Slip: the loop ends where the last batch begins.
SlipChunk(seq) ==
    [b \in 1..((Len(seq) - 1) \div BatchSize) |->
        ToSet(SubSeq(seq, (b - 1) * BatchSize + 1, b * BatchSize))]

Chunk(seq) ==
    [b \in 1..((Len(seq) + BatchSize - 1) \div BatchSize) |->
        ToSet(SubSeq(seq, (b - 1) * BatchSize + 1,
                     IF b * BatchSize < Len(seq) THEN b * BatchSize ELSE Len(seq)))]

\* `blind`: the pass could not read some directory and took it for empty.
Begin(pass, inputs, blind) ==
    /\ run = Idle /\ queue # <<>> /\ Head(queue) = pass
    /\ run' = [Idle EXCEPT !.pass = pass, !.inputs = inputs, !.blind = blind,
                           !.left = Chunk(SetToSeq(inputs)), !.at = commands,
                           !.step = IF inputs = {} THEN "done" ELSE "ask"]
    /\ blind => faults < MaxFaults
    /\ faults' = IF blind THEN faults + 1 ELSE faults
    /\ UNCHANGED <<raws, store, queue, edits, commands, drafted>>

ExtractReads == Begin("extract", Visible({"sources"}), FALSE)
SynthesizeReads == \/ Begin("synthesize", Visible({"sources"}), FALSE)
                   \/ Begin("synthesize", {}, TRUE)
ContradictReads == \/ Begin("contradict", Visible({"sources"}), FALSE)
                   \/ Begin("contradict", {}, TRUE)
GapReads ==
    \/ Begin("gap", Visible({"sources", "concepts", "topics"}), FALSE)
    \/ \E lost \in {"sources", "concepts", "topics"} :
          Begin("gap", Visible({"sources", "concepts", "topics"} \ {lost}), TRUE)

\* wiki/index.md lists what it finds.
Indexed == Visible(Dirs)

\* The command goes on with the next pass, after a new wiki/index.md.
Finish ==
    /\ run.step = "done"
    /\ run' = Idle /\ queue' = Tail(queue)
    /\ index' = Indexed
    /\ UNCHANGED <<raws, wiki, tmp, rows, junction, provenance, traces, torn, counts>>

\* A step fails, or the process dies: the passes still queued do not run.
Stops ==
    /\ run # Idle /\ faults < MaxFaults
    /\ run' = Idle /\ queue' = <<>> /\ faults' = faults + 1
    /\ torn' = IF run.step \in {"attribute", "provenance", "trace", "publish"}
               THEN torn \cup {PathOf(Head(run.pages))} ELSE torn
    /\ UNCHANGED <<raws, wiki, tmp, rows, junction, provenance, traces, index,
                   edits, commands, drafted>>

-----------------------------------------------------------------------------
(* The client *)

\* The error each protocol makes of a status; 0 is a timeout or a lost line.
AnthropicError(status) ==
    CASE status = 401 -> "authentication_error" [] status = 400 -> "bad_request_error"
      [] status = 429 -> "rate_limit_error" [] status = 529 -> "overloaded_error"
      [] status >= 500 -> "server_error" [] OTHER -> "api_error"
OpenAiError(status) ==
    CASE status = 401 -> "authentication_error" [] status = 429 -> "rate_limit_error"
      [] status = 503 -> "overloaded_error" [] status >= 500 -> "server_error"
      [] status = 0 -> "api_error" [] OTHER -> "bad_request_error"

Retryable(status) ==
    (IF Wire = "anthropic" THEN AnthropicError(status) ELSE OpenAiError(status))
        \in {"rate_limit_error", "overloaded_error"}

Asking == run.step = "ask" \/ run.step = "reduce"

\* Slip: the attempts are not limited.
SlipRetry(status) ==
    /\ Asking /\ Retryable(status)
    /\ run' = [run EXCEPT !.tries = (@ + 1) % MaxAttempts]
    /\ UNCHANGED <<raws, store, queue, counts>>

\* 429 and overload are tried again, a bounded number of times.
Retry(status) ==
    /\ Asking /\ Retryable(status) /\ run.tries + 1 < MaxAttempts
    /\ run' = [run EXCEPT !.tries = @ + 1]
    /\ UNCHANGED <<raws, store, queue, counts>>

\* Any other error ends the pass; what earlier batches answered is lost.
Refused(status) ==
    /\ Asking /\ ~(Retryable(status) /\ run.tries + 1 < MaxAttempts)
    /\ faults < MaxFaults /\ faults' = faults + 1
    /\ run' = Idle /\ queue' = <<>>
    /\ UNCHANGED <<raws, store, edits, commands, drafted>>

-----------------------------------------------------------------------------
(* Batches and their answers *)

\* The page a draft becomes: the ids it lists are those it was shown, or not.
Write(d, kind, batch) ==
    [title |-> d.title, key |-> Key[d.title], kind |-> kind, form |-> d.form,
     cites |-> CASE d.cites = "shown" -> Cited(batch)
                 [] d.cites = "none" -> {}
                 [] d.cites = "others" -> Ids \ Cited(batch),
     drew |-> Drawn(batch), links |-> d.links, back |-> {}]

KeysOf(pages) == {g.key : g \in ToSet(pages)}

\* The next batch is answered, with at most one page.  None is kept when the
\* answer is cut off at the token ceiling (a warning) or, in contradict and gap,
\* holds the sentinel beside it (nothing tells); `lost` is a history of those.
Answer(pages) ==
    /\ drafted + Len(pages) <= MaxDrafts
    /\ \E kept \in {pages, <<>>} :
          run' = [run EXCEPT !.asked = @ \cup Head(run.left), !.left = Tail(@), !.tries = 0,
                             !.raw = @ \o kept, !.given = @ \cup KeysOf(pages),
                             !.lost = @ \cup (KeysOf(pages) \ KeysOf(kept)),
                             !.step = IF Len(run.left) = 1 THEN "merge" ELSE "ask"]
    /\ drafted' = drafted + Len(pages)
    /\ UNCHANGED <<raws, store, queue, edits, commands, faults>>

Asks(pass, kind, also) ==
    /\ run.pass = pass /\ run.step = "ask"
    /\ LET batch == Head(run.left) \cup also
       IN  \/ Answer(<<>>)
           \/ \E d \in Drafts : Answer(<<Write(d, kind[d], batch)>>)

\* What the page says it is decides between concept and entity.
ExtractKind == [d \in Drafts |-> IF d.form = "entity" THEN "entity" ELSE "concept"]
TopicKind == [d \in Drafts |-> "topic"]
ContradictionKind == [d \in Drafts |-> "contradiction"]
GapKind == [d \in Drafts |-> "open-question"]

ExtractAsks == Asks("extract", ExtractKind, {})
\* Every batch of summaries goes out with all the concepts.
SynthesizeAsks == Asks("synthesize", TopicKind, Visible({"concepts"}))
ContradictAsks == Asks("contradict", ContradictionKind, {})
GapAsks == Asks("gap", GapKind, {})

\* Two batches, both with pages that have an id, are worth one more question.
ShouldReduce == run.pass = "contradict" /\ Cardinality(run.asked) > BatchSize

\* One more call over the titles of all batches; only pages that say they are
\* contradictions are taken, and none beside the sentinel.
ContradictReduces ==
    /\ run.step = "merge" /\ ShouldReduce
    /\ run' = [run EXCEPT !.step = "reduce"]
    /\ UNCHANGED <<raws, store, queue, counts>>

ContradictReduced ==
    /\ run.step = "reduce"
    /\ \E pages \in {<<>>} \cup {<<Write(d, "contradiction", run.asked)>> : d \in Drafts} :
          /\ drafted + Len(pages) <= MaxDrafts
          /\ drafted' = drafted + Len(pages)
          /\ \E kept \in {pages, <<>>} :
                /\ kept = <<>> \/ \A g \in ToSet(pages) : g.form # "prose"
                /\ run' = [run EXCEPT !.step = "reduced", !.tries = 0,
                              !.raw = @ \o kept, !.given = @ \cup KeysOf(pages),
                              !.lost = @ \cup (KeysOf(pages) \ KeysOf(kept))]
    /\ UNCHANGED <<raws, store, queue, edits, commands, faults>>

-----------------------------------------------------------------------------
(* Merging *)

\* The first raw page of each key; FirstSeen has the one list of them in order.
First(raw) == {i \in DOMAIN raw : \A j \in 1..(i - 1) : raw[j].key # raw[i].key}
FirstSeen(raw) == {first \in [1..Cardinality(First(raw)) -> First(raw)] :
                      \A m, n \in DOMAIN first : m < n => first[m] < first[n]}

Group(raw, k) == {i \in DOMAIN raw : raw[i].key = k}

\* A page without its --- fences: its lists cannot be rewritten, the fences are
\* put back afterwards.
Fenced(page) == page.form # "bare"

\* The pages of a key whose lists can be read.
Listing(raw, k) == {i \in Group(raw, k) : Fenced(raw[i])}

\* One page per key: the longest, here any; its source ids are those of all
\* fenced pages of the group where source_ids is the field that is unioned.
Merged(raw, first, longest, union) ==
    LET page(k) == IF union /\ Fenced(raw[longest[k]])
                   THEN [raw[longest[k]] EXCEPT
                            !.cites = UNION {raw[i].cites : i \in Listing(raw, k)},
                            !.drew = UNION {raw[i].drew : i \in Listing(raw, k)}]
                   ELSE raw[longest[k]]
    IN  [n \in DOMAIN first |-> page(raw[first[n]].key)]

Merges(pass, union) ==
    /\ run.pass = pass /\ run.step \in {"merge", "reduced"}
    /\ run.step = "merge" => ~ShouldReduce
    /\ \E first \in FirstSeen(run.raw),
          longest \in [{g.key : g \in ToSet(run.raw)} -> DOMAIN run.raw] :
          /\ \A k \in DOMAIN longest : longest[k] \in Group(run.raw, k)
          /\ run' = [run EXCEPT !.pages = Merged(run.raw, first, longest, union),
                                !.step = IF run.raw = <<>> THEN "done" ELSE "stage"]
    /\ UNCHANGED <<raws, store, queue, counts>>

ExtractMerges == Merges("extract", TRUE)
SynthesizeMerges == Merges("synthesize", FALSE)
ContradictMerges == Merges("contradict", TRUE)
GapMerges == Merges("gap", FALSE)

-----------------------------------------------------------------------------
(* Writing one page *)

Now == Head(run.pages)
At(step) == run.pass \in Generative /\ run.step = step
NextPage(rest) == IF rest = <<>> THEN "done" ELSE "stage"

\* checkModelOutput: no refusal or other prose, and not a husk without a body.
Sound(page) == page.form \notin {"husk", "prose"}

\* A page that fails the check leaves a trace and no file.
Reject ==
    /\ At("stage") /\ ~Sound(Now)
    /\ run' = [run EXCEPT !.refused = @ \cup {Now.key}, !.pages = Tail(@),
                          !.step = NextPage(Tail(run.pages))]
    /\ UNCHANGED <<raws, store, queue, counts>>

\* Slip: the page is written where it is to be seen.
SlipStage ==
    /\ At("stage") /\ Sound(Now)
    /\ wiki' = [wiki EXCEPT ![PathOf(Now)] = Now]
    /\ run' = [run EXCEPT !.step = "row"]
    /\ UNCHANGED <<raws, tmp, rows, junction, provenance, traces, index, torn, queue, counts>>

Stage ==
    /\ At("stage") /\ Sound(Now)
    /\ tmp' = [tmp EXCEPT ![PathOf(Now)] = Now]
    /\ run' = [run EXCEPT !.step = "row"]
    /\ UNCHANGED <<raws, wiki, rows, junction, provenance, traces, index, torn, queue, counts>>

\* INSERT ... ON CONFLICT(id) DO UPDATE: one row per key, whatever the pass.
Upsert ==
    /\ At("row")
    /\ rows' = [rows EXCEPT ![Now.key] =
                   [kind |-> Now.kind, path |-> PathOf(Now), at |-> run.at]]
    /\ run' = [run EXCEPT !.step = "attribute"]
    /\ UNCHANGED <<raws, wiki, tmp, junction, provenance, traces, index, torn, queue, counts>>

\* The ids a page lists that are ids of sources the pass has read; all passes
\* but extract take every source that was ever summarized for read.
Known == IF run.pass = "extract"
         THEN {id \in summarized : <<"sources", id[1]>> \in run.inputs}
         ELSE summarized
Attributed == Now.cites \cap Known

\* Slip: what the model lists is added to what it listed last time.
SlipAttribute ==
    /\ At("attribute")
    /\ junction' = [junction EXCEPT ![Now.key] =
                       IF Attributed = {} THEN @ ELSE IF @ = {} THEN Attributed ELSE @]
    /\ run' = [run EXCEPT !.step = "provenance"]
    /\ UNCHANGED <<raws, wiki, tmp, rows, provenance, traces, index, torn, queue, counts>>

\* The junction is replaced, unless nothing was attributed.
Attribute ==
    /\ At("attribute")
    /\ junction' = [junction EXCEPT ![Now.key] = IF Attributed = {} THEN @ ELSE Attributed]
    /\ run' = [run EXCEPT !.step = "provenance"]
    /\ UNCHANGED <<raws, wiki, tmp, rows, provenance, traces, index, torn, queue, counts>>

RecordProvenance ==
    /\ At("provenance")
    /\ provenance' = provenance \cup
          ((IF Attributed = {} THEN {Batch} ELSE Attributed) \X {PathOf(Now)})
    /\ run' = [run EXCEPT !.step = "trace"]
    /\ UNCHANGED <<raws, wiki, tmp, rows, junction, traces, index, torn, queue, counts>>

Trace ==
    /\ At("trace")
    /\ traces' = traces \cup {<<Now.key, PathOf(Now)>>}
    /\ run' = [run EXCEPT !.step = "publish"]
    /\ UNCHANGED <<raws, wiki, tmp, rows, junction, provenance, index, torn, queue, counts>>

\* Then the line in the human-readable log, and on to the next page.
Publish ==
    /\ At("publish")
    /\ wiki' = [wiki EXCEPT ![PathOf(Now)] = tmp[PathOf(Now)]]
    /\ tmp' = [tmp EXCEPT ![PathOf(Now)] = None]
    /\ torn' = torn \ {PathOf(Now)}
    /\ run' = [run EXCEPT !.written = @ \cup {<<Now.key, PathOf(Now)>>}, !.pages = Tail(@),
                          !.step = NextPage(Tail(run.pages))]
    /\ UNCHANGED <<raws, rows, junction, provenance, traces, index, queue, counts>>

\* The four passes write their pages alike; what differs is in Now.
ExtractStages == run.pass = "extract" /\ (Reject \/ Stage \/ Upsert)
ExtractRecords == run.pass = "extract" /\ (Attribute \/ RecordProvenance \/ Trace \/ Publish)
SynthesizeStages == run.pass = "synthesize" /\ (Reject \/ Stage \/ Upsert)
SynthesizeRecords == run.pass = "synthesize" /\ (Attribute \/ RecordProvenance \/ Trace \/ Publish)
ContradictStages == run.pass = "contradict" /\ (Reject \/ Stage \/ Upsert)
ContradictRecords == run.pass = "contradict" /\ (Attribute \/ RecordProvenance \/ Trace \/ Publish)
GapStages == run.pass = "gap" /\ (Reject \/ Stage \/ Upsert)
GapRecords == run.pass = "gap" /\ (Attribute \/ RecordProvenance \/ Trace \/ Publish)

-----------------------------------------------------------------------------
(* The link pass *)

\* The stems a page refers to: its own links, and those of its Backlinks.
References(page) == page.links \cup {q[2] : q \in page.back}

\* Pages of one stem in several directories share an entry: the last one's.
DirOrder == <<"sources", "concepts", "entities", "topics", "contradictions", "open-questions">>
Forward(stem) ==
    LET last == SelectLastInSeq(DirOrder, LAMBDA d : <<d, stem>> \in Visible(Dirs))
    IN  References(wiki[<<DirOrder[last], stem>>])
Referrers(stem) == {q \in Visible(Dirs) : stem \in Forward(q[2])}

LinkReads ==
    /\ run = Idle /\ queue # <<>> /\ Head(queue) = "link"
    /\ run' = [Idle EXCEPT !.pass = "link", !.step = "link",
                  !.todo = {p \in Visible(Dirs) : Referrers(p[2]) # {}}]
    /\ UNCHANGED <<raws, store, queue, counts>>

\* All new contents go to .tmp files first; no page without referrers changes.
LinkStages ==
    /\ run.step = "link"
    /\ tmp' = [p \in Paths |-> IF p \in run.todo
                               THEN [wiki[p] EXCEPT !.back = Referrers(p[2])] ELSE tmp[p]]
    /\ run' = [run EXCEPT !.step = IF run.todo = {} THEN "done" ELSE "receipt"]
    /\ UNCHANGED <<raws, wiki, rows, junction, provenance, traces, index, torn, queue, counts>>

LinkTraces ==
    /\ run.step = "receipt"
    /\ traces' = traces \cup {LinkTrace}
    /\ run' = [run EXCEPT !.step = "rename"]
    /\ UNCHANGED <<raws, wiki, tmp, rows, junction, provenance, index, torn, queue, counts>>

LinkRenames ==
    /\ run.step = "rename"
    /\ \E p \in run.todo :
          /\ wiki' = [wiki EXCEPT ![p] = tmp[p]]
          /\ tmp' = [tmp EXCEPT ![p] = None]
          /\ run' = [run EXCEPT !.todo = @ \ {p},
                                !.step = IF run.todo = {p} THEN "done" ELSE "rename"]
    /\ UNCHANGED <<raws, rows, junction, provenance, traces, index, torn, queue, counts>>

-----------------------------------------------------------------------------
(* Which pages a changed source affects *)

Newest(s) == <<s, newest[s]>>

\* Of the rows of one kind and path the last compiled counts, by id in a tie.
Latest(k) == ~\E j \in Keys \ {k} :
    /\ rows[j] # None /\ rows[j].kind = rows[k].kind /\ rows[j].path = rows[k].path
    /\ rows[j].at > rows[k].at \/ (rows[j].at = rows[k].at /\ j > k)
Rowed == {k \in Keys : rows[k] # None /\ Latest(k)}

Citing(s) == {k \in Rowed : Newest(s) \in junction[k]}

\* Without a single citation of the source every cross-source page is swept in.
Sweep(s) == \A k \in Keys : Newest(s) \notin junction[k]

AffectedKeys(s) ==
    Citing(s) \cup (IF Sweep(s) THEN {k \in Rowed : rows[k].kind \in CrossKinds} ELSE {})
Affected(s) ==
    {rows[k].path : k \in AffectedKeys(s)}
        \cup (IF Newest(s) \in summarized THEN {<<"sources", s>>} ELSE {})

-----------------------------------------------------------------------------
(* Commands *)

\* `ico compile <target>` queues one pass, `all` the six of them in order.
All == <<"summarize", "extract", "synthesize", "link", "contradict", "gap">>
Target(plan) ==
    CASE plan = "sources" -> <<"summarize">> [] plan = "concepts" -> <<"extract">>
      [] plan = "topics" -> <<"synthesize">> [] plan = "links" -> <<"link">>
      [] plan = "contradictions" -> <<"contradict">> [] plan = "gaps" -> <<"gap">>
      [] plan = "all" -> All

Compile ==
    /\ run = Idle /\ queue = <<>> /\ commands < MaxCommands
    /\ \E plan \in Plans : queue' = Target(plan)
    /\ commands' = commands + 1
    /\ UNCHANGED <<raws, store, run, edits, drafted, faults>>

\* `ico compile --changed`: the source gets its new row; the cross-source
\* passes run when one of their pages is affected.
CompileChanged(s) ==
    /\ run = Idle /\ queue = <<>> /\ commands < MaxCommands
    /\ edition[s] # newest[s]
    /\ queue' = IF Sweep(s) \/ \E k \in AffectedKeys(s) : rows[k].kind \in CrossKinds
                THEN All ELSE <<"summarize", "extract">>
    /\ newest' = [newest EXCEPT ![s] = edition[s]]
    /\ commands' = commands + 1
    /\ UNCHANGED <<edition, summarized, store, run, edits, drafted, faults>>

\* The summaries of all newest rows without one; see Maintenance.
Summarize ==
    /\ run = Idle /\ queue # <<>> /\ Head(queue) = "summarize"
    /\ LET todo == {s \in Sources : Newest(s) \notin summarized}
       IN  /\ summarized' = summarized \cup {Newest(s) : s \in todo}
           /\ wiki' = [p \in Paths |-> IF p[1] = "sources" /\ p[2] \in todo
                                       THEN Summary(p[2], newest[p[2]]) ELSE wiki[p]]
    /\ index' = {p \in Paths : wiki'[p] # None}
    /\ queue' = Tail(queue)
    /\ UNCHANGED <<edition, newest, tmp, rows, junction, provenance, traces, torn, run, counts>>

\* Somebody changes a raw file.
Edit(s) ==
    /\ run = Idle /\ queue = <<>> /\ edits < MaxEdits
    /\ edition' = [edition EXCEPT ![s] = edits + 1]
    /\ edits' = edits + 1
    /\ UNCHANGED <<newest, summarized, store, queue, run, commands, drafted, faults>>

Steps ==
    \/ ExtractReads \/ ExtractAsks \/ ExtractMerges \/ ExtractStages \/ ExtractRecords
    \/ SynthesizeReads \/ SynthesizeAsks \/ SynthesizeMerges \/ SynthesizeStages \/ SynthesizeRecords
    \/ ContradictReads \/ ContradictAsks \/ ContradictReduces \/ ContradictReduced
    \/ ContradictMerges \/ ContradictStages \/ ContradictRecords
    \/ GapReads \/ GapAsks \/ GapMerges \/ GapStages \/ GapRecords
    \/ LinkReads \/ LinkStages \/ LinkTraces \/ LinkRenames
    \/ Summarize \/ Finish
    \/ \E status \in Statuses : Retry(status) \/ Refused(status)

Next == Steps \/ Stops \/ Compile \/ (\E s \in Sources : CompileChanged(s)) \/ \E s \in Edited : Edit(s)

Spec == Init /\ [][Next]_vars
FairSpec == Spec /\ WF_vars(Steps)

-----------------------------------------------------------------------------
(* Properties *)

Pages == {p \in Visible(Dirs) : wiki[p].kind # "summary"}

\* A page that can be seen has left its receipts first: a row of its id, a
\* provenance record of its path and the trace of its pass (G1 in extract.ts
\* and in the other passes), wherever a step failed.
ReceiptsPrecede ==
    \A p \in Pages : /\ rows[wiki[p].key] # None
                     /\ <<wiki[p].key, p>> \in traces
                     /\ \E id \in Ids \cup {Batch} : <<id, p>> \in provenance

\* The directories each pass has to put before the model.
MustRead == [extract |-> {"sources"}, synthesize |-> {"sources"}, contradict |-> {"sources"},
             gap |-> {"sources", "concepts", "topics"}]

\* A title that is refused with a trace or can be seen, unless a title with the
\* same file name was written after it.
Accounted(k) ==
    \/ k \in run.refused
    \/ \E w \in run.written :
          w[1] = k /\ \E v \in run.written : v[2] = w[2] /\ wiki[v[2]].key = v[1]

\* A pass that ends well has put every page there is to read before the model
\* (batch-helper.ts), but for those of a directory it could not list; and of
\* every title in the answers it has made a page or a refusal, but for those
\* that were only in answers cut off, beside the sentinel, or not of the type
\* that the last question of contradict asks for.
NothingIsDropped ==
    run.step = "done" /\ run.pass \in Generative =>
        /\ run.asked = run.inputs
        /\ ~run.blind => run.inputs = Visible(MustRead[run.pass])
        /\ \A k \in run.given :
              Accounted(k) \/ (k \in run.lost /\ k \notin KeysOf(run.raw))

\* The page its row names, and no other row; not left behind by a failure.
Sole(p) ==
    /\ \E k \in Keys : rows[k] # None /\ rows[k].path = p /\ wiki[p].key = k
    /\ \A k \in Keys : rows[k] # None /\ rows[k].path = p => wiki[p].key = k
    /\ p \notin torn
    /\ run.step \in {"attribute", "provenance", "trace", "publish"} => PathOf(Now) # p

\* A page that cites a source it was shown is affected when the source changes
\* (the junction of incremental.ts), whatever passes ran, failed or ran again.
CitedIsAffected ==
    \A s \in Sources : \A p \in Pages :
        Sole(p) /\ Newest(s) \in wiki[p].cites \cap wiki[p].drew => p \in Affected(s)

\* A command ends: the client gives up after MaxAttempts, a pass is finite.
CompileEnds == queue # <<>> ~> queue = <<>>
=============================================================================
