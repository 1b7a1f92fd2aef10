# TLA+ models of Intentional Cognition OS

Intentional Cognition OS (`ico`) turns a corpus of source files into a wiki of
compiled pages. A language model writes the text; a deterministic kernel owns
every state change, and what it promises is accountability: every visible page
has a receipt, every event is in a tamper-evident log, every research task is in
a state from which it can go on. The modules here model the parts of the kernel
and of the compiler that those promises rest on, as they are written in `src/`.

`PROJECT.json` maps every definition to the lines it models and lists runs,
mutants, findings, hazards and theorems. Run a model with
`tlc -config <cfg> <module>.tla`, a proof with `tlapm <module>.tla`.

## 1. The system

Everything lives in a workspace directory: `raw/` (ingested sources), `wiki/`
(compiled pages), `tasks/` (research), `outputs/`, `audit/`, and one SQLite file
`.ico/state.db`. There is no server. Each `ico` command is a process of its own,
a nightly job runs some of them, and shell scripts back the workspace up, so the
shared state is the file system and the database, and processes interact through
nothing else but an advisory lock.

| Component (source) | State | Operations | Hard behaviour | What makes it correct |
|---|---|---|---|---|
| Trace chain (`kernel/src/traces.ts`) | `audit/traces/<day>.jsonl`, table `traces` | `writeTrace` | many processes, midnight, aborted transactions, short writes | one linear hash chain; an acknowledged event is in it |
| Verifier (`kernel/src/audit-verify.ts`) | none | `verifyAuditChain` | reads without a lock while others append | no false alarm, no deletion unnoticed |
| Promotion (`kernel/src/promotion.ts`) | `wiki/`, `.tmp` files, table `promotions`, traces | `promoteArtifact` | four resources changed without a common transaction, best-effort rollback, death | receipts before visibility |
| Unpromotion (`kernel/src/unpromote.ts`) | the same | `unpromoteArtifact` | death between unlink and DELETE | the page goes before its receipts |
| Reconciliation (`kernel/src/reconcile.ts`) | `wiki/`, `quarantine/` | `reconcileWorkspace` | a receipted set read once, a walk over a tree others write | only unreceipted pages are moved |
| Compile passes (`compiler/src/passes/`) | `wiki/`, tables `compilations` and `compilation_sources`, provenance, traces | summarize, extract, synthesize, link, contradict, gap | batches, provider errors, answers that are no page, one row id for several pages, pages rewritten in place, death | receipts before visibility; every input is asked about, and what is kept of the answers is written or refused |
| Compile command and incremental diff (`cli/src/commands/compile.ts`, `compiler/src/incremental.ts`) | table `sources` | `ico compile`, `--changed` | the junction is what the model listed; registration precedes compilation | what depends on a change is compiled again |
| Maintenance (`cli/src/commands/maintain.ts`) | `maintenance/latest.json`, tables `sources`, `inference_operations` | `ico maintain` | edits, sharing and adoption of files while a run is on, failures, death, a bounded batch and a daily ceiling | receipts that tell the truth, spend within the ceiling, progress |
| Ingest and mounts (`kernel/src/sources.ts`, `mounts.ts`, `cli/src/commands/ingest.ts`) | `raw/`, tables `sources`, `mounts` | `ico ingest`, `ico mount` | copy before row, no lock | a row for what is in `raw/` |
| Spool emitter (`kernel/src/spool.ts`, `cli/src/commands/spool.ts`) | `spool/` or the directory INTKB polls | `ico spool emit` | reconcile and export are two steps; names of one-second resolution; two renames per emission; a poller | what leaves had a receipt; what is reported arrives |
| Recall (`compiler/src/recall/`, `kernel/src/search.ts`) | `recall/`, `pages_fts`, `recall_results` | generate, quiz, export | an index emptied and refilled in place, shared `.tmp` names, sessions that break off | cards cite what the model saw; sessions are recorded whole |
| Write lock (`kernel/src/write-lock.ts`) | a flock(2), held by a child process | `withWriteLock` | event-loop order, child exit, death of either process | exclusion, and the lock comes back |
| Task machine (`kernel/src/tasks.ts`, `archive.ts`) | table `tasks`, `tasks/<id>/` | `createTask`, `transitionTask`, `archiveTask` | read, check, unconditional UPDATE, trace | legal transitions |
| Research (`compiler/src/agents/`) | files of a task | `executeResearch` and five stages | failures at each stage, retries that repeat stages, leftover evidence, budget, death | the status never promises work that is not there; the task can be completed |
| Anchors (`kernel/src/audit-anchor.ts`, `cli/src/lib/anchor.ts`) | `ico-anchors.jsonl` in a git repository | append, commit, verify | read-then-append without a lock, commits that fail, a chain that grows meanwhile | truncation and rewriting are noticed |
| State store (`kernel/src/state.ts`) | schema of `state.db` | open, migrate | two processes migrating | each migration is applied once |
| Everything else | | ask, render, lint, evals, audit reports, CLI output | queries, text and arithmetic | - |

Calls: the CLI opens the database and calls the kernel or the compiler; the
compiler calls `writeTrace`, `transitionTask` and the receipt tables of the kernel;
`ico compile --changed` and `ico maintain` wrap their work in `withWriteLock`. The
other commands (`ingest`, `compile <target>`, `promote`, `unpromote`, `reconcile`,
`spool`, `recall`) take no lock at all, which is why the models of the workspace let
operations of several processes interleave.

The hazards, each at its line and with the properties that cover it, are listed
in `PROJECT.json`.

## 2. Modules

| Module | Models | Runs | Proofs |
|---|---|---|---|
| `TraceChain` | `writeTrace`, `verifyAuditChain` | `trace_chain`, `trace_faults` | `TraceChainProofs` |
| `AuditLog` | what the audit trail promises: the abstract specification of `TraceChain`, and the log `Anchors` is built on | in `trace_chain` and `anchors` | - |
| `Anchors` | `appendIcoAnchor` with its commit, `verifyIcoAnchors` | `anchors` | `AnchorsProofs` |
| `Receipts` | promotion, the write path of compile passes, link pass, unpromotion, reconciliation, in any number of processes | `receipts` | `ReceiptsProofs` |
| `Passes` | the passes from their inputs to their receipts, the client, the targets and the incremental diff | `passes` | `PassesProofs` |
| `Maintenance` | mounts, scan, maintenance runs, summaries, ingest, the source side of both compiles | `maintain`, `maintain_shared` | `MaintenanceProofs` |
| `Spool` | `ico spool emit` by several processes, and INTKB's polling | `spool` | `SpoolProofs` |
| `Recall` | search index, card generation, quiz sessions, deck export | `recall` | `RecallProofs` |
| `WriteLock` | `withWriteLock`, its child, the other holders | `write_lock`, `write_lock_overlap` | `MaintenanceProofs` |
| `TaskPipeline` | `transitionTask`, `executeResearch`, its agents, `archiveTask` | `tasks` | `TaskPipelineProofs` |

The same state is seen by more than one module where different things matter:
`Receipts` has operations of several kinds interleaved on two pages, `Passes` has what
one process does to all pages of the wiki, `Maintenance` has rows of sources and one
summary per row, `Spool` takes pages and rows as they come. Each says at its head what
the others have in detail.

`MC*` modules instantiate them for TLC. Operators that begin with the comment
`Slip:` are not part of any specification: each is a changed form of the operator
after it, of the kind a plausible bug in that code would be, and TLC finds the
property named with it in `PROJECT.json` violated when it takes that operator's
place.

### TraceChain

A day file is the sequence of byte runs that single `write(2)` calls left in it; a
run without its newline was cut short, and the next one continues the same line.
The hash of a line is the pair of events whose bytes begin and end it: event ids
are UUIDs, so distinct lines have distinct pairs, and collisions of SHA-256 are
not modelled.

| State | In the code |
|---|---|
| `today` | the UTC date as `toDateString(new Date())` sees it |
| `files`, `created` | `audit/traces/*.jsonl` |
| `index` | rows of `traces` (event, file, byte offset; an offset counts runs) |
| `lock` | the process inside `db.transaction(...).exclusive()` |
| `writer[w]` | one `writeTrace` call: `named` has its date (line 197), `locked` holds the transaction, `linked` has read the tail, `opened` has the descriptor and its offset, `appended` has written |
| `returned` | events whose call returned `ok` |
| `verifier` | a `verifyAuditChain`: the files listed and still to read, what it has read |

`Begin`, `Acquire` or `Busy`, `ReadTail`, `Open`, `AppendLine`, `Commit` are the call
in its order; `Abort` is an exception or a death anywhere in it. The verifier lists
the directory, reads the files one by one without a lock, and walks what it read
(`Breaks`). `Midnight` changes the date.

`Spec` has two switches. `MidnightQuiet` keeps midnight out of the window between
naming the file and writing it; `ShortWrites` lets a write be cut short. Both
hazards are real, and the runs say which property needs which of them excluded.

### AuditLog

A log that only grows at its end, and a set of acknowledged events that are in it
for good. `MCTraceChain!ImplementsAuditLog` maps the concatenation of the day files
in date order to the log: every step of `TraceChain` is a step of `AuditLog` or a
stutter, as long as no call straddles midnight.

### Anchors

The chain is `AuditLog`'s log (`Trail!Record` is a `writeTrace`), so this module relies
on what `TraceChain` implements (without straddled midnights and torn trace lines,
either of which moves or changes lines that are already anchored) and not on its files. The hash of line `n` is the
sequence of the first `n` events, since each line carries the hash of the one before
it. `anchors` are the lines of `ico-anchors.jsonl`, torn ones included; `committed` is
how many of them the last commit has. `anchorer[a]` is one `appendIcoAnchor` with the
commit its caller makes: `ReadChain` (head and count), `ReadAnchors` (last record,
no-op guard), `AppendAnchor` or `AppendTears`, `CommitAnchor`; `Stop` is a death or a
commit that fails. `verifier` reads the anchors, then counts the chain, then reads it
again at each anchored position.

`chainHeadInfo` reads file after file while events are appended. Files before the
newest do not change any more, so what it returns is the chain at some moment of the
reading, and it is one step here. The edit of a record in place
(`ANCHOR_HASH_MISMATCH`) is left out.

### Receipts

One page has one path. `page`, `tmp`, `compilations`, `promotions`, `trace` and
`quarantine` are the files and tables of those names; `old` holds the
`.tmp` files older than `tmpMaxAgeMs`. The content of a page is the number of the
operation that produced it. Rows and traces carry it as a ghost (the code matches
by path), so that the model can tell a page from what another operation left in
the same `.tmp`.

`proc[w]` is the operation of one process, `pc` the step that comes next:

| Operation | Steps |
|---|---|
| promote | `StartPromote` (checks, `existsSync(target)`), `WriteTmp`, `InsertRow`, `WriteTrace`, `Rename`; on an error `PromotionFails`, then `UndoTmp`, `UndoRow`, each of which may be skipped (`SkipUndo`) |
| compile a page | `StartCompile`, `WriteTmp`, `InsertRow` (upsert by title, fresh id for summaries), `WriteTrace`, `Rename` |
| link | `StartLink` (all pages read), `Stage` per page, `TraceLink` (one trace), `Publish` per page |
| unpromote | `StartUnpromote`, `Unlink`, `DeleteRows`, `TraceUnpromote` |
| reconcile | `StartReconcile` (receipted set), per page `Visit` and `Move`, or `Overlook` (a directory or an entry that cannot be read is skipped without a word), `Sweep` of the old `.tmp` files that can be read, `Report` |

`Stop` is an error that the code answers by returning without any cleanup, or the
death of the process; both leave the disk as it is. `Age` lets an hour pass for a
`.tmp`; `HandCopy` is a file copied into `wiki/` by hand, which reconcile exists to
catch.

Abstractions: the sweep moves all old `.tmp` files in one step; the checks of
promotion other than `existsSync(target)` only read the draft; `wiki/index.md` is
rebuilt from the pages by several operations and left out. What reconciliation gives the
spool emitter, its gate, is in `Spool`.

### WriteLock

`call[c]` is one `withWriteLock` in a Node process: `pending` between the spawn and
the timer, `critical` while the callback runs, `expired` when the timer saw that
the child was gone, `degraded` when there is no flock(1) and the callback runs
unlocked. `child` follows the child: waiting in flock, running cat with the lock
held, exited. The event loop is `Timer`, `SeeExit` and `Close` in any order the code
permits: the timer can fire before the child's exit is known. `other` are the
scripts that take the same flock on their own. `flock` is FALSE on a machine
without it. A run of maintenance takes this lock, so its proofs stand beside those of
`Maintenance`, and the module's names (`LockSpec`, `LockTypeOK`, `Nil`, `Kill`) differ from
the names there.

### TaskPipeline

`status` is `tasks.status`; `evidence` has a version for each file `evidence/NN-<slug>.md`,
named by place and page, so that another collection may write others beside it;
`file[s]` is the output of each later stage, a version number with the versions it was
made from, and whether its body is blank: the skeptic and the integrator refuse a blank input
(`Refuses`), while nothing keeps the summarizer or the skeptic from writing one. `run[r]` is one `executeResearch`: `Invoke` (with or without retry), `Loop` (the
next stage, from the status last read), then the agent: `Collect` and `WriteEvidence` file
by file, or a step that checks the status and reads (`Summarize`, `Critique`, `Integrate`,
`Render`) and one that has the answer and writes (`WriteNotes`, `WriteCritique`, `WriteFinal`,
`WriteReport`), then a transition in two steps, `Check` (SELECT and VALID_TRANSITIONS) and
`Update` (unconditional UPDATE and trace), then `Reread` (tokens, budget). `StageFails` goes
to `recordAbort`, `UpdateUntraced` is a transition whose trace fails after the UPDATE, `Die`
a death or an error between stages, `Pause` step mode. `Archive` is `archiveTask`.

### Maintenance

A content is its hash; a mounted file and the raw path made from it are one name.

| State | In the code |
|---|---|
| `disk`, `mount` | the mounted files; the row of `mounts` and whether its directory is there and recent |
| `raw` | files under `raw/` |
| `rows` | `sources` in order of `ingested_at`, each with its summary row, and what `metadata` says: origin, completion mark, exclusion |
| `page` | what the visible summary page was made from |
| `latest` | `maintenance/latest.json` |
| `ledger` | cost of today's `inference_operations` |
| `run` | the command of each of two processes, `ico maintain` and another one |

A run is `MaintainStart` (scan, candidates, order, batch, projection), `MaintainCopy`,
`MaintainRegister` (which throws for a file that is `Unfit`, changed meanwhile or refused by the
disclosure scan, and for a candidate that has no row then, `Unregistered`), then per source `Ask`, `Accept` or `Reject`, `Publish`, and
`MaintainFinish` (marks and receipt); it may instead be refused, fail closed, find nothing,
be deferred, or throw. The other process ingests or compiles with the same actions.
`World` edits, removes and restores mounted files and mounts, kills processes, and lets
midnight pass.

### Passes

A page is its title, kind, cited ids, links and backlinks; `drew` is a ghost that remembers
which source versions the model was shown. `Key` and `Slug` are the two functions that make
an id and a file name of a title; they differ, and the instance has titles that agree on
one only.

`queue` is what the command has still to do, `run` the pass that runs: `<Pass>Reads` (inputs
cut into batches), `<Pass>Asks` (one call per batch, with `Retry` and `Refused` for errors),
`ContradictReduces`, `<Pass>Merges`, then per page `Reject`, or `Stage`, `Upsert`, `Attribute`,
`RecordProvenance`, `Trace`, `Publish`, and `Finish` with the new index. An answer may be lost
whole, cut off at the token ceiling or beside a sentinel; `lost` is a history of the titles that were in such
answers, `given` of all titles answered. The link pass is
`LinkReads`, `LinkStages`, `LinkTraces`, `LinkRenames`. `Stops` is any failure or death.
`CompileChanged` queues what `Affected` says; `Affected` is `computeAffectedSet`.

### Spool

`em[e]` is one `ico spool emit`: `Refuse`, `DryRun` or `Invoke`; the reconcile gate (`LoadReceipts`,
then per directory `ListPages`, which may miss what it cannot read, and `Quarantine` per page),
`DiscoverWiki`, `DiscoverOutputs`, `Start` (candidates, name, trace), `WriteSpool`, `RenameSpool`,
`WriteManifest`, `RenameManifest`, `Complete`. Each write may be short (`Cut`): the file then lacks its
end, and nothing looks at the count. `files`, `manifests` and `tmps` are the directory, `second` the clock a name is made of. `Compiled` and
`Placed` are pages that come or change with and without a receipt. `Poll` is INTKB (external):
it refuses a file whose manifest describes another one, takes one without a manifest, and
passes over ids it has. Two things keep the model small without taking anything away: which free
emitter a new process is does not matter (`Free`), and the clock ticks only when an emission is about to
read it (`Tick`), since nothing else does.

### Recall

`proc[p]` is one command. Generation is `Generate` (the DELETE), `Insert` per page, `Search`,
`Ask`, `StageCard` and `RenameCard` per card, `StageQuiz`, `RenameQuiz`, `TraceGenerate`. A
session is `OpenQuiz`, then `Answer`, `Record` (INSERT), `Weigh` (retention query; one that
fails is swallowed and its score is `Unread`, 0 of no rows), `Tell`
(trace and output) per question. `Export` reads the cards, `WriteDeck` writes the deck.
`index[g]` counts the rows of a page: two rebuilds at once can leave two. The
`recall.quiz` trace that opens a session is left out. Citations of a parsed answer are a set and
its first member, which is all that is ever asked of them; `Names` numbers colliding cards in order.

## 3. What the runs show

Passing runs; each property has a mutant in `PROJECT.json` that breaks it.

| Run | Instance | Shows |
|---|---|---|
| `trace_chain` | 2 writers, 3 days, 4 calls, verifier; quiet midnights, whole writes; 164,882 states | `ChainVerifies`: the untouched log verifies, without any boundary excused as legacy. `DeletionDetected`: removing any day file but the newest is noticed. `NoFalseAlarm`: a verifier that reads while others write reports nothing that is not there. `ImplementsAuditLog` |
| `trace_faults` | 2 writers, 3 days, 3 calls; straddled midnights and short writes; 162,741 states | `InFileLinked`, `IndexLocatesEvent` hold even then |
| `anchors` | 1 process, 3 events, 2 faults, a verifier; 67,085 states | `OnlyTornReported`: a verification beside a growing chain and a growing anchor log reports torn lines only. `HistoryChangeDetected`: a chain cut or rewritten before the last anchored event, later hashes made to fit, is reported. `EventsGetAnchored` |
| `receipts` | 1 process, 2 pages of one title, one of them also hand-made, 3 contents, 2 faults; 388,433 states | `VisibleIsAccountedFor`, `ContentIsTraced` |
| `write_lock` | 2 callers, one with `requireLock`, 1 script, 2 kills, with and without flock; 3,967 states, deadlock checked | `LockComesBack`: after a callback that ends, throws or dies with its process, and after a child that gets the lock too late; no deadlock |
| `tasks` | 1 runner, 2 pages of evidence, budget 1 and costs up to 2, 3 faults, blank answers; 649,235 states | `StatusMatchesFiles`: what the status says is done is on disk and made from the present inputs, where what a failed collection has left behind counts as input, as it does for the summarizer. `Completes`, unless a stage left behind has written a blank file |
| `maintain` | 2 mounted files, 1 raw path, 2 contents, batches of 2, a death, 2 edits, another command, metered or not, 2 days; 211,328 states | `SpendWithinCeiling`: several runs, retries, a death and a midnight never spend more in a day than allowed. `HonestReceipt`: when a receipt says "compiled" or "verified_noop", every mounted content has a summary or an exclusion. `MarksAreAccounted`: as long as no two files of the batch share a raw path with different contents, no row is marked complete without a summary or an exclusion. `EventuallyFresh`: once the mount keeps still, "verified_noop" comes again and again, except in three cases listed below |
| `passes` | 2 sources, 3 colliding titles, 2 commands, 2 answers, 1 failure, 1 edit; 275,808 states | `ReceiptsPrecede`. `NothingIsDropped`: a pass that ends well has asked about every page of the directories it could list, and every title answered is visible or refused with a trace, unless it was only in answers that were cut off, beside a sentinel, or not of the type the reduce call asks for. `CitedIsAffected`: the diff finds every page that cites the changed source. `CompileEnds` |
| `spool` | 2 emitters, 2 pages, 2 edits, 1 fault, 2 seconds, INTKB; 875,637 states | `CompletedWasThere`: a completion trace tells of a file of its own emission that was there under its name, with exactly those lines unless the write was short. `OnlyReceiptedLeaves`: a page without a receipt does not leave, but for one that the walk could not read or that arrived after it. `EmittedIsHeld`: what was put under a name that no other emission used comes to INTKB, also if the emission died before manifest or trace, short writes apart |
| `recall` | 2 processes, 2 pages of one base name, 2 topics, 3 commands, 1 failure or edit; 1,772,225 states | `RebuiltIndexIsWiki`, `CardsWereVisible`, `Grounded`; `SessionIsWhole`: a quiz that ends has its rows, and each score counts the row it is told with, or is the 0 of a query that failed |

Two runs end in a violation.

`write_lock_overlap` (`Exclusion`): write-lock.ts:19-20 says of the lock that "it mutually excludes the shell
writers correctly", and lines 119-120 of the callback that it is "The critical section. Runs only if the
lock is acquired (or in flock-missing degraded mode)." It is started by a timer of 0 ms
(line 220), while the child may wait in flock for as long as `waitSeconds`: TLC has a script inside, a caller whose child
waits, and its callback inside as well. What does hold is `LockComesBack`, and that no ended call keeps the lock (section 6).

`maintain_shared` (`EverySourceCovered`): 042-OD-RNBK-scheduled-ico-maintenance.md:14 says that `compiled` means "every
eligible source reached a compiled or explicit governed-exclusion outcome". A batch may have
two candidates of one raw path: a file whose content another file had, and whose row is still
uncompiled, adopts that row with its path, while the other file has changed. maintain.ts:1090
looks up what was compiled by raw path, so that the summary of the new content marks the row
of the old one complete as well, and the receipt says "compiled". Batches of one
cannot meet it, which is why this run and `maintain` have two. `OnePath` is the condition that keeps it out
of `MarksAreAccounted` and `HonestReceipt`; section 6 proves that nothing else breaks them.

Further disagreements between the code and its comments, docs or evident purpose, met
while modelling. Those marked (model) are behaviours of the models here: TLC reaches them
when the condition that keeps them out of a property is dropped or the bounds named are used.

Audit trail:

- (model) The append is "multi-process safe" (traces.ts:257), but the file is named at line
  197, before the lock: a call that straddles midnight appends to yesterday's file after another
  process has linked today's first event to its last line, and an untouched log reports a
  break for ever. `MidnightQuiet` FALSE reaches it.
- (model) "Chain head unchanged — anchor already witnessed." (anchor.ts:100): an anchor whose
  commit failed is found unchanged by the next run, which returns before the commit.
- `000-docs/011-AT-TRSC-trace-schema.md:35` says that the kernel never appends to a
  previous day's file and section 4 that the first event of each file has
  `prev_hash: null`; `traces.ts` does the first across midnight and links across days.

Receipts, lock and tasks:

- (model) "never an unreceipted visible page" (extract.ts:326): row ids depend on the title only.
  A concept and a topic of one title share a row, the second takes it, and the next
  reconcile quarantines the first.
- (model) "No ordering can produce an unreceipted visible page" (link.ts:219): with two processes
  the link pass renames the copy of a page that the other one has unpromoted since.
- (model) A page that gets its row and becomes visible while a reconcile walks is quarantined,
  since the receipted set was loaded before (reconcile.ts:217).
- (model) reconcile.ts:133-150: a directory or an entry that cannot be read is skipped, and the
  reconciliation reports success. Unreceipted pages in it stay.
- (model) A stage error always ends in `failed_<stage>` (orchestrator.ts:15): VALID_TRANSITIONS
  has no edge from `rendering` to `failed_rendering`, and the refusal is ignored.
- (model) Evidence files of a collection that failed stay, and the summarizer reads them.
- (model) A blank answer of the summarizer is written and the status goes on; the skeptic refuses it
  (skeptic.ts:201), as the integrator does a blank critique (integrator.ts:213, 232), and no
  retry goes back far enough to make it again: the task is stuck for good (`Starved`).
- A task's report has the title "Report: final" whatever the task, so all tasks write
  `outputs/reports/report-final.md`, in place.
- orchestrator.ts:23-26 says that a budget overage moves the task to
  `failed_<stage>`; lines 402-409 leave the status where the finished stage put it.
  The model follows the code.
- FAILURE_ROLLBACK maps `failed_rendering` to `critiquing`, so a retry repeats the
  integration, not "just the failed stage".
- write-lock.ts:8 names `teamkb-compile-daily.sh` as a holder of the lock; that script
  takes `.compile.lock`.
- A short write: traces.ts:178 says `ok(envelope)` on success and err on any failure,
  but the byte count of `writeSync` (line 267) is not looked at. With `ShortWrites` TRUE
  a call returns ok, its line is torn and the next one glued to it.
- audit-anchor.ts:50 says that `workspaceId` disambiguates a shared log;
  `verifyIcoAnchors` compares every record with the one chain it was given.
- compile.ts:1020-1021 says that the links pass produces no new compile-trace events
  and needs no anchor; link.ts:247 writes a `compile.link` trace.
- unpromote.ts:147 refuses a page that is gone, so a death between the unlink and the
  DELETE leaves a row nothing removes.

Maintenance and incremental compile:

- (model) incremental.ts registers the sources before they are compiled: after a failure
  `ico compile --changed` says "Nothing affected — brain is already fresh." with the page uncompiled.
- (model, excluded from `EventuallyFresh` as `Stranded`) An untracked mounted file whose content has
  an uncompiled row adopts that row; if the raw file has other content by then, every run
  fails with "moved during planning", and the batch with it.
- (model, `Disputed`) Two mounted files of one content that validation excluded: each run gives the row to
  the other file, which makes the first one pending again, and pays for a new answer each time.
- (model, `Reverted`) A file that goes back to old content is a candidate for ever: the newest row of
  its origin stays the other one.
- The summary row is inserted before the rename; a death in between leaves a row without a
  page that nothing compiles again.
- The debounce never fires: `lastCompileAtMs` is not passed. `cost_runtime_defer` cannot
  be reached. Only maintenance records `inference_operations`, so a compile by hand is outside the
  ceiling; so is a call that is billed and lost to a timeout.
- (model) A refused run overwrites `latest.json` without the lock, with an empty list, and the
  order of resumption is lost.
- A tracked file that is removed blocks maintenance; a mount with registered sources cannot be
  removed because of the foreign key. `runIngestPipeline` has no disclosure scan, `ico ingest` has one.
- Two raw files of one stem share `wiki/sources/<stem>.md`.

Passes:

- (model) Ids of all passes share one namespace. Titles of one key and different slugs orphan the
  old page; titles of one slug and different keys overwrite each other.
- (model) Pages are merged before they are validated, so a longer answer without a body displaces
  a good page of the same key, and both are refused.
- (model) incremental.ts:269-271 calls the sweep "the reason a page is NEVER wrongly marked
  unaffected". It runs only when no page at all cites the source; a page that the model wrote with the
  source before it, and that lists another one only, is not affected when the first one changes.
- (model) An answer that contains the sentinel anywhere loses its pages without a trace (contradict.ts:323,
  gap.ts:273, and the reduce call), and one cut off at the token ceiling loses some with a warning; the
  pass succeeds. `readWikiSubdir` turns a read error
  into "no pages", and the pass succeeds (`blind` in the model).
- (model) The junction is not cleared when nothing is attributed, contrary to "junction reflects the
  LATEST compile". Answers without front-matter fences keep their own list.
- Any error but overload ends the pass and the answers of its earlier batches are lost. The openai
  wire retries 503 and not 529, the anthropic wire 529 and not 503; timeouts are not retried.
- (model) The link pass is not idempotent: backlinks count as references, so stale ones sustain
  themselves, although link.ts speaks of pages "referenced by at least one other page".
- After a cross-source pass failed, pages that cite the older version are not in the next diff.

Spool:

- (model) "Per-emission timestamp file" (spool.ts): names have a resolution of one second. A later
  emission of the same second replaces a file already reported; two at once can leave the spool
  file of one beside the manifest of the other, which INTKB refuses.
- (model) A `.tmp` left by a death blocks that second's name; nothing sweeps it.
- (model) The id of a candidate is of workspace name, path and body: a change of type, title, tenant or trust
  never reaches INTKB, and what was sent with `--bulk` first stays "untrusted".
- (model) "Manifest sidecar carries SHA-256 of the spool file so drift is detectable" (kernel/spool.ts:17-18): line 437 does not
  look at the count that `writeSync` returns, and the digest is that of the text in memory. After a short write the trace
  says complete, the command reports success, and INTKB refuses the file for ever.
- (model) `emitSpool` "can only ingest receipted knowledge" (cli spool.ts:378-383): pages that the walk could not
  read, or that come after it has listed their directory, are exported without a receipt.
- When the completion trace fails the command exits 5 although the file is out.
  `INVALID_CANDIDATE`, `MISSING_TITLE`, `WIKI_NOT_FOUND`, `OUTPUTS_NOT_FOUND` and `MANIFEST_FAILED` are never produced.
- (model) Two reconciliations at once: one finds a page gone and its emission exits 1. A page that
  arrives without a receipt after the reconcile is exported. Unreadable pages are dropped silently.

Recall:

- (model) The index is rebuilt by DELETE and one autocommitted INSERT per page: two rebuilds at once leave pages
  twice, which also take places of the LIMIT; a death leaves half an index, which `ask` and search use.
- (model) The `.tmp` of a card has no process in its name: of two generations one can fail, and the other report a
  card that was never visible. Names are kept apart within one generation only; others overwrite.
- (model) A session that breaks off keeps its rows, so a second try counts twice; quiz.ts says that an API error
  returns "whatever results were already persisted", the code returns err without them.
- (model) A quiz without questions is written and reported, and refused when it is opened; so is that of
  a topic without a slug. Two topics of one slug share a quiz. Concepts are base names: pages of
  different directories are one concept.
- (model) A retention query that fails is swallowed (quiz.ts:352): 0 is shown and traced as the score.
- recall-results.ts:38 documents `sourceCard` as the path of the flashcard; quiz.ts stores the wiki page.

## 4. Bounds, and why they are enough

- Trace chain: two writers are what a race on one tail takes. Three days make an
  empty day between two others, the case the search for the previous non-empty file
  exists for. Three or four events put two in one file and one on either side of a
  boundary. An aborted call uses up an event, so the number of attempts is bounded
  too.
- Anchors: three events put an anchored position at the start, inside and at the end of
  the chain. Two faults tear an append twice (a torn line continued by a torn line) or
  tear one and lose a commit. `MaxAnchors` is never reached: one process makes at most
  one anchor per event, one for the empty chain, and one per anchor lost to a torn line.
  A forged trail ranges over every sequence of events and one foreign event.
- Receipts: one title on two paths makes rows collide; three contents give a page,
  its replacement, and a third operation that can pick up what a fault left. Two
  faults, each at any step, cover a partial failure whose rollback or whose
  reconciliation fails in turn. The bounds cap `produced` and `faults` only; the proofs do not depend on them.
- Write lock: two callers and one script give each kind of pair. Two kills let
  both callers die, also while both children are alive.
- Tasks: two pages let a second collection write other evidence files beside those of the
  first. A blank answer is no fault: any answer may be one. Three faults are enough for a failure, a failure in recording it, and
  another in the retry; budget 1 with costs 0, 1 and 2 is below, at and above the
  limit. Each retry raises version numbers, but faults and stages bound the number
  of retries.
- Maintenance: two mounted files share one content or have one that the other had; a batch
  takes both, so that one can succeed and the other fail, and two can share a raw path. A ceiling of two with
  calls that cost one or two is crossed by the first retry. Two edits take a change back, or make a file
  share the path or the content of another. The one death falls at every step. The command of the
  other process is an ingest, a compile or an incremental one; for the last, a file lies in
  `raw/` from the start in one of the two initial states.
- Passes: batches of one source and two sources make a pass of two calls; three titles give
  one pair that agrees on the id and one on the file name; four answers are a page, one
  with citations of its own, one without a body and one without front matter. Two commands make the
  second one find what the first left, the edit between or during them included.
- Spool: two emitters in one second, and a second after it; a page of the wiki and a report; two edits
  make a page arrive and change; the one fault falls at every step, and is a death, a short write, a page that cannot be read
  or pages that the walk misses. The properties other than `EmittedIsHeld` are also proved without bounds.
- Recall: two pages with one base name, a topic that finds both and one that finds
  none and has no slug; an answer without cards, and one with two cards of one name and a citation
  that is not there. Three commands are two generations and a session or an export.
- The constants and operators whose names begin with `Max` are bounds and stand in the
  guards under those names.

`CHECK_DEADLOCK FALSE` is used where the bounded system stops: all calls made, all
contents produced, all commands run, the task archived. Only `write_lock` checks deadlock.

## 5. Fairness

- `TraceChain`, `Receipts`, `Recall`: none; they are about safety. No call, start, abort
  or midnight is forced.
- `Anchors`: every compilation ends with an anchor, and compilations keep coming; faults
  are finite.
- `WriteLock`: the event loop turns and callbacks end; flock's wait is bounded by
  `-w`; cat ends when its input does. Nobody has to call, and kills are not forced.
- `TaskPipeline`: the model answers or the stage fails, and an operator comes back
  with `--retry`. `Completes` is conditional on that operator, and on the number of
  faults being finite.
- `Maintenance`: the timer starts a run again and again; a command that runs takes its next
  step, being a process that nobody stops but `Crash`; a provider that is asked about one source again
  and again answers some time (strong fairness of `Accept` per path, and of `Publish`).
  The last is an assumption about the provider, not about the code: without it a source
  may be refused for ever.
- `Passes`: a pass that runs takes its next step. Neither commands nor failures are forced, and an
  ending by failure is one that `CompileEnds` counts.
- `Spool`: only INTKB goes on polling. No emitter has to finish.

## 6. What is proved

TLAPS checks the theorems below for every value of the constants; the bounds of
section 4 are arbitrary there.

`TraceChainProofs`, for any number of writers, days and calls:

- `TypeCorrect`, `FilesAreLinked`, `IndexIsSound`, `FilesAreAppendOnly` hold under every
  setting of the switches. The invariant adds to the types that a process between
  `locked` and `appended` is the holder of the lock (so at most one is), that what
  it has linked to is still the tail of its file, and that its offset is still the
  length of that file. Nobody else can write while the lock is held, which is what
  the EXCLUSIVE transaction is for; without this part `InFileLinked` is not
  inductive. `FilesAreAppendOnly` is not among the properties of a run.
- `QuietChainVerifies`: if `MidnightQuiet` holds and `ShortWrites` does not, the log
  verifies at all times. The strengthening says that every line is whole, that no
  file after `today` exists, that a call past `named` works on `today`'s file, and that
  the first line of a file links to the last line of the file before it. Neither hypothesis
  can be dropped: a straddled midnight breaks the chain (section 3), and with
  short writes `Damaged` lines appear at once.

`ReceiptsProofs`, for any set of pages, titles, summaries and hand-made pages, any
number of operations and faults:

- `TypeCorrect` for any set of processes;
- `OneProcessAccountsForPages` and `OneProcessTracesContent` under the assumption `OneProcess`. It is what a write lock
  around every command would give; the commands do not take it, and with a second
  process neither holds (section 3).

Neither property is inductive. The strengthening says, step by step of an
operation, what it already has: an operation past `row` has its row, one past
`trace` its trace, its `.tmp` holds its content unless it is gone, the pages a link
pass is about to publish are traced and still visible. The proof goes through the actions once per conjunct they can disturb.

`SpoolProofs`, for any number of emitters, pages, commands, seconds and faults; the
assumptions are that the wiki and the outputs are different directories and that `None`
is no content, type or directory:

- `TypeCorrect`;
- `GateHolds` (`OnlyReceiptedLeaves`). The strengthening (`Gate`) follows a page that the walk listed and that had no receipt
  when they were loaded: it was missed, or is gone, or is still to be moved in the quarantine step, so that
  a page the walk could read cannot be there when discovery reads, whatever the other emitters move and the compiler writes;
- `CompletionHolds` (`CompletedWasThere`). The strengthening (`Handoff`) says whose the `.tmp` file is: no two
  emitters of one name stand before the rename, which is what O_EXCL gives, so that each
  renames what it has written itself, or what a short write has left of it; after that it has been there under the name.

`AnchorsProofs`, for any number of anchoring processes, verifiers' readings, events, anchors and faults:

- `TypeCorrect`;
- `TamperingIsReported` (`HistoryChangeDetected`), with no condition on how calls overlap. It follows
  from what is kept of the whole history: every anchor, in the file, in the memory of a call or read by
  a verifier, is a prefix of the chain (`Rooted`), which only grows;
- `NoFalseBreak` (`OnlyTornReported`) while anchoring calls do not overlap (`[]OneAtATime`, a hypothesis of
  the theorem; two at once do splice the log, section 8). Beside `Rooted` it takes `Counted`, that a verifier
  has counted as much of the chain as any anchor it read, and `Linked`, that each whole line links to the last
  whole line before it.

`TaskPipelineProofs`, for any evidence, budget, costs, versions and faults:

- `TypeCorrect`;
- `StatusTellsWork` (`StatusMatchesFiles`) and `StatusMovesValidly` (every change of `status` is in
  VALID_TRANSITIONS; not among the properties of a run) while invocations do not overlap (`[]OneAtATime`). The strengthening says what
  the invocation that is at work knows: the status it has read or checked is the present one, what
  its agent has read is what is on disk, and what it has written is made from that. With two
  invocations at once what was checked can be stale, since the UPDATE is unconditional (section 8).

`MaintenanceProofs`, for any mounts, contents, refusals, batch sizes, prices, ceilings and any number of
edits, deaths, commands and days:

- `TypeCorrect`. The types are inductive only with the uniqueness of a row for its path and content, which is
  what lets a lookup by path and hash mean anything, and with every row a command has still to do being there;
- `CeilingHolds` (`SpendWithinCeiling`). `Spend` says that a metered run knows of all that the ledger has of
  today, and that a call under way can still be paid; a midnight empties the ledger under a run that remembers more,
  which is safe, and nothing else writes it;
- `MarksAreEarned` (`MarksAreAccounted`) and `ReceiptsAreHonest` (`HonestReceipt`), both of steps in which `OnePath`
  holds. `Earned` says that each path a run counts as compiled or skipped has a row with
  the content of a candidate of that path, with its summary in the first case; that the row is the candidate's own is where
  `OnePath` is needed. `Scan` says that, while nothing was edited since the scan and the batch was all that was eligible,
  each mounted file is refused, accounted for or in the batch.

`MaintenanceProofs` has in its last part, for any callers, scripts and kills of `WriteLock`:

- `LockTypeCorrect`, and `EndedCallsLetGo`: a lock held for a caller is held by a child that runs cat, and if the
  call has returned, thrown or died, that child's stdin is closed, so that it ends by itself. It is the safety half of
  `LockComesBack`. The strengthening has two parts: `Ownership`, that a child has the lock exactly while it runs
  cat and a script while it is inside, and `Spawned`, in which steps of a call there is a child at all and who closes its stdin.

`PassesProofs`, for any sources, titles, drafts, batch size, provider, targets and bounds. The assumptions are
that sources and titles are finitely many, as the files of a directory are (a directory is put in a
sequence before it is cut into batches), and that `None` is neither a page nor a row:

- `TypeCorrect`. It takes `InPlace`, that a page lies where its kind and title put it and that a summary drew on
  its own source only, and `Phased`, which of a pass's lists are empty at which step;
- `ReceiptsComeFirst` (`ReceiptsPrecede`). Not inductive: `InHand` says what the page at work has at each
  step, namely itself in the `.tmp` file, then its row, its provenance, its trace. `Linking` says
  that the link pass has a copy of each page it will rename that differs in backlinks only. Rows are rewritten for
  other paths by titles of the same key; receipts (provenance, traces) are only ever added, which is why
  a page that was receipted stays so;
- `AllIsAccountedFor` (`NothingIsDropped`), from `Account` (what a pass writes goes to other directories than it reads, so its inputs stay
  all there is, and each title answered is in a raw page or lost) and `Complete`: the inputs are the batches asked and
  those left, and each raw page's key is refused, written, or the key of a page still to come. Two lemmas on
  data carry it: the batches of `Chunk` together are the sequence (a division with remainder), and the
  first pages of each key can be listed in order (`FirstSeen` is not empty and covers every key);
- `CitationsAreFollowed` (`CitedIsAffected`), from `Drew` and `Citations`. What the model was shown
  had a summary row, so `Known` resolves its ids; the junction then holds every id a page cites of what
  it was shown, as long as its row tells of the page itself (`Told`). A row rewritten by a pass that fails
  before its rename is where it stops being true, and the property says so (`torn`).

`RecallProofs`, for any processes, pages, topics, answers of the model, commands and upsets. The
assumptions are that slugs, cards, questions and citations are finite sequences, as strings and arrays are,
and that the number of commands is a number. One invariant, `Inv`, gives all five (the
last one with a count beside it):

- `TypeCorrect`. That a page has no more rows than there were commands needs `Distinct` (processes at work
  have numbers of their own) and a count: the rows of a page and the rebuilds that
  have it still to do are no more than the commands given, because a rebuild starts with
  the DELETE and indexes each page once;
- `RebuiltIsWiki` (`RebuiltIndexIsWiki`). `Indexing` says of an undisturbed rebuild that it is the only one at
  work and that the index is what it has indexed so far;
- `NothingUnseenIsCited` (`Grounded`). A `.tmp` file belongs to no process, so that a generation may rename
  what another one has staged. The invariant therefore follows each text: what is held, staged, stored or
  exported cites what the generation named in it was shown (`Seen`), and what was shown never changes;
- `CardsAreVisible` (`CardsWereVisible`). `Stored` says of each card a generation has passed that it was visible under its
  name, unless a second generation has written that name, and of the staged one that the `.tmp` file holds it. That names of one
  generation differ is a lemma on `Names`: a number is found that is still free, since finitely many are taken;
- `SessionsAreWhole` (`SessionIsWhole`). `Recorded` says that a session has a row and a trace for each
  question it has passed, in order, that the row of the present question is there from its INSERT on, and that a score was
  taken after the row it reports; rows are only ever added. `Blinded` counts the scores of failed queries,
  told and still to be told, against the failures.

`TraceChainProofs` has further:

- `RefinesAuditLog`: with quiet midnights every step of `TraceChain` is a step of `AuditLog` or a
  stutter under the mapping of `MCTraceChain`. The heart is that appending to the newest file appends
  to the concatenation of all of them; short writes are allowed;
- `DeletionIsDetected` and `NoFalseAlarms`, under the hypotheses of `QuietChainVerifies`. For the first, no event
  is written twice, so no other line has the hash of the one that is gone; for the second, the verifier has
  read prefixes of the files, whole ones up to the newest it listed.

The hypotheses of these theorems (`MidnightQuiet`, no `ShortWrites`, `OneProcess`, `OneAtATime`, `OnePath`) are each
one that a run or an instance shows to be needed, and each run states its property under the same ones.

Some of it is an induction over numbers, which is done by the least counterexample: a set of numbers that is not
empty has a least member (`LeastNat`), so what fails first at n held at n - 1. So are proved the concatenation of
the day files, the recursive function that registers a list of sources (`RegisterUpTo`), and that a finite set has a list in a given
strict order (`InOrder` of `Maintenance`, which sorts candidates; the library's sorting is opaque to the prover).

Model-checked only: all liveness (`EventsGetAnchored`, `LockComesBack`, `Completes`, `EventuallyFresh`,
`CompileEnds`, `EmittedIsHeld`), temporal reasoning under fairness being outside the prover's reach. Every
invariant a passing run checks is the statement of a theorem. No module declares a RECURSIVE operator, so that proofs about it
stay possible.

## 7. Plan

Written so far, in the order of their importance: `TraceChain` with `AuditLog`,
`Receipts`, `Anchors`, `WriteLock`, `TaskPipeline`, then `Passes`, `Maintenance`, `Spool`,
`Recall`. Next:

1. `Migrations`: two processes that open one database at once.
2. The post-promotion refresh and `wiki/index.md`, which several operations rebuild.

## 8. What is not modelled, and why

- What a language model answers, prompts, parsing of model output, adapters, front
  matter, reports, slides, search ranking, scores, retention statistics: text and arithmetic
  without a protocol. `ico ask`, `ico render`, lint, evals and the audit reports read and print.
- SQLite itself: a transaction is atomic, a committed row stays, EXCLUSIVE excludes.
  Power failure (a rename or a page that never reaches the disk) is left out; only
  the process dies.
- The UUID of a mount: one that is removed and added again gets a new one (mounts.ts:55), and the
  model has the mount back with its row. Only mounts that never got a source can be removed.
- The name of a page as `parseQuizFile` reads it: `[^_]+` (quiz.ts:259) cuts a path at its first
  underscore. `Base` of `Recall` is an arbitrary function, so the names so cut are among its values.
- SHA-256 collisions, clocks that run backwards, directories removed by hand.
- `readLastLine` answering null for a file it cannot read, after which the chain starts anew.
- Migrations: the names of those applied are read outside the transaction that applies the rest.
- Two anchorings at once: both link to the same record and the log is reported as
  spliced from then on (an instance with two processes shows it). Compilations and
  `ico audit anchor` rarely meet, so the run keeps to one.
- Two runners on one task: `transitionTask` reads, checks and updates without a
  condition, so two `executeResearch` at once can take an illegal transition (an
  instance with two runners shows it). `executeResearch` has no caller that starts
  two, so the run keeps to one.
- `audit/log.md`, which nothing reads back.
