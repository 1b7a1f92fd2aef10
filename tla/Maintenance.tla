---------------------------- MODULE Maintenance ----------------------------
(***************************************************************************)
(* Freshness: how the content of mounted files and of files under raw/     *)
(* becomes rows of `sources` and summary pages.  `ico maintain` scans the  *)
(* mount, selects a bounded batch, copies, registers, summarises and marks *)
(* it under the write lock; `ico ingest` and `ico compile` work on the     *)
(* same rows, all but the incremental compile without the lock.            *)
(*                                                                         *)
(* A content is its hash.  A mounted file and the raw path built from its  *)
(* mount and relative path are one name (buildMaintenanceRawPath is        *)
(* injective).  `rows` is the sources table in order of ingested_at, with  *)
(* the summary row of `compilations` joined in.                            *)
(***************************************************************************)
EXTENDS Integers, FiniteSets, SequencesExt

CONSTANTS
    Order,          \* all raw paths, in the order of localeCompare
    Mounted,        \* the paths that belong to mounted files
    Versions,       \* contents
    Starts,         \* what the mounted files, and raw/ of the other paths, may hold at first,
                    \* --billing-mode metered, and how much of each bound is used up
    Blocked,        \* contents the disclosure scan refuses
    None,
    MaxCandidates,  \* --max-candidates
    Ceiling,        \* --daily-ceiling-usd, in units of cost
    MaxCost,        \* the worst case of one provider call
    MaxEdits, MaxCrashes, MaxCommands, MaxDay     \* bounds of the instance

Paths == ToSet(Order)
Ingested == Paths \ Mounted

ASSUME ConstantsAssumption ==
    /\ Order \in Seq(Paths) /\ MaxDay \in Nat \ {0}
    /\ Starts \subseteq [files : [Paths -> Versions \cup {None}], metered : BOOLEAN,
                       edits : Nat, crashes : Nat, commands : Nat]
    /\ Mounted \subseteq Paths /\ Blocked \subseteq Versions /\ None \notin Versions \cup Paths
    /\ MaxCandidates \in Nat \ {0} /\ Ceiling \in Nat
    /\ MaxCost \in Nat \ {0}

VARIABLES
    disk,      \* mounted file -> its content, None when it is gone
    mount,     \* "none", "ok", "missing", or "stale": older than the age limit
    raw,       \* path -> content of the file under raw/
    rows,      \* the sources table, with summaries
    page,      \* path -> content the visible wiki/sources page was made from
    latest,    \* .ico/maintenance/latest.json
    ledger,    \* cost of today's inference_operations
    run,       \* what the two command processes are doing
    metered,   \* --billing-mode
    day, edits, crashes, commands

vars == <<disk, mount, raw, rows, page, latest, ledger, run, metered, day, edits, crashes,
          commands>>
env == <<disk, mount, metered, day, edits, crashes>>

Procs == {"maintain", "cli"}
Row == [path : Paths, hash : Versions, summary : BOOLEAN, origin : Mounted \cup {None},
        done : BOOLEAN, excluded : BOOLEAN]
Candidate == [file : Mounted \cup {None}, path : Paths, hash : Versions,
              kind : {"new", "changed", "pending"}, copy : BOOLEAN]
Idle == [pc |-> "idle", locked |-> FALSE, cands |-> <<>>, eligible |-> 0, reg |-> <<>>,
         comp |-> {}, todo |-> <<>>, text |-> None, tries |-> 0, won |-> {}, skipped |-> {},
         lost |-> {}, spent |-> 0, seen |-> 0]

TypeOK ==
    /\ disk \in [Mounted -> Versions \cup {None}]
    /\ mount \in {"none", "ok", "missing", "stale"}
    /\ raw \in [Paths -> Versions \cup {None}]
    /\ rows \in Seq(Row)
    /\ \A i, j \in DOMAIN rows :
          rows[i].path = rows[j].path /\ rows[i].hash = rows[j].hash => i = j
    /\ page \in [Paths -> Versions \cup {None}]
    /\ latest.status \in {"none", "running", "compiled", "partial", "verified_noop", "failure"}
    /\ latest.paths \in Seq(Paths)
    /\ ledger \in Nat /\ day \in 1..MaxDay /\ metered \in BOOLEAN
    /\ DOMAIN run = Procs
    /\ \A q \in Procs :
          /\ run[q].pc \in {"idle", "copy", "register", "ask", "call", "publish", "ingest", "lock"}
          /\ run[q].cands \in Seq(Candidate) /\ run[q].reg \in Seq(Candidate)
          /\ ToSet(run[q].todo) \subseteq DOMAIN rows

-----------------------------------------------------------------------------
(* The sources table *)

\* The members of S in a strict order.
InOrder(S, Precedes(_, _)) ==
    CHOOSE s \in [1..Cardinality(S) -> S] :
        \A i, j \in DOMAIN s : i < j => Precedes(s[i], s[j])
Ascending(ids) == InOrder(ids, <)

\* The row of this content at this path, 0 when there is none.
RowOf(p, h) == SelectInSeq(rows, LAMBDA r : r.path = p /\ r.hash = h)
Newest(p) == SelectLastInSeq(rows, LAMBDA r : r.path = p)

\* Slip: a content seen before at the path is inserted again.
SlipRegisterSource(table, c) ==
    Append(table, [path |-> c.path, hash |-> c.hash, summary |-> FALSE,
                   origin |-> c.file, done |-> FALSE, excluded |-> FALSE])

\* INSERT, or the existing row, untouched, when (path, hash) is known.
RegisterSource(table, c) ==
    IF \E r \in ToSet(table) : r.path = c.path /\ r.hash = c.hash
    THEN table
    ELSE Append(table, [path |-> c.path, hash |-> c.hash, summary |-> FALSE,
                        origin |-> c.file, done |-> FALSE, excluded |-> FALSE])

\* The newest row of each path, where it has no summary.
Uncompiled == {i \in DOMAIN rows : i = Newest(rows[i].path) /\ ~rows[i].summary}

\* The three classes of computeAffectedSet for one changed file.
Affected(p, h) == IF Newest(p) = 0 THEN "new"
                  ELSE IF rows[Newest(p)].hash = h THEN "unchanged" ELSE "changed"

HasCurrentSummary(c) == RowOf(c.path, c.hash) # 0 /\ rows[RowOf(c.path, c.hash)].summary

-----------------------------------------------------------------------------
(* The scan *)

\* The newest row that names the mounted file as its origin.
Tracked(f) == SelectLastInSeq(rows, LAMBDA r : r.origin = f)

Present == {f \in Mounted : mount \in {"ok", "stale"} /\ disk[f] # None}
Removed == {f \in Mounted : mount # "none" /\ Tracked(f) # 0 /\ f \notin Present}

\* Slip: the completion mark is trusted without the hash it was made for.
SlipSettled(r, h) == r.done /\ (r.summary \/ r.excluded)

\* Same content, marked complete, and compiled or excluded by validation.
Settled(r, h) == r.hash = h /\ r.done /\ (r.summary \/ r.excluded)

\* A tracked file is a candidate unless settled; it keeps the path of its row.
TrackedCandidate(f) ==
    LET r == rows[Tracked(f)]  h == disk[f]
        kind == IF r.hash = h THEN "pending" ELSE "changed"
    IN  IF Settled(r, h) THEN {}
        ELSE {[file |-> f, path |-> r.path, hash |-> h, kind |-> kind,
               copy |-> kind = "changed" \/ raw[r.path] = None]}

\* An untracked file is known if its content was compiled at any path, adopts a
\* row of that content whose raw file exists, and is new otherwise.
UntrackedCandidate(f) ==
    LET same == {r \in ToSet(rows) : r.hash = disk[f]}
        pending == {r \in same : raw[r.path] # None}
    IN  IF \E r \in same : r.summary THEN {}
        ELSE IF pending = {} THEN {[file |-> f, path |-> f, hash |-> disk[f], kind |-> "new", copy |-> TRUE]}
        ELSE LET r == CHOOSE r \in pending : TRUE
             IN  {[file |-> f, path |-> r.path, hash |-> disk[f], kind |-> "pending", copy |-> FALSE]}

Candidates == UNION {IF Tracked(f) # 0 THEN TrackedCandidate(f) ELSE UntrackedCandidate(f) :
                        f \in {g \in Present : disk[g] \notin Blocked}}

Index(p) == SelectInSeq(Order, LAMBDA x : x = p)

\* Paths of an unfinished or failed run come first, in its order; the rest by name.
Retried(p) == IF latest.status \in {"failure", "running"}
              THEN SelectInSeq(latest.paths, LAMBDA x : x = p) ELSE 0
Before(a, b) ==
    IF Retried(a.path) # Retried(b.path)
    THEN Retried(b.path) = 0 \/ (Retried(a.path) # 0 /\ Retried(a.path) < Retried(b.path))
    ELSE IF a.path # b.path THEN Index(a.path) < Index(b.path)
    ELSE Index(a.file) < Index(b.file)

Ordered == InOrder(Candidates, Before)
Selected == SubSeq(Ordered, 1, IF Len(Ordered) < MaxCandidates THEN Len(Ordered) ELSE MaxCandidates)
PathsOf(s) == [i \in DOMAIN s |-> s[i].path]

-----------------------------------------------------------------------------
(* ico maintain *)

Locked == \E q \in Procs : run[q].locked
Receipt(status, s) == latest' = [status |-> status, paths |-> PathsOf(s)]
Become(q, r) == run' = [run EXCEPT ![q] = r]

\* The lock is not to be had: the refused run leaves its receipt all the same.
MaintainRefused ==
    /\ Locked
    /\ Receipt("failure", <<>>)
    /\ UNCHANGED <<env, raw, rows, page, ledger, run, commands>>

CanScan == run["maintain"].pc = "idle" /\ ~Locked

\* No mount, a missing or stale one, or a tracked file that is gone.
MaintainFailsClosed ==
    /\ CanScan
    /\ mount # "ok" \/ Removed # {}
    /\ Receipt("failure", Selected)
    /\ UNCHANGED <<env, raw, rows, page, ledger, run, commands>>

MaintainNoop ==
    /\ CanScan /\ mount = "ok" /\ Removed = {} /\ Candidates = {}
    /\ Receipt("verified_noop", <<>>)
    /\ UNCHANGED <<env, raw, rows, page, ledger, run, commands>>

\* --scan-only reports all candidates, as a failure.
MaintainScanOnly ==
    /\ CanScan /\ mount = "ok" /\ Removed = {} /\ Candidates # {}
    /\ commands < MaxCommands /\ commands' = commands + 1
    /\ Receipt("failure", Ordered)
    /\ UNCHANGED <<env, raw, rows, page, ledger, run>>

\* Sources without a summary of this content, each priced at two calls of average cost.
ToCompile(s) == {i \in DOMAIN s : ~HasCurrentSummary(s[i])}
Defers(s, avg) == metered /\ ledger + 2 * Cardinality(ToCompile(s)) * avg > Ceiling

MaintainDeferred ==
    /\ CanScan /\ mount = "ok" /\ Removed = {} /\ Candidates # {}
    /\ \E avg \in 1..MaxCost : Defers(Selected, avg)
    /\ Receipt("failure", Selected)
    /\ UNCHANGED <<env, raw, rows, page, ledger, run, commands>>

\* What will be registered, by path: the last candidate of every changed or new
\* path, and of every pending one that is to be compiled.
ToRegister(s) ==
    LET due == {c \in ToSet(s) : \/ Affected(c.path, c.hash) # "unchanged"
                                 \/ c.kind = "pending" /\ ~HasCurrentSummary(c)}
        plans == {s[SelectLastInSeq(s, LAMBDA x : x.path = c.path)] : c \in due}
    IN  InOrder(plans, LAMBDA a, b : Index(a.path) < Index(b.path))

MaintainStart ==
    /\ CanScan /\ mount = "ok" /\ Removed = {} /\ Candidates # {}
    /\ \E batch \in {Selected} :
          /\ \E avg \in 1..MaxCost : ~Defers(batch, avg)
          /\ Receipt("running", batch)
          /\ Become("maintain",
                [Idle EXCEPT !.pc = "copy", !.locked = TRUE, !.cands = batch,
                             !.eligible = Cardinality(Candidates), !.reg = ToRegister(batch),
                             !.comp = {batch[i].path : i \in ToCompile(batch)},
                             !.spent = ledger, !.seen = edits])
    /\ UNCHANGED <<env, raw, rows, page, ledger, commands>>

\* The bytes read by the scan are written, whatever the mounted file is now.
MaintainCopy ==
    /\ run["maintain"].pc = "copy"
    /\ LET s == run["maintain"].cands
       IN  raw' = [p \in Paths |->
                     IF \E i \in DOMAIN s : s[i].path = p /\ s[i].copy
                     THEN s[SelectLastInSeq(s, LAMBDA c : c.path = p /\ c.copy)].hash
                     ELSE raw[p]]
    /\ Become("maintain", [run["maintain"] EXCEPT !.pc = "register"])
    /\ UNCHANGED <<env, rows, page, latest, ledger, commands>>

\* A raw file that is not what was planned, or that the disclosure scan refuses,
\* stops the registration.
Unfit(c) == raw[c.path] # c.hash \/ c.hash \in Blocked
RegisterUpTo(s) ==
    LET bad == SelectInSeq(s, Unfit)
        table[n \in 0..Len(s)] ==
            IF n = 0 THEN rows ELSE RegisterSource(table[n - 1], s[n])
    IN  table[IF bad = 0 THEN Len(s) ELSE bad - 1]

\* The rows of this run among the uncompiled ones, in table order.
Work(table, r) ==
    LET ids == {i \in DOMAIN table :
                  /\ \A j \in DOMAIN table : table[j].path = table[i].path => j <= i
                  /\ ~table[i].summary
                  /\ table[i].path \in r.comp
                  /\ \E c \in ToSet(r.cands) : c.path = table[i].path /\ c.hash = table[i].hash}
    IN  IF r.reg = <<>> THEN <<>> ELSE Ascending(ids)

\* currentSourceId throws for a source to be compiled that has no row after all:
\* another file of the batch has its raw path and was registered instead of it.
Unregistered(table, r) ==
    \E c \in ToSet(r.cands) : /\ c.path \in r.comp
                              /\ ~\E t \in ToSet(table) : t.path = c.path /\ t.hash = c.hash

MaintainRegister ==
    /\ run["maintain"].pc = "register"
    /\ LET r == run["maintain"]
           bad == SelectInSeq(r.reg, Unfit) # 0
           table == RegisterUpTo(r.reg)
       IN  /\ rows' = table
           /\ IF bad \/ Unregistered(table, r)
              THEN Become("maintain", Idle) /\ Receipt("failure", r.cands)
              ELSE /\ Become("maintain", [r EXCEPT !.pc = "ask", !.todo = Work(table, r)])
                   /\ UNCHANGED latest
    /\ UNCHANGED <<env, raw, page, ledger, commands>>

-----------------------------------------------------------------------------
(* runSummarize and summarizeSource, in whichever process *)

Turn(q) == run[q].pc = "ask" /\ run[q].todo # <<>>
Current(q) == rows[Head(run[q].todo)]
NextSource(r) == [r EXCEPT !.pc = "ask", !.todo = Tail(@), !.tries = 0, !.text = None]
Failed(q) == NextSource([run[q] EXCEPT !.lost = @ \cup {Current(q).path}])

\* Slip: the ceiling is compared with what was spent, without the next call's cost.
SlipOverCeiling(q) == q = "maintain" /\ metered /\ run[q].spent > Ceiling

\* The worst case of the next call would cross the ceiling.
OverCeiling(q) ==
    q = "maintain" /\ metered /\ run[q].spent + MaxCost > Ceiling

Refuse(q) ==
    /\ Turn(q) /\ OverCeiling(q)
    /\ Become(q, Failed(q))
    /\ UNCHANGED <<env, raw, rows, page, latest, ledger, commands>>

\* The raw file is read once per source; a retry sends the same content again.
Ask(q) ==
    /\ Turn(q) /\ ~OverCeiling(q)
    /\ Become(q, [run[q] EXCEPT !.pc = "call", !.tries = @ + 1,
                                !.text = IF run[q].tries = 0 THEN raw[Current(q).path] ELSE @])
    /\ UNCHANGED <<env, raw, rows, page, latest, ledger, commands>>

\* One row of inference_operations per answered call of a maintenance run.
Charge(q, r, c) ==
    IF q = "maintain" /\ metered
    THEN ledger' = ledger + c /\ Become(q, [r EXCEPT !.spent = @ + c])
    ELSE UNCHANGED ledger /\ Become(q, r)

\* A valid answer: the .tmp file, then the summary row; a row that another
\* process inserted meanwhile makes the INSERT fail.
Accept(q) ==
    /\ run[q].pc = "call"
    /\ \E c \in 1..MaxCost :
          Charge(q, IF Current(q).summary THEN Failed(q) ELSE [run[q] EXCEPT !.pc = "publish"], c)
    /\ rows' = [rows EXCEPT ![Head(run[q].todo)].summary = TRUE]
    /\ UNCHANGED <<env, raw, page, latest, commands>>

\* A rejected answer: one more try for a retryable code, else a traced skip.
Reject(q) ==
    /\ run[q].pc = "call"
    /\ \E c \in 1..MaxCost :
          \/ run[q].tries = 1 /\ Charge(q, [run[q] EXCEPT !.pc = "ask"], c)
          \/ Charge(q, NextSource([run[q] EXCEPT !.skipped = @ \cup {Current(q).path}]), c)
    /\ UNCHANGED <<env, raw, rows, page, latest, commands>>

\* The call fails, or its provenance, trace or rename does after the row is in.
CallFails(q) ==
    /\ run[q].pc \in {"call", "publish"}
    /\ Become(q, Failed(q))
    /\ UNCHANGED <<env, raw, rows, page, latest, ledger, commands>>

Publish(q) ==
    /\ run[q].pc = "publish"
    /\ page' = [page EXCEPT ![Current(q).path] = run[q].text]
    /\ Become(q, NextSource([run[q] EXCEPT !.won = @ \cup {Current(q).path}]))
    /\ UNCHANGED <<env, raw, rows, latest, ledger, commands>>

\* Every source failed, or the provider refused the key: the pass throws.
Throws(q) == run[q].pc = "ask" /\ run[q].todo = <<>> /\ run[q].won = {} /\ run[q].lost # {}
AuthError(q) == run[q].pc = "call"

MaintainThrows ==
    /\ Throws("maintain") \/ AuthError("maintain")
    /\ Receipt("failure", run["maintain"].cands)
    /\ Become("maintain", Idle)
    /\ UNCHANGED <<env, raw, rows, page, ledger, commands>>

-----------------------------------------------------------------------------
(* The end of a maintenance run *)

\* Slip: a source summarised by an earlier, unfinished run is not resumed.
SlipNotResumed(r, c) == c.path \in r.won \cup r.skipped

\* Compiled, skipped by validation, or resumed from an earlier run's summary.
Completed(r, c) ==
    \/ c.path \in r.won \cup r.skipped
    \/ c.path \notin r.comp /\ HasCurrentSummary(c)

\* Slip: the newest row of the path, whatever its content.
SlipMarkedRow(c) == Newest(c.path)

\* The row of the candidate's own content.
MarkedRow(c) == RowOf(c.path, c.hash)

\* markMaintenanceComplete for the completed candidates, in order.
Mark(table, r) ==
    [i \in DOMAIN table |->
        LET n == SelectLastInSeq(r.cands, LAMBDA c : Completed(r, c) /\ MarkedRow(c) = i)
        IN  IF n = 0 THEN table[i]
            ELSE [table[i] EXCEPT !.done = TRUE, !.origin = r.cands[n].file,
                                  !.excluded = r.cands[n].path \in r.skipped]]

MaintainFinish ==
    /\ run["maintain"].pc = "ask" /\ run["maintain"].todo = <<>> /\ ~Throws("maintain")
    /\ LET r == run["maintain"]
           done == {i \in DOMAIN r.cands : Completed(r, r.cands[i])}
       IN  /\ rows' = Mark(rows, r)
           /\ Receipt(IF Cardinality(done) < Len(r.cands) THEN "failure"
                      ELSE IF Cardinality(done) < r.eligible THEN "partial" ELSE "compiled", r.cands)
    /\ Become("maintain", Idle)
    /\ UNCHANGED <<env, raw, page, ledger, commands>>

-----------------------------------------------------------------------------
(* ico ingest, ico compile sources, ico compile --changed *)

CliIdle == run["cli"].pc = "idle" /\ commands < MaxCommands /\ commands' = commands + 1
Plan(p, h) == [file |-> None, path |-> p, hash |-> h, kind |-> "changed", copy |-> FALSE]

\* The file is copied into raw/ before its row exists.
CopyIn(p, v) ==
    /\ CliIdle
    /\ Affected(p, v) # "unchanged"
    /\ raw' = [raw EXCEPT ![p] = v]
    /\ Become("cli", [Idle EXCEPT !.pc = "ingest", !.reg = <<Plan(p, v)>>])
    /\ UNCHANGED <<env, rows, page, latest, ledger>>

\* The command scans for disclosures before any write, the library's pipeline does not.
IngestCopy(p, v) == v \notin Blocked /\ CopyIn(p, v)
PipelineCopy(p, v) == CopyIn(p, v)

IngestRegister ==
    /\ run["cli"].pc = "ingest"
    /\ rows' = RegisterSource(rows, run["cli"].reg[1])
    /\ Become("cli", Idle)
    /\ UNCHANGED <<env, raw, page, latest, ledger, commands>>

CompileSources ==
    /\ CliIdle
    /\ Uncompiled # {}
    /\ Become("cli", [Idle EXCEPT !.pc = "ask", !.todo = Ascending(Uncompiled)])
    /\ UNCHANGED <<env, raw, rows, page, latest, ledger>>

\* The diff finds nothing: "Nothing affected - brain is already fresh."
IncrementalFresh(p) ==
    /\ run["cli"].pc = "idle"
    /\ raw[p] # None /\ Affected(p, raw[p]) = "unchanged"
    /\ UNCHANGED vars

\* The diff is made before the lock is taken.
IncrementalDiff(p) ==
    /\ CliIdle
    /\ raw[p] # None /\ Affected(p, raw[p]) # "unchanged"
    /\ Become("cli", [Idle EXCEPT !.pc = "lock", !.reg = <<Plan(p, raw[p])>>])
    /\ UNCHANGED <<env, raw, rows, page, latest, ledger>>

\* Another writer has the lock, or the file moved since the diff or is refused:
\* nothing is done.
IncrementalSkips ==
    /\ run["cli"].pc = "lock" /\ (Locked \/ Unfit(run["cli"].reg[1]))
    /\ Become("cli", Idle)
    /\ UNCHANGED <<env, raw, rows, page, latest, ledger, commands>>

IncrementalRegister ==
    /\ run["cli"].pc = "lock" /\ ~Locked /\ ~Unfit(run["cli"].reg[1])
    /\ LET table == RegisterSource(rows, run["cli"].reg[1])
           ids == {i \in DOMAIN table :
                     /\ \A j \in DOMAIN table : table[j].path = table[i].path => j <= i
                     /\ ~table[i].summary}
       IN  /\ rows' = table
           /\ Become("cli", [run["cli"] EXCEPT !.pc = "ask", !.locked = TRUE,
                                               !.todo = Ascending(ids)])
    /\ UNCHANGED <<env, raw, page, latest, ledger, commands>>

CliEnds ==
    /\ \/ run["cli"].pc = "ask" /\ run["cli"].todo = <<>>
       \/ AuthError("cli")
    /\ Become("cli", Idle)
    /\ UNCHANGED <<env, raw, rows, page, latest, ledger, commands>>

-----------------------------------------------------------------------------
(* Mounts and the world *)

MountAdd ==
    /\ mount = "none" /\ mount' = "ok"
    /\ UNCHANGED <<disk, raw, rows, page, latest, ledger, run, metered, day, edits, crashes, commands>>

\* A mount that rows refer to cannot be deleted.
MountRemove ==
    /\ mount # "none" /\ commands < MaxCommands /\ commands' = commands + 1
    /\ \A r \in ToSet(rows) : r.path \notin Mounted
    /\ mount' = "none"
    /\ UNCHANGED <<disk, raw, rows, page, latest, ledger, run, metered, day, edits, crashes>>

Touch == edits < MaxEdits /\ edits' = edits + 1

MountTrouble ==
    /\ Touch /\ mount = "ok" /\ mount' \in {"missing", "stale"}
    /\ UNCHANGED <<disk, raw, rows, page, latest, ledger, run, metered, day, crashes, commands>>

MountRecovers ==
    /\ mount \in {"missing", "stale"} /\ mount' = "ok"
    /\ UNCHANGED <<disk, raw, rows, page, latest, ledger, run, metered, day, edits, crashes, commands>>

\* A mounted file is written, removed or restored, at any time.
Edit(f, v) ==
    /\ Touch /\ v # disk[f]
    /\ disk' = [disk EXCEPT ![f] = v]
    /\ UNCHANGED <<mount, raw, rows, page, latest, ledger, run, metered, day, crashes, commands>>

Crash(q) ==
    /\ run[q].pc # "idle" /\ crashes < MaxCrashes
    /\ crashes' = crashes + 1
    /\ Become(q, Idle)
    /\ UNCHANGED <<disk, mount, raw, rows, page, latest, ledger, metered, day, edits, commands>>

Midnight ==
    /\ metered /\ day < MaxDay /\ day' = day + 1 /\ ledger' = 0
    /\ UNCHANGED <<disk, mount, raw, rows, page, latest, run, metered, edits, crashes, commands>>

-----------------------------------------------------------------------------
Init ==
    /\ \E s \in Starts : /\ disk = [f \in Mounted |-> s.files[f]]
                         /\ raw = [p \in Paths |-> IF p \in Mounted THEN None ELSE s.files[p]]
                         /\ metered = s.metered /\ edits = s.edits
                         /\ crashes = s.crashes /\ commands = s.commands
    /\ mount = "none" /\ page = [p \in Paths |-> None]
    /\ rows = <<>> /\ latest = [status |-> "none", paths |-> <<>>]
    /\ ledger = 0 /\ day = 1
    /\ run = [q \in Procs |-> Idle]

Maintain == \/ MaintainRefused \/ MaintainFailsClosed \/ MaintainNoop \/ MaintainScanOnly
            \/ MaintainDeferred \/ MaintainStart \/ MaintainCopy \/ MaintainRegister
            \/ MaintainThrows \/ MaintainFinish
Summarise(q) == Refuse(q) \/ Ask(q) \/ Accept(q) \/ Reject(q) \/ CallFails(q) \/ Publish(q)
Cli == \/ \E p \in Ingested : \/ \E v \in Versions : IngestCopy(p, v) \/ PipelineCopy(p, v)
                              \/ IncrementalFresh(p) \/ IncrementalDiff(p)
       \/ IngestRegister \/ CompileSources \/ IncrementalSkips \/ IncrementalRegister \/ CliEnds
World == \/ MountAdd \/ MountRemove \/ MountTrouble \/ MountRecovers
         \/ \E f \in Mounted, v \in Versions \cup {None} : Edit(f, v)
         \/ \E q \in Procs : Crash(q)
         \/ Midnight

Next == Maintain \/ (\E q \in Procs : Summarise(q)) \/ Cli \/ World
Spec == Init /\ [][Next]_vars

\* The timer starts a run again and again, a started command goes on, and a
\* provider that is asked about a source often enough answers.
Fairness ==
    /\ WF_vars(MaintainNoop \/ MaintainStart)
    /\ WF_vars(\/ MaintainCopy \/ MaintainRegister \/ MaintainThrows \/ MaintainFinish
               \/ Summarise("maintain"))
    /\ \A f \in Paths : SF_vars(run["maintain"].pc = "call" /\ Current("maintain").path = f
                                  /\ Accept("maintain"))
    /\ SF_vars(Publish("maintain"))
    /\ WF_vars(IngestRegister \/ IncrementalSkips \/ IncrementalRegister \/ CliEnds
               \/ Summarise("cli"))
FairSpec == Spec /\ Fairness

-----------------------------------------------------------------------------
(* Properties *)

\* Two files of one batch do not share a raw path with different contents.
OnePath ==
    LET s == run["maintain"].cands
    IN  \A i, j \in DOMAIN s : s[i].path = s[j].path => s[i].hash = s[j].hash

\* A row is marked complete only with a summary of its own content, or with a
\* recorded exclusion, and stays so (markMaintenanceComplete is called for
\* candidates, by path): except after a batch that shares a path.
Unaccounted(table) ==
    {i \in DOMAIN table : table[i].done /\ ~table[i].summary /\ ~table[i].excluded}
MarksAreAccounted == [][OnePath => Unaccounted(rows') \subseteq Unaccounted(rows)]_vars

\* The spend recorded for one UTC day stays within the ceiling, over several runs,
\* crashes, retries and a midnight in the middle of a run.
SpendWithinCeiling == metered => ledger <= Ceiling

\* maintain.ts: "every mounted source hash has a summary or an explicit governed
\* exclusion": a run that says "compiled" or "verified_noop" claims it, if no file
\* changed since its scan.
Covered(h) == \E r \in ToSet(rows) : r.hash = h /\ (r.summary \/ r.excluded)
AllCovered == \A f \in Present : disk[f] \in Blocked \/ Covered(disk[f])'
Claims == \/ MaintainNoop
          \/ MaintainFinish /\ latest'.status = "compiled" /\ run["maintain"].seen = edits

\* So it is whatever failed, was adopted or shared before, if no two files of the
\* batch share a raw path with different contents.
HonestReceipt == [][Claims /\ OnePath => AllCovered]_vars

\* As the comment has it, of every batch.
EverySourceCovered == [][Claims => AllCovered]_vars

\* Once the mount stays up and its files stay, the maintenance of an unmetered
\* workspace reaches "verified_noop" again and again, whatever failed before:
\* except for a file that went back to old content, one to be compiled from a raw
\* file, not copied again, that holds other content, and two that share a content
\* validation excluded, whose row is one file's at a time.
Reverted(f) == Tracked(f) # 0 /\ RowOf(rows[Tracked(f)].path, disk[f]) \in 1..(Tracked(f) - 1)
Stranded == \E c \in Candidates : ~c.copy /\ ~HasCurrentSummary(c) /\ raw[c.path] # c.hash
Disputed == \E f, g \in Present : f # g /\ disk[f] = disk[g]
                                 /\ \E r \in ToSet(rows) : r.hash = disk[f] /\ r.excluded
Settling == mount = "ok" /\ Removed = {} /\ ~Stranded /\ ~Disputed /\ \A f \in Mounted : ~Reverted(f)
EventuallyFresh == ~metered /\ <>[]Settling => []<>(latest.status = "verified_noop")
=============================================================================
