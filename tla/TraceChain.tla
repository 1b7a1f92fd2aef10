----------------------------- MODULE TraceChain -----------------------------
(***************************************************************************)
(* The audit layer of the kernel: writeTrace (kernel/src/traces.ts) and    *)
(* the walk of verifyAuditChain (kernel/src/audit-verify.ts).              *)
(*                                                                         *)
(* Several processes append trace events to one JSONL file per UTC day and *)
(* index each event in SQLite.  Every event carries the hash of the line   *)
(* before it; the first event of a day carries the hash of the last line   *)
(* of the most recent earlier non-empty day.  A process picks its file     *)
(* name before it holds the EXCLUSIVE transaction, reads the tail, appends *)
(* and inserts the index row inside it.                                    *)
(*                                                                         *)
(* A file is the sequence of byte runs that single write(2) calls left in  *)
(* it ("chunks").  A chunk that is not whole misses its newline (the write *)
(* was cut short), so the next chunk continues the same physical line.     *)
(* Event ids are UUIDs, so a line is identified by the events whose bytes  *)
(* are in it: the hash of the line that runs from chunk i to chunk n is    *)
(* <<ev of i, ev of n>>.                                                   *)
(***************************************************************************)
EXTENDS Naturals, Sequences

CONSTANTS
    Writers,        \* processes that call writeTrace
    MaxDay,         \* bound: number of UTC days in a behaviour
    MaxEvents,      \* bound: number of calls of writeTrace
    MidnightQuiet,  \* TRUE: no call is in flight between naming and writing its file at midnight
    ShortWrites,    \* TRUE: write(2) may write fewer bytes than asked (a full disk)
    None            \* no process, no hash, no file

ASSUME ConstantsAssumption ==
    /\ MaxDay \in Nat \ {0}
    /\ MaxEvents \in Nat
    /\ MidnightQuiet \in BOOLEAN
    /\ ShortWrites \in BOOLEAN
    /\ None \notin Writers
    /\ None \notin Nat \X Nat

Days == 1..MaxDay
Events == 1..MaxEvents
Hash == Nat \X Nat
Chunk == [ev : Nat, prev : Hash \cup {None}, whole : BOOLEAN]
Call == [pc : {"idle", "named", "locked", "linked", "opened", "appended"},
         ev : Nat, day : Days, prev : Hash \cup {None}, offset : Nat]

VARIABLES
    today,      \* the UTC date
    files,      \* audit/traces/<day>.jsonl; an absent file is <<>>
    created,    \* the day files that exist, empty ones included
    index,      \* rows of the SQLite table traces
    lock,       \* holder of the EXCLUSIVE transaction
    writer,     \* one call of writeTrace per process
    calls,      \* number of calls so far; the last one's event_id
    returned,   \* events whose call returned ok(envelope)
    verifier    \* a concurrent verifyAuditChain

vars == <<today, files, created, index, lock, writer, calls, returned, verifier>>

Idle == [pc |-> "idle", ev |-> 0, day |-> 1, prev |-> None, offset |-> 0]

Init ==
    /\ today = 1
    /\ files = [d \in Days |-> <<>>]
    /\ created = {}
    /\ index = {}
    /\ lock = None
    /\ writer = [w \in Writers |-> Idle]
    /\ calls = 0
    /\ returned = {}
    /\ verifier = [pc |-> "idle", todo |-> {}, seen |-> [d \in Days |-> <<>>]]

-----------------------------------------------------------------------------
(* Lines and tails *)

(* The physical line that ends with chunk n of f begins at chunk i. *)
LineStart(f, n, i) ==
    /\ i > 1 => f[i - 1].whole
    /\ \A j \in i .. n - 1 : ~f[j].whole

(* h is the hash of the physical line of f that chunk n ends. *)
HashOfLine(f, n, h) ==
    \E i \in 1..n : LineStart(f, n, i) /\ h = <<f[i].ev, f[n].ev>>

(* p is the most recent non-empty day file before d. *)
PreviousDay(fs, d, p) ==
    /\ p < d
    /\ fs[p] # <<>>
    /\ \A q \in Days : p < q /\ q < d => fs[q] = <<>>

(* Slip: only the calendar day before d is looked at. *)
LinkTargetYesterday(fs, d, h) ==
    \/ fs[d] # <<>> /\ HashOfLine(fs[d], Len(fs[d]), h)
    \/ /\ fs[d] = <<>> /\ d > 1
       /\ fs[d - 1] # <<>> /\ HashOfLine(fs[d - 1], Len(fs[d - 1]), h)
    \/ fs[d] = <<>> /\ (d > 1 => fs[d - 1] = <<>>) /\ h = None

(* Slip: no seeding across days. *)
LinkTargetPerFile(fs, d, h) ==
    \/ fs[d] # <<>> /\ HashOfLine(fs[d], Len(fs[d]), h)
    \/ fs[d] = <<>> /\ h = None

(* h is the hash of the line an event for day d must link to. *)
LinkTarget(fs, d, h) ==
    \/ fs[d] # <<>> /\ HashOfLine(fs[d], Len(fs[d]), h)
    \/ /\ fs[d] = <<>>
       /\ \E p \in Days : PreviousDay(fs, d, p) /\ HashOfLine(fs[p], Len(fs[p]), h)
    \/ /\ \A p \in Days : p <= d => fs[p] = <<>>
       /\ h = None

-----------------------------------------------------------------------------
(* writeTrace *)

(* event_id, timestamp and dateStr are fixed before any lock is held. *)
Begin(w) ==
    /\ writer[w].pc = "idle"
    /\ calls < MaxEvents
    /\ calls' = calls + 1
    /\ writer' = [writer EXCEPT ![w] = [pc |-> "named", ev |-> calls + 1, day |-> today,
                                       prev |-> None, offset |-> 0]]
    /\ UNCHANGED <<today, files, created, index, lock, returned, verifier>>

(* Slip: a DEFERRED transaction does not wait for the other writer. *)
AcquireDeferred(w) ==
    /\ writer[w].pc = "named"
    /\ lock' = w
    /\ writer' = [writer EXCEPT ![w].pc = "locked"]
    /\ UNCHANGED <<today, files, created, index, calls, returned, verifier>>

(* BEGIN EXCLUSIVE succeeds. *)
Acquire(w) ==
    /\ writer[w].pc = "named"
    /\ lock = None
    /\ lock' = w
    /\ writer' = [writer EXCEPT ![w].pc = "locked"]
    /\ UNCHANGED <<today, files, created, index, calls, returned, verifier>>

(* busy_timeout expires while another process holds the transaction: err. *)
Busy(w) ==
    /\ writer[w].pc = "named"
    /\ lock # None
    /\ writer' = [writer EXCEPT ![w] = Idle]
    /\ UNCHANGED <<today, files, created, index, lock, calls, returned, verifier>>

(* readLastLine / readLastLineOfPreviousDay and the envelope. *)
ReadTail(w) ==
    /\ writer[w].pc = "locked"
    /\ \E h \in {None} \cup (Events \X Events) :
         /\ LinkTarget(files, writer[w].day, h)
         /\ writer' = [writer EXCEPT ![w].pc = "linked", ![w].prev = h]
    /\ UNCHANGED <<today, files, created, index, lock, calls, returned, verifier>>

(* Slips: the offset is off by one in either direction. *)
OpenOneLow(w) ==
    /\ writer[w].pc = "linked"
    /\ created' = created \cup {writer[w].day}
    /\ writer' = [writer EXCEPT ![w].pc = "opened",
                               ![w].offset = Len(files[writer[w].day]) - 1]
    /\ UNCHANGED <<today, files, index, lock, calls, returned, verifier>>

OpenOneHigh(w) ==
    /\ writer[w].pc = "linked"
    /\ created' = created \cup {writer[w].day}
    /\ writer' = [writer EXCEPT ![w].pc = "opened",
                               ![w].offset = Len(files[writer[w].day]) + 1]
    /\ UNCHANGED <<today, files, index, lock, calls, returned, verifier>>

(* openSync(O_CREAT | O_APPEND) and fstat of the same descriptor. *)
Open(w) ==
    /\ writer[w].pc = "linked"
    /\ created' = created \cup {writer[w].day}
    /\ writer' = [writer EXCEPT ![w].pc = "opened",
                               ![w].offset = Len(files[writer[w].day])]
    /\ UNCHANGED <<today, files, index, lock, calls, returned, verifier>>

(* Slip: opened with O_TRUNC instead of O_APPEND. *)
AppendLineTruncating(w) ==
    /\ writer[w].pc = "opened"
    /\ files' = [files EXCEPT ![writer[w].day] =
           <<[ev |-> writer[w].ev, prev |-> writer[w].prev, whole |-> TRUE]>>]
    /\ writer' = [writer EXCEPT ![w].pc = "appended"]
    /\ UNCHANGED <<today, created, index, lock, calls, returned, verifier>>

(* writeSync at the end of the file; the count it returns is not looked at. *)
AppendLine(w) ==
    /\ writer[w].pc = "opened"
    /\ \E whole \in IF ShortWrites THEN BOOLEAN ELSE {TRUE} :
         files' = [files EXCEPT ![writer[w].day] =
             Append(@, [ev |-> writer[w].ev, prev |-> writer[w].prev, whole |-> whole])]
    /\ writer' = [writer EXCEPT ![w].pc = "appended"]
    /\ UNCHANGED <<today, created, index, lock, calls, returned, verifier>>

(* INSERT, COMMIT, return ok(envelope). *)
Commit(w) ==
    /\ writer[w].pc = "appended"
    /\ index' = index \cup
         {[ev |-> writer[w].ev, day |-> writer[w].day, offset |-> writer[w].offset]}
    /\ lock' = None
    /\ returned' = returned \cup {writer[w].ev}
    /\ writer' = [writer EXCEPT ![w] = Idle]
    /\ UNCHANGED <<today, files, created, calls, verifier>>

(* A step inside the transaction throws (rollback, err), or the process is *)
(* killed: SQLite forgets the row, the appended line stays.                *)
Abort(w) ==
    /\ writer[w].pc # "idle"
    /\ writer' = [writer EXCEPT ![w] = Idle]
    /\ lock' = IF lock = w THEN None ELSE lock
    /\ UNCHANGED <<today, files, created, index, calls, returned, verifier>>

-----------------------------------------------------------------------------
(* verifyAuditChain *)

(* Chunk i of f is not a parseable line of its own. *)
Damaged(f, i) == ~f[i].whole \/ (i > 1 /\ ~f[i - 1].whole)

(* The walk of f reaches and parses its first n lines. *)
Walked(f, n) == \A j \in 1..n : ~Damaged(f, j)

(* prevFileLastLine when the walk arrives at day d is line n of day p. *)
LastWalked(fs, d, p, n) ==
    /\ p < d
    /\ n \in 1..Len(fs[p])
    /\ Walked(fs[p], n)
    /\ n = Len(fs[p]) \/ Damaged(fs[p], n + 1)
    /\ \A q \in Days : p < q /\ q < d => fs[q] = <<>> \/ Damaged(fs[q], 1)

(* The day boundary at d is a break: the first line neither links to the   *)
(* last line walked nor is a legacy null, or links although nothing is     *)
(* before it.                                                              *)
BoundaryBreak(fs, d) ==
    LET first == fs[d][1].prev IN
    \/ \E p \in Days : \E n \in 1..Len(fs[p]) :
         LastWalked(fs, d, p, n) /\ first \notin {None, <<fs[p][n].ev, fs[p][n].ev>>}
    \/ /\ \A p \in Days : p < d => fs[p] = <<>> \/ Damaged(fs[p], 1)
       /\ first # None

(* The breaks the walk reports, as <<day, line>>. *)
Breaks(fs) ==
    {b \in Days \X (1..MaxEvents) :
        LET d == b[1]
            i == b[2]
            f == fs[d]
        IN  /\ i <= Len(f)
            /\ Walked(f, i - 1)
            /\ \/ Damaged(f, i)
               \/ i = 1 /\ BoundaryBreak(fs, d)
               \/ i > 1 /\ f[i].prev # <<f[i - 1].ev, f[i - 1].ev>>}

(* Days counted in legacyBoundaries. *)
LegacyBoundaries(fs) ==
    {d \in Days : /\ fs[d] # <<>>
                  /\ fs[d][1].prev = None
                  /\ ~Damaged(fs[d], 1)
                  /\ \E p \in Days : \E n \in 1..Len(fs[p]) : LastWalked(fs, d, p, n)}

(* Slip: only the newest file and the one before it are verified. *)
VerifyListRecent ==
    /\ verifier.pc = "idle"
    /\ verifier' = [pc |-> "reading",
                    todo |-> {d \in created : \A q \in created : q <= d + 1},
                    seen |-> [d \in Days |-> <<>>]]
    /\ UNCHANGED <<today, files, created, index, lock, writer, calls, returned>>

(* readdir: every file that exists. *)
VerifyList ==
    /\ verifier.pc = "idle"
    /\ verifier' = [pc |-> "reading", todo |-> created, seen |-> [d \in Days |-> <<>>]]
    /\ UNCHANGED <<today, files, created, index, lock, writer, calls, returned>>

(* readFileSync of the next listed file, without any lock. *)
VerifyRead(d) ==
    /\ verifier.pc = "reading"
    /\ d \in verifier.todo
    /\ \A q \in verifier.todo : d <= q
    /\ verifier' = [verifier EXCEPT !.todo = @ \ {d}, !.seen[d] = files[d]]
    /\ UNCHANGED <<today, files, created, index, lock, writer, calls, returned>>

(* The walk ends and its result is returned; the next call starts afresh. *)
VerifyReturn ==
    /\ verifier.pc = "reading"
    /\ verifier.todo = {}
    /\ verifier' = [pc |-> "idle", todo |-> {}, seen |-> [d \in Days |-> <<>>]]
    /\ UNCHANGED <<today, files, created, index, lock, writer, calls, returned>>

-----------------------------------------------------------------------------
(* The UTC date changes. *)
Midnight ==
    /\ today < MaxDay
    /\ MidnightQuiet =>
         \A w \in Writers : writer[w].pc \notin {"named", "locked", "linked", "opened"}
    /\ today' = today + 1
    /\ UNCHANGED <<files, created, index, lock, writer, calls, returned, verifier>>

WriterStep(w) ==
    \/ Begin(w) \/ Acquire(w) \/ Busy(w) \/ ReadTail(w)
    \/ Open(w) \/ AppendLine(w) \/ Commit(w) \/ Abort(w)

Next ==
    \/ \E w \in Writers : WriterStep(w)
    \/ VerifyList
    \/ \E d \in Days : VerifyRead(d)
    \/ VerifyReturn
    \/ Midnight

Spec == Init /\ [][Next]_vars

-----------------------------------------------------------------------------
(* Properties *)

(* The variables keep their types. *)
TypeOK ==
    /\ today \in Days
    /\ files \in [Days -> Seq(Chunk)]
    /\ created \subseteq Days
    /\ index \subseteq [ev : Nat, day : Days, offset : Nat]
    /\ lock \in Writers \cup {None}
    /\ writer \in [Writers -> Call]
    /\ calls \in Nat
    /\ returned \subseteq Nat
    /\ verifier \in [pc : {"idle", "reading"}, todo : SUBSET Days,
                     seen : [Days -> Seq(Chunk)]]

(* Whatever processes interleave, abort or cut a line short, every event   *)
(* after the first of a day file carries the hash of the physical line     *)
(* before it in that file: no two writers link to the same line.           *)
InFileLinked ==
    \A d \in Days : \A i \in 2..Len(files[d]) :
        HashOfLine(files[d], i - 1, files[d][i].prev)

(* The log nobody tampered with verifies: the walk finds no break and no   *)
(* null boundary that it would have to excuse as legacy.                   *)
ChainVerifies == Breaks(files) = {} /\ LegacyBoundaries(files) = {}

(* Deleting a whole day file that is not the newest is always noticed.     *)
DeletionDetected ==
    \A d \in Days :
        /\ files[d] # <<>>
        /\ \E q \in Days : q > d /\ files[q] # <<>>
        => Breaks([files EXCEPT ![d] = <<>>]) # {}

(* A committed index row names the file and the offset at which its own    *)
(* event really is, and the call that failed or died never left a row.     *)
IndexLocatesEvent ==
    \A r \in index :
        /\ r.ev \in returned
        /\ r.offset < Len(files[r.day])
        /\ files[r.day][r.offset + 1].ev = r.ev

(* A verification that runs while events are written reports no break      *)
(* that is not in the log itself.                                          *)
NoFalseAlarm ==
    verifier.pc = "reading" /\ verifier.todo = {}
        => Breaks(verifier.seen) \subseteq Breaks(files)

(* Trace files are append-only, line by line.                              *)
AppendOnly ==
    [][\A d \in Days : /\ Len(files'[d]) >= Len(files[d])
                       /\ SubSeq(files'[d], 1, Len(files[d])) = files[d]]_vars
=============================================================================
