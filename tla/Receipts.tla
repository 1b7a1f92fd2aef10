------------------------------ MODULE Receipts ------------------------------
(***************************************************************************)
(* Receipts precede visibility: the wiki pages of a workspace and the rows *)
(* that vouch for them.                                                    *)
(*                                                                         *)
(* promoteArtifact (kernel/src/promotion.ts) and the compile passes        *)
(* (compiler/src/passes) write a page to <page>.tmp, then its receipts (a  *)
(* row, a trace event), and only then rename it into wiki/.                *)
(* unpromoteArtifact removes a page and its rows, and reconcileWorkspace   *)
(* moves pages without a row and old .tmp files to quarantine/.  An        *)
(* operation can fail at any step, and its process can die.  What the      *)
(* reconciliation is worth to `ico spool emit` is the matter of Spool.     *)
(*                                                                         *)
(* The content of a page is the number of the operation that produced it.  *)
(* Rows and trace events carry the content as a ghost; the code matches by *)
(* path alone.  wiki/index.md is rebuilt from the pages by every operation *)
(* and is left out.                                                        *)
(***************************************************************************)
EXTENDS Naturals

CONSTANTS
    Procs,       \* processes working on the workspace
    Pages,       \* page paths, wiki/<dir>/<slug>.md
    Title,       \* the normalized title a compiled page is keyed by, per page
    Summaries,   \* the pages in wiki/sources, which get a fresh row id each time
    HandMade,    \* pages that are also written by hand, without any receipt
    MaxContent,  \* bound: number of contents ever produced
    MaxFaults,   \* bound: number of failing steps and of process deaths
    None         \* no page, no content

ASSUME ConstantsAssumption ==
    /\ Summaries \subseteq Pages
    /\ HandMade \subseteq Pages
    /\ Title \in [Pages -> STRING]
    /\ MaxContent \in Nat
    /\ MaxFaults \in Nat
    /\ None \notin Pages
    /\ None \notin Nat

Content == Nat
RowId == ({"uuid"} \X Nat) \cup ({"title"} \X STRING)

VARIABLES
    page,          \* visible content per path, None if there is no file
    tmp,           \* content of <page>.tmp
    old,           \* paths whose .tmp is older than tmpMaxAgeMs
    compilations,  \* rows of table compilations
    promotions,    \* rows of table promotions
    trace,         \* trace events: <<operation, path, content>>
    quarantine,    \* files below quarantine/
    proc,          \* the operation each process is in
    produced,      \* number of contents so far
    faults         \* number of faults so far

store == <<page, tmp, old, compilations, promotions, trace, quarantine>>
vars == <<page, tmp, old, compilations, promotions, trace, quarantine,
          proc, produced, faults>>

(* An operation that is at label pc, with the receipted paths it has loaded *)
(* and the pages it has before it; moved is what it has put into place.     *)
Doing(pc, op, path, content, receipted, todo) ==
    [pc |-> pc, op |-> op, path |-> path, content |-> content,
     receipted |-> receipted, todo |-> todo, moved |-> {}]

Idle == Doing("idle", "none", None, 0, {}, {})

Init ==
    /\ page = [p \in Pages |-> None]
    /\ tmp = [p \in Pages |-> None]
    /\ old = {}
    /\ compilations = {}
    /\ promotions = {}
    /\ trace = {}
    /\ quarantine = {}
    /\ proc = [w \in Procs |-> Idle]
    /\ produced = 0
    /\ faults = 0

Operation == {"promote", "compile", "link", "unpromote", "reconcile"}
Label == {"idle", "tmp", "row", "trace", "rename", "undo", "untmp", "unrow", "stage", "publish",
          "unlink", "delete", "untrace", "walk", "move", "report"}
Process ==
    [pc : Label,
     op : Operation \cup {"none"}, path : Pages \cup {None}, content : Content,
     receipted : SUBSET Pages, todo : SUBSET Pages, moved : SUBSET (Pages \X Content)]

Become(w, q) == proc' = [proc EXCEPT ![w] = q]
Goto(w, label) == Become(w, [proc[w] EXCEPT !.pc = label])
Return(w) == Become(w, Idle)

(* The paths reconcileWorkspace and PROM003 accept as receipted. *)
Receipted == {r.path : r \in compilations} \cup {r.path : r \in promotions}

(* The row of p now names a page of the same title in another directory. *)
Displaced(p) == \E r \in compilations : r.id = <<"title", Title[p]>> /\ r.path # p

-----------------------------------------------------------------------------
(* promoteArtifact and the compile passes *)

(* The eligibility checks end with existsSync(target): TARGET_EXISTS. *)
StartPromote(w, p) ==
    /\ proc[w].pc = "idle"
    /\ produced < MaxContent
    /\ page[p] = None
    /\ produced' = produced + 1
    /\ Become(w, Doing("tmp", "promote", p, produced + 1, {}, {}))
    /\ UNCHANGED <<store, faults>>

(* A pass has an accepted model output for page p; p may already exist. *)
StartCompile(w, p) ==
    /\ proc[w].pc = "idle"
    /\ produced < MaxContent
    /\ produced' = produced + 1
    /\ Become(w, Doing("tmp", "compile", p, produced + 1, {}, {}))
    /\ UNCHANGED <<store, faults>>

(* Slip: the page is written in place instead of to <page>.tmp. *)
WriteInPlace(w) ==
    /\ proc[w].pc = "tmp"
    /\ page' = [page EXCEPT ![proc[w].path] = proc[w].content]
    /\ Goto(w, "row")
    /\ UNCHANGED <<tmp, old, compilations, promotions, trace, quarantine, produced, faults>>

WriteTmp(w) ==
    /\ proc[w].pc = "tmp"
    /\ tmp' = [tmp EXCEPT ![proc[w].path] = proc[w].content]
    /\ old' = old \ {proc[w].path}
    /\ Goto(w, "row")
    /\ UNCHANGED <<page, compilations, promotions, trace, quarantine, produced, faults>>

(* A summary has a random id; every other page upserts the row whose id is *)
(* derived from its title alone.                                           *)
IdOf(p, c) == IF p \in Summaries THEN <<"uuid", c>> ELSE <<"title", Title[p]>>

(* Slip: the page is renamed before its trace event is written. *)
InsertRowUntraced(w) ==
    LET p == proc[w].path
        c == proc[w].content
    IN  /\ proc[w].pc = "row"
        /\ IF proc[w].op = "promote"
           THEN /\ promotions' = promotions \cup {[path |-> p, content |-> c]}
                /\ UNCHANGED compilations
           ELSE /\ compilations' = {r \in compilations : r.id # IdOf(p, c)}
                      \cup {[id |-> IdOf(p, c), path |-> p, content |-> c]}
                /\ UNCHANGED promotions
        /\ Goto(w, "rename")
        /\ UNCHANGED <<page, tmp, old, trace, quarantine, produced, faults>>

InsertRow(w) ==
    LET p == proc[w].path
        c == proc[w].content
    IN  /\ proc[w].pc = "row"
        /\ IF proc[w].op = "promote"
           THEN /\ promotions' = promotions \cup {[path |-> p, content |-> c]}
                /\ UNCHANGED compilations
           ELSE /\ compilations' = {r \in compilations : r.id # IdOf(p, c)}
                      \cup {[id |-> IdOf(p, c), path |-> p, content |-> c]}
                /\ UNCHANGED promotions
        /\ Goto(w, "trace")
        /\ UNCHANGED <<page, tmp, old, trace, quarantine, produced, faults>>

WriteTrace(w) ==
    /\ proc[w].pc = "trace"
    /\ trace' = trace \cup {<<proc[w].op, proc[w].path, proc[w].content>>}
    /\ Goto(w, "rename")
    /\ UNCHANGED <<page, tmp, old, compilations, promotions, quarantine, produced, faults>>

(* renameSync; if the .tmp is gone it throws ENOENT and the receipts stand. *)
Rename(w) ==
    LET p == proc[w].path
    IN  /\ proc[w].pc = "rename"
        /\ page' = [page EXCEPT ![p] = IF tmp[p] = None THEN @ ELSE tmp[p]]
        /\ tmp' = [tmp EXCEPT ![p] = None]
        /\ old' = old \ {p}
        /\ Return(w)
        /\ UNCHANGED <<compilations, promotions, trace, quarantine, produced, faults>>

(* An audit step of a promotion throws (the audit file and log.md, written *)
(* after the trace, included): it is rolled back.  So is a failed rename,  *)
(* of which only the .tmp is removed.                                      *)
PromotionFails(w) ==
    /\ proc[w].op = "promote"
    /\ proc[w].pc \in {"row", "trace", "rename"}
    /\ faults < MaxFaults
    /\ faults' = faults + 1
    /\ \E undo \in {"undo", "untmp"} :
         /\ undo = "untmp" => proc[w].pc = "rename"
         /\ Goto(w, undo)
    /\ UNCHANGED <<store, produced>>

(* unlinkSync if existsSync: whoever wrote this .tmp. *)
UndoTmp(w) ==
    LET p == proc[w].path
    IN  /\ proc[w].pc \in {"undo", "untmp"}
        /\ tmp' = [tmp EXCEPT ![p] = None]
        /\ old' = old \ {p}
        /\ IF proc[w].pc = "undo" THEN Goto(w, "unrow") ELSE Return(w)
        /\ UNCHANGED <<page, compilations, promotions, trace, quarantine, produced, faults>>

(* Every step of a rollback is best-effort: a secondary error is swallowed. *)
SkipUndo(w) ==
    /\ proc[w].pc \in {"undo", "untmp", "unrow"}
    /\ IF proc[w].pc = "undo" THEN Goto(w, "unrow") ELSE Return(w)
    /\ UNCHANGED <<store, produced, faults>>

(* DELETE FROM promotions WHERE id = ?; the trace event stays. *)
UndoRow(w) ==
    /\ proc[w].pc = "unrow"
    /\ promotions' = promotions \ {[path |-> proc[w].path, content |-> proc[w].content]}
    /\ Return(w)
    /\ UNCHANGED <<page, tmp, old, compilations, trace, quarantine, produced, faults>>

-----------------------------------------------------------------------------
(* The link pass: backlinks are appended to pages that are already visible *)

(* Every page has been read; those in todo have incoming links. *)
StartLink(w, pages) ==
    /\ proc[w].pc = "idle"
    /\ produced < MaxContent
    /\ pages # {}
    /\ \A p \in pages : page[p] # None
    /\ produced' = produced + 1
    /\ Become(w, Doing("stage", "link", None, produced + 1, {}, pages))
    /\ UNCHANGED <<store, faults>>

(* The rewritten page goes to its .tmp. *)
Stage(w, p) ==
    /\ proc[w].pc = "stage"
    /\ p \in proc[w].todo
    /\ tmp' = [tmp EXCEPT ![p] = proc[w].content]
    /\ old' = old \ {p}
    /\ Become(w, [proc[w] EXCEPT !.todo = @ \ {p},
                                !.moved = @ \cup {<<p, proc[w].content>>}])
    /\ UNCHANGED <<page, compilations, promotions, trace, quarantine, produced, faults>>

(* One compile.link trace for the whole pass, and no row. *)
TraceLink(w) ==
    /\ proc[w].pc = "stage"
    /\ proc[w].todo = {}
    /\ trace' = trace \cup {<<"link", m[1], m[2]>> : m \in proc[w].moved}
    /\ Goto(w, "publish")
    /\ UNCHANGED <<page, tmp, old, compilations, promotions, quarantine, produced, faults>>

(* One rename after the other; the last one ends the pass. *)
Publish(w, p) ==
    /\ proc[w].pc = "publish"
    /\ <<p, proc[w].content>> \in proc[w].moved
    /\ page' = [page EXCEPT ![p] = IF tmp[p] = None THEN @ ELSE tmp[p]]
    /\ tmp' = [tmp EXCEPT ![p] = None]
    /\ old' = old \ {p}
    /\ IF tmp[p] = None \/ proc[w].moved = {<<p, proc[w].content>>}
       THEN Return(w)
       ELSE Become(w, [proc[w] EXCEPT !.moved = @ \ {<<p, proc[w].content>>}])
    /\ UNCHANGED <<compilations, promotions, trace, quarantine, produced, faults>>

-----------------------------------------------------------------------------
(* unpromoteArtifact *)

(* A promotions row for the path, and existsSync. *)
StartUnpromote(w, p) ==
    /\ proc[w].pc = "idle"
    /\ \E r \in promotions : r.path = p
    /\ page[p] # None
    /\ Become(w, Doing("unlink", "unpromote", p, 0, {}, {}))
    /\ UNCHANGED <<store, produced, faults>>

Unlink(w) ==
    LET p == proc[w].path
    IN  /\ proc[w].pc = "unlink"
        /\ page' = [page EXCEPT ![p] = None]
        /\ IF page[p] = None THEN Return(w) ELSE Goto(w, "delete")
        /\ UNCHANGED <<tmp, old, compilations, promotions, trace, quarantine,
                       produced, faults>>

(* DELETE FROM promotions WHERE target_path = ?: every row of the path. *)
DeleteRows(w) ==
    /\ proc[w].pc = "delete"
    /\ promotions' = {r \in promotions : r.path # proc[w].path}
    /\ Goto(w, "untrace")
    /\ UNCHANGED <<page, tmp, old, compilations, trace, quarantine, produced, faults>>

TraceUnpromote(w) ==
    /\ proc[w].pc = "untrace"
    /\ trace' = trace \cup {<<"unpromote", proc[w].path, 0>>}
    /\ Return(w)
    /\ UNCHANGED <<page, tmp, old, compilations, promotions, quarantine, produced, faults>>

-----------------------------------------------------------------------------
(* reconcileWorkspace *)

(* The receipted set is loaded once. *)
StartReconcile(w) ==
    /\ proc[w].pc = "idle"
    /\ Become(w, Doing("walk", "reconcile", None, 0, Receipted, Pages))
    /\ UNCHANGED <<store, produced, faults>>

(* The walk reaches p; an unreceipted page is to be moved next. *)
Visit(w, p) ==
    /\ proc[w].pc = "walk"
    /\ p \in proc[w].todo
    /\ IF page[p] = None \/ p \in proc[w].receipted
       THEN Become(w, [proc[w] EXCEPT !.todo = @ \ {p}])
       ELSE Become(w, [proc[w] EXCEPT !.todo = @ \ {p}, !.pc = "move", !.path = p])
    /\ UNCHANGED <<store, produced, faults>>

(* collectFiles leaves out, without a word, a directory or an entry that it *)
(* cannot read: the walk passes over p, whatever p is.                      *)
Overlook(w, p) ==
    /\ proc[w].pc = "walk"
    /\ p \in proc[w].todo
    /\ faults < MaxFaults
    /\ faults' = faults + 1
    /\ Become(w, [proc[w] EXCEPT !.todo = @ \ {p}])
    /\ UNCHANGED <<store, produced>>

(* quarantineFile; a page that is gone makes renameSync throw and ends the *)
(* reconciliation without its trace.                                       *)
Move(w) ==
    LET p == proc[w].path
    IN  /\ proc[w].pc = "move"
        /\ IF page[p] = None
           THEN Return(w) /\ UNCHANGED <<page, quarantine>>
           ELSE /\ quarantine' = quarantine \cup {<<p, page[p]>>}
                /\ page' = [page EXCEPT ![p] = None]
                /\ Become(w, [proc[w] EXCEPT !.pc = "walk", !.path = None,
                                            !.moved = @ \cup {<<p, page[p]>>}])
        /\ UNCHANGED <<tmp, old, compilations, promotions, trace, produced, faults>>

(* Slip: every path is swept, whether a .tmp exists or not. *)
SweepAll(w) ==
    LET swept == {<<p, tmp[p]>> : p \in Pages}
    IN  /\ proc[w].pc = "walk"
        /\ proc[w].todo = {}
        /\ quarantine' = quarantine \cup swept
        /\ tmp' = [p \in Pages |-> None]
        /\ old' = {}
        /\ Become(w, [proc[w] EXCEPT !.pc = "report", !.moved = @ \cup swept])
        /\ UNCHANGED <<page, compilations, promotions, trace, produced, faults>>

(* The walk is over: every .tmp that is old enough is moved, or those of   *)
(* them that the second walk could read.                                   *)
Sweep(w) ==
    \E found \in SUBSET old :
        LET swept == {<<p, tmp[p]>> : p \in found}
        IN  /\ proc[w].pc = "walk"
            /\ proc[w].todo = {}
            /\ found # old => faults < MaxFaults
            /\ faults' = IF found = old THEN faults ELSE faults + 1
            /\ quarantine' = quarantine \cup swept
            /\ tmp' = [p \in Pages |-> IF p \in found THEN None ELSE tmp[p]]
            /\ old' = old \ found
            /\ Become(w, [proc[w] EXCEPT !.pc = "report", !.moved = @ \cup swept])
            /\ UNCHANGED <<page, compilations, promotions, trace, produced>>

(* The audit.reconcile trace, only if anything moved. *)
Report(w) ==
    /\ proc[w].pc = "report"
    /\ trace' = trace \cup {<<"reconcile", m[1], m[2]>> : m \in proc[w].moved}
    /\ Return(w)
    /\ UNCHANGED <<page, tmp, old, compilations, promotions, quarantine, produced, faults>>

-----------------------------------------------------------------------------
(* Faults and the world around *)

(* A step throws and the operation returns err without cleaning up, or the *)
(* process is killed.                                                      *)
Stop(w) ==
    /\ proc[w].pc # "idle"
    /\ faults < MaxFaults
    /\ faults' = faults + 1
    /\ Return(w)
    /\ UNCHANGED <<store, produced>>

(* The pages an operation is working on. *)
InHand(w) == {proc[w].path} \cup {m[1] : m \in proc[w].moved}

(* An hour passes.  No operation takes that long. *)
Age(p) ==
    /\ tmp[p] # None
    /\ p \notin old
    /\ \A w \in Procs : p \notin InHand(w)
    /\ old' = old \cup {p}
    /\ UNCHANGED <<page, tmp, compilations, promotions, trace, quarantine,
                   proc, produced, faults>>

(* Somebody copies a file into wiki/ while no operation runs. *)
HandCopy(p) ==
    /\ p \in HandMade
    /\ produced < MaxContent
    /\ \A w \in Procs : proc[w].pc = "idle"
    /\ produced' = produced + 1
    /\ page' = [page EXCEPT ![p] = produced + 1]
    /\ UNCHANGED <<tmp, old, compilations, promotions, trace, quarantine, proc, faults>>

WriterStep(w) ==
    \/ WriteTmp(w) \/ InsertRow(w) \/ WriteTrace(w) \/ Rename(w)
    \/ UndoTmp(w) \/ UndoRow(w) \/ TraceLink(w)
    \/ (\E p \in Pages : Stage(w, p) \/ Publish(w, p))
    \/ Unlink(w) \/ DeleteRows(w) \/ TraceUnpromote(w)
    \/ (\E p \in Pages : Visit(w, p)) \/ Move(w) \/ Sweep(w) \/ Report(w)

Start(w) ==
    \/ \E p \in Pages : StartPromote(w, p) \/ StartCompile(w, p) \/ StartUnpromote(w, p)
    \/ \E pages \in SUBSET Pages : StartLink(w, pages)
    \/ StartReconcile(w)

Next ==
    \/ \E w \in Procs : Start(w) \/ WriterStep(w) \/ PromotionFails(w) \/ SkipUndo(w) \/ Stop(w)
    \/ \E w \in Procs, p \in Pages : Overlook(w, p)
    \/ \E p \in Pages : Age(p) \/ HandCopy(p)

Spec == Init /\ [][Next]_vars

-----------------------------------------------------------------------------
(* Properties *)

(* The variables keep their types. *)
TypeOK ==
    /\ page \in [Pages -> Content \cup {None}]
    /\ tmp \in [Pages -> Content \cup {None}]
    /\ old \subseteq Pages
    /\ compilations \subseteq [id : RowId, path : Pages, content : Content]
    /\ promotions \subseteq [path : Pages, content : Content]
    /\ trace \subseteq Operation \X Pages \X Content
    /\ quarantine \subseteq Pages \X Content
    /\ proc \in [Procs -> Process]
    /\ produced \in Nat
    /\ faults \in Nat

(* What holds of the code: a visible page without a row was put there by   *)
(* hand, or a page of the same title in another directory took its row.    *)
VisibleIsAccountedFor ==
    \A p \in Pages \ HandMade :
        page[p] # None => p \in Receipted \/ Displaced(p)

(* What is visible was traced, content by content, before it was renamed   *)
(* into place: a page is never what another operation left in <page>.tmp.  *)
ContentIsTraced ==
    \A p \in Pages \ HandMade :
        page[p] # None =>
            \E op \in {"compile", "promote", "link"} : <<op, p, page[p]>> \in trace
=============================================================================
