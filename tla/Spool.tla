------------------------------- MODULE Spool -------------------------------
(***************************************************************************)
(* `ico spool emit` (packages/cli/src/commands/spool.ts, kernel/spool.ts): *)
(* processes that hand the pages of one workspace to INTKB as JSONL files, *)
(* each beside a manifest, in a directory INTKB polls.  Nothing serialises *)
(* the emitters; pages come, change and are put there by hand while they   *)
(* run, and any step may fail or be the last one of its process.           *)
(*                                                                         *)
(* A page is its type, the class of its size and its body.  A file is the  *)
(* number of the emission that made it (capturedAt makes each file's text  *)
(* its own), its lines, and whether all of its text is there.              *)
(* Reconciliation is in Receipts in detail; here it is what the emitter    *)
(* relies on: the receipts are loaded, then each directory is listed and   *)
(* its pages are moved one at a time.                                      *)
(***************************************************************************)
EXTENDS Integers, FiniteSets

CONSTANTS
    Emitters,      \* processes that may run `ico spool emit`
    WikiPaths,     \* paths below wiki/
    OutputPaths,   \* paths below outputs/reports and outputs/slides
    Contents,      \* contents a page may have
    Invocations,   \* command lines given
    ConfigTenant,  \* spool.tenantId of .ico/config.json, or None
    MaxSecond,     \* bound: seconds that pass
    MaxEmissions,  \* bound: commands
    MaxEdits,      \* bound: changes of pages
    MaxFaults,     \* bound: steps that fail or are the last
    None

Paths == WikiPaths \cup OutputPaths
Types == {"source-summary", "concept", "topic", "entity", "contradiction",
          "open-question", "semantic-index"}
Dirs == {"teamkb", "workspace"}   \* where --out may lead
Names == Dirs \X (0..MaxSecond)

ASSUME SpoolAssumption ==
    /\ WikiPaths \cap OutputPaths = {} /\ None \notin Contents /\ None \notin Types \cup Dirs
    /\ MaxSecond \in Nat
    /\ \A c \in Contents : c.size \in {"empty", "fits", "large"} /\ c.body # None
    /\ \A i \in Invocations :
          /\ i.scope \in {"wiki", "outputs", "all", "other"}
          /\ i.out \in Dirs \cup {None, "outside", "foreign"}
          /\ i.bulk \in BOOLEAN /\ i.dry \in BOOLEAN /\ i.reconcile \in BOOLEAN

VARIABLES
    second,     \* the clock, at the resolution of a spool file's name
    page,       \* content of the visible page at each path, or None
    rows,       \* paths with a compilations or promotions row
    em,         \* the command each emitter runs
    files,      \* spool files
    manifests,  \* their manifests: the file the manifest describes
    tmps,       \* .tmp files of either: <<kind, name>> to content
    started,    \* spool.emit.start traces
    completed,  \* spool.emit.complete traces: file name and what it held
    inbox,      \* candidates INTKB has taken
    ever,       \* history: all contents a spool file name ever had
    emissions, edits, faults

vars == <<second, page, rows, em, files, manifests, tmps, started, completed,
          inbox, ever, emissions, edits, faults>>
corpus == <<page, rows>>
handoff == <<files, manifests, tmps, ever>>
receipts == <<started, completed>>
counts == <<emissions, edits, faults>>

Idle == [step |-> "idle", n |-> 0, inv |-> None, tenant |-> None, out |-> None,
         receipted |-> {}, left |-> {}, todo |-> {}, gated |-> {}, missed |-> {},
         found |-> {}, name |-> None, lines |-> {}]

TypeOK ==
    /\ second \in 0..MaxSecond
    /\ page \in [Paths -> Contents \cup {None}] /\ rows \subseteq WikiPaths
    /\ \A e \in Emitters :
          /\ em[e].step \in {"idle", "scan", "walk", "quarantine", "wiki", "outputs",
                             "start", "open", "rename", "describe", "publish", "complete"}
          /\ em[e].step # "idle" => em[e].tenant # None /\ em[e].out \in Dirs
          /\ em[e].gated \subseteq WikiPaths /\ em[e].missed \subseteq WikiPaths
    /\ \A f \in DOMAIN files : f \in Names
    /\ \A f \in DOMAIN manifests : f \in Names
    /\ \A c \in inbox : c.path \in Paths /\ c.body # None

Init ==
    /\ second = 0
    /\ page = [p \in Paths |-> None] /\ rows = {}
    /\ em = [e \in Emitters |-> Idle]
    /\ files = <<>> /\ manifests = <<>> /\ tmps = <<>>
    /\ started = {} /\ completed = {} /\ inbox = {}
    /\ ever = [f \in Names |-> {}]
    /\ emissions = 0 /\ edits = 0 /\ faults = 0

-----------------------------------------------------------------------------
(* The command line *)

Tenant(inv) == IF inv.tenant # None THEN inv.tenant ELSE ConfigTenant

\* The default is the directory INTKB polls, not <workspace>/spool.
OutDir(inv) == IF inv.out = None THEN "teamkb" ELSE inv.out

\* Slip: any directory will do.
SlipValid(inv) == inv.scope # "other" /\ Tenant(inv) # None

\* Exit 2 without a scope or a tenant; exit 1 unless the directory is below the
\* workspace or the TeamKB base, and reached through no one else's link.
Valid(inv) ==
    inv.scope # "other" /\ Tenant(inv) # None /\ OutDir(inv) \in Dirs

Refuse(e) ==
    /\ em[e].step = "idle" /\ emissions < MaxEmissions
    /\ \E inv \in Invocations : ~Valid(inv)
    /\ emissions' = emissions + 1
    /\ UNCHANGED <<second, corpus, em, handoff, receipts, inbox, edits, faults>>

\* A dry run writes nothing, opens no database and does not reconcile.
DryRun(e) ==
    /\ em[e].step = "idle" /\ emissions < MaxEmissions
    /\ \E inv \in Invocations : Valid(inv) /\ inv.dry
    /\ emissions' = emissions + 1
    /\ UNCHANGED <<second, corpus, em, handoff, receipts, inbox, edits, faults>>

Become(e, changed) == em' = [em EXCEPT ![e] = changed]

\* Each command is a new process; which free name it has in the model is all one.
Free == CHOOSE e \in Emitters : em[e].step = "idle"

Invoke(e) ==
    /\ em[e].step = "idle" /\ e = Free /\ emissions < MaxEmissions
    /\ \E inv \in Invocations :
          /\ Valid(inv) /\ ~inv.dry
          /\ Become(e, [Idle EXCEPT !.step = IF inv.reconcile THEN "scan" ELSE "wiki",
                                    !.n = emissions + 1, !.inv = inv,
                                    !.tenant = Tenant(inv), !.out = OutDir(inv)])
    /\ emissions' = emissions + 1
    /\ UNCHANGED <<second, corpus, handoff, receipts, inbox, edits, faults>>

-----------------------------------------------------------------------------
(* Reconciliation, then discovery *)

Onward(left, todo) == IF todo # {} THEN "quarantine" ELSE IF left # {} THEN "walk" ELSE "wiki"

\* The receipts are loaded once; what gets one later counts as without.
LoadReceipts(e) ==
    /\ em[e].step = "scan"
    /\ Become(e, [em[e] EXCEPT !.receipted = rows, !.left = WikiPaths,
                               !.step = Onward(WikiPaths, {})])
    /\ UNCHANGED <<second, corpus, handoff, receipts, inbox, counts>>

\* One directory is listed.  A directory or an entry that cannot be read is
\* skipped, and the reconciliation succeeds all the same.  `gated` and `missed`
\* are history: the pages found bare, and those of them that were skipped.
ListPages(e) ==
    /\ em[e].step = "walk"
    /\ \E dir \in SUBSET em[e].left \ {{}} :
       LET bare == {p \in dir : page[p] # None /\ p \notin em[e].receipted}
       IN  \E unread \in SUBSET bare :
              /\ unread # {} => faults < MaxFaults
              /\ faults' = IF unread = {} THEN faults ELSE faults + 1
              /\ Become(e, [em[e] EXCEPT !.left = @ \ dir, !.todo = bare \ unread,
                             !.gated = @ \cup bare, !.missed = @ \cup unread,
                             !.step = Onward(em[e].left \ dir, bare \ unread)])
    /\ UNCHANGED <<second, corpus, handoff, receipts, inbox, emissions, edits>>

\* Slip: a page that cannot be moved does not stop the emission.
SlipQuarantine(e) ==
    /\ em[e].step = "quarantine"
    /\ \E p \in em[e].todo :
          \/ /\ page' = [page EXCEPT ![p] = None]
             /\ Become(e, [em[e] EXCEPT !.todo = @ \ {p}, !.step = Onward(em[e].left, em[e].todo \ {p})])
             /\ UNCHANGED faults
          \/ /\ faults < MaxFaults /\ faults' = faults + 1
             /\ Become(e, [em[e] EXCEPT !.todo = @ \ {p}, !.step = Onward(em[e].left, em[e].todo \ {p})])
             /\ UNCHANGED page
    /\ UNCHANGED <<second, rows, handoff, receipts, inbox, emissions, edits>>

\* A page another process has moved meanwhile cannot be moved: that ends it.
Quarantine(e) ==
    /\ em[e].step = "quarantine"
    /\ \E p \in em[e].todo :
          \/ /\ page[p] # None
             /\ page' = [page EXCEPT ![p] = None]
             /\ Become(e, [em[e] EXCEPT !.todo = @ \ {p}, !.step = Onward(em[e].left, em[e].todo \ {p})])
          \/ /\ page[p] = None
             /\ Become(e, Idle)
             /\ UNCHANGED page
    /\ UNCHANGED <<second, rows, handoff, receipts, inbox, counts>>

Read(paths) == {<<p, page[p]>> : p \in {q \in paths : page[q] # None}}

\* Files that cannot be read are passed over without a word.
Discover(e, step, paths, scopes, next) ==
    /\ em[e].step = step
    /\ \E lost \in SUBSET (IF em[e].inv.scope \in scopes THEN Read(paths) ELSE {}) :
          /\ faults + Cardinality(lost) <= MaxFaults
          /\ faults' = faults + Cardinality(lost)
          /\ Become(e, [em[e] EXCEPT !.step = next,
                             !.found = IF em[e].inv.scope \in scopes
                                       THEN em[e].found \cup (Read(paths) \ lost) ELSE em[e].found])
    /\ UNCHANGED <<second, corpus, handoff, receipts, inbox, emissions, edits>>

DiscoverWiki(e) == Discover(e, "wiki", WikiPaths, {"wiki", "all"}, "outputs")
DiscoverOutputs(e) == Discover(e, "outputs", OutputPaths, {"outputs", "all"}, "start")

-----------------------------------------------------------------------------
(* Candidates *)

\* Reports and slides are topics, whatever they say of themselves.
TypeOf(p, c) == IF p \in OutputPaths THEN "topic"
                ELSE IF c.type \in Types THEN c.type ELSE None

Skipped(p, c) ==
    \/ TypeOf(p, c) = None             \* MISSING_TYPE
    \/ TypeOf(p, c) = "semantic-index" \* SEMANTIC_INDEX_SKIPPED
    \/ c.size = "empty"                \* EMPTY_CONTENT
    \/ c.size = "large"                \* CONTENT_TOO_LARGE: refused, not cut

\* Slip: the id is that of the page, not of what it says.
SlipId(p, c) == <<p, None>>
\* uuid5 of workspace, path and body: neither type nor tenant nor trust is in it.
Id(p, c) == <<p, c.body>>

\* What survives the steps above always satisfies the schema: INVALID_CANDIDATE
\* is never given.
Candidate(p, c, tenant, inv) ==
    [id |-> Id(p, c), path |-> p, body |-> c.body, tenant |-> tenant,
     trust |-> IF inv.bulk THEN "untrusted" ELSE "medium"]

Candidates(e) == {Candidate(f[1], f[2], em[e].tenant, em[e].inv) :
                     f \in {g \in em[e].found : ~Skipped(g[1], g[2])}}

\* The start trace; the name of the file is the time the candidates are ready.
Start(e) ==
    /\ em[e].step = "start"
    /\ started' = started \cup {em[e].n}
    /\ Become(e, [em[e] EXCEPT !.step = "open", !.name = <<em[e].out, second>>,
                               !.lines = Candidates(e), !.receipted = {}, !.found = {}, !.inv = None])
    /\ UNCHANGED <<second, corpus, handoff, completed, inbox, counts>>

-----------------------------------------------------------------------------
(* Spool file and manifest *)

Content(e) == [n |-> em[e].n, lines |-> em[e].lines, whole |-> TRUE]
Put(f, k, v) == [x \in DOMAIN f \cup {k} |-> IF x = k THEN v ELSE f[x]]
Drop(f, k) == [x \in DOMAIN f \ {k} |-> f[x]]

\* Nobody looks at the count that writeSync returns: a short write loses the end.
\* No manifest is empty, and a cut one describes nothing.
Cut(e, kind) ==
    {[n |-> em[e].n, lines |-> kept, whole |-> FALSE] :
        kept \in IF kind = "manifest" THEN {{}}
                ELSE IF em[e].lines = {} THEN {} ELSE SUBSET em[e].lines}

Written(e, kind) ==
    \E text \in {Content(e)} \cup Cut(e, kind) :
        /\ ~text.whole => faults < MaxFaults
        /\ faults' = IF text.whole THEN faults ELSE faults + 1
        /\ tmps' = Put(tmps, <<kind, em[e].name>>, text)

\* Slip: the file is opened for writing whether it is there or not.
SlipOpened(e, kind, next) ==
    /\ Written(e, kind)
    /\ Become(e, [em[e] EXCEPT !.step = next])

\* O_EXCL: what an emission of this second has open, or has left, is in the way.
Opened(e, kind, next) ==
    LET t == <<kind, em[e].name>>
    IN  \/ /\ t \notin DOMAIN tmps
           /\ Written(e, kind)
           /\ Become(e, [em[e] EXCEPT !.step = next])
        \/ /\ t \in DOMAIN tmps
           /\ Become(e, Idle)
           /\ UNCHANGED <<tmps, faults>>

WriteSpool(e) ==
    /\ em[e].step = "open" /\ Opened(e, "spool", "rename")
    /\ UNCHANGED <<second, corpus, files, manifests, ever, receipts, inbox, emissions, edits>>

\* rename() replaces what an earlier emission of this second has put there.
RenameSpool(e) ==
    /\ em[e].step = "rename"
    /\ LET t == <<"spool", em[e].name>>
       IN  IF t \in DOMAIN tmps
           THEN /\ files' = Put(files, em[e].name, tmps[t])
                /\ ever' = [ever EXCEPT ![em[e].name] = @ \cup {tmps[t]}]
                /\ tmps' = Drop(tmps, t)
                /\ Become(e, [em[e] EXCEPT !.step = "describe"])
           ELSE Become(e, Idle) /\ UNCHANGED <<files, tmps, ever>>
    /\ UNCHANGED <<second, corpus, manifests, receipts, inbox, counts>>

\* The digest is that of the text meant for the spool file, not of the file.
WriteManifest(e) ==
    /\ em[e].step = "describe" /\ Opened(e, "manifest", "publish")
    /\ UNCHANGED <<second, corpus, files, manifests, ever, receipts, inbox, emissions, edits>>

RenameManifest(e) ==
    /\ em[e].step = "publish"
    /\ LET t == <<"manifest", em[e].name>>
       IN  IF t \in DOMAIN tmps
           THEN /\ manifests' = Put(manifests, em[e].name, tmps[t])
                /\ tmps' = Drop(tmps, t)
                /\ Become(e, [em[e] EXCEPT !.step = "complete"])
           ELSE Become(e, Idle) /\ UNCHANGED <<manifests, tmps>>
    /\ UNCHANGED <<second, corpus, files, ever, receipts, inbox, counts>>

Complete(e) ==
    /\ em[e].step = "complete"
    /\ completed' = completed \cup {[name |-> em[e].name, held |-> Content(e)]}
    /\ Become(e, Idle)
    /\ UNCHANGED <<second, corpus, handoff, started, inbox, counts>>

\* A step fails (exit 1, 4 or 5), or the process dies: what it has put there
\* stays, .tmp files too.
Stops(e) ==
    /\ em[e].step # "idle" /\ faults < MaxFaults
    /\ Become(e, Idle)
    /\ faults' = faults + 1
    /\ UNCHANGED <<second, corpus, handoff, receipts, inbox, emissions, edits>>

-----------------------------------------------------------------------------
(* Around the emitters *)

Arrives(p, c) ==
    /\ edits < MaxEdits /\ page[p] # c
    /\ page' = [page EXCEPT ![p] = c]
    /\ em' = [e \in Emitters |-> [em[e] EXCEPT !.gated = @ \ {p}]]
    /\ edits' = edits + 1
    /\ UNCHANGED <<second, handoff, receipts, inbox, emissions, faults>>

\* A pass, a render or a promotion puts a page there: see Passes and Receipts.
Compiled(p, c) == Arrives(p, c) /\ rows' = rows \cup ({p} \cap WikiPaths)

\* A page gets there without a receipt.
Placed(p, c) == p \in WikiPaths \ rows /\ Arrives(p, c) /\ UNCHANGED rows

\* Only Start reads the clock: what passes before is let pass there.
Tick ==
    /\ second < MaxSecond /\ second' = second + 1
    /\ \E e \in Emitters : em[e].step = "start"
    /\ UNCHANGED <<corpus, em, handoff, receipts, inbox, counts>>

\* INTKB refuses a file its manifest does not describe; it takes one without a
\* manifest.  A line whose id it has is passed over.
Poll(f) ==
    /\ f \in DOMAIN files /\ f[1] = "teamkb"
    /\ f \in DOMAIN manifests => files[f].whole /\ manifests[f] = files[f]
    /\ inbox' = inbox \cup {l \in files[f].lines : \A c \in inbox : c.id # l.id}
    /\ inbox' # inbox
    /\ UNCHANGED <<second, corpus, em, handoff, receipts, counts>>

Steps(e) ==
    \/ LoadReceipts(e) \/ ListPages(e) \/ Quarantine(e)
    \/ DiscoverWiki(e) \/ DiscoverOutputs(e) \/ Start(e) \/ WriteSpool(e) \/ RenameSpool(e) \/ WriteManifest(e)
    \/ RenameManifest(e) \/ Complete(e)

Next ==
    \/ \E e \in Emitters : Refuse(e) \/ DryRun(e) \/ Invoke(e) \/ Steps(e) \/ Stops(e)
    \/ \E p \in Paths, c \in Contents : Compiled(p, c) \/ Placed(p, c)
    \/ \E f \in Names : Poll(f)
    \/ Tick

Spec == Init /\ [][Next]_vars
\* INTKB goes on polling; nobody has to emit.
FairSpec == Spec /\ \A f \in Names : WF_vars(Poll(f))

-----------------------------------------------------------------------------
(* Properties *)

\* A file its emission wrote: the text, or what a short write has left of it.
Copy(f, text) == f.n = text.n /\ (f.whole => f = text)

\* A spool.emit.complete trace tells of a file of its own emission that was there
\* under its name, whatever other emitters wrote in the same second; and unless a
\* write was cut short, with exactly those lines (the sha256 of Stage E in spool.ts).
CompletedWasThere == \A c \in completed : \E f \in ever[c.name] : Copy(f, c.held)

\* What a page says leaves only if the page had a receipt when the emission loaded
\* them, or arrived after the walk had listed its directory, or could not be read
\* by the walk (the receipt gate of runSpoolEmit), however many emitters move
\* pages and whether or not the reconciliation went well.
OnlyReceiptedLeaves ==
    \A e \in Emitters : \A l \in em[e].lines :
        l.path \in em[e].gated => l.path \in em[e].missed

\* Two emissions wrote under one name; a write of the emission was cut short.
Shared(name) == Cardinality({f.n : f \in ever[name]}) > 1
Short(name) == \/ \E f \in ever[name] : ~f.whole
               \/ name \in DOMAIN manifests /\ ~manifests[name].whole

\* What was put under a name of its own reaches INTKB with the bodies it had,
\* though the emission died before the manifest or the trace, an earlier one sent
\* the same page, or INTKB read the file before its manifest; a short write apart.
EmittedIsHeld ==
    \A name \in {n \in Names : n[1] = "teamkb"} :
        ever[name] # {}
            ~> \/ Shared(name) \/ Short(name)
               \/ \A f \in ever[name] : \A l \in f.lines :
                     \E k \in inbox : k.path = l.path /\ k.body = l.body

=============================================================================
