---------------------------- MODULE SpoolProofs ----------------------------
(***************************************************************************)
(* For any number of emitters, pages, commands, seconds, edits and faults: *)
(* the types of Spool, the receipt gate, and that a completed emission was *)
(* there under its name.                                                   *)
(*                                                                         *)
(* None of the three is inductive.  Typed says what a record of `em` and a *)
(* file hold.  Gate says that a page found without a receipt is gone, is   *)
(* still to be moved or was skipped.  Handoff says whose the .tmp of a name is: O_EXCL    *)
(* keeps two emitters of one second from both standing before the rename,  *)
(* so that each renames what it has written itself.                        *)
(***************************************************************************)
EXTENDS Spool, TLAPS

Bodies == {c.body : c \in Contents}
Tenants == {i.tenant : i \in Invocations} \cup {ConfigTenant, None}
Lines == [id : Paths \X Bodies, path : Paths, body : Bodies, tenant : Tenants,
          trust : {"untrusted", "medium"}]
Files == [n : Nat, lines : SUBSET Lines, whole : BOOLEAN]
Command ==
    [step : {"idle", "scan", "walk", "quarantine", "wiki", "outputs", "start", "open",
             "rename", "describe", "publish", "complete"},
     n : Nat, inv : Invocations \cup {None}, tenant : Tenants, out : Dirs \cup {None},
     receipted : SUBSET WikiPaths, left : SUBSET WikiPaths, todo : SUBSET WikiPaths,
     gated : SUBSET WikiPaths, missed : SUBSET WikiPaths, found : SUBSET (Paths \X Contents),
     name : Names \cup {None}, lines : SUBSET Lines]

Named == {"open", "rename", "describe", "publish", "complete"}

Typed ==
    /\ second \in 0..MaxSecond
    /\ page \in [Paths -> Contents \cup {None}] /\ rows \subseteq WikiPaths
    /\ em \in [Emitters -> Command]
    /\ \A e \in Emitters : em[e].step # "idle" => em[e].tenant # None /\ em[e].out \in Dirs
    /\ \A e \in Emitters : em[e].step \in Named => em[e].name \in Names
    /\ DOMAIN files \subseteq Names /\ DOMAIN manifests \subseteq Names
    /\ \A f \in DOMAIN files : files[f] \in Files
    /\ \A t \in DOMAIN tmps : tmps[t] \in Files
    /\ ever \in [Names -> SUBSET Files]
    /\ inbox \subseteq Lines
    /\ emissions \in Nat

\* A page found without a receipt is gone, is still to be moved or was skipped; only
\* one that was skipped is in what the emission has found or in what it writes.
Early == {"idle", "scan", "walk", "quarantine"}
Gated(r, pages) ==
    /\ r.step \in Early => r.found = {} /\ r.lines = {}
    /\ r.step \in {"idle", "scan"} => r.gated = {}
    /\ \A f \in r.found : f[1] \in r.gated => f[1] \in r.missed
    /\ \A l \in r.lines : l.path \in r.gated => l.path \in r.missed
    /\ \A p \in r.gated : \/ pages[p] = None \/ p \in r.missed
                          \/ p \in r.todo /\ r.step = "quarantine"
Gate == \A e \in Emitters : Gated(em[e], page)

\* A .tmp file is that of the one emission that is to rename it, and what an
\* emission has renamed was there.
Spooled == {"describe", "publish", "complete"}
Owns(e) == /\ <<"spool", em[e].name>> \in DOMAIN tmps
           /\ Copy(tmps[<<"spool", em[e].name>>], Content(e))
Handoff ==
    /\ \A e \in Emitters : em[e].step = "rename" => Owns(e)
    /\ \A e, d \in Emitters :
          em[e].step = "rename" /\ em[d].step = "rename" /\ em[e].name = em[d].name => e = d
    /\ \A e \in Emitters : em[e].step \in Spooled =>
          \E f \in ever[em[e].name] : Copy(f, Content(e))
    /\ \A c \in completed : c.name \in Names /\ \E f \in ever[c.name] : Copy(f, c.held)

-----------------------------------------------------------------------------
(* Types *)

Fit(r) == /\ r \in Command
          /\ r.step # "idle" => r.tenant # None /\ r.out \in Dirs
          /\ r.step \in Named => r.name \in Names

\* What Typed says of the commands, and of the rest.
Fitting == em \in [Emitters -> Command] /\ \A e \in Emitters : Fit(em[e])

LEMMA TypedFits == Typed => Fitting
BY DEF Typed, Fitting, Fit

LEMMA IdleFits == Fit(Idle)
<1>1. Idle \in Command
  BY DEF Idle, Command, Tenants
<1> QED  BY <1>1 DEF Fit, Idle, Named

\* A step of one command.
LEMMA CommandStep ==
  ASSUME Fitting, NEW e \in Emitters, NEW r, Fit(r), Become(e, r)
  PROVE  /\ Fitting'
         /\ em'[e] = r /\ \A d \in Emitters : d # e => em'[d] = em[d]
BY DEF Fitting, Become, Fit

\* Only the step changes.
LEMMA NextStep ==
  ASSUME Fitting, NEW e \in Emitters, em[e].step # "idle",
         NEW s \in {"wiki", "outputs", "start", "open", "rename", "describe", "publish", "complete"},
         s \in Named => em[e].name \in Names
  PROVE  LET r == [em[e] EXCEPT !.step = s]
         IN  /\ Fit(r) /\ r.step = s /\ r.n = em[e].n /\ r.name = em[e].name
             /\ r.todo = em[e].todo /\ r.gated = em[e].gated /\ r.missed = em[e].missed
             /\ r.found = em[e].found /\ r.lines = em[e].lines
<1>1. em[e] \in Command /\ Fit(em[e])
  BY DEF Fitting
<1> QED  BY <1>1 DEF Fit, Command

LEMMA InitTyped == Init => Typed
<1> SUFFICES ASSUME Init PROVE Typed
  OBVIOUS
<1>1. em \in [Emitters -> Command] /\ \A e \in Emitters : em[e] = Idle
  BY IdleFits DEF Init, Fit
<1>2. \A e \in Emitters : em[e].step = "idle"
  BY <1>1 DEF Idle
<1> QED  BY <1>1, <1>2, SpoolAssumption DEF Init, Typed, Named

\* The commands change, the directory does not.
LEMMA TypedElsewhere ==
  ASSUME Typed, Fitting', second' \in 0..MaxSecond, page' \in [Paths -> Contents \cup {None}],
         rows' \subseteq WikiPaths, emissions' \in Nat,
         UNCHANGED <<files, manifests, tmps, ever, inbox>>
  PROVE  Typed'
BY DEF Typed, Fitting, Fit

LEMMA InvokeTyped ==
  ASSUME Typed, NEW e \in Emitters, Invoke(e)
  PROVE  Typed'
<1>1. PICK inv \in Invocations : /\ Valid(inv)
                                 /\ Become(e, [Idle EXCEPT !.step = IF inv.reconcile THEN "scan" ELSE "wiki",
                                          !.n = emissions + 1, !.inv = inv,
                                          !.tenant = Tenant(inv), !.out = OutDir(inv)])
  BY DEF Invoke
<1> DEFINE first == IF inv.reconcile THEN "scan" ELSE "wiki"
           tenant == Tenant(inv)
           out == OutDir(inv)
           n == emissions + 1
           r == [Idle EXCEPT !.step = first, !.n = n, !.inv = inv, !.tenant = tenant, !.out = out]
<1>2. tenant \in Tenants /\ tenant # None /\ out \in Dirs /\ first \in {"scan", "wiki"}
  BY <1>1 DEF Tenant, Tenants, Valid
<1>3. n \in Nat
  BY DEF Typed
<1>4. Become(e, r)
  BY <1>1
<1> HIDE DEF first, tenant, out, n
<1>5. Idle \in Command
  BY IdleFits DEF Fit
<1>6. r \in Command /\ r.step = first /\ r.tenant = tenant /\ r.out = out
  BY <1>2, <1>3, <1>5 DEF Command
<1>7. Fit(r)
  BY <1>2, <1>6 DEF Fit, Named
<1> HIDE DEF r
<1>8. Fitting'
  BY <1>4, <1>7, TypedFits, CommandStep
<1>9. emissions' \in Nat
  BY DEF Invoke, Typed
<1> QED  BY <1>8, <1>9, TypedElsewhere DEF Invoke, Typed, handoff, corpus, receipts

LEMMA LoadReceiptsTyped ==
  ASSUME Typed, NEW e \in Emitters, LoadReceipts(e)
  PROVE  Typed'
<1> DEFINE step == Onward(WikiPaths, {})
           r == [em[e] EXCEPT !.receipted = rows, !.left = WikiPaths, !.step = step]
<1>1. Become(e, r) /\ em[e].step = "scan" /\ rows \subseteq WikiPaths
  BY DEF LoadReceipts, Typed
<1>2. em[e] \in Command /\ Fit(em[e])
  BY TypedFits DEF Fitting
<1>3. step \in {"wiki", "walk"}
  BY DEF Onward
<1> HIDE DEF step
<1>4. r \in Command /\ r.step = step /\ r.tenant = em[e].tenant /\ r.out = em[e].out
  BY <1>1, <1>2, <1>3 DEF Command
<1>5. Fit(r)
  BY <1>1, <1>2, <1>3, <1>4 DEF Fit, Named
<1> HIDE DEF r
<1>6. Fitting'
  BY <1>1, <1>5, TypedFits, CommandStep
<1> QED  BY <1>6, TypedElsewhere DEF LoadReceipts, Typed, handoff, corpus, receipts, counts

\* What the walk of one directory makes of the command.
Lists(e, r) ==
    /\ Become(e, r) /\ em[e].step = "walk"
    /\ r \in Command /\ r.step \in {"walk", "quarantine", "wiki"}
    /\ r.tenant = em[e].tenant /\ r.out = em[e].out
    /\ r.found = em[e].found /\ r.lines = em[e].lines
    /\ \A p \in r.gated : \/ p \in em[e].gated \/ p \in r.missed
                          \/ p \in r.todo /\ r.step = "quarantine"
    /\ em[e].missed \subseteq r.missed

LEMMA ListPagesIs ==
  ASSUME Typed, NEW e \in Emitters, ListPages(e)
  PROVE  \E r : Lists(e, r)
<1>1. em[e] \in Command /\ em[e].step = "walk"
  BY DEF Typed, ListPages
<1>2. PICK dir \in SUBSET em[e].left \ {{}} :
          LET bare == {p \in dir : page[p] # None /\ p \notin em[e].receipted}
          IN  \E unread \in SUBSET bare :
                Become(e, [em[e] EXCEPT !.left = @ \ dir, !.todo = bare \ unread,
                               !.gated = @ \cup bare, !.missed = @ \cup unread,
                               !.step = Onward(em[e].left \ dir, bare \ unread)])
  BY DEF ListPages
<1> DEFINE bare == {p \in dir : page[p] # None /\ p \notin em[e].receipted}
<1>3. PICK unread \in SUBSET bare :
                Become(e, [em[e] EXCEPT !.left = @ \ dir, !.todo = bare \ unread,
                               !.gated = @ \cup bare, !.missed = @ \cup unread,
                               !.step = Onward(em[e].left \ dir, bare \ unread)])
  BY <1>2
<1> DEFINE left == em[e].left \ dir
           todo == bare \ unread
           gated == em[e].gated \cup bare
           missed == em[e].missed \cup unread
           step == Onward(left, todo)
           r == [em[e] EXCEPT !.left = left, !.todo = todo, !.gated = gated,
                              !.missed = missed, !.step = step]
<1>4. Become(e, r)
  BY <1>3
<1>5. step \in {"walk", "quarantine", "wiki"} /\ (todo # {} => step = "quarantine")
  BY DEF Onward
<1>6. bare \subseteq WikiPaths
  BY <1>1, <1>2 DEF Command
<1>7. left \in SUBSET WikiPaths /\ todo \in SUBSET WikiPaths
      /\ gated \in SUBSET WikiPaths /\ missed \in SUBSET WikiPaths
  BY <1>1, <1>3, <1>6 DEF Command
<1>8. \A p \in gated : p \in em[e].gated \/ p \in missed \/ (p \in todo /\ step = "quarantine")
  BY <1>5
<1>9. em[e].missed \subseteq missed
  OBVIOUS
<1> HIDE DEF bare, left, todo, gated, missed, step
<1>10. /\ r \in Command /\ r.step = step /\ r.todo = todo /\ r.gated = gated
       /\ r.missed = missed /\ r.found = em[e].found /\ r.lines = em[e].lines
       /\ r.tenant = em[e].tenant /\ r.out = em[e].out
  BY <1>1, <1>5, <1>7 DEF Command
<1> HIDE DEF r
<1>11. Lists(e, r)
  BY <1>1, <1>4, <1>5, <1>8, <1>9, <1>10 DEF Lists
<1> QED  BY <1>11

LEMMA ListPagesTyped ==
  ASSUME Typed, NEW e \in Emitters, ListPages(e)
  PROVE  Typed'
<1>1. PICK r : Lists(e, r)
  BY ListPagesIs
<1>2. Fit(em[e])
  BY TypedFits DEF Fitting
<1>3. Fit(r) /\ Become(e, r)
  BY <1>1, <1>2 DEF Lists, Fit, Named
<1>4. Fitting'
  BY <1>3, TypedFits, CommandStep
<1> QED  BY <1>4, TypedElsewhere DEF ListPages, Typed, handoff, corpus, receipts

LEMMA StopTyped ==
  ASSUME Typed, NEW e \in Emitters, Become(e, Idle), UNCHANGED <<second, corpus, handoff, inbox, emissions>>
  PROVE  Typed'
<1>1. Fitting'
  BY IdleFits, TypedFits, CommandStep
<1> QED  BY <1>1, TypedElsewhere DEF Typed, handoff, corpus

LEMMA QuarantineTyped ==
  ASSUME Typed, NEW e \in Emitters, Quarantine(e)
  PROVE  Typed'
<1>1. PICK p \in em[e].todo :
          \/ /\ page' = [page EXCEPT ![p] = None]
             /\ Become(e, [em[e] EXCEPT !.todo = @ \ {p}, !.step = Onward(em[e].left, em[e].todo \ {p})])
          \/ Become(e, Idle) /\ UNCHANGED page
  BY DEF Quarantine
<1>2. em[e] \in Command /\ Fit(em[e]) /\ em[e].step = "quarantine"
  BY TypedFits DEF Fitting, Quarantine
<1>3. UNCHANGED <<second, rows, handoff, receipts, inbox, counts>>
  BY DEF Quarantine
<1>4. CASE Become(e, Idle) /\ UNCHANGED page
  BY <1>3, <1>4, StopTyped DEF corpus, counts
<1>5. CASE /\ page' = [page EXCEPT ![p] = None]
           /\ Become(e, [em[e] EXCEPT !.todo = @ \ {p}, !.step = Onward(em[e].left, em[e].todo \ {p})])
  <2> DEFINE left == em[e].todo \ {p}
             step == Onward(em[e].left, left)
             r == [em[e] EXCEPT !.todo = left, !.step = step]
  <2>1. left \in SUBSET WikiPaths /\ step \in {"wiki", "walk", "quarantine"}
    BY <1>2 DEF Onward, Command
  <2>2. Become(e, r)
    BY <1>5
  <2> HIDE DEF left, step
  <2>3. r \in Command
    BY <1>2, <2>1 DEF Command
  <2>4. r.step = step /\ r.tenant = em[e].tenant /\ r.out = em[e].out
    BY <1>2 DEF Command
  <2>5. Fit(r)
    BY <1>2, <2>1, <2>3, <2>4 DEF Fit, Named
  <2> HIDE DEF r
  <2>6. Fitting'
    BY <2>2, <2>5, TypedFits, CommandStep
  <2>7. page' \in [Paths -> Contents \cup {None}]
    BY <1>5 DEF Typed
  <2> QED  BY <1>3, <2>6, <2>7, TypedElsewhere DEF Typed, handoff, counts
<1> QED  BY <1>1, <1>4, <1>5

LEMMA DiscoverTyped ==
  ASSUME Typed, NEW e \in Emitters, DiscoverWiki(e) \/ DiscoverOutputs(e)
  PROVE  Typed'
<1>1. PICK step \in {"wiki", "outputs"}, paths \in {WikiPaths, OutputPaths},
           scopes \in {{"wiki", "all"}, {"outputs", "all"}}, next \in {"outputs", "start"} :
        Discover(e, step, paths, scopes, next)
  BY DEF DiscoverWiki, DiscoverOutputs
<1>2. PICK lost : Become(e, [em[e] EXCEPT !.step = next,
                             !.found = IF em[e].inv.scope \in scopes
                                       THEN em[e].found \cup (Read(paths) \ lost) ELSE em[e].found])
  BY <1>1 DEF Discover
<1>3. em[e] \in Command /\ Fit(em[e]) /\ em[e].step \in {"wiki", "outputs"}
  BY <1>1, TypedFits DEF Fitting, Discover
<1> DEFINE found == IF em[e].inv.scope \in scopes
                    THEN em[e].found \cup (Read(paths) \ lost) ELSE em[e].found
           r == [em[e] EXCEPT !.step = next, !.found = found]
<1>4. Read(paths) \subseteq Paths \X Contents
  BY DEF Typed, Read, Paths
<1>5. found \in SUBSET (Paths \X Contents)
  BY <1>3, <1>4 DEF Command
<1>6. Become(e, r)
  BY <1>2
<1> HIDE DEF found
<1>7. r \in Command
  BY <1>3, <1>5 DEF Command
<1>8. r.step = next /\ r.tenant = em[e].tenant /\ r.out = em[e].out
  BY <1>3 DEF Command
<1>9. Fit(r)
  BY <1>3, <1>7, <1>8 DEF Fit, Named
<1> HIDE DEF r
<1>10. Fitting'
  BY <1>6, <1>9, TypedFits, CommandStep
<1> QED  BY <1>1, <1>10, TypedElsewhere DEF Discover, Typed, handoff, corpus, receipts

LEMMA CandidatesFit ==
  ASSUME Fitting, NEW e \in Emitters
  PROVE  Candidates(e) \in SUBSET Lines
<1> SUFFICES ASSUME NEW f \in em[e].found PROVE Candidate(f[1], f[2], em[e].tenant, em[e].inv) \in Lines
  BY DEF Candidates
<1>1. f[1] \in Paths /\ f[2] \in Contents /\ em[e].tenant \in Tenants
  BY DEF Fitting, Command
<1>2. f[2].body \in Bodies
  BY <1>1 DEF Bodies
<1> QED  BY <1>1, <1>2 DEF Candidate, Id, Lines

LEMMA StartTyped ==
  ASSUME Typed, NEW e \in Emitters, Start(e)
  PROVE  Typed'
<1> DEFINE name == <<em[e].out, second>>
           lines == Candidates(e)
           r == [em[e] EXCEPT !.step = "open", !.name = name, !.lines = lines,
                              !.receipted = {}, !.found = {}, !.inv = None]
<1>1. Become(e, r) /\ em[e].step = "start"
  BY DEF Start
<1>2. em[e] \in Command /\ Fit(em[e])
  BY TypedFits DEF Fitting
<1>3. name \in Names
  BY <1>1, <1>2 DEF Fit, Names, Typed
<1>4. lines \in SUBSET Lines
  BY TypedFits, CandidatesFit
<1> HIDE DEF name, lines
<1>5. r \in Command
  BY <1>2, <1>3, <1>4 DEF Command
<1>6. r.step = "open" /\ r.tenant = em[e].tenant /\ r.out = em[e].out /\ r.name = name
  BY <1>2 DEF Command
<1>7. Fit(r)
  BY <1>1, <1>2, <1>3, <1>5, <1>6 DEF Fit, Named
<1> HIDE DEF r
<1>8. Fitting'
  BY <1>1, <1>7, TypedFits, CommandStep
<1> QED  BY <1>8, TypedElsewhere DEF Start, Typed, handoff, corpus, counts

\* What an emitter writes is a file of candidates.
LEMMA ContentFits ==
  ASSUME Fitting, NEW e \in Emitters
  PROVE  Content(e) \in Files
BY DEF Fitting, Command, Content, Files

\* What is written is the text of the emission, or what a short write leaves of it.
LEMMA WrittenIs ==
  ASSUME Fitting, NEW e \in Emitters, NEW kind, Written(e, kind)
  PROVE  \E text \in Files : Copy(text, Content(e)) /\ tmps' = Put(tmps, <<kind, em[e].name>>, text)
<1>1. PICK text \in {Content(e)} \cup Cut(e, kind) : tmps' = Put(tmps, <<kind, em[e].name>>, text)
  BY DEF Written
<1>2. em[e].n \in Nat /\ em[e].lines \in SUBSET Lines
  BY DEF Fitting, Command
<1>3. CASE text = Content(e)
  BY <1>1, <1>3, ContentFits DEF Copy
<1>4. CASE text \in Cut(e, kind)
  <2>1. PICK kept \in SUBSET em[e].lines : text = [n |-> em[e].n, lines |-> kept, whole |-> FALSE]
    BY <1>4 DEF Cut
  <2>2. text \in Files /\ Copy(text, Content(e))
    BY <1>2, <2>1 DEF Files, Copy, Content
  <2> QED  BY <1>1, <2>2
<1> QED  BY <1>1, <1>3, <1>4

LEMMA OpenedTyped ==
  ASSUME Typed, NEW e \in Emitters, NEW kind \in {"spool", "manifest"},
         NEW next \in {"rename", "publish"}, em[e].step \in {"open", "describe"},
         Opened(e, kind, next),
         UNCHANGED <<second, corpus, files, manifests, ever, inbox, emissions>>
  PROVE  Typed'
<1> DEFINE t == <<kind, em[e].name>>
<1>1. em[e].step # "idle" /\ em[e].name \in Names
  BY DEF Typed, Named
<1>2. Fitting'
  <2>1. CASE Become(e, Idle)
    BY <2>1, IdleFits, TypedFits, CommandStep
  <2>2. CASE Become(e, [em[e] EXCEPT !.step = next])
    BY <2>2, <1>1, TypedFits, NextStep, CommandStep
  <2> QED  BY <2>1, <2>2 DEF Opened
<1>3. \A x \in DOMAIN tmps' : tmps'[x] \in Files
  <2>1. CASE UNCHANGED tmps
    BY <2>1 DEF Typed
  <2>2. CASE Written(e, kind)
    <3>1. PICK text \in Files : tmps' = Put(tmps, t, text)
      BY <2>2, TypedFits, WrittenIs
    <3> QED  BY <3>1 DEF Typed, Put
  <2> QED  BY <2>1, <2>2 DEF Opened
<1> QED  BY <1>2, <1>3 DEF Typed, Fitting, Fit, corpus

LEMMA RenameSpoolTyped ==
  ASSUME Typed, NEW e \in Emitters, RenameSpool(e)
  PROVE  Typed'
<1> DEFINE t == <<"spool", em[e].name>>
<1>1. em[e].step = "rename" /\ em[e].name \in Names
  BY DEF Typed, Named, RenameSpool
<1>2. UNCHANGED <<second, corpus, manifests, receipts, inbox, counts>>
  BY DEF RenameSpool
<1>3. CASE Become(e, Idle) /\ UNCHANGED <<files, tmps, ever>>
  BY <1>2, <1>3, StopTyped DEF handoff, counts
<1>4. CASE /\ t \in DOMAIN tmps
           /\ files' = Put(files, em[e].name, tmps[t])
           /\ ever' = [ever EXCEPT ![em[e].name] = @ \cup {tmps[t]}]
           /\ tmps' = Drop(tmps, t)
           /\ Become(e, [em[e] EXCEPT !.step = "describe"])
  <2>1. Fitting'
    BY <1>1, <1>4, TypedFits, NextStep, CommandStep
  <2>2. tmps[t] \in Files
    BY <1>4 DEF Typed
  <2>3. DOMAIN files' \subseteq Names /\ \A f \in DOMAIN files' : files'[f] \in Files
    BY <1>1, <1>4, <2>2 DEF Typed, Put
  <2>4. \A x \in DOMAIN tmps' : tmps'[x] \in Files
    BY <1>4 DEF Typed, Drop
  <2>5. ever' \in [Names -> SUBSET Files]
    BY <1>1, <1>4, <2>2 DEF Typed
  <2> QED  BY <1>2, <2>1, <2>3, <2>4, <2>5 DEF Typed, Fitting, Fit, corpus, counts
<1> QED  BY <1>3, <1>4 DEF RenameSpool

LEMMA RenameManifestTyped ==
  ASSUME Typed, NEW e \in Emitters, RenameManifest(e)
  PROVE  Typed'
<1> DEFINE t == <<"manifest", em[e].name>>
<1>1. em[e].step = "publish" /\ em[e].name \in Names
  BY DEF Typed, Named, RenameManifest
<1>2. UNCHANGED <<second, corpus, files, ever, receipts, inbox, counts>>
  BY DEF RenameManifest
<1>3. CASE Become(e, Idle) /\ UNCHANGED <<manifests, tmps>>
  BY <1>2, <1>3, StopTyped DEF handoff, counts
<1>4. CASE /\ manifests' = Put(manifests, em[e].name, tmps[t])
           /\ tmps' = Drop(tmps, t)
           /\ Become(e, [em[e] EXCEPT !.step = "complete"])
  <2>1. Fitting'
    BY <1>1, <1>4, TypedFits, NextStep, CommandStep
  <2>2. DOMAIN manifests' \subseteq Names
    BY <1>1, <1>4 DEF Typed, Put
  <2>3. \A x \in DOMAIN tmps' : tmps'[x] \in Files
    BY <1>4 DEF Typed, Drop
  <2> QED  BY <1>2, <2>1, <2>2, <2>3 DEF Typed, Fitting, Fit, corpus, counts
<1> QED  BY <1>3, <1>4 DEF RenameManifest

LEMMA ArrivesTyped ==
  ASSUME Typed, NEW p \in Paths, NEW c \in Contents, Compiled(p, c) \/ Placed(p, c)
  PROVE  Typed'
<1>1. /\ page' = [page EXCEPT ![p] = c]
      /\ em' = [e \in Emitters |-> [em[e] EXCEPT !.gated = @ \ {p}]]
      /\ UNCHANGED <<second, handoff, receipts, inbox, emissions, faults>>
      /\ rows' \subseteq WikiPaths
  BY DEF Compiled, Placed, Arrives, Typed
<1>2. Fitting'
  <2>1. \A e \in Emitters : Fit([em[e] EXCEPT !.gated = @ \ {p}])
    <3> SUFFICES ASSUME NEW e \in Emitters PROVE Fit([em[e] EXCEPT !.gated = @ \ {p}])
      OBVIOUS
    <3> DEFINE gated == em[e].gated \ {p}
               r == [em[e] EXCEPT !.gated = gated]
    <3>1. em[e] \in Command /\ Fit(em[e])
      BY TypedFits DEF Fitting
    <3>2. gated \in SUBSET WikiPaths
      BY <3>1 DEF Command
    <3> HIDE DEF gated
    <3>3. r \in Command /\ r.step = em[e].step /\ r.tenant = em[e].tenant /\ r.out = em[e].out
          /\ r.name = em[e].name
      BY <3>1, <3>2 DEF Command
    <3>4. Fit(r)
      BY <3>1, <3>3 DEF Fit
    <3> QED  BY <3>4 DEF gated
  <2> QED  BY <1>1, <2>1 DEF Fitting, Fit
<1>3. page' \in [Paths -> Contents \cup {None}]
  BY <1>1 DEF Typed
<1> QED  BY <1>1, <1>2, <1>3, TypedElsewhere DEF Typed, handoff

LEMMA PollTyped ==
  ASSUME Typed, NEW f \in Names, Poll(f)
  PROVE  Typed'
<1>1. files[f].lines \subseteq Lines
  BY DEF Typed, Poll, Files
<1>2. inbox' \subseteq Lines
  BY <1>1 DEF Poll, Typed
<1> QED  BY <1>2 DEF Poll, Typed, corpus, handoff, counts

LEMMA NextTyped == Typed /\ [Next]_vars => Typed'
<1> SUFFICES ASSUME Typed, [Next]_vars PROVE Typed'
  OBVIOUS
<1>1. ASSUME NEW e \in Emitters, Refuse(e) \/ DryRun(e) PROVE Typed'
  BY <1>1 DEF Refuse, DryRun, Typed, corpus, handoff
<1>2. ASSUME NEW e \in Emitters, Invoke(e) PROVE Typed'
  BY <1>2, InvokeTyped
<1>3. ASSUME NEW e \in Emitters, Steps(e) PROVE Typed'
  <2>1. CASE LoadReceipts(e)
    BY <2>1, LoadReceiptsTyped
  <2>9. CASE ListPages(e)
    BY <2>9, ListPagesTyped
  <2>2. CASE Quarantine(e)
    BY <2>2, QuarantineTyped
  <2>3. CASE DiscoverWiki(e) \/ DiscoverOutputs(e)
    BY <2>3, DiscoverTyped
  <2>4. CASE Start(e)
    BY <2>4, StartTyped
  <2>5. CASE WriteSpool(e) \/ WriteManifest(e)
    BY <2>5, OpenedTyped DEF WriteSpool, WriteManifest
  <2>6. CASE RenameSpool(e)
    BY <2>6, RenameSpoolTyped
  <2>7. CASE RenameManifest(e)
    BY <2>7, RenameManifestTyped
  <2>8. CASE Complete(e)
    BY <2>8, StopTyped DEF Complete, counts
  <2> QED  BY <1>3, <2>1, <2>2, <2>3, <2>4, <2>5, <2>6, <2>7, <2>8, <2>9 DEF Steps
<1>4. ASSUME NEW e \in Emitters, Stops(e) PROVE Typed'
  BY <1>4, StopTyped DEF Stops
<1>5. ASSUME NEW p \in Paths, NEW c \in Contents, Compiled(p, c) \/ Placed(p, c) PROVE Typed'
  BY <1>5, ArrivesTyped
<1>6. ASSUME NEW f \in Names, Poll(f) PROVE Typed'
  BY <1>6, PollTyped
<1>7. CASE Tick
  BY <1>7, SpoolAssumption DEF Tick, Typed, corpus, handoff, counts
<1>8. CASE UNCHANGED vars
  BY <1>8 DEF vars, Typed
<1> QED  BY <1>1, <1>2, <1>3, <1>4, <1>5, <1>6, <1>7, <1>8 DEF Next

LEMMA AlwaysTyped == Spec => []Typed
  BY InitTyped, NextTyped, PTL DEF Spec

\* Types, for every set of emitters and pages.
THEOREM TypeCorrect == Spec => []TypeOK
<1>1. Typed => TypeOK
  <2> SUFFICES ASSUME Typed PROVE TypeOK
    OBVIOUS
  <2>1. \A e \in Emitters :
          /\ em[e].step \in {"idle", "scan", "walk", "quarantine", "wiki", "outputs",
                             "start", "open", "rename", "describe", "publish", "complete"}
          /\ em[e].step # "idle" => em[e].tenant # None /\ em[e].out \in Dirs
          /\ em[e].gated \subseteq WikiPaths /\ em[e].missed \subseteq WikiPaths
    BY DEF Typed, Command
  <2>2. \A c \in inbox : c.path \in Paths /\ c.body # None
    BY SpoolAssumption DEF Typed, Lines, Bodies
  <2> QED  BY <2>1, <2>2 DEF Typed, TypeOK
<1> QED  BY <1>1, AlwaysTyped, PTL

-----------------------------------------------------------------------------
(* The receipt gate *)

\* One command moves to r, and no page appears that another one has gated.
LEMMA GateStep ==
  ASSUME Typed, Gate, NEW e \in Emitters, NEW r, Become(e, r), Gated(r, page'),
         \A p \in WikiPaths : page[p] = None => page'[p] = None
  PROVE  Gate'
<1>1. em'[e] = r /\ \A d \in Emitters : d # e => em'[d] = em[d]
  BY DEF Typed, Become
<1>2. ASSUME NEW d \in Emitters, d # e PROVE Gated(em[d], page')
  <2>1. Gated(em[d], page) /\ em[d].gated \subseteq WikiPaths
    BY DEF Gate, Typed, Command
  <2> QED  BY <2>1 DEF Gated
<1> QED  BY <1>1, <1>2 DEF Gate

LEMMA GateStop ==
  ASSUME Typed, Gate, NEW e \in Emitters, Become(e, Idle), UNCHANGED page
  PROVE  Gate'
<1>1. Gated(Idle, page')
  BY DEF Gated, Idle
<1> QED  BY <1>1, GateStep

\* The step of a command on what it has found and gated already.
LEMMA GateGoesOn ==
  ASSUME Typed, Gate, NEW e \in Emitters, em[e].step \notin Early,
         NEW s \in {"wiki", "outputs", "start", "open", "rename", "describe", "publish", "complete"},
         Become(e, [em[e] EXCEPT !.step = s]), UNCHANGED page
  PROVE  Gate'
<1> DEFINE r == [em[e] EXCEPT !.step = s]
<1>1. em[e] \in Command /\ Gated(em[e], page) /\ Become(e, r)
  BY DEF Typed, Gate
<1>2. /\ r.step = s /\ r.todo = em[e].todo /\ r.gated = em[e].gated /\ r.missed = em[e].missed
      /\ r.found = em[e].found /\ r.lines = em[e].lines
  BY <1>1 DEF Command
<1> HIDE DEF r
<1>3. Gated(r, page')
  BY <1>1, <1>2 DEF Gated, Early
<1> QED  BY <1>1, <1>3, GateStep

LEMMA InvokeGate ==
  ASSUME Typed, Gate, NEW e \in Emitters, Invoke(e)
  PROVE  Gate'
<1>1. PICK inv \in Invocations :
            Become(e, [Idle EXCEPT !.step = IF inv.reconcile THEN "scan" ELSE "wiki",
                                   !.n = emissions + 1, !.inv = inv,
                                   !.tenant = Tenant(inv), !.out = OutDir(inv)])
  BY DEF Invoke
<1> DEFINE r == [Idle EXCEPT !.step = IF inv.reconcile THEN "scan" ELSE "wiki",
                             !.n = emissions + 1, !.inv = inv,
                             !.tenant = Tenant(inv), !.out = OutDir(inv)]
<1>2. r.gated = {} /\ r.found = {} /\ r.lines = {} /\ Become(e, r)
  BY <1>1 DEF Idle
<1> HIDE DEF r
<1>3. Gated(r, page')
  BY <1>2 DEF Gated
<1> QED  BY <1>2, <1>3, GateStep DEF Invoke, corpus

LEMMA LoadReceiptsGate ==
  ASSUME Typed, Gate, NEW e \in Emitters, LoadReceipts(e)
  PROVE  Gate'
<1> DEFINE step == Onward(WikiPaths, {})
           r == [em[e] EXCEPT !.receipted = rows, !.left = WikiPaths, !.step = step]
<1>1. Become(e, r) /\ em[e].step = "scan" /\ UNCHANGED page
  BY DEF LoadReceipts, corpus
<1>2. em[e] \in Command /\ Gated(em[e], page)
  BY DEF Typed, Gate
<1> HIDE DEF step
<1>3. r.gated = em[e].gated /\ r.found = em[e].found /\ r.lines = em[e].lines
  BY <1>2 DEF Command
<1> HIDE DEF r
<1>4. Gated(r, page')
  BY <1>1, <1>2, <1>3 DEF Gated, Early
<1> QED  BY <1>1, <1>4, GateStep

LEMMA ListPagesGate ==
  ASSUME Typed, Gate, NEW e \in Emitters, ListPages(e)
  PROVE  Gate'
<1>1. PICK r : Lists(e, r)
  BY ListPagesIs
<1>2. Gated(em[e], page) /\ em[e].step = "walk" /\ Become(e, r) /\ UNCHANGED page
  BY <1>1 DEF Gate, ListPages, corpus, Lists
<1>3. em[e].found = {} /\ em[e].lines = {}
  BY <1>2 DEF Gated, Early
<1>4. \A p \in r.gated : page[p] = None \/ p \in r.missed \/ (p \in r.todo /\ r.step = "quarantine")
  BY <1>1, <1>2 DEF Gated, Lists
<1>5. Gated(r, page')
  BY <1>1, <1>2, <1>3, <1>4 DEF Gated, Lists
<1> QED  BY <1>2, <1>5, GateStep

LEMMA QuarantineGate ==
  ASSUME Typed, Gate, NEW e \in Emitters, Quarantine(e)
  PROVE  Gate'
<1>1. PICK p \in em[e].todo :
          \/ /\ page' = [page EXCEPT ![p] = None]
             /\ Become(e, [em[e] EXCEPT !.todo = @ \ {p}, !.step = Onward(em[e].left, em[e].todo \ {p})])
          \/ Become(e, Idle) /\ UNCHANGED page
  BY DEF Quarantine
<1>2. em[e] \in Command /\ Gated(em[e], page) /\ em[e].step = "quarantine"
  BY DEF Typed, Gate, Quarantine
<1>3. CASE Become(e, Idle) /\ UNCHANGED page
  BY <1>3, GateStop
<1>4. CASE /\ page' = [page EXCEPT ![p] = None]
           /\ Become(e, [em[e] EXCEPT !.todo = @ \ {p}, !.step = Onward(em[e].left, em[e].todo \ {p})])
  <2> DEFINE left == em[e].todo \ {p}
             step == Onward(em[e].left, left)
             r == [em[e] EXCEPT !.todo = left, !.step = step]
  <2>1. /\ r.step = step /\ r.todo = left /\ r.missed = em[e].missed /\ r.gated = em[e].gated
        /\ r.found = em[e].found /\ r.lines = em[e].lines
    BY <1>2 DEF Command
  <2>2. \A q \in Paths : page'[q] = IF q = p THEN None ELSE page[q]
    BY <1>4 DEF Typed
  <2>3. em[e].gated \subseteq Paths
    BY <1>2 DEF Command, Paths
  <2>4. Become(e, r)
    BY <1>4
  <2>5. /\ step \in {"wiki", "walk", "quarantine"}
        /\ \A q \in em[e].todo : q # p => q \in left /\ step = "quarantine"
    BY DEF Onward
  <2> HIDE DEF left, step, r
  <2>6. Gated(r, page')
    BY <1>2, <2>1, <2>2, <2>3, <2>5 DEF Gated, Early
  <2>7. \A q \in WikiPaths : page[q] = None => page'[q] = None
    BY <2>2 DEF Paths
  <2> QED  BY <2>4, <2>6, <2>7, GateStep
<1> QED  BY <1>1, <1>3, <1>4

LEMMA DiscoverGate ==
  ASSUME Typed, Gate, NEW e \in Emitters, DiscoverWiki(e) \/ DiscoverOutputs(e)
  PROVE  Gate'
<1>1. PICK step \in {"wiki", "outputs"}, paths \in {WikiPaths, OutputPaths},
           scopes \in {{"wiki", "all"}, {"outputs", "all"}}, next \in {"outputs", "start"} :
        Discover(e, step, paths, scopes, next)
  BY DEF DiscoverWiki, DiscoverOutputs
<1>2. PICK lost : Become(e, [em[e] EXCEPT !.step = next,
                             !.found = IF em[e].inv.scope \in scopes
                                       THEN em[e].found \cup (Read(paths) \ lost) ELSE em[e].found])
  BY <1>1 DEF Discover
<1>3. em[e] \in Command /\ Gated(em[e], page) /\ em[e].step \in {"wiki", "outputs"} /\ UNCHANGED page
  BY <1>1 DEF Typed, Gate, Discover, corpus
<1> DEFINE found == IF em[e].inv.scope \in scopes
                    THEN em[e].found \cup (Read(paths) \ lost) ELSE em[e].found
           r == [em[e] EXCEPT !.step = next, !.found = found]
<1>4. \A p \in em[e].gated : page[p] = None \/ p \in em[e].missed
  BY <1>3 DEF Gated
<1>5. \A f \in found : f[1] \in em[e].gated => f[1] \in em[e].missed
  BY <1>3, <1>4 DEF Gated, Read
<1>6. Become(e, r)
  BY <1>2
<1> HIDE DEF found
<1>7. /\ r.step = next /\ r.todo = em[e].todo /\ r.gated = em[e].gated /\ r.missed = em[e].missed
      /\ r.found = found /\ r.lines = em[e].lines
  BY <1>3 DEF Command
<1> HIDE DEF r
<1>8. Gated(r, page')
  BY <1>3, <1>4, <1>5, <1>7 DEF Gated, Early
<1> QED  BY <1>3, <1>6, <1>8, GateStep

LEMMA StartGate ==
  ASSUME Typed, Gate, NEW e \in Emitters, Start(e)
  PROVE  Gate'
<1> DEFINE name == <<em[e].out, second>>
           lines == Candidates(e)
           r == [em[e] EXCEPT !.step = "open", !.name = name, !.lines = lines,
                              !.receipted = {}, !.found = {}, !.inv = None]
<1>1. Become(e, r) /\ em[e].step = "start" /\ UNCHANGED page
  BY DEF Start, corpus
<1>2. em[e] \in Command /\ Gated(em[e], page)
  BY DEF Typed, Gate
<1>3. \A l \in lines : l.path \in em[e].gated => l.path \in em[e].missed
  BY <1>2 DEF Gated, Candidates, Candidate
<1> HIDE DEF name, lines
<1>4. /\ r.step = "open" /\ r.todo = em[e].todo /\ r.gated = em[e].gated /\ r.missed = em[e].missed
      /\ r.found = {} /\ r.lines = lines
  BY <1>2 DEF Command
<1> HIDE DEF r
<1>5. Gated(r, page')
  BY <1>1, <1>2, <1>3, <1>4 DEF Gated, Early
<1> QED  BY <1>1, <1>5, GateStep

\* A page that arrives again is let through from then on.
LEMMA ArrivesGate ==
  ASSUME Typed, Gate, NEW p \in Paths, NEW c \in Contents, Compiled(p, c) \/ Placed(p, c)
  PROVE  Gate'
<1>1. /\ page' = [page EXCEPT ![p] = c]
      /\ em' = [e \in Emitters |-> [em[e] EXCEPT !.gated = @ \ {p}]]
  BY DEF Compiled, Placed, Arrives
<1> SUFFICES ASSUME NEW e \in Emitters PROVE Gated(em'[e], page')
  BY DEF Gate
<1>2. em[e] \in Command /\ Gated(em[e], page)
  BY DEF Typed, Gate
<1> DEFINE r == [em[e] EXCEPT !.gated = @ \ {p}]
<1>3. /\ r.step = em[e].step /\ r.todo = em[e].todo /\ r.gated = em[e].gated \ {p}
      /\ r.missed = em[e].missed
      /\ r.found = em[e].found /\ r.lines = em[e].lines
  BY <1>2 DEF Command
<1>4. em'[e] = r
  BY <1>1
<1>5. \A q \in Paths : q # p => page'[q] = page[q]
  BY <1>1 DEF Typed
<1>6. em[e].gated \subseteq Paths
  BY <1>2 DEF Command, Paths
<1> HIDE DEF r
<1>7. Gated(r, page')
  BY <1>2, <1>3, <1>5, <1>6 DEF Gated
<1> QED  BY <1>4, <1>7

LEMMA NextGate == Typed /\ Gate /\ [Next]_vars => Gate'
<1> SUFFICES ASSUME Typed, Gate, [Next]_vars PROVE Gate'
  OBVIOUS
<1>1. ASSUME UNCHANGED <<page, em>> PROVE Gate'
  BY <1>1 DEF Gate
<1>2. ASSUME NEW e \in Emitters, Refuse(e) \/ DryRun(e) PROVE Gate'
  BY <1>2, <1>1 DEF Refuse, DryRun, corpus
<1>3. ASSUME NEW e \in Emitters, Invoke(e) PROVE Gate'
  BY <1>3, InvokeGate
<1>4. ASSUME NEW e \in Emitters, Steps(e) PROVE Gate'
  <2>1. CASE LoadReceipts(e)
    BY <2>1, LoadReceiptsGate
  <2>10. CASE ListPages(e)
    BY <2>10, ListPagesGate
  <2>2. CASE Quarantine(e)
    BY <2>2, QuarantineGate
  <2>3. CASE DiscoverWiki(e) \/ DiscoverOutputs(e)
    BY <2>3, DiscoverGate
  <2>4. CASE Start(e)
    BY <2>4, StartGate
  <2>5. CASE WriteSpool(e)
    BY <2>5, GateGoesOn, GateStop DEF WriteSpool, Opened, corpus, Early
  <2>6. CASE RenameSpool(e)
    BY <2>6, GateGoesOn, GateStop DEF RenameSpool, corpus, Early
  <2>7. CASE WriteManifest(e)
    BY <2>7, GateGoesOn, GateStop DEF WriteManifest, Opened, corpus, Early
  <2>8. CASE RenameManifest(e)
    BY <2>8, GateGoesOn, GateStop DEF RenameManifest, corpus, Early
  <2>9. CASE Complete(e)
    BY <2>9, GateStop DEF Complete, corpus
  <2> QED  BY <1>4, <2>1, <2>2, <2>3, <2>4, <2>5, <2>6, <2>7, <2>8, <2>9, <2>10 DEF Steps
<1>5. ASSUME NEW e \in Emitters, Stops(e) PROVE Gate'
  BY <1>5, GateStop DEF Stops, corpus
<1>6. ASSUME NEW p \in Paths, NEW c \in Contents, Compiled(p, c) \/ Placed(p, c) PROVE Gate'
  BY <1>6, ArrivesGate
<1>7. ASSUME NEW f \in Names, Poll(f) PROVE Gate'
  BY <1>7, <1>1 DEF Poll, corpus
<1>8. CASE Tick
  BY <1>8, <1>1 DEF Tick, corpus
<1>9. CASE UNCHANGED vars
  BY <1>9, <1>1 DEF vars
<1> QED  BY <1>2, <1>3, <1>4, <1>5, <1>6, <1>7, <1>8, <1>9 DEF Next

LEMMA InitGate == Init => Gate
BY DEF Init, Gate, Gated, Idle

\* The receipt gate: whatever the emitters, the compiler and whoever puts pages
\* there do meanwhile, and whether or not a page could be moved, no emission
\* writes a page it found without a receipt, but one its walk could not read.
THEOREM GateHolds == Spec => []OnlyReceiptedLeaves
<1>1. Gate => OnlyReceiptedLeaves
  BY DEF Gate, Gated, OnlyReceiptedLeaves
<1>2. Spec => []Gate
  BY InitGate, NextGate, AlwaysTyped, PTL DEF Spec
<1> QED  BY <1>1, <1>2, PTL

-----------------------------------------------------------------------------
(* From spool file to completion *)

\* What Handoff says of one command, of what it has in tmps and of what has been there.
Text(r) == [n |-> r.n, lines |-> r.lines, whole |-> TRUE]
Hands(r, there, seen) ==
    /\ r.step = "rename" => /\ <<"spool", r.name>> \in DOMAIN there
                            /\ Copy(there[<<"spool", r.name>>], Text(r))
    /\ r.step \in Spooled => \E f \in seen[r.name] : Copy(f, Text(r))

LEMMA HandsIsHandoff ==
  Handoff <=> /\ \A e \in Emitters : Hands(em[e], tmps, ever)
              /\ \A e, d \in Emitters :
                    em[e].step = "rename" /\ em[d].step = "rename" /\ em[e].name = em[d].name => e = d
              /\ \A c \in completed : c.name \in Names /\ \E f \in ever[c.name] : Copy(f, c.held)
BY DEF Handoff, Hands, Owns, Content, Text

\* One command moves to r; what the others rely on stays.
LEMMA HandoffStep ==
  ASSUME Typed, Handoff, NEW e \in Emitters, NEW r, Become(e, r), Hands(r, tmps', ever'),
         \A f \in Names : ever[f] \subseteq ever'[f],
         \A c \in completed' : c.name \in Names /\ \E f \in ever'[c.name] : Copy(f, c.held),
         \A d \in Emitters : d # e /\ em[d].step = "rename" =>
             /\ <<"spool", em[d].name>> \in DOMAIN tmps'
             /\ tmps'[<<"spool", em[d].name>>] = tmps[<<"spool", em[d].name>>]
             /\ r.step = "rename" => r.name # em[d].name
  PROVE  Handoff'
<1>1. em'[e] = r /\ \A d \in Emitters : d # e => em'[d] = em[d]
  BY DEF Typed, Become
<1>2. \A d \in Emitters : em[d].step \in Spooled => em[d].name \in Names
  BY DEF Typed, Named, Spooled
<1>3. ASSUME NEW d \in Emitters, d # e PROVE Hands(em[d], tmps', ever')
  BY <1>2, <1>3, HandsIsHandoff DEF Hands
<1>4. ASSUME NEW d \in Emitters, NEW b \in Emitters, em'[b].step = "rename",
             em'[d].step = "rename", em'[b].name = em'[d].name
      PROVE  b = d
  <2>1. CASE b # e /\ d # e
    BY <1>1, <1>4, <2>1 DEF Handoff
  <2>2. CASE b = e \/ d = e
    BY <1>1, <1>4, <2>2
  <2> QED  BY <2>1, <2>2
<1> QED  BY <1>1, <1>3, <1>4 DEF Handoff, Hands, Owns, Content, Text

\* A step that neither writes, renames nor completes a spool file.
LEMMA HandoffElsewhere ==
  ASSUME Typed, Handoff, NEW e \in Emitters, \A d \in Emitters : d # e => em'[d] = em[d],
         em'[e].step \notin {"rename", "describe", "publish", "complete"},
         UNCHANGED <<tmps, ever, completed>>
  PROVE  Handoff'
BY DEF Handoff, Owns, Content, Spooled

LEMMA HandoffStop ==
  ASSUME Typed, Handoff, NEW e \in Emitters, Become(e, Idle), UNCHANGED <<tmps, ever, completed>>
  PROVE  Handoff'
<1>1. Idle.step = "idle"
  BY DEF Idle
<1>2. em'[e] = Idle /\ \A d \in Emitters : d # e => em'[d] = em[d]
  BY DEF Typed, Become
<1> QED  BY <1>1, <1>2, HandoffElsewhere

LEMMA EarlyHandoff ==
  ASSUME Typed, Handoff, NEW e \in Emitters,
         \/ Invoke(e) \/ LoadReceipts(e) \/ ListPages(e) \/ Quarantine(e)
         \/ DiscoverWiki(e) \/ DiscoverOutputs(e) \/ Start(e)
  PROVE  Handoff'
<1>1. UNCHANGED <<tmps, ever, completed>>
  BY DEF Invoke, LoadReceipts, ListPages, Quarantine, DiscoverWiki, DiscoverOutputs, Discover, Start, handoff, receipts
<1>2. em[e] \in Command /\ em \in [Emitters -> Command]
  BY DEF Typed
<1>3. ASSUME NEW r, Become(e, r), r.step \notin {"rename", "describe", "publish", "complete"}
      PROVE  Handoff'
  <2>1. em'[e] = r /\ \A d \in Emitters : d # e => em'[d] = em[d]
    BY <1>2, <1>3 DEF Become
  <2> QED  BY <1>1, <1>3, <2>1, HandoffElsewhere
<1>4. CASE Invoke(e)
  <2>1. PICK inv \in Invocations :
            Become(e, [Idle EXCEPT !.step = IF inv.reconcile THEN "scan" ELSE "wiki",
                                   !.n = emissions + 1, !.inv = inv,
                                   !.tenant = Tenant(inv), !.out = OutDir(inv)])
    BY <1>4 DEF Invoke
  <2> DEFINE r == [Idle EXCEPT !.step = IF inv.reconcile THEN "scan" ELSE "wiki",
                               !.n = emissions + 1, !.inv = inv,
                               !.tenant = Tenant(inv), !.out = OutDir(inv)]
  <2>2. r.step \in {"scan", "wiki"} /\ Become(e, r)
    BY <2>1 DEF Idle
  <2> HIDE DEF r
  <2> QED  BY <1>3, <2>2
<1>5. CASE LoadReceipts(e)
  <2> DEFINE step == Onward(WikiPaths, {})
             r == [em[e] EXCEPT !.receipted = rows, !.left = WikiPaths, !.step = step]
  <2>1. Become(e, r) /\ step \in {"wiki", "walk"}
    BY <1>5 DEF LoadReceipts, Onward
  <2> HIDE DEF step
  <2>2. r.step = step
    BY <1>2 DEF Command
  <2> HIDE DEF r
  <2> QED  BY <1>3, <2>1, <2>2
<1>9. CASE ListPages(e)
  <2>1. PICK r : Lists(e, r)
    BY <1>9, ListPagesIs
  <2> QED  BY <1>3, <2>1 DEF Lists
<1>6. CASE Quarantine(e)
  <2>1. PICK p \in em[e].todo :
            \/ Become(e, [em[e] EXCEPT !.todo = @ \ {p}, !.step = Onward(em[e].left, em[e].todo \ {p})])
            \/ Become(e, Idle)
    BY <1>6 DEF Quarantine
  <2> DEFINE step == Onward(em[e].left, em[e].todo \ {p})
             r == [em[e] EXCEPT !.todo = @ \ {p}, !.step = step]
  <2>2. r.step = step
    BY <1>2 DEF Command
  <2>3. r.step \in {"wiki", "walk", "quarantine"}
    BY <2>2 DEF Onward
  <2>4. Become(e, r) \/ Become(e, Idle)
    BY <2>1
  <2> HIDE DEF r
  <2> QED  BY <1>1, <1>3, <2>3, <2>4, HandoffStop
<1>7. CASE DiscoverWiki(e) \/ DiscoverOutputs(e)
  <2>1. PICK step \in {"wiki", "outputs"}, paths \in {WikiPaths, OutputPaths},
             scopes \in {{"wiki", "all"}, {"outputs", "all"}}, next \in {"outputs", "start"} :
          Discover(e, step, paths, scopes, next)
    BY <1>7 DEF DiscoverWiki, DiscoverOutputs
  <2>2. PICK found : Become(e, [em[e] EXCEPT !.step = next, !.found = found])
    BY <2>1 DEF Discover
  <2>3. [em[e] EXCEPT !.step = next, !.found = found].step = next
    BY <1>2 DEF Command
  <2> QED  BY <1>3, <2>2, <2>3
<1>8. CASE Start(e)
  <2> DEFINE r == [em[e] EXCEPT !.step = "open", !.name = <<em[e].out, second>>,
                                !.lines = Candidates(e), !.receipted = {},
                                !.found = {}, !.inv = None]
  <2>1. r.step = "open"
    BY <1>2 DEF Command
  <2>2. Become(e, r)
    BY <1>8 DEF Start
  <2> QED  BY <1>3, <2>1, <2>2
<1> QED  BY <1>4, <1>5, <1>6, <1>7, <1>8, <1>9

\* O_EXCL: the name was free, so no one else stands before its rename.
LEMMA WriteSpoolHandoff ==
  ASSUME Typed, Handoff, NEW e \in Emitters, WriteSpool(e)
  PROVE  Handoff'
<1> DEFINE t == <<"spool", em[e].name>>
           r == [em[e] EXCEPT !.step = "rename"]
<1>1. UNCHANGED <<ever, completed>>
  BY DEF WriteSpool, receipts
<1>2. CASE Become(e, Idle) /\ UNCHANGED tmps
  BY <1>1, <1>2, HandoffStop
<1>3. CASE t \notin DOMAIN tmps /\ Written(e, "spool") /\ Become(e, r)
  <2>1. em[e] \in Command
    BY DEF Typed
  <2>2. r.step = "rename" /\ r.name = em[e].name /\ r.n = em[e].n /\ r.lines = em[e].lines
    BY <2>1 DEF Command
  <2>3. Become(e, r)
    BY <1>3
  <2> HIDE DEF r
  <2>7. PICK text \in Files : Copy(text, Content(e)) /\ tmps' = Put(tmps, t, text)
    BY <1>3, TypedFits, WrittenIs
  <2>4. t \in DOMAIN tmps' /\ Copy(tmps'[t], Content(e))
    BY <2>7 DEF Put
  <2>5. Hands(r, tmps', ever')
    BY <2>2, <2>4 DEF Hands, Spooled, Content, Text
  <2>6. \A d \in Emitters : em[d].step = "rename" =>
             /\ <<"spool", em[d].name>> \in DOMAIN tmps'
             /\ tmps'[<<"spool", em[d].name>>] = tmps[<<"spool", em[d].name>>]
             /\ r.name # em[d].name
    BY <1>3, <2>2, <2>7 DEF Handoff, Owns, Put
  <2> QED  BY <1>1, <2>3, <2>5, <2>6, HandoffStep DEF Handoff
<1> QED  BY <1>2, <1>3 DEF WriteSpool, Opened

LEMMA RenameSpoolHandoff ==
  ASSUME Typed, Handoff, NEW e \in Emitters, RenameSpool(e)
  PROVE  Handoff'
<1> DEFINE t == <<"spool", em[e].name>>
           r == [em[e] EXCEPT !.step = "describe"]
<1>1. em[e] \in Command /\ em[e].step = "rename" /\ em[e].name \in Names /\ Owns(e) /\ UNCHANGED completed
  BY DEF Typed, Named, Handoff, RenameSpool, receipts
<1>2. /\ ever' = [ever EXCEPT ![em[e].name] = @ \cup {tmps[t]}]
      /\ tmps' = Drop(tmps, t)
      /\ Become(e, r)
  BY <1>1 DEF RenameSpool, Owns
<1>3. r.step = "describe" /\ r.name = em[e].name /\ r.n = em[e].n /\ r.lines = em[e].lines
  BY <1>1 DEF Command
<1>4. Become(e, r)
  BY <1>2
<1> HIDE DEF r
<1>5. \A f \in Names : ever[f] \subseteq ever'[f]
  BY <1>2 DEF Typed
<1>6. \E f \in ever'[em[e].name] : Copy(f, Content(e))
  BY <1>1, <1>2 DEF Typed, Owns
<1>7. Hands(r, tmps', ever')
  BY <1>3, <1>6 DEF Hands, Spooled, Content, Text
<1>8. \A d \in Emitters : d # e /\ em[d].step = "rename" =>
           /\ <<"spool", em[d].name>> \in DOMAIN tmps'
           /\ tmps'[<<"spool", em[d].name>>] = tmps[<<"spool", em[d].name>>]
  BY <1>1, <1>2 DEF Handoff, Owns, Drop
<1>9. \A c \in completed' : c.name \in Names /\ \E f \in ever'[c.name] : Copy(f, c.held)
  BY <1>1, <1>5 DEF Handoff
<1> QED  BY <1>3, <1>4, <1>5, <1>7, <1>8, <1>9, HandoffStep

\* The manifest's .tmp file is another one.
LEMMA ManifestHandoff ==
  ASSUME Typed, Handoff, NEW e \in Emitters, WriteManifest(e) \/ RenameManifest(e)
  PROVE  Handoff'
<1>1. UNCHANGED <<ever, completed>>
  BY DEF WriteManifest, RenameManifest, receipts
<1>2. em[e] \in Command /\ em[e].step \in {"describe", "publish"} /\ Hands(em[e], tmps, ever)
  BY HandsIsHandoff DEF Typed, WriteManifest, RenameManifest
<1>3. \A x : x[1] = "spool" => /\ x \in DOMAIN tmps <=> x \in DOMAIN tmps'
                               /\ x \in DOMAIN tmps => tmps'[x] = tmps[x]
  BY DEF WriteManifest, RenameManifest, Opened, Written, Put, Drop
<1>4. \A d \in Emitters : em[d].step = "rename" =>
             /\ <<"spool", em[d].name>> \in DOMAIN tmps'
             /\ tmps'[<<"spool", em[d].name>>] = tmps[<<"spool", em[d].name>>]
  BY <1>3 DEF Handoff, Owns
<1>5. ASSUME NEW s \in {"publish", "complete"}, Become(e, [em[e] EXCEPT !.step = s])
      PROVE  Handoff'
  <2> DEFINE r == [em[e] EXCEPT !.step = s]
  <2>1. r.step = s /\ r.name = em[e].name /\ r.n = em[e].n /\ r.lines = em[e].lines
    BY <1>2 DEF Command
  <2>2. Become(e, r)
    BY <1>5
  <2> HIDE DEF r
  <2>3. Hands(r, tmps', ever')
    BY <1>1, <1>2, <2>1 DEF Hands, Spooled, Text
  <2> QED  BY <1>1, <1>4, <2>1, <2>2, <2>3, HandoffStep DEF Handoff
<1>6. CASE Become(e, Idle) /\ UNCHANGED tmps
  BY <1>1, <1>6, HandoffStop
<1> QED  BY <1>5, <1>6 DEF WriteManifest, RenameManifest, Opened

LEMMA CompleteHandoff ==
  ASSUME Typed, Handoff, NEW e \in Emitters, Complete(e)
  PROVE  Handoff'
<1>1. /\ completed' = completed \cup {[name |-> em[e].name, held |-> Content(e)]}
      /\ Become(e, Idle) /\ UNCHANGED <<tmps, ever>>
  BY DEF Complete, handoff
<1>2. em[e].name \in Names /\ \E f \in ever[em[e].name] : Copy(f, Content(e))
  BY DEF Complete, Typed, Named, Handoff, Spooled
<1>3. \A c \in completed' : c.name \in Names /\ \E f \in ever'[c.name] : Copy(f, c.held)
  BY <1>1, <1>2 DEF Handoff
<1>4. Hands(Idle, tmps', ever') /\ Idle.step = "idle"
  BY DEF Hands, Spooled, Idle
<1>5. \A d \in Emitters : em[d].step = "rename" => Owns(d)
  BY DEF Handoff
<1> QED  BY <1>1, <1>3, <1>4, <1>5, HandoffStep DEF Owns

LEMMA ArrivesHandoff ==
  ASSUME Typed, Handoff, NEW p \in Paths, NEW c \in Contents, Compiled(p, c) \/ Placed(p, c)
  PROVE  Handoff'
<1>1. /\ em' = [e \in Emitters |-> [em[e] EXCEPT !.gated = @ \ {p}]]
      /\ UNCHANGED <<tmps, ever, completed>>
  BY DEF Compiled, Placed, Arrives, handoff, receipts
<1>2. ASSUME NEW e \in Emitters
      PROVE  /\ em'[e].step = em[e].step /\ em'[e].name = em[e].name
             /\ em'[e].n = em[e].n /\ em'[e].lines = em[e].lines
  <2>1. em[e] \in Command
    BY DEF Typed
  <2> QED  BY <1>1, <2>1 DEF Command
<1>3. UNCHANGED <<tmps, ever, completed>>
  BY <1>1
<1>4. \A e \in Emitters : em'[e].step = "rename" => Owns(e)'
  BY <1>2, <1>3 DEF Handoff, Owns, Content
<1>5. \A e \in Emitters : em'[e].step \in Spooled =>
          \E f \in ever'[em'[e].name] : Copy(f, Content(e)')
  BY <1>2, <1>3 DEF Handoff, Content
<1>6. \A e, d \in Emitters : em'[e].step = "rename" /\ em'[d].step = "rename"
                               /\ em'[e].name = em'[d].name => e = d
  BY <1>2 DEF Handoff
<1> QED  BY <1>3, <1>4, <1>5, <1>6 DEF Handoff

LEMMA NextHandoff == Typed /\ Handoff /\ [Next]_vars => Handoff'
<1> SUFFICES ASSUME Typed, Handoff, [Next]_vars PROVE Handoff'
  OBVIOUS
<1>1. ASSUME UNCHANGED <<em, tmps, ever, completed>> PROVE Handoff'
  BY <1>1 DEF Handoff, Owns, Content
<1>2. ASSUME NEW e \in Emitters, Refuse(e) \/ DryRun(e) PROVE Handoff'
  BY <1>2, <1>1 DEF Refuse, DryRun, handoff, receipts
<1>3. ASSUME NEW e \in Emitters, Invoke(e) PROVE Handoff'
  BY <1>3, EarlyHandoff
<1>4. ASSUME NEW e \in Emitters, Steps(e) PROVE Handoff'
  <2>1. CASE LoadReceipts(e) \/ ListPages(e) \/ Quarantine(e) \/ DiscoverWiki(e) \/ DiscoverOutputs(e) \/ Start(e)
    BY <2>1, EarlyHandoff
  <2>2. CASE WriteSpool(e)
    BY <2>2, WriteSpoolHandoff
  <2>3. CASE RenameSpool(e)
    BY <2>3, RenameSpoolHandoff
  <2>4. CASE WriteManifest(e) \/ RenameManifest(e)
    BY <2>4, ManifestHandoff
  <2>5. CASE Complete(e)
    BY <2>5, CompleteHandoff
  <2> QED  BY <1>4, <2>1, <2>2, <2>3, <2>4, <2>5 DEF Steps
<1>5. ASSUME NEW e \in Emitters, Stops(e) PROVE Handoff'
  BY <1>5, HandoffStop DEF Stops, handoff, receipts
<1>6. ASSUME NEW p \in Paths, NEW c \in Contents, Compiled(p, c) \/ Placed(p, c) PROVE Handoff'
  BY <1>6, ArrivesHandoff
<1>7. ASSUME NEW f \in Names, Poll(f) PROVE Handoff'
  BY <1>7, <1>1 DEF Poll, handoff, receipts
<1>8. CASE Tick
  BY <1>8, <1>1 DEF Tick, handoff, receipts
<1>9. CASE UNCHANGED vars
  BY <1>9, <1>1 DEF vars
<1> QED  BY <1>2, <1>3, <1>4, <1>5, <1>6, <1>7, <1>8, <1>9 DEF Next

LEMMA InitHandoff == Init => Handoff
<1> SUFFICES ASSUME Init PROVE Handoff
  OBVIOUS
<1>1. \A e \in Emitters : em[e].step = "idle"
  BY DEF Init, Idle
<1> QED  BY <1>1 DEF Init, Handoff, Spooled

\* A spool.emit.complete trace tells of a file of its own emission that was there,
\* with those lines or, after a short write, what was left of them, however many emissions of one second took the name from each other.
THEOREM CompletionHolds == Spec => []CompletedWasThere
<1>1. Handoff => CompletedWasThere
  BY DEF Handoff, CompletedWasThere
<1>2. Spec => []Handoff
  BY InitHandoff, NextHandoff, AlwaysTyped, PTL DEF Spec
<1> QED  BY <1>1, <1>2, PTL
=============================================================================
