------------------------------ MODULE Anchors ------------------------------
(***************************************************************************)
(* The anchor log (kernel/src/audit-anchor.ts) and its two callers,        *)
(* `ico audit anchor` and the hook after a compilation (cli/src/lib/       *)
(* anchor.ts), over the trace chain as AuditLog specifies it.              *)
(*                                                                         *)
(* An anchor is a record of how many events the chain had and of the hash  *)
(* of the last one, linked to the anchor before it.  The file is committed *)
(* into a git repository that others keep copies of.                       *)
(*                                                                         *)
(* Every trace line carries the hash of the line before it, so the hash of *)
(* line n is written as the sequence of the first n events.  The hash of   *)
(* an anchor is its number.  A line that was cut short and what was        *)
(* appended to it later is one line that does not parse.                   *)
(***************************************************************************)
EXTENDS Naturals, Sequences

CONSTANTS
    Anchorers,    \* processes that append anchors
    MaxEvents,    \* bound: number of trace events
    MaxAnchors,   \* bound: number of anchors made
    MaxFaults,    \* bound: number of torn appends, failed commits and deaths
    None          \* no anchor

ASSUME ConstantsAssumption ==
    /\ MaxEvents \in Nat
    /\ MaxAnchors \in Nat
    /\ MaxFaults \in Nat
    /\ None \notin Nat

Events == 1..MaxEvents
Id == Nat \ {0}
Anchor == [id : Id, total : Nat, head : Seq(Nat), prev : Id \cup {None}, ended : {TRUE}]
Torn(ended) == [id |-> 0, total |-> 0, head |-> <<>>, prev |-> None, ended |-> ended]

VARIABLES
    log,         \* the trace chain
    anchors,     \* the lines of ico-anchors.jsonl
    committed,   \* number of lines of it in the last commit
    made,        \* number of anchors made so far
    anchorer,    \* one appendIcoAnchor and its commit per process
    verifier,    \* a verifyIcoAnchors
    faults       \* number of faults so far

vars == <<log, anchors, committed, made, anchorer, verifier, faults>>

Trail == INSTANCE AuditLog WITH Event <- Events, acknowledged <- {}

IdleAnchorer == [pc |-> "idle", total |-> 0, head |-> <<>>, prev |-> None]
IdleVerifier == [pc |-> "idle", seen |-> <<>>, count |-> 0, breaks |-> {}]

Init ==
    /\ Trail!Init
    /\ anchors = <<>>
    /\ committed = 0
    /\ made = 0
    /\ anchorer = [a \in Anchorers |-> IdleAnchorer]
    /\ verifier = IdleVerifier
    /\ faults = 0

-----------------------------------------------------------------------------
(* The anchor log *)

Parses(as, i) == as[i].id # 0

(* Line i is the last one before line n that parses. *)
LastBefore(as, n, i) ==
    /\ i \in 1 .. n - 1
    /\ Parses(as, i)
    /\ \A j \in i + 1 .. n - 1 : ~Parses(as, j)

(* Slip: the empty log is linked to with '' instead of null. *)
LinkToEmpty(as, n, prev) ==
    \/ \E i \in 1 .. n - 1 : LastBefore(as, n, i) /\ prev = as[i].id
    \/ (\A i \in 1 .. n - 1 : ~Parses(as, i)) /\ prev = 0

(* prev is the anchorHash a record on line n links to. *)
LinkTo(as, n, prev) ==
    \/ \E i \in 1 .. n - 1 : LastBefore(as, n, i) /\ prev = as[i].id
    \/ (\A i \in 1 .. n - 1 : ~Parses(as, i)) /\ prev = None

(* Slip: one anchor is taken to be enough. *)
UnchangedOnce(as, total, head) == \E i \in 1..Len(as) : Parses(as, i)

(* The no-op guard: the last record has this count and this head. *)
Unchanged(as, total, head) ==
    \E i \in 1..Len(as) :
        LastBefore(as, Len(as) + 1, i) /\ as[i].total = total /\ as[i].head = head

(* The file after line was appended to it: it continues a line that was    *)
(* left without its end.                                                   *)
WithLine(as, line) ==
    IF as # <<>> /\ ~as[Len(as)].ended
    THEN [as EXCEPT ![Len(as)] = Torn(line.ended)]
    ELSE Append(as, line)

-----------------------------------------------------------------------------
(* appendIcoAnchor, and commitAnchorFile by its caller *)

(* chainHeadInfo. *)
ReadChain(a) ==
    /\ anchorer[a].pc = "idle"
    /\ made < MaxAnchors
    /\ anchorer' = [anchorer EXCEPT ![a] =
           [IdleAnchorer EXCEPT !.pc = "headed", !.total = Len(log), !.head = log]]
    /\ UNCHANGED <<log, anchors, committed, made, verifier, faults>>

(* readIcoAnchors and the no-op guard: "anchor already witnessed". *)
ReadAnchors(a) ==
    /\ anchorer[a].pc = "headed"
    /\ IF Unchanged(anchors, anchorer[a].total, anchorer[a].head)
       THEN anchorer' = [anchorer EXCEPT ![a] = IdleAnchorer]
       ELSE \E prev \in {None} \cup 0..made :
              /\ LinkTo(anchors, Len(anchors) + 1, prev)
              /\ anchorer' = [anchorer EXCEPT ![a].pc = "linked", ![a].prev = prev]
    /\ UNCHANGED <<log, anchors, committed, made, verifier, faults>>

(* appendFileSync. *)
AppendAnchor(a) ==
    /\ anchorer[a].pc = "linked"
    /\ made' = made + 1
    /\ anchors' = WithLine(anchors,
           [id |-> made + 1, total |-> anchorer[a].total, head |-> anchorer[a].head,
            prev |-> anchorer[a].prev, ended |-> TRUE])
    /\ anchorer' = [anchorer EXCEPT ![a].pc = "appended"]
    /\ UNCHANGED <<log, committed, verifier, faults>>

(* appendFileSync fails, or the process dies, in the middle of the line. *)
AppendTears(a) ==
    /\ anchorer[a].pc = "linked"
    /\ faults < MaxFaults
    /\ faults' = faults + 1
    /\ anchors' = WithLine(anchors, Torn(FALSE))
    /\ anchorer' = [anchorer EXCEPT ![a] = IdleAnchorer]
    /\ UNCHANGED <<log, committed, made, verifier>>

(* git add, git commit. *)
CommitAnchor(a) ==
    /\ anchorer[a].pc = "appended"
    /\ committed' = Len(anchors)
    /\ anchorer' = [anchorer EXCEPT ![a] = IdleAnchorer]
    /\ UNCHANGED <<log, anchors, made, verifier, faults>>

(* git fails (only a warning), a read fails, or the process dies. *)
Stop(a) ==
    /\ anchorer[a].pc # "idle"
    /\ faults < MaxFaults
    /\ faults' = faults + 1
    /\ anchorer' = [anchorer EXCEPT ![a] = IdleAnchorer]
    /\ UNCHANGED <<log, anchors, committed, made, verifier>>

-----------------------------------------------------------------------------
(* verifyIcoAnchors *)

(* ANCHOR_LINK_MISMATCH on line i. *)
LinkBreak(as, i) == ~LinkTo(as, i, as[i].prev)

(* Slip: only the number of events is compared. *)
HistoryBreakCount(anchor, count, trail) == count < anchor.total

(* HISTORY_TRUNCATED or HISTORY_REWRITTEN; the line at the anchored        *)
(* position is read from the chain again.                                  *)
HistoryBreak(anchor, count, trail) ==
    \/ count < anchor.total
    \/ /\ anchor.total > 0
       /\ anchor.total <= Len(trail) => SubSeq(trail, 1, anchor.total) # anchor.head

(* The lines that are reported, each with a reason. *)
Breaks(as, count, trail) ==
    {b \in (1..Len(as)) \X {"malformed", "link", "history"} :
        \/ b[2] = "malformed" /\ ~Parses(as, b[1])
        \/ b[2] = "link"      /\ Parses(as, b[1]) /\ LinkBreak(as, b[1])
        \/ b[2] = "history"   /\ Parses(as, b[1]) /\ HistoryBreak(as[b[1]], count, trail)}

VerifyAnchors ==
    /\ verifier.pc = "idle"
    /\ verifier' = [IdleVerifier EXCEPT !.pc = "anchors", !.seen = anchors]
    /\ UNCHANGED <<log, anchors, committed, made, anchorer, faults>>

VerifyCount ==
    /\ verifier.pc = "anchors"
    /\ verifier' = [verifier EXCEPT !.pc = "counted", !.count = Len(log)]
    /\ UNCHANGED <<log, anchors, committed, made, anchorer, faults>>

(* Slip: the anchors are read after the chain has been counted. *)
VerifyLinesLate ==
    /\ verifier.pc = "counted"
    /\ verifier' = [verifier EXCEPT !.pc = "idle", !.seen = anchors,
                                    !.breaks = Breaks(anchors, verifier.count, log)]
    /\ UNCHANGED <<log, anchors, committed, made, anchorer, faults>>

VerifyLines ==
    /\ verifier.pc = "counted"
    /\ verifier' = [verifier EXCEPT !.pc = "idle",
                                    !.breaks = Breaks(verifier.seen, verifier.count, log)]
    /\ UNCHANGED <<log, anchors, committed, made, anchorer, faults>>

-----------------------------------------------------------------------------
(* writeTrace *)
RecordEvent ==
    /\ Len(log) < MaxEvents
    /\ Trail!Record(Len(log) + 1)
    /\ UNCHANGED <<anchors, committed, made, anchorer, verifier, faults>>

AnchorStep(a) == ReadChain(a) \/ ReadAnchors(a) \/ AppendAnchor(a) \/ CommitAnchor(a)

Next ==
    \/ RecordEvent
    \/ \E a \in Anchorers : AnchorStep(a) \/ AppendTears(a) \/ Stop(a)
    \/ VerifyAnchors \/ VerifyCount \/ VerifyLines

Spec == Init /\ [][Next]_vars

(* Every compilation ends with an anchor, and compilations keep coming. *)
FairSpec == Spec /\ \A a \in Anchorers : WF_vars(AnchorStep(a))

-----------------------------------------------------------------------------
(* Properties *)

(* The variables keep their types. *)
TypeOK ==
    /\ log \in Seq(Nat)
    /\ anchors \in Seq(Anchor \cup {Torn(TRUE), Torn(FALSE)})
    /\ committed \in Nat
    /\ made \in Nat
    /\ anchorer \in [Anchorers -> [pc : {"idle", "headed", "linked", "appended"},
                                   total : Nat, head : Seq(Nat), prev : Id \cup {None}]]
    /\ verifier \in [pc : {"idle", "anchors", "counted"},
                     seen : Seq(Anchor \cup {Torn(TRUE), Torn(FALSE)}), count : Nat,
                     breaks : SUBSET ((Nat \ {0}) \X {"malformed", "link", "history"})]
    /\ faults \in Nat

(* A verification that runs while events and anchors are written reports   *)
(* nothing but lines that a failed append has torn.                        *)
OnlyTornReported == \A b \in verifier.breaks : b[2] = "malformed"

(* A chain that was cut or rewritten at or before the last anchored event, *)
(* every later hash made to fit, is reported.                              *)
HistoryChangeDetected ==
    \A i \in 1..Len(anchors) :
        LastBefore(anchors, Len(anchors) + 1, i) =>
            \A n \in 0..Len(log) : \A trail \in [1..n -> {0} \cup Events] :
                (n < anchors[i].total \/ \E k \in 1..anchors[i].total : trail[k] # log[k])
                    => Breaks(anchors, n, trail) # {}

(* Whatever fails, every event is anchored in the end.                     *)
EventsGetAnchored ==
    \A n \in Events :
        Len(log) >= n ~> \E i \in 1..Len(anchors) : Parses(anchors, i) /\ anchors[i].total >= n
=============================================================================
