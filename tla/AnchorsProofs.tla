--------------------------- MODULE AnchorsProofs ---------------------------
(***************************************************************************)
(* For any number of events, anchors, faults and anchoring processes: the  *)
(* types of Anchors, and that a changed history is reported; while         *)
(* anchoring calls do not overlap, also that nothing but torn lines is.    *)
(*                                                                         *)
(* The invariants speak of what a step does not see: Rooted says that an   *)
(* anchor, read or still to be written, is a prefix of the chain as it is  *)
(* now, Counted that a verifier has counted as many events as any anchor   *)
(* it has read, and Linked that each line of a file links to the last one  *)
(* before it that parses, the line about to be written included.           *)
(***************************************************************************)
EXTENDS Anchors, SequenceTheorems, TLAPS

Line == Anchor \cup {Torn(TRUE), Torn(FALSE)}
Anchoring == [pc : {"idle", "headed", "linked", "appended"},
              total : Nat, head : Seq(Nat), prev : Id \cup {None}]

\* A prefix of the chain.
Prefix(rec) == rec.total <= Len(log) /\ rec.head = SubSeq(log, 1, rec.total)

AllPrefix(f) == \A i \in 1..Len(f) : Parses(f, i) => Prefix(f[i])

Rooted ==
    /\ AllPrefix(anchors) /\ AllPrefix(verifier.seen)
    /\ \A a \in Anchorers : anchorer[a].pc # "idle" => Prefix(anchorer[a])

Counted ==
    verifier.pc = "counted" =>
        /\ verifier.count <= Len(log)
        /\ \A i \in 1..Len(verifier.seen) :
              Parses(verifier.seen, i) => verifier.seen[i].total <= verifier.count

Chained(f) == \A i \in 1..Len(f) : Parses(f, i) => LinkTo(f, i, f[i].prev)

Linked ==
    /\ Chained(anchors) /\ Chained(verifier.seen)
    /\ \A a \in Anchorers :
          anchorer[a].pc = "linked" => LinkTo(anchors, Len(anchors) + 1, anchorer[a].prev)

\* One appendIcoAnchor, with its commit, at a time.
OneAtATime ==
    \A a, b \in Anchorers : anchorer[a].pc # "idle" /\ anchorer[b].pc # "idle" => a = b

-----------------------------------------------------------------------------
(* Types *)

LEMMA IdleType == IdleAnchorer \in Anchoring
BY DEF IdleAnchorer, Anchoring

LEMMA TornType ==
  ASSUME NEW e \in BOOLEAN
  PROVE  Torn(e) \in Line /\ Torn(e).id = 0 /\ Torn(e).ended = e
<1>1. Torn(e).id = 0 /\ Torn(e).ended = e
  BY DEF Torn
<1>2. e = TRUE \/ e = FALSE
  OBVIOUS
<1> QED  BY <1>1, <1>2, Zenon DEF Line

\* What parses is an anchor, and it has its end.
LEMMA LineType ==
  ASSUME NEW l \in Line
  PROVE  /\ l.ended \in BOOLEAN /\ (~l.ended => l.id = 0)
         /\ l.id # 0 => l \in Anchor
<1>1. CASE l \in Anchor
  BY <1>1 DEF Anchor
<1>2. CASE l = Torn(TRUE)
  BY <1>2, TornType
<1>3. CASE l = Torn(FALSE)
  BY <1>3, TornType
<1> QED  BY <1>1, <1>2, <1>3 DEF Line

\* The file after an append: a torn line that it continues stays torn.
LEMMA Lines ==
  ASSUME NEW f \in Seq(Line), NEW line \in Line
  PROVE  /\ WithLine(f, line) \in Seq(Line)
         /\ \/ /\ Len(WithLine(f, line)) = Len(f)
               /\ \A i \in 1..Len(f) : /\ Parses(WithLine(f, line), i) <=> Parses(f, i)
                                       /\ Parses(f, i) => WithLine(f, line)[i] = f[i]
            \/ /\ Len(WithLine(f, line)) = Len(f) + 1
               /\ WithLine(f, line)[Len(f) + 1] = line
               /\ \A i \in 1..Len(f) : WithLine(f, line)[i] = f[i]
<1>1. CASE f # <<>> /\ ~f[Len(f)].ended
  <2>1. Len(f) \in Nat /\ Len(f) # 0
    BY <1>1, EmptySeq, LenProperties
  <2>2. Len(f) \in 1..Len(f)
    BY <2>1
  <2>3. f[Len(f)] \in Line
    BY <2>2, ElementOfSeq
  <2>4. f[Len(f)].id = 0
    BY <1>1, <2>3, LineType
  <2>5. Torn(line.ended) \in Line /\ Torn(line.ended).id = 0
    BY LineType, TornType
  <2> DEFINE t == Torn(line.ended)
             g == [f EXCEPT ![Len(f)] = t]
  <2>6. WithLine(f, line) = g
    BY <1>1 DEF WithLine
  <2>7. t \in Line /\ t.id = 0
    BY <2>5
  <2> HIDE DEF t
  <2>8. g \in Seq(Line) /\ Len(g) = Len(f)
    BY <2>2, <2>7, ExceptSeq
  <2>9. g[Len(f)] = t /\ \A i \in 1..Len(f) : i # Len(f) => g[i] = f[i]
    BY <2>2, <2>7, ExceptSeq
  <2> HIDE DEF g
  <2>10. \A i \in 1..Len(f) : /\ Parses(g, i) <=> Parses(f, i)
                              /\ Parses(f, i) => g[i] = f[i]
    BY <2>4, <2>7, <2>9 DEF Parses
  <2>11. WithLine(f, line) \in Seq(Line) /\ Len(WithLine(f, line)) = Len(f)
    BY <2>6, <2>8
  <2>12. \A i \in 1..Len(f) : /\ Parses(WithLine(f, line), i) <=> Parses(f, i)
                              /\ Parses(f, i) => WithLine(f, line)[i] = f[i]
    BY <2>6, <2>10
  <2> QED  BY <2>11, <2>12
<1>2. CASE ~(f # <<>> /\ ~f[Len(f)].ended)
  <2>1. WithLine(f, line) = Append(f, line)
    BY <1>2 DEF WithLine
  <2>2. /\ Append(f, line) \in Seq(Line) /\ Len(Append(f, line)) = Len(f) + 1
        /\ Append(f, line)[Len(f) + 1] = line
        /\ \A i \in 1..Len(f) : Append(f, line)[i] = f[i]
    BY AppendProperties
  <2> QED  BY <2>1, <2>2 DEF Parses
<1> QED  BY <1>1, <1>2

\* A line that parses after an append did before it, or is the new one.
LEMMA NewLine ==
  ASSUME NEW f \in Seq(Line), NEW line \in Line,
         NEW i \in 1..Len(WithLine(f, line)), Parses(WithLine(f, line), i)
  PROVE  \/ i \in 1..Len(f) /\ Parses(f, i) /\ WithLine(f, line)[i] = f[i]
         \/ /\ line.id # 0 /\ i = Len(f) + 1 /\ WithLine(f, line)[i] = line
            /\ \A j \in 1..Len(f) : WithLine(f, line)[j] = f[j]
<1> DEFINE g == WithLine(f, line)
<1>0. Len(f) \in Nat
  BY LenProperties
<1>1. CASE /\ Len(g) = Len(f)
           /\ \A j \in 1..Len(f) : /\ Parses(g, j) <=> Parses(f, j)
                                   /\ Parses(f, j) => g[j] = f[j]
  BY <1>1
<1>2. CASE /\ Len(g) = Len(f) + 1 /\ g[Len(f) + 1] = line
           /\ \A j \in 1..Len(f) : g[j] = f[j]
  <2>1. CASE i \in 1..Len(f)
    BY <1>2, <2>1 DEF Parses
  <2>2. CASE i = Len(f) + 1
    BY <1>2, <2>2 DEF Parses
  <2> QED  BY <1>0, <1>2, <2>1, <2>2
<1> QED  BY <1>1, <1>2, Lines

LEMMA InitType == Init => TypeOK
BY IdleType DEF Init, TypeOK, Trail!Init, IdleVerifier, Anchoring, Line

LEMMA NextType == TypeOK /\ [Next]_vars => TypeOK'
<1> SUFFICES ASSUME TypeOK, [Next]_vars PROVE TypeOK'
  OBVIOUS
<1> USE DEF TypeOK
<1>0. /\ log \in Seq(Nat) /\ anchors \in Seq(Line) /\ anchorer \in [Anchorers -> Anchoring]
      /\ verifier.seen \in Seq(Line)
  BY DEF Line, Anchoring
<1>1. CASE RecordEvent
  <2>1. log' = Append(log, Len(log) + 1)
    BY <1>1 DEF RecordEvent, Trail!Record
  <2>2. log' \in Seq(Nat)
    BY <1>0, <2>1
  <2> QED  BY <1>1, <2>2 DEF RecordEvent
<1>2. ASSUME NEW a \in Anchorers, ReadChain(a) PROVE TypeOK'
  <2> DEFINE n == Len(log)
             q == [IdleAnchorer EXCEPT !.pc = "headed", !.total = n, !.head = log]
  <2>1. n \in Nat
    BY <1>0
  <2>2. anchorer' = [anchorer EXCEPT ![a] = q]
    BY <1>2 DEF ReadChain
  <2> HIDE DEF n
  <2>3. q \in Anchoring
    BY <1>0, <2>1, IdleType DEF Anchoring
  <2> HIDE DEF q
  <2>4. anchorer' \in [Anchorers -> Anchoring]
    BY <1>0, <2>2, <2>3
  <2> QED  BY <1>2, <2>4 DEF ReadChain, Anchoring
<1>3. ASSUME NEW a \in Anchorers, ReadAnchors(a) PROVE TypeOK'
  <2>1. CASE anchorer' = [anchorer EXCEPT ![a] = IdleAnchorer]
    <3>1. anchorer' \in [Anchorers -> Anchoring]
      BY <1>0, <2>1, IdleType
    <3> QED  BY <1>3, <3>1 DEF ReadAnchors, Anchoring
  <2>2. ASSUME NEW prev, LinkTo(anchors, Len(anchors) + 1, prev),
               anchorer' = [anchorer EXCEPT ![a].pc = "linked", ![a].prev = prev]
        PROVE  TypeOK'
    <3>1. ASSUME NEW i \in 1..Len(anchors), Parses(anchors, i) PROVE anchors[i].id \in Id
      <4>1. anchors[i] \in Line
        BY <1>0
      <4> QED  BY <3>1, <4>1, LineType DEF Parses, Anchor
    <3>2. prev \in Id \cup {None}
      BY <1>0, <2>2, <3>1 DEF LinkTo, LastBefore
    <3> DEFINE q == [anchorer[a] EXCEPT !.pc = "linked", !.prev = prev]
    <3>3. q \in Anchoring
      <4>1. anchorer[a] \in Anchoring
        BY <1>0
      <4> QED  BY <3>2, <4>1 DEF Anchoring
    <3>4. anchorer' = [anchorer EXCEPT ![a] = q]
      BY <1>0, <2>2
    <3> HIDE DEF q
    <3>5. anchorer' \in [Anchorers -> Anchoring]
      BY <1>0, <3>3, <3>4
    <3> QED  BY <1>3, <3>5 DEF ReadAnchors, Anchoring
  <2> QED  BY <1>3, <2>1, <2>2 DEF ReadAnchors
<1>4. ASSUME NEW a \in Anchorers, AppendAnchor(a) PROVE TypeOK'
  <2> DEFINE line == [id |-> made + 1, total |-> anchorer[a].total, head |-> anchorer[a].head,
                      prev |-> anchorer[a].prev, ended |-> TRUE]
  <2>1. line \in Line
    <3>1. anchorer[a] \in Anchoring /\ made + 1 \in Id
      BY <1>0 DEF Id
    <3>2. line \in Anchor
      BY <3>1 DEF Anchor, Anchoring
    <3> QED  BY <3>2 DEF Line
  <2>2. anchors' = WithLine(anchors, line)
    BY <1>4 DEF AppendAnchor
  <2> HIDE DEF line
  <2>3. anchors' \in Seq(Line)
    BY <1>0, <2>1, <2>2, Lines
  <2>4. anchorer' \in [Anchorers -> Anchoring]
    BY <1>0, <1>4, ZenonT(40) DEF AppendAnchor, Anchoring
  <2> QED  BY <1>4, <2>3, <2>4, SMTT(30) DEF AppendAnchor, Anchoring, Line
<1>5. ASSUME NEW a \in Anchorers, AppendTears(a) PROVE TypeOK'
  <2>1. anchors' \in Seq(Line)
    BY <1>0, <1>5, TornType, Lines DEF AppendTears
  <2>2. anchorer' \in [Anchorers -> Anchoring] /\ faults' \in Nat
    BY <1>0, <1>5, IdleType DEF AppendTears
  <2> QED  BY <1>5, <2>1, <2>2 DEF AppendTears, Anchoring, Line
<1>6. ASSUME NEW a \in Anchorers, CommitAnchor(a) \/ Stop(a) PROVE TypeOK'
  <2>1. anchorer' \in [Anchorers -> Anchoring]
    BY <1>0, <1>6, IdleType DEF CommitAnchor, Stop
  <2>2. committed' \in Nat /\ faults' \in Nat
    BY <1>0, <1>6 DEF CommitAnchor, Stop
  <2> QED  BY <1>6, <2>1, <2>2 DEF CommitAnchor, Stop, Anchoring
<1>7. CASE VerifyAnchors
  BY <1>7 DEF VerifyAnchors, IdleVerifier
<1>8. CASE VerifyCount
  <2>1. Len(log) \in Nat
    BY <1>0
  <2> QED  BY <1>8, <2>1 DEF VerifyCount
<1>9. CASE VerifyLines
  <2> DEFINE b == Breaks(verifier.seen, verifier.count, log)
  <2>1. Len(verifier.seen) \in Nat
    BY <1>0
  <2>2. b \in SUBSET ((Nat \ {0}) \X {"malformed", "link", "history"})
    BY <2>1 DEF Breaks
  <2>3. verifier' = [verifier EXCEPT !.pc = "idle", !.breaks = b]
    BY <1>9 DEF VerifyLines
  <2> HIDE DEF b
  <2> QED  BY <1>9, <2>2, <2>3 DEF VerifyLines
<1>10. CASE UNCHANGED vars
  BY <1>10 DEF vars
<1> QED  BY <1>1, <1>2, <1>3, <1>4, <1>5, <1>6, <1>7, <1>8, <1>9, <1>10 DEF Next, AnchorStep

\* The variables keep their types, for any number of processes.
THEOREM TypeCorrect == Spec => []TypeOK
BY InitType, NextType, PTL DEF Spec

-----------------------------------------------------------------------------
(* What is anchored is a prefix of the chain *)

\* The chain only grows, so a prefix of it stays one.
LEMMA PrefixStays ==
  ASSUME NEW s \in Seq(Nat), NEW e \in Nat, NEW n \in Nat, n <= Len(s)
  PROVE  n <= Len(Append(s, e)) /\ SubSeq(Append(s, e), 1, n) = SubSeq(s, 1, n)
<1> DEFINE t == Append(s, e)
<1>1. t \in Seq(Nat) /\ Len(t) = Len(s) + 1 /\ \A i \in 1..Len(s) : t[i] = s[i]
  BY AppendProperties
<1>2. Len(s) \in Nat
  BY LenProperties
<1> HIDE DEF t
<1>3. /\ SubSeq(t, 1, n) \in Seq(Nat) /\ Len(SubSeq(t, 1, n)) = n
      /\ SubSeq(s, 1, n) \in Seq(Nat) /\ Len(SubSeq(s, 1, n)) = n
  BY <1>1, <1>2, SMTT(30)
<1>4. \A i \in 1..n : SubSeq(t, 1, n)[i] = SubSeq(s, 1, n)[i]
  BY <1>1, <1>2
<1>5. SubSeq(t, 1, n) = SubSeq(s, 1, n)
  BY <1>3, <1>4, SeqEqual
<1> QED  BY <1>1, <1>2, <1>5 DEF t

LEMMA Parsed ==
  ASSUME NEW f \in Seq(Line), NEW i \in 1..Len(f), Parses(f, i)
  PROVE  f[i] \in Anchor /\ f[i].id \in Id
<1>1. f[i] \in Line
  BY ElementOfSeq
<1> QED  BY <1>1, LineType DEF Parses, Anchor

LEMMA InitRooted == Init => Rooted /\ Counted
BY DEF Init, Rooted, Counted, AllPrefix, IdleVerifier, IdleAnchorer, Trail!Init

LEMMA NextRooted == TypeOK /\ Rooted /\ Counted /\ [Next]_vars => Rooted' /\ Counted'
<1> SUFFICES ASSUME TypeOK, Rooted, Counted, [Next]_vars PROVE Rooted' /\ Counted'
  OBVIOUS
<1>0. /\ log \in Seq(Nat) /\ anchors \in Seq(Line) /\ anchorer \in [Anchorers -> Anchoring]
      /\ verifier.seen \in Seq(Line) /\ verifier.count \in Nat /\ Len(log) \in Nat
  BY DEF TypeOK, Line, Anchoring
<1>1. CASE RecordEvent
  <2>1. log' = Append(log, Len(log) + 1)
    BY <1>1 DEF RecordEvent, Trail!Record
  <2>2. ASSUME NEW rec, rec.total \in Nat, Prefix(rec) PROVE Prefix(rec)'
    BY <1>0, <2>1, <2>2, PrefixStays DEF Prefix
  <2>3. ASSUME NEW f \in Seq(Line), AllPrefix(f) PROVE AllPrefix(f)'
    <3> SUFFICES ASSUME NEW i \in 1..Len(f), Parses(f, i) PROVE Prefix(f[i])'
      BY DEF AllPrefix, Parses
    <3>1. f[i].total \in Nat
      BY Parsed DEF Anchor
    <3> QED  BY <2>2, <2>3, <3>1 DEF AllPrefix
  <2>4. UNCHANGED <<anchors, anchorer, verifier>>
    BY <1>1 DEF RecordEvent
  <2>5. AllPrefix(anchors)' /\ AllPrefix(verifier.seen)'
    BY <1>0, <2>3, <2>4 DEF Rooted
  <2>6. ASSUME NEW a \in Anchorers, anchorer[a].pc # "idle" PROVE Prefix(anchorer[a])'
    <3>1. anchorer[a].total \in Nat
      BY <1>0 DEF Anchoring
    <3> QED  BY <2>2, <2>4, <2>6, <3>1 DEF Rooted
  <2>7. Counted'
    BY <1>0, <2>1, <2>4, AppendProperties DEF Counted, Parses
  <2> QED  BY <2>4, <2>5, <2>6, <2>7 DEF Rooted
<1>2. ASSUME NEW a \in Anchorers, ReadChain(a) PROVE Rooted' /\ Counted'
  <2>1. Prefix(anchorer'[a])
    BY <1>0, <1>2 DEF ReadChain, Prefix, IdleAnchorer
  <2> QED  BY <1>0, <1>2, <2>1 DEF ReadChain, Rooted, Counted, AllPrefix, Prefix, Parses
<1>3. ASSUME NEW a \in Anchorers,
             anchorer'[a].pc # "idle" => Prefix(anchorer'[a]),
             \A c \in Anchorers : c # a => anchorer'[c] = anchorer[c],
             UNCHANGED <<log, verifier>>,
             AllPrefix(anchors)'
      PROVE  Rooted' /\ Counted'
  <2>1. AllPrefix(verifier.seen)' /\ Counted'
    BY <1>3 DEF Rooted, Counted, AllPrefix, Prefix, Parses
  <2>2. ASSUME NEW c \in Anchorers, anchorer'[c].pc # "idle" PROVE Prefix(anchorer[c])'
    BY <1>3, <2>2 DEF Rooted, Prefix
  <2> QED  BY <1>3, <2>1, <2>2 DEF Rooted
<1>4. ASSUME NEW a \in Anchorers, ReadAnchors(a) PROVE Rooted' /\ Counted'
  <2>1. UNCHANGED <<log, anchors, verifier>> /\ Prefix(anchorer[a])
    BY <1>4 DEF ReadAnchors, Rooted
  <2>2. AllPrefix(anchors)'
    BY <2>1 DEF Rooted, AllPrefix, Prefix, Parses
  <2>3. CASE anchorer' = [anchorer EXCEPT ![a] = IdleAnchorer]
    <3>1. anchorer'[a].pc = "idle" /\ \A c \in Anchorers : c # a => anchorer'[c] = anchorer[c]
      BY <1>0, <2>3 DEF IdleAnchorer
    <3> QED  BY <1>3, <2>1, <2>2, <3>1
  <2>4. ASSUME NEW prev, anchorer' = [anchorer EXCEPT ![a].pc = "linked", ![a].prev = prev]
        PROVE  Rooted' /\ Counted'
    <3>1. /\ anchorer'[a].total = anchorer[a].total /\ anchorer'[a].head = anchorer[a].head
          /\ \A c \in Anchorers : c # a => anchorer'[c] = anchorer[c]
      BY <1>0, <2>4 DEF Anchoring
    <3>2. Prefix(anchorer'[a])
      BY <2>1, <3>1 DEF Prefix
    <3> QED  BY <1>3, <2>1, <2>2, <3>1, <3>2
  <2> QED  BY <1>4, <2>3, <2>4 DEF ReadAnchors
<1>5. ASSUME NEW a \in Anchorers, AppendAnchor(a) PROVE Rooted' /\ Counted'
  <2> DEFINE line == [id |-> made + 1, total |-> anchorer[a].total, head |-> anchorer[a].head,
                      prev |-> anchorer[a].prev, ended |-> TRUE]
  <2>1. /\ UNCHANGED <<log, verifier>> /\ anchors' = WithLine(anchors, line)
        /\ anchorer' = [anchorer EXCEPT ![a].pc = "appended"] /\ Prefix(anchorer[a])
    BY <1>5 DEF AppendAnchor, Rooted
  <2>2. line \in Line
    <3>1. anchorer[a] \in Anchoring /\ made + 1 \in Id
      BY <1>0 DEF TypeOK, Id
    <3>2. line \in Anchor
      BY <3>1 DEF Anchor, Anchoring
    <3> QED  BY <3>2 DEF Line
  <2>3. Prefix(line)
    BY <2>1 DEF Prefix
  <2> HIDE DEF line
  <2>4. \A i \in 1..Len(anchors') : Parses(anchors', i) => Prefix(anchors'[i])
    BY <1>0, <2>1, <2>2, <2>3, NewLine, SMTT(30) DEF Rooted, AllPrefix
  <2>5. AllPrefix(anchors)'
    BY <2>1, <2>4 DEF AllPrefix, Prefix, Parses
  <2>6. /\ anchorer'[a].total = anchorer[a].total /\ anchorer'[a].head = anchorer[a].head
        /\ \A c \in Anchorers : c # a => anchorer'[c] = anchorer[c]
    BY <1>0, <2>1 DEF Anchoring
  <2>7. Prefix(anchorer'[a])
    BY <2>1, <2>6 DEF Prefix
  <2> QED  BY <1>3, <2>1, <2>5, <2>6, <2>7
<1>6. ASSUME NEW a \in Anchorers, AppendTears(a) \/ CommitAnchor(a) \/ Stop(a)
      PROVE  Rooted' /\ Counted'
  <2>1. /\ UNCHANGED <<log, verifier>> /\ anchorer'[a].pc = "idle"
        /\ \A c \in Anchorers : c # a => anchorer'[c] = anchorer[c]
    <3>1. anchorer' = [anchorer EXCEPT ![a] = IdleAnchorer] /\ UNCHANGED <<log, verifier>>
      BY <1>6 DEF AppendTears, CommitAnchor, Stop
    <3> QED  BY <1>0, <3>1 DEF IdleAnchorer
  <2>2. CASE AppendTears(a)
    <3>1. anchors' = WithLine(anchors, Torn(FALSE)) /\ Torn(FALSE) \in Line /\ Torn(FALSE).id = 0
      BY <2>2, TornType DEF AppendTears
    <3>2. \A i \in 1..Len(anchors') : Parses(anchors', i) => Prefix(anchors'[i])
      BY <1>0, <3>1, NewLine DEF Rooted, AllPrefix
    <3>3. AllPrefix(anchors)'
      BY <2>1, <3>2 DEF AllPrefix, Prefix, Parses
    <3> QED  BY <1>3, <2>1, <3>3
  <2>3. CASE CommitAnchor(a) \/ Stop(a)
    <3>1. AllPrefix(anchors)'
      BY <2>1, <2>3 DEF CommitAnchor, Stop, Rooted, AllPrefix, Prefix, Parses
    <3> QED  BY <1>3, <2>1, <3>1
  <2> QED  BY <1>6, <2>2, <2>3
<1>7. CASE VerifyAnchors
  BY <1>7 DEF VerifyAnchors, IdleVerifier, Rooted, Counted, AllPrefix, Prefix, Parses
<1>8. CASE VerifyCount
  BY <1>0, <1>8 DEF VerifyCount, TypeOK, Rooted, Counted, AllPrefix, Prefix, Parses
<1>9. CASE VerifyLines
  BY <1>0, <1>9 DEF VerifyLines, TypeOK, Rooted, Counted, AllPrefix, Prefix, Parses
<1>10. CASE UNCHANGED vars
  BY <1>10 DEF vars, Rooted, Counted, AllPrefix, Prefix, Parses
<1> QED  BY <1>1, <1>2, <1>4, <1>5, <1>6, <1>7, <1>8, <1>9, <1>10 DEF Next, AnchorStep

\* A history in which the last anchored event, or one before it, is gone
\* or another one is reported.
LEMMA RootedDetects == TypeOK /\ Rooted => HistoryChangeDetected
<1> SUFFICES ASSUME TypeOK, Rooted,
                    NEW i \in 1..Len(anchors), LastBefore(anchors, Len(anchors) + 1, i),
                    NEW n \in 0..Len(log), NEW trail \in [1..n -> {0} \cup Events],
                    n < anchors[i].total \/ \E k \in 1..anchors[i].total : trail[k] # log[k]
             PROVE  Breaks(anchors, n, trail) # {}
  BY DEF HistoryChangeDetected
<1>1. /\ log \in Seq(Nat) /\ anchors \in Seq(Line) /\ Len(log) \in Nat
      /\ Parses(anchors, i)
  BY DEF TypeOK, Line, LastBefore
<1>2. Prefix(anchors[i]) /\ anchors[i].total \in Nat
  BY <1>1, Parsed DEF Rooted, AllPrefix, Anchor
<1>3. HistoryBreak(anchors[i], n, trail)
  <2>1. CASE n < anchors[i].total
    BY <2>1 DEF HistoryBreak
  <2>2. CASE ~(n < anchors[i].total)
    <3>1. PICK k \in 1..anchors[i].total : trail[k] # log[k]
      BY <2>2
    <3>2. trail \in Seq({0} \cup Events) /\ Len(trail) = n
      BY DEF Events
    <3>3. SubSeq(trail, 1, anchors[i].total)[k] = trail[k]
      BY <1>2, <2>2, <3>2
    <3>4. SubSeq(log, 1, anchors[i].total)[k] = log[k]
      BY <1>1, <1>2 DEF Prefix
    <3> QED  BY <1>2, <3>1, <3>3, <3>4 DEF HistoryBreak, Prefix
  <2> QED  BY <2>1, <2>2
<1>4. <<i, "history">> \in Breaks(anchors, n, trail)
  BY <1>1, <1>3 DEF Breaks
<1> QED  BY <1>4

\* The witness stays a witness: however many processes anchor, whatever
\* fails, a chain that was cut or rewritten at or before the last anchored
\* event is reported.
THEOREM TamperingIsReported == Spec => []HistoryChangeDetected
<1>1. Init => TypeOK /\ Rooted /\ Counted
  BY InitType, InitRooted
<1>2. TypeOK /\ Rooted /\ Counted /\ [Next]_vars => (TypeOK /\ Rooted /\ Counted)'
  BY NextType, NextRooted
<1>3. TypeOK /\ Rooted /\ Counted => HistoryChangeDetected
  BY RootedDetects
<1> QED  BY <1>1, <1>2, <1>3, PTL DEF Spec

-----------------------------------------------------------------------------
(* Every line links to the one before it, while calls do not overlap *)

\* A link depends only on the lines before it that parse.
LEMMA SameLink ==
  ASSUME NEW f, NEW g, NEW n \in Nat, NEW p, LinkTo(f, n, p),
         \A j \in 1 .. n - 1 : /\ Parses(g, j) <=> Parses(f, j)
                               /\ Parses(f, j) => g[j] = f[j]
  PROVE  LinkTo(g, n, p)
<1>1. CASE \E i \in 1 .. n - 1 : LastBefore(f, n, i) /\ p = f[i].id
  <2>1. PICK i \in 1 .. n - 1 : LastBefore(f, n, i) /\ p = f[i].id
    BY <1>1
  <2>2. \A j \in i + 1 .. n - 1 : j \in 1 .. n - 1
    BY <2>1 DEF LastBefore
  <2>3. LastBefore(g, n, i) /\ p = g[i].id
    BY <2>1, <2>2 DEF LastBefore
  <2> QED  BY <2>3 DEF LinkTo
<1>2. CASE (\A i \in 1 .. n - 1 : ~Parses(f, i)) /\ p = None
  BY <1>2 DEF LinkTo
<1> QED  BY <1>1, <1>2 DEF LinkTo

\* A file stays chained when a torn line or one that links to its end is
\* appended to it.
LEMMA ChainedStays ==
  ASSUME NEW f \in Seq(Line), NEW line \in Line, Chained(f),
         line.id # 0 => LinkTo(f, Len(f) + 1, line.prev)
  PROVE  Chained(WithLine(f, line))
<1> SUFFICES ASSUME NEW i \in 1..Len(WithLine(f, line)), Parses(WithLine(f, line), i)
             PROVE  LinkTo(WithLine(f, line), i, WithLine(f, line)[i].prev)
  BY DEF Chained
<1> DEFINE g == WithLine(f, line)
<1>0. Len(f) \in Nat
  BY LenProperties
<1>1. \A j \in 1..Len(f) : /\ Parses(g, j) <=> Parses(f, j)
                           /\ Parses(f, j) => g[j] = f[j]
  BY Lines DEF Parses
<1>2. CASE i \in 1..Len(f) /\ Parses(f, i) /\ g[i] = f[i]
  <2>1. LinkTo(f, i, f[i].prev)
    BY <1>2 DEF Chained
  <2>2. \A j \in 1 .. i - 1 : j \in 1..Len(f)
    BY <1>0, <1>2
  <2> HIDE DEF g
  <2>3. LinkTo(g, i, g[i].prev)
    BY <1>1, <1>2, <2>1, <2>2, SameLink
  <2> QED  BY <2>3 DEF g
<1>3. CASE line.id # 0 /\ i = Len(f) + 1 /\ g[i] = line
  <2>1. \A j \in 1 .. i - 1 : j \in 1..Len(f)
    BY <1>0, <1>3
  <2> HIDE DEF g
  <2>2. LinkTo(g, i, line.prev)
    BY <1>1, <1>3, <2>1, SameLink
  <2> QED  BY <1>3, <2>2 DEF g
<1> QED  BY <1>2, <1>3, NewLine

LEMMA InitLinked == Init => Linked /\ OnlyTornReported
BY DEF Init, Linked, Chained, OnlyTornReported, IdleVerifier, IdleAnchorer

LEMMA NextLinked ==
  ASSUME TypeOK, Rooted, Counted, Linked, OneAtATime, [Next]_vars
  PROVE  Linked'
<1>0. /\ anchors \in Seq(Line) /\ anchorer \in [Anchorers -> Anchoring] /\ Len(anchors) \in Nat
  BY DEF TypeOK, Line, Anchoring
<1>1. CASE RecordEvent \/ VerifyCount \/ VerifyLines \/ UNCHANGED vars
  <2>1. UNCHANGED <<anchors, anchorer>> /\ verifier'.seen = verifier.seen
    BY <1>1 DEF RecordEvent, VerifyCount, VerifyLines, vars, TypeOK
  <2> QED  BY <2>1, SMTT(30) DEF Linked, Chained, LinkTo, LastBefore, Parses
<1>2. CASE VerifyAnchors
  <2>1. UNCHANGED <<anchors, anchorer>> /\ verifier'.seen = anchors
    BY <1>2 DEF VerifyAnchors, IdleVerifier
  <2> QED  BY <2>1 DEF Linked, Chained, LinkTo, LastBefore, Parses
<1>3. ASSUME NEW a \in Anchorers, UNCHANGED <<anchors, verifier>>,
             anchorer'[a].pc = "linked" => LinkTo(anchors, Len(anchors) + 1, anchorer'[a].prev),
             \A c \in Anchorers : c # a => anchorer'[c] = anchorer[c]
      PROVE  Linked'
  <2>1. \A c \in Anchorers :
           anchorer'[c].pc = "linked" => LinkTo(anchors, Len(anchors) + 1, anchorer'[c].prev)
    BY <1>3 DEF Linked
  <2> QED  BY <1>3, <2>1 DEF Linked, Chained, LinkTo, LastBefore, Parses
<1>4. ASSUME NEW a \in Anchorers, ReadChain(a) \/ CommitAnchor(a) \/ Stop(a) PROVE Linked'
  <2>1. ASSUME NEW q, anchorer' = [anchorer EXCEPT ![a] = q], q.pc # "linked",
               UNCHANGED <<anchors, verifier>>
        PROVE  Linked'
    <3>1. anchorer'[a] = q /\ \A c \in Anchorers : c # a => anchorer'[c] = anchorer[c]
      BY <1>0, <2>1
    <3> QED  BY <1>3, <2>1, <3>1
  <2>2. IdleAnchorer.pc # "linked"
    BY DEF IdleAnchorer
  <2>3. CASE ReadChain(a)
    <3> DEFINE q == [IdleAnchorer EXCEPT !.pc = "headed", !.total = Len(log), !.head = log]
    <3>1. q.pc # "linked"
      BY DEF IdleAnchorer
    <3>2. anchorer' = [anchorer EXCEPT ![a] = q] /\ UNCHANGED <<anchors, verifier>>
      BY <2>3 DEF ReadChain
    <3> HIDE DEF q
    <3> QED  BY <2>1, <3>1, <3>2
  <2>4. CASE CommitAnchor(a) \/ Stop(a)
    <3>1. anchorer' = [anchorer EXCEPT ![a] = IdleAnchorer] /\ UNCHANGED <<anchors, verifier>>
      BY <2>4 DEF CommitAnchor, Stop
    <3> QED  BY <2>1, <2>2, <3>1
  <2> QED  BY <1>4, <2>3, <2>4
<1>5. ASSUME NEW a \in Anchorers, ReadAnchors(a) PROVE Linked'
  <2>1. UNCHANGED <<anchors, verifier>>
    BY <1>5 DEF ReadAnchors
  <2>2. CASE anchorer' = [anchorer EXCEPT ![a] = IdleAnchorer]
    <3>1. anchorer'[a].pc = "idle" /\ \A c \in Anchorers : c # a => anchorer'[c] = anchorer[c]
      BY <1>0, <2>2 DEF IdleAnchorer
    <3> QED  BY <1>3, <2>1, <3>1
  <2>3. ASSUME NEW prev, LinkTo(anchors, Len(anchors) + 1, prev),
               anchorer' = [anchorer EXCEPT ![a].pc = "linked", ![a].prev = prev]
        PROVE  Linked'
    <3>1. anchorer'[a].prev = prev /\ \A c \in Anchorers : c # a => anchorer'[c] = anchorer[c]
      BY <1>0, <2>3 DEF Anchoring
    <3> QED  BY <1>3, <2>1, <2>3, <3>1
  <2> QED  BY <1>5, <2>2, <2>3 DEF ReadAnchors
<1>6. ASSUME NEW a \in Anchorers, NEW line \in Line, anchors' = WithLine(anchors, line),
             line.id # 0 => LinkTo(anchors, Len(anchors) + 1, line.prev),
             anchorer[a].pc = "linked", anchorer'[a].pc # "linked", UNCHANGED verifier,
             \A c \in Anchorers : c # a => anchorer'[c] = anchorer[c]
      PROVE  Linked'
  <2>1. Chained(anchors)'
    <3>1. Chained(WithLine(anchors, line))
      BY <1>0, <1>6, ChainedStays DEF Linked
    <3> QED  BY <1>6, <3>1 DEF Chained, LinkTo, LastBefore, Parses
  <2>2. \A c \in Anchorers : anchorer'[c].pc # "linked"
    BY <1>6 DEF OneAtATime
  <2> QED  BY <1>6, <2>1, <2>2 DEF Linked, Chained, LinkTo, LastBefore, Parses
<1>7. ASSUME NEW a \in Anchorers, AppendAnchor(a) PROVE Linked'
  <2> DEFINE line == [id |-> made + 1, total |-> anchorer[a].total, head |-> anchorer[a].head,
                      prev |-> anchorer[a].prev, ended |-> TRUE]
  <2>1. /\ UNCHANGED verifier /\ anchors' = WithLine(anchors, line)
        /\ anchorer' = [anchorer EXCEPT ![a].pc = "appended"] /\ anchorer[a].pc = "linked"
        /\ LinkTo(anchors, Len(anchors) + 1, line.prev)
    BY <1>7 DEF AppendAnchor, Linked
  <2>2. line \in Line
    <3>1. anchorer[a] \in Anchoring /\ made + 1 \in Id
      BY <1>0 DEF TypeOK, Id
    <3>2. line \in Anchor
      BY <3>1 DEF Anchor, Anchoring
    <3> QED  BY <3>2 DEF Line
  <2> HIDE DEF line
  <2>3. anchorer'[a].pc = "appended" /\ \A c \in Anchorers : c # a => anchorer'[c] = anchorer[c]
    BY <1>0, <2>1 DEF Anchoring
  <2> QED  BY <1>6, <2>1, <2>2, <2>3
<1>8. ASSUME NEW a \in Anchorers, AppendTears(a) PROVE Linked'
  <2>1. anchors' = WithLine(anchors, Torn(FALSE)) /\ Torn(FALSE) \in Line /\ Torn(FALSE).id = 0
    BY <1>8, TornType DEF AppendTears
  <2>2. /\ UNCHANGED verifier /\ anchorer[a].pc = "linked"
        /\ anchorer' = [anchorer EXCEPT ![a] = IdleAnchorer]
    BY <1>8 DEF AppendTears
  <2>3. anchorer'[a].pc # "linked" /\ \A c \in Anchorers : c # a => anchorer'[c] = anchorer[c]
    BY <1>0, <2>2 DEF IdleAnchorer
  <2> QED  BY <1>6, <2>1, <2>2, <2>3
<1> QED  BY <1>1, <1>2, <1>4, <1>5, <1>7, <1>8 DEF Next, AnchorStep

\* Only VerifyLines reports; what it has read is chained, rooted and counted.
LEMMA NextReported ==
  ASSUME TypeOK, Rooted, Counted, Linked, OnlyTornReported, [Next]_vars
  PROVE  OnlyTornReported'
<1>1. CASE VerifyLines
  <2> DEFINE bs == Breaks(verifier.seen, verifier.count, log)
  <2>1. verifier'.breaks = bs /\ verifier.pc = "counted" /\ verifier.seen \in Seq(Line)
    BY <1>1 DEF VerifyLines, TypeOK, Line
  <2>2. ASSUME NEW b \in bs PROVE b[2] = "malformed"
    <3>1. b[1] \in 1..Len(verifier.seen)
      BY DEF Breaks
    <3>2. ASSUME Parses(verifier.seen, b[1])
          PROVE  ~LinkBreak(verifier.seen, b[1]) /\ ~HistoryBreak(verifier.seen[b[1]], verifier.count, log)
      <4>1. LinkTo(verifier.seen, b[1], verifier.seen[b[1]].prev)
        BY <3>1, <3>2 DEF Linked, Chained
      <4>2. Prefix(verifier.seen[b[1]]) /\ verifier.seen[b[1]].total <= verifier.count
        BY <2>1, <3>1, <3>2 DEF Rooted, AllPrefix, Counted
      <4>3. verifier.seen[b[1]].total \in Nat /\ verifier.count \in Nat
        BY <2>1, <3>1, <3>2, Parsed DEF Anchor, TypeOK
      <4> QED  BY <4>1, <4>2, <4>3 DEF LinkBreak, HistoryBreak, Prefix
    <3> QED  BY <3>2 DEF Breaks
  <2> QED  BY <2>1, <2>2 DEF OnlyTornReported
<1>2. CASE VerifyAnchors
  BY <1>2 DEF VerifyAnchors, IdleVerifier, OnlyTornReported
<1>3. CASE VerifyCount
  BY <1>3 DEF VerifyCount, TypeOK, OnlyTornReported
<1>4. CASE UNCHANGED verifier
  BY <1>4 DEF OnlyTornReported
<1>5. ASSUME NEW a \in Anchorers, AnchorStep(a) \/ AppendTears(a) \/ Stop(a) PROVE UNCHANGED verifier
  BY <1>5 DEF AnchorStep, ReadChain, ReadAnchors, AppendAnchor, CommitAnchor, AppendTears, Stop
<1>6. RecordEvent \/ UNCHANGED vars => UNCHANGED verifier
  BY DEF RecordEvent, vars
<1> QED  BY <1>1, <1>2, <1>3, <1>4, <1>5, <1>6 DEF Next

\* No false alarm: as long as no two processes are anchoring at once, a
\* verification that runs while events and anchors are written reports only
\* lines a failed append has torn.
THEOREM NoFalseBreak == Spec /\ []OneAtATime => []OnlyTornReported
<1> DEFINE Inv == TypeOK /\ Rooted /\ Counted /\ Linked /\ OnlyTornReported
<1>1. Init => Inv
  BY InitType, InitRooted, InitLinked
<1>2. Inv /\ OneAtATime /\ [Next]_vars => Inv'
  BY NextType, NextRooted, NextLinked, NextReported
<1>3. Inv => OnlyTornReported
  OBVIOUS
<1> QED  BY <1>1, <1>2, <1>3, PTL DEF Spec
=============================================================================
