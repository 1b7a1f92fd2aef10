-------------------------- MODULE TraceChainProofs --------------------------
(***************************************************************************)
(* Theorems about TraceChain, for every set of writers, every number of    *)
(* days and calls, with midnights and short writes anywhere.  The last     *)
(* part proves that the day files implement AuditLog.                      *)
(***************************************************************************)
EXTENDS MCTraceChain, SequenceTheorems, WellFoundedInduction, TLAPS

(* Numbers and sequences *)

(* A set of numbers that is not empty has a least member: what a proof by  *)
(* contradiction over numbers needs.                                       *)
LEMMA LeastNat ==
    ASSUME NEW T, T \subseteq Nat, T # {}
    PROVE  \E m \in T : \A k \in T : m <= k
<1>1. PICK m \in T : \A k \in T : ~(<<k, m>> \in OpToRel(<, Nat))
  BY NatLessThanWellFounded, WFMin
<1>2. ASSUME NEW k \in T PROVE m <= k
  <2>1. m \in Nat /\ k \in Nat /\ ~(k < m)
    BY <1>1 DEF OpToRel
  <2>2. QED
    BY <2>1
<1>3. QED
  BY <1>1, <1>2

(* F is the sequence of the concatenations of the first i members of s. *)
Sums(s, k, F) ==
    /\ DOMAIN F = 1..k
    /\ F[1] = s[1]
    /\ \A i \in 2..k : F[i] = F[i - 1] \o s[i]

(* The sums of the first members exist for every sequence of sequences. *)
LEMMA SumsExist ==
    ASSUME NEW S, NEW n \in Nat \ {0}, NEW s \in [1..n -> Seq(S)]
    PROVE  \E F \in [1..n -> Seq(S)] : Sums(s, n, F)
<1> DEFINE T == {k \in 1..n : ~ \E F \in [1..k -> Seq(S)] : Sums(s, k, F)}
<1>1. CASE T = {}
  BY <1>1
<1>2. CASE T # {}
  <2>0. T \subseteq Nat
    OBVIOUS
  <2>1. PICK m \in T : \A k \in T : m <= k
    <3> HIDE DEF T
    <3>1. QED
      BY <1>2, <2>0, LeastNat
  <2>2. m \in 1..n /\ ~ \E F \in [1..m -> Seq(S)] : Sums(s, m, F)
    BY <2>1
  <2>3. CASE m = 1
    <3> DEFINE F == [i \in 1..1 |-> s[1]]
    <3>1. s[1] \in Seq(S) /\ DOMAIN F = 1..1 /\ F[1] = s[1]
      BY <2>2
    <3>2. \A i \in 2..1 : FALSE
      OBVIOUS
    <3>3. F \in [1..1 -> Seq(S)]
      BY <3>1
    <3> HIDE DEF F
    <3>4. Sums(s, 1, F)
      BY <3>1, <3>2 DEF Sums
    <3>5. QED
      BY <2>2, <2>3, <3>3, <3>4
  <2>4. CASE m # 1
    <3>1. m - 1 \in 1..n /\ m - 1 \notin T
      BY <2>1, <2>2, <2>4
    <3>2. PICK G \in [1..(m - 1) -> Seq(S)] : Sums(s, m - 1, G)
      BY <3>1
    <3> DEFINE g == G[m - 1] \o s[m]
               F == [i \in 1..m |-> IF i = m THEN g ELSE G[i]]
    <3>3. g \in Seq(S)
      <4>1. G[m - 1] \in Seq(S) /\ s[m] \in Seq(S)
        BY <2>2, <3>1, <3>2
      <4>2. QED
        BY <4>1, ConcatProperties
    <3>4. F[m - 1] = G[m - 1] /\ F[m] = g /\ F[1] = G[1]
      BY <2>2, <2>4, <3>1
    <3>5. \A i \in 1..m - 1 : F[i] = G[i]
      BY <2>2
    <3>6. F \in [1..m -> Seq(S)]
      <4> HIDE DEF g
      <4>1. QED
        BY <2>2, <3>2, <3>3
    <3>7. DOMAIN F = 1..m
      OBVIOUS
    <3>8. F[m] = F[m - 1] \o s[m]
      BY <3>4
    <3> HIDE DEF F, g
    <3>9. Sums(s, m, F)
      <4>1. ASSUME NEW i \in 2..m PROVE F[i] = F[i - 1] \o s[i]
        <5>1. CASE i = m
          BY <3>8, <5>1
        <5>2. CASE i # m
          <6>1. i \in 2..(m - 1) /\ i \in 1..(m - 1) /\ i - 1 \in 1..(m - 1)
            BY <2>2, <4>1, <5>2
          <6>2. G[i] = G[i - 1] \o s[i]
            BY <3>2, <6>1 DEF Sums
          <6>3. QED
            BY <3>5, <6>1, <6>2
        <5>3. QED
          BY <5>1, <5>2
      <4>2. F[1] = s[1]
        BY <3>2, <3>4 DEF Sums
      <4>3. QED
        BY <3>7, <4>1, <4>2 DEF Sums
    <3>10. QED
      BY <2>2, <3>6, <3>9
  <2>5. QED
    BY <2>3, <2>4
<1>3. QED
  BY <1>1, <1>2

(* FlattenSeq is the last of the sums. *)
LEMMA FlattenSums ==
    ASSUME NEW S, NEW n \in Nat \ {0}, NEW s \in [1..n -> Seq(S)]
    PROVE  \E F \in [1..n -> Seq(S)] : Sums(s, n, F) /\ FlattenSeq(s) = F[n]
<1>1. PICK F \in [1..n -> Seq(S)] : Sums(s, n, F)
  BY SumsExist
<1>2. s \in Seq(Seq(S)) /\ Len(s) = n
  OBVIOUS
<1> DEFINE Rec(g) == g = [i \in 1..Len(s) |-> IF i = 1 THEN s[i] ELSE g[i - 1] \o s[i]]
           G == CHOOSE g : Rec(g)
<1>3. Rec(F)
  <2>1. \A i \in 1..n : F[i] = IF i = 1 THEN s[i] ELSE F[i - 1] \o s[i]
    <3>1. ASSUME NEW i \in 1..n, i # 1 PROVE F[i] = F[i - 1] \o s[i]
      <4>1. i \in 2..n
        BY <3>1
      <4>2. QED
        BY <1>1, <4>1 DEF Sums
    <3>2. F[1] = s[1]
      BY <1>1 DEF Sums
    <3>3. QED
      BY <3>1, <3>2
  <2> DEFINE H == [i \in 1..n |-> IF i = 1 THEN s[i] ELSE F[i - 1] \o s[i]]
  <2>2. DOMAIN F = 1..n /\ DOMAIN H = 1..n /\ \A i \in 1..n : F[i] = H[i]
    BY <1>1, <2>1 DEF Sums
  <2>3. F = H
    BY <1>1, <2>2
  <2>4. QED
    BY <1>2, <2>3
<1>4. Rec(G)
  <2> HIDE DEF Rec
  <2>1. QED
    BY <1>3
<1>5. FlattenSeq(s) = G[n]
  BY <1>2 DEF FlattenSeq
<1> HIDE DEF G
<1>6. \A i \in 1..n : G[i] = F[i]
  <2> DEFINE T == {i \in 1..n : G[i] # F[i]}
  <2>1. CASE T = {}
    BY <2>1
  <2>2. CASE T # {}
    <3>0. T \subseteq Nat
      OBVIOUS
    <3>1. PICK m \in T : \A k \in T : m <= k
      <4> HIDE DEF T
      <4>1. QED
        BY <2>2, <3>0, LeastNat
    <3>2. m \in 1..n /\ G[m] # F[m]
      BY <3>1
    <3>3. m = 1 \/ (m - 1 \in 1..n /\ G[m - 1] = F[m - 1] /\ m \in 2..n)
      <4>1. m - 1 \in T => m <= m - 1
        BY <3>1
      <4>2. QED
        BY <3>2, <4>1
    <3>4. G[m] = IF m = 1 THEN s[m] ELSE G[m - 1] \o s[m]
      BY <1>2, <1>4, <3>2
    <3>5. QED
      BY <1>1, <3>2, <3>3, <3>4 DEF Sums
  <2>3. QED
    BY <2>1, <2>2
<1>7. FlattenSeq(s) = F[n]
  BY <1>5, <1>6
<1>8. QED
  BY <1>1, <1>7

(* What holds of 1 and steps from each number to the next holds up to n.   *)
LEMMA UpTo ==
    ASSUME NEW n \in Nat \ {0}, NEW T, 1 \in T, \A i \in 1..n : i # n /\ i \in T => i + 1 \in T
    PROVE  \A i \in 1..n : i \in T
<1> DEFINE U == {i \in 1..n : i \notin T}
<1>1. CASE U = {}
  BY <1>1
<1>2. CASE U # {}
  <2>1. U \subseteq Nat
    OBVIOUS
  <2>2. PICK m \in U : \A k \in U : m <= k
    <3> HIDE DEF U
    <3>1. QED
      BY <1>2, <2>1, LeastNat
  <2>3. m \in 1..n /\ m \notin T /\ m # 1
    BY <2>2
  <2>4. m - 1 \in 1..n /\ m - 1 # n /\ m - 1 \in T
    <3>1. m - 1 \in U => m <= m - 1
      BY <2>2
    <3>2. QED
      BY <2>3, <3>1
  <2>5. QED
    BY <2>3, <2>4
<1>3. QED
  BY <1>1, <1>2

(* Concatenation and Append at the end commute. *)
LEMMA ConcatAppend ==
    ASSUME NEW S, NEW x \in Seq(S), NEW y \in Seq(S), NEW z \in S
    PROVE  x \o Append(y, z) = Append(x \o y, z)
<1>1. <<z>> \in Seq(S) /\ x \o y \in Seq(S)
  BY ConcatProperties
<1>2. Append(y, z) = y \o <<z>> /\ Append(x \o y, z) = (x \o y) \o <<z>>
  BY <1>1, AppendIsConcat
<1>3. (x \o y) \o <<z>> = x \o (y \o <<z>>)
  BY <1>1, ConcatAssociative
<1>4. QED
  BY <1>2, <1>3

(* Sequences of n sequences: t is s with e appended to member k, and s has  *)
(* nothing after member k.                                                 *)
Grows(S, n, s, t, k, e) ==
    /\ n \in Nat \ {0} /\ k \in 1..n /\ e \in S
    /\ s \in [1..n -> Seq(S)] /\ t \in [1..n -> Seq(S)]
    /\ t[k] = Append(s[k], e)
    /\ \A i \in 1..n : i # k => t[i] = s[i]
    /\ \A i \in 1..n : i > k => s[i] = <<>>

(* Appending to the last member that is not empty appends to the           *)
(* concatenation.                                                          *)
LEMMA FlattenAppend ==
    ASSUME NEW S, NEW n, NEW s, NEW t, NEW k, NEW e, Grows(S, n, s, t, k, e)
    PROVE  FlattenSeq(t) = Append(FlattenSeq(s), e)
<1> SUFFICES ASSUME n \in Nat \ {0}, k \in 1..n, e \in S,
                    s \in [1..n -> Seq(S)], t \in [1..n -> Seq(S)],
                    t[k] = Append(s[k], e),
                    \A i \in 1..n : i # k => t[i] = s[i],
                    \A i \in 1..n : i > k => s[i] = <<>>
             PROVE  FlattenSeq(t) = Append(FlattenSeq(s), e)
  BY DEF Grows
<1>a. ASSUME NEW x \in Seq(S), NEW y \in Seq(S) PROVE x \o Append(y, e) = Append(x \o y, e)
  BY ConcatAppend, SMTT(30)
<1>1. PICK F \in [1..n -> Seq(S)] : Sums(s, n, F) /\ FlattenSeq(s) = F[n]
  BY FlattenSums
<1>2. PICK G \in [1..n -> Seq(S)] : Sums(t, n, G) /\ FlattenSeq(t) = G[n]
  BY FlattenSums, ZenonT(40)
<1> DEFINE At(i) == (i < k => G[i] = F[i]) /\ (i >= k => G[i] = Append(F[i], e))
           T == {i \in 1..n : At(i)}
<1>3. At(1)
  BY <1>1, <1>2 DEF Sums
<1>4. ASSUME NEW i \in 1..n, i # n, At(i) PROVE At(i + 1)
  <2>1. i + 1 \in 2..n /\ i + 1 \in 1..n /\ (i + 1) - 1 = i
    BY <1>4
  <2>2. F[i + 1] = F[i] \o s[i + 1] /\ G[i + 1] = G[i] \o t[i + 1]
    BY <1>1, <1>2, <2>1 DEF Sums
  <2>3. F[i] \in Seq(S) /\ s[i + 1] \in Seq(S) /\ s[k] \in Seq(S)
    BY <2>1
  <2>4. CASE i + 1 < k
    <3>1. G[i] = F[i] /\ t[i + 1] = s[i + 1]
      BY <1>4, <2>1, <2>4
    <3>2. QED
      BY <2>2, <2>4, <3>1
  <2>5. CASE i + 1 = k
    <3>1. G[i] = F[i] /\ t[i + 1] = Append(s[i + 1], e)
      BY <1>4, <2>5, SMTT(30)
    <3>2. F[i] \o Append(s[i + 1], e) = Append(F[i] \o s[i + 1], e)
      BY <1>a, <2>3
    <3>3. G[i + 1] = Append(F[i + 1], e)
      BY <2>2, <3>1, <3>2
    <3>4. QED
      BY <2>5, <3>3
  <2>6. CASE i + 1 > k
    <3>1. G[i] = Append(F[i], e)
      BY <1>4, <2>6
    <3>2. s[i + 1] = <<>> /\ t[i + 1] = s[i + 1]
      BY <2>1, <2>6
    <3>3. Append(F[i], e) \in Seq(S)
      BY <2>3, AppendProperties
    <3>4. F[i] \o <<>> = F[i] /\ Append(F[i], e) \o <<>> = Append(F[i], e)
      BY <2>3, <3>3, ConcatEmptySeq
    <3>5. G[i + 1] = Append(F[i + 1], e)
      BY <2>2, <3>1, <3>2, <3>4
    <3>6. QED
      BY <2>6, <3>5
  <2>7. i + 1 < k \/ i + 1 = k \/ i + 1 > k
    BY <1>4
  <2> HIDE DEF At
  <2>8. QED
    BY <2>4, <2>5, <2>6, <2>7
<1> HIDE DEF At
<1>5. 1 \in T /\ \A i \in 1..n : i # n /\ i \in T => i + 1 \in T
  <2>1. \A i \in 1..n : i # n => i + 1 \in 1..n
    OBVIOUS
  <2>2. QED
    BY <1>3, <1>4, <2>1
<1> HIDE DEF T
<1>6. n \in T
  <2>1. \A i \in 1..n : i \in T
    BY <1>5, UpTo
  <2>2. QED
    BY <2>1
<1>7. FlattenSeq(t) = G[n] /\ G[n] = Append(F[n], e)
  BY <1>2, <1>6 DEF T, At
<1>8. QED
  BY <1>1, <1>7

(* x is a member of the sequence q. *)
Has(q, x) == \E j \in 1..Len(q) : q[j] = x

(* A concatenation has what its parts have. *)
LEMMA ConcatHas ==
    ASSUME NEW S, NEW u \in Seq(S), NEW v \in Seq(S), NEW x
    PROVE  Has(u \o v, x) <=> Has(u, x) \/ Has(v, x)
<1> DEFINE w == u \o v
<1>1. /\ Len(u) \in Nat /\ Len(v) \in Nat /\ Len(w) = Len(u) + Len(v)
      /\ \A i \in 1..Len(w) : w[i] = IF i <= Len(u) THEN u[i] ELSE v[i - Len(u)]
  BY ConcatProperties, LenProperties
<1> HIDE DEF w
<1>2. ASSUME NEW j \in 1..Len(w), w[j] = x PROVE Has(u, x) \/ Has(v, x)
  <2>1. CASE j <= Len(u)
    BY <1>1, <1>2, <2>1 DEF Has
  <2>2. CASE ~(j <= Len(u))
    <3>1. j - Len(u) \in 1..Len(v) /\ v[j - Len(u)] = x
      BY <1>1, <1>2, <2>2
    <3>2. QED
      BY <3>1 DEF Has
  <2>3. QED
    BY <2>1, <2>2
<1>3. ASSUME NEW j \in 1..Len(u), u[j] = x PROVE Has(w, x)
  <2>1. j \in 1..Len(w) /\ w[j] = x
    BY <1>1, <1>3
  <2>2. QED
    BY <2>1 DEF Has
<1>4. ASSUME NEW j \in 1..Len(v), v[j] = x PROVE Has(w, x)
  <2>1. j + Len(u) \in 1..Len(w) /\ w[j + Len(u)] = x
    BY <1>1, <1>4
  <2>2. QED
    BY <2>1 DEF Has
<1>5. QED
  BY <1>2, <1>3, <1>4 DEF Has, w

(* The concatenation has what its members have. *)
LEMMA FlattenHas ==
    ASSUME NEW S, NEW n \in Nat \ {0}, NEW s \in [1..n -> Seq(S)]
    PROVE  /\ FlattenSeq(s) \in Seq(S)
           /\ \A x : Has(FlattenSeq(s), x) <=> \E i \in 1..n : Has(s[i], x)
<1>1. PICK F \in [1..n -> Seq(S)] : Sums(s, n, F) /\ FlattenSeq(s) = F[n]
  BY FlattenSums
<1> DEFINE At(i) == \A x : Has(F[i], x) <=> \E l \in 1..i : Has(s[l], x)
           T == {i \in 1..n : At(i)}
<1>2. At(1)
  <2>1. \A l \in 1..1 : l = 1
    OBVIOUS
  <2>2. F[1] = s[1] /\ 1 \in 1..1
    BY <1>1 DEF Sums
  <2>3. QED
    BY <2>1, <2>2
<1>3. ASSUME NEW i \in 1..n, i # n, At(i) PROVE At(i + 1)
  <2>1. i + 1 \in 2..n /\ i + 1 \in 1..n /\ (i + 1) - 1 = i
    BY <1>3
  <2>2. F[i + 1] = F[i] \o s[i + 1]
    BY <1>1, <2>1 DEF Sums
  <2>3. F[i] \in Seq(S) /\ s[i + 1] \in Seq(S)
    BY <2>1
  <2>4. ASSUME NEW x PROVE Has(F[i + 1], x) <=> \E l \in 1 .. i + 1 : Has(s[l], x)
    <3>1. Has(F[i + 1], x) <=> Has(F[i], x) \/ Has(s[i + 1], x)
      BY <2>2, <2>3, ConcatHas
    <3>2. Has(F[i], x) <=> \E l \in 1..i : Has(s[l], x)
      BY <1>3
    <3>3. \A l \in 1 .. i + 1 : l \in 1..i \/ l = i + 1
      OBVIOUS
    <3>4. i + 1 \in 1 .. i + 1 /\ \A l \in 1..i : l \in 1 .. i + 1
      OBVIOUS
    <3>5. QED
      BY <3>1, <3>2, <3>3, <3>4
  <2>5. QED
    BY <2>4
<1> HIDE DEF At
<1>4. 1 \in T /\ \A i \in 1..n : i # n /\ i \in T => i + 1 \in T
  <2>1. \A i \in 1..n : i # n => i + 1 \in 1..n
    OBVIOUS
  <2>2. QED
    BY <1>2, <1>3, <2>1
<1> HIDE DEF T
<1>5. n \in T
  <2>1. \A i \in 1..n : i \in T
    BY <1>4, UpTo
  <2>2. QED
    BY <2>1
<1>6. At(n)
  BY <1>5 DEF T
<1>7. FlattenSeq(s) \in Seq(S) /\ \A x : Has(FlattenSeq(s), x) <=> \E i \in 1..n : Has(s[i], x)
  BY <1>1, <1>6 DEF At
<1>8. QED
  BY <1>7

-----------------------------------------------------------------------------
(* The inductive invariant *)

(* A process is inside the EXCLUSIVE transaction. *)
InTransaction(w) == writer[w].pc \in {"locked", "linked", "opened", "appended"}

(* Every process inside the transaction holds the lock. *)
Exclusive == \A w \in Writers : InTransaction(w) => lock = w

(* Between reading the tail and appending, the link target does not move. *)
TailFresh ==
    \A w \in Writers :
        writer[w].pc \in {"linked", "opened"} =>
            LinkTarget(files, writer[w].day, writer[w].prev)

(* The offset taken by fstat is where the event is then written. *)
OffsetFresh ==
    \A w \in Writers :
        /\ writer[w].pc = "opened" =>
             writer[w].offset = Len(files[writer[w].day])
        /\ writer[w].pc = "appended" =>
             /\ writer[w].offset < Len(files[writer[w].day])
             /\ files[writer[w].day][writer[w].offset + 1].ev = writer[w].ev

IInv == TypeOK /\ Exclusive /\ TailFresh /\ OffsetFresh /\ InFileLinked /\ IndexLocatesEvent

-----------------------------------------------------------------------------
(* Appending a chunk leaves the lines before it as they are. *)
LEMMA HashOfLineAppend ==
    ASSUME NEW f \in Seq(Chunk), NEW c \in Chunk, NEW n \in 1..Len(f), NEW h
    PROVE  HashOfLine(Append(f, c), n, h) <=> HashOfLine(f, n, h)
<1>1. \A j \in 1..n : Append(f, c)[j] = f[j]
  OBVIOUS
<1>2. \A i \in 1..n : LineStart(Append(f, c), n, i) <=> LineStart(f, n, i)
  BY <1>1 DEF LineStart
<1>3. QED
  BY <1>1, <1>2 DEF HashOfLine

(* The hash of a line of a file is a hash. *)
LEMMA HashOfLineType ==
    ASSUME NEW f \in Seq(Chunk), NEW n \in 1..Len(f), NEW h, HashOfLine(f, n, h)
    PROVE  h \in Hash
<1>1. PICK i \in 1..n : h = <<f[i].ev, f[n].ev>>
  BY DEF HashOfLine
<1>2. f[i] \in Chunk /\ f[n] \in Chunk
  OBVIOUS
<1>3. QED
  BY <1>1, <1>2 DEF Chunk, Hash

LEMMA IdleType == Idle \in Call
BY ConstantsAssumption DEF Idle, Call, Days

(* TypeOK holds initially. *)
LEMMA InitType == Init => TypeOK
BY ConstantsAssumption, IdleType DEF Init, TypeOK, Days

(* Every step keeps the types. *)
LEMMA NextType == TypeOK /\ [Next]_vars => TypeOK'
<1> SUFFICES ASSUME TypeOK, [Next]_vars PROVE TypeOK'
  OBVIOUS
<1> USE IdleType DEF TypeOK
<1>1. ASSUME NEW w \in Writers, Begin(w) PROVE TypeOK'
  <2> DEFINE c == [pc |-> "named", ev |-> calls + 1, day |-> today,
                   prev |-> None, offset |-> 0]
  <2>1. c \in Call
    BY DEF Call
  <2>2. writer' = [writer EXCEPT ![w] = c] /\ calls' \in Nat
    BY <1>1 DEF Begin
  <2> HIDE DEF c
  <2>3. QED
    BY <1>1, <2>1, <2>2 DEF Begin
<1>2. ASSUME NEW w \in Writers, Acquire(w) PROVE TypeOK'
  BY <1>2 DEF Acquire, Call
<1>3. ASSUME NEW w \in Writers, Busy(w) PROVE TypeOK'
  BY <1>3 DEF Busy
<1>4. ASSUME NEW w \in Writers, ReadTail(w) PROVE TypeOK'
  <2>1. PICK h \in {None} \cup (Events \X Events) :
          writer' = [writer EXCEPT ![w].pc = "linked", ![w].prev = h]
    BY <1>4 DEF ReadTail
  <2>2. h \in Hash \cup {None}
    BY DEF Hash, Events
  <2>3. writer' \in [Writers -> Call]
    BY <2>1, <2>2, ZenonT(40) DEF Call
  <2>4. QED
    BY <1>4, <2>3 DEF ReadTail
<1>5. ASSUME NEW w \in Writers, Open(w) PROVE TypeOK'
  <2>1. writer[w].day \in Days /\ Len(files[writer[w].day]) \in Nat
    BY DEF Call
  <2>2. writer' \in [Writers -> Call]
    BY <1>5, <2>1, ZenonT(40) DEF Open, Call
  <2>3. QED
    BY <1>5, <2>1, <2>2 DEF Open
<1>6. ASSUME NEW w \in Writers, AppendLine(w) PROVE TypeOK'
  <2>1. PICK whole \in BOOLEAN : files' = [files EXCEPT ![writer[w].day] =
           Append(@, [ev |-> writer[w].ev, prev |-> writer[w].prev, whole |-> whole])]
    BY <1>6 DEF AppendLine
  <2> DEFINE c == [ev |-> writer[w].ev, prev |-> writer[w].prev, whole |-> whole]
  <2>2. c \in Chunk /\ writer[w].day \in Days
    BY DEF Chunk, Call
  <2> HIDE DEF c
  <2>3. Append(files[writer[w].day], c) \in Seq(Chunk)
    BY <2>2
  <2>4. files' = [files EXCEPT ![writer[w].day] = Append(files[writer[w].day], c)]
    BY <2>1, <2>2 DEF c
  <2>5. files' \in [Days -> Seq(Chunk)]
    BY <2>3, <2>4
  <2>6. writer' \in [Writers -> Call]
    BY <1>6, ZenonT(40) DEF AppendLine, Call
  <2>7. QED
    BY <1>6, <2>5, <2>6 DEF AppendLine
<1>7. ASSUME NEW w \in Writers, Commit(w) PROVE TypeOK'
  <2>1. writer[w].ev \in Nat /\ writer[w].day \in Days /\ writer[w].offset \in Nat
    BY DEF Call
  <2>2. index' \subseteq [ev : Nat, day : Days, offset : Nat]
    BY <1>7, <2>1 DEF Commit
  <2>3. writer' \in [Writers -> Call] /\ lock' = None /\ returned' \subseteq Nat
    BY <1>7, <2>1 DEF Commit
  <2>4. QED
    BY <1>7, <2>2, <2>3 DEF Commit
<1>8. ASSUME NEW w \in Writers, Abort(w) PROVE TypeOK'
  BY <1>8 DEF Abort
<1>9. CASE VerifyList
  BY <1>9 DEF VerifyList
<1>10. ASSUME NEW d \in Days, VerifyRead(d) PROVE TypeOK'
  BY <1>10 DEF VerifyRead
<1>11. CASE VerifyReturn
  BY <1>11 DEF VerifyReturn
<1>12. CASE Midnight
  BY <1>12, ConstantsAssumption, SMTT(30) DEF Midnight, Days
<1>13. CASE UNCHANGED vars
  BY <1>13 DEF vars
<1>14. QED
  BY <1>1, <1>2, <1>3, <1>4, <1>5, <1>6, <1>7, <1>8, <1>9, <1>10, <1>11, <1>12, <1>13
  DEF Next, WriterStep

(* Type correctness of the audit layer. *)
THEOREM TypeCorrect == Spec => []TypeOK
BY InitType, NextType, PTL DEF Spec

-----------------------------------------------------------------------------
(* The inductive invariant holds initially. *)
LEMMA InitInv == Init => IInv
<1> SUFFICES ASSUME Init PROVE IInv
  OBVIOUS
<1>1. TypeOK
  BY InitType
<1>2. Exclusive /\ TailFresh /\ OffsetFresh
  BY DEF Init, Exclusive, InTransaction, TailFresh, OffsetFresh, Idle
<1>3. InFileLinked /\ IndexLocatesEvent
  BY DEF Init, InFileLinked, IndexLocatesEvent
<1>4. QED
  BY <1>1, <1>2, <1>3 DEF IInv

(* Every step keeps mutual exclusion inside the transaction. *)
LEMMA NextExclusive == TypeOK /\ Exclusive /\ [Next]_vars => Exclusive'
<1> SUFFICES ASSUME TypeOK, Exclusive, [Next]_vars PROVE Exclusive'
  OBVIOUS
<1> USE ConstantsAssumption DEF TypeOK, Exclusive, InTransaction, Call, Idle
<1>1. ASSUME NEW w \in Writers, WriterStep(w) PROVE Exclusive'
  <2>1. CASE Begin(w)
    BY <2>1 DEF Begin
  <2>2. CASE Acquire(w)
    BY <2>2 DEF Acquire
  <2>3. CASE Busy(w)
    BY <2>3 DEF Busy
  <2>4. CASE ReadTail(w)
    BY <2>4 DEF ReadTail
  <2>5. CASE Open(w)
    BY <2>5 DEF Open
  <2>6. CASE AppendLine(w)
    BY <2>6 DEF AppendLine
  <2>7. CASE Commit(w)
    BY <2>7 DEF Commit
  <2>8. CASE Abort(w)
    BY <2>8 DEF Abort
  <2>9. QED
    BY <1>1, <2>1, <2>2, <2>3, <2>4, <2>5, <2>6, <2>7, <2>8 DEF WriterStep
<1>2. CASE UNCHANGED <<lock, writer>>
  BY <1>2
<1>3. QED
  BY <1>1, <1>2 DEF Next, VerifyList, VerifyRead, VerifyReturn, Midnight, vars

(* Only the step that appends a line changes a file, and only at its end. *)
LEMMA OnlyAppendWrites ==
    ASSUME TypeOK, [Next]_vars
    PROVE  \/ UNCHANGED files
           \/ \E w \in Writers : AppendLine(w)
BY DEF Next, WriterStep, Begin, Acquire, Busy, ReadTail, Open, Commit, Abort,
       VerifyList, VerifyRead, VerifyReturn, Midnight, vars

(* What AppendLine does to the file of the day its call named. *)
LEMMA AppendEffect ==
    ASSUME TypeOK, NEW w \in Writers, AppendLine(w)
    PROVE  \E c \in Chunk :
             /\ c.ev = writer[w].ev
             /\ c.prev = writer[w].prev
             /\ files' = [files EXCEPT ![writer[w].day] = Append(files[writer[w].day], c)]
<1>1. PICK whole \in BOOLEAN : files' = [files EXCEPT ![writer[w].day] =
         Append(@, [ev |-> writer[w].ev, prev |-> writer[w].prev, whole |-> whole])]
  BY DEF AppendLine
<1> DEFINE c == [ev |-> writer[w].ev, prev |-> writer[w].prev, whole |-> whole]
<1>2. c \in Chunk /\ writer[w].day \in Days
  BY DEF TypeOK, Chunk, Call
<1>3. c.ev = writer[w].ev /\ c.prev = writer[w].prev
  OBVIOUS
<1>4. files' = [files EXCEPT ![writer[w].day] = Append(files[writer[w].day], c)]
  BY <1>1, <1>2 DEF TypeOK
<1>5. QED
  BY <1>2, <1>3, <1>4

(* While one call is between reading the tail and appending, no other call *)
(* appends.                                                                *)
LEMMA NextTailFresh ==
    TypeOK /\ Exclusive /\ TailFresh /\ [Next]_vars => TailFresh'
<1> SUFFICES ASSUME TypeOK, Exclusive, TailFresh, [Next]_vars,
                    NEW v \in Writers, writer'[v].pc \in {"linked", "opened"}
             PROVE  LinkTarget(files, writer[v].day, writer[v].prev)'
  BY DEF TailFresh
<1>1. ASSUME NEW w \in Writers, AppendLine(w) PROVE FALSE
  <2>1. writer' = [writer EXCEPT ![w].pc = "appended"] /\ writer[w].pc = "opened"
    BY <1>1 DEF AppendLine
  <2>2. v # w
    BY <2>1 DEF TypeOK, Call
  <2>3. writer[v].pc \in {"linked", "opened"}
    BY <2>1, <2>2 DEF TypeOK
  <2>4. lock = w /\ lock = v
    BY <2>1, <2>3 DEF Exclusive, InTransaction
  <2>5. QED
    BY <2>2, <2>4
<1>2. UNCHANGED files
  BY <1>1, OnlyAppendWrites
<1>3. ASSUME NEW w \in Writers, ReadTail(w), v = w
      PROVE  LinkTarget(files, writer'[v].day, writer'[v].prev)
  <2>1. PICK h \in {None} \cup (Events \X Events) :
          /\ LinkTarget(files, writer[w].day, h)
          /\ writer' = [writer EXCEPT ![w].pc = "linked", ![w].prev = h]
    BY <1>3 DEF ReadTail
  <2>2. writer'[w].day = writer[w].day /\ writer'[w].prev = h
    BY <2>1 DEF TypeOK, Call
  <2>3. QED
    BY <1>3, <2>1, <2>2
<1>4. \/ \E w \in Writers : ReadTail(w) /\ v = w
      \/ /\ writer[v].pc \in {"linked", "opened"}
         /\ writer'[v].day = writer[v].day
         /\ writer'[v].prev = writer[v].prev
  <2>1. ASSUME NEW w \in Writers, WriterStep(w), ~ReadTail(w)
        PROVE  /\ writer[v].pc \in {"linked", "opened"}
               /\ writer'[v].day = writer[v].day
               /\ writer'[v].prev = writer[v].prev
    <3> USE DEF TypeOK, Call, Idle
    <3>1. CASE Begin(w)
      BY <3>1 DEF Begin
    <3>2. CASE Acquire(w)
      BY <3>2 DEF Acquire
    <3>3. CASE Busy(w)
      BY <3>3 DEF Busy
    <3>4. CASE Open(w)
      BY <3>4 DEF Open
    <3>5. CASE Commit(w)
      BY <3>5 DEF Commit
    <3>6. CASE Abort(w)
      BY <3>6 DEF Abort
    <3>7. QED
      BY <1>1, <2>1, <3>1, <3>2, <3>3, <3>4, <3>5, <3>6 DEF WriterStep
  <2>2. ASSUME NEW w \in Writers, ReadTail(w), v # w
        PROVE  writer'[v] = writer[v]
    BY <2>2 DEF ReadTail, TypeOK
  <2>3. CASE UNCHANGED writer
    BY <2>3
  <2>4. QED
    BY <2>1, <2>2, <2>3
    DEF Next, VerifyList, VerifyRead, VerifyReturn, Midnight, vars
<1>5. LinkTarget(files, writer'[v].day, writer'[v].prev)
  BY <1>3, <1>4 DEF TailFresh
<1>6. QED
  BY <1>2, <1>5 DEF LinkTarget, PreviousDay, HashOfLine, LineStart

(* A file is linked inside after an event is appended that links to the    *)
(* file's last line.                                                       *)
LEMMA AppendKeepsLinks ==
    ASSUME NEW f \in Seq(Chunk), NEW c \in Chunk,
           \A i \in 2..Len(f) : HashOfLine(f, i - 1, f[i].prev),
           f # <<>> => HashOfLine(f, Len(f), c.prev)
    PROVE  \A i \in 2..Len(Append(f, c)) :
             HashOfLine(Append(f, c), i - 1, Append(f, c)[i].prev)
<1> SUFFICES ASSUME NEW i \in 2..Len(Append(f, c))
             PROVE  HashOfLine(Append(f, c), i - 1, Append(f, c)[i].prev)
  OBVIOUS
<1>1. i - 1 \in 1..Len(f)
  OBVIOUS
<1>2. CASE i \in 2..Len(f)
  <2>1. Append(f, c)[i].prev = f[i].prev
    BY <1>2
  <2>2. HashOfLine(f, i - 1, f[i].prev)
    BY <1>2
  <2>3. QED
    BY <1>1, <2>1, <2>2, HashOfLineAppend
<1>3. CASE i = Len(f) + 1
  <2>1. Append(f, c)[i].prev = c.prev /\ i - 1 = Len(f) /\ f # <<>>
    BY <1>1, <1>3
  <2>2. QED
    BY <1>1, <2>1, HashOfLineAppend
<1>4. QED
  BY <1>1, <1>2, <1>3

(* No step unlinks a file. *)
LEMMA NextInFileLinked ==
    TypeOK /\ TailFresh /\ InFileLinked /\ [Next]_vars => InFileLinked'
<1> SUFFICES ASSUME TypeOK, TailFresh, InFileLinked, [Next]_vars PROVE InFileLinked'
  OBVIOUS
<1>1. ASSUME NEW w \in Writers, AppendLine(w) PROVE InFileLinked'
  <2> DEFINE d == writer[w].day
             f == files[d]
  <2>1. PICK c \in Chunk : /\ c.prev = writer[w].prev
                           /\ files' = [files EXCEPT ![d] = Append(f, c)]
    BY <1>1, AppendEffect
  <2>2. d \in Days /\ f \in Seq(Chunk)
    BY DEF TypeOK, Call
  <2>3. LinkTarget(files, d, c.prev)
    BY <1>1, <2>1 DEF TailFresh, AppendLine
  <2>4. f # <<>> => HashOfLine(f, Len(f), c.prev)
    BY <2>2, <2>3 DEF LinkTarget, Days
  <2>5. \A i \in 2..Len(f) : HashOfLine(f, i - 1, f[i].prev)
    BY <2>2 DEF InFileLinked
  <2> HIDE DEF d, f
  <2>6. \A i \in 2..Len(Append(f, c)) : HashOfLine(Append(f, c), i - 1, Append(f, c)[i].prev)
    BY <2>2, <2>4, <2>5, AppendKeepsLinks
  <2>7. ASSUME NEW e \in Days, NEW i \in 2..Len(files'[e])
        PROVE  HashOfLine(files'[e], i - 1, files'[e][i].prev)
    <3>1. CASE e = d
      BY <2>1, <2>2, <2>6, <2>7, <3>1 DEF TypeOK
    <3>2. CASE e # d
      BY <2>1, <2>2, <2>7, <3>2 DEF TypeOK, InFileLinked
    <3>3. QED
      BY <3>1, <3>2
  <2>8. QED
    BY <2>7 DEF InFileLinked, HashOfLine, LineStart
<1>2. CASE UNCHANGED files
  BY <1>2 DEF InFileLinked, HashOfLine, LineStart
<1>3. QED
  BY <1>1, <1>2, OnlyAppendWrites

(* A line once at an offset of a file stays there. *)
LEMMA LineStays ==
    ASSUME TypeOK, [Next]_vars, NEW d \in Days, NEW o \in Nat, o < Len(files[d])
    PROVE  o < Len(files'[d]) /\ files'[d][o + 1] = files[d][o + 1]
<1>1. ASSUME NEW w \in Writers, AppendLine(w)
      PROVE  o < Len(files'[d]) /\ files'[d][o + 1] = files[d][o + 1]
  <2>1. PICK c \in Chunk : files' =
           [files EXCEPT ![writer[w].day] = Append(files[writer[w].day], c)]
    BY <1>1, AppendEffect
  <2>2. files[d] \in Seq(Chunk) /\ d \in DOMAIN files
    BY DEF TypeOK
  <2>3. files'[d] = files[d] \/ files'[d] = Append(files[d], c)
    BY <2>1, <2>2
  <2>4. /\ o + 1 \in 1..Len(files[d])
        /\ o < Len(Append(files[d], c))
        /\ Append(files[d], c)[o + 1] = files[d][o + 1]
    BY <2>2
  <2>5. QED
    BY <2>3, <2>4
<1>2. CASE UNCHANGED files
  BY <1>2
<1>3. QED
  BY <1>1, <1>2, OnlyAppendWrites

(* The offset taken by fstat stays right until the row is inserted. *)
LEMMA NextOffsetFresh ==
    TypeOK /\ Exclusive /\ OffsetFresh /\ [Next]_vars => OffsetFresh'
<1> SUFFICES ASSUME TypeOK, Exclusive, OffsetFresh, [Next]_vars, NEW v \in Writers
             PROVE  /\ writer'[v].pc = "opened" =>
                         writer'[v].offset = Len(files'[writer'[v].day])
                    /\ writer'[v].pc = "appended" =>
                         /\ writer'[v].offset < Len(files'[writer'[v].day])
                         /\ files'[writer'[v].day][writer'[v].offset + 1].ev = writer'[v].ev
  BY DEF OffsetFresh
<1>1. CASE writer'[v] = writer[v] /\ writer[v].pc = "opened"
  <2>1. ASSUME NEW w \in Writers, AppendLine(w) PROVE FALSE
    <3>1. lock = w /\ lock = v
      BY <1>1, <2>1 DEF Exclusive, InTransaction, AppendLine
    <3>2. writer'[v].pc = "appended"
      BY <2>1, <3>1 DEF AppendLine, TypeOK, Call
    <3>3. QED
      BY <1>1, <3>2
  <2>2. UNCHANGED files
    BY <2>1, OnlyAppendWrites
  <2>3. QED
    BY <1>1, <2>2 DEF OffsetFresh
<1>2. CASE writer'[v] = writer[v] /\ writer[v].pc = "appended"
  <2>1. /\ writer[v].offset < Len(files[writer[v].day])
        /\ files[writer[v].day][writer[v].offset + 1].ev = writer[v].ev
    BY <1>2 DEF OffsetFresh
  <2>2. writer[v].offset \in Nat /\ writer[v].day \in Days
    BY DEF TypeOK, Call
  <2>3. QED
    BY <1>2, <2>1, <2>2, LineStays
<1>3. CASE writer'[v] = writer[v] /\ writer[v].pc \notin {"opened", "appended"}
  BY <1>3
<1>4. ASSUME NEW w \in Writers, WriterStep(w), v = w
      PROVE  \/ Open(v)
             \/ AppendLine(v)
             \/ writer'[v].pc \notin {"opened", "appended"}
  <2> USE DEF TypeOK, Call, Idle
  <2>1. CASE Begin(w)
    BY <1>4, <2>1 DEF Begin
  <2>2. CASE Acquire(w)
    BY <1>4, <2>2 DEF Acquire
  <2>3. CASE Busy(w)
    BY <1>4, <2>3 DEF Busy
  <2>4. CASE ReadTail(w)
    BY <1>4, <2>4 DEF ReadTail
  <2>5. CASE Commit(w)
    BY <1>4, <2>5 DEF Commit
  <2>6. CASE Abort(w)
    BY <1>4, <2>6 DEF Abort
  <2>7. QED
    BY <1>4, <2>1, <2>2, <2>3, <2>4, <2>5, <2>6 DEF WriterStep
<1>5. CASE Open(v)
  BY <1>5 DEF Open, TypeOK, Call
<1>6. CASE AppendLine(v)
  <2>1. PICK c \in Chunk :
          /\ c.ev = writer[v].ev
          /\ files' = [files EXCEPT ![writer[v].day] = Append(files[writer[v].day], c)]
    BY <1>6, AppendEffect
  <2>2. /\ writer'[v].pc = "appended"
        /\ writer'[v].day = writer[v].day
        /\ writer'[v].ev = writer[v].ev
        /\ writer'[v].offset = writer[v].offset
    BY <1>6 DEF AppendLine, TypeOK, Call
  <2>3. /\ writer[v].day \in Days /\ files[writer[v].day] \in Seq(Chunk)
        /\ writer[v].offset = Len(files[writer[v].day])
    BY <1>6 DEF TypeOK, Call, OffsetFresh, AppendLine
  <2>4. files'[writer[v].day] = Append(files[writer[v].day], c)
    BY <2>1, <2>3 DEF TypeOK
  <2>5. QED
    BY <2>1, <2>2, <2>3, <2>4
<1>7. ASSUME NEW w \in Writers, WriterStep(w), v # w PROVE writer'[v] = writer[v]
  BY <1>7 DEF WriterStep, TypeOK, Begin, Acquire, Busy, ReadTail, Open, AppendLine,
     Commit, Abort
<1>8. \/ writer'[v] = writer[v]
      \/ \E w \in Writers : WriterStep(w) /\ v = w
  BY <1>7 DEF Next, VerifyList, VerifyRead, VerifyReturn, Midnight, vars
<1>9. QED
  BY <1>1, <1>2, <1>3, <1>4, <1>5, <1>6, <1>8

(* Only Commit inserts a row or returns ok. *)
LEMMA OnlyCommitIndexes ==
    ASSUME TypeOK, [Next]_vars
    PROVE  UNCHANGED <<index, returned>> \/ \E w \in Writers : Commit(w)
BY DEF Next, WriterStep, Begin, Acquire, Busy, ReadTail, Open, AppendLine, Abort,
       VerifyList, VerifyRead, VerifyReturn, Midnight, vars

(* No step makes a row of the index wrong. *)
LEMMA NextIndexLocatesEvent ==
    TypeOK /\ OffsetFresh /\ IndexLocatesEvent /\ [Next]_vars => IndexLocatesEvent'
<1> SUFFICES ASSUME TypeOK, OffsetFresh, IndexLocatesEvent, [Next]_vars,
                    NEW r \in index'
             PROVE  /\ r.ev \in returned'
                    /\ r.offset < Len(files'[r.day])
                    /\ files'[r.day][r.offset + 1].ev = r.ev
  BY DEF IndexLocatesEvent
<1>1. CASE r \in index
  <2>1. /\ r.ev \in returned
        /\ r.offset < Len(files[r.day])
        /\ files[r.day][r.offset + 1].ev = r.ev
    BY <1>1 DEF IndexLocatesEvent
  <2>2. r.day \in Days /\ r.offset \in Nat
    BY <1>1 DEF TypeOK
  <2>3. returned \subseteq returned'
    BY OnlyCommitIndexes DEF Commit
  <2>4. QED
    BY <2>1, <2>2, <2>3, LineStays
<1>2. CASE r \notin index
  <2>1. PICK w \in Writers : Commit(w)
    BY <1>2, OnlyCommitIndexes
  <2>2. r = [ev |-> writer[w].ev, day |-> writer[w].day, offset |-> writer[w].offset]
    BY <1>2, <2>1 DEF Commit
  <2>3. writer[w].pc = "appended" /\ files' = files /\ r.ev \in returned'
    BY <2>1, <2>2 DEF Commit
  <2>4. QED
    BY <2>2, <2>3 DEF OffsetFresh
<1>3. QED
  BY <1>1, <1>2

(* Every step keeps the inductive invariant. *)
LEMMA NextInv == IInv /\ [Next]_vars => IInv'
BY NextType, NextExclusive, NextTailFresh, NextOffsetFresh, NextInFileLinked,
   NextIndexLocatesEvent DEF IInv

LEMMA Invariance == Spec => []IInv
BY InitInv, NextInv, PTL DEF Spec

(* No interleaving, abort, midnight or short write makes two events of one *)
(* day file link to the same line, or skips one.                           *)
THEOREM FilesAreLinked == Spec => []InFileLinked
<1>1. IInv => InFileLinked
  BY DEF IInv
<1>2. QED
  BY <1>1, Invariance, PTL

(* The index never runs ahead of the files: each row finds its event.      *)
THEOREM IndexIsSound == Spec => []IndexLocatesEvent
<1>1. IInv => IndexLocatesEvent
  BY DEF IInv
<1>2. QED
  BY <1>1, Invariance, PTL

(* No step rewrites or truncates a day file. *)
THEOREM FilesAreAppendOnly == Spec => AppendOnly
<1>1. TypeOK /\ [Next]_vars =>
        [\A d \in Days : /\ Len(files'[d]) >= Len(files[d])
                         /\ SubSeq(files'[d], 1, Len(files[d])) = files[d]]_vars
  <2> SUFFICES ASSUME TypeOK, [Next]_vars, NEW d \in Days
               PROVE  /\ Len(files'[d]) >= Len(files[d])
                      /\ SubSeq(files'[d], 1, Len(files[d])) = files[d]
    OBVIOUS
  <2>1. files[d] \in Seq(Chunk) /\ d \in DOMAIN files
    BY DEF TypeOK
  <2>2. files'[d] = files[d] \/ \E c \in Chunk : files'[d] = Append(files[d], c)
    <3>1. ASSUME NEW w \in Writers, AppendLine(w)
          PROVE  files'[d] = files[d] \/ \E c \in Chunk : files'[d] = Append(files[d], c)
      BY <2>1, <3>1, AppendEffect
    <3>2. QED
      BY <3>1, OnlyAppendWrites
  <2>3. QED
    BY <2>1, <2>2
<1>2. QED
  BY <1>1, TypeCorrect, PTL DEF Spec, AppendOnly

-----------------------------------------------------------------------------
(* The chain across days, when no call straddles midnight and no write is  *)
(* cut short.                                                              *)

(* Every chunk is a line of its own. *)
AllWhole == \A d \in Days : \A i \in 1..Len(files[d]) : files[d][i].whole

(* A call that may still write its file has named today's. *)
NamesToday ==
    \A w \in Writers :
        writer[w].pc \in {"named", "locked", "linked", "opened"} => writer[w].day = today

(* Nothing is written ahead of the calendar. *)
FutureEmpty == \A d \in Days : d > today => files[d] = <<>>

(* The first event of day d links to the last line before that day. *)
FirstLinked(fs, d) ==
    \/ \E p \in Days : /\ PreviousDay(fs, d, p)
                      /\ fs[d][1].prev = <<fs[p][Len(fs[p])].ev, fs[p][Len(fs[p])].ev>>
    \/ /\ \A p \in Days : p < d => fs[p] = <<>>
       /\ fs[d][1].prev = None

BoundariesLinked == \A d \in Days : files[d] # <<>> => FirstLinked(files, d)

QInv == IInv /\ AllWhole /\ NamesToday /\ FutureEmpty /\ BoundariesLinked

(* In a file of whole lines a line's hash names its only event. *)
LEMMA WholeLineHash ==
    ASSUME NEW f \in Seq(Chunk), \A i \in 1..Len(f) : f[i].whole,
           NEW n \in 1..Len(f), NEW h, HashOfLine(f, n, h)
    PROVE  h = <<f[n].ev, f[n].ev>>
<1>1. PICK i \in 1..n : LineStart(f, n, i) /\ h = <<f[i].ev, f[n].ev>>
  BY DEF HashOfLine
<1>2. ~(i <= n - 1)
  <2> SUFFICES ASSUME i <= n - 1 PROVE FALSE
    OBVIOUS
  <2>1. i \in i .. n - 1 /\ f[i].whole
    OBVIOUS
  <2>2. QED
    BY <1>1, <2>1 DEF LineStart
<1>3. i = n
  BY <1>2
<1>4. QED
  BY <1>1, <1>3

(* Every line is whole and carries the hash of the line before it. *)
LinkedLog(fs) ==
    \A d \in Days :
        /\ \A i \in 1..Len(fs[d]) : fs[d][i].whole
        /\ \A i \in 2..Len(fs[d]) : HashOfLine(fs[d], i - 1, fs[d][i].prev)
        /\ fs[d] # <<>> => FirstLinked(fs, d)

(* The verifier finds nothing to report in a linked log of whole lines. *)
LEMMA LinkedLogVerifies ==
    ASSUME NEW fs \in [Days -> Seq(Chunk)], LinkedLog(fs)
    PROVE  Breaks(fs) = {} /\ LegacyBoundaries(fs) = {}
<1>1. ASSUME NEW d \in Days, NEW i \in 1..Len(fs[d]) PROVE ~Damaged(fs[d], i)
  BY <1>1 DEF Damaged, LinkedLog
<1>2. ASSUME NEW d \in Days, NEW p \in Days, NEW n \in 1..Len(fs[p]),
             LastWalked(fs, d, p, n)
      PROVE  PreviousDay(fs, d, p) /\ n = Len(fs[p])
  <2>1. n = Len(fs[p])
    <3>1. n # Len(fs[p]) => n + 1 \in 1..Len(fs[p])
      OBVIOUS
    <3>2. QED
      BY <1>1, <1>2, <3>1 DEF LastWalked
  <2>2. fs[p] # <<>>
    OBVIOUS
  <2>3. ASSUME NEW q \in Days, p < q, q < d, fs[q] # <<>> PROVE FALSE
    <3>1. 1 \in 1..Len(fs[q])
      BY <2>3
    <3>2. QED
      BY <1>1, <1>2, <2>3, <3>1 DEF LastWalked
  <2>4. QED
    BY <1>2, <2>1, <2>2, <2>3 DEF LastWalked, PreviousDay
<1>3. ASSUME NEW d \in Days, NEW p \in Days, fs[d] # <<>>, PreviousDay(fs, d, p)
      PROVE  fs[d][1].prev = <<fs[p][Len(fs[p])].ev, fs[p][Len(fs[p])].ev>>
  <2>1. ASSUME NEW q \in Days, PreviousDay(fs, d, q) PROVE p = q
    BY <1>3, <2>1 DEF PreviousDay, Days
  <2>2. ~\A q \in Days : q < d => fs[q] = <<>>
    BY <1>3 DEF PreviousDay
  <2>3. QED
    BY <1>3, <2>1, <2>2 DEF LinkedLog, FirstLinked
<1>4. ASSUME NEW d \in Days, fs[d] # <<>> PROVE ~BoundaryBreak(fs, d)
  <2>1. ASSUME NEW p \in Days, NEW n \in 1..Len(fs[p]), LastWalked(fs, d, p, n)
        PROVE  fs[d][1].prev = <<fs[p][n].ev, fs[p][n].ev>>
    BY <1>2, <1>3, <1>4, <2>1
  <2>2. ASSUME \A p \in Days : p < d => fs[p] = <<>> \/ Damaged(fs[p], 1)
        PROVE  fs[d][1].prev = None
    <3>1. ASSUME NEW p \in Days, p < d, fs[p] # <<>> PROVE FALSE
      <4>1. 1 \in 1..Len(fs[p])
        BY <3>1
      <4>2. QED
        BY <1>1, <2>2, <3>1, <4>1
    <3>2. QED
      BY <1>4, <3>1 DEF LinkedLog, FirstLinked, PreviousDay
  <2>3. QED
    BY <2>1, <2>2 DEF BoundaryBreak
<1>5. ASSUME NEW b \in Breaks(fs) PROVE FALSE
  <2> DEFINE d == b[1]
             i == b[2]
  <2>1. /\ d \in Days /\ i \in 1..MaxEvents /\ i <= Len(fs[d])
        /\ \/ Damaged(fs[d], i)
           \/ i = 1 /\ BoundaryBreak(fs, d)
           \/ i > 1 /\ fs[d][i].prev # <<fs[d][i - 1].ev, fs[d][i - 1].ev>>
    BY <1>5 DEF Breaks
  <2> HIDE DEF d, i
  <2>2. i \in 1..Len(fs[d]) /\ fs[d] \in Seq(Chunk) /\ fs[d] # <<>>
    BY <2>1, ConstantsAssumption
  <2>3. ~Damaged(fs[d], i) /\ ~BoundaryBreak(fs, d)
    BY <1>1, <1>4, <2>1, <2>2
  <2>4. CASE i > 1
    <3>1. i \in 2..Len(fs[d]) /\ i - 1 \in 1..Len(fs[d])
      BY <2>2, <2>4
    <3>2. HashOfLine(fs[d], i - 1, fs[d][i].prev)
      BY <2>1, <3>1 DEF LinkedLog
    <3>3. fs[d][i].prev = <<fs[d][i - 1].ev, fs[d][i - 1].ev>>
      BY <2>1, <2>2, <3>1, <3>2, WholeLineHash DEF LinkedLog
    <3>4. QED
      BY <2>1, <2>3, <2>4, <3>3
  <2>5. QED
    BY <2>1, <2>3, <2>4
<1>6. ASSUME NEW d \in LegacyBoundaries(fs) PROVE FALSE
  <2>1. /\ d \in Days /\ fs[d] # <<>> /\ fs[d][1].prev = None
        /\ \E p \in Days : \E n \in 1..Len(fs[p]) : LastWalked(fs, d, p, n)
    BY <1>6 DEF LegacyBoundaries
  <2>2. PICK p \in Days : \E n \in 1..Len(fs[p]) : LastWalked(fs, d, p, n)
    BY <2>1
  <2>3. PreviousDay(fs, d, p) /\ Len(fs[p]) \in 1..Len(fs[p])
    BY <1>2, <2>1, <2>2
  <2>4. fs[p][Len(fs[p])] \in Chunk
    BY <2>3
  <2>5. None = <<fs[p][Len(fs[p])].ev, fs[p][Len(fs[p])].ev>>
    BY <1>3, <2>1, <2>3
  <2>6. fs[p][Len(fs[p])].ev \in Nat
    BY <2>4 DEF Chunk
  <2>7. None \in Nat \X Nat
    BY <2>5, <2>6
  <2>8. QED
    BY <2>7, ConstantsAssumption
<1>7. QED
  BY <1>5, <1>6

(* With quiet midnights and whole writes the files are such a log. *)
LEMMA QuietLinked == QInv => LinkedLog(files)
BY DEF QInv, IInv, AllWhole, InFileLinked, BoundariesLinked, LinkedLog

(* The conditional invariant holds initially. *)
LEMMA QuietInit == Init => QInv
<1> SUFFICES ASSUME Init PROVE QInv
  OBVIOUS
<1>1. IInv
  BY InitInv
<1>2. AllWhole /\ NamesToday /\ FutureEmpty /\ BoundariesLinked
  BY DEF Init, AllWhole, NamesToday, FutureEmpty, BoundariesLinked, Idle
<1>3. QED
  BY <1>1, <1>2 DEF QInv

(* Without short writes every line ends with its newline. *)
LEMMA NextAllWhole ==
    ASSUME ~ShortWrites
    PROVE  TypeOK /\ AllWhole /\ [Next]_vars => AllWhole'
<1> SUFFICES ASSUME TypeOK, AllWhole, [Next]_vars PROVE AllWhole'
  OBVIOUS
<1>1. ASSUME NEW w \in Writers, AppendLine(w) PROVE AllWhole'
  <2> DEFINE c == [ev |-> writer[w].ev, prev |-> writer[w].prev, whole |-> TRUE]
  <2>1. files' = [files EXCEPT ![writer[w].day] = Append(files[writer[w].day], c)]
    BY <1>1 DEF AppendLine, TypeOK, Call
  <2>2. c \in Chunk /\ c.whole
    BY DEF TypeOK, Call, Chunk
  <2> HIDE DEF c
  <2>3. ASSUME NEW d \in Days, NEW i \in 1..Len(files'[d]) PROVE files'[d][i].whole
    <3>1. files[d] \in Seq(Chunk) /\ d \in DOMAIN files
      BY DEF TypeOK
    <3>2. files'[d] = files[d] \/ files'[d] = Append(files[d], c)
      BY <2>1, <3>1
    <3>3. CASE files'[d] = files[d]
      BY <2>3, <3>3 DEF AllWhole
    <3>4. CASE files'[d] = Append(files[d], c)
      <4>1. i \in 1..Len(files[d]) \/ i = Len(files[d]) + 1
        BY <2>3, <3>1, <3>4
      <4>2. CASE i \in 1..Len(files[d])
        BY <3>1, <3>4, <4>2 DEF AllWhole
      <4>3. CASE i = Len(files[d]) + 1
        BY <2>2, <3>1, <3>4, <4>3
      <4>4. QED
        BY <4>1, <4>2, <4>3
    <3>5. QED
      BY <3>2, <3>3, <3>4
  <2>4. QED
    BY <2>3 DEF AllWhole
<1>2. CASE UNCHANGED files
  BY <1>2 DEF AllWhole
<1>3. QED
  BY <1>1, <1>2, OnlyAppendWrites

(* With quiet midnights a pending call's file is today's. *)
LEMMA NextNamesToday ==
    ASSUME MidnightQuiet
    PROVE  TypeOK /\ NamesToday /\ [Next]_vars => NamesToday'
<1> SUFFICES ASSUME TypeOK, NamesToday, [Next]_vars PROVE NamesToday'
  OBVIOUS
<1> USE DEF TypeOK, Call, Idle, NamesToday
<1>1. ASSUME NEW w \in Writers, WriterStep(w) PROVE NamesToday'
  <2>1. CASE Begin(w)
    BY <2>1 DEF Begin
  <2>2. CASE Acquire(w)
    BY <2>2 DEF Acquire
  <2>3. CASE Busy(w)
    BY <2>3 DEF Busy
  <2>4. CASE ReadTail(w)
    BY <2>4 DEF ReadTail
  <2>5. CASE Open(w)
    BY <2>5 DEF Open
  <2>6. CASE AppendLine(w)
    BY <2>6 DEF AppendLine
  <2>7. CASE Commit(w)
    BY <2>7 DEF Commit
  <2>8. CASE Abort(w)
    BY <2>8 DEF Abort
  <2>9. QED
    BY <1>1, <2>1, <2>2, <2>3, <2>4, <2>5, <2>6, <2>7, <2>8 DEF WriterStep
<1>2. CASE Midnight
  BY <1>2 DEF Midnight
<1>3. CASE UNCHANGED <<today, writer>>
  BY <1>3, SMTT(30)
<1>4. QED
  BY <1>1, <1>2, <1>3 DEF Next, VerifyList, VerifyRead, VerifyReturn, vars

(* The date never goes back. *)
LEMMA TodayGrows == ASSUME TypeOK, [Next]_vars PROVE today' >= today
<1>1. today' = today \/ today' = today + 1
  BY DEF Next, WriterStep, Begin, Acquire, Busy, ReadTail, Open, AppendLine,
     Commit, Abort, VerifyList, VerifyRead, VerifyReturn, Midnight, vars
<1>2. today \in Nat
  BY ConstantsAssumption DEF TypeOK, Days
<1>3. QED
  BY <1>1, <1>2

(* Nothing gets ahead of the calendar. *)
LEMMA NextFutureEmpty ==
    TypeOK /\ NamesToday /\ FutureEmpty /\ [Next]_vars => FutureEmpty'
<1> SUFFICES ASSUME TypeOK, NamesToday, FutureEmpty, [Next]_vars,
                    NEW d \in Days, d > today'
             PROVE  files'[d] = <<>>
  BY DEF FutureEmpty
<1>1. d > today /\ files[d] = <<>>
  <2>1. today \in Nat /\ today' \in Nat /\ d \in Nat /\ today' >= today
    <3>1. TypeOK'
      BY NextType
    <3>2. today \in Days /\ today' \in Days
      BY <3>1 DEF TypeOK
    <3>3. QED
      BY <3>2, TodayGrows, ConstantsAssumption DEF Days
  <2>2. d > today
    BY <2>1
  <2>3. QED
    BY <2>2 DEF FutureEmpty
<1>2. ASSUME NEW w \in Writers, AppendLine(w) PROVE files'[d] = <<>>
  <2>1. PICK c \in Chunk : files' =
           [files EXCEPT ![writer[w].day] = Append(files[writer[w].day], c)]
    BY <1>2, AppendEffect
  <2>2. writer[w].day = today
    BY <1>2 DEF AppendLine, NamesToday
  <2>3. QED
    BY <1>1, <2>1, <2>2 DEF TypeOK, Days
<1>3. QED
  BY <1>1, <1>2, OnlyAppendWrites

(* Every day that has events begins where the days before it ended. *)
LEMMA NextBoundariesLinked ==
    TypeOK /\ TailFresh /\ AllWhole /\ NamesToday /\ FutureEmpty /\ BoundariesLinked
        /\ [Next]_vars => BoundariesLinked'
<1> SUFFICES ASSUME TypeOK, TailFresh, AllWhole, NamesToday, FutureEmpty,
                    BoundariesLinked, [Next]_vars
             PROVE  BoundariesLinked'
  OBVIOUS
<1>1. ASSUME NEW w \in Writers, AppendLine(w) PROVE BoundariesLinked'
  <2>1. PICK c \in Chunk :
          /\ c.prev = writer[w].prev
          /\ files' = [files EXCEPT ![writer[w].day] = Append(files[writer[w].day], c)]
    BY <1>1, AppendEffect
  <2>2. writer[w].day = today /\ LinkTarget(files, today, c.prev)
    BY <1>1, <2>1 DEF AppendLine, NamesToday, TailFresh
  <2>3. /\ today \in Days /\ files[today] \in Seq(Chunk)
        /\ files'[today] = Append(files[today], c)
        /\ \A d \in Days : d # today => files'[d] = files[d]
    BY <2>1, <2>2 DEF TypeOK
  <2>4. ASSUME NEW d \in Days, files'[d] # <<>> PROVE FirstLinked(files', d)
    <3>1. d <= today
      BY <2>3, <2>4 DEF FutureEmpty, Days
    <3>2. \A q \in Days : q < d => files'[q] = files[q]
      BY <2>3, <3>1 DEF Days
    <3>3. CASE files[d] # <<>>
      <4>1. files'[d][1] = files[d][1]
        <5>1. files[d] \in Seq(Chunk) /\ 1 \in 1..Len(files[d])
          BY <3>3 DEF TypeOK
        <5>2. Append(files[d], c)[1] = files[d][1]
          BY <5>1
        <5>3. QED
          BY <2>3, <5>2
      <4>2. FirstLinked(files, d)
        BY <3>3 DEF BoundariesLinked
      <4>3. QED
        BY <3>2, <4>1, <4>2 DEF FirstLinked, PreviousDay
    <3>4. CASE files[d] = <<>>
      <4>1. d = today /\ files'[d][1] = c
        BY <2>3, <2>4, <3>4
      <4>2. CASE \A p \in Days : p < d => files[p] = <<>>
        <5>1. \A p \in Days : ~PreviousDay(files, d, p)
          BY <4>2 DEF PreviousDay
        <5>2. c.prev = None
          BY <2>2, <3>4, <4>1, <5>1 DEF LinkTarget
        <5>3. QED
          BY <3>2, <4>1, <4>2, <5>2 DEF FirstLinked
      <4>3. CASE \E p \in Days : p < d /\ files[p] # <<>>
        <5>1. PICK p \in Days : /\ PreviousDay(files, d, p)
                                /\ HashOfLine(files[p], Len(files[p]), c.prev)
          BY <2>2, <3>4, <4>1, <4>3 DEF LinkTarget, Days
        <5>2. files[p] \in Seq(Chunk) /\ Len(files[p]) \in 1..Len(files[p])
          BY <5>1 DEF PreviousDay, TypeOK
        <5>3. c.prev = <<files[p][Len(files[p])].ev, files[p][Len(files[p])].ev>>
          BY <5>1, <5>2, WholeLineHash DEF AllWhole
        <5>4. PreviousDay(files', d, p) /\ files'[p] = files[p]
          BY <3>2, <5>1 DEF PreviousDay
        <5>5. QED
          BY <4>1, <5>3, <5>4 DEF FirstLinked
      <4>4. QED
        BY <4>2, <4>3
    <3>5. QED
      BY <3>3, <3>4
  <2>5. QED
    BY <2>4 DEF BoundariesLinked, FirstLinked, PreviousDay
<1>2. CASE UNCHANGED files
  BY <1>2 DEF BoundariesLinked, FirstLinked, PreviousDay
<1>3. QED
  BY <1>1, <1>2, OnlyAppendWrites

(* If no call straddles midnight and no write is cut short, the log that   *)
(* any number of processes wrote on any number of days verifies, with no   *)
(* boundary left to excuse.                                                *)
THEOREM QuietChainVerifies ==
    ASSUME MidnightQuiet, ~ShortWrites
    PROVE  Spec => []ChainVerifies
<1>1. QInv /\ [Next]_vars => QInv'
  BY NextInv, NextAllWhole, NextNamesToday, NextFutureEmpty, NextBoundariesLinked
  DEF QInv, IInv
<1>2. QInv => ChainVerifies
  BY QuietLinked, LinkedLogVerifies DEF QInv, IInv, TypeOK, ChainVerifies
<1>3. QED
  BY <1>1, <1>2, QuietInit, PTL DEF Spec

-----------------------------------------------------------------------------
(* Every event is written once. *)

(* The call of w has an event that is not in a file yet. *)
Pending(w) == writer[w].pc \in {"named", "locked", "linked", "opened"}

(* Events have been numbered by the calls. *)
Numbered ==
    /\ calls <= MaxEvents
    /\ \A w \in Writers : Pending(w) => writer[w].ev \in 1..calls
    /\ \A d \in Days : \A i \in 1..Len(files[d]) : files[d][i].ev \in 1..calls

(* What is still to be written is in no file and belongs to one call. *)
PendingFresh ==
    \A w \in Writers : Pending(w) =>
        /\ \A d \in Days : \A i \in 1..Len(files[d]) : files[d][i].ev # writer[w].ev
        /\ \A v \in Writers : Pending(v) /\ writer[v].ev = writer[w].ev => v = w

(* No event is in two places. *)
WrittenOnce ==
    \A d, e \in Days : \A i \in 1..Len(files[d]) : \A j \in 1..Len(files[e]) :
        files[d][i].ev = files[e][j].ev => d = e /\ i = j

(* Only files that exist have events, and none exists ahead of its day. *)
CreatedInTime ==
    /\ \A d \in Days : files[d] # <<>> => d \in created
    /\ \A d \in created : d <= today
    /\ \A w \in Writers : writer[w].pc = "opened" => writer[w].day \in created

(* The files a verification has listed: still to be read, or read. *)
Listed(d) == d \in verifier.todo \/ verifier.seen[d] # <<>>

(* It has read prefixes of the files, and of all but the newest file it    *)
(* listed the whole.                                                       *)
SeenIsPrefix ==
    /\ \A d \in Days :
         /\ Len(verifier.seen[d]) <= Len(files[d])
         /\ \A i \in 1..Len(verifier.seen[d]) : verifier.seen[d][i] = files[d][i]
    /\ \A d \in Days : Listed(d) => d <= today
    /\ \A d, e \in Days :
         d < e /\ Listed(e) /\ d \notin verifier.todo => verifier.seen[d] = files[d]

(* Without a day file that is not the newest, the first event of the next  *)
(* one links to a line that is gone.                                       *)
LEMMA DeletionShows ==
    ASSUME TypeOK, Numbered, WrittenOnce, LinkedLog(files),
           NEW d \in Days, files[d] # <<>>, NEW q \in Days, q > d, files[q] # <<>>
    PROVE  Breaks([files EXCEPT ![d] = <<>>]) # {}
<1> DEFINE fs == [files EXCEPT ![d] = <<>>]
<1>0. /\ files \in [Days -> Seq(Chunk)] /\ fs[d] = <<>>
      /\ \A e \in Days : e # d => fs[e] = files[e]
  BY DEF TypeOK
<1>1. PICK e \in Days : /\ e > d /\ files[e] # <<>>
                        /\ \A r \in Days : r > d /\ files[r] # <<>> => e <= r
  <2> DEFINE T == {r \in Days : r > d /\ files[r] # <<>>}
  <2>1. T \subseteq Nat /\ T # {}
    BY DEF Days
  <2>2. QED
    BY <2>1, LeastNat
<1>2. \A r \in Days : d < r /\ r < e => files[r] = <<>>
  BY <1>1 DEF Days
<1>3. PreviousDay(files, e, d)
  BY <1>1, <1>2 DEF PreviousDay
<1>4. files[e][1].prev = <<files[d][Len(files[d])].ev, files[d][Len(files[d])].ev>>
  <2>1. PICK p \in Days :
          /\ PreviousDay(files, e, p)
          /\ files[e][1].prev = <<files[p][Len(files[p])].ev, files[p][Len(files[p])].ev>>
    BY <1>1, <1>3 DEF LinkedLog, FirstLinked, PreviousDay
  <2>2. p = d
    BY <1>3, <2>1 DEF PreviousDay, Days
  <2>3. QED
    BY <2>1, <2>2
<1>5. /\ \A r \in Days : files[r] # <<>> => Len(files[r]) \in 1..Len(files[r])
      /\ \A r \in Days : \A i \in 1..Len(files[r]) : files[r][i].ev \in Nat
  <2>1. ASSUME NEW r \in Days, files[r] # <<>> PROVE Len(files[r]) \in 1..Len(files[r])
    BY <1>0, <2>1
  <2>2. ASSUME NEW r \in Days, NEW i \in 1..Len(files[r]) PROVE files[r][i].ev \in Nat
    <3>1. files[r][i] \in Chunk
      BY <1>0
    <3>2. QED
      BY <3>1 DEF Chunk
  <2>3. QED
    BY <2>1, <2>2
<1> HIDE DEF fs
<1>6. fs[e] = files[e]
  BY <1>0, <1>1 DEF Days
<1>7. BoundaryBreak(fs, e)
  <2>1. CASE \A p \in Days : p < d => files[p] = <<>>
    <3>1. \A p \in Days : p < e => fs[p] = <<>>
      BY <1>0, <1>1, <1>2, <2>1 DEF Days
    <3>2. files[e][1].prev # None
      BY <1>4, <1>5, ConstantsAssumption
    <3>3. QED
      BY <1>6, <3>1, <3>2 DEF BoundaryBreak
  <2>2. CASE ~ \A p \in Days : p < d => files[p] = <<>>
    <3>1. PICK p \in Days : PreviousDay(files, d, p)
      BY <2>2 DEF LinkedLog, FirstLinked
    <3>2. p < d /\ p < e /\ p # d /\ files[p] # <<>>
      BY <1>1, <3>1 DEF PreviousDay, Days
    <3>3. fs[p] = files[p] /\ Len(files[p]) \in 1..Len(files[p])
      BY <1>0, <1>5, <3>2
    <3>4. \A r \in Days : p < r /\ r < e => fs[r] = <<>>
      BY <1>0, <1>2, <3>1 DEF PreviousDay, Days
    <3>5. Walked(files[p], Len(files[p]))
      BY <1>0 DEF Walked, Damaged, LinkedLog
    <3>6. LastWalked(fs, e, p, Len(files[p]))
      BY <3>2, <3>3, <3>4, <3>5 DEF LastWalked
    <3>7. files[e][1].prev # <<files[p][Len(files[p])].ev, files[p][Len(files[p])].ev>>
      BY <1>4, <1>5, <3>2, <3>3 DEF WrittenOnce
    <3>8. files[e][1].prev # None
      BY <1>4, <1>5, ConstantsAssumption
    <3>9. QED
      BY <1>6, <3>3, <3>6, <3>7, <3>8 DEF BoundaryBreak
  <2>3. QED
    BY <2>1, <2>2
<1>8. 1 \in 1..MaxEvents
  <2>1. files[d][Len(files[d])].ev \in 1..calls
    BY <1>5 DEF Numbered
  <2>2. calls <= MaxEvents /\ calls \in Nat
    BY DEF Numbered, TypeOK
  <2>3. QED
    BY <2>1, <2>2, ConstantsAssumption
<1>9. 1 <= Len(fs[e]) /\ Walked(fs[e], 1 - 1)
  BY <1>1, <1>5, <1>6 DEF Walked
<1>10. <<e, 1>> \in Breaks(fs)
  BY <1>7, <1>8, <1>9 DEF Breaks
<1>11. QED
  BY <1>10 DEF fs

(* The hash of a line depends on the chunks up to its end. *)
LEMMA SameLine ==
    ASSUME NEW f, NEW g, NEW n \in Nat, NEW h, HashOfLine(f, n, h),
           \A j \in 1..n : g[j] = f[j]
    PROVE  HashOfLine(g, n, h)
<1>1. PICK i \in 1..n : LineStart(f, n, i) /\ h = <<f[i].ev, f[n].ev>>
  BY DEF HashOfLine
<1>2. LineStart(g, n, i)
  BY <1>1 DEF LineStart
<1>3. h = <<g[i].ev, g[n].ev>>
  BY <1>1
<1>4. QED
  BY <1>2, <1>3 DEF HashOfLine

(* What a verification has read when it has read everything is a linked    *)
(* log, if the files are.                                                  *)
LEMMA SeenIsLinked ==
    ASSUME TypeOK, LinkedLog(files), SeenIsPrefix, verifier.todo = {}
    PROVE  LinkedLog(verifier.seen)
<1> DEFINE fs == verifier.seen
<1>0. fs \in [Days -> Seq(Chunk)] /\ files \in [Days -> Seq(Chunk)]
  BY DEF TypeOK
<1>1. \A d \in Days :
        /\ Len(fs[d]) <= Len(files[d])
        /\ \A i \in 1..Len(fs[d]) : i \in 1..Len(files[d]) /\ fs[d][i] = files[d][i]
  <2>1. \A d \in Days : Len(fs[d]) \in Nat /\ Len(files[d]) \in Nat
    BY <1>0
  <2>2. QED
    BY <2>1 DEF SeenIsPrefix
<1>2. \A d, e \in Days : d < e /\ fs[e] # <<>> => fs[d] = files[d]
  BY DEF SeenIsPrefix, Listed
<1> HIDE DEF fs
<1>3. ASSUME NEW d \in Days, NEW i \in 1..Len(fs[d]) PROVE fs[d][i].whole
  BY <1>1, <1>3 DEF LinkedLog
<1>4. ASSUME NEW d \in Days, NEW i \in 2..Len(fs[d]) PROVE HashOfLine(fs[d], i - 1, fs[d][i].prev)
  <2>1. i \in 1..Len(fs[d]) /\ i \in 2..Len(files[d]) /\ \A j \in 1 .. i - 1 : j \in 1..Len(fs[d])
    BY <1>0, <1>1, <1>4
  <2>2. HashOfLine(files[d], i - 1, fs[d][i].prev)
    BY <1>1, <2>1 DEF LinkedLog
  <2>3. \A j \in 1 .. i - 1 : fs[d][j] = files[d][j]
    BY <1>1, <2>1
  <2>4. QED
    BY <1>4, <2>2, <2>3, SameLine
<1>5. ASSUME NEW d \in Days, fs[d] # <<>> PROVE FirstLinked(fs, d)
  <2>1. 1 \in 1..Len(fs[d])
    BY <1>0, <1>5
  <2>2. files[d] # <<>> /\ fs[d][1] = files[d][1]
    BY <1>0, <1>1, <2>1
  <2>3. FirstLinked(files, d)
    BY <2>2 DEF LinkedLog
  <2>4. \A p \in Days : p < d => fs[p] = files[p]
    BY <1>2, <1>5
  <2>5. QED
    BY <2>2, <2>3, <2>4 DEF FirstLinked, PreviousDay
<1>6. QED
  BY <1>3, <1>4, <1>5 DEF LinkedLog, fs

(* A line of a file after AppendLine was there before or is the new one.   *)
LEMMA LineAfterAppend ==
    ASSUME TypeOK, NEW w \in Writers, NEW c \in Chunk,
           files' = [files EXCEPT ![writer[w].day] = Append(files[writer[w].day], c)],
           NEW d \in Days, NEW i \in 1..Len(files'[d])
    PROVE  \/ i \in 1..Len(files[d]) /\ files'[d][i] = files[d][i]
           \/ d = writer[w].day /\ i = Len(files[d]) + 1 /\ files'[d][i] = c
<1>1. files[d] \in Seq(Chunk) /\ Len(files[d]) \in Nat
  BY DEF TypeOK
<1>2. CASE d = writer[w].day
  <2>1. files'[d] = Append(files[d], c)
    BY <1>2 DEF TypeOK
  <2>2. i \in 1..Len(files[d]) \/ i = Len(files[d]) + 1
    BY <1>1, <2>1
  <2>3. QED
    BY <1>1, <1>2, <2>1, <2>2
<1>3. CASE d # writer[w].day
  BY <1>3 DEF TypeOK
<1>4. QED
  BY <1>2, <1>3

(* Apart from the first step of a call and the append, a step keeps the    *)
(* files, the number of calls and what is pending.                         *)
LEMMA EventSteps ==
    ASSUME TypeOK, [Next]_vars
    PROVE  \/ /\ UNCHANGED <<files, calls>>
              /\ \A v \in Writers : Pending(v)' => Pending(v) /\ writer'[v].ev = writer[v].ev
           \/ \E w \in Writers : Begin(w) \/ AppendLine(w)
<1> DEFINE Goal == \/ /\ UNCHANGED <<files, calls>>
                      /\ \A v \in Writers : Pending(v)' => Pending(v) /\ writer'[v].ev = writer[v].ev
                   \/ \E w \in Writers : Begin(w) \/ AppendLine(w)
<1> SUFFICES Goal
  OBVIOUS
<1>0. writer \in [Writers -> Call]
  BY DEF TypeOK
<1>1. ASSUME NEW w \in Writers, WriterStep(w) PROVE Goal
  <2>1. CASE Acquire(w)
    BY <1>0, <2>1 DEF Acquire, Pending, Call
  <2>2. CASE Busy(w)
    BY <1>0, <2>2 DEF Busy, Pending, Idle
  <2>3. CASE ReadTail(w)
    BY <1>0, <2>3 DEF ReadTail, Pending, Call
  <2>4. CASE Open(w)
    BY <1>0, <2>4 DEF Open, Pending, Call
  <2>5. CASE Commit(w)
    BY <1>0, <2>5 DEF Commit, Pending, Idle
  <2>6. CASE Abort(w)
    BY <1>0, <2>6 DEF Abort, Pending, Idle
  <2>7. QED
    BY <1>1, <2>1, <2>2, <2>3, <2>4, <2>5, <2>6 DEF WriterStep
<1>2. CASE UNCHANGED <<files, calls, writer>>
  BY <1>2 DEF Pending
<1>3. QED
  BY <1>1, <1>2 DEF Next, VerifyList, VerifyRead, VerifyReturn, Midnight, vars

(* What numbers the events and keeps each in one place. *)
Fresh == Numbered /\ PendingFresh /\ WrittenOnce

(* Every call has an event of its own and writes it once. *)
LEMMA NextFresh == TypeOK /\ Fresh /\ [Next]_vars => Fresh'
<1> SUFFICES ASSUME TypeOK, Fresh, [Next]_vars PROVE Fresh'
  OBVIOUS
<1> USE DEF Fresh
<1>0. /\ writer \in [Writers -> Call] /\ calls \in Nat /\ MaxEvents \in Nat
  BY ConstantsAssumption DEF TypeOK
<1>1. CASE /\ UNCHANGED <<files, calls>>
           /\ \A v \in Writers : Pending(v)' => Pending(v) /\ writer'[v].ev = writer[v].ev
  <2>1. Numbered'
    BY <1>1 DEF Numbered
  <2>2. PendingFresh'
    BY <1>1 DEF PendingFresh
  <2>3. WrittenOnce'
    BY <1>1 DEF WrittenOnce
  <2>4. QED
    BY <2>1, <2>2, <2>3
<1>2. ASSUME NEW w \in Writers, Begin(w) PROVE Fresh'
  <2>1. /\ UNCHANGED files /\ calls' = calls + 1 /\ calls < MaxEvents
        /\ writer'[w].ev = calls + 1
        /\ \A v \in Writers : v # w => writer'[v] = writer[v]
    BY <1>0, <1>2 DEF Begin
  <2>2. \A v \in Writers : v # w => (Pending(v)' <=> Pending(v))
    BY <2>1 DEF Pending
  <2>3. Numbered'
    BY <1>0, <2>1, <2>2 DEF Numbered
  <2>4. PendingFresh'
    BY <1>0, <2>1, <2>2 DEF Numbered, PendingFresh
  <2>5. WrittenOnce'
    BY <2>1 DEF WrittenOnce
  <2>6. QED
    BY <2>3, <2>4, <2>5
<1>3. ASSUME NEW w \in Writers, AppendLine(w) PROVE Fresh'
  <2>1. PICK c \in Chunk :
          /\ c.ev = writer[w].ev
          /\ files' = [files EXCEPT ![writer[w].day] = Append(files[writer[w].day], c)]
    BY <1>3, AppendEffect
  <2>2. /\ UNCHANGED calls /\ Pending(w) /\ writer'[w].pc = "appended"
        /\ \A v \in Writers : v # w => writer'[v] = writer[v]
    BY <1>0, <1>3 DEF AppendLine, Pending, Call
  <2>3. \A v \in Writers : Pending(v)' => v # w /\ Pending(v) /\ writer'[v].ev = writer[v].ev
    BY <2>2 DEF Pending
  <2>4. \A d \in Days : \A i \in 1..Len(files'[d]) :
           \/ i \in 1..Len(files[d]) /\ files'[d][i] = files[d][i]
           \/ d = writer[w].day /\ i = Len(files[d]) + 1 /\ files'[d][i] = c
    BY <2>1, LineAfterAppend
  <2>5. Numbered'
    <3>1. \A d \in Days : \A i \in 1..Len(files'[d]) : files'[d][i].ev \in 1..calls
      BY <2>1, <2>2, <2>4 DEF Numbered
    <3>2. QED
      BY <2>2, <2>3, <3>1 DEF Numbered
  <2>6. PendingFresh'
    <3>1. \A v \in Writers : Pending(v) /\ v # w =>
             \A d \in Days : \A i \in 1..Len(files'[d]) : files'[d][i].ev # writer[v].ev
      BY <2>1, <2>2, <2>4 DEF PendingFresh
    <3>2. QED
      BY <2>3, <3>1 DEF PendingFresh
  <2>7. WrittenOnce'
    <3>1. \A d \in Days : \A i \in 1..Len(files[d]) : files[d][i].ev # c.ev
      BY <2>1, <2>2 DEF PendingFresh
    <3>2. ASSUME NEW d \in Days, NEW e \in Days, NEW i \in 1..Len(files'[d]),
                 NEW j \in 1..Len(files'[e]), files'[d][i].ev = files'[e][j].ev
          PROVE  d = e /\ i = j
      <4>1. \/ i \in 1..Len(files[d]) /\ files'[d][i] = files[d][i]
            \/ d = writer[w].day /\ i = Len(files[d]) + 1 /\ files'[d][i] = c
        BY <2>4
      <4>2. \/ j \in 1..Len(files[e]) /\ files'[e][j] = files[e][j]
            \/ e = writer[w].day /\ j = Len(files[e]) + 1 /\ files'[e][j] = c
        BY <2>4
      <4>3. i \in 1..Len(files[d]) => files[d][i].ev # c.ev
        BY <3>1
      <4>4. j \in 1..Len(files[e]) => files[e][j].ev # c.ev
        BY <3>1
      <4>5. i \in 1..Len(files[d]) /\ j \in 1..Len(files[e]) /\ files[d][i].ev = files[e][j].ev
               => d = e /\ i = j
        BY DEF WrittenOnce
      <4> HIDE DEF Fresh
      <4>6. QED
        BY <3>2, <4>1, <4>2, <4>3, <4>4, <4>5
    <3>3. QED
      BY <3>2 DEF WrittenOnce
  <2>8. QED
    BY <2>5, <2>6, <2>7
<1>4. QED
  BY <1>1, <1>2, <1>3, EventSteps

(* Days are numbers, and the date does not go back. *)
LEMMA Dates ==
    ASSUME TypeOK, [Next]_vars
    PROVE  today \in Nat /\ today' \in Nat /\ today' >= today /\ Days \subseteq Nat
<1>1. TypeOK'
  BY NextType
<1>2. today \in Days /\ today' \in Days
  BY <1>1 DEF TypeOK
<1>3. Days \subseteq Nat
  BY ConstantsAssumption DEF Days
<1>4. QED
  BY <1>2, <1>3, TodayGrows

(* With quiet midnights a file that exists is today's or an earlier one's. *)
LEMMA NextCreatedInTime ==
    TypeOK /\ NamesToday /\ CreatedInTime /\ [Next]_vars => CreatedInTime'
<1> SUFFICES ASSUME TypeOK, NamesToday, CreatedInTime, [Next]_vars PROVE CreatedInTime'
  OBVIOUS
<1>0. /\ writer \in [Writers -> Call] /\ today \in Nat /\ today' \in Nat /\ today' >= today
      /\ created \subseteq Days /\ Days \subseteq Nat
  BY Dates DEF TypeOK
<1>1. ASSUME UNCHANGED <<files, created>>,
             \A w \in Writers : writer'[w].pc = "opened" =>
                 writer[w].pc = "opened" /\ writer'[w].day = writer[w].day
      PROVE  CreatedInTime'
  <2>1. \A d \in created : d \in Nat /\ d <= today'
    BY <1>0 DEF CreatedInTime
  <2>2. QED
    BY <1>1, <2>1 DEF CreatedInTime
<1>2. ASSUME NEW w \in Writers, WriterStep(w) PROVE CreatedInTime'
  <2> USE DEF Call, Idle
  <2>1. CASE Begin(w)
    BY <1>0, <1>1, <2>1 DEF Begin
  <2>2. CASE Acquire(w)
    BY <1>0, <1>1, <2>2 DEF Acquire
  <2>3. CASE Busy(w)
    BY <1>0, <1>1, <2>3 DEF Busy
  <2>4. CASE ReadTail(w)
    BY <1>0, <1>1, <2>4 DEF ReadTail
  <2>5. CASE Open(w)
    <3>1. /\ UNCHANGED <<files, today>> /\ created' = created \cup {writer[w].day}
          /\ writer'[w].day = writer[w].day /\ writer[w].day = today
          /\ \A v \in Writers : v # w => writer'[v] = writer[v]
      BY <1>0, <2>5 DEF Open, NamesToday
    <3>2. QED
      BY <1>0, <3>1 DEF CreatedInTime
  <2>6. CASE AppendLine(w)
    <3>1. PICK c \in Chunk :
            files' = [files EXCEPT ![writer[w].day] = Append(files[writer[w].day], c)]
      BY <2>6, AppendEffect
    <3>2. /\ UNCHANGED <<created, today>> /\ writer[w].day \in created
          /\ writer'[w].pc = "appended" /\ \A v \in Writers : v # w => writer'[v] = writer[v]
      BY <1>0, <2>6 DEF AppendLine, CreatedInTime
    <3>3. \A d \in Days : d # writer[w].day => files'[d] = files[d]
      BY <3>1 DEF TypeOK
    <3>4. QED
      BY <3>2, <3>3 DEF CreatedInTime
  <2>7. CASE Commit(w)
    BY <1>0, <1>1, <2>7 DEF Commit
  <2>8. CASE Abort(w)
    BY <1>0, <1>1, <2>8 DEF Abort
  <2>9. QED
    BY <1>2, <2>1, <2>2, <2>3, <2>4, <2>5, <2>6, <2>7, <2>8 DEF WriterStep
<1>3. CASE UNCHANGED <<files, created, writer>>
  BY <1>1, <1>3
<1>4. QED
  BY <1>2, <1>3 DEF Next, VerifyList, VerifyRead, VerifyReturn, Midnight, vars

(* What a verification has read keeps being a part of the files. *)
LEMMA NextSeenIsPrefix ==
    TypeOK /\ NamesToday /\ CreatedInTime /\ SeenIsPrefix /\ [Next]_vars => SeenIsPrefix'
<1> SUFFICES ASSUME TypeOK, NamesToday, CreatedInTime, SeenIsPrefix, [Next]_vars
             PROVE  SeenIsPrefix'
  OBVIOUS
<1>0. /\ files \in [Days -> Seq(Chunk)] /\ verifier.seen \in [Days -> Seq(Chunk)]
      /\ \A d \in Days : Len(files[d]) \in Nat /\ Len(verifier.seen[d]) \in Nat
      /\ today \in Nat /\ today' \in Nat /\ today' >= today /\ Days \subseteq Nat
  BY Dates DEF TypeOK
<1>1. CASE UNCHANGED <<files, verifier>>
  <2>1. \A d \in Days : Listed(d)' => d <= today'
    BY <1>0, <1>1 DEF SeenIsPrefix, Listed
  <2>2. QED
    BY <1>1, <2>1 DEF SeenIsPrefix, Listed
<1>2. ASSUME NEW w \in Writers, AppendLine(w) PROVE SeenIsPrefix'
  <2>1. PICK c \in Chunk :
          files' = [files EXCEPT ![writer[w].day] = Append(files[writer[w].day], c)]
    BY <1>2, AppendEffect
  <2>2. UNCHANGED <<verifier, today>> /\ writer[w].day = today
    BY <1>2 DEF AppendLine, NamesToday
  <2>3. \A d \in Days : d # today => files'[d] = files[d]
    BY <2>1, <2>2 DEF TypeOK
  <2>4. \A d \in Days : /\ Len(verifier.seen[d]) <= Len(files'[d])
                        /\ \A i \in 1..Len(verifier.seen[d]) : verifier.seen[d][i] = files'[d][i]
    <3>1. ASSUME NEW d \in Days, d = today
          PROVE  /\ Len(files'[d]) = Len(files[d]) + 1
                 /\ \A i \in 1..Len(files[d]) : files'[d][i] = files[d][i]
      <4>1. files'[d] = Append(files[d], c)
        BY <1>0, <2>1, <2>2, <3>1
      <4>2. QED
        BY <1>0, <4>1
    <3>2. \A d \in Days : \A i \in 1..Len(verifier.seen[d]) : i \in 1..Len(files[d])
      BY <1>0 DEF SeenIsPrefix
    <3>3. QED
      BY <1>0, <2>3, <3>1, <3>2 DEF SeenIsPrefix
  <2>5. \A d, e \in Days : d < e /\ Listed(e) /\ d \notin verifier.todo => verifier.seen[d] = files'[d]
    BY <1>0, <2>3 DEF SeenIsPrefix
  <2>6. QED
    BY <2>2, <2>4, <2>5 DEF SeenIsPrefix, Listed
<1>3. CASE VerifyList
  <2>1. /\ UNCHANGED <<files, today>> /\ verifier'.todo = created
        /\ \A d \in Days : verifier'.seen[d] = <<>>
    BY <1>3 DEF VerifyList
  <2>2. \A d \in Days : Listed(d)' <=> d \in created
    BY <2>1 DEF Listed
  <2>3. QED
    BY <1>0, <2>1, <2>2 DEF SeenIsPrefix, CreatedInTime
<1>4. ASSUME NEW r \in Days, VerifyRead(r) PROVE SeenIsPrefix'
  <2>1. /\ UNCHANGED <<files, today>> /\ verifier'.todo = verifier.todo \ {r} /\ r \in verifier.todo
        /\ verifier'.seen = [verifier.seen EXCEPT ![r] = files[r]]
    BY <1>4 DEF VerifyRead, TypeOK
  <2>2. verifier'.seen[r] = files[r] /\ \A d \in Days : d # r => verifier'.seen[d] = verifier.seen[d]
    BY <1>0, <2>1
  <2>3. \A d \in Days : Listed(d)' => Listed(d)
    BY <2>1, <2>2 DEF Listed
  <2>4. \A d \in Days : /\ Len(verifier'.seen[d]) <= Len(files'[d])
                        /\ \A i \in 1..Len(verifier'.seen[d]) : verifier'.seen[d][i] = files'[d][i]
    BY <1>0, <2>1, <2>2 DEF SeenIsPrefix
  <2>5. \A d \in Days : Listed(d)' => d <= today'
    BY <2>1, <2>3 DEF SeenIsPrefix
  <2>6. ASSUME NEW d \in Days, NEW e \in Days, d < e, Listed(e)', d \notin verifier'.todo
        PROVE  verifier'.seen[d] = files'[d]
    BY <2>1, <2>2, <2>3, <2>6 DEF SeenIsPrefix
  <2>7. QED
    BY <2>4, <2>5, <2>6 DEF SeenIsPrefix
<1>5. CASE VerifyReturn
  <2>1. /\ UNCHANGED <<files, today>> /\ verifier'.todo = {}
        /\ \A d \in Days : verifier'.seen[d] = <<>>
    BY <1>5 DEF VerifyReturn
  <2>2. \A d \in Days : ~Listed(d)'
    BY <2>1 DEF Listed
  <2>3. QED
    BY <1>0, <2>1, <2>2 DEF SeenIsPrefix
<1>6. ASSUME NEW w \in Writers, WriterStep(w), ~AppendLine(w) PROVE UNCHANGED <<files, verifier>>
  BY <1>6 DEF WriterStep, Begin, Acquire, Busy, ReadTail, Open, Commit, Abort
<1>7. Midnight \/ UNCHANGED vars => UNCHANGED <<files, verifier>>
  BY DEF Midnight, vars
<1>8. QED
  BY <1>1, <1>2, <1>3, <1>4, <1>5, <1>6, <1>7 DEF Next

-----------------------------------------------------------------------------
(* The refinement *)

(* The events of the day files, and of all of them in date order. *)
Columns == [d \in Days |-> EventsOf(files[d])]
Log == FlattenSeq(Columns)

(* The events of a day file are those of its lines. *)
LEMMA EventsOfFile ==
    ASSUME NEW f \in Seq(Chunk)
    PROVE  /\ EventsOf(f) \in Seq(Nat) /\ Len(EventsOf(f)) = Len(f)
           /\ \A x : Has(EventsOf(f), x) <=> \E i \in 1..Len(f) : f[i].ev = x
<1>1. \A i \in 1..Len(f) : f[i].ev \in Nat
  <2>1. ASSUME NEW i \in 1..Len(f) PROVE f[i].ev \in Nat
    <3>1. f[i] \in Chunk
      OBVIOUS
    <3>2. QED
      BY <3>1 DEF Chunk
  <2>2. QED
    BY <2>1
<1>2. Len(f) \in Nat /\ DOMAIN EventsOf(f) = 1..Len(f)
  BY DEF EventsOf
<1>3. EventsOf(f) \in Seq(Nat) /\ Len(EventsOf(f)) = Len(f)
  BY <1>1, <1>2 DEF EventsOf
<1>4. \A i \in 1..Len(f) : EventsOf(f)[i] = f[i].ev
  BY DEF EventsOf
<1>5. QED
  BY <1>3, <1>4 DEF Has

(* A line appended to a file appends its event. *)
LEMMA EventsOfAppend ==
    ASSUME NEW f \in Seq(Chunk), NEW c \in Chunk
    PROVE  EventsOf(Append(f, c)) = Append(EventsOf(f), c.ev)
<1> DEFINE x == EventsOf(Append(f, c))
           y == Append(EventsOf(f), c.ev)
<1>1. /\ c.ev \in Nat /\ Append(f, c) \in Seq(Chunk) /\ Len(f) \in Nat
      /\ Len(Append(f, c)) = Len(f) + 1
  BY DEF Chunk
<1>2. x \in Seq(Nat) /\ Len(x) = Len(f) + 1
  BY <1>1, EventsOfFile
<1>3. y \in Seq(Nat) /\ Len(y) = Len(f) + 1
  BY <1>1, EventsOfFile, AppendProperties
<1>4. ASSUME NEW i \in 1 .. Len(f) + 1 PROVE x[i] = y[i]
  <2>1. x[i] = Append(f, c)[i].ev
    BY <1>1 DEF EventsOf
  <2>2. CASE i \in 1..Len(f)
    <3>1. Append(f, c)[i] = f[i] /\ EventsOf(f)[i] = f[i].ev
      BY <2>2 DEF EventsOf
    <3>2. y[i] = EventsOf(f)[i]
      BY <1>1, <2>2, EventsOfFile, AppendProperties
    <3>3. QED
      BY <2>1, <3>1, <3>2
  <2>3. CASE i = Len(f) + 1
    <3>1. Append(f, c)[i] = c
      BY <2>3
    <3>2. y[i] = c.ev
      BY <1>1, <2>3, EventsOfFile, AppendProperties
    <3>3. QED
      BY <2>1, <3>1, <3>2
  <2> HIDE DEF x, y
  <2>4. i \in 1..Len(f) \/ i = Len(f) + 1
    BY <1>1, <1>4
  <2>5. QED
    BY <2>2, <2>3, <2>4
<1> HIDE DEF x, y
<1>5. x = y
  BY <1>2, <1>3, <1>4, SeqEqual
<1>6. QED
  BY <1>5 DEF x, y

(* The log has the events that are in the files. *)
LEMMA LogHas ==
    ASSUME TypeOK
    PROVE  /\ Columns \in [1..MaxDay -> Seq(Nat)] /\ Log \in Seq(Nat) /\ MaxDay \in Nat \ {0}
           /\ \A x : Has(Log, x) <=> \E d \in Days : \E i \in 1..Len(files[d]) : files[d][i].ev = x
<1>1. files \in [Days -> Seq(Chunk)] /\ Days = 1..MaxDay /\ MaxDay \in Nat \ {0}
  BY ConstantsAssumption DEF TypeOK, Days
<1>2. \A d \in Days : EventsOf(files[d]) \in Seq(Nat)
  BY <1>1, EventsOfFile
<1>3. Columns \in [1..MaxDay -> Seq(Nat)]
  BY <1>1, <1>2 DEF Columns
<1>4. Log \in Seq(Nat) /\ \A x : Has(Log, x) <=> \E d \in 1..MaxDay : Has(Columns[d], x)
  BY <1>1, <1>3, FlattenHas DEF Log
<1>5. \A d \in Days : Columns[d] = EventsOf(files[d])
  BY DEF Columns
<1>6. \A d \in Days : \A x : Has(Columns[d], x) <=> \E i \in 1..Len(files[d]) : files[d][i].ev = x
  BY <1>1, <1>5, EventsOfFile
<1>7. QED
  BY <1>1, <1>3, <1>4, <1>6

(* The day files are one log from the start. *)
LEMMA LinearInit == Init => Linear!Init
<1> SUFFICES ASSUME Init PROVE Linear!Init
  OBVIOUS
<1>1. TypeOK
  BY InitType
<1>2. \A d \in Days : files[d] = <<>>
  BY DEF Init
<1>3. Log \in Seq(Nat) /\ \A x : ~Has(Log, x)
  BY <1>1, <1>2, LogHas
<1>4. Log = <<>>
  <2>1. Len(Log) \in Nat /\ (Log # <<>> => Len(Log) # 0)
    BY <1>3, EmptySeq, LenProperties
  <2>2. Len(Log) # 0 => Has(Log, Log[1])
    BY <2>1 DEF Has
  <2>3. QED
    BY <1>3, <2>1, <2>2
<1>5. QED
  BY <1>4 DEF Init, Linear!Init, Log, Columns

(* What every step needs to know: with quiet midnights. *)
LInv == IInv /\ Fresh /\ NamesToday /\ FutureEmpty

(* A step is one of the abstract log or leaves it alone. *)
LEMMA LinearNext == LInv /\ [Next]_vars => [Linear!Next]_<<Log, returned>>
<1> SUFFICES ASSUME LInv, [Next]_vars PROVE [Linear!Next]_<<Log, returned>>
  OBVIOUS
<1>0. TypeOK /\ Numbered /\ PendingFresh /\ OffsetFresh /\ NamesToday /\ FutureEmpty
  BY DEF LInv, IInv, Fresh
<1>1. ASSUME NEW w \in Writers, AppendLine(w) PROVE Linear!Next
  <2> DEFINE e == writer[w].ev
  <2>1. PICK c \in Chunk :
          /\ c.ev = e
          /\ files' = [files EXCEPT ![writer[w].day] = Append(files[writer[w].day], c)]
    BY <1>0, <1>1, AppendEffect
  <2>2. UNCHANGED returned /\ Pending(w) /\ writer[w].day = today /\ today \in Days
    BY <1>0, <1>1 DEF AppendLine, Pending, NamesToday, TypeOK
  <2>3. e \in Events /\ e \in Nat /\ ~Has(Log, e)
    <3>1. e \in 1..calls /\ calls <= MaxEvents /\ calls \in Nat /\ MaxEvents \in Nat
      BY <1>0, <2>2, ConstantsAssumption DEF Numbered, TypeOK
    <3>2. \A d \in Days : \A i \in 1..Len(files[d]) : files[d][i].ev # e
      BY <1>0, <2>2 DEF PendingFresh
    <3>3. ~Has(Log, e)
      BY <1>0, <3>2, LogHas
    <3> HIDE DEF e
    <3>4. QED
      BY <3>1, <3>3 DEF Events
  <2>4. Log' = Append(Log, e)
    <3>1. files \in [Days -> Seq(Chunk)] /\ Days = 1..MaxDay
      BY <1>0 DEF TypeOK, Days
    <3>2. files'[today] = Append(files[today], c) /\ \A d \in Days : d # today => files'[d] = files[d]
      BY <2>1, <2>2, <3>1
    <3>3. Columns' = [d \in Days |-> EventsOf(files'[d])]
      BY DEF Columns, EventsOf
    <3>4. Columns'[today] = Append(Columns[today], e)
      BY <2>1, <2>2, <3>1, <3>2, <3>3, EventsOfAppend DEF Columns
    <3>5. \A d \in 1..MaxDay : d # today => Columns'[d] = Columns[d]
      BY <3>1, <3>2, <3>3 DEF Columns
    <3>6. \A d \in 1..MaxDay : d > today => Columns[d] = <<>>
      <4>1. \A d \in 1..MaxDay : d > today => files[d] = <<>>
        BY <1>0, <3>1 DEF FutureEmpty
      <4>2. \A d \in 1..MaxDay : Columns[d] \in Seq(Nat) /\ Len(Columns[d]) = Len(files[d])
        BY <3>1, EventsOfFile DEF Columns
      <4>3. QED
        BY <4>1, <4>2, EmptySeq
    <3>7. Columns \in [1..MaxDay -> Seq(Nat)] /\ MaxDay \in Nat \ {0}
      BY <1>0, LogHas
    <3>8. Columns' \in [1..MaxDay -> Seq(Nat)]
      <4>1. Append(Columns[today], e) \in Seq(Nat)
        BY <2>2, <2>3, <3>1, <3>7, AppendProperties
      <4>2. \A d \in 1..MaxDay : Columns'[d] \in Seq(Nat)
        BY <2>2, <3>4, <3>5, <3>7, <4>1
      <4>3. QED
        BY <3>1, <3>3, <4>2
    <3>9. today \in 1..MaxDay
      BY <2>2, <3>1
    <3> HIDE DEF e
    <3>10. e \in Nat
      BY <2>3
    <3>11. Grows(Nat, MaxDay, Columns, Columns', today, e)
      BY <3>4, <3>5, <3>6, <3>7, <3>8, <3>9, <3>10 DEF Grows
    <3>12. FlattenSeq(Columns') = Append(FlattenSeq(Columns), e)
      BY <3>11, FlattenAppend
    <3>13. QED
      BY <3>12 DEF Log
  <2> HIDE DEF e
  <2>5. Linear!Record(e)
    BY <2>2, <2>3, <2>4 DEF Linear!Record, Has, Log, Columns
  <2>6. QED
    BY <2>3, <2>5 DEF Linear!Next
<1>2. ASSUME NEW w \in Writers, Commit(w) PROVE Linear!Next
  <2> DEFINE e == writer[w].ev
             d == writer[w].day
             i == writer[w].offset + 1
  <2>1. UNCHANGED files /\ returned' = returned \cup {e}
    BY <1>2 DEF Commit
  <2>2. d \in Days /\ i \in 1..Len(files[d]) /\ files[d][i].ev = e
    <3>1. writer[w] \in Call /\ Len(files[d]) \in Nat
      BY <1>0 DEF TypeOK, Call
    <3>2. writer[w].offset \in Nat /\ d \in Days
      BY <3>1 DEF Call
    <3>3. writer[w].offset < Len(files[d]) /\ files[d][i].ev = e
      BY <1>0, <1>2 DEF Commit, OffsetFresh
    <3>4. QED
      BY <3>1, <3>2, <3>3
  <2> HIDE DEF e, d, i
  <2>3. Has(Log, e) /\ e \in Events
    <3>1. e \in 1..calls /\ calls <= MaxEvents /\ calls \in Nat /\ MaxEvents \in Nat
      BY <1>0, <2>2, ConstantsAssumption DEF Numbered, TypeOK
    <3>2. QED
      BY <1>0, <2>2, <3>1, LogHas DEF Events
  <2>4. Log' = Log
    BY <2>1 DEF Log, Columns, EventsOf
  <2>5. Linear!Acknowledge(e)
    BY <2>1, <2>3, <2>4 DEF Linear!Acknowledge, Has, Log, Columns
  <2>6. QED
    BY <2>3, <2>5 DEF Linear!Next
<1>3. CASE UNCHANGED <<files, returned>>
  BY <1>3 DEF Log, Columns, EventsOf
<1>4. QED
  BY <1>1, <1>2, <1>3 DEF Next, WriterStep, Begin, Acquire, Busy, ReadTail, Open, Abort,
     VerifyList, VerifyRead, VerifyReturn, Midnight, vars

(* What the quiet invariant adds holds initially. *)
LEMMA InitFresh == Init => Fresh /\ CreatedInTime /\ SeenIsPrefix
<1> SUFFICES ASSUME Init PROVE Fresh /\ CreatedInTime /\ SeenIsPrefix
  OBVIOUS
<1>1. Fresh
  BY ConstantsAssumption DEF Init, Fresh, Numbered, PendingFresh, WrittenOnce, Pending, Idle
<1>2. CreatedInTime /\ SeenIsPrefix
  BY DEF Init, CreatedInTime, SeenIsPrefix, Listed, Idle
<1>3. QED
  BY <1>1, <1>2

(* If no call straddles midnight, the day files in date order are one      *)
(* append-only log: every writeTrace appends its event once, at the end,   *)
(* before it is acknowledged, however the processes interleave and even    *)
(* when a write is cut short.                                              *)
THEOREM RefinesAuditLog ==
    ASSUME MidnightQuiet
    PROVE  Spec => ImplementsAuditLog
<1>1. Init => LInv
  BY QuietInit, InitFresh DEF LInv, QInv
<1>2. LInv /\ [Next]_vars => LInv'
  BY NextInv, NextFresh, NextNamesToday, NextFutureEmpty DEF LInv, IInv
<1>3. Init => Linear!Init
  BY LinearInit
<1>4. LInv /\ [Next]_vars => [Linear!Next]_<<FlattenSeq([d \in Days |-> EventsOf(files[d])]), returned>>
  BY LinearNext DEF Log, Columns
<1>5. QED
  BY <1>1, <1>2, <1>3, <1>4, PTL DEF Spec, ImplementsAuditLog, Linear!Spec

(* With quiet midnights and whole writes, all of this is inductive. *)
QuietInv == QInv /\ Fresh /\ CreatedInTime /\ SeenIsPrefix

(* The quiet invariant holds of every behaviour. *)
LEMMA QuietInvariance ==
    ASSUME MidnightQuiet, ~ShortWrites
    PROVE  Spec => []QuietInv
<1>1. Init => QuietInv
  BY QuietInit, InitFresh DEF QuietInv
<1>2. QuietInv /\ [Next]_vars => QuietInv'
  BY NextInv, NextAllWhole, NextNamesToday, NextFutureEmpty, NextBoundariesLinked,
     NextFresh, NextCreatedInTime, NextSeenIsPrefix
  DEF QuietInv, QInv, IInv
<1>3. QED
  BY <1>1, <1>2, PTL DEF Spec

(* Deleting a whole day file that has events, when a later one has too, is *)
(* reported by verifyAuditChain: the next event's hash is of a line that   *)
(* is gone, and no other line has that hash, since no event is written     *)
(* twice.                                                                  *)
THEOREM DeletionIsDetected ==
    ASSUME MidnightQuiet, ~ShortWrites
    PROVE  Spec => []DeletionDetected
<1>1. QuietInv => DeletionDetected
  BY QuietLinked, DeletionShows DEF QuietInv, QInv, IInv, Fresh, DeletionDetected
<1>2. QED
  BY <1>1, QuietInvariance, PTL

(* A verification that runs while processes append, and reads the day      *)
(* files one at a time, reports nothing: it has read prefixes of the       *)
(* files, whole ones up to the newest it listed.                           *)
THEOREM NoFalseAlarms ==
    ASSUME MidnightQuiet, ~ShortWrites
    PROVE  Spec => []NoFalseAlarm
<1>1. QuietInv => NoFalseAlarm
  <2> SUFFICES ASSUME QuietInv, verifier.todo = {} PROVE Breaks(verifier.seen) = {}
    BY DEF NoFalseAlarm
  <2>1. LinkedLog(verifier.seen)
    BY QuietLinked, SeenIsLinked DEF QuietInv, QInv, IInv
  <2>2. verifier.seen \in [Days -> Seq(Chunk)]
    BY DEF QuietInv, QInv, IInv, TypeOK
  <2>3. QED
    BY <2>1, <2>2, LinkedLogVerifies
<1>2. QED
  BY <1>1, QuietInvariance, PTL
=============================================================================
