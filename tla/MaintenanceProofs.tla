------------------------- MODULE MaintenanceProofs -------------------------
(***************************************************************************)
(* For any mounts, contents, batches, prices and number of commands: the   *)
(* types of Maintenance, that the ceiling of the day holds, and, as long   *)
(* as no two files of a batch share a path with different contents, that   *)
(* marks are earned and that receipts that claim freshness are true.       *)
(*                                                                         *)
(* The types (Typed) are inductive with what makes lookups exact: no two   *)
(* rows have one path and one content, and what a command has still to do  *)
(* are rows. Spend says that the run knows of what the ledger has. Honest  *)
(* has two parts: Earned, that each path the run counts as compiled or     *)
(* skipped has a row with the content of a candidate, and Scan, that while *)
(* nothing was edited since its scan and its batch is all that was         *)
(* eligible, every mounted file is refused, accounted for or in the batch. *)
(*                                                                         *)
(* Candidates and work lists are sets put in an order (InOrder): that one  *)
(* exists is proved by the least counterexample, as is what the recursive  *)
(* function that registers a list does to the table.                       *)
(*                                                                         *)
(* The last part is about the lock that a run takes (WriteLock), for any   *)
(* number of processes and kills: its types, and that a holder whose call  *)
(* has ended reads from a closed pipe. That is not inductive: Ownership    *)
(* says who holds the flock, Spawned what a call's step tells of its child *)
(* and of its pipe.                                                        *)
(***************************************************************************)
EXTENDS Maintenance, WriteLock, FiniteSetTheorems, SequenceTheorems, WellFoundedInduction, TLAPS

(* Numbers *)

(* A set of numbers that is not empty has a least member. *)
LEMMA LeastNat ==
    ASSUME NEW T, T \subseteq Nat, T # {}
    PROVE  \E m \in T : \A k \in T : m <= k
<1>1. PICK m \in T : \A k \in T : ~(<<k, m>> \in OpToRel(<, Nat))
  BY NatLessThanWellFounded, WFMin
<1>2. ASSUME NEW k \in T PROVE m <= k
  <2>1. m \in Nat /\ k \in Nat /\ ~(k < m)
    BY <1>1 DEF OpToRel
  <2>2. QED
    BY <2>1
<1>3. QED
  BY <1>1, <1>2

(* One of bounded numbers has a greatest. *)
LEMMA GreatestNat ==
    ASSUME NEW n \in Nat, NEW T, T \subseteq 1..n, T # {}
    PROVE  \E m \in T : \A k \in T : m >= k
<1> DEFINE U == {u \in 0..n : n - u \in T}
<1>1. U \subseteq Nat
  OBVIOUS
<1>2. U # {}
  <2>1. PICK t \in T : TRUE
    OBVIOUS
  <2>2. n - t \in 0..n /\ n - (n - t) = t
    BY <2>1
  <2>3. QED
    BY <2>1, <2>2
<1>3. PICK u \in U : \A k \in U : u <= k
  <2> HIDE DEF U
  <2>1. QED
    BY <1>1, <1>2, LeastNat
<1>4. ASSUME NEW k \in T PROVE n - u >= k
  <2>1. n - k \in 0..n /\ n - (n - k) = k
    BY <1>4
  <2>2. n - k \in U
    BY <1>4, <2>1
  <2>3. u <= n - k /\ u \in 0..n
    BY <1>3, <2>2
  <2>4. QED
    BY <1>4, <2>3
<1>5. QED
  BY <1>3, <1>4

\* Min and Max of what has a bound.
LEMMA MinIs ==
    ASSUME NEW T, T \subseteq Nat, T # {}
    PROVE  Min(T) \in T /\ \A k \in T : Min(T) <= k
BY LeastNat DEF Min

LEMMA MaxIs ==
    ASSUME NEW n \in Nat, NEW T, T \subseteq 1..n, T # {}
    PROVE  Max(T) \in T /\ \A k \in T : Max(T) >= k
BY GreatestNat DEF Max

-----------------------------------------------------------------------------
(* Orders *)

Strict(S, R) ==
    /\ \A a \in S : <<a, a>> \notin R
    /\ \A a, b, c \in S : <<a, b>> \in R /\ <<b, c>> \in R => <<a, c>> \in R
    /\ \A a, b \in S : a # b => <<a, b>> \in R \/ <<b, a>> \in R

(* A finite set in a strict total order can be listed in it. *)
LEMMA OrderExists ==
    ASSUME NEW S, IsFiniteSet(S), NEW R, Strict(S, R)
    PROVE  \E s \in [1..Cardinality(S) -> S] :
              \A i, j \in DOMAIN s : i < j => <<s[i], s[j]>> \in R
<1> DEFINE n == Cardinality(S)
           Below(a) == {b \in S : <<b, a>> \in R}
           rank == [a \in S |-> Cardinality(Below(a))]
<1>1. n \in Nat
  BY FS_CardinalityType
<1>2. ASSUME NEW a \in S
      PROVE  IsFiniteSet(Below(a)) /\ Cardinality(Below(a)) \in 0..(n - 1)
  <2>1. IsFiniteSet(Below(a)) /\ Cardinality(Below(a)) <= n
        /\ (n = Cardinality(Below(a)) => S = Below(a))
    BY FS_Subset
  <2>2. a \notin Below(a)
    BY DEF Strict
  <2>3. Cardinality(Below(a)) \in Nat
    BY <2>1, FS_CardinalityType
  <2>4. QED
    BY <1>1, <2>1, <2>2, <2>3
<1>3. ASSUME NEW a \in S, NEW b \in S, <<a, b>> \in R
      PROVE  rank[a] < rank[b]
  <2>1. Below(a) \in SUBSET Below(b)
    BY <1>3 DEF Strict
  <2>2. a \in Below(b) /\ a \notin Below(a)
    BY <1>3 DEF Strict
  <2>3. Cardinality(Below(a)) <= Cardinality(Below(b))
        /\ (Cardinality(Below(b)) = Cardinality(Below(a)) => Below(b) = Below(a))
    <3>1. IsFiniteSet(Below(b))
      BY <1>2
    <3> HIDE DEF Below
    <3>2. QED
      BY <2>1, <3>1, FS_Subset
  <2>4. Cardinality(Below(a)) \in 0..(n - 1) /\ Cardinality(Below(b)) \in 0..(n - 1)
    BY <1>2
  <2>5. Cardinality(Below(a)) < Cardinality(Below(b))
    <3>1. Below(a) # Below(b)
      BY <2>2
    <3> HIDE DEF Below
    <3>2. QED
      BY <1>1, <2>3, <2>4, <3>1
  <2>6. QED
    BY <2>5
<1>4. rank \in [S -> 0..(n - 1)]
  <2> HIDE DEF Below, n
  <2>1. QED
    BY <1>2
<1> HIDE DEF rank
<1>5. rank \in Injection(S, 0..(n - 1))
  <2>1. ASSUME NEW a \in S, NEW b \in S, rank[a] = rank[b]
        PROVE  a = b
    <3>1. rank[a] \in 0..(n - 1) /\ rank[b] \in 0..(n - 1)
      BY <1>4
    <3>2. ~(rank[a] < rank[b]) /\ ~(rank[b] < rank[a])
      BY <2>1, <3>1
    <3>3. QED
      BY <1>3, <3>2 DEF Strict
  <2>2. QED
    BY <1>4, <2>1 DEF Injection, IsInjective
<1>6. rank \in Surjection(S, 0..(n - 1))
  <2>1. IsFiniteSet(0..(n - 1)) /\ Cardinality(0..(n - 1)) = n
    <3>1. 0 \in Int /\ n - 1 \in Int
      BY <1>1
    <3>2. IsFiniteSet(0..(n - 1))
          /\ Cardinality(0..(n - 1)) = IF 0 > n - 1 THEN 0 ELSE (n - 1) - 0 + 1
      BY <3>1, FS_Interval
    <3>3. QED
      BY <1>1, <3>2
  <2>2. QED
    BY <1>5, <2>1, FS_Injection
<1> DEFINE s == [k \in 1..n |-> CHOOSE a \in S : rank[a] = k - 1]
<1>7. ASSUME NEW k \in 1..n PROVE s[k] \in S /\ rank[s[k]] = k - 1
  <2>1. k - 1 \in 0..(n - 1)
    BY <1>1
  <2>2. \E a \in S : rank[a] = k - 1
    BY <1>6, <2>1 DEF Surjection
  <2>3. QED
    BY <2>2
<1>8. s \in [1..n -> S]
  <2> DEFINE f(k) == CHOOSE a \in S : rank[a] = k - 1
  <2>1. \A k \in 1..n : f(k) \in S
    BY <1>7
  <2> HIDE DEF f
  <2>2. [k \in 1..n |-> f(k)] \in [1..n -> S]
    BY <2>1
  <2>3. QED
    BY <2>2 DEF f
<1>9. DOMAIN s = 1..n
  OBVIOUS
<1> HIDE DEF s
<1>10. ASSUME NEW i \in 1..n, NEW j \in 1..n, i < j PROVE <<s[i], s[j]>> \in R
  <2>1. s[i] \in S /\ s[j] \in S /\ rank[s[i]] = i - 1 /\ rank[s[j]] = j - 1
    BY <1>7
  <2>2. s[i] # s[j] /\ ~(rank[s[j]] < rank[s[i]])
    BY <1>1, <1>10, <2>1
  <2>3. <<s[i], s[j]>> \in R \/ <<s[j], s[i]>> \in R
    BY <2>1, <2>2 DEF Strict
  <2>4. QED
    BY <1>3, <2>1, <2>2, <2>3
<1>11. QED
  BY <1>8, <1>9, <1>10

(* What is listed in a strict order is listed once, and all of it. *)
LEMMA OrderLists ==
    ASSUME NEW S, IsFiniteSet(S), NEW R, Strict(S, R),
           NEW s \in [1..Cardinality(S) -> S],
           \A i, j \in DOMAIN s : i < j => <<s[i], s[j]>> \in R
    PROVE  \A a \in S : \E i \in 1..Cardinality(S) : s[i] = a
<1>1. Cardinality(S) \in Nat
  BY FS_CardinalityType
<1> DEFINE n == Cardinality(S)
<1>2. s \in Injection(1..n, S)
  <2>1. ASSUME NEW i \in 1..n, NEW j \in 1..n, s[i] = s[j] PROVE i = j
    <3>1. ~(i < j) /\ ~(j < i)
      BY <2>1 DEF Strict
    <3>2. QED
      BY <1>1, <3>1
  <2>2. QED
    BY <2>1 DEF Injection, IsInjective
<1>3. IsFiniteSet(1..n) /\ Cardinality(1..n) = n
  <2>1. 1 \in Int /\ n \in Int
    BY <1>1
  <2>2. Cardinality(1..n) = IF 1 > n THEN 0 ELSE n - 1 + 1
    BY <2>1, FS_Interval
  <2>3. QED
    BY <1>1, <2>1, <2>2, FS_Interval
<1>4. s \in Surjection(1..n, S)
  <2> HIDE DEF n
  <2>1. Cardinality(1..n) = Cardinality(S)
    BY <1>3 DEF n
  <2>2. QED
    BY <1>2, <2>1, FS_Injection
<1>5. QED
  BY <1>4 DEF Surjection

-----------------------------------------------------------------------------
(* Types *)

Pcs == {"idle", "copy", "register", "ask", "call", "publish", "ingest", "lock"}
Command == [pc : Pcs, locked : BOOLEAN, cands : Seq(Candidate), eligible : Nat,
            reg : Seq(Candidate), comp : SUBSET Paths, todo : Seq(Nat),
            text : Versions \cup {None}, tries : Nat, won : SUBSET Paths,
            skipped : SUBSET Paths, lost : SUBSET Paths, spent : Nat, seen : Nat]
Status == {"none", "running", "compiled", "partial", "verified_noop", "failure"}

Unique(table) ==
    \A i, j \in DOMAIN table :
        table[i].path = table[j].path /\ table[i].hash = table[j].hash => i = j

\* What a command has still to do refers to rows.
Fit(r, table) ==
    /\ \A i \in DOMAIN r.todo : r.todo[i] \in DOMAIN table
    /\ r.pc \in {"call", "publish"} => r.todo # <<>>
    /\ r.pc \in {"ingest", "lock"} => r.reg # <<>>

Typed ==
    /\ disk \in [Mounted -> Versions \cup {None}]
    /\ mount \in {"none", "ok", "missing", "stale"}
    /\ raw \in [Paths -> Versions \cup {None}]
    /\ rows \in Seq(Row) /\ Unique(rows)
    /\ page \in [Paths -> Versions \cup {None}]
    /\ latest \in [status : Status, paths : Seq(Paths)]
    /\ ledger \in Nat /\ day \in 1..MaxDay /\ metered \in BOOLEAN /\ edits \in Nat
    /\ run \in [Procs -> Command]
    /\ \A q \in Procs : Fit(run[q], rows)

\* The inductive form says what TypeOK says.
LEMMA TypedIsTypeOK == Typed => TypeOK
<1> SUFFICES ASSUME Typed PROVE TypeOK
  OBVIOUS
<1>1. \A i, j \in DOMAIN rows :
         rows[i].path = rows[j].path /\ rows[i].hash = rows[j].hash => i = j
  BY DEF Typed, Unique
<1>2. latest.status \in Status /\ latest.paths \in Seq(Paths)
  BY DEF Typed
<1>3. DOMAIN run = Procs
  BY DEF Typed
<1>4. ASSUME NEW q \in Procs
      PROVE  /\ run[q].pc \in Pcs
             /\ run[q].cands \in Seq(Candidate) /\ run[q].reg \in Seq(Candidate)
             /\ ToSet(run[q].todo) \subseteq DOMAIN rows
  BY DEF Typed, Command, Fit, ToSet
<1>5. QED
  BY <1>1, <1>2, <1>3, <1>4 DEF Typed, TypeOK, Status, Pcs

\* The paths, and those that are mounted, are finitely many.
LEMMA PathsFinite == IsFiniteSet(Paths) /\ IsFiniteSet(Mounted)
<1>1. Order \in Seq(Paths) /\ Len(Order) \in Nat /\ Mounted \in SUBSET Paths
  BY ConstantsAssumption
<1>2. Order \in Surjection(1..Len(Order), Paths)
  BY <1>1 DEF Paths, ToSet, Surjection
<1>3. ExistsSurjection(1..Len(Order), Paths)
  BY <1>2 DEF ExistsSurjection
<1>4. IsFiniteSet(Paths)
  BY <1>1, <1>3, FS_NatSurjection
<1>5. QED
  BY <1>1, <1>4, FS_Subset

(* The positions that are looked up. *)
LEMMA IndexIs == ASSUME NEW p \in Paths PROVE Index(p) \in Nat /\ Order[Index(p)] = p
<1> DEFINE I == {i \in 1..Len(Order) : Order[i] = p}
<1>1. I \subseteq Nat /\ I # {}
  BY ConstantsAssumption DEF Paths, ToSet
<1>2. Min(I) \in I
  <2> HIDE DEF I
  <2>1. QED
    BY <1>1, MinIs
<1>3. Index(p) = Min(I)
  BY <1>1 DEF Index, SelectInSeq
<1>4. QED
  BY <1>1, <1>2, <1>3

\* A path has been retried a number of times.
LEMMA RetriedIs == ASSUME Typed, NEW p PROVE Retried(p) \in Nat
<1> DEFINE I == {i \in 1..Len(latest.paths) : latest.paths[i] = p}
<1>1. I \subseteq Nat
  OBVIOUS
<1>2. I # {} => Min(I) \in Nat
  <2> HIDE DEF I
  <2>1. QED
    BY <1>1, MinIs
<1>3. Retried(p) \in {0, IF I # {} THEN Min(I) ELSE 0}
  BY DEF Retried, SelectInSeq
<1>4. QED
  BY <1>2, <1>3

\* A lookup finds the only row of a path and a content.
LEMMA RowOfIs ==
    ASSUME Typed, NEW p, NEW h
    PROVE  /\ RowOf(p, h) # 0 => /\ RowOf(p, h) \in DOMAIN rows
                                 /\ rows[RowOf(p, h)].path = p /\ rows[RowOf(p, h)].hash = h
           /\ \A i \in DOMAIN rows : rows[i].path = p /\ rows[i].hash = h => RowOf(p, h) = i
<1> DEFINE I == {i \in 1..Len(rows) : rows[i].path = p /\ rows[i].hash = h}
<1>1. I \subseteq Nat /\ DOMAIN rows = 1..Len(rows)
  BY DEF Typed
<1>2. I # {} => Min(I) \in I
  <2> HIDE DEF I
  <2>1. QED
    BY <1>1, MinIs
<1>3. RowOf(p, h) = IF I # {} THEN Min(I) ELSE 0
  BY DEF RowOf, SelectInSeq
<1>4. ASSUME NEW i \in DOMAIN rows, rows[i].path = p, rows[i].hash = h
      PROVE  RowOf(p, h) = i
  <2>1. i \in I
    BY <1>1, <1>4
  <2>2. RowOf(p, h) \in I
    BY <1>2, <1>3, <2>1
  <2>3. QED
    BY <1>1, <1>4, <2>2 DEF Typed, Unique
<1>5. QED
  BY <1>1, <1>2, <1>3, <1>4

\* A lookup by path finds a row of the path.
LEMMA NewestIs ==
    ASSUME Typed, NEW p
    PROVE  /\ Newest(p) # 0 => Newest(p) \in DOMAIN rows /\ rows[Newest(p)].path = p
           /\ Newest(p) \in Nat
<1> DEFINE I == {i \in 1..Len(rows) : rows[i].path = p}
<1>1. I \subseteq 1..Len(rows) /\ Len(rows) \in Nat /\ DOMAIN rows = 1..Len(rows)
  BY DEF Typed
<1>2. I # {} => Max(I) \in I
  <2> HIDE DEF I
  <2>1. QED
    BY <1>1, MaxIs
<1>3. Newest(p) = IF I # {} THEN Max(I) ELSE 0
  BY DEF Newest, SelectLastInSeq
<1>4. QED
  BY <1>1, <1>2, <1>3

\* The row that tracks a file has it as its origin.
LEMMA TrackedIs ==
    ASSUME Typed, NEW f
    PROVE  Tracked(f) # 0 => Tracked(f) \in DOMAIN rows /\ rows[Tracked(f)].origin = f
<1> DEFINE I == {i \in 1..Len(rows) : rows[i].origin = f}
<1>1. I \subseteq 1..Len(rows) /\ Len(rows) \in Nat /\ DOMAIN rows = 1..Len(rows)
  BY DEF Typed
<1>2. I # {} => Max(I) \in I
  <2> HIDE DEF I
  <2>1. QED
    BY <1>1, MaxIs
<1>3. Tracked(f) = IF I # {} THEN Max(I) ELSE 0
  BY DEF Tracked, SelectLastInSeq
<1>4. QED
  BY <1>1, <1>2, <1>3

(* What a scan makes of a mounted file. *)
Scanned(f, c) ==
    /\ f \in Present /\ disk[f] \notin Blocked
    /\ c \in IF Tracked(f) # 0 THEN TrackedCandidate(f) ELSE UntrackedCandidate(f)

\* The candidates are what a scan makes of the mounted files.
LEMMA CandidatesScanned == \A c : c \in Candidates <=> \E f \in Mounted : Scanned(f, c)
BY DEF Candidates, Scanned, Present

\* What a scan makes is a candidate, one of each file.
LEMMA ScannedIs ==
    ASSUME Typed, NEW f \in Mounted, NEW c, Scanned(f, c)
    PROVE  c \in Candidate /\ c.file = f /\ c.hash = disk[f]
<1>1. f \in Paths /\ disk[f] \in Versions
  BY ConstantsAssumption DEF Typed, Scanned, Present
<1>2. CASE Tracked(f) # 0
  <2>1. Tracked(f) \in DOMAIN rows /\ rows[Tracked(f)] \in Row
    BY <1>2, TrackedIs DEF Typed
  <2>2. c \in TrackedCandidate(f)
    BY <1>2 DEF Scanned
  <2>3. rows[Tracked(f)].path \in Paths
    BY <2>1 DEF Row
  <2>4. PICK p \in Paths, k \in {"pending", "changed"}, b \in BOOLEAN :
            c = [file |-> f, path |-> p, hash |-> disk[f], kind |-> k, copy |-> b]
    BY <2>2, <2>3 DEF TrackedCandidate
  <2>5. QED
    BY <1>1, <2>4 DEF Candidate
<1>3. CASE Tracked(f) = 0
  <2>1. c \in UntrackedCandidate(f)
    BY <1>3 DEF Scanned
  <2> DEFINE same == {r \in ToSet(rows) : r.hash = disk[f]}
             pending == {r \in same : raw[r.path] # None}
  <2>2. \A r \in ToSet(rows) : r.path \in Paths
    <3>1. ASSUME NEW r \in ToSet(rows) PROVE r \in Row
      BY DEF Typed, ToSet
    <3>2. QED
      BY <3>1 DEF Row
  <2>3. pending # {} => (CHOOSE r \in pending : TRUE).path \in Paths
    <3>1. pending # {} => (CHOOSE r \in pending : TRUE) \in pending
      OBVIOUS
    <3>2. QED
      BY <2>2, <3>1
  <2>4. \/ c = [file |-> f, path |-> f, hash |-> disk[f], kind |-> "new", copy |-> TRUE]
        \/ pending # {} /\ c = [file |-> f, path |-> (CHOOSE r \in pending : TRUE).path,
                                hash |-> disk[f], kind |-> "pending", copy |-> FALSE]
    BY <2>1 DEF UntrackedCandidate
  <2>5. PICK p \in Paths, k \in {"pending", "new"}, b \in BOOLEAN :
            c = [file |-> f, path |-> p, hash |-> disk[f], kind |-> k, copy |-> b]
    <3> HIDE DEF pending
    <3>1. QED
      BY <1>1, <2>3, <2>4
  <2>6. QED
    BY <1>1, <2>5 DEF Candidate
<1>4. QED
  BY <1>2, <1>3

\* The candidates are finitely many, and typed.
LEMMA CandidatesAre ==
    ASSUME Typed
    PROVE  /\ Candidates \subseteq Candidate
           /\ \A c \in Candidates : c.file \in Mounted
           /\ \A c, d \in Candidates : c.file = d.file => c = d
           /\ IsFiniteSet(Candidates)
<1>1. ASSUME NEW c \in Candidates
      PROVE  c \in Candidate /\ c.file \in Mounted /\ Scanned(c.file, c)
  <2>1. PICK f \in Mounted : Scanned(f, c)
    BY CandidatesScanned
  <2>2. QED
    BY <2>1, ScannedIs
<1>2. ASSUME NEW c \in Candidates, NEW d \in Candidates, c.file = d.file PROVE c = d
  <2>1. PICK f \in Mounted : Scanned(f, c) /\ Scanned(f, d)
    BY <1>1, <1>2
  <2>2. CASE Tracked(f) # 0
    BY <2>1, <2>2 DEF Scanned, TrackedCandidate
  <2>3. CASE Tracked(f) = 0
    <3> DEFINE same == {r \in ToSet(rows) : r.hash = disk[f]}
               pending == {r \in same : raw[r.path] # None}
               new == [file |-> f, path |-> f, hash |-> disk[f], kind |-> "new", copy |-> TRUE]
               old == [file |-> f, path |-> (CHOOSE r \in pending : TRUE).path,
                       hash |-> disk[f], kind |-> "pending", copy |-> FALSE]
    <3>1. c \in UntrackedCandidate(f) /\ d \in UntrackedCandidate(f)
      BY <2>1, <2>3 DEF Scanned
    <3>2. UntrackedCandidate(f) = IF \E r \in same : r.summary THEN {}
                                  ELSE IF pending = {} THEN {new} ELSE {old}
      BY DEF UntrackedCandidate
    <3> HIDE DEF same, pending, new, old
    <3>3. QED
      BY <3>1, <3>2
  <2>4. QED
    BY <2>2, <2>3
<1>3. IsFiniteSet(Candidates)
  <2> DEFINE F == [c \in Candidates |-> c.file]
  <2>1. F \in Injection(Candidates, Mounted)
    BY <1>1, <1>2 DEF Injection, IsInjective
  <2>2. QED
    BY <2>1, PathsFinite, FS_Injection
<1>4. QED
  BY <1>1, <1>2, <1>3

(* The candidates are listed, each once, and a batch is taken from the front. *)
LEMMA BeforeIsStrict ==
    ASSUME Typed
    PROVE  Strict(Candidates, {p \in Candidates \X Candidates : Before(p[1], p[2])})
<1> DEFINE R == {p \in Candidates \X Candidates : Before(p[1], p[2])}
<1>1. ASSUME NEW a \in Candidates
      PROVE  /\ Index(a.path) \in Nat /\ Order[Index(a.path)] = a.path
             /\ Index(a.file) \in Nat /\ Order[Index(a.file)] = a.file
             /\ Retried(a.path) \in Nat
  <2>1. a.path \in Paths /\ a.file \in Paths
    BY CandidatesAre, ConstantsAssumption DEF Candidate
  <2>2. QED
    BY <2>1, IndexIs, RetriedIs
<1>2. \A a, b \in Candidates : <<a, b>> \in R <=> Before(a, b)
  OBVIOUS
<1>3. \A a \in Candidates : ~Before(a, a)
  BY <1>1 DEF Before
<1>4. ASSUME NEW a \in Candidates, NEW b \in Candidates, a # b
      PROVE  Before(a, b) \/ Before(b, a)
  <2>1. a.file # b.file
    BY <1>4, CandidatesAre
  <2>2. Index(a.file) # Index(b.file) /\ (a.path # b.path => Index(a.path) # Index(b.path))
    BY <1>1, <2>1
  <2>3. QED
    BY <1>1, <2>2 DEF Before
<1>5. ASSUME NEW a \in Candidates, NEW b \in Candidates, NEW c \in Candidates,
             Before(a, b), Before(b, c)
      PROVE  Before(a, c)
  <2> DEFINE x == Retried(a.path)  y == Retried(b.path)  z == Retried(c.path)
  <2>1. x \in Nat /\ y \in Nat /\ z \in Nat
    BY <1>1
  <2>2. /\ a.path = b.path => x = y
        /\ b.path = c.path => y = z
        /\ a.path = c.path => x = z
    OBVIOUS
  <2>3. /\ Index(a.path) = Index(b.path) => a.path = b.path
        /\ Index(b.path) = Index(c.path) => b.path = c.path
        /\ Index(a.path) = Index(c.path) => a.path = c.path
    BY <1>1
  <2>4. \/ x # y /\ (y = 0 \/ (x # 0 /\ x < y))
        \/ x = y /\ a.path # b.path /\ Index(a.path) < Index(b.path)
        \/ x = y /\ a.path = b.path /\ Index(a.file) < Index(b.file)
    BY <1>5 DEF Before
  <2>5. \/ y # z /\ (z = 0 \/ (y # 0 /\ y < z))
        \/ y = z /\ b.path # c.path /\ Index(b.path) < Index(c.path)
        \/ y = z /\ b.path = c.path /\ Index(b.file) < Index(c.file)
    BY <1>5 DEF Before
  <2> HIDE DEF x, y, z
  <2>6. \/ x # z /\ (z = 0 \/ (x # 0 /\ x < z))
        \/ x = z /\ a.path # c.path /\ Index(a.path) < Index(c.path)
        \/ x = z /\ a.path = c.path /\ Index(a.file) < Index(c.file)
    BY <1>1, <2>1, <2>2, <2>3, <2>4, <2>5
  <2>7. QED
    BY <2>6 DEF Before, x, z
<1> HIDE DEF R
<1>6. QED
  BY <1>2, <1>3, <1>4, <1>5 DEF Strict, R

\* They are listed, each once.
LEMMA OrderedIs ==
    ASSUME Typed
    PROVE  /\ Cardinality(Candidates) \in Nat
           /\ Ordered \in [1..Cardinality(Candidates) -> Candidates]
           /\ \A c \in Candidates : \E i \in 1..Cardinality(Candidates) : Ordered[i] = c
<1> DEFINE R == {p \in Candidates \X Candidates : Before(p[1], p[2])}
           Lists(s) == /\ s \in [1..Cardinality(Candidates) -> Candidates]
                       /\ \A i, j \in DOMAIN s : i < j => <<s[i], s[j]>> \in R
           Listed(s) == /\ s \in [1..Cardinality(Candidates) -> Candidates]
                        /\ \A i, j \in DOMAIN s : i < j => Before(s[i], s[j])
<1>1. IsFiniteSet(Candidates) /\ Strict(Candidates, R)
  BY CandidatesAre, BeforeIsStrict
<1>2. \A s : Lists(s) <=> Listed(s)
  OBVIOUS
<1>3. \E s : Lists(s)
  <2> HIDE DEF R
  <2>1. QED
    BY <1>1, OrderExists
<1>4. Ordered = CHOOSE s \in [1..Cardinality(Candidates) -> Candidates] :
                    \A i, j \in DOMAIN s : i < j => Before(s[i], s[j])
  BY DEF Ordered, InOrder
<1>5. Listed(Ordered)
  <2>1. \E s : Listed(s)
    BY <1>2, <1>3
  <2>2. QED
    BY <1>4, <2>1
<1>6. Lists(Ordered)
  BY <1>2, <1>5
<1>7. \A c \in Candidates : \E i \in 1..Cardinality(Candidates) : Ordered[i] = c
  <2> HIDE DEF R
  <2>1. QED
    BY <1>1, <1>6, OrderLists
<1>8. QED
  BY <1>1, <1>6, <1>7, FS_CardinalityType

\* The batch is a list of candidates, at most as long as is allowed.
LEMMA SelectedIs ==
    ASSUME Typed
    PROVE  /\ Ordered \in Seq(Candidate)
           /\ Selected \in Seq(Candidate)
           /\ \A i \in DOMAIN Selected : Selected[i] \in Candidates
           /\ Cardinality(Candidates) <= Len(Selected) =>
                 \A c \in Candidates : c \in ToSet(Selected)
<1> DEFINE n == Cardinality(Candidates)
           k == IF n < MaxCandidates THEN n ELSE MaxCandidates
<1>1. n \in Nat /\ k \in 0..n
  BY OrderedIs, ConstantsAssumption
<1>2. Ordered \in Seq(Candidates) /\ Len(Ordered) = n
  BY <1>1, OrderedIs
<1>3. Ordered \in Seq(Candidate)
  BY <1>2, CandidatesAre
<1>4. Selected = SubSeq(Ordered, 1, k)
  BY <1>2 DEF Selected
<1> HIDE DEF k, n
<1>5. /\ SubSeq(Ordered, 1, k) \in Seq(Candidates)
      /\ Len(SubSeq(Ordered, 1, k)) = k
      /\ \A i \in 1..k : SubSeq(Ordered, 1, k)[i] = Ordered[i]
  <2>1. \A i \in 1..k : Ordered[i] \in Candidates
    BY <1>1, <1>2
  <2>2. 1 \in Int /\ k \in Int
    BY <1>1
  <2>3. /\ SubSeq(Ordered, 1, k) \in Seq(Candidates)
        /\ Len(SubSeq(Ordered, 1, k)) = IF 1 <= k THEN k - 1 + 1 ELSE 0
        /\ \A i \in 1..(k - 1 + 1) : SubSeq(Ordered, 1, k)[i] = Ordered[1 + i - 1]
    BY <2>1, <2>2, SubSeqProperties
  <2>4. QED
    BY <1>1, <2>3
<1>6. Selected \in Seq(Candidates) /\ Len(Selected) = k
  BY <1>4, <1>5
<1>7. ASSUME k = n, NEW c \in Candidates PROVE c \in ToSet(Selected)
  <2>1. PICK i \in 1..n : Ordered[i] = c
    BY OrderedIs DEF n
  <2>2. i \in DOMAIN Selected /\ Selected[i] = c
    BY <1>4, <1>5, <1>6, <1>7, <2>1
  <2>3. QED
    BY <2>2 DEF ToSet
<1>8. Selected \in Seq(Candidate)
  BY <1>6, CandidatesAre
<1>9. QED
  BY <1>1, <1>3, <1>6, <1>7, <1>8 DEF n

-----------------------------------------------------------------------------
(* The table *)

(* What is to be registered is listed by path. *)
LEMMA ToRegisterIs ==
    ASSUME Typed, NEW s \in Seq(Candidate)
    PROVE  ToRegister(s) \in Seq(Candidate)
<1> DEFINE Due == {c \in ToSet(s) : \/ Affected(c.path, c.hash) # "unchanged"
                                    \/ c.kind = "pending" /\ ~HasCurrentSummary(c)}
           I(p) == {i \in 1..Len(s) : s[i].path = p}
           Plans == {s[SelectLastInSeq(s, LAMBDA x : x.path = c.path)] : c \in Due}
           R == {p \in Plans \X Plans : Index(p[1].path) < Index(p[2].path)}
           Listed(t) == /\ t \in [1..Cardinality(Plans) -> Plans]
                        /\ \A i, j \in DOMAIN t : i < j => Index(t[i].path) < Index(t[j].path)
           Lists(t) == /\ t \in [1..Cardinality(Plans) -> Plans]
                       /\ \A i, j \in DOMAIN t : i < j => <<t[i], t[j]>> \in R
<1>1. DOMAIN s = 1..Len(s) /\ Len(s) \in Nat /\ \A i \in DOMAIN s : s[i] \in Candidate
  OBVIOUS
<1>2. ASSUME NEW c \in Due
      PROVE  /\ SelectLastInSeq(s, LAMBDA x : x.path = c.path) = Max(I(c.path))
             /\ Max(I(c.path)) \in DOMAIN s /\ s[Max(I(c.path))].path = c.path
  <2>1. I(c.path) \subseteq 1..Len(s) /\ I(c.path) # {}
    BY DEF ToSet
  <2>2. Max(I(c.path)) \in I(c.path)
    <3> HIDE DEF I
    <3>1. QED
      BY <1>1, <2>1, MaxIs
  <2>3. SelectLastInSeq(s, LAMBDA x : x.path = c.path) = Max(I(c.path))
    BY <2>1 DEF SelectLastInSeq
  <2>4. QED
    BY <1>1, <2>2, <2>3
<1>3. ASSUME NEW a \in Plans
      PROVE  a \in Candidate /\ a.path \in Paths /\ a = s[Max(I(a.path))]
  <2>1. PICK c \in Due : a = s[SelectLastInSeq(s, LAMBDA x : x.path = c.path)]
    OBVIOUS
  <2>2. a = s[Max(I(c.path))] /\ a \in Candidate /\ a.path = c.path
    BY <1>1, <1>2, <2>1
  <2>3. QED
    BY <2>2 DEF Candidate
<1> HIDE DEF Plans, I, Due
<1>4. IsFiniteSet(Plans)
  <2> DEFINE F == [a \in Plans |-> a.path]
  <2>1. F \in Injection(Plans, Paths)
    <3>1. \A a, b \in Plans : a.path = b.path => a = b
      BY <1>3
    <3>2. QED
      BY <1>3, <3>1 DEF Injection, IsInjective
  <2>2. QED
    BY <2>1, PathsFinite, FS_Injection
<1>5. Strict(Plans, R)
  <2>1. \A a \in Plans : Index(a.path) \in Nat /\ Order[Index(a.path)] = a.path
    BY <1>3, IndexIs
  <2>2. \A a, b \in Plans : <<a, b>> \in R <=> Index(a.path) < Index(b.path)
    OBVIOUS
  <2>3. \A a, b \in Plans : Index(a.path) = Index(b.path) => a = b
    BY <1>3, <2>1
  <2> HIDE DEF R
  <2>4. QED
    BY <2>1, <2>2, <2>3 DEF Strict
<1>6. \A t : Lists(t) <=> Listed(t)
  OBVIOUS
<1>7. \E t : Lists(t)
  <2> HIDE DEF R
  <2>1. QED
    BY <1>4, <1>5, OrderExists
<1>8. ToRegister(s) = CHOOSE t \in [1..Cardinality(Plans) -> Plans] :
                        \A i, j \in DOMAIN t : i < j => Index(t[i].path) < Index(t[j].path)
  BY DEF ToRegister, InOrder, Plans, Due
<1>9. Listed(ToRegister(s))
  <2>1. \E t : Listed(t)
    BY <1>6, <1>7
  <2>2. QED
    BY <1>8, <2>1
<1>10. Cardinality(Plans) \in Nat
  BY <1>4, FS_CardinalityType
<1>11. ToRegister(s) \in Seq(Plans)
  BY <1>9, <1>10
<1>12. QED
  BY <1>3, <1>11

\* Numbers of rows are listed as they are.
LEMMA AscendingIs ==
    ASSUME NEW n \in Nat, NEW ids, ids \subseteq 1..n
    PROVE  Ascending(ids) \in Seq(Nat) /\ \A i \in DOMAIN Ascending(ids) : Ascending(ids)[i] \in ids
<1> DEFINE R == {p \in ids \X ids : p[1] < p[2]}
           Listed(t) == /\ t \in [1..Cardinality(ids) -> ids]
                        /\ \A i, j \in DOMAIN t : i < j => t[i] < t[j]
           Lists(t) == /\ t \in [1..Cardinality(ids) -> ids]
                       /\ \A i, j \in DOMAIN t : i < j => <<t[i], t[j]>> \in R
<1>1. IsFiniteSet(ids)
  <2>1. ids \in SUBSET Nat /\ \A i \in ids : i <= n
    OBVIOUS
  <2>2. QED
    BY <2>1, FS_BoundedSetOfNaturals
<1>2. Strict(ids, R)
  BY DEF Strict
<1>3. \A t : Lists(t) <=> Listed(t)
  OBVIOUS
<1>4. \E t : Lists(t)
  <2> HIDE DEF R
  <2>1. QED
    BY <1>1, <1>2, OrderExists
<1>5. Ascending(ids) = CHOOSE t \in [1..Cardinality(ids) -> ids] :
                          \A i, j \in DOMAIN t : i < j => t[i] < t[j]
  BY DEF Ascending, InOrder
<1>6. Listed(Ascending(ids))
  <2>1. \E t : Listed(t)
    BY <1>3, <1>4
  <2>2. QED
    BY <1>5, <2>1
<1>7. Cardinality(ids) \in Nat
  BY <1>1, FS_CardinalityType
<1>8. Ascending(ids) \in Seq(ids)
  BY <1>6, <1>7
<1>9. ASSUME NEW x \in Seq(ids)
      PROVE  x \in Seq(Nat) /\ \A i \in DOMAIN x : x[i] \in ids
  <2>1. DOMAIN x = 1..Len(x) /\ Len(x) \in Nat /\ \A i \in 1..Len(x) : x[i] \in ids
    OBVIOUS
  <2>2. x \in [1..Len(x) -> ids]
    OBVIOUS
  <2>3. x \in [1..Len(x) -> Nat]
    <3>1. \A i \in 1..Len(x) : x[i] \in Nat
      <4>1. \A i \in ids : i \in Nat
        OBVIOUS
      <4>2. QED
        BY <2>1, <4>1
    <3>2. QED
      BY <2>2, <3>1
  <2>4. QED
    BY <2>1, <2>3
<1> HIDE DEF Listed
<1>10. QED
  BY <1>8, <1>9

(* A table that has the rows and, after them, others that are not marked. *)
Grown(table) ==
    /\ table \in Seq(Row) /\ Unique(table)
    /\ \A i \in DOMAIN rows : i \in DOMAIN table /\ table[i] = rows[i]
    /\ \A i \in DOMAIN table : i \notin DOMAIN rows => ~table[i].done

\* The table as it is has grown by nothing.
LEMMA RowsGrown == Typed => Grown(rows)
BY DEF Typed, Grown

\* One registration appends a row, or none.
LEMMA RegisterGrows ==
    ASSUME Typed, NEW table, Grown(table), NEW c \in Candidate
    PROVE  /\ Grown(RegisterSource(table, c))
           /\ \E i \in DOMAIN RegisterSource(table, c) :
                 /\ RegisterSource(table, c)[i].path = c.path
                 /\ RegisterSource(table, c)[i].hash = c.hash
<1> DEFINE new == [path |-> c.path, hash |-> c.hash, summary |-> FALSE,
                   origin |-> c.file, done |-> FALSE, excluded |-> FALSE]
           n == Len(table)
<1>1. table \in Seq(Row) /\ n \in Nat /\ DOMAIN table = 1..n
  BY DEF Grown
<1>2. CASE \E r \in ToSet(table) : r.path = c.path /\ r.hash = c.hash
  <2>1. RegisterSource(table, c) = table
    BY <1>2 DEF RegisterSource
  <2>2. \E i \in DOMAIN table : table[i].path = c.path /\ table[i].hash = c.hash
    BY <1>2 DEF ToSet
  <2>3. QED
    BY <2>1, <2>2
<1>3. CASE ~ \E r \in ToSet(table) : r.path = c.path /\ r.hash = c.hash
  <2>1. RegisterSource(table, c) = Append(table, new)
    BY <1>3 DEF RegisterSource
  <2>2. new \in Row
    BY DEF Row, Candidate
  <2>3. new.path = c.path /\ new.hash = c.hash /\ new.done = FALSE
    OBVIOUS
  <2>4. \A i \in DOMAIN table : ~(table[i].path = c.path /\ table[i].hash = c.hash)
    BY <1>3 DEF ToSet
  <2> HIDE DEF new
  <2> DEFINE t == Append(table, new)
  <2>5. /\ t \in Seq(Row) /\ DOMAIN t = 1..(n + 1)
        /\ t[n + 1] = new /\ \A i \in 1..n : t[i] = table[i]
    BY <1>1, <2>2
  <2> HIDE DEF t
  <2>6. Unique(t)
    <3>1. ASSUME NEW i \in DOMAIN t, NEW j \in DOMAIN t,
                 t[i].path = t[j].path, t[i].hash = t[j].hash
          PROVE  i = j
      <4>1. CASE i \in 1..n /\ j \in 1..n
        <5>1. t[i] = table[i] /\ t[j] = table[j] /\ i \in DOMAIN table /\ j \in DOMAIN table
          BY <1>1, <2>5, <4>1
        <5>2. QED
          BY <3>1, <5>1 DEF Grown, Unique
      <4>2. CASE i = n + 1 /\ j \in 1..n
        BY <1>1, <2>3, <2>4, <2>5, <3>1, <4>2
      <4>3. CASE i \in 1..n /\ j = n + 1
        BY <1>1, <2>3, <2>4, <2>5, <3>1, <4>3
      <4>4. CASE i = n + 1 /\ j = n + 1
        BY <4>4
      <4>5. QED
        BY <1>1, <2>5, <4>1, <4>2, <4>3, <4>4
    <3>2. QED
      BY <3>1 DEF Unique
  <2>7. \A i \in DOMAIN rows : i \in DOMAIN t /\ t[i] = rows[i]
    BY <1>1, <2>5 DEF Grown
  <2>8. ASSUME NEW i \in DOMAIN t, i \notin DOMAIN rows PROVE ~t[i].done
    <3>1. CASE i = n + 1
      BY <2>3, <2>5, <3>1
    <3>2. CASE i # n + 1
      BY <1>1, <2>5, <2>8, <3>2 DEF Grown
    <3>3. QED
      BY <3>1, <3>2
  <2>9. n + 1 \in DOMAIN t /\ t[n + 1].path = c.path /\ t[n + 1].hash = c.hash
    BY <1>1, <2>3, <2>5
  <2>10. RegisterSource(table, c) = t
    BY <2>1 DEF t
  <2>11. QED
    BY <2>5, <2>6, <2>7, <2>8, <2>9, <2>10 DEF Grown
<1>4. QED
  BY <1>2, <1>3

(* The tables of one registration after another, without the count of the program. *)
Tables(s, n, F) ==
    F = [k \in 0..n |-> IF k = 0 THEN rows ELSE RegisterSource(F[k - 1], s[k])]

\* The recursion over the registrations has a value at every number.
LEMMA TablesExist ==
    ASSUME NEW s, NEW n \in Nat
    PROVE  \E F : Tables(s, n, F)
<1> DEFINE T == {k \in 0..n : ~ \E F : Tables(s, k, F)}
<1>1. CASE T = {}
  BY <1>1
<1>2. CASE T # {}
  <2>1. T \subseteq Nat
    OBVIOUS
  <2>2. PICK m \in T : \A k \in T : m <= k
    <3> HIDE DEF T
    <3>1. QED
      BY <1>2, <2>1, LeastNat
  <2>3. m \in 0..n /\ ~ \E F : Tables(s, m, F)
    BY <2>2
  <2>4. CASE m = 0
    <3> DEFINE F == [k \in 0..0 |-> rows]
    <3>1. F = [k \in 0..0 |-> IF k = 0 THEN rows ELSE RegisterSource(F[k - 1], s[k])]
      OBVIOUS
    <3>2. Tables(s, 0, F)
      BY <3>1 DEF Tables
    <3>3. QED
      BY <2>3, <2>4, <3>2
  <2>5. CASE m # 0
    <3>1. m - 1 \in 0..n /\ m - 1 \notin T
      BY <2>2, <2>3, <2>5
    <3>2. PICK G : Tables(s, m - 1, G)
      BY <3>1
    <3> DEFINE last == RegisterSource(G[m - 1], s[m])
               F == [k \in 0..m |-> IF k = m THEN last ELSE G[k]]
               H == [k \in 0..m |-> IF k = 0 THEN rows ELSE RegisterSource(F[k - 1], s[k])]
    <3>3. ASSUME NEW k \in 0..m PROVE F[k] = H[k]
      <4>1. CASE k = m
        <5>1. m - 1 \in 0..m /\ m - 1 # m /\ F[m - 1] = G[m - 1]
          BY <2>3, <2>5
        <5>2. QED
          BY <2>3, <2>5, <4>1, <5>1
      <4>2. CASE k # m /\ k # 0
        <5>1. k \in 0..(m - 1) /\ k - 1 \in 0..m /\ k - 1 # m
          BY <2>3, <4>2
        <5>2. F[k] = G[k] /\ F[k - 1] = G[k - 1]
          BY <4>2, <5>1
        <5>3. G[k] = RegisterSource(G[k - 1], s[k])
          BY <3>2, <4>2, <5>1 DEF Tables
        <5>4. QED
          BY <4>2, <5>2, <5>3
      <4>3. CASE k = 0 /\ k # m
        <5>1. G[0] = rows
          BY <2>3, <3>2, <4>3 DEF Tables
        <5>2. QED
          BY <4>3, <5>1
      <4>4. QED
        BY <4>1, <4>2, <4>3
    <3>4. F = H
      <4>1. DOMAIN F = 0..m /\ DOMAIN H = 0..m /\ F = [k \in 0..m |-> F[k]]
            /\ H = [k \in 0..m |-> H[k]]
        OBVIOUS
      <4> HIDE DEF F, H
      <4>2. QED
        BY <3>3, <4>1
    <3>5. Tables(s, m, F)
      BY <3>4 DEF Tables
    <3>6. QED
      BY <2>3, <3>5
  <2>6. QED
    BY <2>4, <2>5
<1>3. QED
  BY <1>1, <1>2

\* A list of registrations appends rows.
LEMMA RegisterUpToGrows ==
    ASSUME Typed, NEW s \in Seq(Candidate)
    PROVE  Grown(RegisterUpTo(s))
<1> DEFINE n == Len(s)
           F == CHOOSE G : Tables(s, n, G)
           bad == SelectInSeq(s, Unfit)
           at == IF bad = 0 THEN n ELSE bad - 1
           I == {i \in 1..Len(s) : Unfit(s[i])}
<1>1. n \in Nat /\ \A i \in 1..n : s[i] \in Candidate
  OBVIOUS
<1>2. Tables(s, n, F)
  BY <1>1, TablesExist
<1>3. RegisterUpTo(s) = F[at]
  BY DEF RegisterUpTo, Tables
<1>4. at \in 0..n
  <2>1. I \subseteq Nat
    OBVIOUS
  <2>2. I # {} => Min(I) \in I
    <3> HIDE DEF I
    <3>1. QED
      BY <2>1, MinIs
  <2>3. bad = IF I # {} THEN Min(I) ELSE 0
    BY DEF SelectInSeq
  <2> HIDE DEF bad
  <2>4. QED
    BY <1>1, <2>2, <2>3
<1> HIDE DEF F, at
<1>5. \A k \in 0..n : Grown(F[k])
  <2> DEFINE T == {k \in 0..n : ~Grown(F[k])}
  <2>1. CASE T = {}
    BY <2>1
  <2>2. CASE T # {}
    <3>1. T \subseteq Nat
      OBVIOUS
    <3>2. PICK m \in T : \A k \in T : m <= k
      <4> HIDE DEF T
      <4>1. QED
        BY <2>2, <3>1, LeastNat
    <3>3. m \in 0..n /\ ~Grown(F[m])
      BY <3>2
    <3>4. F[m] = IF m = 0 THEN rows ELSE RegisterSource(F[m - 1], s[m])
      BY <1>2, <3>3 DEF Tables
    <3>5. CASE m = 0
      BY <3>3, <3>4, <3>5, RowsGrown
    <3>6. CASE m # 0
      <4>1. m - 1 \in 0..n /\ m - 1 \notin T /\ s[m] \in Candidate
        BY <1>1, <3>2, <3>3, <3>6
      <4>2. Grown(F[m - 1])
        BY <4>1
      <4>3. QED
        BY <3>3, <3>4, <3>6, <4>1, <4>2, RegisterGrows
    <3>7. QED
      BY <3>5, <3>6
  <2>3. QED
    BY <2>1, <2>2
<1>6. QED
  BY <1>3, <1>4, <1>5

\* What is left to do of a batch, given the table.
LEMMA WorkIs ==
    ASSUME NEW table \in Seq(Row), NEW r
    PROVE  /\ Work(table, r) \in Seq(Nat)
           /\ \A i \in DOMAIN Work(table, r) :
                 /\ Work(table, r)[i] \in DOMAIN table
                 /\ \E c \in ToSet(r.cands) : /\ c.path = table[Work(table, r)[i]].path
                                              /\ c.hash = table[Work(table, r)[i]].hash
<1> DEFINE ids == {i \in DOMAIN table :
                     /\ \A j \in DOMAIN table : table[j].path = table[i].path => j <= i
                     /\ ~table[i].summary
                     /\ table[i].path \in r.comp
                     /\ \E c \in ToSet(r.cands) : c.path = table[i].path /\ c.hash = table[i].hash}
<1>1. ids \subseteq 1..Len(table) /\ Len(table) \in Nat /\ DOMAIN table = 1..Len(table)
  OBVIOUS
<1>2. \A i \in ids : \E c \in ToSet(r.cands) : c.path = table[i].path /\ c.hash = table[i].hash
  OBVIOUS
<1>3. Work(table, r) = IF r.reg = <<>> THEN <<>> ELSE Ascending(ids)
  BY DEF Work
<1> HIDE DEF ids
<1>4. Ascending(ids) \in Seq(Nat) /\ \A i \in DOMAIN Ascending(ids) : Ascending(ids)[i] \in ids
  BY <1>1, AscendingIs
<1>5. CASE r.reg = <<>>
  BY <1>3, <1>5
<1>6. CASE r.reg # <<>>
  <2>1. Work(table, r) = Ascending(ids)
    BY <1>3, <1>6
  <2>2. QED
    BY <1>1, <1>2, <1>4, <2>1
<1>7. QED
  BY <1>5, <1>6

Marking(x, o, b) == [x EXCEPT !.done = TRUE, !.origin = o, !.excluded = b]

\* What a mark writes.
LEMMA MarkingIs ==
    ASSUME NEW x \in Row, NEW o \in Mounted \cup {None}, NEW b \in BOOLEAN
    PROVE  /\ Marking(x, o, b) \in Row /\ Marking(x, o, b).path = x.path
           /\ Marking(x, o, b).hash = x.hash /\ Marking(x, o, b).summary = x.summary
           /\ Marking(x, o, b).excluded = b
BY DEF Row, Marking

\* What is marked: the rows of the completed candidates.
LEMMA MarkIs ==
    ASSUME Typed, NEW r \in Command
    PROVE  /\ Mark(rows, r) \in Seq(Row) /\ DOMAIN Mark(rows, r) = DOMAIN rows
           /\ \A i \in DOMAIN rows :
                 /\ Mark(rows, r)[i].path = rows[i].path
                 /\ Mark(rows, r)[i].hash = rows[i].hash
                 /\ Mark(rows, r)[i].summary = rows[i].summary
                 /\ \/ /\ Mark(rows, r)[i] = rows[i]
                       /\ \A n \in DOMAIN r.cands :
                             ~(Completed(r, r.cands[n]) /\ MarkedRow(r.cands[n]) = i)
                    \/ \E n \in DOMAIN r.cands :
                          /\ Completed(r, r.cands[n]) /\ MarkedRow(r.cands[n]) = i
                          /\ Mark(rows, r)[i].excluded = (r.cands[n].path \in r.skipped)
<1> DEFINE I(i) == {n \in 1..Len(r.cands) : Completed(r, r.cands[n]) /\ MarkedRow(r.cands[n]) = i}
           at(i) == IF I(i) # {} THEN Max(I(i)) ELSE 0
           row(i) == IF at(i) = 0 THEN rows[i]
                     ELSE [rows[i] EXCEPT !.done = TRUE, !.origin = r.cands[at(i)].file,
                                          !.excluded = r.cands[at(i)].path \in r.skipped]
<1>1. r.cands \in Seq(Candidate)
  BY DEF Command
<1>2. Len(r.cands) \in Nat /\ DOMAIN r.cands = 1..Len(r.cands)
      /\ \A n \in DOMAIN r.cands : r.cands[n] \in Candidate
  BY <1>1
<1>3. \A i : I(i) # {} => Max(I(i)) \in I(i)
  <2>1. \A i : I(i) \subseteq 1..Len(r.cands)
    OBVIOUS
  <2> HIDE DEF I
  <2>2. QED
    BY <1>2, <2>1, MaxIs
<1>4. Mark(rows, r) = [i \in DOMAIN rows |-> row(i)]
  BY SMTT(30) DEF Mark, SelectLastInSeq
<1>5. ASSUME NEW i \in DOMAIN rows
      PROVE  /\ row(i) \in Row /\ row(i).path = rows[i].path /\ row(i).hash = rows[i].hash
             /\ row(i).summary = rows[i].summary
             /\ \/ /\ row(i) = rows[i]
                   /\ \A n \in DOMAIN r.cands :
                         ~(Completed(r, r.cands[n]) /\ MarkedRow(r.cands[n]) = i)
                \/ \E n \in DOMAIN r.cands :
                      /\ Completed(r, r.cands[n]) /\ MarkedRow(r.cands[n]) = i
                      /\ row(i).excluded = (r.cands[n].path \in r.skipped)
  <2>1. rows[i] \in Row
    BY DEF Typed
  <2>2. CASE I(i) = {}
    <3>1. row(i) = rows[i]
      BY <2>2
    <3>2. QED
      BY <1>2, <2>1, <2>2, <3>1
  <2>3. CASE I(i) # {}
    <3>0. at(i) = Max(I(i)) /\ Max(I(i)) \in I(i)
      <4> HIDE DEF I
      <4>1. QED
        BY <1>3, <2>3
    <3>1. at(i) \in I(i) /\ at(i) \in DOMAIN r.cands /\ at(i) # 0
      <4>1. at(i) \in I(i)
        BY <3>0
      <4> HIDE DEF at
      <4>2. QED
        BY <1>2, <4>1
    <3>2. Completed(r, r.cands[at(i)]) /\ MarkedRow(r.cands[at(i)]) = i
      BY <3>1
    <3>3. r.cands[at(i)].file \in Mounted \cup {None}
      BY <1>2, <3>1 DEF Candidate
    <3> HIDE DEF at, I
    <3>4. row(i) = [rows[i] EXCEPT !.done = TRUE, !.origin = r.cands[at(i)].file,
                                   !.excluded = r.cands[at(i)].path \in r.skipped]
      BY <3>1
    <3> DEFINE b == r.cands[at(i)].path \in r.skipped
    <3>5. b \in BOOLEAN
      OBVIOUS
    <3> HIDE DEF b, row
    <3>6. /\ row(i) \in Row /\ row(i).path = rows[i].path /\ row(i).hash = rows[i].hash
          /\ row(i).summary = rows[i].summary /\ row(i).excluded = b
      <4>1. row(i) = Marking(rows[i], r.cands[at(i)].file, b)
        BY <3>4 DEF b, Marking
      <4>2. QED
        BY <2>1, <3>3, <3>5, <4>1, MarkingIs
    <3>7. QED
      BY <3>1, <3>2, <3>6 DEF b
  <2>4. QED
    BY <2>2, <2>3
<1> HIDE DEF row
<1>6. DOMAIN rows = 1..Len(rows) /\ Len(rows) \in Nat
  BY DEF Typed
<1>7. Mark(rows, r) \in Seq(Row) /\ DOMAIN Mark(rows, r) = DOMAIN rows
      /\ \A i \in DOMAIN rows : Mark(rows, r)[i] = row(i)
  BY <1>4, <1>5, <1>6
<1>8. QED
  BY <1>5, <1>7

-----------------------------------------------------------------------------
(* What each step does *)

\* A step of one command leaves the other alone.
LEMMA BecomeIs ==
    ASSUME Typed, NEW q \in Procs, NEW r, Become(q, r)
    PROVE  /\ run' = [run EXCEPT ![q] = r] /\ run'[q] = r
           /\ \A p \in Procs : p # q => run'[p] = run[p]
           /\ r \in Command => run' \in [Procs -> Command]
BY DEF Typed, Become

\* A step of a command, and a step of none.
LEMMA CommandStepTyped ==
    ASSUME Typed, NEW q \in Procs, NEW r \in Command, Become(q, r),
           rows' \in Seq(Row), Unique(rows'), DOMAIN rows \subseteq DOMAIN rows', Fit(r, rows'),
           UNCHANGED <<disk, mount, metered, day>>, edits' \in Nat,
           raw' \in [Paths -> Versions \cup {None}], page' \in [Paths -> Versions \cup {None}],
           latest' \in [status : Status, paths : Seq(Paths)], ledger' \in Nat
    PROVE  Typed'
<1>1. run' \in [Procs -> Command] /\ run'[q] = r
      /\ \A p \in Procs : p # q => run'[p] = run[p]
  BY BecomeIs
<1>2. ASSUME NEW p \in Procs PROVE Fit(run'[p], rows')
  BY <1>1 DEF Typed, Fit
<1>3. QED
  BY <1>1, <1>2 DEF Typed

(* The fields that the steps change keep their types. *)
LEMMA CommandToNext ==
    ASSUME NEW r \in Command, NEW t \in Seq(Nat)
    PROVE  [r EXCEPT !.pc = "ask", !.todo = t, !.tries = 0, !.text = None] \in Command
<1> DEFINE x == [r EXCEPT !.pc = "ask", !.todo = t]
<1>1. x \in Command
  BY DEF Command, Pcs
<1>2. [r EXCEPT !.pc = "ask", !.todo = t, !.tries = 0, !.text = None]
         = [x EXCEPT !.tries = 0, !.text = None]
  OBVIOUS
<1> HIDE DEF x
<1>3. [x EXCEPT !.tries = 0, !.text = None] \in Command
  BY <1>1 DEF Command
<1>4. QED
  BY <1>2, <1>3

\* A command that calls the provider is a command.
LEMMA CommandToCall ==
    ASSUME NEW r \in Command, NEW t \in Versions \cup {None}
    PROVE  [r EXCEPT !.pc = "call", !.tries = @ + 1, !.text = t] \in Command
<1> DEFINE n == r.tries + 1
           x == [r EXCEPT !.pc = "call", !.tries = n]
<1>1. n \in Nat
  BY DEF Command
<1>2. [r EXCEPT !.pc = "call", !.tries = @ + 1, !.text = t] = [x EXCEPT !.text = t]
  OBVIOUS
<1> HIDE DEF n
<1>3. x \in Command
  BY <1>1 DEF Command, Pcs
<1> HIDE DEF x
<1>4. [x EXCEPT !.text = t] \in Command
  BY <1>3 DEF Command
<1>5. QED
  BY <1>2, <1>4

\* A command that has spent more is a command.
LEMMA CommandSpends ==
    ASSUME NEW r \in Command, NEW c \in Nat
    PROVE  [r EXCEPT !.spent = @ + c] \in Command /\ [r EXCEPT !.spent = @ + c].spent = r.spent + c
<1> DEFINE n == r.spent + c
<1>1. n \in Nat
  BY DEF Command
<1>2. [r EXCEPT !.spent = @ + c] = [r EXCEPT !.spent = n]
  OBVIOUS
<1> HIDE DEF n
<1>3. [r EXCEPT !.spent = n] \in Command /\ [r EXCEPT !.spent = n].spent = n
  BY <1>1 DEF Command
<1>4. QED
  BY <1>2, <1>3 DEF n

\* A command that does not run.
LEMMA IdleIs == Idle \in Command /\ \A table : Fit(Idle, table)
<1>1. <<>> \in Seq(Candidate) /\ <<>> \in Seq(Nat) /\ DOMAIN <<>> = {}
  OBVIOUS
<1>2. QED
  BY <1>1 DEF Idle, Command, Fit, Pcs

\* The fields of a receipt.
LEMMA ReceiptIs ==
    ASSUME NEW status \in Status, NEW s \in Seq(Candidate), Receipt(status, s)
    PROVE  latest' \in [status : Status, paths : Seq(Paths)] /\ latest'.status = status
<1>1. PathsOf(s) \in Seq(Paths)
  <2>1. DOMAIN s = 1..Len(s) /\ Len(s) \in Nat /\ \A i \in DOMAIN s : s[i] \in Candidate
    OBVIOUS
  <2>2. \A i \in DOMAIN s : s[i].path \in Paths
    BY <2>1 DEF Candidate
  <2>3. PathsOf(s) \in [1..Len(s) -> Paths]
    BY <2>1, <2>2 DEF PathsOf
  <2>4. QED
    BY <2>1, <2>3
<1>2. QED
  BY <1>1 DEF Receipt

\* Everything a command keeps while it summarises.
Same(r, s) ==
    /\ r.cands = s.cands /\ r.eligible = s.eligible /\ r.reg = s.reg /\ r.comp = s.comp
    /\ r.seen = s.seen /\ r.locked = s.locked

\* On to the next source.
LEMMA NextSourceIs ==
    ASSUME NEW r \in Command, NEW table, Fit(r, table), r.todo # <<>>
    PROVE  /\ NextSource(r) \in Command /\ Fit(NextSource(r), table) /\ Same(NextSource(r), r)
           /\ NextSource(r).pc = "ask" /\ NextSource(r).todo = Tail(r.todo)
           /\ NextSource(r).won = r.won /\ NextSource(r).skipped = r.skipped
           /\ NextSource(r).spent = r.spent
<1>1. r.todo \in Seq(Nat)
  BY DEF Command
<1>2. Tail(r.todo) \in Seq(Nat)
      /\ \A i \in DOMAIN Tail(r.todo) : i + 1 \in DOMAIN r.todo /\ Tail(r.todo)[i] = r.todo[i + 1]
  BY <1>1
<1> DEFINE t == Tail(r.todo)
<1>3. \A i \in DOMAIN t : t[i] \in DOMAIN table
  BY <1>2 DEF Fit
<1>4. NextSource(r) = [r EXCEPT !.pc = "ask", !.todo = t, !.tries = 0, !.text = None]
  BY DEF NextSource
<1>5. t \in Seq(Nat)
  BY <1>2
<1> HIDE DEF t
<1>6. /\ NextSource(r) \in Command /\ Same(NextSource(r), r)
      /\ NextSource(r).pc = "ask" /\ NextSource(r).todo = t
      /\ NextSource(r).won = r.won /\ NextSource(r).skipped = r.skipped
      /\ NextSource(r).spent = r.spent
  <2>1. NextSource(r) \in Command
    BY <1>4, <1>5, CommandToNext
  <2>2. Same(NextSource(r), r) /\ NextSource(r).won = r.won /\ NextSource(r).skipped = r.skipped
        /\ NextSource(r).spent = r.spent
    BY <1>4 DEF Command, Same
  <2>3. NextSource(r).pc = "ask" /\ NextSource(r).todo = t
    BY <1>4 DEF Command
  <2>4. QED
    BY <2>1, <2>2, <2>3
<1>7. Fit(NextSource(r), table)
  BY <1>3, <1>6 DEF Fit
<1>8. QED
  BY <1>6, <1>7 DEF t

\* The source at work is a row.
LEMMA CurrentIs ==
    ASSUME Typed, NEW q \in Procs, run[q].todo # <<>>
    PROVE  /\ Head(run[q].todo) \in DOMAIN rows /\ 1 \in DOMAIN run[q].todo
           /\ Head(run[q].todo) = run[q].todo[1]
           /\ Current(q) = rows[Head(run[q].todo)] /\ Current(q) \in Row /\ Current(q).path \in Paths
<1>1. run[q].todo \in Seq(Nat) /\ Fit(run[q], rows) /\ rows \in Seq(Row)
  BY DEF Typed, Command
<1>2. 1 \in DOMAIN run[q].todo /\ Head(run[q].todo) = run[q].todo[1]
  BY <1>1
<1>3. Head(run[q].todo) \in DOMAIN rows
  BY <1>1, <1>2 DEF Fit
<1>4. Current(q) \in Row
  BY <1>1, <1>3 DEF Current
<1>5. QED
  BY <1>2, <1>3, <1>4 DEF Current, Row

\* A source that failed: on to the next.
LEMMA FailedIs ==
    ASSUME Typed, NEW q \in Procs, run[q].todo # <<>>
    PROVE  /\ Failed(q) \in Command /\ \A t : Fit(run[q], t) => Fit(Failed(q), t)
           /\ Same(Failed(q), run[q])
           /\ Failed(q).pc = "ask" /\ Failed(q).todo = Tail(run[q].todo)
           /\ Failed(q).won = run[q].won /\ Failed(q).skipped = run[q].skipped
           /\ Failed(q).spent = run[q].spent
<1> DEFINE r == [run[q] EXCEPT !.lost = @ \cup {Current(q).path}]
<1>1. run[q] \in Command /\ Current(q).path \in Paths
  BY CurrentIs DEF Typed
<1>2. r \in Command /\ Same(r, run[q]) /\ r.todo = run[q].todo /\ r.pc = run[q].pc
      /\ r.won = run[q].won /\ r.skipped = run[q].skipped /\ r.spent = run[q].spent
      /\ r.reg = run[q].reg
  BY <1>1 DEF Command, Same
<1>3. Failed(q) = NextSource(r)
  BY DEF Failed
<1> HIDE DEF r
<1>4. \A t : Fit(run[q], t) => Fit(r, t)
  BY <1>2 DEF Fit
<1>5. Fit(run[q], rows)
  BY DEF Typed
<1>6. \A t : Fit(run[q], t) => Fit(NextSource(r), t)
  BY <1>2, <1>4, NextSourceIs
<1>7. QED
  BY <1>2, <1>3, <1>4, <1>5, <1>6, NextSourceIs DEF Same

\* One row may get a summary; the rest of the table stays.
Summarised(i) == [rows EXCEPT ![i].summary = TRUE]

\* What a summary writes.
LEMMA SummarisedIs ==
    ASSUME Typed, NEW i \in DOMAIN rows
    PROVE  /\ Summarised(i) \in Seq(Row) /\ Unique(Summarised(i))
           /\ DOMAIN Summarised(i) = DOMAIN rows
           /\ Summarised(i)[i].summary = TRUE
           /\ \A j \in DOMAIN rows :
                 /\ Summarised(i)[j].path = rows[j].path /\ Summarised(i)[j].hash = rows[j].hash
                 /\ Summarised(i)[j].done = rows[j].done
                 /\ Summarised(i)[j].excluded = rows[j].excluded
                 /\ rows[j].summary => Summarised(i)[j].summary
<1>1. rows \in Seq(Row) /\ DOMAIN rows = 1..Len(rows) /\ Len(rows) \in Nat
  BY DEF Typed
<1>2. \A x \in Row : LET y == [x EXCEPT !.summary = TRUE]
                     IN  /\ y \in Row /\ y.path = x.path /\ y.hash = x.hash /\ y.summary = TRUE
                         /\ y.done = x.done /\ y.excluded = x.excluded
  BY DEF Row
<1> DEFINE y == [rows[i] EXCEPT !.summary = TRUE]
<1>3. /\ y \in Row /\ y.path = rows[i].path /\ y.hash = rows[i].hash /\ y.summary = TRUE
      /\ y.done = rows[i].done /\ y.excluded = rows[i].excluded
  BY <1>1, <1>2
<1>4. Summarised(i) = [rows EXCEPT ![i] = y]
  BY DEF Summarised
<1> HIDE DEF y
<1>5. /\ Summarised(i) \in Seq(Row) /\ DOMAIN Summarised(i) = DOMAIN rows
      /\ Summarised(i)[i] = y /\ \A j \in DOMAIN rows : j # i => Summarised(i)[j] = rows[j]
  BY <1>1, <1>3, <1>4
<1>6. \A j \in DOMAIN rows :
         /\ Summarised(i)[j].path = rows[j].path /\ Summarised(i)[j].hash = rows[j].hash
         /\ Summarised(i)[j].done = rows[j].done
         /\ Summarised(i)[j].excluded = rows[j].excluded
         /\ rows[j].summary => Summarised(i)[j].summary
  BY <1>3, <1>5
<1>7. Unique(Summarised(i))
  BY <1>5, <1>6 DEF Typed, Unique
<1>8. QED
  BY <1>3, <1>5, <1>6, <1>7

\* A charged call changes the spend of the run and nothing else of it.
LEMMA ChargeIs ==
    ASSUME Typed, NEW q \in Procs, NEW r \in Command, NEW c \in 1..MaxCost, Charge(q, r, c)
    PROVE  \E x \in Command :
              /\ Become(q, x) /\ Same(x, r) /\ x.pc = r.pc /\ x.todo = r.todo
              /\ x.won = r.won /\ x.skipped = r.skipped
              /\ \/ q = "maintain" /\ metered /\ ledger' = ledger + c /\ x.spent = r.spent + c
                 \/ ~(q = "maintain" /\ metered) /\ ledger' = ledger /\ x.spent = r.spent
              /\ ledger' \in Nat
<1>1. c \in Nat /\ ledger \in Nat /\ r.spent \in Nat
  BY ConstantsAssumption DEF Typed, Command
<1>2. CASE q = "maintain" /\ metered
  <2> DEFINE x == [r EXCEPT !.spent = @ + c]
  <2>1. Become(q, x) /\ ledger' = ledger + c
    BY <1>2 DEF Charge
  <2>2. x \in Command /\ x.spent = r.spent + c
    BY <1>1, CommandSpends
  <2>3. Same(x, r) /\ x.pc = r.pc /\ x.todo = r.todo /\ x.won = r.won /\ x.skipped = r.skipped
    BY DEF Same
  <2> HIDE DEF x
  <2>4. QED
    BY <1>1, <1>2, <2>1, <2>2, <2>3
<1>3. CASE ~(q = "maintain" /\ metered)
  <2>1. Become(q, r) /\ ledger' = ledger
    BY <1>3 DEF Charge
  <2>2. Same(r, r)
    BY DEF Same
  <2>3. QED
    BY <1>1, <1>3, <2>1, <2>2
<1>4. QED
  BY <1>2, <1>3

\* What a step of summarising makes of its command: the source in turn stays, or the
\* next one comes; a call is affordable; only a published page counts as won, and only
\* an answered one is published.
Works(q, x) ==
    /\ x \in Command /\ Become(q, x) /\ Same(x, run[q]) /\ run[q].todo # <<>>
    /\ run[q].pc \in {"ask", "call", "publish"} /\ Fit(x, rows')
    /\ \/ x.todo = run[q].todo /\ x.pc \in {"ask", "call", "publish"}
       \/ x.todo = Tail(run[q].todo) /\ x.pc = "ask"
    /\ \/ x.won = run[q].won
       \/ run[q].pc = "publish" /\ x.won = run[q].won \cup {Current(q).path}
    /\ x.skipped \subseteq run[q].skipped \cup {Current(q).path}
    /\ x.pc = "publish" => /\ x.todo = run[q].todo
                           /\ rows' = Summarised(Head(run[q].todo))
    /\ x.pc = "call" => ~OverCeiling(q)
    /\ \/ ledger' = ledger /\ x.spent = run[q].spent
       \/ /\ run[q].pc = "call" /\ x.pc # "call" /\ q = "maintain" /\ metered
          /\ \E c \in 1..MaxCost : ledger' = ledger + c /\ x.spent = run[q].spent + c
    /\ ledger' \in Nat
    /\ rows' = rows \/ rows' = Summarised(Head(run[q].todo))
    /\ UNCHANGED <<disk, mount, metered, day, edits, crashes, raw, latest, commands>>
    /\ page' \in [Paths -> Versions \cup {None}]

\* Each action of summarising is such a step.
LEMMA RefuseWorks ==
    ASSUME Typed, NEW q \in Procs, Refuse(q) PROVE \E x : Works(q, x)
<1>1. run[q].todo # <<>> /\ run[q].pc = "ask" /\ Become(q, Failed(q))
  BY DEF Refuse, Turn
<1>2. UNCHANGED <<disk, mount, metered, day, edits, crashes, raw, rows, page, latest, ledger, commands>>
  BY DEF Refuse, env
<1>3. Fit(run[q], rows) /\ page \in [Paths -> Versions \cup {None}] /\ ledger \in Nat
  BY DEF Typed
<1>4. Works(q, Failed(q))
  BY <1>1, <1>2, <1>3, FailedIs DEF Works
<1>5. QED
  BY <1>4

LEMMA AskWorks ==
    ASSUME Typed, NEW q \in Procs, Ask(q) PROVE \E x : Works(q, x)
<1> DEFINE t == IF run[q].tries = 0 THEN raw[Current(q).path] ELSE run[q].text
           x == [run[q] EXCEPT !.pc = "call", !.tries = @ + 1, !.text = t]
<1>1. run[q].todo # <<>> /\ run[q].pc = "ask" /\ ~OverCeiling(q) /\ Become(q, x)
  BY DEF Ask, Turn
<1>2. UNCHANGED <<disk, mount, metered, day, edits, crashes, raw, rows, page, latest, ledger, commands>>
  BY DEF Ask, env
<1>3. /\ Fit(run[q], rows) /\ run[q] \in Command
      /\ page \in [Paths -> Versions \cup {None}] /\ ledger \in Nat
  BY DEF Typed
<1>4. t \in Versions \cup {None}
  <2>1. Current(q).path \in Paths
    BY <1>1, CurrentIs
  <2>2. raw[Current(q).path] \in Versions \cup {None}
    BY <2>1 DEF Typed
  <2>3. run[q].text \in Versions \cup {None}
    BY <1>3 DEF Command
  <2>4. QED
    BY <2>2, <2>3
<1> HIDE DEF t
<1>5. x \in Command
  BY <1>3, <1>4, CommandToCall
<1>6. Same(x, run[q]) /\ x.pc = "call" /\ x.todo = run[q].todo /\ x.won = run[q].won
      /\ x.skipped = run[q].skipped /\ x.spent = run[q].spent
  BY <1>3 DEF Command, Same
<1> HIDE DEF x
<1>7. Fit(x, rows)
  BY <1>1, <1>3, <1>6 DEF Fit
<1>8. Works(q, x)
  BY <1>1, <1>2, <1>3, <1>5, <1>6, <1>7 DEF Works
<1>9. QED
  BY <1>8

LEMMA AcceptWorks ==
    ASSUME Typed, NEW q \in Procs, Accept(q) PROVE \E x : Works(q, x)
<1> DEFINE i == Head(run[q].todo)
           s == [run[q] EXCEPT !.pc = "publish"]
           r == IF Current(q).summary THEN Failed(q) ELSE s
<1>0. Fit(run[q], rows) /\ run[q] \in Command /\ page \in [Paths -> Versions \cup {None}]
  BY DEF Typed
<1>1. run[q].pc = "call" /\ run[q].todo # <<>>
  BY <1>0 DEF Accept, Fit
<1>2. PICK c \in 1..MaxCost : Charge(q, r, c)
  BY DEF Accept
<1>3. rows' = Summarised(i)
      /\ UNCHANGED <<disk, mount, metered, day, edits, crashes, raw, page, latest, commands>>
  BY DEF Accept, env, Summarised
<1>4. i \in DOMAIN rows /\ DOMAIN Summarised(i) = DOMAIN rows
  BY <1>1, CurrentIs, SummarisedIs
<1>5. \A x : Fit(x, rows) => Fit(x, rows')
  BY <1>3, <1>4 DEF Fit
<1>6. /\ s \in Command /\ Same(s, run[q]) /\ s.pc = "publish" /\ s.todo = run[q].todo
      /\ s.won = run[q].won /\ s.skipped = run[q].skipped /\ s.spent = run[q].spent
  BY <1>0 DEF Command, Same, Pcs
<1> HIDE DEF s
<1>7. Fit(s, rows)
  BY <1>0, <1>1, <1>6 DEF Fit
<1>8. /\ r \in Command /\ Same(r, run[q]) /\ r.spent = run[q].spent
      /\ r.won = run[q].won /\ r.skipped = run[q].skipped /\ Fit(r, rows)
      /\ \/ r.pc = "publish" /\ r.todo = run[q].todo
         \/ r.pc = "ask" /\ r.todo = Tail(run[q].todo)
  BY <1>0, <1>1, <1>6, <1>7, FailedIs
<1> HIDE DEF r
<1>9. PICK x \in Command :
         /\ Become(q, x) /\ Same(x, r) /\ x.pc = r.pc /\ x.todo = r.todo
         /\ x.won = r.won /\ x.skipped = r.skipped
         /\ \/ q = "maintain" /\ metered /\ ledger' = ledger + c /\ x.spent = r.spent + c
            \/ ~(q = "maintain" /\ metered) /\ ledger' = ledger /\ x.spent = r.spent
         /\ ledger' \in Nat
  BY <1>2, <1>8, ChargeIs
<1>10. Fit(x, rows') /\ Same(x, run[q])
  <2>1. Same(x, run[q])
    BY <1>8, <1>9 DEF Same
  <2>2. Fit(x, rows)
    BY <1>8, <1>9 DEF Fit, Same
  <2>3. QED
    BY <1>5, <2>1, <2>2
<1> HIDE DEF i
<1>11. Works(q, x)
  BY <1>0, <1>1, <1>3, <1>8, <1>9, <1>10 DEF Works, i
<1>12. QED
  BY <1>11

LEMMA RejectWorks ==
    ASSUME Typed, NEW q \in Procs, Reject(q) PROVE \E x : Works(q, x)
<1> DEFINE s == [run[q] EXCEPT !.pc = "ask"]
           t == [run[q] EXCEPT !.skipped = @ \cup {Current(q).path}]
<1>0. Fit(run[q], rows) /\ run[q] \in Command /\ page \in [Paths -> Versions \cup {None}]
  BY DEF Typed
<1>1. run[q].pc = "call" /\ run[q].todo # <<>>
  BY <1>0 DEF Reject, Fit
<1>2. PICK c \in 1..MaxCost : Charge(q, s, c) \/ Charge(q, NextSource(t), c)
  BY DEF Reject
<1>3. UNCHANGED <<disk, mount, metered, day, edits, crashes, raw, rows, page, latest, commands>>
  BY DEF Reject, env
<1>4. /\ s \in Command /\ Same(s, run[q]) /\ s.pc = "ask" /\ s.todo = run[q].todo
      /\ s.won = run[q].won /\ s.skipped = run[q].skipped /\ s.spent = run[q].spent
  BY <1>0 DEF Command, Same, Pcs
<1>5. Current(q).path \in Paths
  BY <1>1, CurrentIs
<1>6. /\ t \in Command /\ Same(t, run[q]) /\ t.pc = run[q].pc /\ t.todo = run[q].todo
      /\ t.won = run[q].won /\ t.skipped = run[q].skipped \cup {Current(q).path}
      /\ t.spent = run[q].spent
  BY <1>0, <1>5 DEF Command, Same
<1> HIDE DEF s, t
<1>7. Fit(s, rows) /\ Fit(t, rows)
  BY <1>0, <1>1, <1>4, <1>6 DEF Fit, Same
<1>8. /\ NextSource(t) \in Command /\ Fit(NextSource(t), rows) /\ Same(NextSource(t), t)
      /\ NextSource(t).pc = "ask" /\ NextSource(t).todo = Tail(t.todo)
      /\ NextSource(t).won = t.won /\ NextSource(t).skipped = t.skipped
      /\ NextSource(t).spent = t.spent
  BY <1>1, <1>6, <1>7, NextSourceIs
<1>9. PICK r \in Command :
         /\ Charge(q, r, c) /\ Same(r, run[q]) /\ Fit(r, rows)
         /\ r.pc = "ask" /\ r.won = run[q].won /\ r.spent = run[q].spent
         /\ r.todo = run[q].todo \/ r.todo = Tail(run[q].todo)
         /\ r.skipped \subseteq run[q].skipped \cup {Current(q).path}
  <2>1. CASE Charge(q, s, c)
    BY <1>4, <1>7, <2>1
  <2>2. CASE Charge(q, NextSource(t), c)
    <3>1. Same(NextSource(t), run[q])
      BY <1>6, <1>8 DEF Same
    <3>2. QED
      BY <1>6, <1>8, <2>2, <3>1
  <2>3. QED
    BY <1>2, <2>1, <2>2
<1>10. PICK x \in Command :
         /\ Become(q, x) /\ Same(x, r) /\ x.pc = r.pc /\ x.todo = r.todo
         /\ x.won = r.won /\ x.skipped = r.skipped
         /\ \/ q = "maintain" /\ metered /\ ledger' = ledger + c /\ x.spent = r.spent + c
            \/ ~(q = "maintain" /\ metered) /\ ledger' = ledger /\ x.spent = r.spent
         /\ ledger' \in Nat
  BY <1>9, ChargeIs
<1>11. Same(x, run[q]) /\ Fit(x, rows)
  BY <1>9, <1>10 DEF Same, Fit
<1>12. Works(q, x)
  BY <1>0, <1>1, <1>3, <1>9, <1>10, <1>11 DEF Works
<1>13. QED
  BY <1>12

LEMMA CallFailsWorks ==
    ASSUME Typed, NEW q \in Procs, CallFails(q) PROVE \E x : Works(q, x)
<1>0. Fit(run[q], rows) /\ page \in [Paths -> Versions \cup {None}] /\ ledger \in Nat
  BY DEF Typed
<1>1. run[q].todo # <<>> /\ run[q].pc \in {"call", "publish"} /\ Become(q, Failed(q))
  BY <1>0 DEF CallFails, Fit
<1>2. UNCHANGED <<disk, mount, metered, day, edits, crashes, raw, rows, page, latest, ledger, commands>>
  BY DEF CallFails, env
<1>3. Works(q, Failed(q))
  BY <1>0, <1>1, <1>2, FailedIs DEF Works
<1>4. QED
  BY <1>3

LEMMA PublishWorks ==
    ASSUME Typed, NEW q \in Procs, Publish(q) PROVE \E x : Works(q, x)
<1> DEFINE w == [run[q] EXCEPT !.won = @ \cup {Current(q).path}]
<1>0. /\ Fit(run[q], rows) /\ run[q] \in Command /\ page \in [Paths -> Versions \cup {None}]
      /\ ledger \in Nat
  BY DEF Typed
<1>1. run[q].todo # <<>> /\ run[q].pc = "publish" /\ Become(q, NextSource(w))
  BY <1>0 DEF Publish, Fit
<1>2. UNCHANGED <<disk, mount, metered, day, edits, crashes, raw, rows, latest, ledger, commands>>
  BY DEF Publish, env
<1>3. Current(q).path \in Paths
  BY <1>1, CurrentIs
<1>4. /\ w \in Command /\ Same(w, run[q]) /\ w.pc = run[q].pc /\ w.todo = run[q].todo
      /\ w.won = run[q].won \cup {Current(q).path} /\ w.skipped = run[q].skipped
      /\ w.spent = run[q].spent
  BY <1>0, <1>3 DEF Command, Same
<1>5. page' \in [Paths -> Versions \cup {None}]
  <2>1. page' = [page EXCEPT ![Current(q).path] = run[q].text]
    BY DEF Publish
  <2>2. run[q].text \in Versions \cup {None}
    BY <1>0 DEF Command
  <2>3. QED
    BY <1>0, <2>1, <2>2
<1> HIDE DEF w
<1>6. Fit(w, rows)
  BY <1>0, <1>1, <1>4 DEF Fit, Same
<1>7. /\ NextSource(w) \in Command /\ Fit(NextSource(w), rows) /\ Same(NextSource(w), w)
      /\ NextSource(w).pc = "ask" /\ NextSource(w).todo = Tail(w.todo)
      /\ NextSource(w).won = w.won /\ NextSource(w).skipped = w.skipped
      /\ NextSource(w).spent = w.spent
  BY <1>1, <1>4, <1>6, NextSourceIs
<1>8. Same(NextSource(w), run[q])
  BY <1>4, <1>7 DEF Same
<1>9. Works(q, NextSource(w))
  BY <1>0, <1>1, <1>2, <1>4, <1>5, <1>7, <1>8 DEF Works
<1>10. QED
  BY <1>9

LEMMA SummariseWorks ==
    ASSUME Typed, NEW q \in Procs, Summarise(q) PROVE \E x : Works(q, x)
BY RefuseWorks, AskWorks, AcceptWorks, RejectWorks, CallFailsWorks, PublishWorks DEF Summarise

LEMMA SummariseTyped ==
    ASSUME Typed, NEW q \in Procs, NEW x, Works(q, x) PROVE Typed'
<1>1. Head(run[q].todo) \in DOMAIN rows
  BY CurrentIs DEF Works
<1>2. rows' \in Seq(Row) /\ Unique(rows') /\ DOMAIN rows' = DOMAIN rows
  BY <1>1, SummarisedIs, ZenonT(40) DEF Works, Typed
<1>3. /\ raw \in [Paths -> Versions \cup {None}] /\ edits \in Nat
      /\ latest \in [status : Status, paths : Seq(Paths)]
  BY DEF Typed
<1>4. QED
  BY <1>2, <1>3, CommandStepTyped DEF Works

\* A receipt and nothing else.
LEMMA ReceiptTyped ==
    ASSUME Typed, NEW status \in Status, NEW s \in Seq(Candidate), Receipt(status, s),
           UNCHANGED <<env, raw, rows, page, ledger, run>>
    PROVE  Typed'
<1>1. latest' \in [status : Status, paths : Seq(Paths)]
  BY ReceiptIs
<1>2. \A q \in Procs : Fit(run'[q], rows')
  BY DEF Typed
<1>3. QED
  BY <1>1, <1>2 DEF Typed, env

\* The runs that end at their receipt.
LEMMA ReceiptsTyped ==
    ASSUME Typed,
           \/ MaintainRefused \/ MaintainFailsClosed \/ MaintainNoop \/ MaintainScanOnly
           \/ MaintainDeferred
    PROVE  Typed' /\ UNCHANGED <<env, raw, rows, page, ledger, run>>
<1>1. <<>> \in Seq(Candidate) /\ "failure" \in Status /\ "verified_noop" \in Status
  BY DEF Status
<1>2. UNCHANGED <<env, raw, rows, page, ledger, run>>
  BY DEF MaintainRefused, MaintainFailsClosed, MaintainNoop, MaintainScanOnly, MaintainDeferred
<1>3. \E status \in Status, s \in Seq(Candidate) : Receipt(status, s)
  <2>1. CASE MaintainRefused
    BY <1>1, <2>1 DEF MaintainRefused
  <2>2. CASE MaintainFailsClosed
    BY <1>1, <2>2, SelectedIs DEF MaintainFailsClosed
  <2>3. CASE MaintainNoop
    BY <1>1, <2>3 DEF MaintainNoop
  <2>4. CASE MaintainScanOnly
    BY <1>1, <2>4, SelectedIs DEF MaintainScanOnly
  <2>5. CASE MaintainDeferred
    BY <1>1, <2>5, SelectedIs DEF MaintainDeferred
  <2>6. QED
    BY <2>1, <2>2, <2>3, <2>4, <2>5
<1>4. QED
  BY <1>2, <1>3, ReceiptTyped

\* The command of a batch that starts.
Starting ==
    [Idle EXCEPT !.pc = "copy", !.locked = TRUE, !.cands = Selected,
                 !.eligible = Cardinality(Candidates), !.reg = ToRegister(Selected),
                 !.comp = {Selected[i].path : i \in ToCompile(Selected)},
                 !.spent = ledger, !.seen = edits]

\* A batch that starts is a command.
LEMMA StartingIs ==
    ASSUME Typed
    PROVE  /\ Starting \in Command /\ Starting.pc = "copy" /\ Starting.cands = Selected
           /\ Starting.eligible = Cardinality(Candidates) /\ Starting.todo = <<>>
           /\ Starting.won = {} /\ Starting.skipped = {}
           /\ Starting.spent = ledger /\ Starting.seen = edits
<1>1. Selected \in Seq(Candidate) /\ ToRegister(Selected) \in Seq(Candidate)
      /\ Cardinality(Candidates) \in Nat /\ ledger \in Nat /\ edits \in Nat
  BY SelectedIs, ToRegisterIs, OrderedIs DEF Typed
<1> DEFINE comp == {Selected[i].path : i \in ToCompile(Selected)}
           s == Selected
           n == Cardinality(Candidates)
           reg == ToRegister(Selected)
<1>2. comp \in SUBSET Paths
  <2>1. \A i \in DOMAIN Selected : Selected[i].path \in Paths
    <3>1. ASSUME NEW t \in Seq(Candidate), NEW i \in DOMAIN t PROVE t[i].path \in Paths
      <4>1. t[i] \in Candidate
        OBVIOUS
      <4>2. QED
        BY <4>1 DEF Candidate
    <3>2. QED
      BY <1>1, <3>1
  <2>2. ToCompile(Selected) \subseteq DOMAIN Selected
    BY DEF ToCompile
  <2>3. QED
    BY <2>1, <2>2
<1>3. Starting = [pc |-> "copy", locked |-> TRUE, cands |-> s, eligible |-> n, reg |-> reg,
                  comp |-> comp, todo |-> <<>>, text |-> None, tries |-> 0, won |-> {},
                  skipped |-> {}, lost |-> {}, spent |-> ledger, seen |-> edits]
  <2> HIDE DEF comp, s, n, reg
  <2>1. Starting = [Idle EXCEPT !.pc = "copy", !.locked = TRUE, !.cands = s,
                                !.eligible = n, !.reg = reg, !.comp = comp,
                                !.spent = ledger, !.seen = edits]
    BY DEF Starting, comp, s, n, reg
  <2>2. QED
    BY <2>1 DEF Idle
<1>4. s \in Seq(Candidate) /\ reg \in Seq(Candidate) /\ n \in Nat
  BY <1>1
<1>5. <<>> \in Seq(Nat)
  OBVIOUS
<1> HIDE DEF comp, s, n, reg
<1>6. Starting \in Command
  BY <1>1, <1>2, <1>3, <1>4, <1>5 DEF Command, Pcs
<1>7. QED
  BY <1>3, <1>6 DEF s, n

\* What the start, the copies, the registration, a failure and the end do.
LEMMA StartTyped ==
    ASSUME Typed, MaintainStart
    PROVE  /\ Typed' /\ Become("maintain", Starting)
           /\ UNCHANGED <<env, raw, rows, page, ledger>>
<1>1. /\ Become("maintain", Starting) /\ Receipt("running", Selected)
      /\ UNCHANGED <<env, raw, rows, page, ledger>>
  BY DEF MaintainStart, Starting
<1>2. Starting \in Command /\ Starting.todo = <<>> /\ Starting.pc = "copy"
  BY StartingIs
<1>3. Fit(Starting, rows')
  BY <1>2 DEF Fit
<1>4. latest' \in [status : Status, paths : Seq(Paths)]
  BY <1>1, SelectedIs, ReceiptIs DEF Status
<1>5. "maintain" \in Procs
  BY DEF Procs
<1>6. QED
  BY <1>1, <1>2, <1>3, <1>4, <1>5, CommandStepTyped DEF Typed, env

LEMMA CopyTyped ==
    ASSUME Typed, MaintainCopy
    PROVE  /\ Typed' /\ Become("maintain", [run["maintain"] EXCEPT !.pc = "register"])
           /\ UNCHANGED <<env, rows, page, latest, ledger>>
<1> DEFINE s == run["maintain"].cands
           x == [run["maintain"] EXCEPT !.pc = "register"]
           I(p) == {i \in 1..Len(s) : s[i].path = p /\ s[i].copy}
           last(p) == IF I(p) # {} THEN Max(I(p)) ELSE 0
<1>0. "maintain" \in Procs
  BY DEF Procs
<1>1. run["maintain"] \in Command /\ Fit(run["maintain"], rows) /\ s \in Seq(Candidate)
      /\ run["maintain"].pc = "copy"
  BY <1>0 DEF Typed, Command, MaintainCopy
<1>2. Become("maintain", x) /\ UNCHANGED <<env, rows, page, latest, ledger>>
  BY DEF MaintainCopy
<1>3. x \in Command /\ x.pc = "register" /\ x.todo = run["maintain"].todo
  BY <1>1 DEF Command, Pcs
<1>4. Fit(x, rows')
  BY <1>1, <1>2, <1>3 DEF Fit
<1>5. raw' \in [Paths -> Versions \cup {None}]
  <2> DEFINE new(p) == IF \E i \in DOMAIN s : s[i].path = p /\ s[i].copy
                       THEN s[last(p)].hash ELSE raw[p]
  <2>1. raw' = [p \in Paths |-> new(p)]
    BY DEF MaintainCopy, SelectLastInSeq
  <2>2. Len(s) \in Nat /\ DOMAIN s = 1..Len(s) /\ \A i \in DOMAIN s : s[i] \in Candidate
    BY <1>1, SMTT(30)
  <2>3. ASSUME NEW p \in Paths PROVE new(p) \in Versions \cup {None}
    <3>1. CASE \E i \in DOMAIN s : s[i].path = p /\ s[i].copy
      <4>1. I(p) # {} /\ I(p) \subseteq 1..Len(s)
        BY <2>2, <3>1
      <4>2. Max(I(p)) \in I(p)
        <5> HIDE DEF I
        <5>1. QED
          BY <2>2, <4>1, MaxIs, SMTT(30)
      <4>3. last(p) \in DOMAIN s
        BY <2>2, <4>1, <4>2
      <4>4. s[last(p)].hash \in Versions
        <5> HIDE DEF last
        <5>1. QED
          BY <2>2, <4>3 DEF Candidate
      <4>5. QED
        BY <3>1, <4>4
    <3>2. CASE ~ \E i \in DOMAIN s : s[i].path = p /\ s[i].copy
      BY <3>2 DEF Typed
    <3>3. QED
      BY <3>1, <3>2
  <2> HIDE DEF new
  <2>4. QED
    BY <2>1, <2>3
<1> HIDE DEF x
<1>6. QED
  BY <1>0, <1>2, <1>3, <1>4, <1>5, CommandStepTyped DEF Typed, env, x

\* The registration, and where it leaves the run.
Registered(x) ==
    /\ x \in Command /\ Become("maintain", x)
    /\ Grown(rows') /\ UNCHANGED <<env, raw, page, ledger>>
    /\ \/ x = Idle
       \/ /\ Same(x, run["maintain"]) /\ x.pc = "ask" /\ x.won = run["maintain"].won
          /\ x.skipped = run["maintain"].skipped /\ x.spent = run["maintain"].spent
          /\ \A i \in DOMAIN x.todo :
                /\ x.todo[i] \in DOMAIN rows'
                /\ \E c \in ToSet(x.cands) : /\ c.path = rows'[x.todo[i]].path
                                             /\ c.hash = rows'[x.todo[i]].hash

LEMMA RegisterTyped ==
    ASSUME Typed, MaintainRegister
    PROVE  Typed' /\ \E x : Registered(x)
<1> DEFINE r == run["maintain"]
           table == RegisterUpTo(r.reg)
           todo == Work(table, r)
           x == [r EXCEPT !.pc = "ask", !.todo = todo]
<1>0. "maintain" \in Procs
  BY DEF Procs
<1>1. r \in Command /\ r.reg \in Seq(Candidate) /\ r.cands \in Seq(Candidate)
  BY <1>0 DEF Typed, Command
<1>2. rows' = table /\ Grown(table) /\ UNCHANGED <<env, raw, page, ledger>>
  BY <1>1, RegisterUpToGrows DEF MaintainRegister
<1>3. /\ table \in Seq(Row) /\ Unique(table) /\ DOMAIN rows \subseteq DOMAIN table
  BY <1>2 DEF Grown
<1> HIDE DEF table
<1>4. /\ todo \in Seq(Nat)
      /\ \A i \in DOMAIN todo :
            /\ todo[i] \in DOMAIN table
            /\ \E c \in ToSet(r.cands) : /\ c.path = table[todo[i]].path
                                         /\ c.hash = table[todo[i]].hash
  BY <1>3, WorkIs
<1>5. \/ Become("maintain", Idle) /\ Receipt("failure", r.cands)
      \/ Become("maintain", x) /\ UNCHANGED latest
  BY DEF MaintainRegister, table
<1> HIDE DEF todo
<1>6. /\ x \in Command /\ Same(x, r) /\ x.pc = "ask" /\ x.todo = todo
      /\ x.won = r.won /\ x.skipped = r.skipped /\ x.spent = r.spent
  BY <1>1, <1>4 DEF Command, Same, Pcs
<1>7. Fit(x, table)
  BY <1>4, <1>6 DEF Fit
<1> HIDE DEF x
<1>8. CASE Become("maintain", Idle) /\ Receipt("failure", r.cands)
  <2>1. latest' \in [status : Status, paths : Seq(Paths)]
    BY <1>1, <1>8, ReceiptIs DEF Status
  <2>2. Typed'
    BY <1>0, <1>2, <1>3, <1>8, <2>1, IdleIs, CommandStepTyped DEF Typed, env
  <2>3. Registered(Idle)
    BY <1>2, <1>8, IdleIs DEF Registered
  <2>4. QED
    BY <2>2, <2>3
<1>9. CASE Become("maintain", x) /\ UNCHANGED latest
  <2>1. Typed'
    BY <1>0, <1>2, <1>3, <1>6, <1>7, <1>9, CommandStepTyped DEF Typed, env
  <2>2. x.cands = r.cands
    BY <1>6 DEF Same
  <2>3. Registered(x)
    BY <1>2, <1>4, <1>6, <1>9, <2>2 DEF Registered
  <2>4. QED
    BY <2>1, <2>3
<1>10. QED
  BY <1>5, <1>8, <1>9

LEMMA ThrowsTyped ==
    ASSUME Typed, MaintainThrows
    PROVE  Typed' /\ Become("maintain", Idle) /\ UNCHANGED <<env, raw, rows, page, ledger>>
<1>0. "maintain" \in Procs
  BY DEF Procs
<1>1. /\ Become("maintain", Idle) /\ Receipt("failure", run["maintain"].cands)
      /\ UNCHANGED <<env, raw, rows, page, ledger>>
  BY DEF MaintainThrows
<1>2. run["maintain"].cands \in Seq(Candidate)
  BY <1>0 DEF Typed, Command
<1>3. latest' \in [status : Status, paths : Seq(Paths)]
  BY <1>1, <1>2, ReceiptIs DEF Status
<1>4. QED
  BY <1>0, <1>1, <1>3, IdleIs, CommandStepTyped DEF Typed, env

LEMMA FinishTyped ==
    ASSUME Typed, MaintainFinish
    PROVE  /\ Typed' /\ Become("maintain", Idle) /\ UNCHANGED <<env, raw, page, ledger>>
           /\ rows' = Mark(rows, run["maintain"])
<1> DEFINE r == run["maintain"]
<1>0. "maintain" \in Procs
  BY DEF Procs
<1>1. r \in Command /\ r.cands \in Seq(Candidate)
  BY <1>0 DEF Typed, Command
<1>2. /\ Become("maintain", Idle) /\ UNCHANGED <<env, raw, page, ledger>>
      /\ rows' = Mark(rows, r)
      /\ \E status \in Status : Receipt(status, r.cands)
  BY DEF MaintainFinish, Status
<1>3. latest' \in [status : Status, paths : Seq(Paths)]
  BY <1>1, <1>2, ReceiptIs
<1>4. rows' \in Seq(Row) /\ DOMAIN rows' = DOMAIN rows
      /\ \A i \in DOMAIN rows : rows'[i].path = rows[i].path /\ rows'[i].hash = rows[i].hash
  BY <1>1, <1>2, MarkIs
<1>5. Unique(rows')
  BY <1>4 DEF Typed, Unique
<1>6. QED
  BY <1>0, <1>2, <1>3, <1>4, <1>5, IdleIs, CommandStepTyped DEF Typed, env

\* A step beside the maintenance run: the table may grow.
Aside ==
    /\ Typed' /\ Grown(rows') /\ run'["maintain"] = run["maintain"]
    /\ UNCHANGED <<disk, metered, edits, ledger>>

\* A step of the other command is one.
LEMMA CliStepAside ==
    ASSUME Typed, NEW r \in Command, Become("cli", r), Grown(rows'), Fit(r, rows'),
           UNCHANGED <<disk, mount, metered, day, edits, ledger, page, latest>>,
           raw' \in [Paths -> Versions \cup {None}]
    PROVE  Aside
<1>0. "cli" \in Procs /\ "maintain" \in Procs
  BY DEF Procs
<1>1. rows' \in Seq(Row) /\ Unique(rows') /\ DOMAIN rows \subseteq DOMAIN rows'
  BY DEF Grown
<1>2. edits' \in Nat /\ page' \in [Paths -> Versions \cup {None}] /\ ledger' \in Nat
      /\ latest' \in [status : Status, paths : Seq(Paths)]
  BY DEF Typed
<1>3. Typed'
  BY <1>0, <1>1, <1>2, CommandStepTyped
<1>4. run'["maintain"] = run["maintain"]
  BY <1>0, BecomeIs
<1>5. QED
  BY <1>3, <1>4 DEF Aside

\* Commands of the other process with something to register, and with something to do.
Registering(pc, p, h) == [Idle EXCEPT !.pc = pc, !.reg = <<Plan(p, h)>>]
Doing(r, locked, todo) == [r EXCEPT !.pc = "ask", !.locked = locked, !.todo = todo]

\* These are commands.
LEMMA RegisteringIs ==
    ASSUME NEW pc \in {"ingest", "lock"}, NEW p \in Paths, NEW h \in Versions
    PROVE  Registering(pc, p, h) \in Command /\ \A t : Fit(Registering(pc, p, h), t)
<1>1. Plan(p, h) \in Candidate
  BY DEF Plan, Candidate
<1> DEFINE s == <<Plan(p, h)>>
<1>2. s \in Seq(Candidate) /\ s # <<>> /\ <<>> \in Seq(Candidate) /\ <<>> \in Seq(Nat)
      /\ DOMAIN <<>> = {}
  BY <1>1
<1> HIDE DEF s
<1>3. Registering(pc, p, h) =
         [pc |-> pc, locked |-> FALSE, cands |-> <<>>, eligible |-> 0, reg |-> s,
          comp |-> {}, todo |-> <<>>, text |-> None, tries |-> 0, won |-> {},
          skipped |-> {}, lost |-> {}, spent |-> 0, seen |-> 0]
  <2>1. Registering(pc, p, h) = [Idle EXCEPT !.pc = pc, !.reg = s]
    BY DEF Registering, s
  <2>2. QED
    BY <2>1, ZenonT(40) DEF Idle
<1>4. Registering(pc, p, h) \in Command
  BY <1>2, <1>3 DEF Command, Pcs
<1>5. Registering(pc, p, h).todo = <<>> /\ Registering(pc, p, h).reg = s
      /\ Registering(pc, p, h).pc \notin {"call", "publish"}
  BY <1>3
<1>6. QED
  BY <1>2, <1>4, <1>5 DEF Fit

LEMMA DoingIs ==
    ASSUME NEW r \in Command, NEW b \in BOOLEAN, NEW todo \in Seq(Nat), NEW table,
           \A i \in DOMAIN todo : todo[i] \in DOMAIN table
    PROVE  Doing(r, b, todo) \in Command /\ Fit(Doing(r, b, todo), table)
<1>1. Doing(r, b, todo) \in Command
  BY DEF Doing, Command, Pcs
<1>2. Doing(r, b, todo).pc = "ask" /\ Doing(r, b, todo).todo = todo
  BY DEF Doing, Command
<1>3. QED
  BY <1>1, <1>2 DEF Fit

LEMMA CompilingIs ==
    ASSUME NEW todo \in Seq(Nat), NEW table, \A i \in DOMAIN todo : todo[i] \in DOMAIN table
    PROVE  /\ [Idle EXCEPT !.pc = "ask", !.todo = todo] \in Command
           /\ Fit([Idle EXCEPT !.pc = "ask", !.todo = todo], table)
<1>1. \A r \in Command : /\ [r EXCEPT !.pc = "ask", !.todo = todo] \in Command
                         /\ [r EXCEPT !.pc = "ask", !.todo = todo].pc = "ask"
                         /\ [r EXCEPT !.pc = "ask", !.todo = todo].todo = todo
  BY DEF Command, Pcs
<1>2. QED
  BY <1>1, IdleIs DEF Fit

\* The actions of ingest and compile are steps beside the run.
LEMMA CopyInAside ==
    ASSUME Typed, NEW p \in Ingested, NEW v \in Versions, CopyIn(p, v) PROVE Aside
<1>1. p \in Paths
  BY DEF Ingested
<1>2. /\ Become("cli", Registering("ingest", p, v))
      /\ UNCHANGED <<disk, mount, metered, day, edits, rows, page, latest, ledger>>
      /\ raw' = [raw EXCEPT ![p] = v]
  BY DEF CopyIn, env, Registering
<1>3. raw' \in [Paths -> Versions \cup {None}]
  BY <1>1, <1>2 DEF Typed
<1>4. Grown(rows')
  BY <1>2, RowsGrown
<1>5. QED
  BY <1>1, <1>2, <1>3, <1>4, RegisteringIs, CliStepAside

LEMMA DiffAside ==
    ASSUME Typed, NEW p \in Ingested, IncrementalDiff(p) PROVE Aside
<1>1. p \in Paths /\ raw[p] # None
  BY DEF Ingested, IncrementalDiff
<1>2. /\ Become("cli", Registering("lock", p, raw[p]))
      /\ UNCHANGED <<disk, mount, metered, day, edits, raw, rows, page, latest, ledger>>
  BY DEF IncrementalDiff, env, Registering
<1>3. raw[p] \in Versions /\ raw' \in [Paths -> Versions \cup {None}]
  BY <1>1, <1>2 DEF Typed
<1>4. Grown(rows')
  BY <1>2, RowsGrown
<1>5. QED
  BY <1>1, <1>2, <1>3, <1>4, RegisteringIs, CliStepAside

LEMMA CliRegIs ==
    ASSUME Typed, run["cli"].pc \in {"ingest", "lock"}
    PROVE  /\ run["cli"] \in Command /\ run["cli"].reg[1] \in Candidate
           /\ Grown(RegisterSource(rows, run["cli"].reg[1]))
<1>1. "cli" \in Procs
  BY DEF Procs
<1>2. run["cli"] \in Command /\ run["cli"].reg \in Seq(Candidate) /\ run["cli"].reg # <<>>
  BY <1>1 DEF Typed, Command, Fit
<1>3. run["cli"].reg[1] \in Candidate
  BY <1>2
<1>4. QED
  BY <1>2, <1>3, RowsGrown, RegisterGrows

LEMMA CliAside == ASSUME Typed, Cli PROVE Aside
<1>1. raw \in [Paths -> Versions \cup {None}] /\ rows \in Seq(Row) /\ DOMAIN rows = 1..Len(rows)
      /\ Len(rows) \in Nat
  BY DEF Typed
<1>2. CASE \E p \in Ingested, v \in Versions : IngestCopy(p, v) \/ PipelineCopy(p, v)
  BY <1>2, CopyInAside DEF IngestCopy, PipelineCopy
<1>3. CASE \E p \in Ingested : IncrementalFresh(p)
  <2>1. UNCHANGED vars
    BY <1>3 DEF IncrementalFresh
  <2>2. Typed' /\ rows' = rows
    BY <2>1 DEF Typed, vars
  <2>3. QED
    BY <2>1, <2>2, RowsGrown DEF Aside, vars
<1>4. CASE \E p \in Ingested : IncrementalDiff(p)
  BY <1>4, DiffAside
<1>5. CASE IngestRegister
  <2>1. Become("cli", Idle) /\ rows' = RegisterSource(rows, run["cli"].reg[1])
        /\ UNCHANGED <<disk, mount, metered, day, edits, raw, page, latest, ledger>>
    BY <1>5 DEF IngestRegister, env
  <2>2. Grown(rows')
    BY <1>5, <2>1, CliRegIs DEF IngestRegister
  <2>3. QED
    BY <1>1, <2>1, <2>2, IdleIs, CliStepAside
<1>6. CASE CompileSources
  <2> DEFINE todo == Ascending(Uncompiled)
             x == [Idle EXCEPT !.pc = "ask", !.todo = todo]
  <2>1. Become("cli", x)
        /\ UNCHANGED <<disk, mount, metered, day, edits, raw, rows, page, latest, ledger>>
    BY <1>6 DEF CompileSources, env
  <2>2. Uncompiled \subseteq 1..Len(rows)
    BY <1>1 DEF Uncompiled
  <2>3. todo \in Seq(Nat) /\ \A i \in DOMAIN todo : todo[i] \in DOMAIN rows
    BY <1>1, <2>2, AscendingIs
  <2> HIDE DEF todo
  <2>4. x \in Command /\ Fit(x, rows')
    BY <2>1, <2>3, CompilingIs
  <2> HIDE DEF x
  <2>5. QED
    BY <1>1, <2>1, <2>4, RowsGrown, CliStepAside
<1>7. CASE IncrementalSkips \/ CliEnds
  <2>1. Become("cli", Idle)
        /\ UNCHANGED <<disk, mount, metered, day, edits, raw, rows, page, latest, ledger>>
    BY <1>7 DEF IncrementalSkips, CliEnds, env
  <2>2. QED
    BY <1>1, <2>1, IdleIs, RowsGrown, CliStepAside
<1>8. CASE IncrementalRegister
  <2> DEFINE table == RegisterSource(rows, run["cli"].reg[1])
             ids == {i \in DOMAIN table :
                       /\ \A j \in DOMAIN table : table[j].path = table[i].path => j <= i
                       /\ ~table[i].summary}
             todo == Ascending(ids)
             x == [run["cli"] EXCEPT !.pc = "ask", !.locked = TRUE, !.todo = todo]
  <2>1. Become("cli", x) /\ rows' = table
        /\ UNCHANGED <<disk, mount, metered, day, edits, raw, page, latest, ledger>>
    BY <1>8 DEF IncrementalRegister, env
  <2>2. Grown(table) /\ run["cli"] \in Command
    BY <1>8, CliRegIs DEF IncrementalRegister
  <2> HIDE DEF table
  <2>3. DOMAIN table = 1..Len(table) /\ Len(table) \in Nat
    BY <2>2 DEF Grown
  <2>4. ids \subseteq 1..Len(table)
    BY <2>3
  <2> HIDE DEF ids
  <2>5. todo \in Seq(Nat) /\ \A i \in DOMAIN todo : todo[i] \in DOMAIN table
    BY <2>3, <2>4, AscendingIs
  <2> HIDE DEF todo
  <2>6. x = Doing(run["cli"], TRUE, todo)
    BY DEF Doing
  <2> HIDE DEF x
  <2>7. x \in Command /\ Fit(x, rows')
    BY <2>1, <2>2, <2>5, <2>6, DoingIs
  <2>8. QED
    BY <1>1, <2>1, <2>2, <2>7, CliStepAside
<1>9. QED
  BY <1>2, <1>3, <1>4, <1>5, <1>6, <1>7, <1>8 DEF Cli

\* What the world does to the files, and deaths.
LEMMA WorldTyped ==
    ASSUME Typed, World
    PROVE  /\ Typed' /\ rows' = rows /\ metered' = metered
           /\ run'["maintain"] \in {run["maintain"], Idle}
           /\ \/ disk' = disk /\ edits' = edits
              \/ edits' = edits + 1
           /\ \/ ledger' = ledger
              \/ ledger' = 0
<1>0. "maintain" \in Procs /\ ledger \in Nat /\ edits \in Nat
  BY DEF Typed, Procs
<1>1. CASE MountAdd \/ MountRemove \/ MountTrouble \/ MountRecovers
  <2>1. /\ UNCHANGED <<disk, raw, rows, page, latest, ledger, run, metered, day>>
        /\ mount' \in {"none", "ok", "missing", "stale"}
        /\ edits' = edits \/ edits' = edits + 1
    BY <1>1 DEF MountAdd, MountRemove, MountTrouble, MountRecovers, Touch
  <2>2. edits' \in Nat
    BY <1>0, <2>1
  <2>3. Typed'
    BY <2>1, <2>2 DEF Typed
  <2>4. QED
    BY <2>1, <2>3
<1>2. CASE \E f \in Mounted, v \in Versions \cup {None} : Edit(f, v)
  <2>1. /\ UNCHANGED <<mount, raw, rows, page, latest, ledger, run, metered, day>>
        /\ edits' = edits + 1 /\ edits' \in Nat
    BY <1>0, <1>2 DEF Edit, Touch
  <2>2. disk' \in [Mounted -> Versions \cup {None}]
    BY <1>2 DEF Edit, Typed
  <2>3. Typed'
    BY <2>1, <2>2 DEF Typed
  <2>4. QED
    BY <2>1, <2>3
<1>3. CASE \E q \in Procs : Crash(q)
  <2>1. PICK q \in Procs : Crash(q)
    BY <1>3
  <2>2. /\ Become(q, Idle)
        /\ UNCHANGED <<disk, mount, raw, rows, page, latest, ledger, metered, day, edits>>
    BY <2>1 DEF Crash
  <2>3. Typed'
    BY <2>2, IdleIs, CommandStepTyped DEF Typed
  <2>4. run'["maintain"] \in {run["maintain"], Idle}
    BY <1>0, <2>2, BecomeIs
  <2>5. QED
    BY <2>2, <2>3, <2>4
<1>4. CASE Midnight
  <2>1. /\ UNCHANGED <<disk, mount, raw, rows, page, latest, run, metered, edits>>
        /\ ledger' = 0 /\ day' \in 1..MaxDay
    BY <1>4, ConstantsAssumption DEF Midnight, Typed
  <2>2. Typed'
    BY <2>1 DEF Typed
  <2>3. QED
    BY <2>1, <2>2
<1>5. QED
  BY <1>1, <1>2, <1>3, <1>4 DEF World

\* The types hold at first, and every step keeps them.
LEMMA InitTyped == ASSUME Init PROVE Typed
<1>1. <<>> \in Seq(Row) /\ DOMAIN <<>> = {} /\ <<>> \in Seq(Paths)
  OBVIOUS
<1>2. rows = <<>> /\ Unique(rows)
  BY <1>1 DEF Init, Unique
<1>3. PICK s \in Starts :
        /\ disk = [f \in Mounted |-> s.files[f]]
        /\ raw = [p \in Paths |-> IF p \in Mounted THEN None ELSE s.files[p]]
        /\ metered = s.metered /\ edits = s.edits
  BY DEF Init
<1>4. /\ s.files \in [Paths -> Versions \cup {None}] /\ Mounted \subseteq Paths
      /\ s.metered \in BOOLEAN /\ s.edits \in Nat
  BY <1>3, ConstantsAssumption
<1>5. disk \in [Mounted -> Versions \cup {None}] /\ raw \in [Paths -> Versions \cup {None}]
  BY <1>3, <1>4
<1>6. run \in [Procs -> Command] /\ \A q \in Procs : Fit(run[q], rows)
  BY IdleIs DEF Init
<1>7. latest \in [status : Status, paths : Seq(Paths)]
  BY <1>1 DEF Init, Status
<1>8. mount = "none" /\ metered \in BOOLEAN /\ page \in [Paths -> Versions \cup {None}]
      /\ ledger \in Nat /\ day \in 1..MaxDay /\ edits \in Nat
  BY <1>3, <1>4, ConstantsAssumption DEF Init
<1>9. QED
  BY <1>1, <1>2, <1>5, <1>6, <1>7, <1>8 DEF Typed

LEMMA NextTyped == ASSUME Typed, [Next]_vars PROVE Typed'
<1>1. CASE MaintainRefused \/ MaintainFailsClosed \/ MaintainNoop \/ MaintainScanOnly
           \/ MaintainDeferred
  BY <1>1, ReceiptsTyped
<1>2. CASE MaintainStart \/ MaintainCopy \/ MaintainRegister \/ MaintainThrows \/ MaintainFinish
  BY <1>2, StartTyped, CopyTyped, RegisterTyped, ThrowsTyped, FinishTyped
<1>3. CASE \E q \in Procs : Summarise(q)
  BY <1>3, SummariseWorks, SummariseTyped
<1>4. CASE Cli
  BY <1>4, CliAside DEF Aside
<1>5. CASE World
  BY <1>5, WorldTyped
<1>6. CASE UNCHANGED vars
  BY <1>6 DEF Typed, vars
<1>7. QED
  BY <1>1, <1>2, <1>3, <1>4, <1>5, <1>6 DEF Next, Maintain

(* The types of the model, for every mount, every content and every bound. *)
THEOREM TypeCorrect == Spec => []TypeOK
<1>1. Spec => []Typed
  BY InitTyped, NextTyped, PTL DEF Spec
<1>2. QED
  BY <1>1, TypedIsTypeOK, PTL

-----------------------------------------------------------------------------
(* The ceiling *)

\* The run knows at least what the ledger has of today, and can afford its call.
Spend ==
    metered =>
        /\ ledger <= Ceiling
        /\ run["maintain"].pc # "idle" => ledger <= run["maintain"].spent
        /\ run["maintain"].pc = "call" => run["maintain"].spent + MaxCost <= Ceiling

\* Every step keeps it.
LEMMA NextSpend == ASSUME Typed, Spend, [Next]_vars PROVE Spend'
<1>0. /\ "maintain" \in Procs /\ "cli" \in Procs /\ ledger \in Nat
      /\ run["maintain"] \in Command /\ run["maintain"].spent \in Nat
      /\ Ceiling \in Nat /\ MaxCost \in Nat
  BY ConstantsAssumption DEF Typed, Procs, Command
<1>1. CASE MaintainRefused \/ MaintainFailsClosed \/ MaintainNoop \/ MaintainScanOnly
           \/ MaintainDeferred
  BY <1>1, ReceiptsTyped DEF Spend, env
<1>2. CASE MaintainStart
  <2>1. /\ run'["maintain"] = Starting /\ ledger' = ledger /\ metered' = metered
    BY <1>0, <1>2, StartTyped, BecomeIs DEF env
  <2>2. QED
    BY <1>0, <2>1, StartingIs DEF Spend
<1>3. CASE MaintainCopy
  <2>1. /\ run'["maintain"] = [run["maintain"] EXCEPT !.pc = "register"]
        /\ ledger' = ledger /\ metered' = metered
    BY <1>0, <1>3, CopyTyped, BecomeIs DEF env
  <2>2. run'["maintain"].pc = "register" /\ run'["maintain"].spent = run["maintain"].spent
    BY <1>0, <2>1 DEF Command
  <2>3. run["maintain"].pc # "idle"
    BY <1>3 DEF MaintainCopy
  <2>4. QED
    BY <2>1, <2>2, <2>3 DEF Spend
<1>4. CASE MaintainRegister
  <2>1. PICK x : Registered(x)
    BY <1>4, RegisterTyped
  <2>2. run'["maintain"] = x /\ ledger' = ledger /\ metered' = metered
    BY <1>0, <2>1, BecomeIs DEF Registered, env
  <2>3. x.pc = "idle" \/ (x.pc = "ask" /\ x.spent = run["maintain"].spent)
    BY <2>1 DEF Registered, Idle
  <2>4. run["maintain"].pc # "idle"
    BY <1>4 DEF MaintainRegister
  <2>5. QED
    BY <2>2, <2>3, <2>4 DEF Spend
<1>5. CASE MaintainThrows \/ MaintainFinish
  <2>1. run'["maintain"] = Idle /\ ledger' = ledger /\ metered' = metered
    BY <1>0, <1>5, ThrowsTyped, FinishTyped, BecomeIs DEF env
  <2>2. run'["maintain"].pc = "idle"
    BY <2>1 DEF Idle
  <2>3. QED
    BY <2>1, <2>2 DEF Spend
<1>6. CASE Summarise("maintain")
  <2>1. PICK x : Works("maintain", x)
    BY <1>0, <1>6, SummariseWorks
  <2>2. run'["maintain"] = x /\ metered' = metered /\ run["maintain"].pc # "idle"
    BY <1>0, <2>1, BecomeIs DEF Works
  <2>3. x.pc = "call" /\ metered => run["maintain"].spent + MaxCost <= Ceiling
    BY <1>0, <2>1 DEF Works, OverCeiling
  <2>4. CASE ledger' = ledger /\ x.spent = run["maintain"].spent
    BY <2>2, <2>3, <2>4 DEF Spend
  <2>5. CASE /\ run["maintain"].pc = "call" /\ x.pc # "call" /\ metered
             /\ \E c \in 1..MaxCost : ledger' = ledger + c /\ x.spent = run["maintain"].spent + c
    <3>1. PICK c \in 1..MaxCost : ledger' = ledger + c /\ x.spent = run["maintain"].spent + c
      BY <2>5
    <3>2. ledger <= run["maintain"].spent /\ run["maintain"].spent + MaxCost <= Ceiling
      BY <2>2, <2>5 DEF Spend
    <3>3. ledger' <= Ceiling /\ ledger' <= x.spent
      BY <1>0, <3>1, <3>2
    <3>4. QED
      BY <2>2, <2>5, <3>3 DEF Spend
  <2>6. QED
    BY <2>1, <2>4, <2>5 DEF Works
<1>7. CASE Summarise("cli")
  <2>1. PICK x : Works("cli", x)
    BY <1>0, <1>7, SummariseWorks
  <2>2. run'["maintain"] = run["maintain"] /\ metered' = metered /\ ledger' = ledger
    BY <1>0, <2>1, BecomeIs DEF Works
  <2>3. QED
    BY <2>2 DEF Spend
<1>8. CASE Cli
  BY <1>8, CliAside DEF Aside, Spend
<1>9. CASE World
  <2>1. /\ metered' = metered
        /\ run'["maintain"] = run["maintain"] \/ run'["maintain"].pc = "idle"
        /\ ledger' = ledger \/ ledger' = 0
    BY <1>9, WorldTyped DEF Idle
  <2>2. QED
    BY <1>0, <2>1 DEF Spend
<1>10. CASE UNCHANGED vars
  BY <1>10 DEF vars, Spend
<1>11. QED
  BY <1>1, <1>2, <1>3, <1>4, <1>5, <1>6, <1>7, <1>8, <1>9, <1>10 DEF Next, Maintain, Procs

(* Whatever a day's runs, crashes, retries and a midnight inside a run do, the *)
(* recorded spend of the day stays within the ceiling (createMeteredMaintenanceClient). *)
THEOREM CeilingHolds == Spec => []SpendWithinCeiling
<1>1. Init => Typed /\ Spend
  <2>1. ASSUME Init PROVE Spend
    <3>1. "maintain" \in Procs /\ Ceiling \in Nat
      BY ConstantsAssumption DEF Procs
    <3>2. ledger = 0 /\ run["maintain"] = Idle
      BY <2>1, <3>1 DEF Init
    <3>3. QED
      BY <3>1, <3>2 DEF Spend, Idle
  <2>2. QED
    BY <2>1, InitTyped
<1>2. Typed /\ Spend /\ [Next]_vars => Typed' /\ Spend'
  BY NextTyped, NextSpend
<1>3. Spend => SpendWithinCeiling
  BY DEF Spend, SpendWithinCeiling
<1>4. QED
  BY <1>1, <1>2, <1>3, PTL DEF Spec

-----------------------------------------------------------------------------
(* The marks and the receipts *)

\* A table that keeps the rows, their marks and their summaries; no other row is marked.
Keeps(table) ==
    /\ \A i \in DOMAIN rows :
          /\ i \in DOMAIN table
          /\ table[i].path = rows[i].path /\ table[i].hash = rows[i].hash
          /\ table[i].done = rows[i].done /\ table[i].excluded = rows[i].excluded
          /\ rows[i].summary => table[i].summary
    /\ \A i \in DOMAIN table : i \notin DOMAIN rows => ~table[i].done

\* Row i has the content of a candidate.
Matches(i, r, table) ==
    /\ i \in DOMAIN table
    /\ \E c \in ToSet(r.cands) : c.path = table[i].path /\ c.hash = table[i].hash

\* What a run has compiled or skipped, and what it has still to compile, are rows of
\* its candidates, and what it compiled has its summary.
Earned(r, table) ==
    /\ \A p \in r.won : \E i \in DOMAIN table :
          table[i].path = p /\ table[i].summary /\ Matches(i, r, table)
    /\ \A p \in r.skipped : \E i \in DOMAIN table : table[i].path = p /\ Matches(i, r, table)
    /\ \A k \in DOMAIN r.todo : Matches(r.todo[k], r, table)
    /\ r.pc = "publish" => table[Head(r.todo)].summary

Has(h, table) == \E i \in DOMAIN table : table[i].hash = h /\ (table[i].summary \/ table[i].excluded)

\* While no file changed since the scan, and the batch is all of it, every file is
\* refused, settled or a candidate.
Scan(r, table) ==
    r.pc # "idle" =>
        /\ r.seen <= edits
        /\ r.seen = edits /\ r.eligible <= Len(r.cands) =>
              \A f \in Mounted : disk[f] # None =>
                  \/ disk[f] \in Blocked
                  \/ Has(disk[f], table)
                  \/ \E c \in ToSet(r.cands) : c.hash = disk[f]

Honest == Earned(run["maintain"], rows) /\ Scan(run["maintain"], rows)

\* What is covered is what has a row in the table.
LEMMA CoveredIs == \A h : Covered(h) <=> Has(h, rows)
BY DEF Covered, Has, ToSet

\* Growing keeps; a summary keeps; what keeps leaves nothing unaccounted.
LEMMA GrownKeeps == ASSUME Typed, NEW table, Grown(table) PROVE Keeps(table)
BY DEF Grown, Keeps

LEMMA SummarisedKeeps == ASSUME Typed, NEW i \in DOMAIN rows PROVE Keeps(Summarised(i))
BY SummarisedIs DEF Keeps

LEMMA KeptMarks == ASSUME Keeps(rows') PROVE Unaccounted(rows') \subseteq Unaccounted(rows)
BY DEF Keeps, Unaccounted

\* What a run has earned, and what its scan saw, outlive a table that keeps.
LEMMA KeptEarned ==
    ASSUME NEW r \in Command, Fit(r, rows), Earned(r, rows), NEW table, Keeps(table)
    PROVE  Earned(r, table)
<1>1. ASSUME NEW i, Matches(i, r, rows) PROVE Matches(i, r, table)
  BY <1>1 DEF Matches, Keeps
<1>2. \A p \in r.won : \E i \in DOMAIN table :
         table[i].path = p /\ table[i].summary /\ Matches(i, r, table)
  BY <1>1 DEF Earned, Keeps
<1>3. \A p \in r.skipped : \E i \in DOMAIN table : table[i].path = p /\ Matches(i, r, table)
  BY <1>1 DEF Earned, Keeps
<1>4. \A k \in DOMAIN r.todo : Matches(r.todo[k], r, table)
  BY <1>1 DEF Earned
<1>5. ASSUME r.pc = "publish" PROVE table[Head(r.todo)].summary
  <2>1. r.todo \in Seq(Nat) /\ r.todo # <<>>
    BY <1>5 DEF Command, Fit
  <2>2. Head(r.todo) = r.todo[1] /\ 1 \in DOMAIN r.todo
    BY <2>1
  <2>3. Head(r.todo) \in DOMAIN rows
    BY <2>2 DEF Fit
  <2>4. QED
    BY <1>5, <2>3 DEF Earned, Keeps
<1>6. QED
  BY <1>2, <1>3, <1>4, <1>5 DEF Earned

LEMMA KeptScan ==
    ASSUME NEW r, NEW table, Keeps(table), Scan(r, rows)
    PROVE  Scan(r, table)
<1>1. \A h : Has(h, rows) => Has(h, table)
  BY DEF Has, Keeps
<1>2. QED
  BY <1>1 DEF Scan

\* A step of summarising.
LEMMA WorksEarned ==
    ASSUME Typed, NEW x, Works("maintain", x), Earned(run["maintain"], rows)
    PROVE  Earned(x, rows') /\ Keeps(rows')
<1> DEFINE r == run["maintain"]
           i == Head(r.todo)
<1>0. "maintain" \in Procs
  BY DEF Procs
<1>1. r \in Command /\ Fit(r, rows) /\ r.todo # <<>> /\ r.todo \in Seq(Nat)
  BY <1>0 DEF Typed, Works, Command
<1>2. /\ i \in DOMAIN rows /\ 1 \in DOMAIN r.todo /\ i = r.todo[1]
      /\ Current("maintain").path = rows[i].path
  BY <1>0, <1>1, CurrentIs
<1>3. Keeps(rows')
  <2>1. rows' = rows \/ rows' = Summarised(i)
    BY DEF Works
  <2>2. QED
    BY <1>2, <2>1, RowsGrown, GrownKeeps, SummarisedKeeps
<1>4. Earned(r, rows')
  BY <1>1, <1>3, KeptEarned
<1>5. x.cands = r.cands
  BY DEF Works, Same
<1>6. \A j : Matches(j, x, rows') <=> Matches(j, r, rows')
  BY <1>5 DEF Matches
<1>7. Matches(i, r, rows') /\ rows'[i].path = Current("maintain").path /\ i \in DOMAIN rows'
  BY <1>2, <1>3, <1>4 DEF Earned, Keeps
<1>8. ASSUME NEW p \in x.won
      PROVE  \E j \in DOMAIN rows' : rows'[j].path = p /\ rows'[j].summary /\ Matches(j, x, rows')
  <2>1. CASE p \in r.won
    BY <1>4, <1>6, <2>1 DEF Earned
  <2>2. CASE p \notin r.won
    <3>1. r.pc = "publish" /\ p = Current("maintain").path
      BY <1>8, <2>2 DEF Works
    <3>2. rows'[i].summary
      BY <1>4, <3>1 DEF Earned
    <3>3. QED
      BY <1>6, <1>7, <3>1, <3>2
  <2>3. QED
    BY <2>1, <2>2
<1>9. ASSUME NEW p \in x.skipped
      PROVE  \E j \in DOMAIN rows' : rows'[j].path = p /\ Matches(j, x, rows')
  <2>1. CASE p \in r.skipped
    BY <1>4, <1>6, <2>1 DEF Earned
  <2>2. CASE p \notin r.skipped
    <3>1. p = Current("maintain").path
      BY <1>9, <2>2 DEF Works
    <3>2. QED
      BY <1>6, <1>7, <3>1
  <2>3. QED
    BY <2>1, <2>2
<1>10. ASSUME NEW k \in DOMAIN x.todo PROVE Matches(x.todo[k], x, rows')
  <2>1. CASE x.todo = r.todo
    BY <1>4, <1>6, <1>10, <2>1 DEF Earned
  <2>2. CASE x.todo = Tail(r.todo)
    <3>1. k + 1 \in DOMAIN r.todo /\ x.todo[k] = r.todo[k + 1]
      BY <1>1, <1>10, <2>2
    <3>2. QED
      BY <1>4, <1>6, <3>1 DEF Earned
  <2>3. QED
    BY <2>1, <2>2 DEF Works
<1>11. ASSUME x.pc = "publish" PROVE rows'[Head(x.todo)].summary
  <2>1. x.todo = r.todo /\ rows' = Summarised(i)
    BY <1>11 DEF Works
  <2>2. Summarised(i)[i].summary = TRUE
    BY <1>2, SummarisedIs
  <2>3. QED
    BY <2>1, <2>2
<1>12. QED
  BY <1>3, <1>8, <1>9, <1>10, <1>11 DEF Earned

\* A scan misses only what is settled or known.
LEMMA ScanMisses ==
    ASSUME Typed, NEW f \in Present, disk[f] \notin Blocked, \A c : ~Scanned(f, c)
    PROVE  Has(disk[f], rows)
<1>1. CASE Tracked(f) # 0
  <2>1. Tracked(f) \in DOMAIN rows
    BY <1>1, TrackedIs
  <2>2. TrackedCandidate(f) = {}
    BY <1>1 DEF Scanned
  <2>3. Settled(rows[Tracked(f)], disk[f])
    BY <2>2 DEF TrackedCandidate
  <2>4. QED
    BY <2>1, <2>3 DEF Settled, Has
<1>2. CASE Tracked(f) = 0
  <2> DEFINE same == {r \in ToSet(rows) : r.hash = disk[f]}
             pending == {r \in same : raw[r.path] # None}
             new == [file |-> f, path |-> f, hash |-> disk[f], kind |-> "new", copy |-> TRUE]
             old == [file |-> f, path |-> (CHOOSE r \in pending : TRUE).path,
                     hash |-> disk[f], kind |-> "pending", copy |-> FALSE]
  <2>1. UntrackedCandidate(f) = IF \E r \in same : r.summary THEN {}
                                ELSE IF pending = {} THEN {new} ELSE {old}
    BY DEF UntrackedCandidate
  <2>2. UntrackedCandidate(f) = {}
    BY <1>2 DEF Scanned
  <2>3. \E r \in same : r.summary
    <3> HIDE DEF same, pending, new, old
    <3>1. QED
      BY <2>1, <2>2
  <2>4. QED
    BY <2>3 DEF Has, ToSet
<1>3. QED
  BY <1>1, <1>2

\* A batch that starts is honest.
LEMMA StartHonest ==
    ASSUME Typed, MaintainStart
    PROVE  Earned(Starting, rows) /\ Scan(Starting, rows)
<1>1. /\ Starting.pc = "copy" /\ Starting.cands = Selected
      /\ Starting.eligible = Cardinality(Candidates) /\ Starting.todo = <<>>
      /\ Starting.won = {} /\ Starting.skipped = {} /\ Starting.seen = edits
  BY StartingIs
<1>2. Earned(Starting, rows)
  BY <1>1 DEF Earned
<1>3. ASSUME Cardinality(Candidates) <= Len(Selected), NEW f \in Mounted, disk[f] # None
      PROVE  \/ disk[f] \in Blocked
             \/ Has(disk[f], rows)
             \/ \E c \in ToSet(Selected) : c.hash = disk[f]
  <2>1. f \in Present
    BY <1>3 DEF MaintainStart, Present
  <2>2. CASE \E c : Scanned(f, c)
    <3>1. PICK c : Scanned(f, c)
      BY <2>2
    <3>2. c \in Candidates /\ c.hash = disk[f]
      BY <3>1, CandidatesScanned, ScannedIs
    <3>3. c \in ToSet(Selected)
      BY <1>3, <3>2, SelectedIs
    <3>4. QED
      BY <3>2, <3>3
  <2>3. CASE \A c : ~Scanned(f, c)
    BY <2>1, <2>3, ScanMisses
  <2>4. QED
    BY <2>2, <2>3
<1>4. edits <= edits
  BY DEF Typed
<1>5. QED
  BY <1>1, <1>2, <1>3, <1>4 DEF Scan

\* With one content per path, a completed candidate has its row, and unless validation
\* skipped it, its summary.
LEMMA CompletedIs ==
    ASSUME Typed, OnePath, Earned(run["maintain"], rows),
           NEW n \in DOMAIN run["maintain"].cands,
           Completed(run["maintain"], run["maintain"].cands[n])
    PROVE  LET c == run["maintain"].cands[n]
               i == MarkedRow(c)
           IN  /\ i \in DOMAIN rows /\ rows[i].path = c.path /\ rows[i].hash = c.hash
               /\ c.path \in run["maintain"].skipped \/ rows[i].summary
<1> DEFINE r == run["maintain"]
           c == r.cands[n]
<1>1. ASSUME NEW i \in DOMAIN rows, rows[i].path = c.path, Matches(i, r, rows)
      PROVE  MarkedRow(c) = i /\ rows[i].hash = c.hash
  <2>1. PICK k \in DOMAIN r.cands : r.cands[k].path = rows[i].path /\ r.cands[k].hash = rows[i].hash
    BY <1>1 DEF Matches, ToSet
  <2>2. k \in DOMAIN r.cands /\ n \in DOMAIN r.cands /\ r.cands[k].path = r.cands[n].path
    BY <1>1, <2>1
  <2> HIDE DEF r
  <2>3. \A j, m \in DOMAIN r.cands : r.cands[j].path = r.cands[m].path => r.cands[j].hash = r.cands[m].hash
    BY DEF OnePath, r
  <2>4. r.cands[k].hash = c.hash
    BY <2>2, <2>3
  <2>5. rows[i].hash = c.hash
    BY <2>1, <2>4
  <2>6. RowOf(c.path, c.hash) = i
    BY <1>1, <2>5, RowOfIs
  <2>7. QED
    BY <2>5, <2>6 DEF MarkedRow
<1>2. CASE c.path \in r.won
  <2>1. PICK i \in DOMAIN rows : rows[i].path = c.path /\ rows[i].summary /\ Matches(i, r, rows)
    BY <1>2 DEF Earned
  <2>2. QED
    BY <1>1, <2>1
<1>3. CASE c.path \in r.skipped
  <2>1. PICK i \in DOMAIN rows : rows[i].path = c.path /\ Matches(i, r, rows)
    BY <1>3 DEF Earned
  <2>2. QED
    BY <1>1, <1>3, <2>1
<1>4. CASE HasCurrentSummary(c)
  <2>1. RowOf(c.path, c.hash) # 0 /\ rows[RowOf(c.path, c.hash)].summary
    BY <1>4 DEF HasCurrentSummary
  <2>2. QED
    BY <2>1, RowOfIs DEF MarkedRow
<1>5. QED
  BY <1>2, <1>3, <1>4 DEF Completed

\* A row that is marked at the end has its summary or its exclusion.
LEMMA MarkAccounts ==
    ASSUME Typed, OnePath, Earned(run["maintain"], rows), NEW i \in DOMAIN rows
    PROVE  LET r == run["maintain"]
               t == Mark(rows, r)
           IN  /\ t[i].hash = rows[i].hash
               /\ \/ /\ t[i] = rows[i]
                     /\ \A n \in DOMAIN r.cands : ~(Completed(r, r.cands[n]) /\ MarkedRow(r.cands[n]) = i)
                  \/ t[i].summary \/ t[i].excluded
<1> DEFINE r == run["maintain"]
           t == Mark(rows, r)
<1>1. r \in Command
  BY DEF Typed, Procs
<1>2. /\ t[i].hash = rows[i].hash /\ t[i].summary = rows[i].summary
      /\ \/ /\ t[i] = rows[i]
            /\ \A n \in DOMAIN r.cands : ~(Completed(r, r.cands[n]) /\ MarkedRow(r.cands[n]) = i)
         \/ \E n \in DOMAIN r.cands :
               /\ Completed(r, r.cands[n]) /\ MarkedRow(r.cands[n]) = i
               /\ t[i].excluded = (r.cands[n].path \in r.skipped)
  BY <1>1, MarkIs
<1>3. ASSUME NEW n \in DOMAIN r.cands, Completed(r, r.cands[n]), MarkedRow(r.cands[n]) = i,
             t[i].excluded = (r.cands[n].path \in r.skipped)
      PROVE  t[i].summary \/ t[i].excluded
  <2>1. r.cands[n].path \in r.skipped \/ rows[i].summary
    BY <1>3, CompletedIs
  <2>2. QED
    BY <1>2, <1>3, <2>1
<1>4. QED
  BY <1>2, <1>3

\* The end leaves no row unaccounted.
LEMMA FinishMarks ==
    ASSUME Typed, Honest, MaintainFinish, OnePath
    PROVE  Unaccounted(rows') \subseteq Unaccounted(rows)
<1>1. rows' = Mark(rows, run["maintain"]) /\ DOMAIN rows' = DOMAIN rows
  <2>1. run["maintain"] \in Command
    BY DEF Typed, Procs
  <2>2. QED
    BY <2>1, FinishTyped, MarkIs
<1>2. ASSUME NEW i \in DOMAIN rows, i \in Unaccounted(rows') PROVE i \in Unaccounted(rows)
  <2>1. ~rows'[i].summary /\ ~rows'[i].excluded /\ rows'[i].done
    BY <1>2 DEF Unaccounted
  <2>2. rows'[i] = rows[i]
    BY <1>1, <2>1, MarkAccounts DEF Honest
  <2>3. QED
    BY <2>1, <2>2 DEF Unaccounted
<1>3. QED
  BY <1>1, <1>2 DEF Unaccounted

\* "compiled" of a batch that was everything: every file is accounted for.
LEMMA FinishCovers ==
    ASSUME Typed, Honest, MaintainFinish, OnePath, latest'.status = "compiled",
           run["maintain"].seen = edits,
           NEW f \in Present, disk[f] \notin Blocked
    PROVE  Has(disk[f], rows')
<1> DEFINE r == run["maintain"]
           done == {n \in DOMAIN r.cands : Completed(r, r.cands[n])}
<1>1. r \in Command /\ r.cands \in Seq(Candidate) /\ r.eligible \in Nat
  BY DEF Typed, Procs, Command
<1>2. rows' = Mark(rows, r) /\ DOMAIN rows' = DOMAIN rows
  BY <1>1, FinishTyped, MarkIs
<1>3. DOMAIN r.cands = 1..Len(r.cands) /\ Len(r.cands) \in Nat
  BY <1>1
<1>4. IsFiniteSet(DOMAIN r.cands) /\ Cardinality(DOMAIN r.cands) = Len(r.cands)
  <2>1. 1 \in Int /\ Len(r.cands) \in Int
    BY <1>3
  <2>2. Cardinality(1..Len(r.cands)) = IF 1 > Len(r.cands) THEN 0 ELSE Len(r.cands) - 1 + 1
    BY <2>1, FS_Interval
  <2>3. IsFiniteSet(1..Len(r.cands))
    BY <2>1, FS_Interval
  <2>4. QED
    BY <1>3, <2>2, <2>3
<1>5. /\ IsFiniteSet(done) /\ Cardinality(done) <= Cardinality(DOMAIN r.cands)
      /\ Cardinality(DOMAIN r.cands) = Cardinality(done) => DOMAIN r.cands = done
  BY <1>4, FS_Subset
<1>6. Cardinality(done) \in Nat
  BY <1>5, FS_CardinalityType
<1>7. latest'.status = IF Cardinality(done) < Len(r.cands) THEN "failure"
                       ELSE IF Cardinality(done) < r.eligible THEN "partial" ELSE "compiled"
  BY DEF MaintainFinish, Receipt
<1> HIDE DEF done
<1>8. Len(r.cands) <= Cardinality(done) /\ r.eligible <= Cardinality(done)
  BY <1>1, <1>3, <1>6, <1>7
<1>9. done = DOMAIN r.cands /\ r.eligible <= Len(r.cands)
  BY <1>1, <1>3, <1>4, <1>5, <1>6, <1>8
<1>10. r.pc # "idle"
  BY DEF MaintainFinish
<1>11. \/ Has(disk[f], rows)
       \/ \E c \in ToSet(r.cands) : c.hash = disk[f]
  <2>1. f \in Mounted /\ disk[f] # None
    BY DEF Present
  <2>2. QED
    BY <1>9, <1>10, <2>1 DEF Honest, Scan
<1>12. CASE Has(disk[f], rows)
  <2>1. PICK i \in DOMAIN rows : rows[i].hash = disk[f] /\ (rows[i].summary \/ rows[i].excluded)
    BY <1>12 DEF Has
  <2>2. rows'[i].hash = disk[f] /\ (rows'[i].summary \/ rows'[i].excluded)
    BY <1>2, <2>1, MarkAccounts DEF Honest
  <2>3. QED
    BY <1>2, <2>2 DEF Has
<1>13. CASE \E c \in ToSet(r.cands) : c.hash = disk[f]
  <2>1. PICK n \in DOMAIN r.cands : r.cands[n].hash = disk[f]
    BY <1>13 DEF ToSet
  <2>2. Completed(r, r.cands[n])
    BY <1>9, <2>1 DEF done
  <2> DEFINE i == MarkedRow(r.cands[n])
  <2>3. i \in DOMAIN rows /\ rows[i].hash = disk[f]
    BY <2>1, <2>2, CompletedIs DEF Honest
  <2>4. rows'[i].hash = rows[i].hash /\ (rows'[i].summary \/ rows'[i].excluded)
    BY <1>2, <2>2, <2>3, MarkAccounts DEF Honest
  <2>5. QED
    BY <1>2, <2>3, <2>4 DEF Has
<1>14. QED
  BY <1>11, <1>12, <1>13

\* All other steps keep the marks.
LEMMA OthersKeep ==
    ASSUME Typed, [Next]_vars, ~MaintainFinish
    PROVE  Keeps(rows')
<1>1. CASE \/ MaintainRefused \/ MaintainFailsClosed \/ MaintainNoop \/ MaintainScanOnly
           \/ MaintainDeferred \/ MaintainStart \/ MaintainCopy \/ MaintainThrows \/ World
           \/ UNCHANGED vars
  <2>1. rows' = rows
    BY <1>1, ReceiptsTyped, StartTyped, CopyTyped, ThrowsTyped, WorldTyped DEF vars
  <2>2. QED
    BY <2>1, RowsGrown, GrownKeeps
<1>2. CASE MaintainRegister
  BY <1>2, RegisterTyped, GrownKeeps DEF Registered
<1>3. CASE \E q \in Procs : Summarise(q)
  <2>1. PICK q \in Procs : Summarise(q)
    BY <1>3
  <2>2. PICK x : Works(q, x)
    BY <2>1, SummariseWorks
  <2>3. Head(run[q].todo) \in DOMAIN rows
    BY <2>2, CurrentIs DEF Works
  <2>4. rows' = rows \/ rows' = Summarised(Head(run[q].todo))
    BY <2>2 DEF Works
  <2>5. QED
    BY <2>3, <2>4, RowsGrown, GrownKeeps, SummarisedKeeps
<1>4. CASE Cli
  BY <1>4, CliAside, GrownKeeps DEF Aside
<1>5. QED
  BY <1>1, <1>2, <1>3, <1>4 DEF Next, Maintain

\* Of an idle run there is nothing to say.
LEMMA IdleHonest == ASSUME NEW t PROVE Earned(Idle, t) /\ Scan(Idle, t)
<1>1. Idle.pc = "idle" /\ Idle.todo = <<>> /\ Idle.won = {} /\ Idle.skipped = {}
  BY DEF Idle
<1>2. QED
  BY <1>1 DEF Earned, Scan

\* A run that goes on in a table that keeps has scanned what it had.
LEMMA ScanKept ==
    ASSUME Typed, Honest, Keeps(rows'), disk' = disk, edits' = edits,
           run'["maintain"].pc # "idle" =>
               /\ run["maintain"].pc # "idle"
               /\ run'["maintain"].seen = run["maintain"].seen
               /\ run'["maintain"].eligible = run["maintain"].eligible
               /\ run'["maintain"].cands = run["maintain"].cands
    PROVE  Scan(run["maintain"], rows)'
<1>1. Scan(run["maintain"], rows')
  BY KeptScan DEF Honest
<1>2. QED
  BY <1>1 DEF Scan, Has

\* Every step keeps the run honest.
LEMMA NextHonest == ASSUME Typed, Honest, [Next]_vars PROVE Honest'
<1> DEFINE r == run["maintain"]
<1>0. "maintain" \in Procs /\ "cli" \in Procs
  BY DEF Procs
<1>1. r \in Command /\ Fit(r, rows) /\ edits \in Nat /\ Earned(r, rows)
  BY <1>0 DEF Typed, Honest
<1>2. ASSUME run'["maintain"] = Idle PROVE Honest'
  <2>1. Idle.pc = "idle"
    BY DEF Idle
  <2>2. Scan(run["maintain"], rows)'
    BY <1>2, <2>1 DEF Scan
  <2>3. Earned(run'["maintain"], rows')
    BY <1>2, IdleHonest
  <2>4. QED
    BY <2>2, <2>3 DEF Honest
<1>3. ASSUME Keeps(rows'), run'["maintain"] = run["maintain"],
             (disk' = disk /\ edits' = edits) \/ edits' = edits + 1
      PROVE  Honest'
  <2>1. Earned(run'["maintain"], rows')
    BY <1>1, <1>3, KeptEarned
  <2>2. CASE disk' = disk /\ edits' = edits
    BY <1>3, <2>1, <2>2, ScanKept DEF Honest
  <2>3. CASE edits' = edits + 1
    <3>1. r.seen \in Nat /\ (r.pc # "idle" => r.seen <= edits)
      BY <1>1 DEF Command, Honest, Scan
    <3>2. r.pc # "idle" => r.seen <= edits' /\ r.seen # edits'
      BY <1>1, <2>3, <3>1
    <3>3. Scan(run["maintain"], rows)'
      BY <1>3, <3>2 DEF Scan
    <3>4. QED
      BY <2>1, <3>3 DEF Honest
  <2>4. QED
    BY <1>3, <2>2, <2>3
<1>4. CASE \/ MaintainRefused \/ MaintainFailsClosed \/ MaintainNoop \/ MaintainScanOnly
           \/ MaintainDeferred
  BY <1>3, <1>4, ReceiptsTyped, RowsGrown, GrownKeeps DEF env
<1>5. CASE MaintainStart
  <2>1. run'["maintain"] = Starting /\ rows' = rows /\ disk' = disk /\ edits' = edits
    BY <1>0, <1>5, StartTyped, BecomeIs DEF env
  <2>2. Earned(Starting, rows) /\ Scan(Starting, rows)
    BY <1>5, StartHonest
  <2> DEFINE x == Starting
  <2>3. Earned(x, rows) /\ Scan(x, rows) /\ run'["maintain"] = x
    BY <2>1, <2>2
  <2> HIDE DEF x
  <2>4. Scan(run["maintain"], rows)'
    BY <2>1, <2>3 DEF Scan, Has
  <2>5. QED
    BY <2>1, <2>3, <2>4 DEF Honest
<1>6. CASE MaintainCopy
  <2> DEFINE x == [r EXCEPT !.pc = "register"]
  <2>1. run'["maintain"] = x /\ rows' = rows /\ disk' = disk /\ edits' = edits
    BY <1>0, <1>6, CopyTyped, BecomeIs DEF env
  <2>2. /\ x.seen = r.seen /\ x.eligible = r.eligible /\ x.cands = r.cands /\ x.todo = r.todo
        /\ x.won = r.won /\ x.skipped = r.skipped /\ x.pc = "register" /\ r.pc # "idle"
    BY <1>1, <1>6 DEF Command, MaintainCopy
  <2> HIDE DEF x
  <2>3. Earned(x, rows)
    BY <1>1, <2>2 DEF Earned, Matches
  <2>4. Scan(run["maintain"], rows)'
    BY <2>1, <2>2, RowsGrown, GrownKeeps, ScanKept
  <2>5. QED
    BY <2>1, <2>3, <2>4 DEF Honest
<1>7. CASE MaintainRegister
  <2>1. PICK x : Registered(x)
    BY <1>7, RegisterTyped
  <2>2. run'["maintain"] = x /\ disk' = disk /\ edits' = edits /\ Keeps(rows')
    BY <1>0, <2>1, BecomeIs, GrownKeeps DEF Registered, env
  <2>3. CASE x = Idle
    BY <1>2, <2>2, <2>3
  <2>4. CASE x # Idle
    <3>1. /\ Same(x, r) /\ x.pc = "ask" /\ x.won = r.won /\ x.skipped = r.skipped
          /\ \A k \in DOMAIN x.todo : Matches(x.todo[k], x, rows')
      BY <2>1, <2>4 DEF Registered, Matches
    <3>2. Earned(r, rows')
      BY <1>1, <2>2, KeptEarned
    <3>3. Earned(x, rows')
      BY <3>1, <3>2 DEF Earned, Matches, Same
    <3>4. Scan(run["maintain"], rows)'
      BY <1>7, <2>2, <3>1, ScanKept DEF Same, MaintainRegister
    <3>5. QED
      BY <2>2, <3>3, <3>4 DEF Honest
  <2>5. QED
    BY <2>3, <2>4
<1>8. CASE MaintainThrows \/ MaintainFinish
  BY <1>0, <1>2, <1>8, ThrowsTyped, FinishTyped, BecomeIs
<1>9. CASE Summarise("maintain")
  <2>1. PICK x : Works("maintain", x)
    BY <1>0, <1>9, SummariseWorks
  <2>2. run'["maintain"] = x /\ disk' = disk /\ edits' = edits /\ Same(x, r) /\ r.pc # "idle"
    BY <1>0, <2>1, BecomeIs DEF Works
  <2>3. Earned(x, rows') /\ Keeps(rows')
    BY <1>1, <2>1, WorksEarned
  <2>4. Scan(run["maintain"], rows)'
    BY <2>2, <2>3, ScanKept DEF Same
  <2>5. QED
    BY <2>2, <2>3, <2>4 DEF Honest
<1>10. CASE Summarise("cli")
  <2>1. PICK x : Works("cli", x)
    BY <1>0, <1>10, SummariseWorks
  <2>2. run'["maintain"] = run["maintain"] /\ disk' = disk /\ edits' = edits
    BY <1>0, <2>1, BecomeIs DEF Works
  <2>3. Keeps(rows')
    <3>1. ~MaintainFinish
      <4>1. CASE MaintainFinish
        <5>1. run'["maintain"] = Idle /\ run["maintain"].pc = "ask"
          BY <1>0, <4>1, FinishTyped, BecomeIs DEF MaintainFinish
        <5>2. QED
          BY <2>2, <5>1 DEF Idle
      <4>2. QED
        BY <4>1
    <3>2. QED
      BY <3>1, OthersKeep
  <2>4. QED
    BY <1>3, <2>2, <2>3
<1>11. CASE Cli
  <2>1. Aside
    BY <1>11, CliAside
  <2>2. QED
    BY <1>3, <2>1, GrownKeeps DEF Aside
<1>12. CASE World
  <2>1. Keeps(rows')
    BY <1>12, WorldTyped, RowsGrown, GrownKeeps
  <2>2. QED
    BY <1>2, <1>3, <1>12, <2>1, WorldTyped
<1>13. CASE UNCHANGED vars
  <2>1. Keeps(rows')
    BY <1>13, RowsGrown, GrownKeeps DEF vars
  <2>2. QED
    BY <1>3, <1>13, <2>1 DEF vars
<1>14. QED
  BY <1>4, <1>5, <1>6, <1>7, <1>8, <1>9, <1>10, <1>11, <1>12, <1>13
     DEF Next, Maintain, Procs

\* The inductive invariant.
LEMMA SpecHonest == Spec => [](Typed /\ Honest)
<1>1. Init => Typed /\ Honest
  <2>1. ASSUME Init PROVE Honest
    <3>1. run["maintain"] = Idle
      BY <2>1 DEF Init, Procs
    <3>2. QED
      BY <3>1, IdleHonest DEF Honest
  <2>2. QED
    BY <2>1, InitTyped
<1>2. Typed /\ Honest /\ [Next]_vars => Typed' /\ Honest'
  BY NextTyped, NextHonest
<1>3. QED
  BY <1>1, <1>2, PTL DEF Spec

(* With one content per path in the batch, no step leaves a row marked complete that *)
(* has neither a summary nor an exclusion (markMaintenanceComplete, of what           *)
(* runMaintenance takes for compiled).                                                *)
THEOREM MarksAreEarned == Spec => MarksAreAccounted
<1>1. Typed /\ Honest /\ [Next]_vars => [OnePath => Unaccounted(rows') \subseteq Unaccounted(rows)]_vars
  <2>1. ASSUME Typed, Honest, [Next]_vars, OnePath
        PROVE  Unaccounted(rows') \subseteq Unaccounted(rows)
    <3>1. CASE MaintainFinish
      BY <2>1, <3>1, FinishMarks
    <3>2. CASE ~MaintainFinish
      BY <2>1, <3>2, OthersKeep, KeptMarks
    <3>3. QED
      BY <3>1, <3>2
  <2>2. QED
    BY <2>1
<1>2. QED
  BY <1>1, SpecHonest, PTL DEF Spec, MarksAreAccounted

(* With one content per path in the batch, a receipt that says "compiled" of an       *)
(* undisturbed run, or "verified_noop", is true: every mounted file is refused by the *)
(* disclosure scan, or its content has a summary or an exclusion (runMaintenance).    *)
THEOREM ReceiptsAreHonest == Spec => HonestReceipt
<1>1. Typed /\ Honest /\ [Next]_vars => [Claims /\ OnePath => AllCovered]_vars
  <2>1. ASSUME Typed, Honest, [Next]_vars, Claims, OnePath PROVE AllCovered
    <3>1. ASSUME NEW f \in Present, disk[f] \notin Blocked PROVE Covered(disk[f])'
      <4>1. Has(disk[f], rows') /\ disk' = disk
        <5>1. CASE MaintainNoop
          <6>1. \A c : ~Scanned(f, c)
            BY <5>1, CandidatesScanned DEF MaintainNoop, Present
          <6>2. rows' = rows /\ disk' = disk
            BY <2>1, <5>1, ReceiptsTyped DEF env
          <6>3. QED
            BY <2>1, <3>1, <6>1, <6>2, ScanMisses
        <5>2. CASE /\ MaintainFinish /\ latest'.status = "compiled"
                   /\ run["maintain"].seen = edits
          <6>1. disk' = disk
            BY <2>1, <5>2, FinishTyped DEF env
          <6>2. QED
            BY <2>1, <3>1, <5>2, <6>1, FinishCovers
        <5>3. QED
          BY <2>1, <5>1, <5>2 DEF Claims
      <4>2. QED
        BY <4>1 DEF Covered, Has, ToSet
    <3>2. QED
      BY <3>1 DEF AllCovered
  <2>2. QED
    BY <2>1
<1>2. QED
  BY <1>1, SpecHonest, PTL DEF Spec, HonestReceipt

-----------------------------------------------------------------------------
(* The write lock *)

\* A child has the lock exactly while it runs cat, a script while it is inside
\* (if there is a flock).
Ownership ==
    /\ \A c \in Callers : lock = c <=> call[c].child = "cat"
    /\ flock => \A o \in Others : lock = o <=> other[o] = "critical"

\* A call before the spawn has no child, one after it has; an unlocked callback
\* runs only on a machine without flock; only an exit is seen, and the stdin of a
\* child that lives on is closed when its call ends.
Spawned ==
    \A c \in Callers :
        /\ call[c].pc \in {"idle", "degraded"} => call[c].child = "none"
        /\ call[c].pc \in {"pending", "expired", "critical"} => call[c].child # "none"
        /\ call[c].pc = "degraded" => ~flock
        /\ call[c].exitSeen => call[c].child = "exited"
        /\ call[c].pc \in {"over", "dead"} /\ call[c].child \in {"waiting", "cat"} => ~call[c].stdin

LockInv == LockTypeOK /\ Ownership /\ Spawned

LEMMA InitLockInv == LockInit => LockInv
  BY LockAssumption DEF LockInit, LockInv, LockTypeOK, Ownership, Spawned, NoCall, Call

\* The steps of one call change its own record, and its lock with its child.
LEMMA CallStep ==
  ASSUME LockInv, NEW c \in Callers, UNCHANGED <<flock, other>>,
         kills' \in Nat,
         NEW r \in Call, call' = [call EXCEPT ![c] = r],
         \/ lock' = lock /\ (r.child = "cat" <=> call[c].child = "cat")
         \/ lock = Nil /\ lock' = c /\ r.child = "cat"
         \/ call[c].child = "cat" /\ lock' = Nil /\ r.child # "cat",
         r.pc \in {"idle", "degraded"} => r.child = "none",
         r.pc \in {"pending", "expired", "critical"} => r.child # "none",
         r.pc = "degraded" => ~flock,
         r.exitSeen => r.child = "exited",
         r.pc \in {"over", "dead"} /\ r.child \in {"waiting", "cat"} => ~r.stdin
  PROVE  LockInv'
<1>1. LockTypeOK'
  BY LockAssumption DEF LockInv, LockTypeOK
<1>2. call'[c] = r /\ \A d \in Callers : d # c => call'[d] = call[d]
  BY DEF LockInv, LockTypeOK
<1>3. Ownership'
  BY <1>2, LockAssumption DEF LockInv, LockTypeOK, Ownership
<1>4. Spawned'
  BY <1>2 DEF LockInv, Spawned
<1> QED  BY <1>1, <1>3, <1>4 DEF LockInv

\* The steps of the Node process.
LEMMA ProcessLockInv ==
  ASSUME LockInv, NEW c \in Callers,
         \/ Degrade(c) \/ Spawn(c) \/ SpawnFails(c) \/ Kill(c) \/ Again(c) \/ CallerStep(c)
  PROVE  LockInv'
<1> USE DEF LockInv, LockTypeOK, Call
<1>0. call[c] \in Call /\ Spawned
  OBVIOUS
<1>1. CASE Degrade(c)
  <2> DEFINE r == IF c \in Required THEN [NoCall EXCEPT !.pc = "over", !.result = "error"]
                                    ELSE [NoCall EXCEPT !.pc = "degraded"]
  <2>1. r \in Call /\ r.child = "none" /\ r.pc \in {"over", "degraded"} /\ ~r.exitSeen
    BY DEF NoCall
  <2>2. call' = [call EXCEPT ![c] = r] /\ UNCHANGED <<flock, lock, other, kills>> /\ ~flock
    BY <1>1 DEF Degrade
  <2>3. call[c].child = "none"
    BY <1>0, <1>1 DEF Degrade, Spawned
  <2> HIDE DEF r
  <2> QED  BY <1>0, <2>1, <2>2, <2>3, CallStep DEF Spawned
<1>2. CASE Spawn(c)
  <2> DEFINE r == [NoCall EXCEPT !.pc = "pending", !.child = "waiting", !.stdin = TRUE]
  <2>1. r \in Call /\ r.child = "waiting" /\ r.pc = "pending" /\ ~r.exitSeen
    BY DEF NoCall
  <2>2. call' = [call EXCEPT ![c] = r] /\ UNCHANGED <<flock, lock, other, kills>>
    BY <1>2 DEF Spawn
  <2>3. call[c].child = "none"
    BY <1>0, <1>2 DEF Spawn, Spawned
  <2> HIDE DEF r
  <2> QED  BY <1>0, <2>1, <2>2, <2>3, CallStep DEF Spawned
<1>3. CASE SpawnFails(c)
  <2> DEFINE r == [NoCall EXCEPT !.pc = "over", !.result = "error"]
  <2>1. r \in Call /\ r.child = "none" /\ r.pc = "over" /\ ~r.exitSeen
    BY DEF NoCall
  <2>2. call' = [call EXCEPT ![c] = r] /\ UNCHANGED <<flock, lock, other, kills>>
    BY <1>3 DEF SpawnFails
  <2>3. call[c].child = "none"
    BY <1>0, <1>3 DEF SpawnFails, Spawned
  <2> HIDE DEF r
  <2> QED  BY <1>0, <2>1, <2>2, <2>3, CallStep DEF Spawned
<1>4. CASE Kill(c)
  <2> DEFINE r == [call[c] EXCEPT !.pc = "dead", !.stdin = FALSE]
  <2>1. r \in Call /\ r.child = call[c].child /\ r.pc = "dead" /\ ~r.stdin
        /\ r.exitSeen = call[c].exitSeen
    BY <1>0
  <2>2. call' = [call EXCEPT ![c] = r] /\ UNCHANGED <<flock, lock, other>> /\ kills' \in Nat
    BY <1>4 DEF Kill
  <2> HIDE DEF r
  <2> QED  BY <1>0, <2>1, <2>2, CallStep DEF Spawned
<1>5. CASE Again(c)
  <2>1. NoCall \in Call /\ NoCall.child = "none" /\ NoCall.pc = "idle" /\ ~NoCall.exitSeen
    BY DEF NoCall
  <2>2. call' = [call EXCEPT ![c] = NoCall] /\ UNCHANGED <<flock, lock, other, kills>>
    BY <1>5 DEF Again
  <2>3. call[c].child # "cat"
    BY <1>5 DEF Again
  <2> QED  BY <1>0, <2>1, <2>2, <2>3, CallStep DEF Spawned
<1>6. CASE Timer(c)
  <2> DEFINE r == [call[c] EXCEPT !.pc = IF call[c].exitSeen THEN "expired" ELSE "critical"]
  <2>1. r \in Call /\ r.child = call[c].child /\ r.pc \in {"expired", "critical"}
        /\ r.exitSeen = call[c].exitSeen
    BY <1>0
  <2>2. call' = [call EXCEPT ![c] = r] /\ UNCHANGED <<flock, lock, other, kills>>
    BY <1>6 DEF Timer
  <2>3. call[c].child # "none"
    BY <1>0, <1>6 DEF Timer, Spawned
  <2> HIDE DEF r
  <2> QED  BY <1>0, <2>1, <2>2, <2>3, CallStep DEF Spawned
<1>7. CASE SeeExit(c)
  <2> DEFINE r == [call[c] EXCEPT !.exitSeen = TRUE]
  <2>1. r \in Call /\ r.child = call[c].child /\ r.pc = call[c].pc /\ r.child = "exited"
    BY <1>0, <1>7 DEF SeeExit
  <2>2. call' = [call EXCEPT ![c] = r] /\ UNCHANGED <<flock, lock, other, kills>>
    BY <1>7 DEF SeeExit
  <2> HIDE DEF r
  <2> QED  BY <1>0, <2>1, <2>2, CallStep DEF Spawned
<1>8. CASE Close(c)
  <2> DEFINE r == [call[c] EXCEPT !.pc = "over", !.result = "skipped"]
  <2>1. r \in Call /\ r.child = call[c].child /\ r.pc = "over" /\ r.child = "exited"
    BY <1>0, <1>8 DEF Close, Spawned
  <2>2. call' = [call EXCEPT ![c] = r] /\ UNCHANGED <<flock, lock, other, kills>>
    BY <1>8 DEF Close
  <2> HIDE DEF r
  <2> QED  BY <1>0, <2>1, <2>2, CallStep DEF Spawned
<1>9. CASE CallbackEnds(c)
  <2>1. PICK q \in {"ran", "error"} : call' = [call EXCEPT ![c] = Concluded(call[c], q)]
    BY <1>9 DEF CallbackEnds
  <2> DEFINE r == Concluded(call[c], q)
  <2>2. r \in Call /\ r.child = call[c].child /\ r.pc = "over" /\ ~r.stdin
        /\ r.exitSeen = call[c].exitSeen
    BY <1>0 DEF Concluded
  <2>3. call' = [call EXCEPT ![c] = r] /\ UNCHANGED <<flock, lock, other, kills>>
    BY <1>9, <2>1 DEF CallbackEnds
  <2> HIDE DEF r
  <2> QED  BY <1>0, <2>2, <2>3, CallStep DEF Spawned
<1>10. CASE DegradedEnds(c)
  <2>1. PICK q \in {"unlocked", "error"} :
           call' = [call EXCEPT ![c] = [call[c] EXCEPT !.pc = "over", !.result = q]]
    BY <1>10 DEF DegradedEnds
  <2> DEFINE r == [call[c] EXCEPT !.pc = "over", !.result = q]
  <2>2. r \in Call /\ r.child = call[c].child /\ r.pc = "over" /\ r.child = "none"
        /\ r.exitSeen = call[c].exitSeen
    BY <1>0, <1>10 DEF DegradedEnds, Spawned
  <2>3. call' = [call EXCEPT ![c] = r] /\ UNCHANGED <<flock, lock, other, kills>>
    BY <1>10, <2>1 DEF DegradedEnds
  <2> HIDE DEF r
  <2> QED  BY <1>0, <2>2, <2>3, CallStep DEF Spawned
<1> QED  BY <1>1, <1>2, <1>3, <1>4, <1>5, <1>6, <1>7, <1>8, <1>9, <1>10 DEF CallerStep

\* The steps of flock and cat.
LEMMA ChildLockInv ==
  ASSUME LockInv, NEW c \in Callers, ChildStep(c)
  PROVE  LockInv'
<1>0. call[c] \in Call /\ Spawned
  BY DEF LockInv, LockTypeOK
<1> DEFINE r(s) == [call[c] EXCEPT !.child = s]
<1>1. \A s \in {"cat", "exited"} : r(s) \in Call /\ r(s).child = s /\ r(s).pc = call[c].pc
           /\ r(s).stdin = call[c].stdin /\ r(s).exitSeen = call[c].exitSeen
  BY <1>0 DEF Call
<1>2. kills \in Nat /\ call[c].child \in {"waiting", "cat"}
  BY DEF LockInv, LockTypeOK, ChildStep, ChildAcquires, ChildGivesUp, CatExits
<1>3. /\ call[c].pc \notin {"idle", "degraded"} /\ ~call[c].exitSeen
      /\ call[c].pc \in {"over", "dead"} => ~call[c].stdin
  BY <1>0, <1>2 DEF Spawned
<1>4. CASE ChildAcquires(c)
  <2>1. /\ call' = [call EXCEPT ![c] = r("cat")] /\ lock = Nil /\ lock' = c
        /\ UNCHANGED <<flock, other, kills>>
    BY <1>4 DEF ChildAcquires
  <2> HIDE DEF r
  <2> QED  BY <1>1, <1>2, <1>3, <2>1, CallStep
<1>5. CASE ChildGivesUp(c)
  <2>1. /\ call' = [call EXCEPT ![c] = r("exited")] /\ call[c].child # "cat"
        /\ UNCHANGED <<flock, lock, other, kills>>
    BY <1>5 DEF ChildGivesUp
  <2> HIDE DEF r
  <2> QED  BY <1>1, <1>2, <1>3, <2>1, CallStep
<1>6. CASE CatExits(c)
  <2>1. /\ call' = [call EXCEPT ![c] = r("exited")] /\ call[c].child = "cat" /\ lock' = Nil
        /\ UNCHANGED <<flock, other, kills>>
    BY <1>6 DEF CatExits
  <2> HIDE DEF r
  <2> QED  BY <1>1, <1>2, <1>3, <2>1, CallStep
<1> QED  BY <1>4, <1>5, <1>6, ChildStep(c) DEF ChildStep

\* The scripts.
LEMMA OtherLockInv ==
  ASSUME LockInv, NEW o \in Others, OtherStarts(o) \/ OtherStep(o)
  PROVE  LockInv'
<1>1. LockTypeOK' /\ Spawned'
  BY DEF LockInv, LockTypeOK, Spawned, OtherStarts, OtherStep, OtherAcquires, OtherGivesUp, OtherEnds
<1>2. Ownership'
  BY LockAssumption
  DEF LockInv, LockTypeOK, Ownership, OtherStarts, OtherStep, OtherAcquires, OtherGivesUp, OtherEnds
<1> QED  BY <1>1, <1>2 DEF LockInv

LEMMA NextLockInv == LockInv /\ [LockNext]_lockVars => LockInv'
<1> SUFFICES ASSUME LockInv, [LockNext]_lockVars PROVE LockInv'
  OBVIOUS
<1>1. CASE \E c \in Callers : \/ Degrade(c) \/ Spawn(c) \/ SpawnFails(c) \/ Kill(c) \/ Again(c)
                              \/ CallerStep(c)
  BY <1>1, ProcessLockInv
<1>2. CASE \E c \in Callers : ChildStep(c)
  BY <1>2, ChildLockInv
<1>3. CASE \E o \in Others : OtherStarts(o) \/ OtherStep(o)
  BY <1>3, OtherLockInv
<1>4. CASE UNCHANGED lockVars
  BY <1>4 DEF lockVars, LockInv, LockTypeOK, Ownership, Spawned
<1> QED  BY <1>1, <1>2, <1>3, <1>4 DEF LockNext

LEMMA LockInvariant == LockSpec => []LockInv
  BY InitLockInv, NextLockInv, PTL DEF LockSpec

\* Types, for any number of callers and scripts.
THEOREM LockTypeCorrect == LockSpec => []LockTypeOK
<1>1. LockInv => LockTypeOK
  BY DEF LockInv
<1> QED  BY <1>1, LockInvariant, PTL

\* No lock is stranded: when the call that spawned the holder has returned, thrown
\* or died, the holder reads from a pipe that is closed, so it ends by itself
\* (write-lock.ts:207-214); and only a child that runs cat has the lock.
THEOREM EndedCallsLetGo ==
  LockSpec => [](\A c \in Callers :
                    lock = c => /\ call[c].child = "cat"
                                /\ call[c].pc \in {"over", "dead"} => ~call[c].stdin)
<1>1. LockInv => \A c \in Callers :
                    lock = c => /\ call[c].child = "cat"
                                /\ call[c].pc \in {"over", "dead"} => ~call[c].stdin
  BY DEF LockInv, Ownership, Spawned
<1> QED  BY <1>1, LockInvariant, PTL
=============================================================================
