--------------------------- MODULE ReceiptsProofs ---------------------------
(***************************************************************************)
(* Theorems about Receipts: the types for every set of processes, and, for *)
(* one process at a time, what its operations, failures, deaths and        *)
(* retries guarantee of the visible pages, for every set of pages, every   *)
(* assignment of titles, and any number of operations and faults.          *)
(***************************************************************************)
EXTENDS Receipts, TLAPS

(* Only one process works on the workspace. *)
OneProcess == \A v, w \in Procs : v = w

(* What the labels tell about an operation. *)
Flight(q) ==
    /\ q.pc \in {"tmp", "row", "trace", "rename"} =>
         q.op \in {"promote", "compile"} /\ q.path \in Pages
    /\ q.pc \in {"undo", "untmp", "unrow"} => q.op = "promote" /\ q.path \in Pages
    /\ q.pc \in {"unlink", "delete", "untrace"} => q.op = "unpromote" /\ q.path \in Pages
    /\ q.pc \in {"stage", "publish"} => q.op = "link"
    /\ q.pc \in {"walk", "move", "report"} => q.op = "reconcile"
    /\ q.pc = "move" => q.path \in Pages
    /\ q.pc = "idle" => q.op = "none"

InFlight == \A w \in Procs : Flight(proc[w])

(* Only a .tmp that exists grows old. *)
OldIsThere == \A p \in old : tmp[p] # None

TInv == TypeOK /\ InFlight /\ OldIsThere

(* What a writer relies on between its steps. *)
Writer(q) ==
    /\ q.pc \in {"row", "trace", "rename"} => tmp[q.path] = q.content
    /\ q.pc \in {"trace", "rename"} => q.path \in Receipted
    /\ q.pc = "rename" => <<q.op, q.path, q.content>> \in trace
    /\ (q.op = "promote" \/ q.pc = "delete") => page[q.path] = None
    /\ q.op = "compile" /\ q.pc \in {"tmp", "row"} =>
         q.content <= produced /\ \A r \in compilations : r.content < q.content

(* What the link pass relies on. *)
Linker(q) ==
    /\ q.pc = "stage" => \A p \in q.todo : page[p] # None
    /\ q.pc \in {"stage", "publish"} =>
         \A m \in q.moved : m[2] = q.content /\ tmp[m[1]] = q.content /\ page[m[1]] # None
    /\ q.pc = "publish" => \A m \in q.moved : <<"link", m[1], m[2]>> \in trace

(* A row's id is the one its page and content get. *)
Rows == \A r \in compilations : r.id = IdOf(r.path, r.content) /\ r.content <= produced

Working == \A w \in Procs : Writer(proc[w]) /\ Linker(proc[w])

Kept == Rows /\ VisibleIsAccountedFor /\ ContentIsTraced

IInv == TInv /\ Working /\ Kept

-----------------------------------------------------------------------------
(* Types *)

(* The record an operation is in after a jump to label l. *)
At(q, l) == [pc |-> l, op |-> q.op, path |-> q.path, content |-> q.content,
             receipted |-> q.receipted, todo |-> q.todo, moved |-> q.moved]

LEMMA AtType ==
    ASSUME NEW q \in Process, NEW l \in Label
    PROVE  At(q, l) \in Process
BY DEF At, Process

LEMMA GotoIs ==
    ASSUME proc \in [Procs -> Process], NEW w \in Procs, NEW l \in Label, Goto(w, l)
    PROVE  Become(w, At(proc[w], l)) /\ At(proc[w], l) \in Process
<1>1. proc[w] \in Process
  OBVIOUS
<1>2. [proc[w] EXCEPT !.pc = l] = At(proc[w], l)
  BY <1>1 DEF At, Process
<1>3. QED
  BY <1>1, <1>2, AtType DEF Goto

(* The record with other label, path, todo and moved. *)
Put(q, l, p, t, m) == [pc |-> l, op |-> q.op, path |-> p, content |-> q.content,
                       receipted |-> q.receipted, todo |-> t, moved |-> m]

LEMMA PutType ==
    ASSUME NEW q \in Process, NEW l \in Label, NEW p \in Pages \cup {None},
           NEW t \in SUBSET Pages, NEW m \in SUBSET (Pages \X Content)
    PROVE  Put(q, l, p, t, m) \in Process
BY DEF Put, Process

LEMMA PutAgain ==
    ASSUME NEW q, NEW k, NEW r, NEW t, NEW u, NEW l, NEW p, NEW m
    PROVE  /\ [Put(q, k, r, t, u) EXCEPT !.pc = l] = Put(q, l, r, t, u)
           /\ [Put(q, k, r, t, u) EXCEPT !.path = p] = Put(q, k, p, t, u)
           /\ [Put(q, k, r, t, u) EXCEPT !.moved = m] = Put(q, k, r, t, m)
BY DEF Put

LEMMA PutOne ==
    ASSUME NEW q \in Process, NEW l, NEW t, NEW m
    PROVE  /\ [q EXCEPT !.todo = t] = Put(q, q.pc, q.path, t, q.moved)
           /\ [q EXCEPT !.moved = m] = Put(q, q.pc, q.path, q.todo, m)
           /\ [q EXCEPT !.pc = l] = Put(q, l, q.path, q.todo, q.moved)
<1>1. [q EXCEPT !.todo = t] = Put(q, q.pc, q.path, t, q.moved)
  BY DEF Put, Process
<1>2. [q EXCEPT !.moved = m] = Put(q, q.pc, q.path, q.todo, m)
  BY DEF Put, Process
<1>3. [q EXCEPT !.pc = l] = Put(q, l, q.path, q.todo, q.moved)
  BY DEF Put, Process
<1>4. QED
  BY <1>1, <1>2, <1>3

(* Stage. *)
LEMMA PutStage ==
    ASSUME NEW q \in Process, NEW t, NEW m
    PROVE  [q EXCEPT !.todo = t, !.moved = m] = Put(q, q.pc, q.path, t, m)
<1> DEFINE a == [q EXCEPT !.todo = t]
<1>1. [q EXCEPT !.todo = t, !.moved = m] = [a EXCEPT !.moved = m]
  OBVIOUS
<1>2. a = Put(q, q.pc, q.path, t, q.moved)
  BY PutOne
<1> HIDE DEF a
<1>3. QED
  BY <1>1, <1>2, PutAgain

(* Visit. *)
LEMMA PutVisit ==
    ASSUME NEW q \in Process, NEW t, NEW l, NEW p
    PROVE  [q EXCEPT !.todo = t, !.pc = l, !.path = p] = Put(q, l, p, t, q.moved)
<1> DEFINE a == [q EXCEPT !.todo = t]
           b == [a EXCEPT !.pc = l]
<1>1. [q EXCEPT !.todo = t, !.pc = l, !.path = p] = [b EXCEPT !.path = p]
  OBVIOUS
<1>2. a = Put(q, q.pc, q.path, t, q.moved)
  BY PutOne
<1> HIDE DEF a
<1>3. b = Put(q, l, q.path, t, q.moved)
  BY <1>2, PutAgain
<1> HIDE DEF b
<1>4. QED
  BY <1>1, <1>3, PutAgain

(* Move. *)
LEMMA PutMove ==
    ASSUME NEW q \in Process, NEW m
    PROVE  [q EXCEPT !.pc = "walk", !.path = None, !.moved = m] = Put(q, "walk", None, q.todo, m)
<1> DEFINE a == [q EXCEPT !.pc = "walk"]
           b == [a EXCEPT !.path = None]
<1>1. [q EXCEPT !.pc = "walk", !.path = None, !.moved = m] = [b EXCEPT !.moved = m]
  OBVIOUS
<1>2. a = Put(q, "walk", q.path, q.todo, q.moved)
  BY PutOne
<1> HIDE DEF a
<1>3. b = Put(q, "walk", None, q.todo, q.moved)
  BY <1>2, PutAgain
<1> HIDE DEF b
<1>4. QED
  BY <1>1, <1>3, PutAgain

(* Sweep. *)
LEMMA PutSweep ==
    ASSUME NEW q \in Process, NEW l, NEW m
    PROVE  [q EXCEPT !.pc = l, !.moved = m] = Put(q, l, q.path, q.todo, m)
<1> DEFINE a == [q EXCEPT !.pc = l]
<1>1. [q EXCEPT !.pc = l, !.moved = m] = [a EXCEPT !.moved = m]
  OBVIOUS
<1>2. a = Put(q, l, q.path, q.todo, q.moved)
  BY PutOne
<1> HIDE DEF a
<1>3. QED
  BY <1>1, <1>2, PutAgain

LEMMA IdleType == Idle \in Process /\ Flight(Idle)
BY ConstantsAssumption DEF Idle, Doing, Process, Flight, Label, Content

(* One process moves on to q, the others stay. *)
LEMMA OneMoves ==
    ASSUME TInv, NEW w \in Procs, NEW q \in Process, Flight(q), Become(w, q)
    PROVE  proc' \in [Procs -> Process] /\ InFlight'
<1>1. proc \in [Procs -> Process] /\ InFlight
  BY DEF TInv, TypeOK
<1>2. \A v \in Procs : proc'[v] = IF v = w THEN q ELSE proc[v]
  BY <1>1 DEF Become
<1>3. \A v \in Procs : Flight(proc'[v])
  BY <1>1, <1>2 DEF InFlight
<1>4. QED
  BY <1>1, <1>3 DEF InFlight, Flight, Become

LEMMA ReturnMoves ==
    ASSUME TInv, NEW w \in Procs, Return(w)
    PROVE  proc' \in [Procs -> Process] /\ InFlight'
BY IdleType, OneMoves DEF Return

LEMMA GotoMoves ==
    ASSUME TInv, NEW w \in Procs, NEW l \in Label, Goto(w, l), Flight(At(proc[w], l))
    PROVE  proc' \in [Procs -> Process] /\ InFlight'
BY GotoIs, OneMoves DEF TInv, TypeOK

LEMMA InitType == Init => TInv
<1> SUFFICES ASSUME Init PROVE TInv
  OBVIOUS
<1>1. proc \in [Procs -> Process] /\ InFlight
  BY IdleType DEF Init, InFlight
<1>2. QED
  BY <1>1, ConstantsAssumption DEF Init, TInv, TypeOK, OldIsThere, Content

(* The steps of promotions and compile passes. *)
LEMMA WriteType ==
    ASSUME TInv, NEW w \in Procs,
           WriteTmp(w) \/ InsertRow(w) \/ WriteTrace(w) \/ Rename(w)
    PROVE  TInv'
<1> USE DEF TInv, TypeOK
<1>1. proc[w] \in Process /\ Flight(proc[w])
  BY DEF InFlight
<1>2. CASE WriteTmp(w)
  <2>1. Flight(At(proc[w], "row")) /\ Goto(w, "row") /\ "row" \in Label
    BY <1>1, <1>2 DEF WriteTmp, Flight, At, Label
  <2>2. proc' \in [Procs -> Process] /\ InFlight'
    BY <2>1, GotoMoves
  <2>3. proc[w].path \in Pages /\ proc[w].content \in Content
    BY <1>1, <1>2 DEF WriteTmp, Flight, Process
  <2>4. tmp' \in [Pages -> Content \cup {None}] /\ old' \subseteq Pages /\ OldIsThere'
    BY <1>2, <2>3 DEF WriteTmp, OldIsThere
  <2>5. QED
    BY <1>2, <2>2, <2>4 DEF WriteTmp
<1>3. CASE InsertRow(w)
  <2>1. Flight(At(proc[w], "trace")) /\ Goto(w, "trace") /\ "trace" \in Label
    BY <1>1, <1>3 DEF InsertRow, Flight, At, Label
  <2>2. proc' \in [Procs -> Process] /\ InFlight'
    BY <2>1, GotoMoves
  <2> DEFINE p == proc[w].path
             c == proc[w].content
  <2>3. p \in Pages /\ c \in Content
    BY <1>1, <1>3 DEF InsertRow, Flight, Process
  <2>4. IdOf(p, c) \in RowId
    BY <2>3, ConstantsAssumption DEF IdOf, RowId, Content
  <2>5. promotions' \subseteq [path : Pages, content : Content]
    BY <1>3, <2>3 DEF InsertRow
  <2>6. compilations' \subseteq [id : RowId, path : Pages, content : Content]
    BY <1>3, <2>3, <2>4 DEF InsertRow
  <2>7. QED
    BY <1>3, <2>2, <2>5, <2>6 DEF InsertRow, OldIsThere
<1>4. CASE WriteTrace(w)
  <2>1. Flight(At(proc[w], "rename")) /\ Goto(w, "rename") /\ "rename" \in Label
    BY <1>1, <1>4 DEF WriteTrace, Flight, At, Label
  <2>2. proc' \in [Procs -> Process] /\ InFlight'
    BY <2>1, GotoMoves
  <2>3. <<proc[w].op, proc[w].path, proc[w].content>> \in Operation \X Pages \X Content
    BY <1>1, <1>4 DEF WriteTrace, Flight, Process, Operation
  <2>4. QED
    BY <1>4, <2>2, <2>3 DEF WriteTrace, OldIsThere
<1>5. CASE Rename(w)
  <2>1. proc' \in [Procs -> Process] /\ InFlight'
    BY <1>5, ReturnMoves DEF Rename
  <2>2. proc[w].path \in Pages
    BY <1>1, <1>5 DEF Rename, Flight
  <2>3. page' \in [Pages -> Content \cup {None}] /\ tmp' \in [Pages -> Content \cup {None}]
    BY <1>5, <2>2 DEF Rename
  <2>4. old' \subseteq Pages /\ OldIsThere'
    BY <1>5, <2>2 DEF Rename, OldIsThere
  <2>5. QED
    BY <1>5, <2>1, <2>3, <2>4 DEF Rename
<1>6. QED
  BY <1>2, <1>3, <1>4, <1>5

(* The steps of a rollback. *)
LEMMA UndoType ==
    ASSUME TInv, NEW w \in Procs,
           PromotionFails(w) \/ UndoTmp(w) \/ SkipUndo(w) \/ UndoRow(w)
    PROVE  TInv'
<1> USE DEF TInv, TypeOK
<1>1. proc[w] \in Process /\ Flight(proc[w])
  BY DEF InFlight
<1>2. CASE PromotionFails(w)
  <2>1. PICK undo \in {"undo", "untmp"} : Goto(w, undo)
    BY <1>2 DEF PromotionFails
  <2>2. Flight(At(proc[w], undo)) /\ undo \in Label
    BY <1>1, <1>2, <2>1 DEF PromotionFails, Flight, At, Label
  <2>3. proc' \in [Procs -> Process] /\ InFlight'
    BY <2>1, <2>2, GotoMoves
  <2>4. QED
    BY <1>2, <2>3 DEF PromotionFails, store, OldIsThere
<1>3. CASE UndoTmp(w)
  <2>1. proc[w].path \in Pages
    BY <1>1, <1>3 DEF UndoTmp, Flight
  <2>2. Flight(At(proc[w], "unrow")) /\ "unrow" \in Label
    BY <1>1, <1>3 DEF UndoTmp, Flight, At, Label
  <2>3. proc' \in [Procs -> Process] /\ InFlight'
    BY <1>3, <2>2, GotoMoves, ReturnMoves DEF UndoTmp
  <2>4. tmp' \in [Pages -> Content \cup {None}] /\ old' \subseteq Pages /\ OldIsThere'
    BY <1>3, <2>1 DEF UndoTmp, OldIsThere
  <2>5. QED
    BY <1>3, <2>3, <2>4 DEF UndoTmp
<1>4. CASE SkipUndo(w)
  <2>1. proc[w].pc = "undo" => Flight(At(proc[w], "unrow")) /\ "unrow" \in Label
    BY <1>1, <1>4 DEF SkipUndo, Flight, At, Label
  <2>2. proc' \in [Procs -> Process] /\ InFlight'
    BY <1>4, <2>1, GotoMoves, ReturnMoves DEF SkipUndo
  <2>3. QED
    BY <1>4, <2>2 DEF SkipUndo, store, OldIsThere
<1>5. CASE UndoRow(w)
  BY <1>5, ReturnMoves DEF UndoRow, OldIsThere
<1>6. QED
  BY <1>2, <1>3, <1>4, <1>5

(* The steps of the link pass. *)
LEMMA LinkType ==
    ASSUME TInv, NEW w \in Procs,
           \/ TraceLink(w)
           \/ \E p \in Pages : Stage(w, p) \/ Publish(w, p)
    PROVE  TInv'
<1> USE DEF TInv, TypeOK
<1>1. proc[w] \in Process /\ Flight(proc[w])
  BY DEF InFlight
<1>2. CASE TraceLink(w)
  <2>1. Flight(At(proc[w], "publish")) /\ Goto(w, "publish") /\ "publish" \in Label
    BY <1>1, <1>2 DEF TraceLink, Flight, At, Label
  <2>2. proc' \in [Procs -> Process] /\ InFlight'
    BY <2>1, GotoMoves
  <2>3. \A m \in proc[w].moved : m[1] \in Pages /\ m[2] \in Content
    BY <1>1 DEF Process
  <2>4. trace' \subseteq Operation \X Pages \X Content
    BY <1>2, <2>3 DEF TraceLink, Operation
  <2>5. QED
    BY <1>2, <2>2, <2>4 DEF TraceLink, OldIsThere
<1>3. ASSUME NEW p \in Pages, Stage(w, p) PROVE TInv'
  <2> DEFINE m == proc[w].moved \cup {<<p, proc[w].content>>}
             q == Put(proc[w], proc[w].pc, proc[w].path, proc[w].todo \ {p}, m)
             r == [proc[w] EXCEPT !.todo = @ \ {p}, !.moved = @ \cup {<<p, proc[w].content>>}]
  <2>a. Become(w, r)
    BY <1>3 DEF Stage
  <2>b. r = q
    BY <1>1, PutStage
  <2> HIDE DEF r
  <2>1. Become(w, q)
    BY <2>a, <2>b
  <2>2. proc[w].content \in Content /\ proc[w].moved \in SUBSET (Pages \X Content)
    BY <1>1 DEF Process
  <2>3. m \in SUBSET (Pages \X Content) /\ proc[w].todo \ {p} \in SUBSET Pages
    BY <1>1, <2>2 DEF Process
  <2>4. q \in Process
    BY <1>1, <2>3, PutType DEF Process
  <2>5. Flight(q)
    BY <1>1, <1>3 DEF Stage, Flight, Put
  <2> HIDE DEF q
  <2>6. proc' \in [Procs -> Process] /\ InFlight'
    BY <2>1, <2>4, <2>5, OneMoves
  <2>7. tmp' \in [Pages -> Content \cup {None}] /\ old' \subseteq Pages /\ OldIsThere'
    BY <1>3, <2>2 DEF Stage, OldIsThere
  <2>8. QED
    BY <1>3, <2>6, <2>7 DEF Stage
<1>4. ASSUME NEW p \in Pages, Publish(w, p) PROVE TInv'
  <2> DEFINE m == proc[w].moved \ {<<p, proc[w].content>>}
             q == Put(proc[w], proc[w].pc, proc[w].path, proc[w].todo, m)
             r == [proc[w] EXCEPT !.moved = m]
  <2>a. Return(w) \/ Become(w, r)
    BY <1>4 DEF Publish
  <2>b. r = q
    BY <1>1, PutOne
  <2> HIDE DEF r
  <2>1. Return(w) \/ Become(w, q)
    BY <2>a, <2>b
  <2>2. q \in Process
    BY <1>1, PutType DEF Process
  <2>3. Flight(q)
    BY <1>1, <1>4 DEF Publish, Flight, Put
  <2> HIDE DEF q
  <2>4. proc' \in [Procs -> Process] /\ InFlight'
    BY <2>1, <2>2, <2>3, OneMoves, ReturnMoves
  <2>5. page' \in [Pages -> Content \cup {None}] /\ tmp' \in [Pages -> Content \cup {None}]
    BY <1>4 DEF Publish
  <2>6. old' \subseteq Pages /\ OldIsThere'
    BY <1>4 DEF Publish, OldIsThere
  <2>7. QED
    BY <1>4, <2>4, <2>5, <2>6 DEF Publish
<1>5. QED
  BY <1>2, <1>3, <1>4

(* The steps of an unpromotion. *)
LEMMA UnpromoteType ==
    ASSUME TInv, NEW w \in Procs, Unlink(w) \/ DeleteRows(w) \/ TraceUnpromote(w)
    PROVE  TInv'
<1> USE DEF TInv, TypeOK
<1>1. proc[w] \in Process /\ Flight(proc[w])
  BY DEF InFlight
<1>2. CASE Unlink(w)
  <2>1. Flight(At(proc[w], "delete")) /\ "delete" \in Label
    BY <1>1, <1>2 DEF Unlink, Flight, At, Label
  <2>2. proc' \in [Procs -> Process] /\ InFlight'
    BY <1>2, <2>1, GotoMoves, ReturnMoves DEF Unlink
  <2>3. QED
    BY <1>2, <2>2 DEF Unlink, OldIsThere
<1>3. CASE DeleteRows(w)
  <2>1. Flight(At(proc[w], "untrace")) /\ Goto(w, "untrace") /\ "untrace" \in Label
    BY <1>1, <1>3 DEF DeleteRows, Flight, At, Label
  <2>2. proc' \in [Procs -> Process] /\ InFlight'
    BY <2>1, GotoMoves
  <2>3. QED
    BY <1>3, <2>2 DEF DeleteRows, OldIsThere
<1>4. CASE TraceUnpromote(w)
  <2>1. <<"unpromote", proc[w].path, 0>> \in Operation \X Pages \X Content
    BY <1>1, <1>4 DEF TraceUnpromote, Flight, Operation, Content
  <2>2. QED
    BY <1>4, <2>1, ReturnMoves DEF TraceUnpromote, OldIsThere
<1>5. QED
  BY <1>2, <1>3, <1>4

(* The steps of a reconciliation. *)
LEMMA VisitType ==
    ASSUME TInv, NEW w \in Procs, NEW p \in Pages, Visit(w, p) \/ Overlook(w, p)
    PROVE  TInv'
<1>1. proc[w] \in Process /\ Flight(proc[w])
  BY DEF TInv, TypeOK, InFlight
<1> DEFINE t == proc[w].todo \ {p}
           a == [proc[w] EXCEPT !.todo = @ \ {p}]
           b == [proc[w] EXCEPT !.todo = @ \ {p}, !.pc = "move", !.path = p]
           c == Put(proc[w], proc[w].pc, proc[w].path, t, proc[w].moved)
           d == Put(proc[w], "move", p, t, proc[w].moved)
<1>2. a = c
  BY <1>1, PutOne
<1>3. b = d
  BY <1>1, PutVisit
<1>4. Become(w, a) \/ Become(w, b)
  BY DEF Visit, Overlook
<1>5. t \in SUBSET Pages /\ proc[w].pc \in Label /\ proc[w].path \in Pages \cup {None}
      /\ proc[w].moved \in SUBSET (Pages \X Content) /\ "move" \in Label
  BY <1>1 DEF Process, Label
<1>6. c \in Process /\ d \in Process
  BY <1>1, <1>5, PutType
<1>7. Flight(c)
  BY <1>1 DEF Visit, Overlook, Flight, Put
<1>8. Flight(d)
  BY <1>1 DEF Visit, Overlook, Flight, Put
<1> HIDE DEF a, b, c, d
<1>9. proc' \in [Procs -> Process] /\ InFlight'
  BY <1>2, <1>3, <1>4, <1>6, <1>7, <1>8, OneMoves
<1>10. UNCHANGED <<store, produced>> /\ faults' \in {faults, faults + 1}
  BY DEF Visit, Overlook
<1>11. QED
  BY <1>9, <1>10 DEF TInv, TypeOK, store, OldIsThere

LEMMA MoveType ==
    ASSUME TInv, NEW w \in Procs, Move(w)
    PROVE  TInv'
<1>1. proc[w] \in Process /\ Flight(proc[w])
  BY DEF InFlight, TInv, TypeOK
<1> DEFINE p == proc[w].path
           m == proc[w].moved \cup {<<p, page[p]>>}
           a == [proc[w] EXCEPT !.pc = "walk", !.path = None, !.moved = m]
           c == Put(proc[w], "walk", None, proc[w].todo, m)
<1>2. a = c
  <2> HIDE DEF m
  <2>1. QED
    BY <1>1, PutMove
<1> USE DEF TInv, TypeOK
<1>3. CASE page[p] = None
  BY <1>3, ReturnMoves DEF Move, OldIsThere
<1>4. CASE page[p] # None
  <2>1. Become(w, a)
    BY <1>4 DEF Move
  <2>2. p \in Pages /\ <<p, page[p]>> \in Pages \X Content
    BY <1>1, <1>4 DEF Move, Flight
  <2>3. proc[w].moved \in SUBSET (Pages \X Content) /\ proc[w].todo \in SUBSET Pages
    BY <1>1 DEF Process
  <2>4. m \in SUBSET (Pages \X Content)
    BY <2>2, <2>3
  <2>5. "walk" \in Label /\ None \in Pages \cup {None}
    BY DEF Label
  <2> HIDE DEF a, m
  <2>6. c \in Process
    BY <1>1, <2>3, <2>4, <2>5, PutType
  <2>7. Flight(c)
    BY <1>1 DEF Move, Flight, Put
  <2> HIDE DEF c
  <2>8. proc' \in [Procs -> Process] /\ InFlight'
    BY <1>2, <2>1, <2>6, <2>7, OneMoves
  <2>9. QED
    BY <1>4, <2>2, <2>8 DEF Move, OldIsThere
<1>5. QED
  BY <1>3, <1>4

LEMMA SweepType ==
    ASSUME TInv, NEW w \in Procs, Sweep(w)
    PROVE  TInv'
<1> USE DEF TInv, TypeOK
<1>1. proc[w] \in Process /\ Flight(proc[w])
  BY DEF InFlight
<1> DEFINE swept(found) == {<<p, tmp[p]>> : p \in found}
           n(found) == proc[w].moved \cup swept(found)
<1>2. PICK found \in SUBSET old :
        /\ proc[w].pc = "walk"
        /\ faults' \in {faults, faults + 1}
        /\ quarantine' = quarantine \cup swept(found)
        /\ tmp' = [p \in Pages |-> IF p \in found THEN None ELSE tmp[p]]
        /\ old' = old \ found
        /\ Become(w, [proc[w] EXCEPT !.pc = "report", !.moved = n(found)])
        /\ UNCHANGED <<page, compilations, promotions, trace, produced>>
  BY DEF Sweep
<1> DEFINE m == n(found)
           a == [proc[w] EXCEPT !.pc = "report", !.moved = m]
           c == Put(proc[w], "report", proc[w].path, proc[w].todo, m)
<1>3. a = c
  BY <1>1, PutSweep
<1>4. swept(found) \in SUBSET (Pages \X Content)
  BY <1>2 DEF OldIsThere
<1>5. proc[w].moved \in SUBSET (Pages \X Content) /\ proc[w].todo \in SUBSET Pages
      /\ proc[w].path \in Pages \cup {None} /\ "report" \in Label
  BY <1>1 DEF Process, Label
<1>6. m \in SUBSET (Pages \X Content)
  BY <1>4, <1>5
<1>7. Become(w, a)
  BY <1>2
<1>8. quarantine' \subseteq Pages \X Content
  BY <1>2, <1>4
<1> HIDE DEF a, m, n, swept
<1>9. c \in Process
  BY <1>1, <1>5, <1>6, PutType
<1>10. Flight(c)
  BY <1>1, <1>2 DEF Flight, Put
<1> HIDE DEF c
<1>11. proc' \in [Procs -> Process] /\ InFlight'
  BY <1>3, <1>7, <1>9, <1>10, OneMoves
<1>12. OldIsThere'
  BY <1>2 DEF OldIsThere
<1>13. QED
  BY <1>2, <1>8, <1>11, <1>12

LEMMA ReportType ==
    ASSUME TInv, NEW w \in Procs, Report(w)
    PROVE  TInv'
<1> USE DEF TInv, TypeOK
<1>1. proc[w] \in Process
  OBVIOUS
<1>2. proc' \in [Procs -> Process] /\ InFlight'
  BY ReturnMoves DEF Report
<1>3. \A m \in proc[w].moved : m[1] \in Pages /\ m[2] \in Content
  BY <1>1 DEF Process
<1>4. trace' \subseteq Operation \X Pages \X Content
  BY <1>3 DEF Report, Operation
<1>5. QED
  BY <1>2, <1>4 DEF Report, OldIsThere

(* The steps that begin an operation. *)
LEMMA DoingType ==
    ASSUME NEW l \in Label, NEW o \in Operation, NEW p \in Pages \cup {None},
           NEW c \in Content, NEW rs \in SUBSET Pages, NEW t \in SUBSET Pages
    PROVE  Doing(l, o, p, c, rs, t) \in Process
BY DEF Doing, Process

LEMMA StartType ==
    ASSUME TInv, NEW w \in Procs, Start(w)
    PROVE  TInv'
<1> USE DEF TInv, TypeOK
<1>1. produced + 1 \in Content /\ 0 \in Content
  BY DEF Content
<1>2. ASSUME NEW p \in Pages, StartPromote(w, p) PROVE TInv'
  <2> DEFINE q == Doing("tmp", "promote", p, produced + 1, {}, {})
  <2>1. q \in Process
    BY <1>1, DoingType DEF Label, Operation
  <2>2. Flight(q)
    BY DEF Flight, Doing
  <2>3. Become(w, q)
    BY <1>2 DEF StartPromote
  <2>4. proc' \in [Procs -> Process] /\ InFlight'
    BY <2>1, <2>2, <2>3, OneMoves
  <2>5. QED
    BY <1>2, <2>4 DEF StartPromote, store, OldIsThere
<1>3. ASSUME NEW p \in Pages, StartCompile(w, p) PROVE TInv'
  <2> DEFINE q == Doing("tmp", "compile", p, produced + 1, {}, {})
  <2>1. q \in Process
    BY <1>1, DoingType DEF Label, Operation
  <2>2. Flight(q)
    BY DEF Flight, Doing
  <2>3. Become(w, q)
    BY <1>3 DEF StartCompile
  <2>4. proc' \in [Procs -> Process] /\ InFlight'
    BY <2>1, <2>2, <2>3, OneMoves
  <2>5. QED
    BY <1>3, <2>4 DEF StartCompile, store, OldIsThere
<1>4. ASSUME NEW p \in Pages, StartUnpromote(w, p) PROVE TInv'
  <2> DEFINE q == Doing("unlink", "unpromote", p, 0, {}, {})
  <2>1. q \in Process
    BY <1>1, DoingType DEF Label, Operation
  <2>2. Flight(q)
    BY DEF Flight, Doing
  <2>3. Become(w, q)
    BY <1>4 DEF StartUnpromote
  <2>4. proc' \in [Procs -> Process] /\ InFlight'
    BY <2>1, <2>2, <2>3, OneMoves
  <2>5. QED
    BY <1>4, <2>4 DEF StartUnpromote, store, OldIsThere
<1>5. ASSUME NEW pages \in SUBSET Pages, StartLink(w, pages) PROVE TInv'
  <2> DEFINE q == Doing("stage", "link", None, produced + 1, {}, pages)
  <2>1. q \in Process
    BY <1>1, DoingType DEF Label, Operation
  <2>2. Flight(q)
    BY DEF Flight, Doing
  <2>3. Become(w, q)
    BY <1>5 DEF StartLink
  <2>4. proc' \in [Procs -> Process] /\ InFlight'
    BY <2>1, <2>2, <2>3, OneMoves
  <2>5. QED
    BY <1>5, <2>4 DEF StartLink, store, OldIsThere
<1>6. ASSUME StartReconcile(w) PROVE TInv'
  <2> DEFINE q == Doing("walk", "reconcile", None, 0, Receipted, Pages)
  <2>1. Receipted \in SUBSET Pages
    BY DEF Receipted
  <2>2. q \in Process
    BY <1>1, <2>1, DoingType DEF Label, Operation
  <2>3. Flight(q)
    BY DEF Flight, Doing
  <2>4. Become(w, q)
    BY <1>6 DEF StartReconcile
  <2>5. proc' \in [Procs -> Process] /\ InFlight'
    BY <2>2, <2>3, <2>4, OneMoves
  <2>6. QED
    BY <1>6, <2>5 DEF StartReconcile, store, OldIsThere
<1>7. QED
  BY <1>2, <1>3, <1>4, <1>5, <1>6 DEF Start

LEMMA AroundType ==
    ASSUME TInv, \/ \E w \in Procs : Stop(w)
                 \/ \E p \in Pages : Age(p) \/ HandCopy(p)
    PROVE  TInv'
<1> USE DEF TInv, TypeOK
<1>1. ASSUME NEW w \in Procs, Stop(w) PROVE TInv'
  BY <1>1, ReturnMoves DEF Stop, store, OldIsThere
<1>2. ASSUME NEW p \in Pages, Age(p) PROVE TInv'
  BY <1>2 DEF Age, OldIsThere, InFlight, Flight
<1>3. ASSUME NEW p \in Pages, HandCopy(p) PROVE TInv'
  BY <1>3 DEF HandCopy, OldIsThere, InFlight, Flight, Content
<1>4. QED
  BY <1>1, <1>2, <1>3

LEMMA NextType == TInv /\ [Next]_vars => TInv'
<1> SUFFICES ASSUME TInv, [Next]_vars PROVE TInv'
  OBVIOUS
<1>1. CASE UNCHANGED vars
  BY <1>1 DEF vars, TInv, TypeOK, InFlight, Flight, OldIsThere
<1>2. ASSUME NEW w \in Procs, Start(w) PROVE TInv'
  BY <1>2, StartType
<1>3. ASSUME NEW w \in Procs, WriterStep(w) PROVE TInv'
  BY <1>3, WriteType, UndoType, LinkType, UnpromoteType, VisitType, MoveType, SweepType,
     ReportType DEF WriterStep
<1>4. ASSUME NEW w \in Procs, PromotionFails(w) \/ SkipUndo(w) PROVE TInv'
  BY <1>4, UndoType
<1>5. ASSUME NEW w \in Procs, NEW p \in Pages, Overlook(w, p) PROVE TInv'
  BY <1>5, VisitType
<1>6. QED
  BY <1>1, <1>2, <1>3, <1>4, <1>5, AroundType DEF Next

(* The variables keep their types, and labels keep their meaning, whatever *)
(* the number of processes.                                                *)
THEOREM TypeCorrect == Spec => []TypeOK
<1>1. TInv => TypeOK
  BY DEF TInv
<1>2. QED
  BY <1>1, InitType, NextType, PTL DEF Spec

-----------------------------------------------------------------------------
(* What pages, rows and trace keep *)

(* A step that hides pages or leaves them, keeps the rows and only adds to *)
(* the trace.                                                              *)
LEMMA KeptQuietly ==
    ASSUME TInv, Kept, TInv', UNCHANGED <<compilations, promotions>>,
           \A p \in Pages : page'[p] \in {page[p], None},
           trace \subseteq trace', produced' \in {produced, produced + 1}
    PROVE  Kept'
<1>1. Rows'
  BY DEF Kept, Rows, TInv, TypeOK, Content
<1>2. VisibleIsAccountedFor'
  BY ConstantsAssumption DEF Kept, VisibleIsAccountedFor, Receipted, Displaced
<1>3. ContentIsTraced'
  BY DEF Kept, ContentIsTraced
<1>4. QED
  BY <1>1, <1>2, <1>3 DEF Kept

(* A step of the only process is the only thing that matters. *)
LEMMA OneWorks ==
    ASSUME OneProcess, NEW w \in Procs, Writer(proc[w])', Linker(proc[w])'
    PROVE  Working'
<1>1. \A v \in Procs : v = w
  BY DEF OneProcess
<1>2. QED
  BY <1>1 DEF Working

LEMMA IdleWorks ==
    ASSUME OneProcess, TInv, NEW w \in Procs, Return(w)
    PROVE  Working'
<1>1. proc'[w] = Idle
  BY DEF Return, Become, TInv, TypeOK
<1>2. proc'[w].pc = "idle" /\ proc'[w].op = "none"
  BY <1>1 DEF Idle, Doing
<1>3. Writer(proc[w])' /\ Linker(proc[w])'
  BY <1>2 DEF Writer, Linker
<1>4. QED
  BY <1>3, OneWorks

(* After a jump to label l. *)
LEMMA GotoAfter ==
    ASSUME TInv, NEW w \in Procs, NEW l \in Label, Goto(w, l)
    PROVE  /\ proc'[w].pc = l
           /\ proc'[w].op = proc[w].op
           /\ proc'[w].path = proc[w].path
           /\ proc'[w].content = proc[w].content
           /\ proc'[w].receipted = proc[w].receipted
           /\ proc'[w].todo = proc[w].todo
           /\ proc'[w].moved = proc[w].moved
<1>1. proc'[w] = At(proc[w], l)
  BY GotoIs DEF TInv, TypeOK, Become
<1>2. QED
  BY <1>1 DEF At

-----------------------------------------------------------------------------
(* Promotions and compile passes *)

LEMMA WriteTmpWorks ==
    ASSUME OneProcess, IInv, TInv', NEW w \in Procs, WriteTmp(w)
    PROVE  Working' /\ Kept'
<1>1. TInv /\ proc[w] \in Process /\ Flight(proc[w])
  BY DEF IInv, TInv, TypeOK, InFlight
<1>2. Writer(proc[w])
  BY DEF IInv, Working
<1>3. /\ proc'[w].pc = "row" /\ proc'[w].op = proc[w].op
      /\ proc'[w].path = proc[w].path /\ proc'[w].content = proc[w].content
  BY <1>1, GotoAfter DEF WriteTmp, Label
<1>4. proc[w].path \in Pages /\ tmp \in [Pages -> Content \cup {None}]
  BY <1>1 DEF WriteTmp, Flight, TInv, TypeOK
<1>5. tmp'[proc[w].path] = proc[w].content
  BY <1>4 DEF WriteTmp
<1>6. Writer(proc[w])'
  BY <1>2, <1>3, <1>5 DEF WriteTmp, Writer
<1>7. Linker(proc[w])'
  BY <1>3 DEF Linker
<1>8. Kept'
  BY KeptQuietly DEF WriteTmp, IInv
<1>9. QED
  BY <1>6, <1>7, <1>8, OneWorks

LEMMA WriteTraceWorks ==
    ASSUME OneProcess, IInv, TInv', NEW w \in Procs, WriteTrace(w)
    PROVE  Working' /\ Kept'
<1>1. TInv /\ proc[w] \in Process /\ Flight(proc[w])
  BY DEF IInv, TInv, TypeOK, InFlight
<1>2. Writer(proc[w])
  BY DEF IInv, Working
<1>3. /\ proc'[w].pc = "rename" /\ proc'[w].op = proc[w].op
      /\ proc'[w].path = proc[w].path /\ proc'[w].content = proc[w].content
  BY <1>1, GotoAfter DEF WriteTrace, Label
<1>4. Writer(proc[w])'
  BY <1>2, <1>3 DEF WriteTrace, Writer, Receipted
<1>5. Linker(proc[w])'
  BY <1>3 DEF Linker
<1>6. Kept'
  BY KeptQuietly DEF WriteTrace, IInv
<1>7. QED
  BY <1>4, <1>5, <1>6, OneWorks

LEMMA InsertRowWorks ==
    ASSUME OneProcess, IInv, TInv', NEW w \in Procs, InsertRow(w)
    PROVE  Working' /\ Kept'
<1>1. TInv /\ proc[w] \in Process /\ Flight(proc[w])
  BY DEF IInv, TInv, TypeOK, InFlight
<1>2. Writer(proc[w])
  BY DEF IInv, Working
<1> DEFINE p == proc[w].path
           c == proc[w].content
           row == [id |-> IdOf(p, c), path |-> p, content |-> c]
<1>3. /\ proc'[w].pc = "trace" /\ proc'[w].op = proc[w].op
      /\ proc'[w].path = p /\ proc'[w].content = c
  BY <1>1, GotoAfter DEF InsertRow, Label
<1>4. p \in Pages /\ c \in Nat /\ proc[w].op \in {"promote", "compile"}
  BY <1>1 DEF InsertRow, Flight, Process, Content
<1>5. Linker(proc[w])'
  BY <1>3 DEF Linker
<1>6. CASE proc[w].op = "promote"
  <2>1. promotions' = promotions \cup {[path |-> p, content |-> c]}
        /\ UNCHANGED <<page, tmp, compilations, trace, produced>>
    BY <1>6 DEF InsertRow
  <2>2. p \in Receipted'
    <3> DEFINE new == [path |-> p, content |-> c]
    <3>1. new \in promotions' /\ new.path = p
      BY <2>1
    <3> HIDE DEF new
    <3>2. QED
      BY <3>1 DEF Receipted
  <2>3. Writer(proc[w])'
    BY <1>2, <1>3, <1>6, <2>1, <2>2 DEF InsertRow, Writer
  <2>4. Kept'
    BY <2>1 DEF IInv, Kept, Rows, VisibleIsAccountedFor, ContentIsTraced, Receipted, Displaced
  <2>5. QED
    BY <1>5, <2>3, <2>4, OneWorks
<1>7. CASE proc[w].op = "compile"
  <2>1. compilations' = {r \in compilations : r.id # IdOf(p, c)} \cup {row}
        /\ UNCHANGED <<page, tmp, promotions, trace, produced>>
    BY <1>7 DEF InsertRow
  <2>2. row.id = IdOf(p, c) /\ row.path = p /\ row.content = c /\ row \in compilations'
    BY <2>1
  <2>3. p \in Receipted'
    <3>1. \E r \in compilations' : r.path = p
      BY <2>2
    <3>2. QED
      BY <3>1 DEF Receipted
  <2>4. Writer(proc[w])'
    BY <1>2, <1>3, <1>7, <2>1, <2>3 DEF InsertRow, Writer
  <2>5. c <= produced /\ \A r \in compilations : r.content < c
    BY <1>2, <1>7 DEF InsertRow, Writer
  <2>6. Rows'
    BY <2>1, <2>2, <2>5 DEF IInv, Kept, Rows, IdOf
  <2>7. ContentIsTraced'
    BY <2>1 DEF IInv, Kept, ContentIsTraced
  <2>8. ASSUME NEW r \in compilations, r \notin compilations'
        PROVE  r.id = <<"title", Title[r.path]>> /\ row.id = <<"title", Title[r.path]>>
    <3>1. r.id = IdOf(p, c) /\ r.id = IdOf(r.path, r.content)
      BY <2>1, <2>8 DEF IInv, Kept, Rows
    <3>2. r.content # c /\ r.content \in Nat
      BY <1>1, <1>4, <2>5 DEF TInv, TypeOK, Content
    <3>3. QED
      BY <3>1, <3>2, <2>2, <1>4 DEF IdOf
  <2>9. ASSUME NEW q \in Pages \ HandMade, page'[q] # None
        PROVE  q \in Receipted' \/ Displaced(q)'
    <3>1. q \in Receipted \/ Displaced(q)
      BY <2>1, <2>9 DEF IInv, Kept, VisibleIsAccountedFor
    <3>2. q = p => q \in Receipted'
      BY <2>3
    <3>3. (q # p /\ row.id = <<"title", Title[q]>>) => Displaced(q)'
      BY <2>2 DEF Displaced
    <3>4. CASE \E r \in promotions : r.path = q
      BY <3>4, <2>1 DEF Receipted
    <3>5. CASE \E r \in compilations : r.path = q
      <4>1. PICK r \in compilations : r.path = q
        BY <3>5
      <4>2. r \in compilations' => q \in Receipted'
        BY <4>1 DEF Receipted
      <4>3. r \notin compilations' => row.id = <<"title", Title[q]>>
        BY <4>1, <2>8
      <4>4. QED
        BY <4>2, <4>3, <3>2, <3>3
    <3>6. CASE Displaced(q)
      <4>1. PICK r \in compilations : r.id = <<"title", Title[q]>> /\ r.path # q
        BY <3>6 DEF Displaced
      <4>2. r \in compilations' => Displaced(q)'
        BY <4>1 DEF Displaced
      <4>3. r \notin compilations' => row.id = <<"title", Title[q]>>
        BY <4>1, <2>1, <2>2
      <4>4. QED
        BY <4>2, <4>3, <3>2, <3>3
    <3>7. QED
      BY <3>1, <3>4, <3>5, <3>6 DEF Receipted
  <2>10. VisibleIsAccountedFor'
    BY <2>9 DEF VisibleIsAccountedFor
  <2>11. QED
    BY <1>5, <2>4, <2>6, <2>7, <2>10, OneWorks DEF Kept
<1>8. QED
  BY <1>4, <1>6, <1>7

(* The page a writer renames has its row and its trace event. *)
LEMMA RenameWorks ==
    ASSUME OneProcess, IInv, TInv', NEW w \in Procs, Rename(w)
    PROVE  Working' /\ Kept'
<1>1. TInv /\ proc[w] \in Process /\ Flight(proc[w])
  BY DEF IInv, TInv, TypeOK, InFlight
<1>2. Writer(proc[w])
  BY DEF IInv, Working
<1> DEFINE p == proc[w].path
<1>3. p \in Pages /\ proc[w].op \in {"promote", "compile"}
  BY <1>1 DEF Rename, Flight
<1>4. /\ p \in Receipted
      /\ <<proc[w].op, p, tmp[p]>> \in trace
      /\ page' = [page EXCEPT ![p] = IF tmp[p] = None THEN @ ELSE tmp[p]]
      /\ UNCHANGED <<compilations, promotions, trace, produced>>
  BY <1>2 DEF Rename, Writer
<1>5. page \in [Pages -> Content \cup {None}]
  BY <1>1 DEF TInv, TypeOK
<1>6. \A q \in Pages : page'[q] = IF q = p /\ tmp[p] # None THEN tmp[p] ELSE page[q]
  BY <1>3, <1>4, <1>5
<1>7. VisibleIsAccountedFor'
  BY <1>4, <1>6 DEF IInv, Kept, VisibleIsAccountedFor, Receipted, Displaced
<1>8. ContentIsTraced'
  BY <1>3, <1>4, <1>6 DEF IInv, Kept, ContentIsTraced
<1>9. Rows'
  BY <1>4 DEF IInv, Kept, Rows, IdOf
<1>10. Working'
  BY <1>1, IdleWorks DEF Rename
<1>11. QED
  BY <1>7, <1>8, <1>9, <1>10 DEF Kept

LEMMA PromotionFailsWorks ==
    ASSUME OneProcess, IInv, TInv', NEW w \in Procs, PromotionFails(w)
    PROVE  Working' /\ Kept'
<1>1. TInv /\ Writer(proc[w])
  BY DEF IInv, Working
<1>2. PICK undo \in {"undo", "untmp"} : Goto(w, undo)
  BY DEF PromotionFails
<1>3. proc'[w].pc = undo /\ proc'[w].op = "promote" /\ proc'[w].path = proc[w].path
  BY <1>1, <1>2, GotoAfter DEF PromotionFails, Label
<1>4. Writer(proc[w])' /\ Linker(proc[w])'
  BY <1>1, <1>3 DEF PromotionFails, Writer, Linker, store
<1>5. Kept'
  BY <1>1, KeptQuietly DEF PromotionFails, IInv, store
<1>6. QED
  BY <1>4, <1>5, OneWorks

LEMMA UndoTmpWorks ==
    ASSUME OneProcess, IInv, TInv', NEW w \in Procs, UndoTmp(w) \/ SkipUndo(w)
    PROVE  Working' /\ Kept'
<1>1. TInv /\ Writer(proc[w]) /\ Flight(proc[w])
  BY DEF IInv, TInv, InFlight, Working
<1>2. proc[w].op = "promote" /\ page' = page
  BY <1>1 DEF UndoTmp, SkipUndo, Flight, store
<1>3. ASSUME Goto(w, "unrow") PROVE Working'
  <2>1. proc'[w].pc = "unrow" /\ proc'[w].op = "promote" /\ proc'[w].path = proc[w].path
    BY <1>1, <1>2, <1>3, GotoAfter DEF Label
  <2>2. Writer(proc[w])' /\ Linker(proc[w])'
    BY <1>1, <1>2, <2>1 DEF Writer, Linker
  <2>3. QED
    BY <2>2, OneWorks
<1>4. Working'
  BY <1>1, <1>3, IdleWorks DEF UndoTmp, SkipUndo
<1>5. Kept'
  BY <1>1, KeptQuietly DEF UndoTmp, SkipUndo, IInv, store
<1>6. QED
  BY <1>3, <1>4, <1>5

(* The row goes before there is a page. *)
LEMMA UndoRowWorks ==
    ASSUME OneProcess, IInv, TInv', NEW w \in Procs, UndoRow(w)
    PROVE  Working' /\ Kept'
<1>1. TInv /\ Writer(proc[w]) /\ Flight(proc[w])
  BY DEF IInv, TInv, InFlight, Working
<1> DEFINE p == proc[w].path
           row == [path |-> p, content |-> proc[w].content]
<1>2. page[p] = None /\ row.path = p
  BY <1>1 DEF UndoRow, Flight, Writer
<1>3. promotions' = promotions \ {row} /\ UNCHANGED <<page, compilations, trace, produced>>
  BY DEF UndoRow
<1> HIDE DEF row
<1>4. VisibleIsAccountedFor'
  BY <1>2, <1>3, ZenonT(40) DEF IInv, Kept, VisibleIsAccountedFor, Receipted, Displaced
<1>5. Rows' /\ ContentIsTraced'
  BY <1>3 DEF IInv, Kept, Rows, IdOf, ContentIsTraced
<1>6. Working'
  BY <1>1, IdleWorks DEF UndoRow
<1>7. QED
  BY <1>4, <1>5, <1>6 DEF Kept

-----------------------------------------------------------------------------
(* Unpromotion *)

LEMMA UnlinkWorks ==
    ASSUME OneProcess, IInv, TInv', NEW w \in Procs, Unlink(w)
    PROVE  Working' /\ Kept'
<1>1. TInv /\ Flight(proc[w]) /\ page \in [Pages -> Content \cup {None}]
  BY DEF IInv, TInv, TypeOK, InFlight
<1> DEFINE p == proc[w].path
<1>2. p \in Pages /\ page' = [page EXCEPT ![p] = None]
  BY <1>1 DEF Unlink, Flight
<1>3. Kept'
  BY <1>1, <1>2, KeptQuietly DEF Unlink, IInv
<1>4. CASE Goto(w, "delete")
  <2>1. proc'[w].pc = "delete" /\ proc'[w].op = "unpromote" /\ proc'[w].path = p
    BY <1>1, <1>4, GotoAfter DEF Unlink, Flight, Label
  <2>2. page'[p] = None
    BY <1>1, <1>2
  <2>3. Writer(proc[w])' /\ Linker(proc[w])'
    BY <2>1, <2>2 DEF Writer, Linker
  <2>4. QED
    BY <1>3, <2>3, OneWorks
<1>5. QED
  BY <1>1, <1>3, <1>4, IdleWorks DEF Unlink

(* The rows go after the page. *)
LEMMA DeleteRowsWorks ==
    ASSUME OneProcess, IInv, TInv', NEW w \in Procs, DeleteRows(w)
    PROVE  Working' /\ Kept'
<1>1. TInv /\ Writer(proc[w]) /\ Flight(proc[w])
  BY DEF IInv, TInv, InFlight, Working
<1> DEFINE p == proc[w].path
<1>2. page[p] = None
  BY <1>1 DEF DeleteRows, Writer
<1>3. promotions' = {r \in promotions : r.path # p}
      /\ UNCHANGED <<page, compilations, trace, produced>>
  BY DEF DeleteRows
<1>4. VisibleIsAccountedFor'
  BY <1>2, <1>3, ZenonT(40) DEF IInv, Kept, VisibleIsAccountedFor, Receipted, Displaced
<1>5. Rows' /\ ContentIsTraced'
  BY <1>3 DEF IInv, Kept, Rows, IdOf, ContentIsTraced
<1>6. proc'[w].pc = "untrace" /\ proc'[w].op = "unpromote"
  BY <1>1, GotoAfter DEF DeleteRows, Flight, Label
<1>7. Writer(proc[w])' /\ Linker(proc[w])'
  BY <1>6 DEF Writer, Linker
<1>8. QED
  BY <1>4, <1>5, <1>7, OneWorks DEF Kept

LEMMA TraceUnpromoteWorks ==
    ASSUME OneProcess, IInv, TInv', NEW w \in Procs, TraceUnpromote(w)
    PROVE  Working' /\ Kept'
BY IdleWorks, KeptQuietly DEF TraceUnpromote, IInv

-----------------------------------------------------------------------------
(* The link pass *)

LEMMA StageWorks ==
    ASSUME OneProcess, IInv, TInv', NEW w \in Procs, NEW p \in Pages, Stage(w, p)
    PROVE  Working' /\ Kept'
<1>1. TInv /\ proc[w] \in Process /\ Linker(proc[w]) /\ Flight(proc[w])
  BY DEF IInv, TInv, TypeOK, InFlight, Working
<1> DEFINE c == proc[w].content
           m == proc[w].moved \cup {<<p, c>>}
           t == proc[w].todo \ {p}
           r == [proc[w] EXCEPT !.todo = @ \ {p}, !.moved = @ \cup {<<p, proc[w].content>>}]
<1>2. r = Put(proc[w], proc[w].pc, proc[w].path, t, m)
  BY <1>1, PutStage
<1>3. proc'[w] = r
  <2>1. Become(w, r)
    BY DEF Stage
  <2> HIDE DEF r
  <2>2. QED
    BY <1>1, <2>1 DEF Become, TInv, TypeOK
<1> HIDE DEF r
<1>4. /\ proc'[w].pc = "stage" /\ proc'[w].op = "link" /\ proc'[w].content = c
      /\ proc'[w].todo = t /\ proc'[w].moved = m
  BY <1>1, <1>2, <1>3 DEF Put, Stage, Flight
<1>5. tmp' = [tmp EXCEPT ![p] = c] /\ page' = page /\ page[p] # None
  BY <1>1 DEF Stage, Linker
<1>6. \A n \in m : n[1] \in Pages
  BY <1>1 DEF Process
<1>7. \A n \in m : n[2] = c /\ tmp'[n[1]] = c /\ page'[n[1]] # None
  BY <1>1, <1>5, <1>6 DEF Stage, Linker, TInv, TypeOK
<1>8. Linker(proc[w])'
  BY <1>1, <1>4, <1>5, <1>7 DEF Stage, Linker
<1>9. Writer(proc[w])'
  BY <1>4 DEF Writer
<1>10. Kept'
  BY <1>1, KeptQuietly DEF Stage, IInv
<1>11. QED
  BY <1>8, <1>9, <1>10, OneWorks

LEMMA TraceLinkWorks ==
    ASSUME OneProcess, IInv, TInv', NEW w \in Procs, TraceLink(w)
    PROVE  Working' /\ Kept'
<1>1. TInv /\ Linker(proc[w]) /\ Flight(proc[w])
  BY DEF IInv, TInv, InFlight, Working
<1>2. /\ proc'[w].pc = "publish" /\ proc'[w].op = "link"
      /\ proc'[w].content = proc[w].content /\ proc'[w].moved = proc[w].moved
  BY <1>1, GotoAfter DEF TraceLink, Flight, Label
<1>3. \A m \in proc[w].moved : <<"link", m[1], m[2]>> \in trace'
  BY DEF TraceLink
<1>4. Linker(proc[w])'
  BY <1>1, <1>2, <1>3 DEF TraceLink, Linker
<1>5. Writer(proc[w])'
  BY <1>2 DEF Writer
<1>6. Kept'
  BY <1>1, KeptQuietly DEF TraceLink, IInv
<1>7. QED
  BY <1>4, <1>5, <1>6, OneWorks

(* A page that is rewritten was visible, and so it keeps its row. *)
LEMMA PublishWorks ==
    ASSUME OneProcess, IInv, TInv', NEW w \in Procs, NEW p \in Pages, Publish(w, p)
    PROVE  Working' /\ Kept'
<1>1. TInv /\ proc[w] \in Process /\ Linker(proc[w]) /\ Flight(proc[w])
  BY DEF IInv, TInv, TypeOK, InFlight, Working
<1> DEFINE c == proc[w].content
           m == proc[w].moved \ {<<p, c>>}
           r == [proc[w] EXCEPT !.moved = @ \ {<<p, proc[w].content>>}]
<1>2. /\ <<p, c>> \in proc[w].moved /\ tmp[p] = c /\ page[p] # None
      /\ <<"link", p, c>> \in trace
  BY <1>1 DEF Publish, Linker
<1>3. c # None
  BY <1>1, ConstantsAssumption DEF Process, Content
<1>4. page' = [page EXCEPT ![p] = c] /\ tmp' = [tmp EXCEPT ![p] = None]
      /\ UNCHANGED <<compilations, promotions, trace, produced>>
  BY <1>2, <1>3 DEF Publish
<1>5. \A q \in Pages : page'[q] = IF q = p THEN c ELSE page[q]
  BY <1>1, <1>4 DEF TInv, TypeOK
<1>6. VisibleIsAccountedFor'
  BY <1>2, <1>4, <1>5 DEF IInv, Kept, VisibleIsAccountedFor, Receipted, Displaced
<1>7. ContentIsTraced'
  BY <1>2, <1>4, <1>5 DEF IInv, Kept, ContentIsTraced
<1>8. Rows'
  BY <1>4 DEF IInv, Kept, Rows, IdOf
<1>9. ASSUME Become(w, r) PROVE Working'
  <2>1. r = Put(proc[w], proc[w].pc, proc[w].path, proc[w].todo, m)
    BY <1>1, PutOne
  <2> HIDE DEF r
  <2>2. proc'[w] = r
    BY <1>1, <1>9 DEF Become, TInv, TypeOK
  <2>3. /\ proc'[w].pc = "publish" /\ proc'[w].op = "link" /\ proc'[w].content = c
        /\ proc'[w].moved = m
    BY <1>1, <2>1, <2>2 DEF Put, Publish, Flight
  <2>4. \A n \in m : n[1] \in Pages /\ n[2] = c /\ n # <<p, c>> /\ n = <<n[1], n[2]>>
    BY <1>1 DEF Process, Publish, Linker
  <2>a. ASSUME NEW n \in m
        PROVE  tmp'[n[1]] = c /\ page'[n[1]] # None /\ <<"link", n[1], n[2]>> \in trace'
    <3>1. tmp[n[1]] = c /\ page[n[1]] # None /\ <<"link", n[1], n[2]>> \in trace
      BY <1>1 DEF Publish, Linker
    <3>2. n[1] \in Pages /\ n[1] # p
      BY <2>4
    <3>3. tmp'[n[1]] = tmp[n[1]] /\ page'[n[1]] = page[n[1]]
      BY <1>1, <1>4, <1>5, <3>2 DEF TInv, TypeOK
    <3>4. QED
      BY <1>4, <3>1, <3>3
  <2>5. \A n \in m : tmp'[n[1]] = c /\ page'[n[1]] # None /\ <<"link", n[1], n[2]>> \in trace'
    BY <2>a
  <2>6. Linker(proc[w])'
    BY <2>3, <2>4, <2>5 DEF Linker
  <2>7. Writer(proc[w])'
    BY <2>3 DEF Writer
  <2>8. QED
    BY <2>6, <2>7, OneWorks
<1>10. Return(w) \/ Become(w, r)
  BY DEF Publish
<1> HIDE DEF r
<1>11. Working'
  BY <1>1, <1>9, <1>10, IdleWorks
<1>12. QED
  BY <1>6, <1>7, <1>8, <1>11 DEF Kept

-----------------------------------------------------------------------------
(* Reconciliation *)

(* A step of a reconciliation hides pages or leaves them, and what a writer *)
(* or the link pass relies on is no concern of it.                          *)
LEMMA WalkWorks ==
    ASSUME OneProcess, IInv, TInv', NEW w \in Procs,
           proc'[w].op \in {"reconcile", "none"},
           UNCHANGED <<compilations, promotions, produced>>, trace \subseteq trace',
           \A q \in Pages : page'[q] \in {page[q], None}
    PROVE  Working' /\ Kept'
<1>1. Flight(proc[w])'
  BY DEF TInv, InFlight
<1>2. Writer(proc[w])' /\ Linker(proc[w])'
  BY <1>1 DEF Flight, Writer, Linker
<1>3. Kept'
  BY KeptQuietly DEF IInv
<1>4. QED
  BY <1>2, <1>3, OneWorks

LEMMA VisitWorks ==
    ASSUME OneProcess, IInv, TInv', NEW w \in Procs, NEW p \in Pages,
           Visit(w, p) \/ Overlook(w, p)
    PROVE  Working' /\ Kept'
<1>1. TInv /\ proc[w] \in Process /\ Flight(proc[w])
  BY DEF IInv, TInv, TypeOK, InFlight
<1> DEFINE t == proc[w].todo \ {p}
           a == [proc[w] EXCEPT !.todo = @ \ {p}]
           b == [proc[w] EXCEPT !.todo = @ \ {p}, !.pc = "move", !.path = p]
<1>2. a = Put(proc[w], proc[w].pc, proc[w].path, t, proc[w].moved)
  BY <1>1, PutOne
<1>3. b = Put(proc[w], "move", p, t, proc[w].moved)
  BY <1>1, PutVisit
<1>4. Become(w, a) \/ Become(w, b)
  BY DEF Visit, Overlook
<1>5. UNCHANGED <<page, compilations, promotions, trace, produced>>
  BY DEF Visit, Overlook, store
<1>6. proc[w].op = "reconcile"
  BY <1>1 DEF Visit, Overlook, Flight
<1> HIDE DEF a, b
<1>7. proc'[w] \in {a, b}
  BY <1>1, <1>4 DEF Become, TInv, TypeOK
<1>8. proc'[w].op = "reconcile"
  BY <1>2, <1>3, <1>6, <1>7 DEF Put
<1>9. QED
  BY <1>5, <1>8, WalkWorks

LEMMA MoveWorks ==
    ASSUME OneProcess, IInv, TInv', NEW w \in Procs, Move(w)
    PROVE  Working' /\ Kept'
<1>1. TInv /\ proc[w] \in Process /\ Flight(proc[w])
  BY DEF IInv, TInv, TypeOK, InFlight
<1> DEFINE p == proc[w].path
           m == proc[w].moved \cup {<<p, page[p]>>}
           a == [proc[w] EXCEPT !.pc = "walk", !.path = None, !.moved = m]
<1>2. a = Put(proc[w], "walk", None, proc[w].todo, m)
  <2> HIDE DEF m
  <2>1. QED
    BY <1>1, PutMove
<1>3. UNCHANGED <<compilations, promotions, trace, produced>>
  BY DEF Move
<1>4. \A q \in Pages : page'[q] \in {page[q], None}
  BY <1>1 DEF Move, TInv, TypeOK
<1>5. Return(w) \/ Become(w, a)
  BY DEF Move
<1> HIDE DEF a, m
<1>6. CASE Return(w)
  BY <1>1, <1>3, <1>4, <1>6, IdleWorks, KeptQuietly DEF IInv
<1>7. CASE Become(w, a)
  <2>1. proc[w].op = "reconcile"
    BY <1>1 DEF Move, Flight
  <2>2. proc'[w].op = "reconcile"
    BY <1>1, <1>2, <1>7, <2>1 DEF Become, Put, TInv, TypeOK
  <2>3. QED
    BY <1>3, <1>4, <2>2, WalkWorks
<1>8. QED
  BY <1>5, <1>6, <1>7

LEMMA SweepWorks ==
    ASSUME OneProcess, IInv, TInv', NEW w \in Procs, Sweep(w)
    PROVE  Working' /\ Kept'
<1>1. TInv /\ proc[w] \in Process /\ Flight(proc[w])
  BY DEF IInv, TInv, TypeOK, InFlight
<1>2. PICK m : Become(w, [proc[w] EXCEPT !.pc = "report", !.moved = m])
  BY DEF Sweep
<1> DEFINE a == [proc[w] EXCEPT !.pc = "report", !.moved = m]
<1>3. a = Put(proc[w], "report", proc[w].path, proc[w].todo, m)
  BY <1>1, PutSweep
<1> HIDE DEF a
<1>4. proc'[w] = a
  BY <1>1, <1>2 DEF Become, TInv, TypeOK, a
<1>5. proc[w].op = "reconcile"
  BY <1>1 DEF Sweep, Flight
<1>6. proc'[w].op = "reconcile"
  BY <1>3, <1>4, <1>5 DEF Put
<1>7. UNCHANGED <<page, compilations, promotions, trace, produced>>
  BY DEF Sweep
<1>8. QED
  BY <1>6, <1>7, WalkWorks

LEMMA ReportWorks ==
    ASSUME OneProcess, IInv, TInv', NEW w \in Procs, Report(w)
    PROVE  Working' /\ Kept'
<1>1. TInv
  BY DEF IInv
<1>2. Kept'
  BY <1>1, KeptQuietly DEF Report, IInv
<1>3. QED
  BY <1>1, <1>2, IdleWorks DEF Report

-----------------------------------------------------------------------------
(* Beginnings, faults and the world around *)

LEMMA StartWorks ==
    ASSUME OneProcess, IInv, TInv', NEW w \in Procs, Start(w)
    PROVE  Working' /\ Kept'
<1>1. TInv /\ proc \in [Procs -> Process] /\ produced \in Nat
  BY DEF IInv, TInv, TypeOK
<1>2. ASSUME NEW p \in Pages, StartPromote(w, p) \/ StartUnpromote(w, p)
      PROVE  Working' /\ Kept'
  <2>1. \/ proc'[w] = Doing("tmp", "promote", p, produced + 1, {}, {}) /\ page[p] = None
        \/ proc'[w] = Doing("unlink", "unpromote", p, 0, {}, {})
    BY <1>1, <1>2 DEF StartPromote, StartUnpromote, Become
  <2>2. Writer(proc[w])' /\ Linker(proc[w])'
    BY <1>2, <2>1 DEF StartPromote, StartUnpromote, Doing, Writer, Linker, store
  <2>3. Kept'
    BY <1>1, <1>2, KeptQuietly DEF StartPromote, StartUnpromote, IInv, store
  <2>4. QED
    BY <2>2, <2>3, OneWorks
<1>3. ASSUME NEW p \in Pages, StartCompile(w, p) PROVE Working' /\ Kept'
  <2>1. proc'[w] = Doing("tmp", "compile", p, produced + 1, {}, {})
        /\ produced' = produced + 1 /\ compilations' = compilations
    BY <1>1, <1>3 DEF StartCompile, Become, store
  <2>2. \A r \in compilations : r.content < produced + 1
    BY <1>1 DEF IInv, Kept, Rows, TInv, TypeOK, Content
  <2>3. Writer(proc[w])' /\ Linker(proc[w])'
    BY <1>1, <2>1, <2>2 DEF Doing, Writer, Linker
  <2>4. Kept'
    BY <1>1, <1>3, KeptQuietly DEF StartCompile, IInv, store
  <2>5. QED
    BY <2>3, <2>4, OneWorks
<1>4. ASSUME NEW pages \in SUBSET Pages, StartLink(w, pages) PROVE Working' /\ Kept'
  <2>1. proc'[w] = Doing("stage", "link", None, produced + 1, {}, pages)
        /\ \A p \in pages : page'[p] # None
    BY <1>1, <1>4 DEF StartLink, Become, store
  <2>2. Writer(proc[w])' /\ Linker(proc[w])'
    BY <2>1 DEF Doing, Writer, Linker
  <2>3. Kept'
    BY <1>1, <1>4, KeptQuietly DEF StartLink, IInv, store
  <2>4. QED
    BY <2>2, <2>3, OneWorks
<1>5. ASSUME StartReconcile(w) PROVE Working' /\ Kept'
  <2>1. proc'[w] = Doing("walk", "reconcile", None, 0, Receipted, Pages)
    BY <1>1, <1>5 DEF StartReconcile, Become
  <2>2. Receipted' = Receipted
    BY <1>5 DEF StartReconcile, store, Receipted
  <2>3. Writer(proc[w])' /\ Linker(proc[w])'
    BY <2>1, <2>2 DEF Doing, Writer, Linker
  <2>4. Kept'
    BY <1>1, <1>5, KeptQuietly DEF StartReconcile, IInv, store
  <2>5. QED
    BY <2>3, <2>4, OneWorks
<1>6. QED
  BY <1>2, <1>3, <1>4, <1>5 DEF Start

LEMMA AroundWorks ==
    ASSUME OneProcess, IInv, TInv',
           \/ \E w \in Procs : Stop(w)
           \/ \E p \in Pages : Age(p) \/ HandCopy(p)
    PROVE  Working' /\ Kept'
<1>1. TInv
  BY DEF IInv
<1>2. ASSUME NEW w \in Procs, Stop(w) PROVE Working' /\ Kept'
  BY <1>1, <1>2, IdleWorks, KeptQuietly DEF Stop, store, IInv
<1>3. ASSUME NEW p \in Pages, Age(p) PROVE Working' /\ Kept'
  <2>1. UNCHANGED <<page, tmp, compilations, promotions, trace, proc, produced>>
    BY <1>3 DEF Age
  <2>2. Working'
    BY <2>1 DEF IInv, Working, Writer, Linker, Receipted
  <2>3. QED
    BY <1>1, <2>1, <2>2, KeptQuietly DEF IInv
<1>4. ASSUME NEW p \in Pages, HandCopy(p) PROVE Working' /\ Kept'
  <2>1. UNCHANGED <<compilations, promotions, trace, proc>> /\ produced' = produced + 1
    BY <1>4 DEF HandCopy
  <2>2. \A w \in Procs : proc'[w].pc = "idle" /\ proc'[w].op = "none"
    BY <1>1, <1>4 DEF HandCopy, TInv, InFlight, Flight
  <2>3. Working'
    BY <2>2 DEF Working, Writer, Linker
  <2>4. \A q \in Pages \ HandMade : page'[q] = page[q]
    BY <1>1, <1>4 DEF HandCopy, TInv, TypeOK
  <2>5. VisibleIsAccountedFor' /\ ContentIsTraced'
    BY <2>1, <2>4 DEF IInv, Kept, VisibleIsAccountedFor, ContentIsTraced, Receipted, Displaced
  <2>6. Rows'
    <3>1. \A r \in compilations : r.id = IdOf(r.path, r.content) /\ r.content <= produced
      BY DEF IInv, Kept, Rows
    <3>2. \A r \in compilations : r.content \in Nat
      BY <1>1 DEF TInv, TypeOK, Content
    <3>3. produced \in Nat
      BY <1>1 DEF TInv, TypeOK
    <3>4. QED
      BY <2>1, <3>1, <3>2, <3>3 DEF Rows
  <2>7. QED
    BY <2>3, <2>5, <2>6 DEF Kept
<1>5. QED
  BY <1>2, <1>3, <1>4

-----------------------------------------------------------------------------
(* The theorems *)

LEMMA InitWorks == Init => IInv
<1> SUFFICES ASSUME Init PROVE IInv
  OBVIOUS
<1>1. TInv
  BY InitType
<1>2. Kept
  BY DEF Init, Kept, Rows, VisibleIsAccountedFor, ContentIsTraced
<1>3. \A w \in Procs : proc[w].pc = "idle" /\ proc[w].op = "none"
  BY DEF Init, Idle, Doing
<1>4. Working
  BY <1>3 DEF Working, Writer, Linker
<1>5. QED
  BY <1>1, <1>2, <1>4 DEF IInv

LEMMA NextWorks == OneProcess /\ IInv /\ [Next]_vars => IInv'
<1> SUFFICES ASSUME OneProcess, IInv, [Next]_vars PROVE IInv'
  OBVIOUS
<1>1. TInv'
  BY NextType DEF IInv
<1>2. CASE UNCHANGED vars
  <2>1. UNCHANGED <<page, tmp, compilations, promotions, trace, proc, produced>>
    BY <1>2 DEF vars
  <2>2. Working'
    BY <2>1 DEF IInv, Working, Writer, Linker, Receipted
  <2>3. Kept'
    BY <1>1, <2>1, KeptQuietly DEF IInv
  <2>4. QED
    BY <1>1, <2>2, <2>3 DEF IInv
<1>3. ASSUME NEW w \in Procs, Start(w) PROVE IInv'
  BY <1>1, <1>3, StartWorks DEF IInv
<1>4. ASSUME NEW w \in Procs, WriterStep(w) PROVE IInv'
  <2>1. CASE WriteTmp(w) \/ InsertRow(w) \/ WriteTrace(w) \/ Rename(w)
    BY <1>1, <2>1, WriteTmpWorks, InsertRowWorks, WriteTraceWorks, RenameWorks DEF IInv
  <2>2. CASE UndoTmp(w) \/ UndoRow(w)
    BY <1>1, <2>2, UndoTmpWorks, UndoRowWorks DEF IInv
  <2>3. CASE TraceLink(w) \/ \E p \in Pages : Stage(w, p) \/ Publish(w, p)
    BY <1>1, <2>3, TraceLinkWorks, StageWorks, PublishWorks DEF IInv
  <2>4. CASE Unlink(w) \/ DeleteRows(w) \/ TraceUnpromote(w)
    BY <1>1, <2>4, UnlinkWorks, DeleteRowsWorks, TraceUnpromoteWorks DEF IInv
  <2>5. CASE (\E p \in Pages : Visit(w, p)) \/ Move(w) \/ Sweep(w) \/ Report(w)
    BY <1>1, <2>5, VisitWorks, MoveWorks, SweepWorks, ReportWorks DEF IInv
  <2>6. QED
    BY <1>4, <2>1, <2>2, <2>3, <2>4, <2>5 DEF WriterStep
<1>5. ASSUME NEW w \in Procs, PromotionFails(w) \/ SkipUndo(w) PROVE IInv'
  BY <1>1, <1>5, PromotionFailsWorks, UndoTmpWorks DEF IInv
<1>6. ASSUME NEW w \in Procs, NEW p \in Pages, Overlook(w, p) PROVE IInv'
  BY <1>1, <1>6, VisitWorks DEF IInv
<1>7. QED
  BY <1>1, <1>2, <1>3, <1>4, <1>5, <1>6, AroundWorks DEF Next, IInv

LEMMA Invariant == ASSUME OneProcess PROVE Spec => []IInv
<1>1. IInv /\ [Next]_vars => IInv'
  BY NextWorks
<1>2. QED
  BY <1>1, InitWorks, PTL DEF Spec

(* Whatever one process does, at whatever step it fails or dies and however *)
(* often it starts again: a visible page that nobody made by hand has a row *)
(* or lost it to a page of the same title.                                  *)
THEOREM OneProcessAccountsForPages ==
    ASSUME OneProcess PROVE Spec => []VisibleIsAccountedFor
<1>1. IInv => VisibleIsAccountedFor
  BY DEF IInv, Kept
<1>2. QED
  BY <1>1, Invariant, PTL

(* Likewise the content of each visible page was traced for that page. *)
THEOREM OneProcessTracesContent ==
    ASSUME OneProcess PROVE Spec => []ContentIsTraced
<1>1. IInv => ContentIsTraced
  BY DEF IInv, Kept
<1>2. QED
  BY <1>1, Invariant, PTL
=============================================================================
