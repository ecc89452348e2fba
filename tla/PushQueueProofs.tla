--------------------------- MODULE PushQueueProofs ---------------------------
(***************************************************************************)
(* Theorems about PushQueue, for every set of filepaths, inodes, documents *)
(* and permits, any number of writes and any set of hazards.               *)
(***************************************************************************)
EXTENDS PushQueue, TLAPS

(***************************************************************************)
(* The operators on rows.                                                  *)
(***************************************************************************)

(* A write is not NULL, so a filepath either has no row or a present one.  *)
LEMMA NoWriteIsNoWrite == NoWrite \notin Write
BY DEF NoWrite, Write, ContentWrite, DeleteWrite, RenameWrite

LEMMA RowCases ==
  ASSUME NEW r \in Row
  PROVE  /\ Present(r) => r \in TableRow
         /\ ~Present(r) => r = NoRow
BY NoWriteIsNoWrite DEF Row, TableRow, Present, NoRow

LEMMA NoRowFields ==
  /\ NoRow \in Row
  /\ NoRow.main = NoWrite /\ NoRow.pend = NoWrite /\ NoRow.rid = None
  /\ ~NoRow.inflight /\ ~NoRow.poisoned /\ ~Present(NoRow)
BY DEF NoRow, Row, Present

LEMMA InflightIsPresent ==
  ASSUME NEW r \in Row, r.inflight
  PROVE  Present(r)
BY RowCases, NoRowFields

LEMMA RowFields ==
  ASSUME NEW r \in Row
  PROVE  /\ r.main \in Slot /\ r.pend \in Slot /\ r.rid \in Doc \cup {None}
BY DEF Row, TableRow, NoRow, Slot

(* What an upsert leaves: the new write in one of the two slots.           *)
LEMMA UpsertParks ==
  ASSUME NEW r \in Row, NEW w \in Write, NEW rid \in Doc \cup {None},
         NEW due \in BOOLEAN, r.inflight
  PROVE  /\ Upserted(r, w, rid, due) \in Row
         /\ Upserted(r, w, rid, due).main = r.main
         /\ Upserted(r, w, rid, due).pend = w
         /\ Upserted(r, w, rid, due).inflight = r.inflight
         /\ Upserted(r, w, rid, due).poisoned = r.poisoned
<1>1. r \in TableRow
  BY RowCases, InflightIsPresent
<1>2. Upserted(r, w, rid, due) = [r EXCEPT !.pend = w, !.due = due]
  BY DEF Upserted
<1>3. [r EXCEPT !.pend = w, !.due = due] \in TableRow
  BY <1>1, Zenon DEF TableRow, Slot
<1>4. /\ [r EXCEPT !.pend = w, !.due = due].main = r.main
      /\ [r EXCEPT !.pend = w, !.due = due].pend = w
      /\ [r EXCEPT !.pend = w, !.due = due].inflight = r.inflight
      /\ [r EXCEPT !.pend = w, !.due = due].poisoned = r.poisoned
  BY <1>1, Zenon DEF TableRow
<1> QED
  BY <1>2, <1>3, <1>4, Zenon DEF Row

LEMMA UpsertReplaces ==
  ASSUME NEW r \in Row, NEW w \in Write, NEW rid \in Doc \cup {None},
         NEW due \in BOOLEAN, ~r.inflight
  PROVE  /\ Upserted(r, w, rid, due) \in Row
         /\ Upserted(r, w, rid, due).main = w
         /\ Upserted(r, w, rid, due).pend = r.pend
         /\ Upserted(r, w, rid, due).inflight = r.inflight
         /\ Upserted(r, w, rid, due).poisoned = r.poisoned
<1> DEFINE new == [r EXCEPT !.main = w, !.rid = Coalesce(rid, @), !.due = due]
<1>1. Upserted(r, w, rid, due) = new
  BY DEF Upserted
<1>2. r \in [main : Slot, pend : Slot, rid : Doc \cup {None},
            inflight : BOOLEAN, due : BOOLEAN, poisoned : BOOLEAN]
  <2>1. NoWrite \in Slot
    BY DEF Slot
  <2>2. None \in Doc \cup {None}
    OBVIOUS
  <2>3. CASE r = NoRow
    BY <2>1, <2>2, <2>3, Zenon DEF NoRow
  <2>4. CASE r \in TableRow
    BY <2>4, Zenon DEF TableRow, Slot
  <2> QED
    BY <2>3, <2>4 DEF Row
<1>3. Coalesce(rid, r.rid) \in Doc \cup {None}
  BY <1>2 DEF Coalesce
<1>4. /\ new \in TableRow
      /\ new.main = w /\ new.pend = r.pend
      /\ new.inflight = r.inflight /\ new.poisoned = r.poisoned
  BY <1>2, <1>3, Zenon DEF TableRow
<1> QED
  BY <1>1, <1>4, Zenon DEF Row

(* A claim marks a row and changes nothing else.                           *)
LEMMA ClaimMarks ==
  ASSUME NEW r \in Row, Claimable(r)
  PROVE  /\ Claimed(r) \in Row
         /\ Claimed(r).main = r.main /\ Claimed(r).pend = r.pend
         /\ Claimed(r).inflight
         /\ Claimed(r).poisoned = r.poisoned
<1>1. r \in TableRow
  BY RowCases DEF Claimable
<1>2. /\ Claimed(r) \in TableRow
      /\ Claimed(r).main = r.main /\ Claimed(r).pend = r.pend
      /\ Claimed(r).inflight = TRUE
      /\ Claimed(r).poisoned = r.poisoned
  BY <1>1, Zenon DEF Claimed, TableRow
<1> QED
  BY <1>2, Zenon DEF Row

(* The end of a delay makes a row due and changes nothing else.            *)
LEMMA ElapseMarks ==
  ASSUME NEW r \in Row, Present(r)
  PROVE  /\ [r EXCEPT !.due = TRUE] \in Row
         /\ [r EXCEPT !.due = TRUE].main = r.main
         /\ [r EXCEPT !.due = TRUE].pend = r.pend
         /\ [r EXCEPT !.due = TRUE].inflight = r.inflight
         /\ [r EXCEPT !.due = TRUE].poisoned = r.poisoned
<1>1. r \in TableRow
  BY RowCases
<1> QED
  BY <1>1, Zenon DEF TableRow, Row

LEMMA StampMarks ==
  ASSUME NEW r \in Row, NEW rid \in Doc \cup {None}
  PROVE  /\ Stamped(r, rid) \in Row
         /\ Stamped(r, rid).main = r.main /\ Stamped(r, rid).pend = r.pend
         /\ Stamped(r, rid).inflight = r.inflight
         /\ Stamped(r, rid).poisoned = r.poisoned
<1>1. CASE ~Present(r)
  BY <1>1 DEF Stamped, Updated
<1>2. CASE Present(r)
  <2>1. r \in TableRow
    BY <1>2, RowCases
  <2>2. Stamped(r, rid) = [r EXCEPT !.rid = rid]
    BY <1>2 DEF Stamped, Updated
  <2> QED
    BY <2>1, <2>2, Zenon DEF TableRow, Row
<1> QED
  BY <1>1, <1>2

(* However a task ends, its row is released: it has a next write to send,  *)
(* the same write to send again, or it is gone.                            *)
LEMMA SuccessReleases ==
  ASSUME NEW r \in Row
  PROVE  /\ Succeeded(r) \in Row
         /\ Succeeded(r).main = r.pend /\ Succeeded(r).pend = NoWrite
         /\ ~Succeeded(r).inflight
         /\ Succeeded(r).poisoned => r.poisoned
<1>1. CASE r.pend = NoWrite
  BY <1>1, NoRowFields DEF Succeeded
<1>2. CASE r.pend # NoWrite
  <2>1. r \in TableRow
    BY <1>2, RowCases, NoRowFields
  <2>2. r.pend \in Write
    BY <1>2, <2>1 DEF TableRow, Slot
  <2>3. NoWrite \in Slot
    BY DEF Slot
  <2> DEFINE new == [r EXCEPT !.main = r.pend, !.pend = NoWrite,
                              !.inflight = FALSE, !.due = TRUE]
  <2>4. Succeeded(r) = new
    BY <1>2 DEF Succeeded
  <2>5. /\ new \in TableRow
        /\ new.main = r.pend /\ new.pend = NoWrite
        /\ new.inflight = FALSE /\ new.poisoned = r.poisoned
    BY <2>1, <2>2, <2>3, Zenon DEF TableRow
  <2> QED
    BY <2>4, <2>5, Zenon DEF Row
<1> QED
  BY <1>1, <1>2

LEMMA FailureReleases ==
  ASSUME NEW r \in Row, NEW due \in BOOLEAN
  PROVE  /\ Failed(r, due) \in Row
         /\ Failed(r, due).main = r.main /\ Failed(r, due).pend = r.pend
         /\ ~Failed(r, due).inflight
         /\ Failed(r, due).poisoned = r.poisoned
<1>1. CASE ~Present(r)
  BY <1>1, InflightIsPresent DEF Failed, Updated
<1>2. CASE Present(r)
  <2>1. r \in TableRow
    BY <1>2, RowCases
  <2>2. Failed(r, due) = [r EXCEPT !.inflight = FALSE, !.due = due]
    BY <1>2 DEF Failed, Updated
  <2>3. /\ [r EXCEPT !.inflight = FALSE, !.due = due] \in TableRow
        /\ [r EXCEPT !.inflight = FALSE, !.due = due].inflight = FALSE
        /\ [r EXCEPT !.inflight = FALSE, !.due = due].main = r.main
        /\ [r EXCEPT !.inflight = FALSE, !.due = due].pend = r.pend
        /\ [r EXCEPT !.inflight = FALSE, !.due = due].poisoned = r.poisoned
    BY <2>1, Zenon DEF TableRow
  <2> QED
    BY <2>2, <2>3, Zenon DEF Row
<1> QED
  BY <1>1, <1>2

LEMMA Clear404Releases ==
  ASSUME NEW r \in Row
  PROVE  /\ ClearedAfter404(r) \in Row
         /\ ClearedAfter404(r).main = r.main /\ ClearedAfter404(r).pend = r.pend
         /\ ~ClearedAfter404(r).inflight
         /\ ClearedAfter404(r).poisoned = r.poisoned
<1>1. CASE ~Present(r)
  BY <1>1, InflightIsPresent DEF ClearedAfter404, Updated
<1>2. CASE Present(r)
  <2> DEFINE new == [r EXCEPT !.rid = None, !.inflight = FALSE, !.due = TRUE]
  <2>1. r \in TableRow
    BY <1>2, RowCases
  <2>2. ClearedAfter404(r) = new
    BY <1>2 DEF ClearedAfter404, Updated
  <2>3. None \in Doc \cup {None}
    OBVIOUS
  <2>4. /\ new \in TableRow
        /\ new.main = r.main /\ new.pend = r.pend
        /\ new.inflight = FALSE /\ new.poisoned = r.poisoned
    BY <2>1, <2>3, Zenon DEF TableRow
  <2> QED
    BY <2>2, <2>4, Zenon DEF Row
<1> QED
  BY <1>1, <1>2

LEMMA PoisonReleases ==
  ASSUME NEW r \in Row
  PROVE  /\ Poisoned(r) \in Row
         /\ Poisoned(r).main = r.main /\ Poisoned(r).pend = r.pend
         /\ ~Poisoned(r).inflight
         /\ Present(r) => Poisoned(r).poisoned
<1>1. CASE ~Present(r)
  BY <1>1, InflightIsPresent DEF Poisoned, Updated
<1>2. CASE Present(r)
  <2> DEFINE new == [r EXCEPT !.poisoned = TRUE, !.inflight = FALSE,
                              !.due = TRUE]
  <2>1. r \in TableRow
    BY <1>2, RowCases
  <2>2. Poisoned(r) = new
    BY <1>2 DEF Poisoned, Updated
  <2>3. /\ new \in TableRow
        /\ new.main = r.main /\ new.pend = r.pend
        /\ new.inflight = FALSE /\ new.poisoned = TRUE
    BY <2>1, Zenon DEF TableRow
  <2> QED
    BY <2>2, <2>3, Zenon DEF Row
<1> QED
  BY <1>1, <1>2

(* A retargeted row keeps its writes, numbered after those of the filepath *)
(* it moves to; Newest is the greater of its two numbers.                  *)
LEMMA RenumberedIsWrite ==
  ASSUME NEW w \in Write, NEW shift \in Nat
  PROVE  /\ Renumbered(w, shift) \in Write
         /\ Renumbered(w, shift).n = w.n + shift
<1>1. w.n \in Nat
  BY DEF Write, ContentWrite, DeleteWrite, RenameWrite
<1>2. Renumbered(w, shift) = [w EXCEPT !.n = w.n + shift]
  BY NoWriteIsNoWrite DEF Renumbered
<1>3. w.n + shift \in Nat
  BY <1>1
<1>4. /\ [w EXCEPT !.n = w.n + shift] \in Write
      /\ [w EXCEPT !.n = w.n + shift].n = w.n + shift
  BY <1>3 DEF Write, ContentWrite, DeleteWrite, RenameWrite
<1> QED
  BY <1>2, <1>4

LEMMA SlotNumbers ==
  ASSUME NEW s \in Slot
  PROVE  s.n \in Nat /\ (s = NoWrite => s.n = 0)
BY DEF Slot, NoWrite, Write, ContentWrite, DeleteWrite, RenameWrite

LEMMA RenumberedSlot ==
  ASSUME NEW s \in Slot, NEW shift \in Nat
  PROVE  /\ Renumbered(s, shift) \in Slot
         /\ s = NoWrite => Renumbered(s, shift) = NoWrite
         /\ s # NoWrite => Renumbered(s, shift).n = s.n + shift
<1>1. CASE s = NoWrite
  BY <1>1 DEF Renumbered
<1>2. CASE s # NoWrite
  BY <1>2, RenumberedIsWrite DEF Slot
<1> QED
  BY <1>1, <1>2

LEMMA RetargetMoves ==
  ASSUME NEW r \in Row, Retargetable(r), NEW shift \in Nat,
         NEW rid \in Doc \cup {None}
  PROVE  /\ Retargeted(r, shift, rid) \in Row
         /\ Retargeted(r, shift, rid).main = Renumbered(r.main, shift)
         /\ Retargeted(r, shift, rid).pend = Renumbered(r.pend, shift)
         /\ ~Retargeted(r, shift, rid).inflight
         /\ Retargeted(r, shift, rid).poisoned = r.poisoned
         /\ r.main \in Write
<1> DEFINE new == [r EXCEPT !.main = Renumbered(r.main, shift),
                            !.pend = Renumbered(r.pend, shift),
                            !.rid = Coalesce(rid, r.rid), !.due = TRUE]
<1>1. Present(r)
  BY DEF Retargetable, Present, NoWrite
<1>2. r \in TableRow
  BY <1>1, RowCases
<1>3. r.main \in Write /\ r.pend \in Slot /\ ~r.inflight
  BY <1>2 DEF TableRow, Retargetable
<1>4. Renumbered(r.main, shift) \in Write
  BY <1>3, RenumberedIsWrite
<1>5. Renumbered(r.pend, shift) \in Slot
  BY <1>3, RenumberedSlot
<1>6. Coalesce(rid, r.rid) \in Doc \cup {None}
  BY <1>2 DEF Coalesce, TableRow
<1>7. Retargeted(r, shift, rid) = new
  BY DEF Retargeted
<1>8. /\ new \in TableRow
      /\ new.main = Renumbered(r.main, shift)
      /\ new.pend = Renumbered(r.pend, shift)
      /\ new.inflight = r.inflight /\ new.poisoned = r.poisoned
  BY <1>2, <1>4, <1>5, <1>6, Zenon DEF TableRow
<1> HIDE DEF new
<1> QED
  BY <1>3, <1>7, <1>8, Zenon DEF Row

LEMMA NewestIsNewest ==
  ASSUME NEW r \in Row
  PROVE  /\ Newest(r) \in Nat
         /\ r.main.n <= Newest(r) /\ r.pend.n <= Newest(r)
         /\ Newest(r) \in {r.main.n, r.pend.n}
BY RowFields, SlotNumbers DEF Newest
-----------------------------------------------------------------------------
(***************************************************************************)
(* The steps.  An upsert is seen here as one of a write, whatever its op.  *)
(***************************************************************************)
Put(p, w, rid, due) ==
  /\ queue' = [queue EXCEPT ![p] = Upserted(@, w, rid, due)]
  /\ issued' = [issued EXCEPT ![p] = @ + 1]
  /\ UNCHANGED <<job, sent>>

PutNew(p) ==
  \E w \in Write, rid \in Doc \cup {None}, due \in BOOLEAN :
    w.n = issued[p] + 1 /\ Put(p, w, rid, due)

LEMMA UpsertIsPut ==
  ASSUME QTypeOK, NEW p \in Path,
         NEW op, NEW i, NEW to, NEW rid \in Doc \cup {None},
         NEW due \in BOOLEAN,
         NewWrite(p, op, i, to) \in Write,
         Upsert(p, op, i, to, rid, due)
  PROVE  PutNew(p)
<1>1. Put(p, NewWrite(p, op, i, to), rid, due)
  BY DEF Upsert, Put
<1>2. NewWrite(p, op, i, to).n = issued[p] + 1
  BY DEF NewWrite
<1> QED
  BY <1>1, <1>2 DEF PutNew

LEMMA NewWriteTypes ==
  ASSUME QTypeOK, NEW p \in Path
  PROVE  /\ \A i \in Ino : /\ NewWrite(p, "create", i, None) \in Write
                           /\ NewWrite(p, "update", i, None) \in Write
         /\ NewWrite(p, "delete", None, None) \in Write
         /\ \A q \in Path : NewWrite(p, "rename", None, q) \in Write
<1>1. issued[p] + 1 \in Nat
  BY DEF QTypeOK
<1> QED
  BY <1>1 DEF NewWrite, Write, ContentWrite, DeleteWrite, RenameWrite

Release(k) == Succeed(k) \/ Fail(k) \/ Clear404(k) \/ Poison(k)

LEMMA StepCases ==
  ASSUME QTypeOK, [QNext]_qvars
  PROVE  \/ \E p \in Path : PutNew(p)
         \/ \E p, q \in Path, d \in Doc \cup {None} : Retarget(p, q, d)
         \/ \E p \in Path, d \in Doc : Attach(p, d)
         \/ \E p \in Path : Elapse(p)
         \/ \E p \in Path, k \in Permit : Claim(p, k)
         \/ \E k \in Permit, d \in Doc : Stamp(k, d)
         \/ \E k \in Permit : Release(k)
         \/ Crash
         \/ UNCHANGED qvars
<1>1. CASE UserStep
  <2>1. PICK p \in Path :
          \/ \E i \in Ino : Upsert(p, "create", i, None, None, FALSE)
          \/ \E i \in Ino, d \in Doc : Upsert(p, "update", i, None, d, FALSE)
          \/ \E d \in Doc \cup {None} : Upsert(p, "delete", None, None, d, TRUE)
          \/ \E q \in Path \ {p}, d \in Doc \cup {None} :
               Upsert(p, "rename", None, q, d, TRUE)
          \/ \E q \in Path, d \in Doc \cup {None} : Retarget(p, q, d)
          \/ \E d \in Doc : Attach(p, d)
    BY <1>1 DEF UserStep
  <2>2. CASE \E i \in Ino : Upsert(p, "create", i, None, None, FALSE)
    BY <2>2, UpsertIsPut, NewWriteTypes
  <2>3. CASE \E i \in Ino, d \in Doc : Upsert(p, "update", i, None, d, FALSE)
    BY <2>3, UpsertIsPut, NewWriteTypes
  <2>4. CASE \E d \in Doc \cup {None} :
               Upsert(p, "delete", None, None, d, TRUE)
    BY <2>4, UpsertIsPut, NewWriteTypes
  <2>5. CASE \E q \in Path \ {p}, d \in Doc \cup {None} :
               Upsert(p, "rename", None, q, d, TRUE)
    BY <2>5, UpsertIsPut, NewWriteTypes
  <2> QED
    BY <2>1, <2>2, <2>3, <2>4, <2>5
<1>2. CASE WorkerStep
  BY <1>2 DEF WorkerStep, Release
<1> QED
  BY <1>1, <1>2 DEF QNext
-----------------------------------------------------------------------------
(***************************************************************************)
(* Type correctness.                                                       *)
(***************************************************************************)
LEMMA UpsertIsRow ==
  ASSUME NEW r \in Row, NEW w \in Write, NEW rid \in Doc \cup {None},
         NEW due \in BOOLEAN
  PROVE  Upserted(r, w, rid, due) \in Row
BY UpsertParks, UpsertReplaces

(* The row that a task leaves behind, however it ends.                     *)
Left(old, new) == \/ new.main = old.main /\ new.pend = old.pend
                  \/ new.main = old.pend /\ new.pend = NoWrite

LEMMA ReleaseIsEnd ==
  ASSUME QTypeOK, NEW k \in Permit, Release(k)
  PROVE  /\ Busy(k) /\ job[k].path \in Path /\ HeldRow(k) \in Row
         /\ \E row \in Row : ~row.inflight /\ End(k, row) /\ Left(HeldRow(k), row)
<1>1. Busy(k)
  BY DEF Release, Succeed, Fail, Clear404, Poison, End
<1>2. job[k].path \in Path
  BY <1>1 DEF QTypeOK, Busy, Job
<1>3. HeldRow(k) \in Row
  BY <1>2 DEF QTypeOK, HeldRow
<1>4. CASE Succeed(k)
  BY <1>1, <1>2, <1>3, <1>4, SuccessReleases DEF Succeed, Left
<1>5. CASE Fail(k)
  BY <1>1, <1>2, <1>3, <1>5, FailureReleases DEF Fail, Left
<1>6. CASE Clear404(k)
  BY <1>1, <1>2, <1>3, <1>6, Clear404Releases DEF Clear404, Left
<1>7. CASE Poison(k)
  BY <1>1, <1>2, <1>3, <1>7, PoisonReleases DEF Poison, Left
<1> QED
  BY <1>1, <1>2, <1>3, <1>4, <1>5, <1>6, <1>7 DEF Release

LEMMA InitTypeOK == QInit => QTypeOK
BY NoRowFields DEF QInit, QTypeOK, Job

LEMMA StepTypeOK == QTypeOK /\ [QNext]_qvars => QTypeOK'
<1> SUFFICES ASSUME QTypeOK, [QNext]_qvars
             PROVE  QTypeOK'
  OBVIOUS
<1> USE DEF QTypeOK
<1>1. ASSUME NEW p \in Path, PutNew(p)
      PROVE  QTypeOK'
  BY <1>1, UpsertIsRow DEF PutNew, Put
<1>2. ASSUME NEW p \in Path, NEW q \in Path, NEW d \in Doc \cup {None},
             Retarget(p, q, d)
      PROVE  QTypeOK'
  <2>1. Newest(queue[p]) \in Nat
    BY NewestIsNewest
  <2>2. Retargeted(queue[p], issued[q], d) \in Row
    BY <1>2, RetargetMoves DEF Retarget
  <2> QED
    BY <1>2, <2>1, <2>2, NoRowFields DEF Retarget
<1>3. ASSUME NEW p \in Path, NEW d \in Doc, Attach(p, d)
      PROVE  QTypeOK'
  BY <1>3, StampMarks DEF Attach
<1>4. ASSUME NEW p \in Path, Elapse(p)
      PROVE  QTypeOK'
  BY <1>4, ElapseMarks DEF Elapse
<1>5. ASSUME NEW p \in Path, NEW k \in Permit, Claim(p, k)
      PROVE  QTypeOK'
  <2>1. Claimed(queue[p]) \in Row
    BY <1>5, ClaimMarks DEF Claim
  <2>2. queue[p].main \in Write /\ queue[p].rid \in Doc \cup {None}
    BY <1>5, RowCases DEF Claim, Claimable, TableRow
  <2>3. queue[p].main.n \in Nat
    BY RowFields, SlotNumbers
  <2> QED
    BY <1>5, <2>1, <2>2, <2>3 DEF Claim, Job
<1>6. ASSUME NEW k \in Permit, NEW d \in Doc, Stamp(k, d)
      PROVE  QTypeOK'
  <2>1. job[k].path \in Path
    BY <1>6 DEF Stamp, Busy, Job
  <2> QED
    BY <1>6, <2>1, StampMarks DEF Stamp
<1>7. ASSUME NEW k \in Permit, Release(k)
      PROVE  QTypeOK'
  BY <1>7, ReleaseIsEnd DEF End, Job
<1>8. CASE Crash
  BY <1>8 DEF Crash, Job
<1>9. CASE UNCHANGED qvars
  BY <1>9 DEF qvars
<1> QED
  BY <1>1, <1>2, <1>3, <1>4, <1>5, <1>6, <1>7, <1>8, <1>9, StepCases

(* Whatever the filesystem enqueues and however tasks end, every filepath  *)
(* has a well-formed row or none, and every task a well-formed claim.      *)
THEOREM TypeCorrect == QSpec => []QTypeOK
BY InitTypeOK, StepTypeOK, PTL DEF QSpec
-----------------------------------------------------------------------------
(***************************************************************************)
(* No step but a crash leaves a row inflight on behalf of no task.         *)
(***************************************************************************)
LEMMA StepStuck ==
  ASSUME QTypeOK, [QNext]_qvars, NEW p \in Path, ~Stuck(p), ~Crash
  PROVE  ~Stuck(p)'
<1> USE DEF QTypeOK, Stuck, Holders, Busy
<1>1. ASSUME NEW x \in Path, PutNew(x)
      PROVE  ~Stuck(p)'
  BY <1>1, UpsertParks, UpsertReplaces DEF PutNew, Put
<1>2. ASSUME NEW x \in Path, NEW y \in Path, NEW d \in Doc \cup {None},
             Retarget(x, y, d)
      PROVE  ~Stuck(p)'
  BY <1>2, RetargetMoves, NoRowFields DEF Retarget
<1>3. ASSUME NEW x \in Path, NEW d \in Doc, Attach(x, d)
      PROVE  ~Stuck(p)'
  BY <1>3, StampMarks DEF Attach
<1>4. ASSUME NEW x \in Path, Elapse(x)
      PROVE  ~Stuck(p)'
  BY <1>4, ElapseMarks DEF Elapse
<1>5. ASSUME NEW x \in Path, NEW k \in Permit, Claim(x, k)
      PROVE  ~Stuck(p)'
  <2>1. job' = [job EXCEPT ![k] = [path |-> x, w |-> queue[x].main,
                                   rid |-> queue[x].rid]]
        /\ job[k] = Idle
    BY <1>5 DEF Claim
  <2>2. job'[k].path = x /\ job'[k] # Idle
    BY <2>1, NoneIsNull DEF Idle
  <2>3. CASE p = x
    BY <2>2, <2>3
  <2>4. CASE p # x
    <3>1. queue'[p] = queue[p]
      BY <1>5, <2>4 DEF Claim
    <3>2. \A h \in Permit : h # k => job'[h] = job[h]
      BY <2>1
    <3>3. Holders(p) \subseteq Holders(p)'
      BY <2>1, <3>2
    <3> QED
      BY <3>1, <3>3
  <2> QED
    BY <2>3, <2>4
<1>6. ASSUME NEW k \in Permit, NEW d \in Doc, Stamp(k, d)
      PROVE  ~Stuck(p)'
  BY <1>6, StampMarks DEF Stamp
<1>7. ASSUME NEW k \in Permit, Release(k)
      PROVE  ~Stuck(p)'
  <2>1. PICK row \in Row : ~row.inflight /\ End(k, row)
    BY <1>7, ReleaseIsEnd
  <2>2. CASE p = job[k].path
    BY <2>1, <2>2 DEF End
  <2>3. CASE p # job[k].path
    <3>1. queue'[p] = queue[p]
      BY <2>1, <2>3 DEF End
    <3>2. Holders(p) \subseteq Holders(p)'
      BY <2>1, <2>3 DEF End
    <3> QED
      BY <3>1, <3>2
  <2> QED
    BY <2>2, <2>3
<1>8. CASE UNCHANGED qvars
  BY <1>8 DEF qvars
<1> QED
  BY <1>1, <1>2, <1>3, <1>4, <1>5, <1>6, <1>7, <1>8, StepCases

(* Every way a task can end, in any order with other tasks, renames and    *)
(* upserts, releases its row; only the death of the process leaves a row   *)
(* that push_queue_claim_next skips for ever.                              *)
THEOREM OnlyCrashSticks == QSpec => StuckOnlyByCrash
<1>1. QTypeOK /\ [QNext]_qvars => [\A p \in Path : Stuck(p)' => Stuck(p) \/ Crash]_qvars
  BY StepStuck
<1> QED
  BY <1>1, TypeCorrect, PTL DEF QSpec, StuckOnlyByCrash
-----------------------------------------------------------------------------
(***************************************************************************)
(* One push at a time per filepath, as long as no rename moves a row onto  *)
(* a filepath that is being pushed.                                        *)
(***************************************************************************)
LEMMA InitOnePush == QInit => OnePushPerPath
BY DEF QInit, OnePushPerPath, Busy

(* A claim whose filepath's row keeps its mark and its main slot stays the *)
(* only claim on it, if no other claim appears.                            *)
LEMMA StepOnePush ==
  ASSUME QTypeOK, OnePushPerPath, "busydst" \notin Hazards, [QNext]_qvars
  PROVE  OnePushPerPath'
<1> USE DEF QTypeOK, OnePushPerPath, Holders, Busy, HeldRow
<1>0. \A k \in Permit : job[k] # Idle => job[k].path \in Path
  BY DEF Job
<1>1. ASSUME NEW p \in Path, PutNew(p)
      PROVE  OnePushPerPath'
  <2>1. PICK w \in Write, rid \in Doc \cup {None}, due \in BOOLEAN :
          Put(p, w, rid, due)
    BY <1>1 DEF PutNew
  <2>2. job' = job /\ queue' = [queue EXCEPT ![p] = Upserted(@, w, rid, due)]
    BY <2>1 DEF Put
  <2>3. queue[p].inflight => /\ queue'[p].inflight
                             /\ queue'[p].main = queue[p].main
    BY <2>2, UpsertParks
  <2> QED
    BY <2>2, <2>3, <1>0
<1>2. ASSUME NEW p \in Path, NEW q \in Path, NEW d \in Doc \cup {None},
             Retarget(p, q, d)
      PROVE  OnePushPerPath'
  <2>1. ~queue[p].inflight /\ ~queue[q].inflight
    BY <1>2 DEF Retarget, Retargetable
  <2>2. \A k \in Permit : job[k] # Idle => job[k].path \notin {p, q}
    BY <2>1
  <2>3. job' = job /\ \A x \in Path \ {p, q} : queue'[x] = queue[x]
    BY <1>2 DEF Retarget
  <2> QED
    BY <2>2, <2>3, <1>0
<1>3. ASSUME NEW p \in Path, NEW d \in Doc, Attach(p, d)
      PROVE  OnePushPerPath'
  <2>1. queue'[p].inflight = queue[p].inflight /\ queue'[p].main = queue[p].main
    BY <1>3, StampMarks DEF Attach
  <2>2. job' = job /\ \A x \in Path \ {p} : queue'[x] = queue[x]
    BY <1>3 DEF Attach
  <2> QED
    BY <2>1, <2>2, <1>0
<1>4. ASSUME NEW p \in Path, Elapse(p)
      PROVE  OnePushPerPath'
  <2>1. queue'[p].inflight = queue[p].inflight /\ queue'[p].main = queue[p].main
    BY <1>4, ElapseMarks DEF Elapse
  <2>2. job' = job /\ \A x \in Path \ {p} : queue'[x] = queue[x]
    BY <1>4 DEF Elapse
  <2> QED
    BY <2>1, <2>2, <1>0
<1>5. ASSUME NEW p \in Path, NEW k \in Permit, Claim(p, k)
      PROVE  OnePushPerPath'
  <2>1. \A h \in Permit : job[h] # Idle => job[h].path # p
    BY <1>5 DEF Claim, Claimable
  <2>2. queue'[p].inflight /\ queue'[p].main = queue[p].main
    BY <1>5, ClaimMarks DEF Claim
  <2>3. /\ job[k] = Idle
        /\ job'[k] = [path |-> p, w |-> queue[p].main, rid |-> queue[p].rid]
        /\ \A h \in Permit \ {k} : job'[h] = job[h]
        /\ \A x \in Path \ {p} : queue'[x] = queue[x]
    BY <1>5 DEF Claim
  <2>4. job'[k].path = p /\ job'[k].w = queue[p].main
    BY <2>3
  <2>5. ASSUME NEW h \in Permit, job'[h] # Idle
        PROVE  /\ {i \in Permit : job'[i] # Idle /\ job'[i].path = job'[h].path}
                    = {h}
               /\ queue'[job'[h].path].inflight
               /\ queue'[job'[h].path].main = job'[h].w
    <3>1. CASE h = k
      <4>1. \A i \in Permit : job'[i] # Idle /\ job'[i].path = p => i = k
        BY <2>1, <2>3
      <4>2. k \in {i \in Permit : job'[i] # Idle /\ job'[i].path = p}
        BY <2>4, <2>5, <3>1
      <4>3. {i \in Permit : job'[i] # Idle /\ job'[i].path = p} = {k}
        BY <4>1, <4>2
      <4> QED
        BY <2>2, <2>4, <3>1, <4>3
    <3>2. CASE h # k
      <4>1. job'[h] = job[h] /\ job[h] # Idle /\ job[h].path \in Path \ {p}
        BY <2>1, <2>3, <2>5, <3>2, <1>0
      <4>2. queue'[job[h].path] = queue[job[h].path]
        BY <2>3, <4>1
      <4>3. {i \in Permit : job'[i] # Idle /\ job'[i].path = job[h].path}
              = {i \in Permit : job[i] # Idle /\ job[i].path = job[h].path}
        BY <2>3, <2>4, <4>1
      <4> QED
        BY <4>1, <4>2, <4>3
    <3> QED
      BY <3>1, <3>2
  <2> QED
    BY <2>5
<1>6. ASSUME NEW k \in Permit, NEW d \in Doc, Stamp(k, d)
      PROVE  OnePushPerPath'
  <2>1. job[k].path \in Path
    BY <1>6, <1>0 DEF Stamp
  <2>2. /\ queue'[job[k].path].inflight = queue[job[k].path].inflight
        /\ queue'[job[k].path].main = queue[job[k].path].main
    BY <1>6, <2>1, StampMarks DEF Stamp
  <2>3. job' = job /\ \A x \in Path \ {job[k].path} : queue'[x] = queue[x]
    BY <1>6 DEF Stamp
  <2> QED
    BY <2>2, <2>3, <1>0
<1>7. ASSUME NEW k \in Permit, Release(k)
      PROVE  OnePushPerPath'
  <2>1. job[k] # Idle
    BY <1>7, ReleaseIsEnd
  <2>2. PICK row \in Row : End(k, row)
    BY <1>7, ReleaseIsEnd
  <2>3. /\ job'[k] = Idle
        /\ \A h \in Permit \ {k} : job'[h] = job[h]
        /\ \A x \in Path \ {job[k].path} : queue'[x] = queue[x]
    BY <2>2 DEF End
  <2>4. \A h \in Permit \ {k} : job[h] # Idle => job[h].path # job[k].path
    BY <2>1
  <2>5. ASSUME NEW h \in Permit, job'[h] # Idle
        PROVE  /\ {i \in Permit : job'[i] # Idle /\ job'[i].path = job'[h].path}
                    = {h}
               /\ queue'[job'[h].path].inflight
               /\ queue'[job'[h].path].main = job'[h].w
    <3>1. h # k /\ job'[h] = job[h] /\ job[h] # Idle
      BY <2>3, <2>5
    <3>2. queue'[job[h].path] = queue[job[h].path]
      BY <2>3, <2>4, <3>1, <1>0
    <3>3. {i \in Permit : job'[i] # Idle /\ job'[i].path = job[h].path}
            = {i \in Permit : job[i] # Idle /\ job[i].path = job[h].path}
      BY <2>3, <2>4, <3>1
    <3> QED
      BY <3>1, <3>2, <3>3
  <2> QED
    BY <2>5
<1>8. CASE Crash
  BY <1>8 DEF Crash
<1>9. CASE UNCHANGED qvars
  BY <1>9 DEF qvars
<1> QED
  BY <1>1, <1>2, <1>3, <1>4, <1>5, <1>6, <1>7, <1>8, <1>9, StepCases

(* The guarantee that run_push_worker's comment gives, with the condition  *)
(* under which it holds: renames stay off filepaths that are being pushed. *)
THEOREM SameFileSafety ==
  ASSUME "busydst" \notin Hazards
  PROVE  QSpec => []OnePushPerPath
<1>1. QTypeOK /\ OnePushPerPath /\ [QNext]_qvars => OnePushPerPath'
  BY StepOnePush
<1> QED
  BY <1>1, InitOnePush, TypeCorrect, PTL DEF QSpec
-----------------------------------------------------------------------------
(***************************************************************************)
(* The newest write of a filepath is never dropped.  The invariant adds    *)
(* that no number runs ahead of the writes issued and that a task's write  *)
(* counts as sent: when a success clears the main slot, what it clears has *)
(* been sent.                                                              *)
(***************************************************************************)
Numbered ==
  /\ \A p \in Path : /\ sent[p] <= issued[p]
                     /\ queue[p].main.n <= issued[p]
                     /\ queue[p].pend.n <= issued[p]
  /\ \A k \in Permit : Busy(k) => job[k].w.n <= sent[job[k].path]

KeptInv == Numbered /\ NewestKept

LEMMA InitKept == QInit => KeptInv
<1>1. NoWrite.n = 0
  BY DEF NoWrite
<1> QED
  BY <1>1, NoRowFields DEF QInit, KeptInv, Numbered, NewestKept, Busy

(* The numbers that the invariant speaks of are natural.                   *)
LEMMA Numbers ==
  ASSUME QTypeOK
  PROVE  /\ \A p \in Path : /\ issued[p] \in Nat /\ sent[p] \in Nat
                            /\ queue[p].main.n \in Nat
                            /\ queue[p].pend.n \in Nat
         /\ \A k \in Permit : Busy(k) => /\ job[k].path \in Path
                                         /\ job[k].w.n \in Nat
<1>1. \A p \in Path : queue[p].main \in Slot /\ queue[p].pend \in Slot
  BY RowFields DEF QTypeOK
<1>2. \A k \in Permit : Busy(k) => job[k].path \in Path /\ job[k].w \in Slot
  BY DEF QTypeOK, Busy, Job, Slot
<1> QED
  BY <1>1, <1>2, SlotNumbers DEF QTypeOK

(* A step that leaves numbers and claims alone and keeps both slots.       *)
LEMMA QuietKept ==
  ASSUME KeptInv, UNCHANGED <<job, issued, sent>>,
         \A p \in Path : /\ queue'[p].main = queue[p].main
                         /\ queue'[p].pend = queue[p].pend
  PROVE  KeptInv'
BY DEF KeptInv, Numbered, NewestKept, Busy

LEMMA StepKept ==
  ASSUME QTypeOK, OnePushPerPath, KeptInv, [QNext]_qvars
  PROVE  KeptInv'
<1> USE DEF QTypeOK
<1>1. ASSUME NEW p \in Path, PutNew(p)
      PROVE  KeptInv'
  <2>1. PICK w \in Write, rid \in Doc \cup {None}, due \in BOOLEAN :
          w.n = issued[p] + 1 /\ Put(p, w, rid, due)
    BY <1>1 DEF PutNew
  <2>2. /\ issued' = [issued EXCEPT ![p] = @ + 1]
        /\ job' = job /\ sent' = sent
        /\ \A x \in Path \ {p} : queue'[x] = queue[x]
        /\ queue'[p] = Upserted(queue[p], w, rid, due)
    BY <2>1 DEF Put
  <2>3. \/ queue'[p].main = queue[p].main /\ queue'[p].pend = w
        \/ queue'[p].main = w /\ queue'[p].pend = queue[p].pend
    <3>1. CASE queue[p].inflight
      BY <2>2, <3>1, UpsertParks
    <3>2. CASE ~queue[p].inflight
      BY <2>2, <3>2, UpsertReplaces
    <3> QED
      BY <3>1, <3>2
  <2> QED
    BY <2>1, <2>2, <2>3, Numbers DEF KeptInv, Numbered, NewestKept, Busy
<1>2. ASSUME NEW p \in Path, NEW q \in Path, NEW d \in Doc \cup {None},
             Retarget(p, q, d)
      PROVE  KeptInv'
  <2> DEFINE new == Retargeted(queue[p], issued[q], d)
  <2>1. /\ p # q
        /\ queue' = [queue EXCEPT ![q] = new, ![p] = NoRow]
        /\ issued' = [issued EXCEPT ![q] = @ + Newest(queue[p])]
        /\ sent' = [sent EXCEPT ![p] = issued[p]]
        /\ job' = job
    BY <1>2 DEF Retarget
  <2>2. /\ new.main = Renumbered(queue[p].main, issued[q])
        /\ new.pend = Renumbered(queue[p].pend, issued[q])
        /\ queue[p].main \in Write /\ queue[p].pend \in Slot
    BY <1>2, RetargetMoves, RowFields DEF Retarget
  <2> HIDE DEF new
  <2>3. new.main.n = queue[p].main.n + issued[q]
    BY <2>2, RenumberedIsWrite
  <2>4. \/ queue[p].pend = NoWrite /\ new.pend = NoWrite
        \/ new.pend.n = queue[p].pend.n + issued[q]
    BY <2>2, RenumberedSlot
  <2>5. NoWrite.n = 0
    BY DEF NoWrite
  <2>6. /\ Newest(queue[p]) \in Nat
        /\ queue[p].main.n <= Newest(queue[p])
        /\ queue[p].pend.n <= Newest(queue[p])
        /\ Newest(queue[p]) \in {queue[p].main.n, queue[p].pend.n}
    BY NewestIsNewest
  <2>7. /\ queue'[q] = new /\ queue'[p] = NoRow
        /\ issued'[q] = issued[q] + Newest(queue[p]) /\ issued'[p] = issued[p]
        /\ sent'[p] = issued[p] /\ sent'[q] = sent[q]
        /\ \A x \in Path \ {p, q} : /\ queue'[x] = queue[x]
                                    /\ issued'[x] = issued[x]
                                    /\ sent'[x] = sent[x]
    BY <2>1
  <2>8. /\ issued'[q] \in {new.main.n, new.pend.n}
        /\ new.main.n <= issued'[q] /\ new.pend.n <= issued'[q]
        /\ sent'[q] <= issued'[q]
    BY <2>3, <2>4, <2>5, <2>6, <2>7, Numbers DEF KeptInv, Numbered
  <2>9. \A x \in Path : sent[x] <= sent'[x]
    BY <2>7, Numbers DEF KeptInv, Numbered
  <2>10. \A x \in Path : /\ sent'[x] <= issued'[x]
                         /\ queue'[x].main.n <= issued'[x]
                         /\ queue'[x].pend.n <= issued'[x]
    BY <2>5, <2>7, <2>8, Numbers, NoRowFields DEF KeptInv, Numbered
  <2>11. \A k \in Permit : Busy(k)' => job'[k].w.n <= sent'[job'[k].path]
    <3> SUFFICES ASSUME NEW k \in Permit, Busy(k)
                 PROVE  job[k].w.n <= sent'[job[k].path]
      BY <2>1 DEF Busy
    <3>1. job[k].w.n <= sent[job[k].path] /\ job[k].path \in Path
      BY Numbers DEF KeptInv, Numbered
    <3>2. sent'[job[k].path] \in Nat
      BY <2>7, <3>1, Numbers
    <3> QED
      BY <2>9, <3>1, <3>2, Numbers
  <2>12. \A x \in Path : issued'[x] \in {sent'[x], queue'[x].main.n,
                                         queue'[x].pend.n}
    BY <2>7, <2>8 DEF KeptInv, NewestKept
  <2> QED
    BY <2>10, <2>11, <2>12 DEF KeptInv, Numbered, NewestKept
<1>3. ASSUME NEW p \in Path, NEW d \in Doc, Attach(p, d)
      PROVE  KeptInv'
  BY <1>3, StampMarks, QuietKept DEF Attach
<1>4. ASSUME NEW p \in Path, Elapse(p)
      PROVE  KeptInv'
  BY <1>4, ElapseMarks, QuietKept DEF Elapse
<1>5. ASSUME NEW p \in Path, NEW k \in Permit, Claim(p, k)
      PROVE  KeptInv'
  <2>1. /\ queue'[p].main = queue[p].main /\ queue'[p].pend = queue[p].pend
        /\ \A x \in Path \ {p} : queue'[x] = queue[x]
    BY <1>5, ClaimMarks DEF Claim
  <2>2. /\ issued' = issued
        /\ job'[k] = [path |-> p, w |-> queue[p].main, rid |-> queue[p].rid]
        /\ \A h \in Permit \ {k} : job'[h] = job[h]
        /\ \A x \in Path \ {p} : sent'[x] = sent[x]
        /\ sent'[p] = IF sent[p] < queue[p].main.n THEN queue[p].main.n
                                                   ELSE sent[p]
    BY <1>5 DEF Claim
  <2>3. job'[k].path = p /\ job'[k].w = queue[p].main
    BY <2>2
  <2> QED
    BY <2>1, <2>2, <2>3, Numbers DEF KeptInv, Numbered, NewestKept, Busy
<1>6. ASSUME NEW k \in Permit, NEW d \in Doc, Stamp(k, d)
      PROVE  KeptInv'
  <2>1. job[k].path \in Path
    BY <1>6, Numbers DEF Stamp
  <2> QED
    BY <1>6, <2>1, StampMarks, QuietKept DEF Stamp
<1>7. ASSUME NEW k \in Permit, Release(k)
      PROVE  KeptInv'
  <2> DEFINE p == job[k].path
  <2>1. Busy(k) /\ p \in Path /\ HeldRow(k) = queue[p]
    BY <1>7, ReleaseIsEnd DEF HeldRow
  <2>2. PICK row \in Row : End(k, row) /\ Left(queue[p], row)
    BY <1>7, <2>1, ReleaseIsEnd
  <2>3. /\ queue'[p] = row /\ issued' = issued /\ sent' = sent
        /\ \A x \in Path \ {p} : queue'[x] = queue[x]
        /\ \A h \in Permit : Busy(h)' => Busy(h) /\ job'[h] = job[h]
    BY <2>1, <2>2 DEF End, Busy
  <2>4. queue[p].main.n <= sent[p]
    BY <2>1 DEF OnePushPerPath, HeldRow, KeptInv, Numbered
  <2>5. /\ row.main.n <= issued[p] /\ row.pend.n <= issued[p]
        /\ issued[p] \in {sent[p], row.main.n, row.pend.n}
    <3>1. NoWrite.n = 0
      BY DEF NoWrite
    <3>2. /\ issued[p] \in Nat /\ sent[p] \in Nat
          /\ queue[p].main.n \in Nat /\ queue[p].pend.n \in Nat
      BY <2>1, Numbers
    <3>3. /\ sent[p] <= issued[p] /\ queue[p].main.n <= issued[p]
          /\ queue[p].pend.n <= issued[p]
          /\ issued[p] \in {sent[p], queue[p].main.n, queue[p].pend.n}
      BY <2>1 DEF KeptInv, Numbered, NewestKept
    <3>4. CASE row.main = queue[p].main /\ row.pend = queue[p].pend
      BY <3>3, <3>4
    <3>5. CASE row.main = queue[p].pend /\ row.pend = NoWrite
      BY <2>4, <3>1, <3>2, <3>3, <3>5
    <3> QED
      BY <2>2, <3>4, <3>5 DEF Left
  <2> HIDE DEF p
  <2> QED
    BY <2>1, <2>3, <2>5 DEF KeptInv, Numbered, NewestKept
<1>8. CASE Crash
  BY <1>8 DEF Crash, KeptInv, Numbered, NewestKept, Busy
<1>9. CASE UNCHANGED qvars
  BY <1>9 DEF qvars, KeptInv, Numbered, NewestKept, Busy
<1> QED
  BY <1>1, <1>2, <1>3, <1>4, <1>5, <1>6, <1>7, <1>8, <1>9, StepCases

(* Coalescing drops no write that a newer one does not supersede, under    *)
(* the same condition on renames.                                          *)
THEOREM NothingNewestDropped ==
  ASSUME "busydst" \notin Hazards
  PROVE  QSpec => []NewestKept
<1>1. QTypeOK /\ OnePushPerPath /\ KeptInv /\ [QNext]_qvars => KeptInv'
  BY StepKept
<1>2. KeptInv => NewestKept
  BY DEF KeptInv
<1> QED
  BY <1>1, <1>2, InitKept, TypeCorrect, SameFileSafety, PTL DEF QSpec
-----------------------------------------------------------------------------
(***************************************************************************)
(* Writes are sent in order, as long as no push fails after a newer write  *)
(* was parked behind it.  The invariant: what a row that can be claimed    *)
(* holds is not older than what was sent, and only a row that is being     *)
(* pushed has a parked write, so that no upsert gets ahead of it.          *)
(***************************************************************************)
Ahead(r, s, n) ==
  /\ s <= n /\ r.main.n <= n /\ r.pend.n <= n
  /\ Present(r) /\ ~r.poisoned =>
       /\ s <= r.main.n
       /\ r.pend # NoWrite => r.inflight /\ s <= r.pend.n

OrderInv == \A p \in Path : Ahead(queue[p], sent[p], issued[p])

LEMMA NoRowAhead ==
  ASSUME NEW s \in Nat, NEW n \in Nat, s <= n
  PROVE  Ahead(NoRow, s, n)
<1>1. NoWrite.n = 0
  BY DEF NoWrite
<1> QED
  BY <1>1, NoRowFields DEF Ahead

LEMMA InitOrder == QInit => OrderInv
<1>1. Ahead(NoRow, 0, 0)
  BY NoRowAhead
<1> QED
  BY <1>1 DEF QInit, OrderInv

(* Only main, pend, inflight and poisoned of a row matter.                 *)
LEMMA SameAhead ==
  ASSUME NEW r, NEW new, NEW s, NEW n, Ahead(r, s, n),
         new.main = r.main, new.pend = r.pend,
         new.inflight = r.inflight, new.poisoned = r.poisoned
  PROVE  Ahead(new, s, n)
BY DEF Ahead, Present

LEMMA PutAhead ==
  ASSUME NEW r \in Row, NEW s \in Nat, NEW n \in Nat, Ahead(r, s, n),
         NEW w \in Write, w.n = n + 1, NEW rid \in Doc \cup {None},
         NEW due \in BOOLEAN
  PROVE  Ahead(Upserted(r, w, rid, due), s, n + 1)
<1> DEFINE new == Upserted(r, w, rid, due)
<1>1. r.main.n \in Nat /\ r.pend.n \in Nat
  BY RowFields, SlotNumbers
<1>2. s <= n /\ r.main.n <= n /\ r.pend.n <= n
  BY DEF Ahead
<1>3. w.n \in Nat
  BY SlotNumbers DEF Slot
<1>4. CASE r.inflight
  <2>1. /\ new.main = r.main /\ new.pend = w
        /\ new.inflight = r.inflight /\ new.poisoned = r.poisoned
    <3>1. r \in TableRow
      BY <1>4, RowCases, InflightIsPresent
    <3>2. new = [r EXCEPT !.pend = w, !.due = due]
      BY <1>4 DEF Upserted
    <3> HIDE DEF new
    <3> QED
      BY <3>1, <3>2, Zenon DEF TableRow
  <2>2. Present(new) /\ ~new.poisoned =>
          /\ s <= new.main.n
          /\ new.pend # NoWrite => new.inflight /\ s <= new.pend.n
    BY <1>1, <1>2, <1>4, <2>1 DEF Ahead, Present
  <2> HIDE DEF new
  <2>3. Ahead(new, s, n + 1)
    BY <1>1, <1>2, <1>3, <2>1, <2>2 DEF Ahead
  <2> QED
    BY <2>3 DEF new
<1>5. CASE ~r.inflight
  <2>1. /\ new.main = w /\ new.pend = r.pend
        /\ new.inflight = r.inflight /\ new.poisoned = r.poisoned
    BY <1>5, UpsertReplaces
  <2>2. ~r.poisoned => r.pend = NoWrite
    <3>1. ~Present(r) => r.pend = NoWrite
      BY RowCases, NoRowFields
    <3> QED
      BY <1>5, <3>1 DEF Ahead
  <2> HIDE DEF new
  <2>3. Ahead(new, s, n + 1)
    BY <1>1, <1>2, <1>3, <2>1, <2>2 DEF Ahead
  <2> QED
    BY <2>3 DEF new
<1> QED
  BY <1>4, <1>5

LEMMA RetargetAhead ==
  ASSUME NEW r \in Row, Retargetable(r), NEW old \in Nat, NEW k \in Nat,
         Ahead(r, old, k), NEW s \in Nat, NEW n \in Nat, s <= n,
         NEW rid \in Doc \cup {None}
  PROVE  Ahead(Retargeted(r, n, rid), s, n + Newest(r))
<1> DEFINE new == Retargeted(r, n, rid)
<1>1. /\ new.main = Renumbered(r.main, n) /\ new.pend = Renumbered(r.pend, n)
      /\ ~new.inflight /\ new.poisoned = r.poisoned
      /\ r.main \in Write /\ r.pend \in Slot
  BY RetargetMoves, RowFields
<1> HIDE DEF new
<1>2. new.main.n = r.main.n + n
  BY <1>1, RenumberedIsWrite
<1>3. \/ r.pend = NoWrite /\ new.pend = NoWrite
      \/ r.pend # NoWrite /\ new.pend.n = r.pend.n + n
  BY <1>1, RenumberedSlot
<1>4. NoWrite.n = 0 /\ r.main.n \in Nat /\ r.pend.n \in Nat
  BY RowFields, SlotNumbers DEF NoWrite
<1>5. /\ Newest(r) \in Nat
      /\ r.main.n <= Newest(r) /\ r.pend.n <= Newest(r)
  BY NewestIsNewest
<1>6. ~r.poisoned => r.pend = NoWrite
  BY <1>1, NoWriteIsNoWrite DEF Ahead, Present, Retargetable
<1>7. /\ s <= n + Newest(r) /\ new.main.n <= n + Newest(r)
      /\ new.pend.n <= n + Newest(r) /\ s <= new.main.n
  BY <1>2, <1>3, <1>4, <1>5
<1> QED
  BY <1>1, <1>3, <1>6, <1>7 DEF Ahead, new

(* What a task leaves behind, unless it fails with a write parked.         *)
LEMMA ReleaseAhead ==
  ASSUME QTypeOK, OrderInv, "latefail" \notin Hazards,
         NEW k \in Permit, Release(k)
  PROVE  \E row : /\ End(k, row)
                  /\ Ahead(row, sent[job[k].path], issued[job[k].path])
<1> DEFINE p == job[k].path
           r == HeldRow(k)
<1>1. p \in Path /\ r \in Row /\ r = queue[p]
  BY ReleaseIsEnd DEF HeldRow
<1>2. Ahead(r, sent[p], issued[p])
  BY <1>1 DEF OrderInv
<1>3. /\ issued[p] \in Nat /\ sent[p] \in Nat
      /\ r.main.n \in Nat /\ r.pend.n \in Nat
  BY <1>1, Numbers
<1>4. NoWrite.n = 0
  BY DEF NoWrite
<1>5. ~Present(r) => r.pend = NoWrite /\ ~r.poisoned
  BY <1>1, RowCases, NoRowFields
<1>6. CASE Succeed(k)
  <2> DEFINE row == Succeeded(r)
  <2>1. /\ row.main = r.pend /\ row.pend = NoWrite
        /\ row.poisoned => r.poisoned
        /\ Present(row) => Present(r) /\ row.main # NoWrite
        /\ Present(row) /\ ~row.poisoned => ~r.poisoned
    <3>1. /\ row.main = r.pend /\ row.pend = NoWrite
          /\ row.poisoned => r.poisoned
      BY <1>1, SuccessReleases
    <3>2. Present(row) => row = [r EXCEPT !.main = r.pend, !.pend = NoWrite,
                                          !.inflight = FALSE, !.due = TRUE]
      BY NoRowFields DEF Succeeded
    <3>3. Present(r) => r \in TableRow
      BY <1>1, RowCases
    <3>4. Present(row) => Present(r)
      BY <1>5, <3>1 DEF Present
    <3>5. Present(row) => row.poisoned = r.poisoned
      BY <3>2, <3>3, <3>4, Zenon DEF TableRow
    <3> QED
      BY <3>1, <3>4, <3>5 DEF Present
  <2>2. Ahead(row, sent[p], issued[p])
    <3> HIDE DEF row, r, p
    <3> QED
      BY <1>2, <1>3, <1>4, <2>1 DEF Ahead
  <2> QED
    BY <1>6, <2>2 DEF Succeed
<1>7. CASE Fail(k)
  <2> DEFINE row == Failed(r, FALSE)
  <2>1. /\ row.main = r.main /\ row.pend = r.pend /\ row.poisoned = r.poisoned
        /\ r.pend = NoWrite
    BY <1>1, <1>7, FailureReleases DEF Fail, MayFail, LateFailure
  <2>2. Ahead(row, sent[p], issued[p])
    <3> HIDE DEF row, r, p
    <3> QED
      BY <1>2, <2>1 DEF Ahead, Present
  <2> QED
    BY <1>7, <2>2 DEF Fail
<1>8. CASE Clear404(k)
  <2> DEFINE row == ClearedAfter404(r)
  <2>1. /\ row.main = r.main /\ row.pend = r.pend /\ row.poisoned = r.poisoned
        /\ r.pend = NoWrite
    BY <1>1, <1>8, Clear404Releases DEF Clear404, MayFail, LateFailure
  <2>2. Ahead(row, sent[p], issued[p])
    <3> HIDE DEF row, r, p
    <3> QED
      BY <1>2, <2>1 DEF Ahead, Present
  <2> QED
    BY <1>8, <2>2 DEF Clear404
<1>9. CASE Poison(k)
  <2> DEFINE row == Poisoned(r)
  <2>1. /\ row.main = r.main /\ row.pend = r.pend
        /\ Present(r) => row.poisoned
    BY <1>1, PoisonReleases
  <2>2. Ahead(row, sent[p], issued[p])
    <3> HIDE DEF row, r, p
    <3> QED
      BY <1>2, <2>1 DEF Ahead, Present
  <2> QED
    BY <1>9, <2>2 DEF Poison
<1> QED
  BY <1>6, <1>7, <1>8, <1>9 DEF Release

LEMMA StepOrder ==
  ASSUME QTypeOK, OrderInv, "latefail" \notin Hazards, [QNext]_qvars
  PROVE  OrderInv'
<1> USE DEF QTypeOK
<1>1. ASSUME NEW p \in Path, PutNew(p)
      PROVE  OrderInv'
  <2>1. PICK w \in Write, rid \in Doc \cup {None}, due \in BOOLEAN :
          w.n = issued[p] + 1 /\ Put(p, w, rid, due)
    BY <1>1 DEF PutNew
  <2>2. /\ queue'[p] = Upserted(queue[p], w, rid, due)
        /\ issued'[p] = issued[p] + 1 /\ sent' = sent
        /\ \A x \in Path \ {p} : queue'[x] = queue[x] /\ issued'[x] = issued[x]
    BY <2>1 DEF Put
  <2>3. Ahead(queue'[p], sent'[p], issued'[p])
    BY <2>1, <2>2, PutAhead DEF OrderInv
  <2> QED
    BY <2>2, <2>3 DEF OrderInv
<1>2. ASSUME NEW p \in Path, NEW q \in Path, NEW d \in Doc \cup {None},
             Retarget(p, q, d)
      PROVE  OrderInv'
  <2>1. /\ p # q /\ Retargetable(queue[p])
        /\ queue'[q] = Retargeted(queue[p], issued[q], d)
        /\ issued'[q] = issued[q] + Newest(queue[p]) /\ sent'[q] = sent[q]
        /\ queue'[p] = NoRow /\ issued'[p] = issued[p] /\ sent'[p] = issued[p]
        /\ \A x \in Path \ {p, q} : /\ queue'[x] = queue[x]
                                    /\ issued'[x] = issued[x]
                                    /\ sent'[x] = sent[x]
    BY <1>2 DEF Retarget
  <2>2. Ahead(queue'[q], sent'[q], issued'[q])
    <3>1. sent[q] <= issued[q] /\ Ahead(queue[p], sent[p], issued[p])
      BY DEF OrderInv, Ahead
    <3> QED
      BY <2>1, <3>1, RetargetAhead
  <2>3. Ahead(queue'[p], sent'[p], issued'[p])
    BY <2>1, NoRowAhead
  <2> QED
    BY <2>1, <2>2, <2>3 DEF OrderInv
<1>3. ASSUME NEW p \in Path, NEW d \in Doc, Attach(p, d)
      PROVE  OrderInv'
  <2>1. /\ queue'[p] = Stamped(queue[p], d) /\ issued' = issued /\ sent' = sent
        /\ \A x \in Path \ {p} : queue'[x] = queue[x]
    BY <1>3 DEF Attach
  <2>2. Ahead(queue'[p], sent'[p], issued'[p])
    BY <2>1, StampMarks, SameAhead DEF OrderInv
  <2> QED
    BY <2>1, <2>2 DEF OrderInv
<1>4. ASSUME NEW p \in Path, Elapse(p)
      PROVE  OrderInv'
  <2>1. /\ queue'[p] = [queue[p] EXCEPT !.due = TRUE] /\ Present(queue[p])
        /\ issued' = issued /\ sent' = sent
        /\ \A x \in Path \ {p} : queue'[x] = queue[x]
    BY <1>4 DEF Elapse
  <2>2. Ahead(queue'[p], sent'[p], issued'[p])
    <3>1. /\ queue'[p].main = queue[p].main /\ queue'[p].pend = queue[p].pend
          /\ queue'[p].inflight = queue[p].inflight
          /\ queue'[p].poisoned = queue[p].poisoned
      BY <2>1, ElapseMarks
    <3> QED
      BY <2>1, <3>1, SameAhead DEF OrderInv
  <2> QED
    BY <2>1, <2>2 DEF OrderInv
<1>5. ASSUME NEW p \in Path, NEW k \in Permit, Claim(p, k)
      PROVE  OrderInv'
  <2>1. /\ Claimable(queue[p]) /\ queue'[p] = Claimed(queue[p])
        /\ issued' = issued
        /\ sent'[p] = IF sent[p] < queue[p].main.n THEN queue[p].main.n
                                                   ELSE sent[p]
        /\ \A x \in Path \ {p} : queue'[x] = queue[x] /\ sent'[x] = sent[x]
    BY <1>5 DEF Claim
  <2>2. /\ queue'[p].main = queue[p].main /\ queue'[p].pend = queue[p].pend
        /\ queue'[p].poisoned = queue[p].poisoned
    BY <2>1, ClaimMarks
  <2>3. Ahead(queue[p], sent[p], issued[p])
    BY DEF OrderInv
  <2>4. queue[p].pend = NoWrite /\ sent[p] <= queue[p].main.n
    BY <2>1, <2>3 DEF Claimable, Ahead
  <2>5. sent'[p] = queue[p].main.n
    <3>1. sent[p] \in Nat /\ queue[p].main.n \in Nat
      BY Numbers
    <3>2. sent[p] < queue[p].main.n \/ sent[p] = queue[p].main.n
      BY <2>4, <3>1
    <3> QED
      BY <2>1, <3>2
  <2>6. Ahead(queue'[p], sent'[p], issued'[p])
    BY <2>1, <2>2, <2>3, <2>4, <2>5, Numbers DEF Ahead
  <2> QED
    BY <2>1, <2>6 DEF OrderInv
<1>6. ASSUME NEW k \in Permit, NEW d \in Doc, Stamp(k, d)
      PROVE  OrderInv'
  <2> DEFINE p == job[k].path
  <2>1. p \in Path
    BY <1>6, Numbers DEF Stamp
  <2>2. /\ queue'[p] = Stamped(queue[p], d) /\ issued' = issued /\ sent' = sent
        /\ \A x \in Path \ {p} : queue'[x] = queue[x]
    BY <1>6, <2>1 DEF Stamp
  <2> HIDE DEF p
  <2>3. Ahead(queue'[p], sent'[p], issued'[p])
    BY <2>1, <2>2, StampMarks, SameAhead DEF OrderInv
  <2> QED
    BY <2>2, <2>3 DEF OrderInv
<1>7. ASSUME NEW k \in Permit, Release(k)
      PROVE  OrderInv'
  <2> DEFINE p == job[k].path
  <2>1. PICK row : End(k, row) /\ Ahead(row, sent[p], issued[p])
    BY <1>7, ReleaseAhead
  <2>2. p \in Path
    BY <1>7, ReleaseIsEnd
  <2>3. /\ queue'[p] = row /\ issued' = issued /\ sent' = sent
        /\ \A x \in Path \ {p} : queue'[x] = queue[x]
    BY <2>1, <2>2 DEF End
  <2> HIDE DEF p
  <2> QED
    BY <2>1, <2>3 DEF OrderInv
<1>8. CASE Crash
  BY <1>8 DEF Crash, OrderInv
<1>9. CASE UNCHANGED qvars
  BY <1>9 DEF qvars, OrderInv
<1> QED
  BY <1>1, <1>2, <1>3, <1>4, <1>5, <1>6, <1>7, <1>8, <1>9, StepCases

(* "Latest always wins" (db.rs, push_queue_upsert): renames, crashes and   *)
(* rejections notwithstanding, no task sends a write after a newer one,    *)
(* unless a push failed while a newer write was parked behind it.          *)
THEOREM LatestWins ==
  ASSUME "latefail" \notin Hazards
  PROVE  QSpec => NoReplay
<1> DEFINE A == \A k \in Permit : job'[k] # job[k] /\ job'[k] # Idle =>
                  job'[k].w.n >= sent[job'[k].path]
<1>1. QTypeOK /\ OrderInv /\ [QNext]_qvars => [A]_qvars
  <2> SUFFICES ASSUME QTypeOK, OrderInv, [QNext]_qvars, NEW k \in Permit,
                      job'[k] # job[k], job'[k] # Idle
               PROVE  job'[k].w.n >= sent[job'[k].path]
    OBVIOUS
  <2>1. ~\E h \in Permit : Release(h)
    <3> SUFFICES ASSUME NEW h \in Permit, Release(h) PROVE FALSE
      OBVIOUS
    <3>1. job' = [job EXCEPT ![h] = Idle]
      BY ReleaseIsEnd DEF End
    <3> QED
      BY <3>1 DEF QTypeOK
  <2>2. PICK p \in Path, h \in Permit : Claim(p, h)
    BY <2>1, StepCases
    DEF PutNew, Put, Retarget, Attach, Elapse, Stamp, Crash, qvars
  <2>3. /\ h = k /\ Claimable(queue[p])
        /\ job'[k] = [path |-> p, w |-> queue[p].main, rid |-> queue[p].rid]
    BY <2>2 DEF Claim, QTypeOK
  <2>4. job'[k].path = p /\ job'[k].w = queue[p].main
    BY <2>3
  <2>5. sent[p] <= queue[p].main.n
    BY <2>3 DEF OrderInv, Ahead, Claimable
  <2> QED
    BY <2>4, <2>5, Numbers
<1>2. QTypeOK /\ OrderInv /\ [QNext]_qvars => OrderInv'
  BY StepOrder
<1> QED
  BY <1>1, <1>2, InitOrder, TypeCorrect, PTL DEF QSpec, NoReplay
=============================================================================
