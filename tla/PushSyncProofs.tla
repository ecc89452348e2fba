--------------------------- MODULE PushSyncProofs ---------------------------
(***************************************************************************)
(* The write path does to the push queue only what PushQueue allows, so    *)
(* the theorems of PushQueueProofs hold of it, for every set of filepaths, *)
(* inodes, documents and permits, and any calls, faults and hazards.       *)
(***************************************************************************)
EXTENDS PushSync, PushQueueProofs

(***************************************************************************)
(* The invariant.  What is still to come of a call has the columns its     *)
(* operation needs; a task that has POSTed knows its document; and every   *)
(* inode that is named, queued or being pushed has been allocated.         *)
(***************************************************************************)
RequestOK(r) ==
  /\ r.op \in {"flush", "create", "update"} => r.ino # None
  /\ r.op = "retarget" => r.to # None /\ r.to # r.path
  /\ r.op = "create" => r.to = None /\ r.rid = None /\ r.src = None
  /\ r.op = "update" => r.to = None /\ r.rid # None /\ r.src = None
  /\ r.op = "delete" => r.ino = None /\ r.to = None
  /\ r.op = "rename" => r.ino = None /\ r.to # None /\ r.to # r.path

CallOK == \A n \in 1..Len(call) : RequestOK(call[n])

PostedOK == \A k \in Permit : task[k].pc = "posted" => task[k].doc # None

Allocated == {None} \cup {i \in Ino : text[i] # None}

QueueAllocated ==
  /\ \A p \in Path : queue[p].main.ino \in Allocated /\ queue[p].pend.ino \in Allocated
  /\ \A k \in Permit : job[k].w.ino \in Allocated

FilesAllocated ==
  /\ \A p \in Path : file[p] \in Allocated
  /\ \A n \in 1..Len(call) : call[n].ino \in Allocated /\ call[n].src \in Allocated

SyncInv ==
  /\ QTypeOK /\ SyncTypeOK
  /\ CallOK /\ PostedOK
  /\ QueueAllocated /\ FilesAllocated
-----------------------------------------------------------------------------
(***************************************************************************)
(* Every step is one of PushQueue's or leaves the queue alone.             *)
(***************************************************************************)
LEMMA NoneIsNoInode == None \notin Ino /\ None \notin Path /\ None \notin Doc
BY NoneIsNull

LEMMA HeadOfCall ==
  ASSUME SyncInv, call # <<>>
  PROVE  /\ Head(call) = call[1] /\ 1 \in 1..Len(call)
         /\ Head(call) \in Request /\ RequestOK(Head(call))
         /\ Head(call).ino \in Allocated /\ Head(call).src \in Allocated
         /\ Tail(call) \in Seq(Request)
         /\ Len(Tail(call)) = Len(call) - 1
         /\ \A n \in 1..Len(Tail(call)) : /\ Tail(call)[n] = call[n + 1]
                                         /\ n + 1 \in 1..Len(call)
<1>1. call \in Seq(Request) /\ Len(call) \in Nat /\ Len(call) # 0
  BY DEF SyncInv, SyncTypeOK
<1> QED
  BY <1>1 DEF SyncInv, CallOK, FilesAllocated

LEMMA EnqueueIsUpsert ==
  ASSUME SyncInv, Enqueue
  PROVE  UserStep
<1> DEFINE r == Head(call)
           rid == IF r.src = None THEN r.rid ELSE remote[r.src]
<1>1. /\ r.op \in {"create", "update", "delete", "rename"}
      /\ Upsert(r.path, r.op, r.ino, r.to, rid, r.op \in {"delete", "rename"})
  BY DEF Enqueue
<1>2. /\ r.path \in Path /\ r.ino \in Ino \cup {None} /\ r.to \in Path \cup {None}
      /\ r.rid \in Doc \cup {None} /\ r.src \in Ino \cup {None} /\ RequestOK(r)
  BY HeadOfCall DEF Enqueue, Request
<1>3. rid \in Doc \cup {None}
  BY <1>2 DEF SyncInv, SyncTypeOK
<1> HIDE DEF rid, r
<1>4. CASE r.op = "create"
  <2>1. /\ rid = None /\ r.to = None /\ r.ino \in Ino
        /\ (r.op \in {"delete", "rename"}) = FALSE
    BY <1>2, <1>4 DEF RequestOK, rid
  <2>2. Upsert(r.path, "create", r.ino, None, None, FALSE)
    BY <1>1, <1>4, <2>1, Zenon
  <2> QED
    BY <1>2, <2>1, <2>2 DEF UserStep
<1>5. CASE r.op = "update"
  <2>1. /\ rid = r.rid /\ r.to = None /\ r.ino \in Ino /\ r.rid \in Doc
        /\ (r.op \in {"delete", "rename"}) = FALSE
    BY <1>2, <1>5 DEF RequestOK, rid
  <2>2. Upsert(r.path, "update", r.ino, None, r.rid, FALSE)
    BY <1>1, <1>5, <2>1, Zenon
  <2> QED
    BY <1>2, <2>1, <2>2 DEF UserStep
<1>6. CASE r.op = "delete"
  <2>1. /\ r.to = None /\ r.ino = None
        /\ (r.op \in {"delete", "rename"}) = TRUE
    BY <1>2, <1>6 DEF RequestOK
  <2>2. Upsert(r.path, "delete", None, None, rid, TRUE)
    BY <1>1, <1>6, <2>1, Zenon
  <2> QED
    BY <1>2, <1>3, <2>2 DEF UserStep
<1>7. CASE r.op = "rename"
  <2>1. /\ r.to \in Path \ {r.path} /\ r.ino = None
        /\ (r.op \in {"delete", "rename"}) = TRUE
    BY <1>2, <1>7 DEF RequestOK
  <2>2. Upsert(r.path, "rename", None, r.to, rid, TRUE)
    BY <1>1, <1>7, <2>1, Zenon
  <2> QED
    BY <1>2, <1>3, <2>1, <2>2 DEF UserStep
<1> QED
  BY <1>1, <1>4, <1>5, <1>6, <1>7

LEMMA FollowRenameIsRetarget ==
  ASSUME SyncInv, FollowRename
  PROVE  /\ Head(call).path \in Path /\ Head(call).to \in Path
         /\ Head(call).rid \in Doc \cup {None}
         /\ Retarget(Head(call).path, Head(call).to, Head(call).rid)
BY HeadOfCall DEF FollowRename, Asked, Request, RequestOK

(* What a step of a task does: it goes on, claims, binds, or ends.         *)
LEMMA WorkerCases ==
  ASSUME NEW k \in Permit, Worker(k)
  PROVE  \/ UNCHANGED <<qvars, file, text, call, edits>>
            /\ (ReadContent(k) \/ FindDocument(k) \/ WaitDone(k) \/ NewDocument(k)
                \/ Patch(k) \/ Delete(k))
         \/ \E p \in Path : Spawn(p, k)
         \/ Bind(k)
         \/ /\ Release(k) /\ Quit(k) /\ UNCHANGED <<file, text, call, doc, edits>>
            /\ Settle(k) \/ UNCHANGED dirty
            /\ Gone(k) \/ UNCHANGED remote
BY DEF Worker, Release, ReadContent, FindDocument, NothingToRename, WaitDone, Post, Upload,
       NewDocument, Patch, Delete, Settle, FinishDelete, Gone, FailRequest, LoseReply, Reject

LEMMA TaskDocument ==
  ASSUME SyncInv, NEW k \in Permit, Bind(k)
  PROVE  task[k].doc \in Doc /\ job[k].path \in Path
BY DEF Bind, At, Busy, SyncInv, SyncTypeOK, PostedOK, QTypeOK, Job

LEMMA StepIsQueueStep ==
  ASSUME SyncInv, [Next]_vars
  PROVE  [QNext]_qvars
<1>1. CASE User
  <2>1. CASE Enqueue
    BY <2>1, EnqueueIsUpsert DEF QNext
  <2>2. CASE FollowRename
    BY <2>2, FollowRenameIsRetarget DEF QNext, UserStep
  <2>3. CASE ~Enqueue /\ ~FollowRename
    BY <1>1, <2>3 DEF User, CreateFile, WriteFile, Unlink, Rename, Flush, TakeOver,
                      EnqueueRename
  <2> QED
    BY <2>1, <2>2, <2>3
<1>2. ASSUME NEW k \in Permit, Worker(k)
      PROVE  [QNext]_qvars
  <2>1. CASE \E p \in Path : Spawn(p, k)
    BY <2>1 DEF Spawn, QNext, WorkerStep
  <2>2. CASE Bind(k)
    BY <2>2, TaskDocument DEF Bind, QNext, WorkerStep
  <2>3. CASE Release(k)
    BY <2>3 DEF Release, QNext, WorkerStep
  <2> QED
    BY <1>2, <2>1, <2>2, <2>3, WorkerCases
<1>3. CASE \E p \in Path : Delay(p)
  BY <1>3 DEF Delay, QNext
<1>4. CASE \E d \in Doc : Process(d)
  BY <1>4 DEF Process
<1>5. CASE Restart
  BY <1>5 DEF Restart, QNext
<1>6. CASE UNCHANGED vars
  BY <1>6 DEF vars, qvars
<1> QED
  BY <1>1, <1>2, <1>3, <1>4, <1>5, <1>6 DEF Next
-----------------------------------------------------------------------------
(***************************************************************************)
(* The invariant is one.  First what the user's calls do to it.            *)
(***************************************************************************)
Rest == SyncTypeOK /\ CallOK /\ PostedOK /\ QueueAllocated /\ FilesAllocated

LEMMA InitSync == Init => SyncInv
<1> SUFFICES ASSUME Init PROVE SyncInv
  OBVIOUS
<1>1. QTypeOK
  BY InitTypeOK DEF Init
<1>2. SyncTypeOK
  <2>1. call \in Seq(Request)
    BY DEF Init
  <2>2. \A k \in Permit : Busy(k) <=> task[k].pc # "idle"
    BY DEF Init, QInit, NoTask, Busy
  <2> QED
    BY <2>1, <2>2, SyncAssumption DEF Init, SyncTypeOK, NoTask, Unborn
<1>3. QueueAllocated /\ FilesAllocated
  BY NoRowFields DEF Init, QInit, QueueAllocated, FilesAllocated, Allocated, Idle, NoWrite
<1> QED
  BY <1>1, <1>2, <1>3 DEF SyncInv, Init, CallOK, PostedOK, NoTask

(* An allocated inode stays allocated.                                     *)
LEMMA AllocatedGrows ==
  ASSUME SyncInv, [Next]_vars
  PROVE  Allocated \subseteq Allocated'
<1> USE DEF SyncInv, SyncTypeOK, Allocated
<1>0. ASSUME NEW i, NEW x \in Nat, text' = [text EXCEPT ![i] = x]
      PROVE  Allocated \subseteq Allocated'
  BY <1>0, SyncAssumption
<1>1. ASSUME NEW p \in Path, CreateFile(p) \/ WriteFile(p) \/ Unlink(p)
      PROVE  Allocated \subseteq Allocated'
  <2>1. CASE CreateFile(p)
    BY <2>1, <1>0 DEF CreateFile
  <2>2. CASE WriteFile(p)
    <3>1. edits' \in Nat /\ text' = [text EXCEPT ![file[p]] = edits']
      BY <2>2, SyncAssumption DEF WriteFile
    <3> QED
      BY <3>1, <1>0
  <2>3. CASE Unlink(p)
    BY <2>3, <1>0 DEF Unlink, Dropped
  <2> QED
    BY <1>1, <2>1, <2>2, <2>3
<1>2. ASSUME NEW p \in Path, NEW q \in Path, Rename(p, q)
      PROVE  Allocated \subseteq Allocated'
  <2>1. text' = text \/ \E i : text' = [text EXCEPT ![i] = 0]
    BY <1>2 DEF Rename, Dropped
  <2> QED
    BY <2>1, <1>0
<1>3. CASE UNCHANGED text
  BY <1>3
<1>4. ASSUME NEW k \in Permit, Worker(k)
      PROVE  UNCHANGED text
  BY <1>4, WorkerCases DEF Spawn, Bind
<1> QED
  BY <1>1, <1>2, <1>3, <1>4
  DEF Next, User, Flush, FollowRename, TakeOver, EnqueueRename, Enqueue, Delay, Process,
      Restart, vars

(* A call that asks for one operation, or for two.                         *)
LEMMA OneRequest ==
  ASSUME NEW r \in Request
  PROVE  /\ <<r>> \in Seq(Request) /\ Len(<<r>>) = 1
         /\ \A n \in 1..1 : <<r>>[n] = r
OBVIOUS

(* The parts of the invariant that a step keeps by leaving them alone.     *)
LEMMA QueueKept ==
  ASSUME SyncInv, UNCHANGED <<queue, job>>, Allocated \subseteq Allocated'
  PROVE  QueueAllocated'
BY DEF SyncInv, QueueAllocated

LEMMA TasksKept ==
  ASSUME SyncInv, UNCHANGED task
  PROVE  PostedOK'
BY DEF SyncInv, PostedOK

LEMMA UserCallStep ==
  ASSUME SyncInv, [Next]_vars, NEW p \in Path, NEW q \in Path,
         CreateFile(p) \/ WriteFile(p) \/ Unlink(p) \/ Rename(p, q)
  PROVE  Rest'
<1>1. UNCHANGED <<queue, job, task, doc>>
  BY DEF CreateFile, WriteFile, Unlink, Rename, qvars
<1>2. QueueAllocated' /\ PostedOK'
  BY <1>1, QueueKept, TasksKept, AllocatedGrows
<1>3. \A x \in Path : file[x] \in Ino \cup {None}
  BY DEF SyncInv, SyncTypeOK
<1>4. CASE CreateFile(p)
  <2>1. PICK i \in Ino : /\ file' = [file EXCEPT ![p] = i]
                         /\ text' = [text EXCEPT ![i] = 0]
                         /\ UNCHANGED <<dirty, remote, call, edits>>
    BY <1>4 DEF CreateFile, FreeInos
  <2>2. SyncTypeOK'
    BY <1>1, <2>1 DEF SyncInv, SyncTypeOK, Busy
  <2>3. i \in Allocated'
    BY <2>1, SyncAssumption DEF SyncInv, SyncTypeOK, Allocated
  <2>4. CallOK' /\ FilesAllocated'
    BY <2>1, <2>3, AllocatedGrows DEF SyncInv, SyncTypeOK, CallOK, FilesAllocated
  <2> QED
    BY <1>2, <2>2, <2>4 DEF Rest
<1>5. CASE WriteFile(p)
  <2> DEFINE r == Ask("flush", p, file[p], None, None, None)
  <2>1. r \in Request /\ RequestOK(r) /\ r.ino = file[p] /\ r.src = None
    BY <1>3, <1>5 DEF WriteFile, Ask, Request, RequestOK
  <2>2. call' = <<r>> /\ edits' \in 0..MaxEdits /\ edits' \in Nat
    BY <1>5, SyncAssumption DEF WriteFile, NewCall, SyncInv, SyncTypeOK
  <2> HIDE DEF r
  <2>3. SyncTypeOK'
    BY <1>1, <1>5, <2>1, <2>2, OneRequest DEF WriteFile, SyncInv, SyncTypeOK, Busy
  <2>4. file[p] \in Allocated
    BY DEF SyncInv, FilesAllocated
  <2>5. CallOK' /\ FilesAllocated'
    BY <1>5, <2>1, <2>2, <2>4, AllocatedGrows, OneRequest
    DEF WriteFile, SyncInv, CallOK, FilesAllocated, Allocated
  <2> QED
    BY <1>2, <2>3, <2>5 DEF Rest
<1>6. CASE Unlink(p)
  <2> DEFINE r == Ask("delete", p, None, None, None, file[p])
  <2>1. r \in Request /\ RequestOK(r) /\ r.ino = None /\ r.src = file[p]
    BY <1>3 DEF Ask, Request, RequestOK
  <2>2. call' = <<r>> /\ edits' \in 0..MaxEdits
    BY <1>6, SyncAssumption DEF Unlink, NewCall, SyncInv, SyncTypeOK
  <2> HIDE DEF r
  <2>3. SyncTypeOK'
    BY <1>1, <1>6, <2>1, <2>2, OneRequest
    DEF Unlink, Dropped, SyncInv, SyncTypeOK, Busy
  <2>4. file[p] \in Allocated'
    BY AllocatedGrows DEF SyncInv, FilesAllocated
  <2>5. CallOK' /\ FilesAllocated'
    BY <1>6, <2>1, <2>2, <2>4, AllocatedGrows, OneRequest
    DEF Unlink, SyncInv, SyncTypeOK, CallOK, FilesAllocated, Allocated
  <2> QED
    BY <1>2, <2>3, <2>5 DEF Rest
<1>7. CASE Rename(p, q)
  <2>1. PICK r \in Request :
          /\ RequestOK(r) /\ {r.ino, r.src} \subseteq Allocated /\ call' = <<r>>
    <3> DEFINE rid == IF file[q] = None THEN None ELSE remote[file[q]]
               new == Ask("retarget", p, file[q], q, rid, file[p])
    <3>1. rid \in Doc \cup {None} /\ {file[q], file[p]} \subseteq Allocated
      BY <1>3 DEF SyncInv, SyncTypeOK, FilesAllocated
    <3>2. call' = <<new>> /\ p # q
      BY <1>7 DEF Rename
    <3> HIDE DEF rid
    <3>3. new \in Request /\ RequestOK(new) /\ {new.ino, new.src} \subseteq Allocated
      BY <1>3, <3>1, <3>2, NoneIsNoInode DEF Ask, Request, RequestOK
    <3> QED
      BY <3>2, <3>3
  <2>2. edits' \in 0..MaxEdits
    BY <1>7, SyncAssumption DEF Rename, NewCall, SyncInv, SyncTypeOK
  <2>3. /\ text' \in [Ino -> Nat \cup {None}] /\ dirty' \in [Ino -> BOOLEAN]
        /\ remote' \in [Ino -> Doc \cup {None}]
        /\ file' = [file EXCEPT ![p] = None, ![q] = file[p]]
    <3>1. CASE file[q] = None
      BY <1>7, <3>1 DEF Rename, SyncInv, SyncTypeOK
    <3>2. CASE file[q] # None
      <4>1. /\ text' = [text EXCEPT ![file[q]] = 0]
            /\ dirty' = [dirty EXCEPT ![file[q]] = FALSE]
            /\ remote' = [remote EXCEPT ![file[q]] = None]
            /\ file' = [file EXCEPT ![p] = None, ![q] = file[p]]
        BY <1>7, <3>2 DEF Rename, Dropped
      <4> QED
        BY <4>1 DEF SyncInv, SyncTypeOK
    <3> QED
      BY <3>1, <3>2
  <2>4. SyncTypeOK'
    BY <1>1, <2>1, <2>2, <2>3, OneRequest DEF SyncInv, SyncTypeOK, Busy
  <2>5. CallOK'
    BY <2>1, OneRequest DEF CallOK
  <2>6. \A x \in Path : file'[x] \in {None, file[x], file[p]}
    BY <1>3, <2>3 DEF SyncInv, SyncTypeOK
  <2>7. FilesAllocated'
    BY <2>1, <2>6, AllocatedGrows, OneRequest DEF SyncInv, FilesAllocated, Allocated
  <2> QED
    BY <1>2, <2>4, <2>5, <2>7 DEF Rest
<1> QED
  BY <1>4, <1>5, <1>6, <1>7

(* The queue after a user's operation on it holds writes that it held, or  *)
(* the new one.                                                            *)
LEMMA EnqueueAllocates ==
  ASSUME SyncInv, Enqueue
  PROVE  QueueAllocated'
<1> DEFINE r == Head(call)
<1> DEFINE rid == IF r.src = None THEN r.rid ELSE remote[r.src]
           due == r.op \in {"delete", "rename"}
<1>1. Upsert(r.path, r.op, r.ino, r.to, rid, due)
  BY DEF Enqueue
<1>2. r.path \in Path /\ r.ino \in Allocated
  BY HeadOfCall DEF Enqueue, Request
<1>3. UNCHANGED <<job, text>>
  BY <1>1 DEF Enqueue, Upsert
<1> DEFINE w == NewWrite(r.path, r.op, r.ino, r.to)
<1>4. w.ino = r.ino
  BY DEF NewWrite
<1> HIDE DEF w, r, rid, due
<1>5. queue' = [queue EXCEPT ![r.path] = Upserted(queue[r.path], w, rid, due)]
  BY <1>1 DEF Upsert, w
<1>6. queue[r.path] \in Row /\ queue \in [Path -> Row]
  BY <1>2 DEF SyncInv, QTypeOK
<1>7. /\ Upserted(queue[r.path], w, rid, due).main \in {queue[r.path].main, w}
      /\ Upserted(queue[r.path], w, rid, due).pend \in {queue[r.path].pend, w}
  <2>1. CASE queue[r.path] \in TableRow
    BY <2>1 DEF Upserted, TableRow
  <2>2. CASE queue[r.path] = NoRow
    BY <2>2 DEF Upserted, NoRow
  <2> QED
    BY <1>6, <2>1, <2>2 DEF Row
<1> QED
  BY <1>2, <1>3, <1>4, <1>5, <1>6, <1>7 DEF SyncInv, QueueAllocated, Allocated

LEMMA FollowRenameAllocates ==
  ASSUME SyncInv, FollowRename
  PROVE  QueueAllocated'
<1>1. PICK p \in Path, q \in Path, d \in Doc \cup {None} : Retarget(p, q, d)
  BY FollowRenameIsRetarget
<1>2. queue \in [Path -> Row] /\ issued \in [Path -> Nat]
  BY DEF SyncInv, QTypeOK
<1>3. UNCHANGED <<job, text>>
  BY <1>1 DEF FollowRename, Retarget
<1>4. /\ Retargeted(queue[p], issued[q], d).main = Renumbered(queue[p].main, issued[q])
      /\ Retargeted(queue[p], issued[q], d).pend = Renumbered(queue[p].pend, issued[q])
  BY <1>1, <1>2, RetargetMoves DEF Retarget
<1>5. ASSUME NEW s \in Slot, NEW shift \in Nat
      PROVE  Renumbered(s, shift).ino = s.ino
  BY <1>5 DEF Renumbered, Slot, NoWrite, Write, ContentWrite, DeleteWrite, RenameWrite
<1>6. queue[p].main \in Slot /\ queue[p].pend \in Slot
  BY <1>2, RowFields
<1>7. queue' = [queue EXCEPT ![q] = Retargeted(queue[p], issued[q], d), ![p] = NoRow]
  BY <1>1 DEF Retarget
<1>8. NoRow.main.ino = None /\ NoRow.pend.ino = None
  BY NoRowFields DEF NoWrite
<1> QED
  BY <1>2, <1>3, <1>4, <1>5, <1>6, <1>7, <1>8 DEF SyncInv, QueueAllocated, Allocated

LEMMA UserQueueStep ==
  ASSUME SyncInv, [Next]_vars,
         Flush \/ FollowRename \/ TakeOver \/ EnqueueRename \/ Enqueue
  PROVE  Rest'
<1> DEFINE r == Head(call)
<1>1. call # <<>>
  BY DEF Flush, FollowRename, TakeOver, EnqueueRename, Enqueue, Asked
<1>2. UNCHANGED <<job, task, doc, file, text, dirty, edits>>
  BY DEF Flush, FollowRename, TakeOver, EnqueueRename, Enqueue, Retarget, Upsert, qvars
<1>3. QueueAllocated'
  <2>1. CASE Enqueue
    BY <2>1, EnqueueAllocates
  <2>2. CASE FollowRename
    BY <2>2, FollowRenameAllocates
  <2>3. CASE UNCHANGED <<queue, job>>
    BY <2>3, QueueKept, AllocatedGrows
  <2> QED
    BY <2>1, <2>2, <2>3 DEF Flush, TakeOver, EnqueueRename, qvars
<1>4. PostedOK'
  BY <1>2, TasksKept
<1>5. /\ r \in Request /\ RequestOK(r) /\ r.path \in Path
      /\ r.rid \in Doc \cup {None} /\ r.ino \in Ino \cup {None} /\ r.src \in Ino \cup {None}
      /\ r.ino \in Allocated /\ r.src \in Allocated
  BY <1>1, HeadOfCall DEF Request
<1>6. remote' \in [Ino -> Doc \cup {None}]
  <2>1. CASE TakeOver
    BY <2>1, <1>5 DEF TakeOver, SyncInv, SyncTypeOK
  <2>2. CASE UNCHANGED remote
    BY <2>2 DEF SyncInv, SyncTypeOK
  <2> QED
    BY <2>1, <2>2 DEF Flush, FollowRename, EnqueueRename, Enqueue
<1> DEFINE Fine(c) == /\ c \in Seq(Request)
                      /\ \A n \in 1..Len(c) : /\ RequestOK(c[n])
                                              /\ {c[n].ino, c[n].src} \subseteq Allocated
<1>7. ASSUME NEW x \in Request, RequestOK(x), {x.ino, x.src} \subseteq Allocated
      PROVE  Fine(<<x>>)
  BY <1>7, OneRequest
<1>8. Fine(<<>>)
  OBVIOUS
<1>9. Fine(call')
  <2>1. CASE Flush
    <3> DEFINE op == IF remote[r.ino] = None THEN "create" ELSE "update"
               x == Ask(op, r.path, r.ino, None, remote[r.ino], None)
    <3>1. r.ino \in Ino /\ remote[r.ino] \in Doc \cup {None}
      BY <2>1, <1>5 DEF Flush, Asked, RequestOK, SyncInv, SyncTypeOK
    <3>2. x \in Request /\ RequestOK(x) /\ {x.ino, x.src} \subseteq Allocated
      BY <1>5, <3>1, NoneIsNoInode DEF Ask, Request, RequestOK, Allocated
    <3>3. call' \in {<<>>, <<x>>}
      BY <2>1 DEF Flush
    <3>4. Fine(<<x>>)
      BY <3>2, <1>7
    <3> HIDE DEF x, Fine
    <3> QED
      BY <3>3, <3>4, <1>8
  <2>2. CASE FollowRename
    <3> DEFINE x == Ask("bind", r.to, r.src, None, r.rid, None)
    <3>1. x \in Request /\ RequestOK(x) /\ {x.ino, x.src} \subseteq Allocated
      BY <1>5, <2>2, FollowRenameIsRetarget DEF Ask, Request, RequestOK, Allocated
    <3>2. call' \in {<<>>, <<x>>}
      BY <2>2 DEF FollowRename
    <3>3. Fine(<<x>>)
      BY <3>1, <1>7
    <3> HIDE DEF x, Fine
    <3> QED
      BY <3>2, <3>3, <1>8
  <2>3. CASE TakeOver
    BY <2>3, <1>8 DEF TakeOver
  <2>4. CASE EnqueueRename
    <3> DEFINE over == Ask("delete", r.to, None, None, None, None)
               move == Ask("rename", r.path, None, r.to, None, r.src)
    <3>1. /\ r.to \in Path /\ r.to # r.path /\ r.src \in Ino \cup {None}
      BY <1>5, <2>4 DEF EnqueueRename, Asked, Request, RequestOK
    <3>2. /\ over \in Request /\ RequestOK(over) /\ over.ino = None
          /\ move \in Request /\ RequestOK(move) /\ move.ino = None
          /\ over.src = None /\ move.src = r.src
      BY <1>5, <3>1, NoneIsNoInode DEF Ask, Request, RequestOK
    <3>3. call' \in {<<move>>, <<over, move>>}
      BY <2>4 DEF EnqueueRename
    <3> HIDE DEF over, move
    <3>4. {move.ino, move.src} \subseteq Allocated
      BY <1>5, <3>2 DEF Allocated
    <3>5. Fine(<<over, move>>)
      BY <3>2, <3>4 DEF Allocated
    <3>6. Fine(<<move>>)
      BY <3>2, <3>4, <1>7
    <3> HIDE DEF Fine
    <3> QED
      BY <3>3, <3>5, <3>6
  <2>5. CASE Enqueue
    <3>1. call' = Tail(call)
      BY <2>5 DEF Enqueue
    <3> QED
      BY <1>1, <3>1, HeadOfCall DEF SyncInv, CallOK, FilesAllocated
  <2> QED
    BY <2>1, <2>2, <2>3, <2>4, <2>5
<1>10. SyncTypeOK'
  BY <1>2, <1>6, <1>9 DEF SyncInv, SyncTypeOK, Busy
<1>11. CallOK' /\ FilesAllocated'
  BY <1>2, <1>9 DEF SyncInv, CallOK, FilesAllocated, Allocated
<1> QED
  BY <1>3, <1>4, <1>10, <1>11 DEF Rest
-----------------------------------------------------------------------------
(***************************************************************************)
(* What the tasks, the server and the timers do to it.                     *)
(***************************************************************************)
TaskState == [pc : {"idle", "start", "wait", "send", "posted", "settle", "deleted"},
              body : Nat, doc : Doc \cup {None}]

DocState == [st : {"unborn", "processing", "done", "deleted"},
             path : Path \cup {None}, text : Nat]

(* The parts that a step of a task keeps, given what it does to the task's *)
(* own state and to the documents.                                         *)
LEMMA TaskStep ==
  ASSUME SyncInv, NEW k \in Permit, NEW s \in TaskState,
         task' = [task EXCEPT ![k] = s], doc' \in [Doc -> DocState],
         UNCHANGED <<file, text, call, edits>>,
         dirty' \in [Ino -> BOOLEAN], remote' \in [Ino -> Doc \cup {None}],
         \A h \in Permit \ {k} : job'[h] = job[h],
         job'[k] # Idle <=> s.pc # "idle",
         s.pc = "posted" => s.doc # None
  PROVE  SyncTypeOK' /\ CallOK' /\ PostedOK' /\ FilesAllocated'
<1>1. task' \in [Permit -> TaskState] /\ \A h \in Permit : task'[h] = IF h = k THEN s ELSE task[h]
  BY DEF SyncInv, SyncTypeOK, TaskState
<1>2. \A h \in Permit : (job'[h] # Idle) <=> (task'[h].pc # "idle")
  BY <1>1 DEF SyncInv, SyncTypeOK, Busy
<1>3. SyncTypeOK'
  BY <1>1, <1>2 DEF SyncInv, SyncTypeOK, Busy, TaskState, DocState
<1>4. CallOK' /\ FilesAllocated'
  BY DEF SyncInv, CallOK, FilesAllocated, Allocated
<1>5. PostedOK'
  BY <1>1 DEF SyncInv, PostedOK
<1> QED
  BY <1>3, <1>4, <1>5

LEMMA SyncTypes ==
  ASSUME SyncInv
  PROVE  /\ task \in [Permit -> TaskState] /\ doc \in [Doc -> DocState]
         /\ dirty \in [Ino -> BOOLEAN] /\ remote \in [Ino -> Doc \cup {None}]
         /\ queue \in [Path -> Row] /\ job \in [Permit -> Job]
         /\ NoTask \in TaskState /\ NoTask.pc = "idle"
BY DEF SyncInv, SyncTypeOK, TaskState, DocState, QTypeOK, NoTask

(* The steps between two awaits that do not touch the queue.               *)
LEMMA TaskGoesOn ==
  ASSUME SyncInv, NEW k \in Permit,
         \/ ReadContent(k) \/ FindDocument(k) \/ WaitDone(k)
         \/ NewDocument(k) \/ Patch(k) \/ Delete(k)
  PROVE  Rest'
<1> USE SyncTypes
<1>1. /\ UNCHANGED <<queue, job, file, text, dirty, remote, call, edits>>
      /\ job[k] # Idle
  BY DEF ReadContent, FindDocument, WaitDone, NewDocument, Patch, Delete, At, Busy, qvars
<1>2. QueueAllocated'
  BY <1>1, QueueKept DEF Allocated
<1>3. /\ task[k].body \in Nat /\ task[k].doc \in Doc \cup {None}
      /\ job[k].path \in Path /\ job[k].w \in Write /\ job[k].rid \in Doc \cup {None}
      /\ job[k].w.ino \in Allocated
  BY <1>1 DEF TaskState, Job, SyncInv, QueueAllocated
<1>4. doc' \in [Doc -> DocState]
  <2>1. CASE UNCHANGED doc
    BY <2>1
  <2>2. CASE NewDocument(k)
    <3>1. PICK d : Posted(job[k].path, task[k].body, d)
      BY <2>2 DEF NewDocument
    <3>2. [st |-> "processing", path |-> job[k].path, text |-> task[k].body] \in DocState
      BY <1>3 DEF DocState
    <3> QED
      BY <3>1, <3>2 DEF Posted
  <2>3. CASE Patch(k)
    <3>1. task[k].doc \in Doc /\ doc[task[k].doc] \in DocState
      BY <1>3, <2>3 DEF Patch, Alive
    <3>2. job[k].w.to \in Path \cup {None}
      BY <1>3 DEF Write, ContentWrite, DeleteWrite, RenameWrite
    <3>3. PICK p \in Path \cup {None}, x \in Nat :
            doc' = [doc EXCEPT ![task[k].doc] = [st |-> "processing", path |-> p, text |-> x]]
      BY <1>3, <2>3, <3>1, <3>2 DEF Patch, Patched, DocState
    <3>4. [st |-> "processing", path |-> p, text |-> x] \in DocState
      BY <3>3 DEF DocState
    <3> QED
      BY <3>3, <3>4
  <2>4. CASE Delete(k)
    <3>1. PICK D : Deleted(D)
      BY <2>4 DEF Delete
    <3>2. ASSUME NEW d \in Doc PROVE [doc[d] EXCEPT !.st = "deleted"] \in DocState
      BY DEF DocState
    <3> QED
      BY <3>1, <3>2 DEF Deleted
  <2> QED
    BY <2>1, <2>2, <2>3, <2>4 DEF ReadContent, FindDocument, WaitDone
<1>5. PICK pc \in {"start", "wait", "send", "posted", "settle", "deleted"}, body \in Nat,
           d \in Doc \cup {None} :
        Goto(k, pc, body, d) /\ (pc = "posted" => d # None)
  <2>1. CASE ReadContent(k)
    <3>1. job[k].w.ino \in Ino /\ text[job[k].w.ino] \in Nat
      BY <1>3, <2>1, NoneIsNoInode
      DEF ReadContent, IsContent, Write, ContentWrite, DeleteWrite, RenameWrite, Allocated,
          SyncInv, SyncTypeOK
    <3> QED
      BY <1>3, <2>1, <3>1 DEF ReadContent
  <2>2. CASE FindDocument(k)
    BY <1>3, <2>2 DEF FindDocument, DocsAt
  <2>3. CASE WaitDone(k)
    BY <1>3, <2>3 DEF WaitDone
  <2>4. CASE NewDocument(k)
    BY <1>3, <2>4, NoneIsNoInode DEF NewDocument, FreshDocs
  <2>5. CASE Patch(k)
    BY <1>3, <2>5 DEF Patch
  <2>6. CASE Delete(k)
    BY <2>6 DEF Delete
  <2> QED
    BY <2>1, <2>2, <2>3, <2>4, <2>5, <2>6
<1> DEFINE s == [pc |-> pc, body |-> body, doc |-> d]
<1>6. s \in TaskState /\ s.pc # "idle" /\ (s.pc = "posted" => s.doc # None)
  BY <1>5 DEF TaskState
<1>7. task' = [task EXCEPT ![k] = s]
  BY <1>5 DEF Goto
<1> HIDE DEF s
<1> QED
  BY <1>1, <1>2, <1>4, <1>6, <1>7, TaskStep DEF Rest

(* The steps that change the queue and the task together.                  *)
LEMMA SpawnStep ==
  ASSUME SyncInv, NEW p \in Path, NEW k \in Permit, Spawn(p, k)
  PROVE  Rest'
<1> USE SyncTypes
<1> DEFINE claim == [path |-> p, w |-> queue[p].main, rid |-> queue[p].rid]
           s == [pc |-> "start", body |-> 0, doc |-> None]
<1>1. /\ Claimable(queue[p]) /\ queue' = [queue EXCEPT ![p] = Claimed(@)]
      /\ job' = [job EXCEPT ![k] = claim]
      /\ task' = [task EXCEPT ![k] = s]
      /\ UNCHANGED <<file, text, dirty, remote, call, doc, edits>>
  BY DEF Spawn, Claim, Goto
<1>2. /\ Claimed(queue[p]).main = queue[p].main /\ Claimed(queue[p]).pend = queue[p].pend
  BY <1>1, ClaimMarks
<1>3. queue[p].main.ino \in Allocated
  BY DEF SyncInv, QueueAllocated
<1>4. claim # Idle
  BY NoneIsNoInode DEF Idle
<1>5. QueueAllocated'
  BY <1>1, <1>2, <1>3 DEF SyncInv, QueueAllocated, Allocated
<1>6. s \in TaskState /\ s.pc = "start"
  BY DEF TaskState
<1> HIDE DEF s, claim
<1> QED
  BY <1>1, <1>4, <1>5, <1>6, TaskStep DEF Rest

LEMMA BindStep ==
  ASSUME SyncInv, NEW k \in Permit, Bind(k)
  PROVE  Rest'
<1> USE SyncTypes
<1> DEFINE s == [pc |-> "settle", body |-> task[k].body, doc |-> task[k].doc]
<1>1. task[k].doc \in Doc /\ job[k].path \in Path /\ task[k].body \in Nat
  BY TaskDocument DEF TaskState
<1>2. /\ queue' = [queue EXCEPT ![job[k].path] = Stamped(@, task[k].doc)]
      /\ job' = job /\ job[k] # Idle
      /\ task' = [task EXCEPT ![k] = s]
      /\ remote' = [remote EXCEPT ![job[k].w.ino] = task[k].doc]
      /\ UNCHANGED <<file, text, dirty, call, doc, edits>>
  BY DEF Bind, Stamp, Goto, Busy
<1>3. LET r == queue[job[k].path]
      IN /\ Stamped(r, task[k].doc).main = r.main
         /\ Stamped(r, task[k].doc).pend = r.pend
  BY <1>1, StampMarks
<1>4. QueueAllocated'
  BY <1>1, <1>2, <1>3 DEF SyncInv, QueueAllocated, Allocated
<1>5. s \in TaskState /\ s.pc = "settle"
  BY <1>1 DEF TaskState
<1>6. remote' \in [Ino -> Doc \cup {None}]
  BY <1>1, <1>2
<1> HIDE DEF s
<1> QED
  BY <1>2, <1>4, <1>5, <1>6, TaskStep DEF Rest

LEMMA EndStep ==
  ASSUME SyncInv, NEW k \in Permit, Worker(k), Release(k), Quit(k),
         UNCHANGED <<file, text, call, doc, edits>>,
         Settle(k) \/ UNCHANGED dirty, Gone(k) \/ UNCHANGED remote
  PROVE  Rest'
<1> USE SyncTypes
<1>1. PICK row \in Row : End(k, row) /\ Left(HeldRow(k), row)
  BY ReleaseIsEnd DEF SyncInv
<1>2. job[k].path \in Path
  BY ReleaseIsEnd DEF SyncInv
<1>3. /\ queue' = [queue EXCEPT ![job[k].path] = row]
      /\ job' = [job EXCEPT ![k] = Idle]
  BY <1>1 DEF End
<1>4. Idle.w.ino = None /\ NoWrite.ino = None
  BY DEF Idle, NoWrite
<1>5. row.main.ino \in Allocated /\ row.pend.ino \in Allocated
  BY <1>1, <1>2, <1>4 DEF Left, HeldRow, SyncInv, QueueAllocated, Allocated
<1>6. QueueAllocated'
  BY <1>2, <1>3, <1>4, <1>5 DEF SyncInv, QueueAllocated, Allocated
<1>7. dirty' \in [Ino -> BOOLEAN]
  BY DEF Settle
<1>8. remote' \in [Ino -> Doc \cup {None}]
  BY DEF Gone
<1>9. task' = [task EXCEPT ![k] = NoTask] /\ NoTask.pc # "posted"
  BY DEF Quit, NoTask
<1> QED
  BY <1>3, <1>6, <1>7, <1>8, <1>9, TaskStep DEF Rest

LEMMA DelayStep ==
  ASSUME SyncInv, NEW p \in Path, Delay(p)
  PROVE  Rest'
<1> USE SyncTypes
<1>1. /\ Present(queue[p]) /\ queue' = [queue EXCEPT ![p] = [queue[p] EXCEPT !.due = TRUE]]
      /\ UNCHANGED <<job, file, text, dirty, remote, call, task, doc, edits>>
  BY DEF Delay, Elapse
<1>2. /\ [queue[p] EXCEPT !.due = TRUE].main = queue[p].main
      /\ [queue[p] EXCEPT !.due = TRUE].pend = queue[p].pend
  BY <1>1, ElapseMarks
<1>3. QueueAllocated'
  BY <1>1, <1>2 DEF SyncInv, QueueAllocated, Allocated
<1> QED
  BY <1>1, <1>3
  DEF Rest, SyncInv, SyncTypeOK, CallOK, PostedOK, FilesAllocated, Allocated, Busy

LEMMA RestartStep ==
  ASSUME SyncInv, Restart
  PROVE  Rest'
<1> USE SyncTypes
<1>1. /\ job' = [k \in Permit |-> Idle] /\ task' = [k \in Permit |-> NoTask]
      /\ call' = <<>> /\ UNCHANGED <<queue, file, text, dirty, remote, doc, edits>>
  BY DEF Restart, Crash
<1>2. Idle.w.ino = None
  BY DEF Idle, NoWrite
<1>3. QueueAllocated'
  BY <1>1, <1>2 DEF SyncInv, QueueAllocated, Allocated
<1>4. SyncTypeOK'
  BY <1>1 DEF SyncInv, SyncTypeOK, Busy, TaskState
<1>5. CallOK' /\ PostedOK' /\ FilesAllocated'
  BY <1>1 DEF SyncInv, CallOK, PostedOK, FilesAllocated, Allocated, NoTask
<1> QED
  BY <1>3, <1>4, <1>5 DEF Rest

LEMMA StepSync ==
  ASSUME SyncInv, [Next]_vars
  PROVE  SyncInv'
<1>1. QTypeOK'
  BY StepIsQueueStep, StepTypeOK DEF SyncInv
<1>2. Rest'
  <2>1. CASE User
    BY <2>1, UserCallStep, UserQueueStep DEF User
  <2>2. ASSUME NEW k \in Permit, Worker(k)
        PROVE  Rest'
    BY <2>2, WorkerCases, TaskGoesOn, SpawnStep, BindStep, EndStep
  <2>3. CASE \E p \in Path : Delay(p)
    BY <2>3, DelayStep
  <2>4. ASSUME NEW d \in Doc, Process(d)
        PROVE  Rest'
    <3>1. [doc[d] EXCEPT !.st = "done"] \in DocState
      BY SyncTypes DEF DocState
    <3>2. doc' \in [Doc -> DocState]
      BY <2>4, <3>1, SyncTypes DEF Process
    <3> QED
      BY <2>4, <3>2
      DEF Process, qvars, Rest, SyncInv, SyncTypeOK, DocState, CallOK, PostedOK,
          QueueAllocated, FilesAllocated, Allocated, Busy
  <2>5. CASE Restart
    BY <2>5, RestartStep
  <2>6. CASE UNCHANGED vars
    BY <2>6
    DEF vars, Rest, SyncInv, SyncTypeOK, CallOK, PostedOK, QueueAllocated, FilesAllocated,
        Allocated, Busy
  <2> QED
    BY <2>1, <2>2, <2>3, <2>4, <2>5, <2>6 DEF Next
<1> QED
  BY <1>1, <1>2 DEF SyncInv, Rest

LEMMA SyncInvHolds == Spec => []SyncInv
<1>1. SyncInv /\ [Next]_vars => SyncInv'
  BY StepSync
<1> QED
  BY <1>1, InitSync, PTL DEF Spec
-----------------------------------------------------------------------------
(***************************************************************************)
(* The theorems.                                                           *)
(***************************************************************************)

(* Whatever users do, requests fail or the daemon dies: calls, tasks and   *)
(* documents are well formed, and a permit is taken exactly while its task *)
(* holds a claim (push.rs, run_push_worker).                               *)
THEOREM SyncTypeCorrect == Spec => []SyncTypeOK
<1>1. SyncInv => SyncTypeOK
  BY DEF SyncInv
<1> QED
  BY <1>1, SyncInvHolds, PTL

(* The write path uses the queue as PushQueue says: every call of the file *)
(* system and every step of process_job is one of its operations, or       *)
(* leaves it alone.                                                        *)
THEOREM ImplementsQueue == Spec => QSpec
<1>1. Init => QInit
  BY DEF Init
<1>2. SyncInv /\ [Next]_vars => [QNext]_qvars
  BY StepIsQueueStep
<1> QED
  BY <1>1, <1>2, SyncInvHolds, PTL DEF Spec, QSpec

(* So no two tasks of process_job push one filepath at a time ...          *)
THEOREM PushedByOne ==
  ASSUME "busydst" \notin Hazards
  PROVE  Spec => []OnePushPerPath
BY ImplementsQueue, SameFileSafety, PTL

(* ... the newest write of every filepath is sent or waits in its row ...  *)
THEOREM NewestWaits ==
  ASSUME "busydst" \notin Hazards
  PROVE  Spec => []NewestKept
BY ImplementsQueue, NothingNewestDropped, PTL

(* ... none is sent after a newer one ...                                  *)
THEOREM SentInOrder ==
  ASSUME "latefail" \notin Hazards
  PROVE  Spec => NoReplay
BY ImplementsQueue, LatestWins, PTL

(* ... and however process_job ends, it releases its row.                  *)
THEOREM ReleasedAtTheEnd == Spec => StuckOnlyByCrash
BY ImplementsQueue, OnlyCrashSticks, PTL
-----------------------------------------------------------------------------
(***************************************************************************)
(* Second part: what reaches the server, while the user renames nothing:   *)
(* no PATCH reaches a document in processing, no document of a file is     *)
(* deleted, no edit is forgotten, and what is removed is gone.  Each       *)
(* theorem names the events under which it fails; PushSync's runs find the *)
(* counterexamples.                                                        *)
(***************************************************************************)

(***************************************************************************)
(* The first invariant: without renames an inode has one home, the         *)
(* filepath it was created at, and so has a document.  h is that home.     *)
(* Rows, tasks, calls and bindings refer to inodes and documents of their  *)
(* own filepath only, so what is done for one filepath leaves the others   *)
(* alone.                                                                  *)
(***************************************************************************)
Home == [Ino -> Path \cup {None}]

Lives(h, i, p) == i # None => h[i] = p
Belongs(d, p) == d # None => doc[d].path = p

RowAt(h, r, p) ==
  /\ \A w \in {r.main, r.pend} : w.op # "rename" /\ Lives(h, w.ino, p)
  /\ Belongs(r.rid, p)

FileAt(h, i) ==
  remote[i] # None => h[i] \in Path /\ doc[remote[i]].path = h[i] /\ text[i] # None

Sending == {"wait", "send", "posted", "settle"}

OwnTask(h, k) ==
  /\ job[k].w.op # "rename" /\ Lives(h, job[k].w.ino, job[k].path)
  /\ Belongs(job[k].rid, job[k].path) /\ Belongs(task[k].doc, job[k].path)
  /\ task[k].pc \in Sending => IsContent(k)
  /\ task[k].pc = "deleted" => job[k].w.op = "delete"
  /\ task[k].pc \in {"wait", "posted", "settle"} => task[k].doc # None
  /\ task[k].pc = "posted" => doc[task[k].doc].st \in {"processing", "done"}

TaskAt(h, k) == Busy(k) => OwnTask(h, k)

CallAt(h) ==
  call # <<>> =>
    LET r == Head(call)
    IN /\ Len(call) = 1
       /\ r.op \in {"flush", "create", "update", "delete"}
       /\ Lives(h, r.ino, r.path) /\ Lives(h, r.src, r.path)
       /\ Belongs(r.rid, r.path)
       /\ file[r.path] = r.ino

Homed(h) ==
  /\ \A p \in Path : RowAt(h, queue[p], p) /\ Lives(h, file[p], p)
  /\ \A i \in Ino : FileAt(h, i)
  /\ \A k \in Permit : TaskAt(h, k)
  /\ CallAt(h)

HomeInv == \E h \in Home : Homed(h)
-----------------------------------------------------------------------------
(* The document that a row names afterwards.                               *)
LEMMA RowDocument ==
  ASSUME NEW r \in Row, NEW w, NEW d, NEW due
  PROVE  /\ Upserted(r, w, d, due).rid \in {r.rid, d}
         /\ Claimed(r).rid = r.rid /\ [r EXCEPT !.due = due].rid = r.rid
         /\ Stamped(r, d).rid \in {r.rid, d}
         /\ Succeeded(r).rid \in {r.rid, None} /\ Failed(r, due).rid = r.rid
         /\ ClearedAfter404(r).rid \in {r.rid, None} /\ Poisoned(r).rid = r.rid
<1>1. CASE r \in TableRow
  BY <1>1 DEF TableRow, Upserted, Coalesce, Claimed, Stamped, Updated, Succeeded, Failed,
              ClearedAfter404, Poisoned, NoRow
<1>2. CASE r = NoRow
  BY <1>2 DEF NoRow, Upserted, Coalesce, Claimed, Stamped, Updated, Succeeded, Failed,
              ClearedAfter404, Poisoned
<1> QED
  BY <1>1, <1>2 DEF Row

(* A document keeps its filepath once it has one; only the task of that    *)
(* filepath writes to it or deletes it.                                    *)
Changed(d, k) ==
  /\ Busy(k) /\ doc[d].path = job[k].path
  /\ (Patch(k) /\ d = task[k].doc) \/ Delete(k)

LEMMA DocumentStep ==
  ASSUME SyncInv, NEW h \in Home, Homed(h), [Next]_vars, NEW d \in Doc, doc'[d] # doc[d]
  PROVE  \/ doc[d] = Unborn /\ \E k \in Permit : NewDocument(k)
         \/ doc'[d].path = doc[d].path /\ Process(d)
         \/ doc'[d].path = doc[d].path /\ \E k \in Permit : Changed(d, k)
<1>1. CASE User
  BY <1>1 DEF User, CreateFile, WriteFile, Unlink, Rename, Flush, FollowRename, TakeOver,
              EnqueueRename, Enqueue
<1>2. ASSUME NEW k \in Permit, NewDocument(k)
      PROVE  doc[d] = Unborn
  BY <1>2 DEF NewDocument, Posted, FreshDocs
<1>3. ASSUME NEW k \in Permit, Patch(k)
      PROVE  doc'[d].path = doc[d].path /\ Changed(d, k)
  <2>1. IsContent(k) /\ Belongs(task[k].doc, job[k].path) /\ Busy(k)
    BY <1>3 DEF Homed, TaskAt, OwnTask, Patch, At, Sending
  <2>2. d = task[k].doc /\ doc'[d].path = job[k].path
    BY <1>3, <2>1, SyncTypes DEF Patch, Patched
  <2> QED
    BY <1>3, <2>1, <2>2, NoneIsNoInode DEF Changed, Belongs
<1>4. ASSUME NEW k \in Permit, Delete(k)
      PROVE  doc'[d].path = doc[d].path /\ Changed(d, k)
  <2>1. Belongs(job[k].rid, job[k].path) /\ Busy(k)
    BY <1>4 DEF Homed, TaskAt, OwnTask, Delete, At
  <2>2. doc[d].path = job[k].path
    BY <1>4, <2>1, NoneIsNoInode DEF Delete, Deleted, Belongs, DocsAt
  <2>3. doc'[d].path = doc[d].path
    BY <1>4, SyncTypes DEF Delete, Deleted, DocState
  <2> QED
    BY <1>4, <2>1, <2>2, <2>3 DEF Changed
<1>5. ASSUME NEW e \in Doc, Process(e)
      PROVE  d = e /\ doc'[d].path = doc[d].path
  BY <1>5, SyncTypes DEF Process, DocState
<1>6. ASSUME NEW k \in Permit, Worker(k)
      PROVE  NewDocument(k) \/ Patch(k) \/ Delete(k)
  BY <1>6, WorkerCases DEF ReadContent, FindDocument, WaitDone, Spawn, Bind
<1>7. ~ UNCHANGED vars /\ ~Restart /\ ~ \E p \in Path : Delay(p)
  BY DEF vars, Restart, Delay
<1> QED
  BY <1>1, <1>2, <1>3, <1>4, <1>5, <1>6, <1>7 DEF Next

LEMMA DocumentStays ==
  ASSUME SyncInv, NEW h \in Home, Homed(h), [Next]_vars,
         NEW d \in Doc, NEW p \in Path, doc[d].path = p
  PROVE  doc'[d].path = p
BY DocumentStep, NoneIsNoInode DEF Unborn

LEMMA RowStays ==
  ASSUME SyncInv, NEW h \in Home, Homed(h), [Next]_vars,
         NEW r \in Row, NEW p \in Path, RowAt(h, r, p)
  PROVE  RowAt(h, r, p)'
BY DocumentStays, RowFields DEF RowAt, Belongs, Lives

(* What the user's calls come to when nothing is renamed.                  *)
LEMMA PlainCalls ==
  ASSUME SyncInv, NEW h \in Home, Homed(h), "rename" \notin Calls, User
  PROVE  \/ \E p \in Path : CreateFile(p) \/ WriteFile(p) \/ Unlink(p)
         \/ Flush
         \/ Enqueue
BY DEF User, Homed, CallAt, Rename, NewCall, FollowRename, TakeOver, EnqueueRename, Asked

(* An enqueue is the last step of a call: it puts a write of the file, or  *)
(* a delete, into the row of its filepath.                                 *)
Puts(p, w, rid, due) ==
  /\ queue' = [queue EXCEPT ![p] = Upserted(queue[p], w, rid, due)]
  /\ call' = <<>>
  /\ UNCHANGED <<job, file, text, dirty, remote, task, doc, edits>>
  /\ w.ino = file[p]
  /\ \/ w.op \in {"create", "update"} /\ w.ino # None
     \/ w.op = "delete" /\ w.ino = None
  /\ \A i \in Ino : InCall(i) => i = w.ino \/ w.ino = None

(* The document that a request asks for: its own, or its source's.         *)
Asks(r, p, w, rid) ==
  /\ p = r.path /\ w.op = r.op
  /\ rid = IF r.src = None THEN r.rid ELSE remote[r.src]

LEMMA EnqueuePuts ==
  ASSUME SyncInv, NEW h \in Home, Homed(h), Enqueue
  PROVE  \E p \in Path, w \in Write, rid \in Doc \cup {None}, due \in BOOLEAN :
           /\ Puts(p, w, rid, due)
           /\ Lives(h, w.ino, p) /\ Belongs(rid, p)
           /\ \A i \in Ino : InCall(i) => h[i] = p
           /\ call # <<>> /\ Asks(Head(call), p, w, rid)
<1> DEFINE r == Head(call)
           rid == IF r.src = None THEN r.rid ELSE remote[r.src]
           due == r.op \in {"delete", "rename"}
           w == NewWrite(r.path, r.op, r.ino, r.to)
<1>1. call # <<>> /\ Upsert(r.path, r.op, r.ino, r.to, rid, due) /\ call' = Tail(call)
  BY DEF Enqueue
<1>2. /\ r = call[1] /\ r \in Request /\ RequestOK(r) /\ r.path \in Path
      /\ r.ino \in Ino \cup {None} /\ r.src \in Ino \cup {None} /\ r.rid \in Doc \cup {None}
  BY <1>1, HeadOfCall DEF Request
<1>3. /\ Len(call) = 1 /\ r.op \in {"create", "update", "delete"}
      /\ Lives(h, r.ino, r.path) /\ Lives(h, r.src, r.path) /\ Belongs(r.rid, r.path)
      /\ file[r.path] = r.ino
  BY <1>1 DEF Homed, CallAt, Enqueue
<1>4. call' = <<>>
  BY <1>1, <1>3 DEF SyncInv, SyncTypeOK
<1>5. rid \in Doc \cup {None} /\ Belongs(rid, r.path)
  BY <1>2, <1>3, SyncTypes DEF Homed, FileAt, Lives, Belongs
<1>6. \A i \in Ino : InCall(i) => i \in {r.ino, r.src}
  BY <1>2, <1>3 DEF InCall, SyncInv, SyncTypeOK
<1>7. /\ w \in Write /\ w.ino = r.ino /\ w.op = r.op
      /\ r.op = "delete" <=> r.ino = None
      /\ r.op # "delete" => r.src = None
  <2>1. issued[r.path] + 1 \in Nat
    BY <1>2 DEF SyncInv, QTypeOK
  <2> QED
    BY <2>1, <1>2, <1>3
    DEF RequestOK, NewWrite, Write, ContentWrite, DeleteWrite
<1>8. Asks(r, r.path, w, rid)
  BY <1>7 DEF Asks
<1> HIDE DEF rid, due
<1>9. Puts(r.path, w, rid, due)
  <2>1. queue' = [queue EXCEPT ![r.path] = Upserted(queue[r.path], w, rid, due)]
    BY <1>1 DEF Upsert
  <2>2. UNCHANGED <<job, file, text, dirty, remote, task, doc, edits>>
    BY <1>1 DEF Enqueue, Upsert
  <2>3. \A i \in Ino : InCall(i) => i = w.ino \/ w.ino = None
    BY <1>2, <1>6, <1>7, NoneIsNoInode
  <2> HIDE DEF w, r
  <2>4. \/ w.op \in {"create", "update"} /\ w.ino # None
        \/ w.op = "delete" /\ w.ino = None
    BY <1>3, <1>7
  <2> QED
    BY <1>3, <1>4, <1>7, <2>1, <2>2, <2>3, <2>4 DEF Puts
<1>10. due \in BOOLEAN
  BY DEF due
<1>11. call # <<>> /\ Asks(Head(call), r.path, w, rid)
  BY <1>1, <1>8
<1> HIDE DEF w, r
<1> QED
  BY <1>2, <1>3, <1>5, <1>6, <1>7, <1>9, <1>10, <1>11, NoneIsNoInode DEF Lives
-----------------------------------------------------------------------------
(* The steps of the user.  A new file is the one step that gives an inode  *)
(* a home: an inode that no row, task, call or binding has named yet.      *)
LEMMA HomeCreate ==
  ASSUME SyncInv, NEW h \in Home, Homed(h), NEW p \in Path, CreateFile(p)
  PROVE  HomeInv'
<1>1. PICK i \in Ino : /\ text[i] = None
                       /\ file' = [file EXCEPT ![p] = i]
                       /\ text' = [text EXCEPT ![i] = 0]
                       /\ call = <<>>
                       /\ UNCHANGED <<queue, job, remote, call, task, doc>>
  BY DEF CreateFile, NewCall, FreeInos, qvars
<1> DEFINE g == [h EXCEPT ![i] = p]
<1>2. g \in Home /\ \A j \in Ino : j # i => g[j] = h[j]
  BY DEF Home
<1>3. g[i] = p
  BY DEF Home
<1>4. \A q \in Path : Lives(g, file[q], q)' /\ RowAt(g, queue[q], q)'
  <2>1. ASSUME NEW x \in Allocated, NEW q \in Path, Lives(h, x, q)
        PROVE  Lives(g, x, q)
    BY <1>1, <1>2, <2>1 DEF Allocated, Lives
  <2>2. \A q \in Path : /\ file[q] \in Allocated
                         /\ queue[q].main.ino \in Allocated /\ queue[q].pend.ino \in Allocated
    BY DEF SyncInv, FilesAllocated, QueueAllocated
  <2>3. \A q \in Path : Lives(g, file'[q], q)
    <3>1. ASSUME NEW q \in Path, q # p PROVE Lives(g, file'[q], q)
      BY <1>1, <2>1, <2>2, <3>1 DEF Homed, SyncInv, SyncTypeOK
    <3>2. file'[p] = i
      BY <1>1 DEF SyncInv, SyncTypeOK
    <3>3. Lives(g, file'[p], p)
      BY <1>3, <3>2 DEF Lives
    <3> HIDE DEF g
    <3> QED
      BY <3>1, <3>3
  <2> HIDE DEF g
  <2>4. \A q \in Path : RowAt(g, queue[q], q)'
    BY <1>1, <2>1, <2>2 DEF Homed, RowAt, Belongs
  <2> QED
    BY <2>3, <2>4 DEF Lives
<1>5. \A j \in Ino : FileAt(g, j)'
  BY <1>1, <1>2, SyncAssumption DEF Homed, FileAt, SyncInv, SyncTypeOK
<1>6. \A k \in Permit : TaskAt(g, k)'
  <2>1. ASSUME NEW k \in Permit PROVE TaskAt(g, k)'
    <3>1. job[k].w.ino \in Allocated
      BY DEF SyncInv, QueueAllocated
    <3>2. job[k].w.ino # None => g[job[k].w.ino] = h[job[k].w.ino]
      BY <1>1, <1>2, <3>1 DEF Allocated
    <3> HIDE DEF g
    <3> QED
      BY <1>1, <3>2 DEF Homed, TaskAt, OwnTask, Lives, Belongs, IsContent, Busy
  <2> QED
    BY <2>1
<1>7. CallAt(g)'
  BY <1>1 DEF CallAt
<1> QED
  BY <1>2, <1>4, <1>5, <1>6, <1>7 DEF HomeInv, Homed, Home

LEMMA HomeWrite ==
  ASSUME SyncInv, NEW h \in Home, Homed(h), NEW p \in Path, WriteFile(p) \/ Unlink(p)
  PROVE  Homed(h)'
<1>1. UNCHANGED <<queue, job, task, doc>> /\ file[p] \in Ino /\ h[file[p]] = p
  BY SyncTypes DEF WriteFile, Unlink, qvars, Homed, Lives, SyncInv, SyncTypeOK
<1>2. \A q \in Path : RowAt(h, queue[q], q)' /\ Lives(h, file[q], q)'
  BY <1>1 DEF WriteFile, Unlink, Homed, RowAt, Lives, Belongs, SyncInv, SyncTypeOK
<1>3. \A k \in Permit : TaskAt(h, k)'
  BY <1>1 DEF Homed, TaskAt, OwnTask, Lives, Belongs, IsContent, Busy
<1>4. \A i \in Ino : FileAt(h, i)'
  <2>1. CASE WriteFile(p)
    <3>1. edits' \in Nat /\ UNCHANGED remote /\ text' = [text EXCEPT ![file[p]] = edits']
      BY <2>1, SyncAssumption DEF WriteFile, NewCall, SyncInv, SyncTypeOK
    <3> QED
      BY <1>1, <3>1, SyncAssumption DEF Homed, FileAt, SyncInv, SyncTypeOK
  <2>2. CASE Unlink(p)
    BY <1>1, <2>2 DEF Unlink, Dropped, Homed, FileAt, SyncInv, SyncTypeOK
  <2> QED
    BY <2>1, <2>2
<1>5. PICK op, i, j :
        /\ call' = <<Ask(op, p, i, None, None, j)>>
        /\ op \in {"flush", "delete"} /\ Lives(h, i, p) /\ Lives(h, j, p) /\ file'[p] = i
  BY <1>1 DEF WriteFile, Unlink, Lives, SyncInv, SyncTypeOK
<1>6. CallAt(h)'
  <2>1. Head(call') = Ask(op, p, i, None, None, j) /\ Len(call') = 1
    BY <1>5
  <2> QED
    BY <1>5, <2>1 DEF CallAt, Ask, Belongs, Lives
<1> QED
  BY <1>2, <1>3, <1>4, <1>6 DEF Homed

LEMMA HomeFlush ==
  ASSUME SyncInv, NEW h \in Home, Homed(h), Flush
  PROVE  Homed(h)'
<1> DEFINE r == Head(call)
           op == IF remote[r.ino] = None THEN "create" ELSE "update"
           new == Ask(op, r.path, r.ino, None, remote[r.ino], None)
<1>1. /\ call' \in {<<>>, <<new>>}
      /\ call # <<>>
      /\ UNCHANGED <<queue, job, file, text, remote, task, doc>>
  BY DEF Flush, Asked, qvars
<1>2. r.ino \in Ino /\ Lives(h, r.ino, r.path) /\ file[r.path] = r.ino
  BY <1>1, HeadOfCall DEF Flush, Asked, Request, RequestOK, Homed, CallAt
<1>3. Belongs(remote[r.ino], r.path)
  BY <1>2, NoneIsNoInode DEF Homed, FileAt, Lives, Belongs
<1>4. CallAt(h)'
  <2>1. /\ new.op \in {"create", "update"} /\ new.path = r.path /\ new.ino = r.ino
        /\ new.src = None /\ new.rid = remote[r.ino]
    BY DEF Ask
  <2> HIDE DEF new, r
  <2>2. call' = <<new>> => Head(call') = new /\ Len(call') = 1
    OBVIOUS
  <2> QED
    BY <1>1, <1>2, <1>3, <2>1, <2>2 DEF CallAt, Belongs, Lives
<1>5. \A p \in Path : RowAt(h, queue[p], p)' /\ Lives(h, file[p], p)'
  BY <1>1 DEF Homed, RowAt, Lives, Belongs
<1>6. \A i \in Ino : FileAt(h, i)'
  BY <1>1 DEF Homed, FileAt
<1>7. \A k \in Permit : TaskAt(h, k)'
  BY <1>1 DEF Homed, TaskAt, OwnTask, Lives, Belongs, IsContent, Busy
<1> QED
  BY <1>4, <1>5, <1>6, <1>7 DEF Homed

LEMMA HomeEnqueue ==
  ASSUME SyncInv, NEW h \in Home, Homed(h), Enqueue
  PROVE  Homed(h)'
<1>1. PICK p \in Path, w \in Write, rid \in Doc \cup {None}, due \in BOOLEAN :
        Puts(p, w, rid, due) /\ Lives(h, w.ino, p) /\ Belongs(rid, p)
  BY EnqueuePuts
<1> DEFINE row == Upserted(queue[p], w, rid, due)
<1>2. queue[p] \in Row /\ RowAt(h, queue[p], p)
  BY SyncTypes DEF Homed
<1>3. row.main \in {queue[p].main, w} /\ row.pend \in {queue[p].pend, w}
      /\ row.rid \in {queue[p].rid, rid}
  BY <1>2, UpsertParks, UpsertReplaces, RowDocument
<1>4. w.op # "rename"
  BY <1>1 DEF Puts
<1>5. queue' = [queue EXCEPT ![p] = row] /\ call' = <<>>
      /\ UNCHANGED <<job, file, text, remote, task, doc>>
  BY <1>1 DEF Puts
<1> HIDE DEF row
<1>6. RowAt(h, row, p)
  BY <1>1, <1>2, <1>3, <1>4 DEF RowAt
<1>7. \A q \in Path : RowAt(h, queue[q], q)' /\ Lives(h, file[q], q)'
  BY <1>5, <1>6, SyncTypes DEF Homed, RowAt, Lives, Belongs
<1>8. \A i \in Ino : FileAt(h, i)'
  BY <1>5 DEF Homed, FileAt
<1>9. \A k \in Permit : TaskAt(h, k)'
  BY <1>5 DEF Homed, TaskAt, OwnTask, Lives, Belongs, IsContent, Busy
<1>10. CallAt(h)'
  BY <1>5 DEF CallAt
<1> QED
  BY <1>7, <1>8, <1>9, <1>10 DEF Homed
-----------------------------------------------------------------------------
(* The steps of the tasks.  A task that does not take the step keeps what  *)
(* it knows of its document, since it is the only one at its filepath.     *)
LEMMA DocumentOfTask ==
  ASSUME SyncInv, OnePushPerPath, NEW h \in Home, Homed(h), [Next]_vars,
         NEW k \in Permit, Busy(k), NEW d \in Doc, Belongs(d, job[k].path)
  PROVE  /\ doc'[d].path = job[k].path
         /\ \/ doc'[d] = doc[d]
            \/ Process(d)
            \/ Patch(k) /\ d = task[k].doc
            \/ Delete(k)
<1>1. doc[d].path = job[k].path /\ job[k].path \in Path
  BY NoneIsNoInode, SyncTypes DEF Belongs, Job, Busy
<1>2. doc'[d].path = job[k].path
  BY <1>1, DocumentStays
<1>3. doc[d] # Unborn
  BY <1>1, NoneIsNoInode DEF Unborn
<1>4. ASSUME NEW j \in Permit, Changed(d, j)
      PROVE  j = k
  <2>1. j \in Holders(job[k].path)
    BY <1>1, <1>4 DEF Changed, Holders
  <2> QED
    BY <2>1 DEF OnePushPerPath
<1>5. CASE doc'[d] # doc[d]
  <2>1. \/ Process(d)
        \/ \E j \in Permit : Changed(d, j)
    BY <1>3, <1>5, DocumentStep
  <2> QED
    BY <1>2, <1>4, <2>1 DEF Changed
<1> QED
  BY <1>2, <1>5

LEMMA TaskStays ==
  ASSUME SyncInv, OnePushPerPath, NEW h \in Home, Homed(h), [Next]_vars,
         NEW k \in Permit, job'[k] = job[k], task'[k] = task[k]
  PROVE  TaskAt(h, k)'
<1> SUFFICES ASSUME Busy(k)
             PROVE  TaskAt(h, k)'
  BY DEF TaskAt, Busy
<1>1. OwnTask(h, k)
  BY DEF Homed, TaskAt
<1>2. /\ job[k].rid \in Doc \cup {None} /\ task[k].doc \in Doc \cup {None}
  BY SyncTypes DEF Job, TaskState, Busy
<1>3. Belongs(job[k].rid, job[k].path)' /\ Belongs(task[k].doc, job[k].path)'
  BY <1>1, <1>2, DocumentOfTask DEF Belongs, OwnTask
<1>4. ASSUME task[k].pc = "posted"
      PROVE  doc'[task[k].doc].st \in {"processing", "done"}
  <2>1. task[k].doc \in Doc /\ Belongs(task[k].doc, job[k].path)
    BY <1>1, <1>2, <1>4 DEF OwnTask
  <2>2. ~Patch(k) /\ ~Delete(k)
    BY <1>4 DEF Patch, Delete, At
  <2>3. Process(task[k].doc) => doc'[task[k].doc].st = "done"
    BY <2>1, SyncTypes DEF Process, DocState
  <2> QED
    BY <1>1, <1>4, <2>1, <2>2, <2>3, DocumentOfTask DEF OwnTask
<1> QED
  BY <1>1, <1>3, <1>4 DEF TaskAt, OwnTask, Lives, IsContent

(* What a step keeps that is not the user's.                               *)
LEMMA FilesStay ==
  ASSUME SyncInv, NEW h \in Home, Homed(h), [Next]_vars, UNCHANGED <<file, text>>,
         call' \in {call, <<>>}
  PROVE  /\ \A p \in Path : Lives(h, file[p], p)'
         /\ CallAt(h)'
         /\ \A i \in Ino : remote'[i] \in {remote[i], None} => FileAt(h, i)'
<1>1. \A p \in Path : Lives(h, file[p], p)'
  BY DEF Homed, Lives
<1>2. CallAt(h)'
  <2> SUFFICES ASSUME call # <<>>, call' = call
               PROVE  CallAt(h)'
    BY DEF CallAt
  <2>1. Head(call).rid \in Doc \cup {None} /\ Head(call).path \in Path
    BY HeadOfCall DEF Request
  <2> QED
    BY <2>1, DocumentStays DEF Homed, CallAt, Belongs, Lives
<1>3. ASSUME NEW i \in Ino, remote'[i] \in {remote[i], None}
      PROVE  FileAt(h, i)'
  BY <1>3, DocumentStays, SyncTypes DEF Homed, FileAt
<1> QED
  BY <1>1, <1>2, <1>3

(* A task that goes on to its next await.                                  *)
LEMMA HomeGoesOn ==
  ASSUME SyncInv, OnePushPerPath, NEW h \in Home, Homed(h), [Next]_vars,
         NEW k \in Permit, UNCHANGED <<qvars, file, text, call>>,
         \/ ReadContent(k) \/ FindDocument(k) \/ WaitDone(k)
         \/ NewDocument(k) \/ Patch(k) \/ Delete(k)
  PROVE  Homed(h)'
<1>1. /\ Busy(k) /\ OwnTask(h, k) /\ UNCHANGED <<queue, job, remote>>
  BY DEF ReadContent, FindDocument, WaitDone, NewDocument, Patch, Delete, At, qvars, Homed, TaskAt
<1>2. /\ job[k].path \in Path /\ job[k].rid \in Doc \cup {None}
      /\ task[k].doc \in Doc \cup {None}
  BY <1>1, SyncTypes DEF Job, TaskState, Busy
<1>3. \A p \in Path : RowAt(h, queue[p], p)' /\ Lives(h, file[p], p)'
  BY <1>1, RowStays, FilesStay, SyncTypes DEF Homed, RowAt, Belongs
<1>4. (\A i \in Ino : FileAt(h, i)') /\ CallAt(h)'
  BY <1>1, FilesStay
<1>5. PICK pc, body, d :
        /\ Goto(k, pc, body, d)
        /\ pc \in Sending => IsContent(k)
        /\ pc = "deleted" => job[k].w.op = "delete"
        /\ pc \in {"wait", "posted", "settle"} => d # None
        /\ pc = "posted" => doc'[d].st \in {"processing", "done"}
        /\ \/ d \in {None, job[k].rid, task[k].doc}
           \/ d \in Doc /\ doc'[d].path = job[k].path
  <2>1. CASE ReadContent(k)
    BY <2>1 DEF ReadContent, Sending
  <2>2. ~FindDocument(k)
    BY <1>1 DEF FindDocument, OwnTask
  <2>3. CASE WaitDone(k)
    <3>1. Goto(k, "send", task[k].body, task[k].doc) /\ task[k].pc = "wait"
      BY <2>3 DEF WaitDone, At
    <3> QED
      BY <1>1, <3>1 DEF OwnTask, Sending
  <2>4. CASE NewDocument(k)
    <3>1. PICK d \in Doc : /\ Posted(job[k].path, task[k].body, d)
                           /\ Goto(k, "posted", task[k].body, d)
      BY <2>4 DEF NewDocument, FreshDocs
    <3>2. doc'[d].st = "processing" /\ doc'[d].path = job[k].path
      BY <3>1, SyncTypes DEF Posted
    <3>3. IsContent(k) /\ d # None
      BY <1>1, <2>4, NoneIsNoInode DEF NewDocument, At, OwnTask, Sending
    <3> QED
      BY <3>1, <3>2, <3>3
  <2>5. CASE Patch(k)
    <3>1. /\ Goto(k, "settle", task[k].body, task[k].doc)
          /\ task[k].pc = "send" /\ task[k].doc # None
      BY <2>5 DEF Patch, At, Alive
    <3> QED
      BY <1>1, <3>1 DEF OwnTask, Sending
  <2>6. CASE Delete(k)
    <3>1. Goto(k, "deleted", 0, None) /\ job[k].w.op = "delete"
      BY <2>6 DEF Delete
    <3> QED
      BY <3>1 DEF Sending
  <2> QED
    BY <2>1, <2>2, <2>3, <2>4, <2>5, <2>6
<1>6. /\ task'[k] = [pc |-> pc, body |-> body, doc |-> d]
      /\ \A j \in Permit \ {k} : task'[j] = task[j]
  BY <1>5, SyncTypes DEF Goto
<1>7. Belongs(d, job[k].path)'
  BY <1>1, <1>2, <1>5, DocumentOfTask DEF OwnTask, Belongs
<1>8. Belongs(job[k].rid, job[k].path)'
  BY <1>1, <1>2, DocumentOfTask DEF OwnTask, Belongs
<1>9. TaskAt(h, k)'
  <2>1. task'[k].pc = pc /\ task'[k].doc = d
    BY <1>6
  <2> QED
    BY <1>1, <1>5, <1>7, <1>8, <2>1 DEF TaskAt, OwnTask, Belongs, Lives, IsContent, Busy
<1>10. \A j \in Permit \ {k} : TaskAt(h, j)'
  BY <1>1, <1>6, TaskStays
<1> QED
  BY <1>3, <1>4, <1>9, <1>10 DEF Homed

LEMMA HomeSpawn ==
  ASSUME SyncInv, OnePushPerPath, NEW h \in Home, Homed(h), [Next]_vars,
         NEW k \in Permit, NEW p \in Path, Spawn(p, k)
  PROVE  Homed(h)'
<1>1. /\ Claimable(queue[p]) /\ queue' = [queue EXCEPT ![p] = Claimed(@)]
      /\ job' = [job EXCEPT ![k] = [path |-> p, w |-> queue[p].main, rid |-> queue[p].rid]]
      /\ task' = [task EXCEPT ![k] = [pc |-> "start", body |-> 0, doc |-> None]]
      /\ UNCHANGED <<file, text, remote, call, doc>>
  BY DEF Spawn, Claim, Goto
<1>2. queue[p] \in Row /\ RowAt(h, queue[p], p)
  BY SyncTypes DEF Homed
<1>3. RowAt(h, Claimed(queue[p]), p)
  BY <1>1, <1>2, ClaimMarks, RowDocument DEF RowAt
<1>4. \A q \in Path : RowAt(h, queue[q], q)'
  BY <1>1, <1>3, SyncTypes DEF Homed, RowAt, Belongs
<1>5. TaskAt(h, k)'
  BY <1>1, <1>2, SyncTypes DEF TaskAt, OwnTask, RowAt, Belongs, Lives, Sending
<1>6. \A j \in Permit \ {k} : TaskAt(h, j)'
  BY <1>1, TaskStays
<1> QED
  BY <1>1, <1>4, <1>5, <1>6, FilesStay DEF Homed

(* A POST binds the inode of its row to a document of the same filepath.   *)
LEMMA HomeBind ==
  ASSUME SyncInv, OnePushPerPath, NEW h \in Home, Homed(h), [Next]_vars,
         NEW k \in Permit, Bind(k)
  PROVE  Homed(h)'
<1> DEFINE p == job[k].path
           d == task[k].doc
<1>1. /\ Busy(k) /\ task[k].pc = "posted"
      /\ queue' = [queue EXCEPT ![p] = Stamped(@, d)] /\ job' = job
      /\ remote' = [remote EXCEPT ![job[k].w.ino] = d]
      /\ task' = [task EXCEPT ![k] = [pc |-> "settle", body |-> task[k].body, doc |-> d]]
      /\ UNCHANGED <<file, text, call, doc>>
  BY DEF Bind, At, Stamp, Goto
<1>2. d \in Doc /\ p \in Path /\ OwnTask(h, k) /\ IsContent(k)
  BY <1>1, TaskDocument DEF Homed, TaskAt, OwnTask, Sending
<1>3. queue[p] \in Row /\ RowAt(h, queue[p], p) /\ Belongs(d, p)
  BY <1>2, SyncTypes DEF Homed, OwnTask
<1>4. RowAt(h, Stamped(queue[p], d), p)
  BY <1>2, <1>3, StampMarks, RowDocument DEF RowAt
<1>5. \A q \in Path : RowAt(h, queue[q], q)'
  BY <1>1, <1>2, <1>4, SyncTypes DEF Homed, RowAt, Belongs
<1>6. \A i \in Ino : FileAt(h, i)'
  <2>1. /\ job[k].w.ino \in Ino /\ h[job[k].w.ino] = p /\ text[job[k].w.ino] # None
    <3>1. job[k].w \in Write /\ job[k].w.ino \in Allocated
      BY <1>1, SyncTypes DEF Busy, Job, SyncInv, QueueAllocated
    <3>2. job[k].w.ino \in Ino
      BY <1>2, <3>1 DEF IsContent, Write, ContentWrite, DeleteWrite, RenameWrite
    <3> QED
      BY <1>2, <3>1, <3>2, NoneIsNoInode DEF OwnTask, Lives, Allocated
  <2> QED
    BY <1>1, <1>2, <1>3, <2>1, FilesStay, SyncTypes, NoneIsNoInode DEF FileAt, Belongs
<1>7. TaskAt(h, k)'
  BY <1>1, <1>2, SyncTypes, NoneIsNoInode
  DEF TaskAt, OwnTask, Belongs, Lives, IsContent, Busy, Sending
<1>8. \A j \in Permit \ {k} : TaskAt(h, j)'
  BY <1>1, TaskStays
<1> QED
  BY <1>1, <1>5, <1>6, <1>7, <1>8, FilesStay DEF Homed

(* The end of a task: its write is done and the parked one takes its place *)
(* or the row goes, or its write stays and the row is poisoned or waits.   *)
Leaves(k, old, row) ==
  /\ End(k, row) /\ ~row.inflight /\ row.rid \in {old.rid, None}
  /\ \/ Succeed(k) /\ row.main = old.pend /\ row.pend = NoWrite
     \/ /\ row.main = old.main /\ row.pend = old.pend
        /\ row.poisoned \/ MayFail(k)

LEMMA ReleaseLeaves ==
  ASSUME SyncInv, OnePushPerPath, NEW k \in Permit, Release(k)
  PROVE  /\ Busy(k) /\ job[k].path \in Path
         /\ HeldRow(k) \in Row /\ HeldRow(k).inflight /\ HeldRow(k).main = job[k].w
         /\ \E row \in Row : Leaves(k, HeldRow(k), row)
<1>1. Busy(k) /\ job[k].path \in Path /\ HeldRow(k) \in Row
  BY ReleaseIsEnd DEF SyncInv
<1>2. HeldRow(k).inflight /\ HeldRow(k).main = job[k].w /\ Present(HeldRow(k))
  BY <1>1, InflightIsPresent DEF OnePushPerPath
<1> DEFINE old == HeldRow(k)
<1>3. CASE Succeed(k)
  <2> DEFINE row == Succeeded(old)
  <2>1. row \in Row /\ row.rid \in {old.rid, None}
    BY <1>1, SuccessReleases, RowDocument
  <2>2. /\ ~row.inflight
        /\ row.main = old.pend /\ row.pend = NoWrite
    BY <1>1, <1>2, SuccessReleases
  <2>3. End(k, row)
    BY <1>3 DEF Succeed
  <2> HIDE DEF row
  <2> QED
    BY <1>1, <1>2, <1>3, <2>1, <2>2, <2>3 DEF Leaves
<1>4. CASE Fail(k)
  <2> DEFINE row == Failed(old, FALSE)
  <2>1. row \in Row /\ row.rid \in {old.rid, None}
    BY <1>1, FailureReleases, RowDocument
  <2>2. /\ ~row.inflight
        /\ row.main = old.main /\ row.pend = old.pend
    BY <1>1, <1>2, FailureReleases
  <2>3. End(k, row) /\ MayFail(k)
    BY <1>4 DEF Fail
  <2> HIDE DEF row
  <2> QED
    BY <1>1, <1>2, <1>4, <2>1, <2>2, <2>3 DEF Leaves
<1>5. CASE Clear404(k)
  <2> DEFINE row == ClearedAfter404(old)
  <2>1. row \in Row /\ row.rid \in {old.rid, None}
    BY <1>1, Clear404Releases, RowDocument
  <2>2. /\ ~row.inflight
        /\ row.main = old.main /\ row.pend = old.pend
    BY <1>1, <1>2, Clear404Releases
  <2>3. End(k, row) /\ MayFail(k)
    BY <1>5 DEF Clear404
  <2> HIDE DEF row
  <2> QED
    BY <1>1, <1>2, <1>5, <2>1, <2>2, <2>3 DEF Leaves
<1>6. CASE Poison(k)
  <2> DEFINE row == Poisoned(old)
  <2>1. row \in Row /\ row.rid \in {old.rid, None}
    BY <1>1, PoisonReleases, RowDocument
  <2>2. /\ ~row.inflight
        /\ row.main = old.main /\ row.pend = old.pend /\ row.poisoned
    BY <1>1, <1>2, PoisonReleases
  <2>3. End(k, row)
    BY <1>6 DEF Poison
  <2> HIDE DEF row
  <2> QED
    BY <1>1, <1>2, <1>6, <2>1, <2>2, <2>3 DEF Leaves
<1> QED
  BY <1>1, <1>2, <1>3, <1>4, <1>5, <1>6 DEF Release

LEMMA HomeEnd ==
  ASSUME SyncInv, OnePushPerPath, NEW h \in Home, Homed(h), [Next]_vars,
         NEW k \in Permit, Release(k), Quit(k), UNCHANGED <<file, text, call, doc>>,
         Gone(k) \/ UNCHANGED remote
  PROVE  Homed(h)'
<1>1. PICK row \in Row : Leaves(k, HeldRow(k), row)
  BY ReleaseLeaves
<1>2. /\ job[k].path \in Path /\ HeldRow(k) \in Row
      /\ queue' = [queue EXCEPT ![job[k].path] = row]
      /\ job' = [job EXCEPT ![k] = Idle]
      /\ task' = [task EXCEPT ![k] = NoTask]
  BY <1>1, ReleaseLeaves DEF Leaves, End, Quit
<1>3. RowAt(h, HeldRow(k), job[k].path)
  BY <1>2 DEF Homed, HeldRow
<1>4. RowAt(h, row, job[k].path)
  <2>1. NoWrite.op # "rename" /\ NoWrite.ino = None
    BY DEF NoWrite
  <2> QED
    BY <1>1, <1>3, <2>1 DEF Leaves, RowAt, Lives, Belongs
<1>5. \A p \in Path : RowAt(h, queue[p], p)'
  BY <1>2, <1>4, SyncTypes DEF Homed, RowAt, Belongs
<1>6. \A i \in Ino : FileAt(h, i)'
  BY FilesStay DEF Gone
<1>7. TaskAt(h, k)'
  BY <1>2, SyncTypes DEF TaskAt, Busy
<1>8. \A j \in Permit \ {k} : TaskAt(h, j)'
  BY <1>2, TaskStays
<1> QED
  BY <1>5, <1>6, <1>7, <1>8, FilesStay DEF Homed

(* The steps of the timers and of the server, and the end of the daemon.   *)
LEMMA HomeRest ==
  ASSUME SyncInv, OnePushPerPath, NEW h \in Home, Homed(h), [Next]_vars,
         \/ \E p \in Path : Delay(p)
         \/ \E d \in Doc : Process(d)
         \/ Restart \/ UNCHANGED vars
  PROVE  Homed(h)'
<1>1. UNCHANGED <<file, text, remote>> /\ call' \in {call, <<>>}
  BY DEF Delay, Process, Restart, vars
<1>2. \A p \in Path : RowAt(h, queue[p], p)'
  <2>1. ASSUME NEW p \in Path, Delay(p)
        PROVE  \A q \in Path : RowAt(h, queue[q], q)'
    <3> DEFINE row == [queue[p] EXCEPT !.due = TRUE]
    <3>1. Present(queue[p]) /\ queue' = [queue EXCEPT ![p] = row] /\ doc' = doc
      BY <2>1 DEF Delay, Elapse
    <3>2. row.main = queue[p].main /\ row.pend = queue[p].pend /\ row.rid = queue[p].rid
      BY <3>1, ElapseMarks, RowDocument, SyncTypes
    <3> HIDE DEF row
    <3> QED
      BY <3>1, <3>2, SyncTypes DEF Homed, RowAt, Belongs
  <2>2. CASE UNCHANGED queue
    BY <2>2, RowStays, SyncTypes DEF Homed, RowAt, Belongs
  <2> QED
    BY <2>1, <2>2 DEF Process, Restart, Crash, vars, qvars
<1>3. \A k \in Permit : TaskAt(h, k)'
  <2>1. CASE Restart
    BY <2>1 DEF Restart, Crash, TaskAt, Busy
  <2>2. CASE UNCHANGED <<job, task>>
    BY <2>2, TaskStays
  <2> QED
    BY <2>1, <2>2 DEF Delay, Elapse, Process, vars, qvars
<1> QED
  BY <1>1, <1>2, <1>3, FilesStay DEF Homed

LEMMA StepHome ==
  ASSUME SyncInv, OnePushPerPath, HomeInv, "rename" \notin Calls, [Next]_vars
  PROVE  HomeInv'
<1>1. PICK h \in Home : Homed(h)
  BY DEF HomeInv
<1>2. CASE User
  <2>1. ASSUME NEW p \in Path, CreateFile(p) PROVE HomeInv'
    BY <1>1, <2>1, HomeCreate
  <2>2. ASSUME ~ \E p \in Path : CreateFile(p) PROVE Homed(h)'
    BY <1>1, <1>2, <2>2, PlainCalls, HomeWrite, HomeFlush, HomeEnqueue
  <2> QED
    BY <2>1, <2>2 DEF HomeInv, Home
<1>3. ASSUME NEW k \in Permit, Worker(k)
      PROVE  Homed(h)'
  <2>1. CASE \E p \in Path : Spawn(p, k)
    BY <1>1, <2>1, HomeSpawn
  <2>2. CASE Bind(k)
    BY <1>1, <2>2, HomeBind
  <2>3. CASE /\ Release(k) /\ Quit(k) /\ UNCHANGED <<file, text, call, doc>>
             /\ Gone(k) \/ UNCHANGED remote
    BY <1>1, <2>3, HomeEnd
  <2>4. CASE /\ UNCHANGED <<qvars, file, text, call, edits>>
             /\ \/ ReadContent(k) \/ FindDocument(k) \/ WaitDone(k)
                \/ NewDocument(k) \/ Patch(k) \/ Delete(k)
    BY <1>1, <2>4, HomeGoesOn
  <2> QED
    BY <1>3, <2>1, <2>2, <2>3, <2>4, WorkerCases
<1>4. ASSUME \/ \E p \in Path : Delay(p)
             \/ \E d \in Doc : Process(d)
             \/ Restart \/ UNCHANGED vars
      PROVE  Homed(h)'
  BY <1>1, <1>4, HomeRest
<1> QED
  BY <1>2, <1>3, <1>4 DEF Next, HomeInv, Home

LEMMA InitHome == Init => HomeInv
<1> SUFFICES ASSUME Init PROVE HomeInv
  OBVIOUS
<1> DEFINE h == [i \in Ino |-> None]
<1>1. h \in Home
  BY DEF Home
<1>2. \A p \in Path : RowAt(h, queue[p], p) /\ Lives(h, file[p], p)
  <2>1. NoWrite.op # "rename" /\ NoWrite.ino = None
    BY DEF NoWrite
  <2> QED
    BY <2>1, NoRowFields DEF Init, QInit, RowAt, Lives, Belongs
<1>3. \A i \in Ino : FileAt(h, i)
  BY DEF Init, FileAt
<1>4. \A k \in Permit : TaskAt(h, k)
  BY DEF Init, QInit, TaskAt, Busy
<1>5. CallAt(h)
  BY DEF Init, CallAt
<1> HIDE DEF h
<1> QED
  BY <1>1, <1>2, <1>3, <1>4, <1>5 DEF HomeInv, Homed

(* Without renames nothing is retargeted, so that a filepath has one task  *)
(* whatever else happens.                                                  *)
LEMMA HomeInvHolds ==
  ASSUME "rename" \notin Calls, "busydst" \notin Hazards
  PROVE  Spec => [](SyncInv /\ OnePushPerPath /\ HomeInv)
<1>1. SyncInv /\ OnePushPerPath /\ HomeInv /\ [Next]_vars => HomeInv'
  BY StepHome
<1> QED
  BY <1>1, InitHome, SyncInvHolds, PushedByOne, PTL DEF Spec
-----------------------------------------------------------------------------
(***************************************************************************)
(* A task that is about to send a PATCH has seen its document done, and no *)
(* other task has written to it since.                                     *)
(***************************************************************************)
SendDone ==
  \A k \in Permit : At(k, "send") /\ task[k].doc # None =>
                    doc[task[k].doc].st \in {"done", "deleted"}

(* A step of one task leaves the others alone.                             *)
LEMMA OtherTasks ==
  ASSUME SyncInv, NEW j \in Permit, Worker(j), NEW k \in Permit, j # k
  PROVE  job'[k] = job[k] /\ task'[k] = task[k]
<1>1. CASE UNCHANGED qvars /\ \E s : task' = [task EXCEPT ![j] = s]
  BY <1>1, SyncTypes DEF qvars
<1>2. CASE \E p \in Path : Spawn(p, j)
  BY <1>2, SyncTypes DEF Spawn, Claim, Goto
<1>3. CASE Bind(j)
  BY <1>3, SyncTypes DEF Bind, Stamp, Goto
<1>4. CASE Release(j) /\ Quit(j)
  <2>1. PICK row : End(j, row)
    BY <1>4, ReleaseIsEnd DEF SyncInv
  <2> QED
    BY <1>4, <2>1, SyncTypes DEF End, Quit
<1>5. ASSUME \/ ReadContent(j) \/ FindDocument(j) \/ WaitDone(j)
             \/ NewDocument(j) \/ Patch(j) \/ Delete(j)
      PROVE  \E s : task' = [task EXCEPT ![j] = s]
  BY <1>5 DEF ReadContent, FindDocument, WaitDone, NewDocument, Patch, Delete, Goto
<1> QED
  BY <1>1, <1>2, <1>3, <1>4, <1>5, WorkerCases

(* A step that is not of task k leaves it alone, or ends every task.       *)
LEMMA TaskMoves ==
  ASSUME SyncInv, [Next]_vars, NEW k \in Permit
  PROVE  \/ job'[k] = job[k] /\ task'[k] = task[k]
         \/ Worker(k)
         \/ Restart /\ job'[k] = Idle /\ task'[k] = NoTask
<1>1. ASSUME NEW j \in Permit, Worker(j), j # k
      PROVE  job'[k] = job[k] /\ task'[k] = task[k]
  BY <1>1, OtherTasks
<1>2. CASE User
  BY <1>2
  DEF User, CreateFile, WriteFile, Unlink, Rename, Flush, FollowRename, TakeOver,
      EnqueueRename, Enqueue, Retarget, Upsert, qvars
<1>3. CASE Restart
  BY <1>3 DEF Restart, Crash
<1>4. CASE \/ \E p \in Path : Delay(p)
           \/ \E d \in Doc : Process(d)
           \/ UNCHANGED vars
  BY <1>4 DEF Delay, Elapse, Process, vars, qvars
<1> QED
  BY <1>1, <1>2, <1>3, <1>4 DEF Next

(* What a task is doing after a step of its own.                           *)
LEMMA OwnStep ==
  ASSUME SyncInv, NEW k \in Permit, Worker(k)
  PROVE  \/ Release(k) /\ Quit(k) /\ task'[k].pc = "idle"
         \/ Bind(k) /\ task'[k].pc = "settle"
         \/ Patch(k) /\ task'[k].pc = "settle"
         \/ NewDocument(k) /\ task'[k].pc = "posted"
         \/ Delete(k) /\ task'[k].pc = "deleted"
         \/ WaitDone(k) /\ task'[k].pc = "send"
         \/ FindDocument(k) /\ task'[k].pc = "wait"
         \/ ReadContent(k) /\ task'[k].pc \in {"send", "wait"}
         \/ (\E p \in Path : Spawn(p, k)) /\ task'[k].pc = "start"
<1>1. ASSUME NEW pc, NEW body, NEW d, Goto(k, pc, body, d)
      PROVE  task'[k].pc = pc
  BY <1>1, SyncTypes DEF Goto
<1>2. CASE Release(k) /\ Quit(k)
  BY <1>2, SyncTypes DEF Quit
<1>3. CASE Bind(k)
  BY <1>1, <1>3 DEF Bind
<1>4. CASE NewDocument(k)
  <2>1. \E d : Goto(k, "posted", task[k].body, d)
    BY <1>4 DEF NewDocument
  <2> QED
    BY <1>1, <1>4, <2>1
<1>5. CASE ReadContent(k)
  <2>1. \E pc, body, d : pc \in {"send", "wait"} /\ Goto(k, pc, body, d)
    BY <1>5 DEF ReadContent
  <2> QED
    BY <1>1, <1>5, <2>1
<1>6. CASE Patch(k)
  BY <1>1, <1>6 DEF Patch
<1>7. CASE Delete(k)
  BY <1>1, <1>7 DEF Delete
<1>8. CASE WaitDone(k) \/ FindDocument(k)
  BY <1>1, <1>8 DEF WaitDone, FindDocument
<1>9. ASSUME NEW p \in Path, Spawn(p, k) PROVE task'[k].pc = "start"
  BY <1>1, <1>9 DEF Spawn
<1> QED
  BY <1>2, <1>3, <1>4, <1>5, <1>6, <1>7, <1>8, <1>9, WorkerCases

LEMMA StepSend ==
  ASSUME SyncInv, OnePushPerPath, HomeInv, SendDone, "timeout" \notin Faults, [Next]_vars
  PROVE  SendDone'
<1> SUFFICES ASSUME NEW k \in Permit, At(k, "send")', task'[k].doc # None
             PROVE  doc'[task'[k].doc].st \in {"done", "deleted"}
  BY DEF SendDone
<1>1. task'[k].pc = "send" /\ job'[k] # Idle
  BY DEF At, Busy
<1>2. PICK h \in Home : Homed(h)
  BY DEF HomeInv
<1>3. CASE job'[k] = job[k] /\ task'[k] = task[k]
  <2>1. /\ At(k, "send") /\ OwnTask(h, k) /\ task[k].doc \in Doc
        /\ doc[task[k].doc].st \in {"done", "deleted"}
    BY <1>1, <1>2, <1>3, SyncTypes DEF At, Busy, Homed, TaskAt, SendDone, TaskState
  <2>2. ~Patch(k) /\ ~Delete(k)
    <3>1. Patch(k) => Goto(k, "settle", task[k].body, task[k].doc)
      BY DEF Patch
    <3>2. Delete(k) => Goto(k, "deleted", 0, None)
      BY DEF Delete
    <3> QED
      BY <1>1, <3>1, <3>2, SyncTypes DEF Goto
  <2>3. Process(task[k].doc) => doc'[task[k].doc].st = "done"
    BY <2>1, SyncTypes DEF Process, DocState
  <2> QED
    BY <1>2, <1>3, <2>1, <2>2, <2>3, DocumentOfTask DEF At, OwnTask
<1>4. CASE ReadContent(k)
  <2>1. PICK pc, body, d : Goto(k, pc, body, d) /\ (pc = "send" => d = None)
    BY <1>4 DEF ReadContent
  <2>2. task'[k] = [pc |-> pc, body |-> body, doc |-> d]
    BY <2>1, SyncTypes DEF Goto
  <2> QED
    BY <1>1, <2>1, <2>2
<1>5. CASE WaitDone(k)
  BY <1>5, SyncTypes DEF WaitDone, Over, Goto
<1> QED
  BY <1>1, <1>3, <1>4, <1>5, TaskMoves, OwnStep DEF NoTask

(* Without renames, and if the wait for a document does not run out, no    *)
(* PATCH reaches a document that the server still processes (push.rs,      *)
(* wait_until_done).                                                       *)
THEOREM PatchesAreTaken ==
  ASSUME "rename" \notin Calls, "busydst" \notin Hazards, "timeout" \notin Faults
  PROVE  Spec => PatchOnlyDone
<1> DEFINE A == \A k \in Permit : task[k].pc = "send" /\ task'[k].pc = "settle" =>
                  doc[task[k].doc].st = "done"
<1>1. SyncInv /\ OnePushPerPath /\ HomeInv /\ SendDone /\ [Next]_vars => SendDone'
  BY StepSend
<1>2. SyncInv /\ SendDone /\ [Next]_vars => [A]_vars
  <2> SUFFICES ASSUME SyncInv, SendDone, [Next]_vars, NEW k \in Permit,
                      task[k].pc = "send", task'[k].pc = "settle"
               PROVE  doc[task[k].doc].st = "done"
    OBVIOUS
  <2>1. Patch(k)
    BY TaskMoves, OwnStep DEF NoTask, Bind, At
  <2> QED
    BY <2>1 DEF Patch, Alive, SendDone
<1>3. Init => SendDone
  BY DEF Init, QInit, SendDone, At, Busy
<1>4. Spec => [](SyncInv /\ OnePushPerPath /\ HomeInv)
  BY HomeInvHolds
<1> QED
  BY <1>1, <1>2, <1>3, <1>4, PTL DEF Spec, PatchOnlyDone
-----------------------------------------------------------------------------
(* What a step may do to one file, to one binding and to one row.          *)
LEMMA FileStep ==
  ASSUME SyncInv, NEW h \in Home, Homed(h), "rename" \notin Calls, [Next]_vars, NEW p \in Path
  PROVE  \/ file'[p] = file[p]
         \/ CreateFile(p) /\ file'[p] \in Ino
            /\ text[file'[p]] = None /\ text'[file'[p]] = 0
         \/ Unlink(p) /\ file'[p] = None
<1>1. ASSUME NEW q \in Path, WriteFile(q) PROVE file' = file
  BY <1>1 DEF WriteFile
<1>2. ASSUME NEW q \in Path, Unlink(q)
      PROVE  IF q = p THEN file'[p] = None ELSE file'[p] = file[p]
  BY <1>2 DEF Unlink, SyncInv, SyncTypeOK
<1>3. ASSUME NEW q \in Path, CreateFile(q)
      PROVE  IF q = p THEN /\ file'[p] \in Ino
                           /\ text[file'[p]] = None /\ text'[file'[p]] = 0
                      ELSE file'[p] = file[p]
  BY <1>3 DEF CreateFile, FreeInos, SyncInv, SyncTypeOK
<1>4. ASSUME NEW k \in Permit, Worker(k) PROVE file' = file
  BY <1>4, WorkerCases DEF Spawn, Bind
<1>5. CASE User
  BY <1>1, <1>2, <1>3, <1>5, PlainCalls DEF Flush, Enqueue
<1> QED
  BY <1>4, <1>5 DEF Next, Delay, Process, Restart, vars

LEMMA BindingStep ==
  ASSUME SyncInv, NEW h \in Home, Homed(h), "rename" \notin Calls, [Next]_vars, NEW i \in Ino
  PROVE  \/ remote'[i] \in {remote[i], None}
         \/ \E k \in Permit : Bind(k) /\ job[k].w.ino = i /\ remote'[i] = task[k].doc
<1>1. ASSUME NEW q \in Path, CreateFile(q) \/ WriteFile(q) \/ Unlink(q)
      PROVE  remote'[i] \in {remote[i], None}
  BY <1>1, SyncTypes DEF CreateFile, WriteFile, Unlink, Dropped
<1>2. ASSUME NEW k \in Permit, Bind(k), remote'[i] # remote[i]
      PROVE  job[k].w.ino = i /\ remote'[i] = task[k].doc
  BY <1>2, SyncTypes DEF Bind
<1>3. ASSUME NEW k \in Permit, Gone(k)
      PROVE  remote'[i] \in {remote[i], None}
  BY <1>3 DEF Gone
<1>4. ASSUME NEW k \in Permit, Worker(k), ~Bind(k), ~Gone(k)
      PROVE  remote' = remote
  <2>1. CASE \/ ReadContent(k) \/ FindDocument(k) \/ WaitDone(k)
             \/ NewDocument(k) \/ Patch(k) \/ Delete(k)
    BY <2>1 DEF ReadContent, FindDocument, WaitDone, NewDocument, Patch, Delete
  <2> QED
    BY <1>4, <2>1, WorkerCases DEF Spawn
<1>5. CASE User
  BY <1>1, <1>5, PlainCalls DEF Flush, Enqueue
<1> QED
  BY <1>2, <1>3, <1>4, <1>5 DEF Next, Delay, Process, Restart, vars

SameSlots(old, new) ==
  /\ new.main = old.main /\ new.pend = old.pend
  /\ new.inflight = old.inflight /\ new.poisoned = old.poisoned

LEMMA RowStep ==
  ASSUME SyncInv, OnePushPerPath, NEW h \in Home, Homed(h), "rename" \notin Calls,
         [Next]_vars, NEW p \in Path
  PROVE  \/ SameSlots(queue[p], queue'[p])
         \/ \E w \in Write, rid \in Doc \cup {None}, due \in BOOLEAN :
              Puts(p, w, rid, due) /\ queue'[p] = Upserted(queue[p], w, rid, due)
         \/ /\ \E k \in Permit : Spawn(p, k)
            /\ Claimable(queue[p]) /\ queue'[p] = Claimed(queue[p])
         \/ \E k \in Permit : /\ job[k].path = p /\ Worker(k) /\ Release(k)
                              /\ Leaves(k, queue[p], queue'[p])
<1>1. CASE queue'[p] = queue[p]
  BY <1>1 DEF SameSlots
<1>2. CASE Enqueue
  <2>1. PICK q \in Path, w \in Write, rid \in Doc \cup {None}, due \in BOOLEAN :
          Puts(q, w, rid, due)
    BY <1>2, EnqueuePuts
  <2>2. queue' = [queue EXCEPT ![q] = Upserted(queue[q], w, rid, due)]
    BY <2>1 DEF Puts
  <2> QED
    BY <1>1, <2>1, <2>2, SyncTypes
<1>3. CASE User /\ ~Enqueue
  BY <1>1, <1>3, PlainCalls DEF CreateFile, WriteFile, Unlink, Flush, qvars
<1>4. ASSUME NEW q \in Path, Delay(q)
      PROVE  SameSlots(queue[p], queue'[p])
  <2>1. Present(queue[q]) /\ queue' = [queue EXCEPT ![q] = [queue[q] EXCEPT !.due = TRUE]]
    BY <1>4 DEF Delay, Elapse
  <2>2. SameSlots(queue[q], [queue[q] EXCEPT !.due = TRUE])
    BY <2>1, ElapseMarks, SyncTypes DEF SameSlots
  <2> QED
    BY <2>1, <2>2, SyncTypes DEF SameSlots
<1>5. ASSUME NEW k \in Permit, NEW q \in Path, Spawn(q, k), q # p
      PROVE  queue'[p] = queue[p]
  BY <1>5, SyncTypes DEF Spawn, Claim
<1>6. ASSUME NEW k \in Permit, Spawn(p, k)
      PROVE  Claimable(queue[p]) /\ queue'[p] = Claimed(queue[p])
  BY <1>6, SyncTypes DEF Spawn, Claim
<1>7. ASSUME NEW k \in Permit, Bind(k)
      PROVE  SameSlots(queue[p], queue'[p])
  <2>1. /\ task[k].doc \in Doc /\ job[k].path \in Path
        /\ queue' = [queue EXCEPT ![job[k].path] = Stamped(queue[job[k].path], task[k].doc)]
    BY <1>7, TaskDocument DEF Bind, Stamp
  <2>2. SameSlots(queue[job[k].path], Stamped(queue[job[k].path], task[k].doc))
    BY <2>1, StampMarks, SyncTypes DEF SameSlots
  <2> QED
    BY <2>1, <2>2, SyncTypes DEF SameSlots
<1>8. ASSUME NEW k \in Permit, Worker(k), Release(k)
      PROVE  \/ queue'[p] = queue[p]
             \/ job[k].path = p /\ Leaves(k, queue[p], queue'[p])
  <2>1. PICK row \in Row : Leaves(k, HeldRow(k), row) /\ job[k].path \in Path
    BY <1>8, ReleaseLeaves
  <2>2. queue' = [queue EXCEPT ![job[k].path] = row]
    BY <2>1 DEF Leaves, End
  <2> QED
    BY <2>1, <2>2, SyncTypes DEF HeldRow
<1>9. ASSUME NEW k \in Permit, Worker(k)
      PROVE  \/ queue'[p] = queue[p]
             \/ \E q \in Path : Spawn(q, k)
             \/ Bind(k)
             \/ Release(k)
  BY <1>9, WorkerCases DEF qvars
<1>10. CASE \E k \in Permit : Worker(k)
  BY <1>1, <1>5, <1>6, <1>7, <1>8, <1>9, <1>10
<1> QED
  BY <1>1, <1>2, <1>3, <1>4, <1>10 DEF Next, Process, Restart, Crash, vars, qvars
-----------------------------------------------------------------------------
(***************************************************************************)
(* If no push fails with a newer write behind it, only a row that is being *)
(* pushed or poisoned has a parked write.  Then a delete in a row's slots  *)
(* is of a file that has gone: the one that has its filepath now is bound  *)
(* to no document, as it is not the one being pushed.                      *)
(***************************************************************************)
Parked ==
  \A p \in Path :
    /\ queue[p].pend # NoWrite => queue[p].inflight \/ queue[p].poisoned
    /\ queue[p].poisoned => ~queue[p].inflight

Unbound ==
  \A p \in Path : file[p] # None =>
    /\ ~queue[p].poisoned /\ "delete" \in {queue[p].main.op, queue[p].pend.op} =>
         remote[file[p]] = None
    /\ queue[p].inflight /\ queue[p].pend.op = "delete" => queue[p].main.ino # file[p]

LEMMA LeavesParked ==
  ASSUME "latefail" \notin Hazards, NEW k \in Permit, NEW row,
         Leaves(k, HeldRow(k), row)
  PROVE  row.pend # NoWrite => row.poisoned
BY DEF Leaves, MayFail, LateFailure

LEMMA StepParked ==
  ASSUME SyncInv, OnePushPerPath, HomeInv, Parked,
         "rename" \notin Calls, "latefail" \notin Hazards, [Next]_vars
  PROVE  Parked'
<1> SUFFICES ASSUME NEW p \in Path
             PROVE  /\ queue'[p].pend # NoWrite => queue'[p].inflight \/ queue'[p].poisoned
                    /\ queue'[p].poisoned => ~queue'[p].inflight
  BY DEF Parked
<1>1. PICK h \in Home : Homed(h)
  BY DEF HomeInv
<1>2. /\ queue[p] \in Row
      /\ queue[p].pend # NoWrite => queue[p].inflight \/ queue[p].poisoned
      /\ queue[p].poisoned => ~queue[p].inflight
  BY SyncTypes DEF Parked
<1>3. CASE SameSlots(queue[p], queue'[p])
  BY <1>2, <1>3 DEF SameSlots
<1>4. ASSUME NEW w \in Write, NEW rid \in Doc \cup {None}, NEW due \in BOOLEAN,
             queue'[p] = Upserted(queue[p], w, rid, due)
      PROVE  /\ queue'[p].pend # NoWrite => queue'[p].inflight \/ queue'[p].poisoned
             /\ queue'[p].poisoned => ~queue'[p].inflight
  <2>1. CASE queue[p].inflight
    BY <1>2, <1>4, <2>1, UpsertParks
  <2>2. CASE ~queue[p].inflight
    BY <1>2, <1>4, <2>2, UpsertReplaces
  <2> QED
    BY <2>1, <2>2
<1>5. CASE Claimable(queue[p]) /\ queue'[p] = Claimed(queue[p])
  BY <1>2, <1>5, ClaimMarks DEF Claimable
<1>6. ASSUME NEW k \in Permit, job[k].path = p, Leaves(k, queue[p], queue'[p])
      PROVE  /\ queue'[p].pend # NoWrite => queue'[p].inflight \/ queue'[p].poisoned
             /\ queue'[p].poisoned => ~queue'[p].inflight
  <2>1. HeldRow(k) = queue[p]
    BY <1>6 DEF HeldRow
  <2>2. queue'[p].pend # NoWrite => queue'[p].poisoned
    BY <1>6, <2>1, LeavesParked
  <2> QED
    BY <1>6, <2>2 DEF Leaves
<1> QED
  BY <1>1, <1>3, <1>4, <1>5, <1>6, RowStep

LEMMA StepUnbound ==
  ASSUME SyncInv, OnePushPerPath, HomeInv, Parked, Unbound,
         "rename" \notin Calls, "latefail" \notin Hazards, [Next]_vars
  PROVE  Unbound'
<1> SUFFICES ASSUME NEW p \in Path, file'[p] # None
             PROVE  /\ ~queue'[p].poisoned
                       /\ "delete" \in {queue'[p].main.op, queue'[p].pend.op} =>
                         remote'[file'[p]] = None
                    /\ queue'[p].inflight /\ queue'[p].pend.op = "delete" =>
                         queue'[p].main.ino # file'[p]
  BY DEF Unbound
<1>1. PICK h \in Home : Homed(h)
  BY DEF HomeInv
<1>2. NoWrite.op = "none"
  BY DEF NoWrite
<1>3. CASE CreateFile(p)
  <2>1. /\ file'[p] \in Ino /\ text[file'[p]] = None
        /\ UNCHANGED <<queue, remote>>
    <3>1. UNCHANGED <<queue, remote>> /\ file[p] = None
      BY <1>3 DEF CreateFile, qvars
    <3>2. \/ file'[p] = file[p]
          \/ file'[p] \in Ino /\ text[file'[p]] = None
          \/ file'[p] = None
      BY <1>1, FileStep
    <3> QED
      BY <3>1, <3>2
  <2>2. remote[file'[p]] = None
    BY <1>1, <2>1 DEF Homed, FileAt
  <2>3. queue[p].main.ino # file'[p]
    BY <2>1, NoneIsNoInode DEF SyncInv, QueueAllocated, Allocated
  <2> QED
    BY <2>1, <2>2, <2>3
<1>4. CASE file'[p] = file[p]
  <2> DEFINE f == file[p]
  <2>1. f \in Ino /\ h[f] = p /\ f # None
    BY <1>1, <1>4 DEF Homed, Lives, SyncInv, SyncTypeOK
  <2>2. /\ queue[p] \in Row
        /\ queue[p].pend # NoWrite => queue[p].inflight \/ queue[p].poisoned
        /\ queue[p].poisoned => ~queue[p].inflight
    BY SyncTypes DEF Parked
  <2>3. /\ ~queue[p].poisoned /\ "delete" \in {queue[p].main.op, queue[p].pend.op} =>
             remote[f] = None
        /\ queue[p].inflight /\ queue[p].pend.op = "delete" => queue[p].main.ino # f
    BY <2>1 DEF Unbound
  <2>4. ASSUME NEW k \in Permit, Bind(k), job[k].w.ino = f
        PROVE  /\ SameSlots(queue[p], queue'[p]) /\ queue[p].main.ino = f
               /\ queue[p].inflight /\ queue[p].main.op # "delete"
    <3>1. Busy(k) /\ OwnTask(h, k) /\ task[k].pc = "posted"
      BY <1>1, <2>4 DEF Bind, At, Homed, TaskAt
    <3>2. job[k].path = p /\ IsContent(k)
      BY <2>1, <2>4, <3>1 DEF OwnTask, Lives, Sending
    <3>3. HeldRow(k).inflight /\ HeldRow(k).main = job[k].w
      BY <3>1 DEF OnePushPerPath
    <3>4. queue'[p] = Stamped(queue[p], task[k].doc) /\ task[k].doc \in Doc
      BY <2>4, <3>2, TaskDocument, SyncTypes DEF Bind, Stamp
    <3>5. SameSlots(queue[p], queue'[p])
      BY <2>2, <3>4, StampMarks DEF SameSlots
    <3> QED
      BY <2>4, <3>2, <3>3, <3>5 DEF HeldRow, IsContent
  <2> HIDE DEF f
  <2>5. CASE \E k \in Permit : Bind(k) /\ job[k].w.ino = f
    BY <1>4, <2>2, <2>3, <2>4, <2>5 DEF SameSlots, f
  <2>6. CASE remote'[f] \in {remote[f], None}
    <3>1. CASE SameSlots(queue[p], queue'[p])
      BY <1>4, <2>3, <2>6, <3>1 DEF SameSlots, f
    <3>2. ASSUME NEW w \in Write, NEW rid \in Doc \cup {None}, NEW due \in BOOLEAN,
                 Puts(p, w, rid, due), queue'[p] = Upserted(queue[p], w, rid, due)
          PROVE  /\ ~queue'[p].poisoned
                    /\ "delete" \in {queue'[p].main.op, queue'[p].pend.op} =>
                      remote'[f] = None
                 /\ queue'[p].inflight /\ queue'[p].pend.op = "delete" =>
                      queue'[p].main.ino # f
      <4>1. w.op # "delete"
        BY <2>1, <3>2 DEF Puts, f
      <4>2. CASE queue[p].inflight
        BY <2>2, <2>3, <2>6, <3>2, <4>1, <4>2, UpsertParks
      <4>3. CASE ~queue[p].inflight
        BY <1>2, <2>2, <3>2, <4>1, <4>3, UpsertReplaces
      <4> QED
        BY <4>2, <4>3
    <3>3. CASE Claimable(queue[p]) /\ queue'[p] = Claimed(queue[p])
      BY <1>2, <1>4, <2>2, <2>3, <2>6, <3>3, ClaimMarks DEF Claimable, f
    <3>4. ASSUME NEW k \in Permit, job[k].path = p, Release(k), Leaves(k, queue[p], queue'[p])
          PROVE  /\ ~queue'[p].poisoned
                    /\ "delete" \in {queue'[p].main.op, queue'[p].pend.op} =>
                      remote'[f] = None
                 /\ ~queue'[p].inflight
      <4>1. queue[p].inflight
        BY <3>4, ReleaseLeaves DEF HeldRow
      <4> QED
        BY <1>2, <2>2, <2>3, <2>6, <3>4, <4>1 DEF Leaves
    <3> QED
      BY <1>1, <1>4, <3>1, <3>2, <3>3, <3>4, RowStep DEF f
  <2> QED
    BY <1>1, <2>1, <2>5, <2>6, BindingStep DEF f
<1> QED
  BY <1>1, <1>3, <1>4, FileStep

LEMMA StepBound ==
  ASSUME SyncInv, OnePushPerPath, HomeInv, Parked, Unbound, BoundIsAlive,
         "rename" \notin Calls, [Next]_vars
  PROVE  BoundIsAlive'
<1> SUFFICES ASSUME NEW p \in Path, file'[p] # None, remote'[file'[p]] # None
             PROVE  doc'[remote'[file'[p]]].st # "deleted"
  BY DEF BoundIsAlive
<1> DEFINE f == file[p]
<1>1. PICK h \in Home : Homed(h)
  BY DEF HomeInv
<1>2. ~CreateFile(p)
  <2>1. SUFFICES ASSUME CreateFile(p) PROVE FALSE
    OBVIOUS
  <2>2. UNCHANGED remote /\ file[p] = None
    BY <2>1 DEF CreateFile
  <2>3. file'[p] \in Ino /\ text[file'[p]] = None
    BY <1>1, <2>2, FileStep
  <2> QED
    BY <1>1, <2>2, <2>3 DEF Homed, FileAt
<1>3. file'[p] = f
  BY <1>1, <1>2, FileStep
<1>4. f \in Ino /\ h[f] = p /\ f # None
  BY <1>1, <1>3 DEF Homed, Lives, SyncInv, SyncTypeOK
<1> HIDE DEF f
<1>5. ASSUME NEW k \in Permit, Bind(k), remote'[f] = task[k].doc
      PROVE  doc'[remote'[f]].st # "deleted"
  BY <1>1, <1>5 DEF Bind, At, Homed, TaskAt, OwnTask
<1>6. CASE remote'[f] = remote[f]
  <2> DEFINE d == remote[f]
  <2>1. d \in Doc /\ doc[d].path = p /\ doc[d].st # "deleted"
    BY <1>1, <1>3, <1>4, <1>6, SyncTypes DEF Homed, FileAt, BoundIsAlive, f
  <2> HIDE DEF d
  <2>2. ASSUME NEW k \in Permit, Busy(k), job[k].path = p, Delete(k)
        PROVE  FALSE
    <3>1. queue[p].inflight /\ queue[p].main.op = "delete"
      BY <2>2 DEF OnePushPerPath, HeldRow, Delete
    <3>2. remote[f] = None
      BY <1>4, <3>1 DEF Parked, Unbound, f
    <3> QED
      BY <1>3, <1>6, <3>2
  <2>3. ASSUME NEW k \in Permit, Patch(k), d = task[k].doc
        PROVE  doc'[d].st = "processing"
    BY <2>1, <2>3, SyncTypes DEF Patch, Patched
  <2>4. Process(d) => doc'[d].st = "done"
    BY <2>1, SyncTypes DEF Process, DocState
  <2>5. doc[d] # Unborn
    BY <2>1, NoneIsNoInode DEF Unborn
  <2>6. doc'[d].st # "deleted"
    <3>1. CASE doc'[d] = doc[d]
      BY <2>1, <3>1
    <3>2. CASE doc'[d] # doc[d]
      BY <1>1, <2>1, <2>2, <2>3, <2>4, <2>5, <3>2, DocumentStep DEF Changed
    <3> QED
      BY <3>1, <3>2
  <2> QED
    BY <1>3, <1>6, <2>6 DEF d
<1> QED
  BY <1>1, <1>3, <1>4, <1>5, <1>6, BindingStep

(* Without renames, and if no push fails with a newer write behind it, the *)
(* document of a file in the mount is never deleted by the program (fs.rs, *)
(* unlink and its enqueued delete).                                        *)
THEOREM BoundStaysAlive ==
  ASSUME "rename" \notin Calls, "busydst" \notin Hazards, "latefail" \notin Hazards
  PROVE  Spec => []BoundIsAlive
<1> DEFINE Inv == Parked /\ Unbound /\ BoundIsAlive
<1>1. SyncInv /\ OnePushPerPath /\ HomeInv /\ Inv /\ [Next]_vars => Inv'
  BY StepParked, StepUnbound, StepBound
<1>2. Init => Inv
  BY NoRowFields DEF Init, QInit, Parked, Unbound, BoundIsAlive
<1>3. Spec => [](SyncInv /\ OnePushPerPath /\ HomeInv)
  BY HomeInvHolds
<1>4. Inv => BoundIsAlive
  OBVIOUS
<1> HIDE DEF Inv
<1> QED
  BY <1>1, <1>2, <1>3, <1>4, PTL DEF Spec
-----------------------------------------------------------------------------
(***************************************************************************)
(* Nothing is forgotten.  A document that was written to has the content   *)
(* that its task has read; that is the file's newest, or the newest is on  *)
(* its way into the row: in a call, or parked.  So when the row goes, with *)
(* no call under way and nothing parked, the document mirrors the file.    *)
(***************************************************************************)
Sent ==
  \A k \in Permit : At(k, "posted") \/ At(k, "settle") =>
    doc[task[k].doc].st \in {"processing", "done"} /\ doc[task[k].doc].text = task[k].body

FreshBody ==
  \A k \in Permit :
    Busy(k) /\ task[k].pc \in Sending /\ file[job[k].path] = job[k].w.ino =>
      \/ text[job[k].w.ino] \in {0, task[k].body}
      \/ InCall(job[k].w.ino)
      \/ HeldRow(k).pend.ino = job[k].w.ino

SavedRows ==
  \A p \in Saved :
    /\ queue[p].inflight /\ queue[p].pend # NoWrite => queue[p].pend.ino = file[p]
    /\ Present(queue[p]) => file[p] \in {queue[p].main.ino, queue[p].pend.ino}
    /\ ~Present(queue[p]) => Mirrored(p)

LEMMA StepSent ==
  ASSUME SyncInv, OnePushPerPath, HomeInv, SendDone, Sent, [Next]_vars
  PROVE  Sent'
<1> SUFFICES ASSUME NEW k \in Permit, At(k, "posted")' \/ At(k, "settle")'
             PROVE  /\ doc'[task'[k].doc].st \in {"processing", "done"}
                    /\ doc'[task'[k].doc].text = task'[k].body
  BY DEF Sent
<1>1. PICK h \in Home : Homed(h)
  BY DEF HomeInv
<1>2. task'[k].pc \in {"posted", "settle"} /\ job'[k] # Idle
  BY DEF At, Busy
<1>3. CASE job'[k] = job[k] /\ task'[k] = task[k]
  <2>1. /\ Busy(k) /\ task[k].pc \in {"posted", "settle"} /\ OwnTask(h, k)
        /\ task[k].doc \in Doc
        /\ doc[task[k].doc].st \in {"processing", "done"}
        /\ doc[task[k].doc].text = task[k].body
    BY <1>1, <1>2, <1>3, SyncTypes DEF At, Busy, Homed, TaskAt, OwnTask, Sent, TaskState
  <2>2. ~Patch(k) /\ ~Delete(k)
    BY <2>1 DEF Patch, Delete, At
  <2>3. Process(task[k].doc) => /\ doc'[task[k].doc].st = "done"
                                /\ doc'[task[k].doc].text = doc[task[k].doc].text
    BY <2>1, SyncTypes DEF Process, DocState
  <2> QED
    BY <1>1, <1>3, <2>1, <2>2, <2>3, DocumentOfTask DEF OwnTask
<1>4. CASE Bind(k)
  <2>1. At(k, "posted") /\ doc' = doc
        /\ task'[k] = [pc |-> "settle", body |-> task[k].body, doc |-> task[k].doc]
    BY <1>4, SyncTypes DEF Bind, Goto
  <2> QED
    BY <2>1 DEF Sent
<1>5. CASE Patch(k)
  <2>1. /\ At(k, "send") /\ Alive(task[k].doc) /\ OwnTask(h, k)
        /\ task'[k] = [pc |-> "settle", body |-> task[k].body, doc |-> task[k].doc]
    BY <1>1, <1>5, SyncTypes DEF Patch, Goto, At, Homed, TaskAt
  <2>2. IsContent(k) /\ task[k].doc \in Doc /\ doc[task[k].doc].st = "done"
    BY <2>1, SyncTypes DEF At, OwnTask, Sending, SendDone, Alive, TaskState
  <2>3. doc'[task[k].doc].st = "processing" /\ doc'[task[k].doc].text = task[k].body
    BY <1>5, <2>2, SyncTypes DEF Patch, Patched
  <2> QED
    BY <2>1, <2>3
<1>6. CASE NewDocument(k)
  <2>1. PICK d \in Doc : /\ Posted(job[k].path, task[k].body, d)
                         /\ Goto(k, "posted", task[k].body, d)
    BY <1>6 DEF NewDocument, FreshDocs
  <2> QED
    BY <2>1, SyncTypes DEF Posted, Goto
<1> QED
  BY <1>2, <1>3, <1>4, <1>5, <1>6, TaskMoves, OwnStep DEF NoTask

(* The newest content of a file, and the call that still speaks of it.     *)
LEMMA TextStep ==
  ASSUME SyncInv, NEW h \in Home, Homed(h), "rename" \notin Calls, [Next]_vars,
         NEW p \in Path, file[p] # None
  PROVE  \/ text'[file[p]] = text[file[p]]
         \/ WriteFile(p) /\ InCall(file[p])'
         \/ Unlink(p)
<1>1. file[p] \in Ino /\ h[file[p]] = p
  BY DEF Homed, Lives, SyncInv, SyncTypeOK
<1>2. ASSUME NEW q \in Path, CreateFile(q)
      PROVE  text'[file[p]] = text[file[p]]
  <2>1. PICK i \in Ino : text[i] = None /\ text' = [text EXCEPT ![i] = 0]
    BY <1>2 DEF CreateFile, FreeInos
  <2>2. text[file[p]] # None
    BY <1>1, NoneIsNoInode DEF SyncInv, FilesAllocated, Allocated
  <2> QED
    BY <1>1, <2>1, <2>2 DEF SyncInv, SyncTypeOK
<1>3. ASSUME NEW q \in Path, WriteFile(q) \/ Unlink(q), q # p
      PROVE  text'[file[p]] = text[file[p]]
  <2>1. file[q] # file[p]
    BY <1>1, <1>3 DEF WriteFile, Unlink, Homed, Lives
  <2> QED
    BY <1>1, <1>3, <2>1 DEF WriteFile, Unlink, Dropped, SyncInv, SyncTypeOK
<1>4. ASSUME WriteFile(p)
      PROVE  InCall(file[p])'
  <2>1. file' = file /\ call' = <<Ask("flush", p, file[p], None, None, None)>>
    BY <1>4 DEF WriteFile
  <2>2. call'[1].ino = file[p] /\ 1 \in DOMAIN call'
    BY <2>1 DEF Ask
  <2> QED
    BY <2>1, <2>2 DEF InCall
<1>5. ASSUME NEW k \in Permit, Worker(k) PROVE text' = text
  BY <1>5, WorkerCases DEF Spawn, Bind
<1>6. CASE User
  BY <1>2, <1>3, <1>4, <1>6, PlainCalls DEF Flush, Enqueue
<1> QED
  BY <1>5, <1>6 DEF Next, Delay, Process, Restart, vars

LEMMA CallStep ==
  ASSUME SyncInv, NEW h \in Home, Homed(h), "rename" \notin Calls, "crash" \notin Hazards,
         [Next]_vars, NEW p \in Path, file[p] # None, InCall(file[p])
  PROVE  \/ InCall(file[p])'
         \/ text[file[p]] = 0 /\ text' = text
         \/ \E w \in Write, rid \in Doc \cup {None}, due \in BOOLEAN : Puts(p, w, rid, due)
<1> DEFINE f == file[p]
           r == Head(call)
<1>1. f \in Ino /\ h[f] = p
  BY DEF Homed, Lives, SyncInv, SyncTypeOK
<1>2. call # <<>> /\ Len(call) = 1 /\ f \in {r.ino, r.src}
  <2>1. call # <<>>
    BY DEF InCall
  <2> QED
    BY <2>1, HeadOfCall DEF InCall, Homed, CallAt, SyncInv, SyncTypeOK
<1>3. r.path = p
  BY <1>1, <1>2, NoneIsNoInode DEF Homed, CallAt, Lives
<1>4. r.path = p /\ r.ino = f
  BY <1>2, <1>3 DEF Homed, CallAt
<1>5. CASE Flush
  <2> DEFINE op == IF remote[r.ino] = None THEN "create" ELSE "update"
             new == Ask(op, r.path, r.ino, None, remote[r.ino], None)
  <2>1. text' = text /\ file' = file
        /\ (text[r.ino] = 0 \/ call' = <<new>>)
    BY <1>5 DEF Flush
  <2>2. new.ino = r.ino
    BY DEF Ask
  <2> HIDE DEF new
  <2>3. call' = <<new>> => call'[1] = new /\ 1 \in DOMAIN call'
    OBVIOUS
  <2> QED
    BY <1>4, <2>1, <2>2, <2>3 DEF InCall
<1>6. CASE Enqueue
  <2>1. PICK q \in Path, w \in Write, rid \in Doc \cup {None}, due \in BOOLEAN :
          Puts(q, w, rid, due) /\ \A i \in Ino : InCall(i) => h[i] = q
    BY <1>6, EnqueuePuts
  <2>2. q = p
    BY <1>1, <2>1
  <2> QED
    BY <2>1, <2>2
<1>7. CASE UNCHANGED <<call, file>>
  BY <1>7 DEF InCall
<1>8. ASSUME NEW q \in Path, CreateFile(q) \/ WriteFile(q) \/ Unlink(q)
      PROVE  FALSE
  BY <1>2, <1>8 DEF CreateFile, WriteFile, Unlink, NewCall
<1>9. ASSUME NEW k \in Permit, Worker(k) PROVE UNCHANGED <<call, file>>
  BY <1>9, WorkerCases DEF Spawn, Bind
<1>10. CASE User
  BY <1>5, <1>6, <1>8, <1>10, PlainCalls
<1>11. CASE ~User
  <2>1. ~Restart
    BY DEF Restart, Crash
  <2>2. UNCHANGED <<call, file>>
    BY <1>9, <1>11, <2>1 DEF Next, Delay, Process, vars
  <2> QED
    BY <1>7, <2>2
<1> QED
  BY <1>10, <1>11

(* What a task has read stays the newest content of its file, unless a     *)
(* newer one is in a call or parked behind it.                             *)
LEMMA StepFresh ==
  ASSUME SyncInv, OnePushPerPath, HomeInv, FreshBody,
         "rename" \notin Calls, "crash" \notin Hazards, [Next]_vars
  PROVE  FreshBody'
<1> SUFFICES ASSUME NEW k \in Permit, Busy(k)', task'[k].pc \in Sending,
                    file'[job'[k].path] = job'[k].w.ino
             PROVE  \/ text'[job'[k].w.ino] \in {0, task'[k].body}
                    \/ InCall(job[k].w.ino)'
                    \/ queue'[job'[k].path].pend.ino = job'[k].w.ino
  BY DEF FreshBody, HeldRow
<1> DEFINE i == job[k].w.ino
           p == job[k].path
<1>1. PICK h \in Home : Homed(h)
  BY DEF HomeInv
<1>2. CASE job'[k] = job[k] /\ task'[k] = task[k]
  <2>1. /\ Busy(k) /\ OwnTask(h, k) /\ IsContent(k) /\ p \in Path /\ job[k].w \in Write
    BY <1>1, <1>2, SyncTypes DEF Busy, Homed, TaskAt, OwnTask, Job
  <2>2. i \in Ino /\ i # None /\ h[i] = p /\ text[i] # None
    <3>1. i \in Ino
      BY <2>1 DEF IsContent, Write, ContentWrite, DeleteWrite, RenameWrite
    <3>2. i \in Allocated
      BY DEF SyncInv, QueueAllocated
    <3> QED
      BY <2>1, <3>1, <3>2, NoneIsNoInode DEF OwnTask, Lives, Allocated
  <2>3. queue[p] \in Row /\ queue[p].inflight
    BY <2>1, SyncTypes DEF OnePushPerPath, HeldRow
  <2>4. /\ file'[p] = i /\ job'[k].path = p /\ job'[k].w.ino = i
        /\ i' = i
    BY <1>2
  <2> HIDE DEF i, p
  <2>5. file[p] = i /\ ~Unlink(p)
    <3>1. Unlink(p) => file'[p] = None
      BY <2>1 DEF Unlink, SyncInv, SyncTypeOK
    <3> QED
      BY <1>1, <2>1, <2>2, <2>4, <3>1, FileStep
  <2>6. \/ text[i] \in {0, task[k].body}
        \/ InCall(i)
        \/ queue[p].pend.ino = i
    BY <1>2, <2>1, <2>5 DEF FreshBody, HeldRow, i, p
  <2>7. text'[i] = text[i] \/ InCall(i)'
    BY <1>1, <2>1, <2>2, <2>4, <2>5, TextStep DEF InCall
  <2>8. ASSUME NEW w \in Write, NEW rid \in Doc \cup {None}, NEW due \in BOOLEAN,
               Puts(p, w, rid, due)
        PROVE  queue'[p].pend.ino = i
    <3>1. queue'[p] = Upserted(queue[p], w, rid, due) /\ w.ino = i
      BY <2>1, <2>5, <2>8, SyncTypes DEF Puts
    <3> QED
      BY <2>3, <3>1, UpsertParks
  <2>9. CASE InCall(i)
    BY <1>1, <1>2, <2>1, <2>2, <2>4, <2>5, <2>7, <2>8, <2>9, CallStep
  <2>10. CASE queue[p].pend.ino = i
    <3>1. CASE SameSlots(queue[p], queue'[p])
      BY <2>4, <2>10, <3>1 DEF SameSlots
    <3>2. ~Claimable(queue[p])
      BY <2>3 DEF Claimable
    <3>3. ASSUME NEW j \in Permit, job[j].path = p, Leaves(j, queue[p], queue'[p])
          PROVE  FALSE
      <4>1. Busy(j) /\ job' = [job EXCEPT ![j] = Idle]
        BY <3>3 DEF Leaves, End
      <4>2. j = k
        BY <2>1, <3>3, <4>1 DEF OnePushPerPath, Holders, p
      <4> QED
        BY <1>2, <2>1, <4>1, <4>2, SyncTypes DEF Busy
    <3> QED
      BY <1>1, <2>1, <2>4, <2>8, <3>1, <3>2, <3>3, RowStep
  <2>11. CASE text[i] \in {0, task[k].body}
    BY <1>2, <2>4, <2>7, <2>11
  <2> QED
    BY <2>6, <2>9, <2>10, <2>11
<1>3. CASE ReadContent(k)
  <2>1. PICK pc, d : Goto(k, pc, text[i], d) /\ text' = text /\ job' = job
    BY <1>3 DEF ReadContent, qvars
  <2>2. task'[k].body = text[i]
    BY <2>1, SyncTypes DEF Goto
  <2> QED
    BY <2>1, <2>2
<1>4. CASE WaitDone(k) \/ NewDocument(k) \/ Patch(k) \/ Bind(k)
  <2>1. /\ Busy(k) /\ task[k].pc \in Sending /\ UNCHANGED <<job, text, file, call>>
    BY <1>4 DEF WaitDone, NewDocument, Patch, Bind, Stamp, At, Sending, qvars
  <2>2. PICK pc, d : Goto(k, pc, task[k].body, d)
    BY <1>4 DEF WaitDone, NewDocument, Patch, Bind
  <2>3. task'[k].body = task[k].body
    BY <2>2, SyncTypes DEF Goto
  <2>4. p \in Path
    BY <2>1, SyncTypes DEF Busy, Job
  <2>5. queue'[p].pend = queue[p].pend
    <3>1. CASE Bind(k)
      BY <2>4, <3>1, TaskDocument, StampMarks, SyncTypes DEF Bind, Stamp
    <3>2. CASE UNCHANGED queue
      BY <3>2
    <3> QED
      BY <1>4, <3>1, <3>2 DEF WaitDone, NewDocument, Patch, qvars
  <2>6. \/ text[i] \in {0, task[k].body}
        \/ InCall(i)
        \/ queue[p].pend.ino = i
    BY <2>1 DEF FreshBody, HeldRow
  <2> QED
    BY <2>1, <2>3, <2>5, <2>6 DEF InCall, HeldRow
<1>5. ~FindDocument(k)
  BY <1>1 DEF FindDocument, At, Homed, TaskAt, OwnTask
<1>6. ~Delete(k)
  <2>1. Delete(k) => task'[k].pc = "deleted"
    BY SyncTypes DEF Delete, Goto
  <2> QED
    BY <2>1 DEF Sending
<1>7. \A x \in {"idle", "start"} : task'[k].pc # x
  BY DEF Sending
<1> QED
  BY <1>2, <1>3, <1>4, <1>5, <1>6, <1>7, TaskMoves, OwnStep DEF NoTask

(* Only a task's own row stands between a document and its file.           *)
LEMMA MirrorStays ==
  ASSUME SyncInv, OnePushPerPath, NEW h \in Home, Homed(h), [Next]_vars, NEW p \in Path,
         ~Present(queue[p]), Mirrored(p), file'[p] = file[p], text'[file[p]] = text[file[p]]
  PROVE  Mirrored(p)'
<1>1. PICK d \in Doc : Alive(d) /\ doc[d].path = p /\ doc[d].text = text[file[p]]
  BY DEF Mirrored, DocsAt
<1>2. ASSUME NEW k \in Permit, Changed(d, k)
      PROVE  FALSE
  BY <1>1, <1>2, InflightIsPresent, SyncTypes DEF Changed, OnePushPerPath, HeldRow
<1>3. doc'[d] = doc[d] \/ Process(d)
  BY <1>1, <1>2, DocumentStep, NoneIsNoInode DEF Unborn
<1>4. Process(d) => doc'[d] = [doc[d] EXCEPT !.st = "done"]
  BY SyncTypes DEF Process
<1>5. /\ doc'[d].st \in {"processing", "done"} /\ doc'[d].path = p
      /\ doc'[d].text = text[file[p]]
  BY <1>1, <1>3, <1>4, SyncTypes DEF Alive, DocState
<1> QED
  BY <1>1, <1>5 DEF Mirrored, DocsAt, Alive

(* A task whose write leaves its row has come to its end.                  *)
LEMMA WhoSucceeds ==
  ASSUME SyncInv, OnePushPerPath, NEW k \in Permit, Worker(k), Release(k),
         queue'[job[k].path].main # HeldRow(k).main
  PROVE  Settle(k) \/ FinishDelete(k) \/ NothingToRename(k)
<1>1. /\ Busy(k) /\ job[k].path \in Path /\ HeldRow(k) \in Row
  BY ReleaseLeaves
<1>2. ASSUME NEW row, End(k, row)
      PROVE  queue'[job[k].path] = row
  BY <1>1, <1>2, SyncTypes DEF End
<1>3. ~Fail(k)
  BY <1>1, <1>2, FailureReleases DEF Fail
<1>4. ~Clear404(k)
  BY <1>1, <1>2, Clear404Releases DEF Clear404
<1>5. ~Poison(k)
  BY <1>1, <1>2, PoisonReleases DEF Poison
<1>6. job'[k] = Idle
  BY <1>1, SyncTypes, ReleaseLeaves DEF Leaves, End
<1>7. ASSUME UNCHANGED job
      PROVE  FALSE
  BY <1>1, <1>6, <1>7 DEF Busy
<1>8. ASSUME NEW p \in Path, Spawn(p, k)
      PROVE  FALSE
  BY <1>1, <1>8 DEF Spawn, Claim
<1>9. ~(Gone(k) \/ FailRequest(k) \/ LoseReply(k) \/ Reject(k))
  BY <1>3, <1>4, <1>5 DEF Gone, FailRequest, LoseReply, Reject
<1> QED
  BY <1>7, <1>8, <1>9
  DEF Worker, ReadContent, FindDocument, WaitDone, Post, Upload, NewDocument, Patch, Delete,
      Bind, Stamp, qvars

LEMMA StepSaved ==
  ASSUME SyncInv, OnePushPerPath, HomeInv, Parked, Sent, FreshBody, SavedRows,
         "rename" \notin Calls, "latefail" \notin Hazards, "crash" \notin Hazards, [Next]_vars
  PROVE  SavedRows'
<1> SUFFICES ASSUME NEW p \in Path, file'[p] # None, text'[file'[p]] # 0, ~InCall(file[p])'
             PROVE  /\ queue'[p].inflight /\ queue'[p].pend # NoWrite =>
                         queue'[p].pend.ino = file'[p]
                    /\ Present(queue'[p]) => file'[p] \in {queue'[p].main.ino, queue'[p].pend.ino}
                    /\ ~Present(queue'[p]) => Mirrored(p)'
  BY DEF SavedRows, Saved
<1> DEFINE f == file[p]
<1>1. PICK h \in Home : Homed(h)
  BY DEF HomeInv
<1>2. file'[p] = f
  BY <1>1, FileStep
<1>3. f \in Ino /\ f # None /\ h[f] = p /\ queue[p] \in Row
  BY <1>1, <1>2, SyncTypes DEF Homed, Lives, SyncInv, SyncTypeOK
<1>4. text'[f] = text[f] /\ text[f] # 0
  <2>1. ~Unlink(p)
    BY <1>2, <1>3 DEF Unlink, SyncInv, SyncTypeOK
  <2> QED
    BY <1>1, <1>2, <1>3, <2>1, TextStep
<1>5. ASSUME NEW w \in Write, NEW rid \in Doc \cup {None}, NEW due \in BOOLEAN,
             Puts(p, w, rid, due)
      PROVE  /\ Present(queue'[p]) /\ f \in {queue'[p].main.ino, queue'[p].pend.ino}
             /\ queue'[p].inflight => queue'[p].pend.ino = f
  <2>1. queue'[p] = Upserted(queue[p], w, rid, due) /\ w.ino = f
    BY <1>5, SyncTypes DEF Puts
  <2>2. CASE queue[p].inflight
    BY <1>3, <2>1, <2>2, UpsertParks, InflightIsPresent DEF Present
  <2>3. CASE ~queue[p].inflight
    BY <1>3, <2>1, <2>3, UpsertReplaces, NoWriteIsNoWrite DEF Present
  <2> QED
    BY <2>2, <2>3
<1>6. CASE ~ \E w \in Write, rid \in Doc \cup {None}, due \in BOOLEAN : Puts(p, w, rid, due)
  <2>1. p \in Saved
    BY <1>1, <1>2, <1>3, <1>4, <1>6, CallStep DEF Saved
  <2>2. /\ queue[p].inflight /\ queue[p].pend # NoWrite => queue[p].pend.ino = f
        /\ Present(queue[p]) => f \in {queue[p].main.ino, queue[p].pend.ino}
        /\ ~Present(queue[p]) => Mirrored(p)
    BY <2>1 DEF SavedRows
  <2>3. ~Present(queue[p]) => Mirrored(p)'
    BY <1>1, <1>2, <1>4, <2>2, MirrorStays
  <2>4. CASE SameSlots(queue[p], queue'[p])
    BY <1>2, <2>2, <2>3, <2>4 DEF SameSlots, Present
  <2>5. CASE Claimable(queue[p]) /\ queue'[p] = Claimed(queue[p])
    <3>1. queue[p].pend = NoWrite
      BY <2>5 DEF Parked, Claimable
    <3> QED
      BY <1>2, <1>3, <2>2, <2>5, <3>1, ClaimMarks DEF Claimable, Present
  <2>6. ASSUME NEW k \in Permit, job[k].path = p, Worker(k), Release(k),
               Leaves(k, queue[p], queue'[p])
        PROVE  /\ ~queue'[p].inflight
               /\ Present(queue'[p]) => f \in {queue'[p].main.ino, queue'[p].pend.ino}
               /\ ~Present(queue'[p]) => Mirrored(p)'
    <3>1. /\ Busy(k) /\ queue[p].inflight /\ queue[p].main = job[k].w /\ Present(queue[p])
          /\ HeldRow(k) = queue[p] /\ OwnTask(h, k) /\ job[k].w \in Write
      BY <1>1, <1>3, <2>6, ReleaseLeaves, InflightIsPresent, SyncTypes
      DEF HeldRow, Homed, TaskAt, Busy, Job
    <3>2. ~queue'[p].inflight
      BY <2>6 DEF Leaves
    <3>3. CASE queue'[p].main = queue[p].main /\ queue'[p].pend = queue[p].pend
      BY <2>2, <3>1, <3>2, <3>3 DEF Present
    <3>4. CASE queue[p].pend # NoWrite /\ queue'[p].main = queue[p].pend
      BY <2>2, <3>1, <3>2, <3>4 DEF Present
    <3>5. CASE queue[p].pend = NoWrite /\ queue'[p].main = NoWrite
      <4>1. NoWrite.ino = None /\ job[k].w.ino = f
        BY <1>3, <2>2, <3>1, <3>5 DEF NoWrite
      <4>2. Settle(k) \/ FinishDelete(k) \/ NothingToRename(k)
        BY <2>6, <3>1, <3>5, WhoSucceeds DEF Present
      <4>3. job[k].w.op # "delete" /\ job[k].w.op # "rename"
        BY <1>3, <3>1, <4>1 DEF Write, ContentWrite, DeleteWrite, RenameWrite
      <4>4. Settle(k) /\ task[k].pc = "settle"
        BY <3>1, <4>2, <4>3 DEF FinishDelete, NothingToRename, Settle, At, OwnTask
      <4>5. text[f] = task[k].body
        BY <1>3, <1>4, <2>1, <2>6, <3>1, <3>5, <4>1, <4>4 DEF FreshBody, Sending, Saved
      <4>6. /\ task[k].doc \in Doc /\ doc[task[k].doc].path = p
            /\ doc[task[k].doc].st \in {"processing", "done"}
            /\ doc[task[k].doc].text = text[f]
        BY <2>6, <3>1, <4>4, <4>5, SyncTypes DEF Sent, At, OwnTask, Belongs, TaskState
      <4>7. doc' = doc
        BY <4>4 DEF Settle
      <4>8. task[k].doc \in DocsAt(p)' /\ doc'[task[k].doc].text = text'[file'[p]]
        BY <1>2, <1>3, <1>4, <4>6, <4>7, NoneIsNoInode DEF DocsAt, Alive
      <4> QED
        BY <3>2, <3>5, <4>8 DEF Mirrored, Present
    <3> QED
      BY <2>6, <3>3, <3>4, <3>5 DEF Leaves
  <2> QED
    BY <1>1, <1>2, <1>6, <2>4, <2>5, <2>6, RowStep
<1> QED
  BY <1>2, <1>5, <1>6

SavedInv == Parked /\ SendDone /\ Sent /\ FreshBody /\ SavedRows

LEMMA SavedInvHolds ==
  ASSUME "rename" \notin Calls, "timeout" \notin Faults,
         "busydst" \notin Hazards, "latefail" \notin Hazards, "crash" \notin Hazards
  PROVE  Spec => [](SyncInv /\ OnePushPerPath /\ HomeInv /\ SavedInv)
<1>1. SyncInv /\ OnePushPerPath /\ HomeInv /\ SavedInv /\ [Next]_vars => SavedInv'
  BY StepParked, StepSend, StepSent, StepFresh, StepSaved DEF SavedInv
<1>2. Init => SavedInv
  BY NoRowFields
  DEF Init, QInit, SavedInv, Parked, SendDone, Sent, FreshBody, SavedRows, Saved, At, Busy
<1>3. Spec => [](SyncInv /\ OnePushPerPath /\ HomeInv)
  BY HomeInvHolds
<1> QED
  BY <1>1, <1>2, <1>3, PTL DEF Spec

(* A saved file's newest content is on the server or in a row that may be  *)
(* claimed (push.rs calls the path "durable, coalescing"), unless the      *)
(* server has rejected a write of its name, without renames and as long as *)
(* the daemon is not killed, no wait for a document runs out, and no push  *)
(* fails with a newer write behind it.                                     *)
THEOREM NoEditForgotten ==
  ASSUME "rename" \notin Calls, "timeout" \notin Faults,
         "busydst" \notin Hazards, "latefail" \notin Hazards, "crash" \notin Hazards
  PROVE  Spec => []NothingForgotten
<1>1. SyncInv /\ OnePushPerPath /\ HomeInv /\ SavedInv => NothingForgotten
  BY DEF SavedInv, SavedRows, NothingForgotten, Held, Rejected, Saved
<1> QED
  BY <1>1, SavedInvHolds, PTL

(* Under the same conditions an empty queue means that the server has      *)
(* every saved file (README.md: "unmount and drain pending pushes").       *)
THEOREM EmptyQueueIsSaved ==
  ASSUME "rename" \notin Calls, "timeout" \notin Faults,
         "busydst" \notin Hazards, "latefail" \notin Hazards, "crash" \notin Hazards
  PROVE  Spec => []DrainedIsSaved
<1>1. SyncInv /\ OnePushPerPath /\ HomeInv /\ SavedInv => DrainedIsSaved
  BY DEF SavedInv, SavedRows, DrainedIsSaved, Settled, Saved
<1> QED
  BY <1>1, SavedInvHolds, PTL
-----------------------------------------------------------------------------
(***************************************************************************)
(* What is removed is gone.  Without renames, with the daemon alive and    *)
(* every answer read, a filepath has one document at most, and whoever may *)
(* write to it or delete it next knows which: the file's binding, the row, *)
(* the task that holds the row's claim, or the call on its way to the row. *)
(* So the delete of a removed file finds its document, whoever made it and *)
(* however often a request has failed.                                     *)
(***************************************************************************)
Only(p, d) == DocsAt(p) = {d} \ {None}

PostedAt(p, k) == Busy(k) /\ job[k].path = p /\ task[k].pc = "posted"

(* No document has been made whose id is still on its way to the row.      *)
NonePosted(p) == \A k \in Permit : ~PostedAt(p, k)

IsDelete(w) == w.op = "delete"
HasContent(w) == w.op \in {"create", "update"}

FileKnows(p) ==
  file[p] # None => IF NonePosted(p) THEN Only(p, remote[file[p]])
                                     ELSE remote[file[p]] = None

RowKnows(p) ==
  /\ HasContent(queue[p].main) =>
       IF NonePosted(p) THEN Only(p, queue[p].rid) ELSE queue[p].rid = None
  /\ IsDelete(queue[p].main) =>
       /\ queue[p].rid # None => DocsAt(p) \subseteq {queue[p].rid}
       /\ queue[p].pend = NoWrite \/ IsDelete(queue[p].pend)

(* The row of a file holds writes of this file only.                       *)
RowIsFiles(p) ==
  file[p] # None =>
    \A w \in {queue[p].main, queue[p].pend} : ~IsDelete(w) /\ w.ino \in {file[p], None}

RemovalCalled(p) == call # <<>> /\ Head(call).op = "delete" /\ Head(call).path = p

(* A removal is on its way to the row, or in it, or has been done.         *)
Removing(p) ==
  file[p] = None =>
    \/ RemovalCalled(p)
    \/ IsDelete(queue[p].pend)
    \/ IsDelete(queue[p].main) /\ queue[p].pend = NoWrite
    \/ ~Present(queue[p]) /\ DocsAt(p) = {}

(* A poisoned row is never pushed again, so it may say anything.           *)
PathKnows(p) ==
  queue[p].poisoned \/ (FileKnows(p) /\ RowKnows(p) /\ RowIsFiles(p) /\ Removing(p))

TaskKnows(k) ==
  Busy(k) =>
    LET p == job[k].path
    IN /\ task[k].pc = "start" => job[k].rid = queue[p].rid
       /\ task[k].pc \in {"wait", "send", "settle"} => task[k].doc = queue[p].rid
       /\ task[k].pc = "posted" => Only(p, task[k].doc)
       /\ task[k].pc = "deleted" => DocsAt(p) = {}

RequestKnows(r) ==
  /\ r.op = "create" => remote[r.ino] = None \/ Present(queue[r.path])
  /\ r.op = "update" => r.rid = remote[r.ino]
  /\ r.op = "delete" => r.src # None
  /\ r.op = "delete" /\ remote[r.src] # None =>
       /\ DocsAt(r.path) \subseteq {remote[r.src]}
       /\ Present(queue[r.path]) => queue[r.path].rid = remote[r.src]

CallKnows ==
  call # <<>> => queue[Head(call).path].poisoned \/ RequestKnows(Head(call))

KnownInv ==
  /\ \A p \in Path : PathKnows(p)
  /\ \A k \in Permit : TaskKnows(k)
  /\ CallKnows
-----------------------------------------------------------------------------
(* What a step leaves alone.                                               *)
SameRow(old, new) ==
  /\ new.main = old.main /\ new.pend = old.pend
  /\ new.rid = old.rid /\ new.poisoned = old.poisoned

LEMMA PathStays ==
  ASSUME NEW p \in Path, PathKnows(p), SameRow(queue[p], queue'[p]),
         file'[p] = file[p], file[p] # None => remote'[file[p]] = remote[file[p]],
         DocsAt(p)' = DocsAt(p),
         \A k \in Permit : PostedAt(p, k)' <=> PostedAt(p, k),
         RemovalCalled(p) => RemovalCalled(p)'
  PROVE  PathKnows(p)'
<1>1. NonePosted(p)' <=> NonePosted(p)
  BY DEF NonePosted
<1>2. CASE queue[p].poisoned
  BY <1>2 DEF PathKnows, SameRow
<1>3. CASE FileKnows(p) /\ RowKnows(p) /\ RowIsFiles(p) /\ Removing(p)
  <2>1. FileKnows(p)'
    BY <1>1, <1>3 DEF FileKnows, Only
  <2>2. RowKnows(p)'
    BY <1>1, <1>3 DEF RowKnows, Only, SameRow
  <2>3. RowIsFiles(p)'
    BY <1>3 DEF RowIsFiles, SameRow
  <2>4. Removing(p)'
    BY <1>3 DEF Removing, SameRow, Present
  <2> QED
    BY <2>1, <2>2, <2>3, <2>4 DEF PathKnows
<1> QED
  BY <1>2, <1>3 DEF PathKnows

LEMMA TaskStill ==
  ASSUME SyncInv, NEW k \in Permit, TaskKnows(k), job'[k] = job[k], task'[k] = task[k],
         \A p \in Path : Busy(k) /\ job[k].path = p =>
                           queue'[p].rid = queue[p].rid /\ DocsAt(p)' = DocsAt(p)
  PROVE  TaskKnows(k)'
<1> SUFFICES ASSUME Busy(k)' PROVE TaskKnows(k)'
  BY DEF TaskKnows
<1>1. Busy(k)
  BY DEF Busy
<1>2. PICK p \in Path : job[k].path = p
  BY <1>1, SyncTypes DEF Busy, Job
<1>3. queue'[p].rid = queue[p].rid /\ DocsAt(p)' = DocsAt(p) /\ job'[k].path = p
  BY <1>1, <1>2
<1> QED
  BY <1>1, <1>2, <1>3 DEF TaskKnows, Only

LEMMA CallStill ==
  ASSUME CallKnows, call' = call,
         call # <<>> =>
           LET r == Head(call)
           IN \A p \in Path : p = r.path =>
                /\ queue[p].poisoned => queue'[p].poisoned
                /\ r.op \in {"create", "update"} => remote'[r.ino] = remote[r.ino]
                /\ r.op = "create" /\ Present(queue[p]) => Present(queue[p])'
                /\ r.op = "delete" =>
                     /\ remote'[r.src] = remote[r.src]
                     /\ DocsAt(p)' \subseteq DocsAt(p)
                     /\ Present(queue[p])' => Present(queue[p]) /\ queue'[p].rid = queue[p].rid,
         call # <<>> => Head(call).path \in Path
  PROVE  CallKnows'
<1> SUFFICES ASSUME call # <<>>, ~queue'[Head(call).path].poisoned
             PROVE  RequestKnows(Head(call))'
  BY DEF CallKnows
<1> DEFINE r == Head(call)
<1>1. PICK p \in Path : p = r.path
  OBVIOUS
<1>2. RequestKnows(r)
  BY <1>1 DEF CallKnows
<1>3. r' = r
  OBVIOUS
<1>4. /\ r.op \in {"create", "update"} => remote'[r.ino] = remote[r.ino]
      /\ r.op = "create" /\ Present(queue[p]) => Present(queue[p])'
      /\ r.op = "delete" =>
           /\ remote'[r.src] = remote[r.src]
           /\ DocsAt(p)' \subseteq DocsAt(p)
           /\ Present(queue[p])' => Present(queue[p]) /\ queue'[p].rid = queue[p].rid
  BY <1>1
<1> HIDE DEF r
<1>5. /\ r.op = "create" => remote'[r.ino] = None \/ Present(queue[p])'
      /\ r.op = "update" => r.rid = remote'[r.ino]
      /\ r.op = "delete" => r.src # None
      /\ r.op = "delete" /\ remote'[r.src] # None =>
           /\ DocsAt(p)' \subseteq {remote'[r.src]}
           /\ Present(queue[p])' => queue'[p].rid = remote'[r.src]
  BY <1>1, <1>2, <1>4 DEF RequestKnows
<1> QED
  BY <1>1, <1>3, <1>5 DEF RequestKnows, r

(* The documents of a filepath are made and deleted by its task only.      *)
LEMMA DocsStay ==
  ASSUME SyncInv, NEW h \in Home, Homed(h), [Next]_vars, NEW p \in Path,
         \A k \in Permit : job[k].path = p => ~NewDocument(k) /\ ~Delete(k)
  PROVE  DocsAt(p)' = DocsAt(p)
<1> SUFFICES ASSUME NEW d \in Doc
             PROVE  /\ Alive(d)' /\ doc'[d].path = p => Alive(d) /\ doc[d].path = p
                    /\ Alive(d) /\ doc[d].path = p => Alive(d)' /\ doc'[d].path = p
  BY DEF DocsAt
<1>1. CASE doc'[d] = doc[d]
  BY <1>1 DEF Alive
<1>2. ASSUME doc[d] = Unborn, doc'[d] # doc[d], NEW k \in Permit, NewDocument(k)
      PROVE  ~Alive(d) /\ doc'[d].path # p
  <2>1. doc'[d].path = job[k].path
    BY <1>2, SyncTypes DEF NewDocument, Posted
  <2> QED
    BY <1>2, <2>1 DEF Alive, Unborn
<1>3. CASE doc'[d].path = doc[d].path /\ Process(d)
  BY <1>3, SyncTypes DEF Process, Alive, DocState
<1>4. ASSUME doc'[d].path = doc[d].path, NEW k \in Permit, Changed(d, k), doc[d].path = p
      PROVE  Alive(d) /\ Alive(d)'
  <2>1. Patch(k) /\ d = task[k].doc
    BY <1>4 DEF Changed
  <2> QED
    BY <2>1, SyncTypes DEF Patch, Patched, Alive
<1> QED
  BY <1>1, <1>2, <1>3, <1>4, DocumentStep DEF Changed

(* The task of a filepath is the one that its row's claim speaks of.       *)
LEMMA TaskRow ==
  ASSUME SyncInv, OnePushPerPath, Parked, NEW h \in Home, Homed(h),
         NEW k \in Permit, Busy(k)
  PROVE  /\ job[k].path \in Path /\ job[k].w \in Write /\ job[k].rid \in Doc \cup {None}
         /\ queue[job[k].path] \in TableRow /\ Present(queue[job[k].path])
         /\ queue[job[k].path].inflight /\ ~queue[job[k].path].poisoned
         /\ queue[job[k].path].main = job[k].w
         /\ OwnTask(h, k)
         /\ \A j \in Permit : Busy(j) /\ job[j].path = job[k].path => j = k
<1>1. job[k].path \in Path /\ job[k].w \in Write /\ job[k].rid \in Doc \cup {None}
  BY SyncTypes DEF Busy, Job
<1>2. /\ Holders(job[k].path) = {k}
      /\ queue[job[k].path].inflight /\ queue[job[k].path].main = job[k].w
  BY DEF OnePushPerPath, HeldRow
<1>3. queue[job[k].path] \in TableRow /\ Present(queue[job[k].path])
  BY <1>1, <1>2, SyncTypes, InflightIsPresent, RowCases
<1> QED
  BY <1>1, <1>2, <1>3 DEF Holders, Parked, Homed, TaskAt

LEMMA QuietRow ==
  ASSUME OnePushPerPath, NEW p \in Path, ~queue[p].inflight
  PROVE  /\ \A k \in Permit : Busy(k) => job[k].path # p
         /\ NonePosted(p)
BY DEF OnePushPerPath, HeldRow, NonePosted, PostedAt

LEMMA PoisonStays ==
  ASSUME SyncInv, OnePushPerPath, Parked, NEW h \in Home, Homed(h), "rename" \notin Calls,
         [Next]_vars, NEW p \in Path, queue[p].poisoned
  PROVE  queue'[p].poisoned
<1>1. queue[p] \in Row /\ ~queue[p].inflight
  BY SyncTypes DEF Parked
<1>2. ASSUME NEW w \in Write, NEW rid \in Doc \cup {None}, NEW due \in BOOLEAN,
             queue'[p] = Upserted(queue[p], w, rid, due)
      PROVE  queue'[p].poisoned
  BY <1>1, <1>2, UpsertReplaces
<1>3. ASSUME NEW k \in Permit, job[k].path = p, Release(k)
      PROVE  FALSE
  BY <1>1, <1>3, ReleaseLeaves DEF HeldRow
<1> QED
  BY <1>2, <1>3, RowStep DEF SameSlots, Claimable

(* A step of a task leaves every filepath alone that it does not push.     *)
LEMMA AwayRow ==
  ASSUME SyncInv, OnePushPerPath, Parked, NEW h \in Home, Homed(h), [Next]_vars,
         NEW k \in Permit, Worker(k), NEW q \in Path, Busy(k) => job[k].path # q
  PROVE  SameRow(queue[q], queue'[q]) /\ DocsAt(q)' = DocsAt(q) /\ UNCHANGED <<file, call>>
<1>1. DocsAt(q)' = DocsAt(q)
  <2>1. ASSUME NEW j \in Permit, job[j].path = q, NewDocument(j) \/ Delete(j)
        PROVE  FALSE
    <3>1. Busy(j) /\ j # k
      BY <2>1 DEF NewDocument, Delete, At
    <3>2. task'[j] = task[j]
      BY <3>1, OtherTasks
    <3>3. task'[j].pc \in {"posted", "deleted"} /\ task[j].pc \in {"start", "send"}
      BY <2>1, SyncTypes DEF NewDocument, Delete, Goto, At
    <3> QED
      BY <3>2, <3>3
  <2> QED
    BY <2>1, DocsStay
<1>2. UNCHANGED qvars => SameRow(queue[q], queue'[q])
  BY DEF qvars, SameRow
<1>3. ASSUME NEW p \in Path, Spawn(p, k)
      PROVE  SameRow(queue[q], queue'[q])
  <2>1. Claimable(queue[p]) /\ queue' = [queue EXCEPT ![p] = Claimed(queue[p])]
    BY <1>3 DEF Spawn, Claim
  <2>2. SameRow(queue[p], Claimed(queue[p]))
    BY <2>1, SyncTypes, ClaimMarks, RowDocument DEF SameRow
  <2> QED
    BY <2>1, <2>2, SyncTypes DEF SameRow
<1>4. ASSUME Bind(k)
      PROVE  queue'[q] = queue[q]
  BY <1>4, SyncTypes, TaskDocument DEF Bind, Stamp
<1>5. ASSUME Release(k)
      PROVE  queue'[q] = queue[q]
  BY <1>5, SyncTypes, ReleaseLeaves DEF Leaves, End
<1> QED
  <2>1. SameRow(queue[q], queue'[q])
    BY <1>2, <1>3, <1>4, <1>5, WorkerCases DEF SameRow
  <2>2. UNCHANGED <<file, call>>
    BY WorkerCases DEF Spawn, Bind
  <2> QED
    BY <1>1, <2>1, <2>2

LEMMA AwayPath ==
  ASSUME SyncInv, OnePushPerPath, Parked, NEW h \in Home, Homed(h), "rename" \notin Calls,
         [Next]_vars, NEW k \in Permit, Worker(k), ~Gone(k),
         NEW q \in Path, Busy(k) => job[k].path # q, PathKnows(q)
  PROVE  PathKnows(q)'
<1>1. SameRow(queue[q], queue'[q]) /\ DocsAt(q)' = DocsAt(q) /\ UNCHANGED <<file, call>>
  BY AwayRow
<1>2. file[q] # None => remote'[file[q]] = remote[file[q]]
  <2>1. SUFFICES ASSUME file[q] # None, Bind(k) PROVE remote'[file[q]] = remote[file[q]]
    BY WorkerCases DEF ReadContent, FindDocument, WaitDone, NewDocument, Patch, Delete, Spawn
  <2>2. file[q] \in Ino /\ h[file[q]] = q
    BY <2>1 DEF Homed, Lives, SyncInv, SyncTypeOK
  <2>3. Busy(k) /\ OwnTask(h, k) /\ job[k].w.ino # file[q]
    BY <2>1, <2>2 DEF Bind, At, Homed, TaskAt, OwnTask, Lives
  <2> QED
    BY <2>1, <2>2, <2>3, SyncTypes DEF Bind
<1>3. ASSUME NEW j \in Permit
      PROVE  PostedAt(q, j)' <=> PostedAt(q, j)
  <2>1. CASE j # k
    BY <2>1, OtherTasks DEF PostedAt, Busy
  <2>2. CASE j = k
    <3>1. ~PostedAt(q, k)
      BY DEF PostedAt
    <3>2. CASE \E p \in Path : Spawn(p, k)
      <4>1. task'[k].pc = "start"
        BY <3>2, SyncTypes DEF Spawn, Goto
      <4> QED
        BY <2>2, <3>1, <4>1 DEF PostedAt
    <3>3. CASE UNCHANGED job
      BY <2>2, <3>1, <3>3 DEF PostedAt, Busy
    <3>4. CASE Release(k)
      <4>1. job'[k] = Idle
        BY <3>4, SyncTypes, ReleaseLeaves DEF Leaves, End
      <4> QED
        BY <2>2, <3>1, <4>1 DEF PostedAt, Busy
    <3> QED
      BY <3>2, <3>3, <3>4, WorkerCases DEF Bind, Stamp, qvars
  <2> QED
    BY <2>1, <2>2
<1> QED
  BY <1>1, <1>2, <1>3, PathStays DEF RemovalCalled

LEMMA AwayTask ==
  ASSUME SyncInv, OnePushPerPath, Parked, NEW h \in Home, Homed(h), [Next]_vars,
         NEW k \in Permit, Worker(k), NEW j \in Permit, j # k, TaskKnows(j)
  PROVE  TaskKnows(j)'
<1>1. ASSUME NEW p \in Path, Busy(j), job[j].path = p
      PROVE  queue'[p].rid = queue[p].rid /\ DocsAt(p)' = DocsAt(p)
  <2>1. Busy(k) => job[k].path # p
    BY <1>1, TaskRow
  <2> QED
    BY <2>1, AwayRow DEF SameRow
<1> QED
  BY <1>1, OtherTasks, TaskStill

(* What a call in progress knows of another filepath is left alone too.    *)
LEMMA AwayCall ==
  ASSUME SyncInv, OnePushPerPath, Parked, NEW h \in Home, Homed(h), [Next]_vars,
         NEW k \in Permit, Worker(k), ~Gone(k), CallKnows, call # <<>>,
         Busy(k) => job[k].path # Head(call).path
  PROVE  CallKnows'
<1> DEFINE r == Head(call)
<1>1. /\ r \in Request /\ RequestOK(r) /\ r.path \in Path
      /\ r.ino \in Ino \cup {None} /\ r.src \in Ino \cup {None}
  BY HeadOfCall DEF Request
<1>2. /\ SameRow(queue[r.path], queue'[r.path])
      /\ UNCHANGED <<file, call>>
  BY <1>1, AwayRow
<1>3. \A p \in Path : p = r.path => DocsAt(p)' = DocsAt(p)
  BY AwayRow
<1>4. Lives(h, r.ino, r.path) /\ Lives(h, r.src, r.path)
  BY DEF Homed, CallAt
<1>5. ASSUME NEW i \in {r.ino, r.src}, i # None
      PROVE  remote'[i] = remote[i]
  <2>1. SUFFICES ASSUME Bind(k) PROVE remote'[i] = remote[i]
    BY WorkerCases DEF ReadContent, FindDocument, WaitDone, NewDocument, Patch, Delete, Spawn
  <2>2. i \in Ino /\ h[i] = r.path
    BY <1>1, <1>4, <1>5 DEF Lives
  <2>3. Busy(k) /\ job[k].path # r.path
    BY <2>1 DEF Bind, At
  <2> HIDE DEF r
  <2>4. Lives(h, job[k].w.ino, job[k].path)
    BY <2>3 DEF Homed, TaskAt, OwnTask
  <2>5. job[k].w.ino # i
    BY <1>5, <2>2, <2>3, <2>4 DEF Lives
  <2> QED
    BY <2>1, <2>2, <2>5, SyncTypes DEF Bind
<1>6. r.op \in {"create", "update"} => r.ino # None
  BY <1>1 DEF RequestOK
<1>7. queue[r.path].poisoned \/ (r.op = "delete" => r.src # None)
  BY DEF CallKnows, RequestKnows
<1> HIDE DEF r
<1>8. CASE queue[r.path].poisoned
  BY <1>2, <1>8 DEF CallKnows, SameRow, r
<1>9. CASE r.op = "delete" => r.src # None
  <2>1. ASSUME NEW p \in Path, p = r.path
        PROVE  /\ queue[p].poisoned => queue'[p].poisoned
               /\ r.op \in {"create", "update"} => remote'[r.ino] = remote[r.ino]
               /\ r.op = "create" /\ Present(queue[p]) => Present(queue[p])'
               /\ r.op = "delete" =>
                    /\ remote'[r.src] = remote[r.src]
                    /\ DocsAt(p)' \subseteq DocsAt(p)
                    /\ Present(queue[p])' => Present(queue[p]) /\ queue'[p].rid = queue[p].rid
    BY <1>2, <1>3, <1>5, <1>6, <1>9, <2>1 DEF SameRow, Present
  <2> QED
    BY <1>1, <1>2, <2>1, CallStill DEF r
<1> QED
  BY <1>7, <1>8, <1>9
-----------------------------------------------------------------------------
(* What is known at the filepath that a task pushes.                       *)
LEMMA Here ==
  ASSUME SyncInv, OnePushPerPath, Parked, NEW h \in Home, Homed(h), KnownInv,
         NEW k \in Permit, Busy(k), NEW p \in Path, job[k].path = p
  PROVE  /\ FileKnows(p) /\ RowKnows(p) /\ RowIsFiles(p) /\ Removing(p)
         /\ NonePosted(p) <=> task[k].pc # "posted"
         /\ TaskKnows(k)
         /\ call # <<>> /\ Head(call).path = p =>
              RequestKnows(Head(call)) /\ Head(call).ino = file[p]
<1>1. ~queue[p].poisoned /\ \A j \in Permit : Busy(j) /\ job[j].path = p => j = k
  BY TaskRow
<1>2. NonePosted(p) <=> task[k].pc # "posted"
  BY <1>1 DEF NonePosted, PostedAt
<1>3. call # <<>> => Head(call).ino = file[Head(call).path]
  BY DEF Homed, CallAt
<1> QED
  BY <1>1, <1>2, <1>3 DEF KnownInv, PathKnows, CallKnows

LEMMA HerePosted ==
  ASSUME SyncInv, OnePushPerPath, Parked, NEW h \in Home, Homed(h),
         NEW k \in Permit, Busy(k), Worker(k), NEW p \in Path, job[k].path = p
  PROVE  NonePosted(p)' <=> ~PostedAt(p, k)'
<1>1. ASSUME NEW j \in Permit, j # k
      PROVE  ~PostedAt(p, j)'
  BY <1>1, OtherTasks, TaskRow DEF PostedAt, Busy
<1> QED
  BY <1>1 DEF NonePosted

(* A task that goes on without making or deleting a document.              *)
LEMMA HereGoesOn ==
  ASSUME SyncInv, OnePushPerPath, Parked, NEW h \in Home, Homed(h), KnownInv, Binary = {},
         [Next]_vars, NEW k \in Permit, Busy(k), Worker(k), NEW p \in Path, job[k].path = p,
         ReadContent(k) \/ WaitDone(k) \/ Patch(k)
  PROVE  PathKnows(p)' /\ TaskKnows(k)' /\ CallKnows'
<1>1. UNCHANGED <<qvars, file, call, remote>>
  BY DEF ReadContent, WaitDone, Patch
<1>2. /\ task[k].pc \in {"start", "wait", "send"}
      /\ task'[k].pc \in {"wait", "send", "settle"} /\ task'[k].doc = queue[p].rid
  <2>1. TaskKnows(k)
    BY DEF KnownInv
  <2>2. CASE ReadContent(k)
    BY <2>1, <2>2, SyncTypes DEF ReadContent, Goto, TaskKnows, At
  <2>3. CASE WaitDone(k)
    BY <2>1, <2>3, SyncTypes DEF WaitDone, Goto, TaskKnows, At
  <2>4. CASE Patch(k)
    BY <2>1, <2>4, SyncTypes DEF Patch, Goto, TaskKnows, At
  <2> QED
    BY <2>2, <2>3, <2>4
<1>3. DocsAt(p)' = DocsAt(p)
  <2>1. ASSUME NEW j \in Permit, job[j].path = p, NewDocument(j) \/ Delete(j)
        PROVE  FALSE
    <3>1. j = k
      BY <2>1, TaskRow DEF NewDocument, Delete, At
    <3>2. task'[k].pc \in {"posted", "deleted"}
      BY <2>1, <3>1, SyncTypes DEF NewDocument, Delete, Goto
    <3> QED
      BY <1>2, <3>2
  <2> QED
    BY <2>1, DocsStay
<1>4. PathKnows(p)'
  <2>1. ASSUME NEW j \in Permit
        PROVE  PostedAt(p, j)' <=> PostedAt(p, j)
    BY <1>1, <1>2, OtherTasks DEF PostedAt, Busy, qvars
  <2> QED
    BY <1>1, <1>3, <2>1, PathStays DEF SameRow, RemovalCalled, KnownInv, qvars
<1>5. TaskKnows(k)'
  BY <1>1, <1>2 DEF TaskKnows, qvars
<1>6. CallKnows'
  <2>1. ASSUME call # <<>>
        PROVE  Head(call).path \in Path /\ \A q \in Path : q = Head(call).path => DocsAt(q)' = DocsAt(q)
    <3>1. Head(call).path \in Path
      BY <2>1, HeadOfCall DEF Request
    <3> QED
      BY <1>3, <3>1, AwayRow
  <2> QED
    BY <1>1, <2>1, CallStill DEF KnownInv, qvars, Present
<1> QED
  BY <1>4, <1>5, <1>6

(* The POST of a row without a document, at a filepath that has none.      *)
LEMMA HerePost ==
  ASSUME SyncInv, OnePushPerPath, Parked, NEW h \in Home, Homed(h), KnownInv,
         [Next]_vars, NEW k \in Permit, Busy(k), Worker(k), NEW p \in Path, job[k].path = p,
         NewDocument(k)
  PROVE  /\ PathKnows(p)' /\ TaskKnows(k)'
         /\ call # <<>> /\ Head(call).path = p => CallKnows'
<1>1. PICK d \in Doc : /\ doc[d] = Unborn
                       /\ Posted(p, task[k].body, d)
                       /\ Goto(k, "posted", task[k].body, d)
  BY DEF NewDocument, FreshDocs
<1>2. /\ UNCHANGED <<qvars, file, call, remote>>
      /\ task[k].pc = "send" /\ task[k].doc = None
      /\ task'[k].pc = "posted" /\ task'[k].doc = d
  BY <1>1, SyncTypes DEF NewDocument, At, Goto
<1>3. /\ HasContent(queue[p].main) /\ ~IsDelete(queue[p].main) /\ Present(queue[p])
      /\ queue[p].rid = None /\ NonePosted(p) /\ DocsAt(p) = {}
  <2>1. IsContent(k) /\ queue[p].main = job[k].w /\ Present(queue[p])
    BY <1>2, TaskRow DEF OwnTask, Sending
  <2>2. queue[p].rid = None /\ NonePosted(p) /\ RowKnows(p)
    BY <1>2, Here DEF TaskKnows
  <2> QED
    BY <2>1, <2>2 DEF IsContent, HasContent, IsDelete, RowKnows, Only
<1>4. DocsAt(p)' = {d}
  <2>1. ASSUME NEW e \in Doc, e # d
        PROVE  doc'[e] = doc[e]
    BY <1>1, <2>1, SyncTypes DEF Posted
  <2>2. doc'[d].st = "processing" /\ doc'[d].path = p /\ d # None
    BY <1>1, SyncTypes, NoneIsNoInode DEF Posted
  <2>3. ASSUME NEW e \in Doc
        PROVE  Alive(e)' /\ doc'[e].path = p <=> e = d
    BY <1>3, <2>1, <2>2 DEF DocsAt, Alive
  <2> QED
    BY <2>3 DEF DocsAt
<1>5. FileKnows(p) /\ RowKnows(p) /\ RowIsFiles(p) /\ Removing(p)
  BY Here
<1>6. ~NonePosted(p)'
  <2>1. PostedAt(p, k)'
    BY <1>2 DEF PostedAt, Busy, qvars
  <2> QED
    BY <2>1, HerePosted
<1>7. FileKnows(p)'
  <2>1. file[p] # None => remote[file[p]] = None
    BY <1>3, <1>5 DEF FileKnows, Only
  <2> QED
    BY <1>2, <1>6, <2>1 DEF FileKnows
<1>8. RowKnows(p)' /\ RowIsFiles(p)'
  BY <1>2, <1>3, <1>5, <1>6 DEF RowKnows, RowIsFiles, IsDelete, HasContent, qvars
<1>9. Removing(p)'
  BY <1>2, <1>3, <1>5 DEF Removing, RemovalCalled, IsDelete, qvars
<1>10. TaskKnows(k)'
  BY <1>2, <1>4, NoneIsNoInode DEF TaskKnows, Only, qvars
<1>11. ASSUME call # <<>>, Head(call).path = p
       PROVE  CallKnows'
  <2> DEFINE r == Head(call)
  <2>1. r.path = p /\ RequestKnows(r) /\ (r.op = "delete" => remote[r.src] = None)
    <3>1. RequestKnows(r) /\ r.path = p
      BY <1>11, Here
    <3> QED
      BY <1>3, <3>1 DEF RequestKnows
  <2>2. r' = r
    BY <1>2
  <2> HIDE DEF r
  <2>3. RequestKnows(r)'
    BY <1>2, <2>1, <2>2 DEF RequestKnows, Present, qvars
  <2> QED
    BY <2>3 DEF CallKnows, r
<1> QED
  BY <1>7, <1>8, <1>9, <1>10, <1>11 DEF PathKnows

(* A delete finds the one document that the filepath may have.             *)
LEMMA HereDelete ==
  ASSUME SyncInv, OnePushPerPath, Parked, NEW h \in Home, Homed(h), KnownInv,
         [Next]_vars, NEW k \in Permit, Busy(k), Worker(k), NEW p \in Path, job[k].path = p,
         Delete(k)
  PROVE  /\ PathKnows(p)' /\ TaskKnows(k)'
         /\ call # <<>> /\ Head(call).path = p => CallKnows'
<1>1. /\ UNCHANGED <<qvars, file, call, remote>>
      /\ task[k].pc = "start" /\ task'[k].pc = "deleted"
      /\ Deleted(IF job[k].rid # None THEN {job[k].rid} ELSE DocsAt(p))
  BY SyncTypes DEF Delete, At, Goto
<1>2. /\ IsDelete(queue[p].main) /\ ~HasContent(queue[p].main) /\ Present(queue[p])
      /\ job[k].rid = queue[p].rid /\ NonePosted(p)
  <2>1. queue[p].main = job[k].w /\ Present(queue[p]) /\ job[k].w.op = "delete"
    BY TaskRow DEF Delete
  <2> QED
    BY <1>1, <2>1, Here DEF IsDelete, HasContent, TaskKnows
<1>3. FileKnows(p) /\ RowKnows(p) /\ RowIsFiles(p) /\ Removing(p)
  BY Here
<1>4. DocsAt(p)' = {}
  <2> DEFINE D == IF job[k].rid # None THEN {job[k].rid} ELSE DocsAt(p)
  <2>1. DocsAt(p) \subseteq D
    BY <1>2, <1>3 DEF RowKnows
  <2>2. ASSUME NEW e \in Doc
        PROVE  /\ e \in D => doc'[e].st \in {"deleted", "unborn"}
               /\ e \notin D => doc'[e] = doc[e]
    BY <1>1, <2>2, SyncTypes DEF Deleted, DocState
  <2> HIDE DEF D
  <2>3. ASSUME NEW e \in Doc
        PROVE  ~(Alive(e)' /\ doc'[e].path = p)
    BY <2>1, <2>2 DEF DocsAt, Alive
  <2> QED
    BY <2>3 DEF DocsAt
<1>5. file[p] = None
  BY <1>2, <1>3 DEF RowIsFiles
<1>6. PathKnows(p)'
  <2>1. FileKnows(p)' /\ RowIsFiles(p)'
    BY <1>1, <1>5 DEF FileKnows, RowIsFiles
  <2>2. RowKnows(p)'
    BY <1>1, <1>2, <1>3, <1>4 DEF RowKnows, qvars
  <2>3. Removing(p)'
    BY <1>1, <1>2, <1>3, <1>5 DEF Removing, RemovalCalled, qvars
  <2> QED
    BY <2>1, <2>2, <2>3 DEF PathKnows
<1>7. TaskKnows(k)'
  BY <1>1, <1>4 DEF TaskKnows, qvars
<1>8. ASSUME call # <<>>, Head(call).path = p
      PROVE  CallKnows'
  <2> DEFINE r == Head(call)
  <2>1. r.path = p /\ RequestKnows(r)
    BY <1>8, Here
  <2>2. r' = r
    BY <1>1
  <2> HIDE DEF r
  <2>3. RequestKnows(r)'
    BY <1>1, <1>4, <2>1, <2>2 DEF RequestKnows, Present, qvars
  <2> QED
    BY <2>3 DEF CallKnows, r
<1> QED
  BY <1>6, <1>7, <1>8

(* The answer to a POST tells the row and the inode of the document.       *)
LEMMA HereBind ==
  ASSUME SyncInv, OnePushPerPath, Parked, NEW h \in Home, Homed(h), KnownInv,
         [Next]_vars, NEW k \in Permit, Busy(k), Worker(k), NEW p \in Path, job[k].path = p,
         Bind(k)
  PROVE  /\ PathKnows(p)' /\ TaskKnows(k)'
         /\ call # <<>> /\ Head(call).path = p => CallKnows'
<1> DEFINE d == task[k].doc
           i == job[k].w.ino
<1>1. /\ UNCHANGED <<file, call, doc, job>> /\ d \in Doc /\ d # None
      /\ task[k].pc = "posted" /\ task'[k].pc = "settle" /\ task'[k].doc = d
      /\ remote' = [remote EXCEPT ![i] = d]
      /\ queue'[p] = Stamped(queue[p], d)
  BY SyncTypes, TaskDocument, NoneIsNoInode DEF Bind, At, Goto, Stamp
<1>2. /\ HasContent(queue[p].main) /\ ~IsDelete(queue[p].main) /\ Present(queue[p])
      /\ queue[p].main.ino = i /\ i \in Ino /\ i # None /\ h[i] = p
      /\ queue[p] \in TableRow
  <2>1. /\ queue[p].main = job[k].w /\ Present(queue[p]) /\ queue[p] \in TableRow
        /\ OwnTask(h, k) /\ job[k].w \in Write
    BY TaskRow
  <2>2. IsContent(k)
    BY <1>1, <2>1 DEF OwnTask, Sending
  <2>3. i \in Ino
    BY <2>1, <2>2 DEF IsContent, Write, ContentWrite, DeleteWrite, RenameWrite
  <2> QED
    BY <2>1, <2>2, <2>3, NoneIsNoInode DEF IsContent, HasContent, IsDelete, OwnTask, Lives
<1>3. /\ FileKnows(p) /\ RowKnows(p) /\ RowIsFiles(p) /\ Removing(p)
      /\ ~NonePosted(p) /\ queue[p].rid = None /\ Only(p, d)
  <2>1. /\ FileKnows(p) /\ RowKnows(p) /\ RowIsFiles(p) /\ Removing(p)
        /\ ~NonePosted(p) /\ Only(p, d)
    BY <1>1, Here DEF TaskKnows
  <2> QED
    BY <1>2, <2>1 DEF RowKnows
<1>4. NonePosted(p)'
  BY <1>1, HerePosted DEF PostedAt
<1>5. /\ queue'[p].main = queue[p].main /\ queue'[p].pend = queue[p].pend
      /\ queue'[p].rid = d
  <2>1. queue'[p] = [queue[p] EXCEPT !.rid = d]
    BY <1>1, <1>2 DEF Stamped, Updated
  <2> QED
    BY <1>2, <2>1 DEF TableRow
<1>6. DocsAt(p)' = DocsAt(p)
  BY <1>1 DEF DocsAt, Alive
<1>7. file[p] # None => file[p] = i
  BY <1>2, <1>3 DEF RowIsFiles
<1> HIDE DEF d, i
<1>8. remote'[i] = d /\ \A j \in Ino : j # i => remote'[j] = remote[j]
  BY <1>1, <1>2, SyncTypes
<1>9. PathKnows(p)'
  <2>1. FileKnows(p)'
    BY <1>1, <1>3, <1>4, <1>6, <1>7, <1>8 DEF FileKnows, Only
  <2>2. RowKnows(p)'
    BY <1>2, <1>3, <1>4, <1>5, <1>6 DEF RowKnows, Only
  <2>3. RowIsFiles(p)'
    BY <1>1, <1>3, <1>5 DEF RowIsFiles
  <2>4. Removing(p)'
    BY <1>1, <1>2, <1>3, <1>5 DEF Removing, RemovalCalled
  <2> QED
    BY <2>1, <2>2, <2>3, <2>4 DEF PathKnows
<1>10. TaskKnows(k)'
  BY <1>1, <1>5 DEF TaskKnows
<1>11. ASSUME call # <<>>, Head(call).path = p
       PROVE  CallKnows'
  <2> DEFINE r == Head(call)
  <2>1. /\ r.path = p /\ RequestKnows(r) /\ r.ino = file[p]
        /\ RequestOK(r) /\ r.src \in Ino \cup {None}
    BY <1>11, Here, HeadOfCall DEF Request
  <2>2. r' = r
    BY <1>1
  <2> HIDE DEF r
  <2>3. r.op # "update"
    <3>1. SUFFICES ASSUME r.op = "update" PROVE FALSE
      OBVIOUS
    <3>2. file[p] # None /\ r.rid # None /\ r.rid = remote[file[p]]
      BY <2>1, <3>1 DEF RequestOK, RequestKnows
    <3> QED
      BY <1>3, <3>2 DEF FileKnows
  <2>4. Present(queue[p])'
    BY <1>2, <1>5 DEF Present
  <2>5. ASSUME r.op = "delete", remote'[r.src] # None
        PROVE  remote'[r.src] = d
    <3>1. r.src \in Ino
      BY <2>1, <2>5 DEF RequestKnows
    <3>2. CASE r.src = i
      BY <1>8, <3>2
    <3>3. CASE r.src # i
      <4>1. remote[r.src] # None
        BY <1>8, <2>5, <3>1, <3>3
      <4> QED
        BY <1>2, <1>3, <2>1, <2>5, <4>1 DEF RequestKnows
    <3> QED
      BY <3>2, <3>3
  <2>6. RequestKnows(r)'
    <3>1. r.op = "delete" => r.src # None
      BY <2>1 DEF RequestKnows
    <3>2. DocsAt(p)' \subseteq {d}
      BY <1>3, <1>6 DEF Only
    <3> QED
      BY <1>5, <2>1, <2>2, <2>3, <2>4, <2>5, <3>1, <3>2 DEF RequestKnows
  <2> QED
    BY <2>6 DEF CallKnows, r
<1> QED
  BY <1>9, <1>10, <1>11

(* A document that a task knows is there: no PATCH is answered with a 404. *)
LEMMA HereNotGone ==
  ASSUME SyncInv, OnePushPerPath, Parked, NEW h \in Home, Homed(h), KnownInv,
         NEW k \in Permit
  PROVE  ~Gone(k)
<1> SUFFICES ASSUME Gone(k) PROVE FALSE
  OBVIOUS
<1> DEFINE p == job[k].path
           d == task[k].doc
<1>1. Busy(k) /\ task[k].pc = "send" /\ d # None /\ ~Alive(d)
  BY DEF Gone, At
<1>2. /\ p \in Path /\ queue[p].main = job[k].w /\ OwnTask(h, k)
  BY <1>1, TaskRow
<1>3. HasContent(queue[p].main)
  BY <1>1, <1>2 DEF OwnTask, Sending, IsContent, HasContent
<1>4. RowKnows(p) /\ NonePosted(p) /\ d = queue[p].rid
  <2>1. RowKnows(p) /\ NonePosted(p) /\ TaskKnows(k)
    BY <1>1, <1>2, Here
  <2> QED
    BY <1>1, <2>1 DEF TaskKnows
<1>5. d \in DocsAt(p)
  BY <1>1, <1>3, <1>4 DEF RowKnows, Only
<1> QED
  BY <1>1, <1>5 DEF DocsAt

(* A write that has reached the server makes room for the parked one.      *)
LEMMA HereDone ==
  ASSUME SyncInv, OnePushPerPath, Parked, NEW h \in Home, Homed(h), KnownInv,
         "stall" \notin Faults,
         [Next]_vars, NEW k \in Permit, Busy(k), Worker(k), NEW p \in Path, job[k].path = p,
         Settle(k) \/ FinishDelete(k)
  PROVE  /\ PathKnows(p)' /\ TaskKnows(k)'
         /\ call # <<>> /\ Head(call).path = p => CallKnows'
<1>1. /\ UNCHANGED <<file, call, doc, remote>>
      /\ task[k].pc \in {"settle", "deleted"}
      /\ queue'[p] = Succeeded(queue[p]) /\ job'[k] = Idle
  BY SyncTypes DEF Settle, FinishDelete, At, Succeed, End, HeldRow
<1>2. /\ queue[p].main = job[k].w /\ Present(queue[p]) /\ queue[p] \in TableRow
      /\ OwnTask(h, k) /\ job[k].w \in Write
  BY TaskRow
<1>3. /\ FileKnows(p) /\ RowKnows(p) /\ RowIsFiles(p) /\ Removing(p)
      /\ NonePosted(p)
  BY <1>1, Here
<1>4. NonePosted(p)'
  BY <1>1, HerePosted DEF PostedAt, Busy
<1>5. /\ queue[p].pend # NoWrite =>
           /\ queue'[p].main = queue[p].pend /\ queue'[p].pend = NoWrite
           /\ queue'[p].rid = queue[p].rid
      /\ queue[p].pend = NoWrite => queue'[p] = NoRow
  BY <1>1, <1>2 DEF Succeeded, TableRow
<1>6. DocsAt(p)' = DocsAt(p)
  BY <1>1 DEF DocsAt, Alive
<1>7. /\ NoWrite.op = "none" /\ NoWrite.ino = None
      /\ NoRow.main = NoWrite /\ NoRow.pend = NoWrite /\ ~Present(NoRow)
  BY NoRowFields DEF NoWrite
<1>8. \/ HasContent(queue[p].main) /\ ~IsDelete(queue[p].main) /\ IsContent(k)
      \/ /\ IsDelete(queue[p].main) /\ ~HasContent(queue[p].main)
         /\ DocsAt(p) = {} /\ file[p] = None
  <2>1. CASE task[k].pc = "settle"
    BY <1>2, <2>1 DEF OwnTask, Sending, IsContent, HasContent, IsDelete
  <2>2. CASE task[k].pc = "deleted"
    <3>1. IsDelete(queue[p].main) /\ ~HasContent(queue[p].main)
      BY <1>2, <2>2 DEF OwnTask, HasContent, IsDelete
    <3>2. DocsAt(p) = {}
      BY <2>2, Here DEF TaskKnows
    <3> QED
      BY <1>3, <3>1, <3>2 DEF RowIsFiles
  <2> QED
    BY <1>1, <2>1, <2>2
<1>9. FileKnows(p)'
  BY <1>1, <1>3, <1>4, <1>6 DEF FileKnows, Only
<1>10. RowKnows(p)'
  <2>1. CASE queue[p].pend = NoWrite
    BY <1>5, <1>7, <2>1 DEF RowKnows, IsDelete, HasContent
  <2>2. CASE queue[p].pend # NoWrite
    <3>1. CASE HasContent(queue[p].main)
      <4>1. Only(p, queue[p].rid)
        BY <1>3, <3>1 DEF RowKnows
      <4> QED
        BY <1>4, <1>5, <1>6, <2>2, <4>1 DEF RowKnows, Only
    <3>2. CASE IsDelete(queue[p].main) /\ DocsAt(p) = {} /\ ~HasContent(queue[p].main)
      <4>1. IsDelete(queue'[p].main) /\ ~HasContent(queue'[p].main)
        BY <1>3, <1>5, <2>2, <3>2 DEF RowKnows, IsDelete, HasContent
      <4> QED
        BY <1>5, <1>6, <2>2, <3>2, <4>1 DEF RowKnows
    <3> QED
      BY <1>8, <3>1, <3>2
  <2> QED
    BY <2>1, <2>2
<1>11. RowIsFiles(p)'
  BY <1>1, <1>3, <1>5, <1>7 DEF RowIsFiles, IsDelete
<1>12. Removing(p)'
  <2> SUFFICES ASSUME file[p] = None, ~RemovalCalled(p)
               PROVE  \/ IsDelete(queue'[p].main) /\ queue'[p].pend = NoWrite
                      \/ ~Present(queue'[p]) /\ DocsAt(p) = {}
    BY <1>1, <1>6 DEF Removing, RemovalCalled
  <2>1. \/ IsDelete(queue[p].pend)
        \/ IsDelete(queue[p].main) /\ queue[p].pend = NoWrite
    BY <1>2, <1>3 DEF Removing
  <2>2. CASE IsDelete(queue[p].pend)
    BY <1>5, <1>7, <2>2 DEF IsDelete
  <2>3. CASE IsDelete(queue[p].main) /\ queue[p].pend = NoWrite
    BY <1>5, <1>7, <1>8, <2>3
  <2> QED
    BY <2>1, <2>2, <2>3
<1>13. TaskKnows(k)'
  BY <1>1 DEF TaskKnows, Busy
<1>14. ASSUME call # <<>>, Head(call).path = p
       PROVE  CallKnows'
  <2> DEFINE r == Head(call)
  <2>1. r.path = p /\ RequestKnows(r) /\ r.ino = file[p] /\ RequestOK(r)
    BY <1>14, Here, HeadOfCall
  <2>2. r' = r
    BY <1>1
  <2>3. r.op # "create"
    <3>1. SUFFICES ASSUME r.op = "create" PROVE FALSE
      OBVIOUS
    <3>2. file[p] # None
      BY <2>1, <3>1 DEF RequestOK
    <3>3. IsContent(k) /\ file[p] = job[k].w.ino
      <4>1. IsContent(k)
        BY <1>8, <3>2
      <4>2. job[k].w.ino \in {file[p], None} /\ job[k].w.ino # None
        BY <1>2, <1>3, <3>2, <4>1, NoneIsNoInode
        DEF RowIsFiles, IsContent, Write, ContentWrite, DeleteWrite, RenameWrite
      <4> QED
        BY <4>1, <4>2
    <3>4. Settle(k)
      <4>1. ~FinishDelete(k)
        BY <1>2, <3>3 DEF FinishDelete, At, OwnTask, IsContent
      <4> QED
        BY <4>1
    <3>5. Overtakes(k)
      BY <1>14, <2>1, <3>1, <3>3 DEF Overtakes
    <3> QED
      BY <3>4, <3>5 DEF Settle
  <2> HIDE DEF r
  <2>4. Present(queue[p])' => queue'[p].rid = queue[p].rid
    BY <1>5, <1>7
  <2>5. RequestKnows(r)'
    BY <1>1, <1>2, <1>6, <2>1, <2>2, <2>3, <2>4 DEF RequestKnows
  <2> QED
    BY <2>5 DEF CallKnows, r
<1> QED
  BY <1>9, <1>10, <1>11, <1>12, <1>13, <1>14 DEF PathKnows

(* A request that fails leaves its row as it was, or poisons it.           *)
LEMMA HereFails ==
  ASSUME SyncInv, OnePushPerPath, Parked, NEW h \in Home, Homed(h), KnownInv,
         [Next]_vars, NEW k \in Permit, Busy(k), Worker(k), NEW p \in Path, job[k].path = p,
         FailRequest(k) \/ Reject(k)
  PROVE  /\ PathKnows(p)' /\ TaskKnows(k)'
         /\ call # <<>> /\ Head(call).path = p => CallKnows'
<1>1. /\ UNCHANGED <<file, call, doc, remote>>
      /\ task[k].pc \in {"start", "send"} /\ job'[k] = Idle
      /\ queue'[p] \in {Failed(queue[p], FALSE), Poisoned(queue[p])}
  BY SyncTypes DEF FailRequest, Reject, Requesting, At, Fail, Poison, End, HeldRow
<1>2. Present(queue[p]) /\ queue[p] \in TableRow /\ ~queue[p].poisoned
  BY TaskRow
<1>3. TaskKnows(k)'
  BY <1>1 DEF TaskKnows, Busy
<1>4. DocsAt(p)' = DocsAt(p)
  BY <1>1 DEF DocsAt, Alive
<1>5. CASE queue'[p] = Poisoned(queue[p])
  <2>1. queue'[p].poisoned
    BY <1>2, <1>5 DEF Poisoned, Updated, TableRow
  <2> QED
    BY <1>1, <1>3, <2>1 DEF PathKnows, CallKnows
<1>6. CASE queue'[p] = Failed(queue[p], FALSE)
  <2>1. SameRow(queue[p], queue'[p])
    BY <1>2, <1>6 DEF Failed, Updated, TableRow, SameRow
  <2>2. NonePosted(p) /\ NonePosted(p)'
    <3>1. NonePosted(p)
      BY <1>1, Here
    <3>2. NonePosted(p)'
      BY <1>1, HerePosted DEF PostedAt, Busy
    <3> QED
      BY <3>1, <3>2
  <2>3. PathKnows(p)'
    BY <1>1, <1>4, <2>1, <2>2, PathStays DEF RemovalCalled, NonePosted, KnownInv
  <2>4. ASSUME call # <<>>, Head(call).path = p
        PROVE  CallKnows'
    <3>1. Head(call).path \in Path
      BY <2>4
    <3>2. \A q \in Path : q = Head(call).path =>
            /\ DocsAt(q)' = DocsAt(q) /\ SameRow(queue[q], queue'[q])
      BY <1>4, <2>1, <2>4
    <3> QED
      BY <1>1, <3>1, <3>2, CallStill DEF KnownInv, SameRow, Present
  <2> QED
    BY <1>3, <2>3, <2>4
<1> QED
  BY <1>1, <1>5, <1>6

(* So what is known stays known whatever a task does.                      *)
LEMMA WorkerKnows ==
  ASSUME SyncInv, OnePushPerPath, HomeInv, Parked, KnownInv, "rename" \notin Calls,
         Binary = {}, "stall" \notin Faults, "lost" \notin Faults,
         [Next]_vars, NEW k \in Permit, Worker(k)
  PROVE  KnownInv'
<1>1. PICK h \in Home : Homed(h)
  BY DEF HomeInv
<1>2. ~Gone(k)
  BY <1>1, HereNotGone
<1>3. ASSUME Busy(k), NEW p \in Path, job[k].path = p
      PROVE  /\ PathKnows(p)' /\ TaskKnows(k)'
             /\ call # <<>> /\ Head(call).path = p => CallKnows'
  <2>1. job[k].w.op # "rename"
    BY <1>1, <1>3 DEF Homed, TaskAt, OwnTask
  <2>2. ~FindDocument(k) /\ ~NothingToRename(k) /\ ~LoseReply(k) /\ ~(\E q \in Path : Spawn(q, k))
    BY <1>3, <2>1 DEF FindDocument, NothingToRename, LoseReply, Spawn, Claim
  <2>3. \/ ReadContent(k) \/ WaitDone(k) \/ Patch(k) \/ NewDocument(k) \/ Delete(k)
        \/ Bind(k) \/ Settle(k) \/ FinishDelete(k) \/ FailRequest(k) \/ Reject(k)
    BY <1>2, <2>2 DEF Worker, Post, Upload
  <2> QED
    BY <1>1, <1>3, <2>3, HereGoesOn, HerePost, HereDelete, HereBind, HereDone, HereFails
<1>4. ASSUME ~Busy(k)
      PROVE  TaskKnows(k)'
  <2>1. PICK p \in Path : Spawn(p, k)
    BY <1>4
    DEF Worker, ReadContent, FindDocument, NothingToRename, WaitDone, Post, Upload, NewDocument,
        Patch, Delete, Bind, Settle, FinishDelete, Gone, FailRequest, LoseReply, Reject,
        Requesting, At
  <2>2. /\ task'[k].pc = "start"
        /\ job'[k] = [path |-> p, w |-> queue[p].main, rid |-> queue[p].rid]
        /\ Claimable(queue[p]) /\ queue'[p] = Claimed(queue[p])
    BY <2>1, SyncTypes DEF Spawn, Claim, Goto
  <2>3. queue'[p].rid = queue[p].rid
    BY <2>2, SyncTypes, RowDocument
  <2> QED
    BY <2>2, <2>3 DEF TaskKnows
<1>5. ASSUME NEW p \in Path PROVE PathKnows(p)'
  BY <1>1, <1>2, <1>3, AwayPath DEF KnownInv
<1>6. ASSUME NEW j \in Permit PROVE TaskKnows(j)'
  <2>1. CASE j # k
    BY <1>1, <2>1, AwayTask DEF KnownInv
  <2>2. CASE j = k
    <3>1. Busy(k) => job[k].path \in Path
      BY <1>1, TaskRow
    <3> QED
      BY <1>3, <1>4, <2>2, <3>1
  <2> QED
    BY <2>1, <2>2
<1>7. CallKnows'
  <2>1. CASE call = <<>>
    <3>1. UNCHANGED call
      BY WorkerCases DEF Spawn, Bind
    <3> QED
      BY <2>1, <3>1 DEF CallKnows
  <2>2. CASE call # <<>>
    <3>1. Head(call).path \in Path
      BY <2>2, HeadOfCall DEF Request
    <3>2. CASE Busy(k) /\ job[k].path = Head(call).path
      BY <1>3, <2>2, <3>1, <3>2
    <3>3. CASE Busy(k) => job[k].path # Head(call).path
      BY <1>1, <1>2, <2>2, <3>3, AwayCall DEF KnownInv
    <3> QED
      BY <3>2, <3>3
  <2> QED
    BY <2>1, <2>2
<1> QED
  BY <1>5, <1>6, <1>7 DEF KnownInv
-----------------------------------------------------------------------------
(* The steps of the user.  Without "recreate" nobody makes a file at a     *)
(* filepath whose removal still waits in the queue.                        *)
LEMMA KnownCreate ==
  ASSUME SyncInv, OnePushPerPath, NEW h \in Home, Homed(h), KnownInv, "rename" \notin Calls,
         "recreate" \notin Calls, NEW p \in Path, CreateFile(p)
  PROVE  KnownInv'
<1>1. /\ UNCHANGED <<queue, job, remote, call, task, doc>> /\ file[p] = None /\ call = <<>>
      /\ \A q \in Path : q # p => file'[q] = file[q]
  BY DEF CreateFile, NewCall, qvars, SyncInv, SyncTypeOK
<1>2. file'[p] \in Ino /\ text[file'[p]] = None
  <2>1. PICK i \in Ino : text[i] = None /\ file' = [file EXCEPT ![p] = i]
    BY DEF CreateFile, FreeInos
  <2> QED
    BY <2>1 DEF SyncInv, SyncTypeOK
<1>3. \A q \in Path : DocsAt(q)' = DocsAt(q)
  BY <1>1 DEF DocsAt, Alive
<1>4. ASSUME NEW q \in Path, NEW k \in Permit
      PROVE  PostedAt(q, k)' <=> PostedAt(q, k)
  BY <1>1 DEF PostedAt, Busy
<1>5. ASSUME NEW q \in Path, q # p PROVE PathKnows(q)'
  BY <1>1, <1>3, <1>4, <1>5, PathStays DEF KnownInv, SameRow, RemovalCalled
<1>6. PathKnows(p)'
  <2>1. file'[p] # None /\ remote[file'[p]] = None
    BY <1>2, NoneIsNoInode DEF Homed, FileAt
  <2>2. queue[p] = NoRow
    BY SyncTypes, RowCases DEF CreateFile
  <2>3. DocsAt(p) = {}
    <3>1. Removing(p)
      BY <2>2, NoRowFields DEF KnownInv, PathKnows
    <3> QED
      BY <1>1, <2>2, <3>1, NoRowFields DEF Removing, RemovalCalled, IsDelete, NoWrite
  <2>4. NonePosted(p) /\ NonePosted(p)'
    BY <1>4, <2>2, NoRowFields, QuietRow DEF NonePosted
  <2>5. FileKnows(p)'
    BY <1>1, <1>3, <2>1, <2>3, <2>4 DEF FileKnows, Only
  <2>6. RowKnows(p)' /\ RowIsFiles(p)'
    BY <1>1, <2>2, NoRowFields DEF RowKnows, RowIsFiles, IsDelete, HasContent, NoWrite
  <2>7. Removing(p)'
    BY <2>1 DEF Removing
  <2> QED
    BY <2>5, <2>6, <2>7 DEF PathKnows
<1>7. ASSUME NEW k \in Permit PROVE TaskKnows(k)'
  BY <1>1, <1>3, TaskStill DEF KnownInv
<1>8. CallKnows'
  BY <1>1 DEF CallKnows
<1> QED
  BY <1>5, <1>6, <1>7, <1>8 DEF KnownInv

LEMMA KnownWrite ==
  ASSUME SyncInv, OnePushPerPath, NEW h \in Home, Homed(h), KnownInv,
         NEW p \in Path, WriteFile(p)
  PROVE  KnownInv'
<1>1. /\ UNCHANGED <<queue, job, remote, file, task, doc>> /\ call = <<>>
      /\ call' = <<Ask("flush", p, file[p], None, None, None)>>
  BY DEF WriteFile, NewCall, qvars
<1>2. \A q \in Path : DocsAt(q)' = DocsAt(q)
  BY <1>1 DEF DocsAt, Alive
<1>3. ASSUME NEW q \in Path, NEW k \in Permit
      PROVE  PostedAt(q, k)' <=> PostedAt(q, k)
  BY <1>1 DEF PostedAt, Busy
<1>4. ASSUME NEW q \in Path PROVE PathKnows(q)'
  BY <1>1, <1>2, <1>3, PathStays DEF KnownInv, SameRow, RemovalCalled
<1>5. ASSUME NEW k \in Permit PROVE TaskKnows(k)'
  BY <1>1, <1>2, TaskStill DEF KnownInv
<1>6. CallKnows'
  BY <1>1 DEF CallKnows, RequestKnows, Ask
<1> QED
  BY <1>4, <1>5, <1>6 DEF KnownInv

LEMMA KnownUnlink ==
  ASSUME SyncInv, OnePushPerPath, NEW h \in Home, Homed(h), KnownInv,
         NEW p \in Path, Unlink(p)
  PROVE  KnownInv'
<1> DEFINE i == file[p]
           r == Ask("delete", p, None, None, None, i)
<1>1. /\ UNCHANGED <<queue, job, task, doc>> /\ call = <<>> /\ i \in Ino /\ i # None
      /\ file'[p] = None /\ \A q \in Path : q # p => file'[q] = file[q]
      /\ remote'[i] = None /\ \A j \in Ino : j # i => remote'[j] = remote[j]
      /\ call' = <<r>>
  BY DEF Unlink, NewCall, Dropped, qvars, SyncInv, SyncTypeOK
<1>2. \A q \in Path : DocsAt(q)' = DocsAt(q)
  BY <1>1 DEF DocsAt, Alive
<1>3. ASSUME NEW q \in Path, NEW k \in Permit
      PROVE  PostedAt(q, k)' <=> PostedAt(q, k)
  BY <1>1 DEF PostedAt, Busy
<1>4. r.op = "delete" /\ r.path = p /\ r.src = i
  BY DEF Ask
<1>5. ASSUME NEW q \in Path, q # p PROVE PathKnows(q)'
  <2>1. file[q] # None => file[q] \in Ino /\ file[q] # i
    BY <1>1, <1>5 DEF Homed, Lives, SyncInv, SyncTypeOK
  <2> QED
    BY <1>1, <1>2, <1>3, <1>5, <2>1, PathStays DEF KnownInv, SameRow, RemovalCalled
<1> HIDE DEF i, r
<1>6. PathKnows(p)'
  <2>1. CASE queue[p].poisoned
    BY <1>1, <2>1 DEF PathKnows
  <2>2. CASE RowKnows(p)
    <3>1. NonePosted(p)' <=> NonePosted(p)
      BY <1>3 DEF NonePosted
    <3>2. RowKnows(p)'
      BY <1>1, <1>2, <2>2, <3>1 DEF RowKnows, Only
    <3>3. FileKnows(p)' /\ RowIsFiles(p)'
      BY <1>1 DEF FileKnows, RowIsFiles
    <3>4. call' # <<>> /\ Head(call') = r
      BY <1>1
    <3>5. Removing(p)'
      BY <1>4, <3>4 DEF Removing, RemovalCalled
    <3> QED
      BY <3>2, <3>3, <3>5 DEF PathKnows
  <2> QED
    BY <2>1, <2>2 DEF KnownInv, PathKnows
<1>7. ASSUME NEW k \in Permit PROVE TaskKnows(k)'
  BY <1>1, <1>2, TaskStill DEF KnownInv
<1>8. CallKnows'
  <2>1. Head(call') = r
    BY <1>1
  <2> QED
    BY <1>1, <1>4, <2>1 DEF CallKnows, RequestKnows
<1> QED
  BY <1>5, <1>6, <1>7, <1>8 DEF KnownInv

LEMMA KnownFlush ==
  ASSUME SyncInv, OnePushPerPath, KnownInv, Flush
  PROVE  KnownInv'
<1> DEFINE r == Head(call)
           op == IF remote[r.ino] = None THEN "create" ELSE "update"
           new == Ask(op, r.path, r.ino, None, remote[r.ino], None)
<1>1. /\ UNCHANGED <<queue, job, remote, file, task, doc>> /\ call # <<>> /\ r.op = "flush"
      /\ call' \in {<<>>, <<new>>}
  BY DEF Flush, Asked, qvars
<1>2. \A q \in Path : DocsAt(q)' = DocsAt(q)
  BY <1>1 DEF DocsAt, Alive
<1>3. ASSUME NEW q \in Path, NEW k \in Permit
      PROVE  PostedAt(q, k)' <=> PostedAt(q, k)
  BY <1>1 DEF PostedAt, Busy
<1>4. ASSUME NEW q \in Path PROVE PathKnows(q)'
  BY <1>1, <1>2, <1>3, PathStays DEF KnownInv, SameRow, RemovalCalled
<1>5. ASSUME NEW k \in Permit PROVE TaskKnows(k)'
  BY <1>1, <1>2, TaskStill DEF KnownInv
<1>6. CallKnows'
  <2>1. CASE call' = <<>>
    BY <2>1 DEF CallKnows
  <2>2. CASE call' = <<new>>
    <3>1. PICK n : n = new
      OBVIOUS
    <3>2. n.op = op /\ n.ino = r.ino /\ n.rid = remote[r.ino]
      BY <3>1 DEF Ask
    <3>3. remote' = remote /\ Head(call') = n
      BY <1>1, <2>2, <3>1
    <3>4. RequestKnows(n)'
      BY <3>2, <3>3 DEF RequestKnows
    <3> QED
      BY <3>3, <3>4 DEF CallKnows
  <2> QED
    BY <1>1, <2>1, <2>2
<1> QED
  BY <1>4, <1>5, <1>6 DEF KnownInv

(* What an enqueue puts into its row, as the call knows it.                *)
LEMMA EnqueueKnows ==
  ASSUME SyncInv, NEW h \in Home, Homed(h), KnownInv, Enqueue
  PROVE  \E p \in Path, w \in Write, rid \in Doc \cup {None}, due \in BOOLEAN :
           /\ Puts(p, w, rid, due)
           /\ call # <<>> /\ Head(call).path = p
           /\ \/ queue[p].poisoned
              \/ /\ HasContent(w) =>
                      rid = remote[file[p]] \/ (rid = None /\ Present(queue[p]))
                 /\ IsDelete(w) /\ rid # None =>
                      /\ DocsAt(p) \subseteq {rid}
                      /\ Present(queue[p]) => queue[p].rid = rid
<1> DEFINE r == Head(call)
<1>1. PICK p \in Path, w \in Write, rid \in Doc \cup {None}, due \in BOOLEAN :
        Puts(p, w, rid, due) /\ call # <<>> /\ Asks(r, p, w, rid)
  BY EnqueuePuts
<1>2. /\ r.path = p /\ w.op = r.op
      /\ r.src = None => rid = r.rid
      /\ r.src # None => rid = remote[r.src]
  BY <1>1 DEF Asks
<1>3. RequestOK(r) /\ (queue[p].poisoned \/ RequestKnows(r)) /\ r.ino = file[p]
  BY <1>1, <1>2, HeadOfCall DEF KnownInv, CallKnows, Homed, CallAt
<1> HIDE DEF r
<1>4. CASE RequestKnows(r)
  <2>1. HasContent(w) => rid = remote[file[p]] \/ (rid = None /\ Present(queue[p]))
    BY <1>2, <1>3, <1>4 DEF HasContent, RequestKnows, RequestOK
  <2>2. IsDelete(w) /\ rid # None =>
          DocsAt(p) \subseteq {rid} /\ (Present(queue[p]) => queue[p].rid = rid)
    BY <1>2, <1>4 DEF IsDelete, RequestKnows
  <2> QED
    BY <1>1, <1>2, <2>1, <2>2 DEF r
<1> QED
  BY <1>1, <1>2, <1>3, <1>4 DEF r

(* The row after an enqueue, by what it was.                               *)
LEMMA UpsertedRow ==
  ASSUME NEW r \in Row, NEW w \in Write, NEW rid \in Doc \cup {None}, NEW due \in BOOLEAN
  PROVE  LET new == Upserted(r, w, rid, due)
         IN /\ Present(new)
            /\ r.inflight => /\ new.main = r.main /\ new.pend = w /\ new.rid = r.rid
            /\ ~r.inflight => /\ new.main = w /\ new.pend = r.pend
                              /\ new.rid = IF rid # None THEN rid ELSE r.rid
            /\ new.poisoned = r.poisoned
<1>1. CASE r \in TableRow
  BY <1>1, NoWriteIsNoWrite DEF TableRow, Upserted, Coalesce, Present
<1>2. CASE r = NoRow
  BY <1>2, NoWriteIsNoWrite DEF NoRow, Upserted, Coalesce, Present
<1> QED
  BY <1>1, <1>2 DEF Row

LEMMA KnownEnqueue ==
  ASSUME SyncInv, OnePushPerPath, Parked, NEW h \in Home, Homed(h), KnownInv, Enqueue
  PROVE  KnownInv'
<1>1. PICK p \in Path, w \in Write, rid \in Doc \cup {None}, due \in BOOLEAN :
        /\ Puts(p, w, rid, due)
        /\ call # <<>> /\ Head(call).path = p
        /\ \/ queue[p].poisoned
           \/ /\ HasContent(w) =>
                   rid = remote[file[p]] \/ (rid = None /\ Present(queue[p]))
              /\ IsDelete(w) /\ rid # None =>
                   /\ DocsAt(p) \subseteq {rid}
                   /\ Present(queue[p]) => queue[p].rid = rid
  BY EnqueueKnows
<1>2. /\ UNCHANGED <<job, file, remote, task, doc>> /\ call' = <<>>
      /\ \A q \in Path : q # p => queue'[q] = queue[q]
      /\ queue'[p] = Upserted(queue[p], w, rid, due)
      /\ w.ino = file[p]
      /\ \/ HasContent(w) /\ ~IsDelete(w) /\ file[p] # None
         \/ IsDelete(w) /\ ~HasContent(w) /\ file[p] = None
  BY <1>1, SyncTypes DEF Puts, HasContent, IsDelete
<1>3. \A q \in Path : DocsAt(q)' = DocsAt(q)
  BY <1>2 DEF DocsAt, Alive
<1>4. ASSUME NEW q \in Path
      PROVE  /\ \A k \in Permit : PostedAt(q, k)' <=> PostedAt(q, k)
             /\ NonePosted(q)' <=> NonePosted(q)
  BY <1>2 DEF NonePosted, PostedAt, Busy
<1>5. ASSUME NEW q \in Path, q # p PROVE PathKnows(q)'
  BY <1>1, <1>2, <1>3, <1>4, <1>5, PathStays DEF KnownInv, SameRow, RemovalCalled
<1>6. /\ queue[p] \in Row /\ queue'[p].poisoned = queue[p].poisoned
      /\ queue[p].inflight => /\ queue'[p].main = queue[p].main /\ queue'[p].pend = w
                              /\ queue'[p].rid = queue[p].rid
                              /\ Present(queue[p])
      /\ ~queue[p].inflight => /\ queue'[p].main = w /\ queue'[p].pend = queue[p].pend
                               /\ queue'[p].rid = IF rid # None THEN rid ELSE queue[p].rid
      /\ Present(queue'[p])
  <2>1. queue[p] \in Row /\ (queue[p].inflight => Present(queue[p]))
    BY SyncTypes, InflightIsPresent
  <2>2. PICK r \in Row : r = queue[p]
    BY <2>1
  <2>3. PICK new : new = Upserted(r, w, rid, due)
    OBVIOUS
  <2>4. /\ new.poisoned = r.poisoned /\ Present(new)
        /\ r.inflight => /\ new.main = r.main /\ new.pend = w /\ new.rid = r.rid
        /\ ~r.inflight => /\ new.main = w /\ new.pend = r.pend
                          /\ new.rid = IF rid # None THEN rid ELSE r.rid
    BY <2>3, UpsertedRow
  <2>5. queue'[p] = new
    BY <1>2, <2>2, <2>3
  <2> QED
    BY <2>1, <2>2, <2>4, <2>5
<1>7. ASSUME ~queue[p].poisoned
      PROVE  PathKnows(p)'
  <2>1. FileKnows(p) /\ RowKnows(p) /\ RowIsFiles(p) /\ Removing(p)
    BY <1>7 DEF KnownInv, PathKnows
  <2>2. /\ HasContent(w) => rid = remote[file[p]] \/ (rid = None /\ Present(queue[p]))
        /\ IsDelete(w) /\ rid # None =>
             /\ DocsAt(p) \subseteq {rid}
             /\ Present(queue[p]) => queue[p].rid = rid
    BY <1>1, <1>7
  <2>3. ~queue[p].inflight => queue[p].pend = NoWrite /\ NonePosted(p)
    BY <1>7, QuietRow DEF Parked
  <2>4. /\ NoWrite.op = "none" /\ NoWrite.ino = None
        /\ queue[p] = NoRow \/ Present(queue[p])
        /\ NoRow.rid = None
    BY <1>6, RowCases, NoRowFields DEF NoWrite
  <2>5. FileKnows(p)'
    BY <1>2, <1>3, <1>4, <2>1 DEF FileKnows, Only
  <2>6. CASE queue[p].inflight
    <3>1. RowKnows(p)'
      <4>1. IsDelete(queue[p].main) => IsDelete(w)
        BY <1>2, <2>1 DEF RowIsFiles
      <4> QED
        BY <1>3, <1>4, <1>6, <2>1, <2>6, <4>1 DEF RowKnows, Only
    <3>2. RowIsFiles(p)'
      BY <1>2, <1>6, <2>1, <2>6 DEF RowIsFiles
    <3>3. Removing(p)'
      BY <1>2, <1>6, <2>6 DEF Removing
    <3> QED
      BY <2>5, <3>1, <3>2, <3>3 DEF PathKnows
  <2>7. CASE ~queue[p].inflight
    <3>1. queue'[p].main = w /\ queue'[p].pend = NoWrite
          /\ queue'[p].rid = IF rid # None THEN rid ELSE queue[p].rid
      BY <1>6, <2>3, <2>7
    <3>2. ASSUME HasContent(w)
          PROVE  Only(p, queue'[p].rid)
      <4>1. Only(p, remote[file[p]])
        BY <1>2, <2>1, <2>3, <2>7, <3>2 DEF FileKnows
      <4>2. CASE rid # None
        BY <2>2, <3>1, <3>2, <4>1, <4>2
      <4>3. CASE rid = None /\ Present(queue[p])
        <5>1. queue[p].main \in Write /\ queue[p].main.op # "rename"
          BY <4>3, <1>6, RowCases DEF TableRow, Homed, RowAt
        <5>2. HasContent(queue[p].main)
          BY <1>2, <2>1, <3>2, <5>1
          DEF RowIsFiles, IsDelete, HasContent, Write, ContentWrite, DeleteWrite, RenameWrite
        <5> QED
          BY <2>1, <2>3, <2>7, <3>1, <4>3, <5>2 DEF RowKnows
      <4>4. CASE rid = None /\ queue[p] = NoRow
        <5>1. rid = remote[file[p]]
          BY <2>2, <3>2, <4>4, NoRowFields
        <5> QED
          BY <2>4, <3>1, <4>1, <4>4, <5>1
      <4> QED
        BY <2>4, <4>2, <4>3, <4>4
    <3>3. ASSUME IsDelete(w), queue'[p].rid # None
          PROVE  DocsAt(p) \subseteq {queue'[p].rid}
      <4>1. CASE rid # None
        BY <2>2, <3>1, <3>3, <4>1
      <4>2. CASE rid = None
        <5>1. queue'[p].rid = queue[p].rid /\ queue[p].rid # None /\ Present(queue[p])
          BY <2>4, <3>1, <3>3, <4>2
        <5>2. queue[p].main \in Write /\ queue[p].main.op # "rename"
          BY <5>1, <1>6, RowCases DEF TableRow, Homed, RowAt
        <5>3. HasContent(queue[p].main) \/ IsDelete(queue[p].main)
          BY <5>2 DEF IsDelete, HasContent, Write, ContentWrite, DeleteWrite, RenameWrite
        <5> QED
          BY <2>1, <2>3, <2>7, <5>1, <5>3 DEF RowKnows, Only
      <4> QED
        BY <4>1, <4>2
    <3>4. RowKnows(p)'
      BY <1>3, <1>4, <2>3, <2>7, <3>1, <3>2, <3>3 DEF RowKnows, Only
    <3>5. RowIsFiles(p)'
      BY <1>2, <2>4, <3>1 DEF RowIsFiles, IsDelete
    <3>6. Removing(p)'
      BY <1>2, <3>1 DEF Removing
    <3> QED
      BY <2>5, <3>4, <3>5, <3>6 DEF PathKnows
  <2> QED
    BY <2>6, <2>7
<1>8. PathKnows(p)'
  BY <1>6, <1>7 DEF PathKnows
<1>9. ASSUME NEW k \in Permit PROVE TaskKnows(k)'
  <2>1. ASSUME NEW q \in Path, Busy(k), job[k].path = q
        PROVE  queue'[q].rid = queue[q].rid
    <3>1. q = p => queue[p].inflight
      BY <2>1 DEF OnePushPerPath, HeldRow
    <3> QED
      BY <1>2, <1>6, <3>1
  <2> QED
    BY <1>2, <1>3, <2>1, TaskStill DEF KnownInv
<1>10. CallKnows'
  BY <1>2 DEF CallKnows
<1> QED
  BY <1>5, <1>8, <1>9, <1>10 DEF KnownInv

(* The timers and the server.                                              *)
LEMMA KnownRest ==
  ASSUME SyncInv, NEW h \in Home, Homed(h), KnownInv, [Next]_vars,
         (\E p \in Path : Delay(p)) \/ (\E d \in Doc : Process(d)) \/ UNCHANGED vars
  PROVE  KnownInv'
<1>1. UNCHANGED <<job, file, remote, task, call>>
  BY DEF Delay, Elapse, Process, vars, qvars
<1>2. \A q \in Path : DocsAt(q)' = DocsAt(q)
  <2>1. ASSUME NEW k \in Permit, NewDocument(k) \/ Delete(k)
        PROVE  FALSE
    <3>1. task'[k].pc # task[k].pc
      BY <2>1, SyncTypes DEF NewDocument, Delete, Goto, At
    <3> QED
      BY <1>1, <3>1
  <2> QED
    BY <2>1, DocsStay
<1>3. ASSUME NEW q \in Path
      PROVE  SameRow(queue[q], queue'[q])
  <2>1. ASSUME NEW p \in Path, Delay(p)
        PROVE  SameRow(queue[q], queue'[q])
    <3>1. Present(queue[p]) /\ queue' = [queue EXCEPT ![p] = [queue[p] EXCEPT !.due = TRUE]]
      BY <2>1 DEF Delay, Elapse
    <3>2. SameRow(queue[p], [queue[p] EXCEPT !.due = TRUE])
      BY <3>1, ElapseMarks, RowDocument, SyncTypes DEF SameRow
    <3> QED
      BY <3>1, <3>2, SyncTypes DEF SameRow
  <2>2. UNCHANGED queue => SameRow(queue[q], queue'[q])
    BY DEF SameRow
  <2> QED
    BY <2>1, <2>2 DEF Process, vars, qvars
<1>4. ASSUME NEW q \in Path, NEW k \in Permit
      PROVE  PostedAt(q, k)' <=> PostedAt(q, k)
  BY <1>1 DEF PostedAt, Busy
<1>5. ASSUME NEW q \in Path PROVE PathKnows(q)'
  BY <1>1, <1>2, <1>3, <1>4, PathStays DEF KnownInv, RemovalCalled
<1>6. ASSUME NEW k \in Permit PROVE TaskKnows(k)'
  BY <1>1, <1>2, <1>3, TaskStill DEF KnownInv, SameRow
<1>7. CallKnows'
  <2>1. call # <<>> => Head(call).path \in Path
    BY HeadOfCall DEF Request
  <2> QED
    BY <1>1, <1>2, <1>3, <2>1, CallStill DEF KnownInv, SameRow, Present
<1> QED
  BY <1>5, <1>6, <1>7 DEF KnownInv

LEMMA StepKnown ==
  ASSUME SyncInv, OnePushPerPath, HomeInv, Parked, KnownInv, "rename" \notin Calls,
         Binary = {}, "stall" \notin Faults, "lost" \notin Faults, "crash" \notin Hazards,
         "recreate" \notin Calls, [Next]_vars
  PROVE  KnownInv'
<1>1. PICK h \in Home : Homed(h)
  BY DEF HomeInv
<1>2. CASE \E k \in Permit : Worker(k)
  BY <1>2, WorkerKnows
<1>3. CASE (\E p \in Path : Delay(p)) \/ (\E d \in Doc : Process(d)) \/ UNCHANGED vars
  BY <1>1, <1>3, KnownRest
<1>4. CASE User /\ ~UNCHANGED vars
  BY <1>1, <1>4, PlainCalls, KnownCreate, KnownWrite, KnownUnlink, KnownFlush, KnownEnqueue
<1>5. ~Restart
  BY DEF Restart, Crash
<1> QED
  BY <1>2, <1>3, <1>4, <1>5 DEF Next

LEMMA InitKnown == Init => KnownInv
<1> SUFFICES ASSUME Init PROVE KnownInv
  OBVIOUS
<1>1. ASSUME NEW p \in Path PROVE PathKnows(p)
  <2>1. queue[p] = NoRow /\ file[p] = None
    BY DEF Init, QInit
  <2>2. DocsAt(p) = {}
    BY DEF Init, DocsAt, Alive, Unborn
  <2> QED
    BY <2>1, <2>2, NoRowFields
    DEF PathKnows, FileKnows, RowKnows, RowIsFiles, Removing, IsDelete, HasContent, NoWrite
<1>2. ASSUME NEW k \in Permit PROVE TaskKnows(k)
  BY DEF Init, QInit, TaskKnows, Busy
<1>3. CallKnows
  BY DEF Init, CallKnows
<1> QED
  BY <1>1, <1>2, <1>3 DEF KnownInv

(* What is removed from the mount is gone from the server once nothing is  *)
(* queued for it (fs.rs, unlink enqueues a delete; push.rs, process_job),  *)
(* for any number of files at one name, and although requests fail, waits  *)
(* run out and rows are poisoned: without renames, with text only, as long *)
(* as the daemon is not killed, every answer arrives, no push fails with a *)
(* newer write behind it, no push comes to its end between a flush and its *)
(* enqueue, and the user makes no file at a name whose removal still waits *)
(* in the queue.                                                           *)
THEOREM RemovedStaysGone ==
  ASSUME "rename" \notin Calls, "recreate" \notin Calls, Binary = {}, "lost" \notin Faults,
         "stall" \notin Faults,
         "busydst" \notin Hazards, "latefail" \notin Hazards, "crash" \notin Hazards
  PROVE  Spec => []RemovedIsGone
<1> DEFINE Inv == Parked /\ KnownInv
<1>1. SyncInv /\ OnePushPerPath /\ HomeInv /\ Inv /\ [Next]_vars => Inv'
  BY StepParked, StepKnown
<1>2. Init => Inv
  BY InitKnown, NoRowFields DEF Init, QInit, Parked
<1>3. Spec => [](SyncInv /\ OnePushPerPath /\ HomeInv)
  BY HomeInvHolds
<1>4. SyncInv /\ Inv => RemovedIsGone
  <2> SUFFICES ASSUME SyncInv, KnownInv, NEW p \in Path, file[p] = None, Settled(p)
               PROVE  DocsAt(p) = {}
    BY DEF RemovedIsGone
  <2>1. queue[p] = NoRow /\ call = <<>>
    BY SyncTypes, RowCases DEF Settled
  <2>2. Removing(p)
    BY <2>1, NoRowFields DEF KnownInv, PathKnows
  <2> QED
    BY <2>1, <2>2, NoRowFields DEF Removing, RemovalCalled, IsDelete, NoWrite
<1> HIDE DEF Inv
<1> QED
  BY <1>1, <1>2, <1>3, <1>4, PTL DEF Spec
=============================================================================
