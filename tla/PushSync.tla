------------------------------ MODULE PushSync ------------------------------
(***************************************************************************)
(* The write path from a filesystem call to the server: the cache's files  *)
(* (cache/fs.rs, cache/file.rs), the push queue, the tasks of the push     *)
(* worker step by step (sync/push.rs, process_job) and the documents they  *)
(* create, patch and delete.  Directories, hard links and derived siblings *)
(* are left out: a filepath names a regular file or nothing.               *)
(*                                                                         *)
(* The content of a file is the number of the edit that produced it; 0 is  *)
(* the empty file.  An edit number identifies one content, so the server   *)
(* having a file's text means having its newest bytes.                     *)
(***************************************************************************)
EXTENDS PushQueue, Sequences

CONSTANTS
  Calls,        \* which of "write", "unlink", "rename" the user issues, and
                \* "recreate": see CreateFile
  Faults,       \* "fail", "lost", "timeout", "stall": see FailRequest,
                \* LoseReply, Over and Overtakes
  Binary,       \* the edits whose content is not UTF-8
  MaxEdits      \* bound: writes, unlinks and renames of the user

ASSUME SyncAssumption ==
  /\ Calls \subseteq {"write", "unlink", "rename", "recreate"}
  /\ Faults \subseteq {"fail", "lost", "timeout", "stall"}
  /\ MaxEdits \in Nat /\ None \notin Nat
  /\ Binary \subseteq 1..MaxEdits

VARIABLES
  file,     \* fs_dentry: filepath -> inode or None
  text,     \* fs_data: inode -> edit number; None if never allocated
  dirty,    \* fs_inode.dirty_since IS NOT NULL
  remote,   \* fs_remote.remote_id
  call,     \* the queue operations still to come of the user's current call
  task,     \* permit -> how far its process_job has come
  doc,      \* the server's documents (external)
  edits     \* writes, unlinks and renames so far

vars == <<queue, job, issued, sent, file, text, dirty, remote, call, task, doc,
          edits>>

Request == [op   : {"flush", "retarget", "bind", "create", "update", "delete",
                    "rename"},
            path : Path,
            ino  : Ino \cup {None},
            to   : Path \cup {None},
            rid  : Doc \cup {None},
            src  : Ino \cup {None}]  \* inode whose remote id goes along

NoTask == [pc |-> "idle", body |-> 0, doc |-> None]

Unborn == [st |-> "unborn", path |-> None, text |-> 0]

Alive(d) == d # None /\ doc[d].st \in {"processing", "done"}

SyncTypeOK ==
  /\ file \in [Path -> Ino \cup {None}]
  /\ text \in [Ino -> Nat \cup {None}]
  /\ dirty \in [Ino -> BOOLEAN]
  /\ remote \in [Ino -> Doc \cup {None}]
  /\ call \in Seq(Request)
  /\ task \in [Permit -> [pc : {"idle", "start", "wait", "send", "posted",
                                "settle", "deleted"},
                          body : Nat, doc : Doc \cup {None}]]
  /\ doc \in [Doc -> [st : {"unborn", "processing", "done", "deleted"},
                      path : Path \cup {None}, text : Nat]]
  /\ edits \in 0..MaxEdits
  /\ \A k \in Permit : Busy(k) <=> task[k].pc # "idle"

Init ==
  /\ QInit
  /\ file = [p \in Path |-> None]
  /\ text = [i \in Ino |-> None]
  /\ dirty = [i \in Ino |-> FALSE]
  /\ remote = [i \in Ino |-> None]
  /\ call = <<>>
  /\ task = [k \in Permit |-> NoTask]
  /\ doc = [d \in Doc |-> Unborn]
  /\ edits = 0
-----------------------------------------------------------------------------
(* The user's calls, one at a time.  The transaction on the cache comes    *)
(* first; what the call then does to the queue is left in `call' and done  *)
(* in steps of its own, as the code takes the database lock anew for each. *)

FreeInos == {i \in Ino : text[i] = None}

NewCall(kind) == call = <<>> /\ kind \in Calls /\ edits < MaxEdits

Ask(op, p, i, to, rid, src) ==
  [op |-> op, path |-> p, ino |-> i, to |-> to, rid |-> rid, src |-> src]

(* Under "recreate" also at a filepath whose removal still waits in the    *)
(* queue.                                                                  *)
CreateFile(p) ==
  /\ NewCall("write")
  /\ file[p] = None
  /\ Present(queue[p]) => "recreate" \in Calls
  /\ FreeInos # {}
  /\ LET i == CHOOSE j \in FreeInos : TRUE
     IN /\ file' = [file EXCEPT ![p] = i]
        /\ text' = [text EXCEPT ![i] = 0]
  /\ UNCHANGED <<dirty, remote, call, task, doc, edits>>
  /\ UNCHANGED qvars

WriteFile(p) ==
  /\ NewCall("write")
  /\ file[p] # None
  /\ edits' = edits + 1
  /\ text' = [text EXCEPT ![file[p]] = edits']
  /\ dirty' = [dirty EXCEPT ![file[p]] = TRUE]
  /\ call' = <<Ask("flush", p, file[p], None, None, None)>>
  /\ UNCHANGED <<file, remote, task, doc>>
  /\ UNCHANGED qvars

(* The inode loses its last link: its data and its fs_remote row go too.   *)
Dropped(i) ==
  /\ text' = [text EXCEPT ![i] = 0]
  /\ dirty' = [dirty EXCEPT ![i] = FALSE]
  /\ remote' = [remote EXCEPT ![i] = None]

Unlink(p) ==
  /\ NewCall("unlink")
  /\ file[p] # None
  /\ edits' = edits + 1
  /\ file' = [file EXCEPT ![p] = None]
  /\ Dropped(file[p])
  /\ call' = <<Ask("delete", p, None, None, None, file[p])>>
  /\ UNCHANGED <<task, doc>>
  /\ UNCHANGED qvars

Rename(p, q) ==
  /\ NewCall("rename")
  /\ p # q
  /\ file[p] # None
  /\ edits' = edits + 1
  /\ file' = [file EXCEPT ![p] = None, ![q] = file[p]]
  /\ IF file[q] # None
     THEN /\ Dropped(file[q])
          /\ call' = <<Ask("retarget", p, file[q], q, remote[file[q]], file[p])>>
     ELSE /\ UNCHANGED <<text, dirty, remote>>
          /\ call' = <<Ask("retarget", p, None, q, None, file[p])>>
  /\ UNCHANGED <<task, doc>>
  /\ UNCHANGED qvars
-----------------------------------------------------------------------------
(* The queue operations of the current call.                               *)

Asked(op) == call # <<>> /\ Head(call).op = op

(* flush: nothing to push for an empty file; else a create or an update,   *)
(* as the inode is bound to a document at this moment.                     *)
Flush ==
  /\ Asked("flush")
  /\ LET r == Head(call)
         op == IF remote[r.ino] = None THEN "create" ELSE "update"
     IN call' = IF text[r.ino] = 0
                THEN <<>>
                ELSE <<Ask(op, r.path, r.ino, None, remote[r.ino], None)>>
  /\ UNCHANGED <<file, text, dirty, remote, task, doc, edits>>
  /\ UNCHANGED qvars

(* Slip: the create is copied to the new filepath and left at the old one. *)
FollowRenameCopies ==
  /\ Asked("retarget")
  /\ Retargetable(queue[Head(call).path])
  /\ LET r == Head(call)
     IN /\ issued[r.to] + issued[r.path] <= MaxWrites
        /\ queue' = [queue EXCEPT ![r.to] =
                        Retargeted(queue[r.path], issued[r.to], r.rid)]
        /\ issued' = [issued EXCEPT ![r.to] = @ + Newest(queue[r.path])]
        /\ call' = <<>>
  /\ UNCHANGED <<file, text, dirty, remote, job, sent, task, doc, edits>>

(* rename, after its transaction: a pending create follows the file.       *)
FollowRename ==
  /\ Asked("retarget")
  /\ Retargetable(queue[Head(call).path])
  /\ LET r == Head(call)
     IN /\ Retarget(r.path, r.to, r.rid)
        /\ call' = IF r.rid = None
                   THEN <<>>
                   ELSE <<Ask("bind", r.to, r.src, None, r.rid, None)>>
  /\ UNCHANGED <<file, text, dirty, remote, task, doc, edits>>

(* The moved file takes over the document of the file it has overwritten.  *)
TakeOver ==
  /\ Asked("bind")
  /\ remote' = [remote EXCEPT ![Head(call).ino] = Head(call).rid]
  /\ call' = <<>>
  /\ UNCHANGED <<file, text, dirty, task, doc, edits>>
  /\ UNCHANGED qvars

(* Otherwise the overwritten document is to be deleted and the moved one   *)
(* to be renamed, in two rows.                                             *)
EnqueueRename ==
  /\ Asked("retarget")
  /\ ~Retargetable(queue[Head(call).path])
  /\ LET r == Head(call)
         move == Ask("rename", r.path, None, r.to, None, r.src)
         over == Ask("delete", r.to, None, None, None, None)
     IN call' = IF r.ino # None THEN <<over, move>> ELSE <<move>>
  /\ UNCHANGED <<file, text, dirty, remote, task, doc, edits>>
  /\ UNCHANGED qvars

Enqueue ==
  /\ call # <<>>
  /\ LET r == Head(call)
         rid == IF r.src = None THEN r.rid ELSE remote[r.src]
     IN /\ r.op \in {"create", "update", "delete", "rename"}
        /\ Upsert(r.path, r.op, r.ino, r.to, rid, r.op \in {"delete", "rename"})
  /\ call' = Tail(call)
  /\ UNCHANGED <<file, text, dirty, remote, task, doc, edits>>

User ==
  \/ \E p \in Path : CreateFile(p) \/ WriteFile(p) \/ Unlink(p)
  \/ \E p, q \in Path : Rename(p, q)
  \/ Flush \/ FollowRename \/ TakeOver \/ EnqueueRename \/ Enqueue
-----------------------------------------------------------------------------
(* The client's requests and what the server, which is external, does with *)
(* them: list by filepath, POST, PATCH, and DELETE by ids.  A POST makes a *)
(* new document, every write starts the processing of its document anew,   *)
(* and content that arrives while a document is processed is dropped.      *)

FreshDocs == {d \in Doc : doc[d] = Unborn}
DocsAt(p) == {d \in Doc : Alive(d) /\ doc[d].path = p}

Posted(p, body, d) ==
  doc' = [doc EXCEPT ![d] = [st |-> "processing", path |-> p, text |-> body]]

Patched(d, p, body) ==
  doc' = [doc EXCEPT ![d] = [st |-> "processing", path |-> p,
                             text |-> IF doc[d].st = "done" THEN body
                                                            ELSE doc[d].text]]

Deleted(D) == doc' = [d \in Doc |-> IF d \in D /\ doc[d].st # "unborn"
                                    THEN [doc[d] EXCEPT !.st = "deleted"]
                                    ELSE doc[d]]

Process(d) ==
  /\ doc[d].st = "processing"
  /\ doc' = [doc EXCEPT ![d].st = "done"]
  /\ UNCHANGED <<file, text, dirty, remote, call, task, edits>>
  /\ UNCHANGED qvars
-----------------------------------------------------------------------------
(* process_job, one action per stretch between two awaits.                 *)

IsContent(k) == job[k].w.op \in {"create", "update"}
At(k, pc) == Busy(k) /\ task[k].pc = pc

Goto(k, pc, body, d) ==
  task' = [task EXCEPT ![k] = [pc |-> pc, body |-> body, doc |-> d]]

(* Slip: the task returns without giving its permit back. *)
QuitKeepsPermit(k) == UNCHANGED task

Quit(k) == task' = [task EXCEPT ![k] = NoTask]

Spawn(p, k) ==
  /\ Claim(p, k)
  /\ Goto(k, "start", 0, None)
  /\ UNCHANGED <<file, text, dirty, remote, call, doc, edits>>

(* Slip: a PATCH does not wait for the processing of an earlier write. *)
ReadContentAtOnce(k) ==
  /\ At(k, "start") /\ IsContent(k)
  /\ LET body == text[job[k].w.ino]
     IN Goto(k, "send", body, IF body \in Binary THEN None ELSE job[k].rid)
  /\ UNCHANGED <<file, text, dirty, remote, call, doc, edits>>
  /\ UNCHANGED qvars

(* Create, update: read the content; binary content ignores the remote id. *)
ReadContent(k) ==
  /\ At(k, "start") /\ IsContent(k)
  /\ LET body == text[job[k].w.ino]
         d == IF body \in Binary THEN None ELSE job[k].rid
     IN Goto(k, IF d = None THEN "send" ELSE "wait", body, d)
  /\ UNCHANGED <<file, text, dirty, remote, call, doc, edits>>
  /\ UNCHANGED qvars

(* Rename: the row's remote id, or the first document the server lists.    *)
FindDocument(k) ==
  /\ At(k, "start") /\ job[k].w.op = "rename"
  /\ \E d \in IF job[k].rid # None THEN {job[k].rid} ELSE DocsAt(job[k].path) :
       Goto(k, "wait", 0, d)
  /\ UNCHANGED <<file, text, dirty, remote, call, doc, edits>>
  /\ UNCHANGED qvars

NothingToRename(k) ==
  /\ At(k, "start") /\ job[k].w.op = "rename"
  /\ job[k].rid = None
  /\ DocsAt(job[k].path) = {}
  /\ Succeed(k) /\ Quit(k)
  /\ UNCHANGED <<file, text, dirty, remote, call, doc, edits>>

(* wait_until_done returns: the document is done or gone, or 30 seconds    *)
(* have passed.  Its callers ignore which of them it was.                  *)
Over(k) == "timeout" \in Faults \/ doc[task[k].doc].st \in {"done", "deleted"}

WaitDone(k) ==
  /\ At(k, "wait")
  /\ Over(k)
  /\ Goto(k, "send", task[k].body, task[k].doc)
  /\ UNCHANGED <<file, text, dirty, remote, call, doc, edits>>
  /\ UNCHANGED qvars

(* A document is made: the server's answer carries its id.                 *)
NewDocument(k) ==
  /\ At(k, "send") /\ task[k].doc = None
  /\ FreshDocs # {}
  /\ LET d == CHOOSE e \in FreshDocs : TRUE
     IN /\ Posted(job[k].path, task[k].body, d)
        /\ Goto(k, "posted", task[k].body, d)
  /\ UNCHANGED <<file, text, dirty, remote, call, edits>>
  /\ UNCHANGED qvars

Post(k) == task[k].body \notin Binary /\ NewDocument(k)

(* Binary content, as a multipart request; what follows its answer, or the *)
(* lack of one, is what follows a POST.                                    *)
Upload(k) == task[k].body \in Binary /\ NewDocument(k)

(* A PATCH of content also states the filepath of the row it came from.    *)
Patch(k) ==
  /\ At(k, "send") /\ Alive(task[k].doc)
  /\ IF IsContent(k)
     THEN Patched(task[k].doc, job[k].path, task[k].body)
     ELSE Patched(task[k].doc, job[k].w.to, doc[task[k].doc].text)
  /\ Goto(k, "settle", task[k].body, task[k].doc)
  /\ UNCHANGED <<file, text, dirty, remote, call, edits>>
  /\ UNCHANGED qvars

(* Slip: a delete without a remote id is taken for done. *)
DeleteByIdOnly(k) ==
  /\ At(k, "start") /\ job[k].w.op = "delete"
  /\ Deleted({job[k].rid})
  /\ Goto(k, "deleted", 0, None)
  /\ UNCHANGED <<file, text, dirty, remote, call, edits>>
  /\ UNCHANGED qvars

Delete(k) ==
  /\ At(k, "start") /\ job[k].w.op = "delete"
  /\ Deleted(IF job[k].rid # None THEN {job[k].rid} ELSE DocsAt(job[k].path))
  /\ Goto(k, "deleted", 0, None)
  /\ UNCHANGED <<file, text, dirty, remote, call, edits>>
  /\ UNCHANGED qvars

(* The answer to a POST binds the inode and the row to the new document.   *)
Bind(k) ==
  /\ At(k, "posted")
  /\ remote' = [remote EXCEPT ![job[k].w.ino] = task[k].doc]
  /\ Stamp(k, task[k].doc)
  /\ Goto(k, "settle", task[k].body, task[k].doc)
  /\ UNCHANGED <<file, text, dirty, call, doc, edits>>

(* A flush has found inode i unbound and, before it enqueues the create,   *)
(* the push of i under way comes to its end.                               *)
Overtakes(k) == call # <<>> /\ Head(call).op = "create"
                /\ Head(call).ino = job[k].w.ino

(* The write has settled: the inode is clean, whatever was written to it   *)
(* since the content was read.                                             *)
Settle(k) ==
  /\ At(k, "settle")
  /\ Over(k)
  /\ Overtakes(k) => "stall" \in Faults
  /\ dirty' = IF IsContent(k) THEN [dirty EXCEPT ![job[k].w.ino] = FALSE]
                              ELSE dirty
  /\ Succeed(k) /\ Quit(k)
  /\ UNCHANGED <<file, text, remote, call, doc, edits>>

FinishDelete(k) ==
  /\ At(k, "deleted")
  /\ Succeed(k) /\ Quit(k)
  /\ UNCHANGED <<file, text, dirty, remote, call, doc, edits>>

(* Slip: a 404 finalizes the row as a success. *)
GoneIsFine(k) ==
  /\ At(k, "send") /\ task[k].doc # None /\ ~Alive(task[k].doc)
  /\ Succeed(k) /\ Quit(k)
  /\ UNCHANGED <<file, text, dirty, remote, call, doc, edits>>

(* 404 to a PATCH: forget the document and come back as a POST; a rename   *)
(* keeps its document and backs off.                                       *)
Gone(k) ==
  /\ At(k, "send") /\ task[k].doc # None /\ ~Alive(task[k].doc)
  /\ IF IsContent(k)
     THEN /\ Clear404(k)
          /\ remote' = [i \in Ino |-> IF remote[i] = task[k].doc
                                      THEN None ELSE remote[i]]
     ELSE Fail(k) /\ UNCHANGED remote
  /\ Quit(k)
  /\ UNCHANGED <<file, text, dirty, call, doc, edits>>

Requesting(k) == At(k, "send") \/ (At(k, "start") /\ ~IsContent(k))

(* Slip: a failed request is not retried. *)
FailRequestGivesUp(k) ==
  /\ "fail" \in Faults
  /\ Requesting(k)
  /\ Succeed(k) /\ Quit(k)
  /\ UNCHANGED <<file, text, dirty, remote, call, doc, edits>>

(* Network error, 401, 409, 429 or 5xx after the client's own retries.     *)
FailRequest(k) ==
  /\ "fail" \in Faults
  /\ Requesting(k)
  /\ Fail(k) /\ Quit(k)
  /\ UNCHANGED <<file, text, dirty, remote, call, doc, edits>>

(* The server acts on a request but its answer does not arrive.            *)
LoseReply(k) ==
  /\ "lost" \in Faults
  /\ At(k, "posted") \/ At(k, "settle") \/ At(k, "deleted")
  /\ Fail(k) /\ Quit(k)
  /\ UNCHANGED <<file, text, dirty, remote, call, doc, edits>>

(* Any other 4xx poisons the row.                                          *)
Reject(k) ==
  /\ Requesting(k)
  /\ Poison(k) /\ Quit(k)
  /\ UNCHANGED <<file, text, dirty, remote, call, doc, edits>>

Worker(k) ==
  \/ \E p \in Path : Spawn(p, k)
  \/ ReadContent(k) \/ FindDocument(k) \/ NothingToRename(k) \/ WaitDone(k)
  \/ Post(k) \/ Upload(k) \/ Patch(k) \/ Delete(k)
  \/ Bind(k) \/ Settle(k) \/ FinishDelete(k) \/ Gone(k)
  \/ FailRequest(k) \/ LoseReply(k) \/ Reject(k)
-----------------------------------------------------------------------------
Delay(p) ==
  /\ Elapse(p)
  /\ UNCHANGED <<file, text, dirty, remote, call, task, doc, edits>>

(* The daemon dies and is mounted again on the same cache.                 *)
Restart ==
  /\ Crash
  /\ call' = <<>>
  /\ task' = [k \in Permit |-> NoTask]
  /\ UNCHANGED <<file, text, dirty, remote, doc, edits>>

Next ==
  \/ User
  \/ \E k \in Permit : Worker(k)
  \/ \E p \in Path : Delay(p)
  \/ \E d \in Doc : Process(d)
  \/ Restart

Spec == Init /\ [][Next]_vars
-----------------------------------------------------------------------------
(* The server has the newest content of the file at p, under its name.     *)
Mirrored(p) == \E d \in DocsAt(p) : doc[d].text = text[file[p]]

(* Some row that the worker may still claim has the content of inode i to  *)
(* send.                                                                   *)
Held(i) ==
  \E q \in Path : ~queue[q].poisoned /\ i \in {queue[q].main.ino, queue[q].pend.ino}

(* The filepaths the server has rejected a write of: push_queue_claim_next *)
(* passes their row over, and no upsert takes the flag back.               *)
Rejected == {p \in Path : queue[p].poisoned}

InCall(i) == \E n \in DOMAIN call : i \in {call[n].ino, call[n].src}

(* The filepaths whose file has content and no call under way.             *)
Saved == {p \in Path : file[p] # None /\ text[file[p]] # 0 /\ ~InCall(file[p])}

Settled(p) == call = <<>> /\ ~Present(queue[p])

(* No edit is forgotten (push.rs: a "durable, coalescing, crash-safe write *)
(* path"): a saved file's newest content is on the server under its name,  *)
(* or a row that the worker may claim will send it.  A rejected filepath   *)
(* is excepted: its row keeps what is written there, and nothing sends it, *)
(* although the error file tells the user to "re-copy the source".         *)
NothingForgotten ==
  \A p \in Saved \ Rejected : Mirrored(p) \/ Held(file[p])

(* An empty queue means that nothing is left to do (README.md: "unmount    *)
(* and drain pending pushes"): the server then has every saved file.       *)
DrainedIsSaved ==
  (\A p \in Path : Settled(p)) => \A p \in Saved : Mirrored(p)

(* rm reaches the server (fs.rs, unlink enqueues a delete): once nothing   *)
(* is queued for the filepath of a removed file, no document has it, also  *)
(* where an earlier file had the name and although requests fail.  It does *)
(* not hold with "stall" or "lost", where a second document of the file is *)
(* left behind, nor with "recreate".                                       *)
RemovedIsGone ==
  \A p \in Path : file[p] = None /\ Settled(p) => DocsAt(p) = {}

(* Only the documents of removed and overwritten files are deleted (fs.rs, *)
(* rename looks the overwritten filepath up because it is "needed to       *)
(* delete overwritten doc from API"): the document that a file in the      *)
(* mount is bound to is never deleted by the program.                      *)
BoundIsAlive ==
  \A p \in Path : file[p] # None /\ remote[file[p]] # None =>
                   doc[remote[file[p]]].st # "deleted"

(* No PATCH reaches a document that the server is still processing, where  *)
(* its content would be dropped (push.rs, wait_until_done: "before we send *)
(* a follow-up write on the same doc we must wait for the previous one to  *)
(* finish").                                                               *)
PatchOnlyDone ==
  [][\A k \in Permit : task[k].pc = "send" /\ task'[k].pc = "settle" =>
        doc[task[k].doc].st = "done"]_vars

(* The dirty flag protects unpushed edits from the pull reconciler         *)
(* (file.rs, write: "mark the inode dirty so the pull reconciler won't     *)
(* clobber local edits while our push is in flight").                      *)
DirtyUntilPushed == \A p \in Saved : Mirrored(p) \/ dirty[file[p]]

(* Every saved file ends up on the server, and stays there (README.md:     *)
(* "Files stored in a mount are durable everywhere").                      *)
Converges == <>[](\A p \in Saved : Mirrored(p))
-----------------------------------------------------------------------------
(* Tasks run to their next await; the server finishes what it processes;   *)
(* a started call finishes; timers fire; due rows are claimed in the order *)
(* they became due, so none is passed over for ever; and the server does   *)
(* not fail or drop the requests for one filepath for ever.                *)
Advance(k) ==
  \/ ReadContent(k) \/ FindDocument(k) \/ NothingToRename(k) \/ WaitDone(k)
  \/ Bind(k) \/ Settle(k) \/ FinishDelete(k)

Answer(k) == Post(k) \/ Upload(k) \/ Patch(k) \/ Delete(k) \/ Gone(k)

Fairness ==
  /\ WF_vars(Flush \/ FollowRename \/ TakeOver \/ EnqueueRename \/ Enqueue)
  /\ \A d \in Doc : WF_vars(Process(d))
  /\ \A k \in Permit : WF_vars(Advance(k))
  /\ \A p \in Path :
       /\ WF_vars(Delay(p))
       /\ SF_vars(\E k \in Permit : Spawn(p, k))
       /\ SF_vars(\E k \in Permit : job[k].path = p /\ Answer(k))
       /\ SF_vars(\E k \in Permit : job[k].path = p /\ (Bind(k) \/ Settle(k)
                                                         \/ FinishDelete(k)))

FairSpec == Spec /\ Fairness
=============================================================================
