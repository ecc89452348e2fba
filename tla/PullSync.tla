------------------------------ MODULE PullSync ------------------------------
(***************************************************************************)
(* What the server knows comes to the local files: the delta pull and the  *)
(* single-document pulls of the hydration worker (sync/pull.rs), what they *)
(* do with a document (reconcile_one in cache/fs.rs), the deletion scan    *)
(* (sync/scan.rs) and the inflight poller (sync/push.rs).  The push worker *)
(* is here only as far as it touches the same files; PushSync has it in    *)
(* full.  A path stands for a directory and a name in it; a text is named  *)
(* by the time of its edit, and the clocks of the two sides agree.         *)
(***************************************************************************)
EXTENDS Naturals, FiniteSets, SequencesExt

CONSTANTS
  File,      \* inodes; a number is used once
  Doc,       \* documents the server may come to hold
  Path,
  None,
  Puller,    \* the tasks that pull single documents
  PageSize,  \* documents on a page of the server's list
  MaxEdits,  \* bound: edits by users, here and elsewhere
  Edits,     \* what is edited, see below
  Hazards    \* what happens beside the loops A and D, see below

Delta == "delta"
Task == {Delta} \cup Puller

(* Edits: "write" local files, "post", "patch", "move" and "delete"        *)
(* documents from elsewhere.  Hazards: "poller" runs loop E, "scan" loop   *)
(* C, "race" lets other tasks run between two locks of reconcile_one or of *)
(* apply_deletion, "resave" lets a file be written while it is pushed,     *)
(* "twins" lets two clients create a document of one path, "shift" lets    *)
(* documents be deleted between two pages of one delta pull.               *)
ASSUME PullAssumption ==
  /\ None \notin File \cup Doc \cup Path
  /\ "removed" \notin Path \cup {None}
  /\ File # {} /\ Path # {} /\ Doc # {} /\ IsFiniteSet(Doc)
  /\ Delta \notin Puller
  /\ MaxEdits \in Nat /\ PageSize \in Nat \ {0}
  /\ Edits \subseteq {"write", "post", "patch", "move", "delete"}
  /\ Hazards \subseteq {"poller", "scan", "race", "resave", "twins", "shift"}

VARIABLES
  file,   \* fs_inode, fs_dentry, fs_data and fs_remote of an inode
  doc,    \* the server's documents (external)
  clock,  \* the time of the last event that has one
  edits,  \* edits made so far
  seen,   \* sync_meta.last_seen_updated_at
  job,    \* a pull under way: the documents of its page that it still has
          \* to reconcile, the pages so far, whether it will ask for more
  push,   \* file -> the push of it that is under way
  scan,   \* the deletion scan under way
  poll    \* the tick of the poller under way

vars == <<file, doc, clock, edits, seen, job, push, scan, poll>>

(* own is kept for LocalWins: the text of the last edit by the user.       *)
NoFile == [path |-> None, text |-> 0, own |-> 0, dirty |-> 0, queued |-> FALSE,
           doc |-> None, mirrored |-> 0, status |-> "none"]
NoDoc == [st |-> "unborn", path |-> None, text |-> 0, upd |-> 0]
NoPush == [doc |-> None, text |-> 0]
NoJob == [todo |-> <<>>, newest |-> 0, page |-> 0, more |-> FALSE, on |-> None]
NoScan == [pc |-> "idle", ids |-> {}, left |-> {}, on |-> None]
NoPoll == [pc |-> "idle", rows |-> {}, processing |-> {}]

(* A document as a page of the list holds it *)
Page == [id : Doc, st : {"processing", "done"}, path : Path, text : Nat, upd : Nat]

Live(f) == file[f].path \in Path
Unused(f) == file[f] = NoFile
At(p) == {f \in File : file[f].path = p}
Bound(d) == {f \in File : Live(f) /\ file[f].doc = d}
Listed == {d \in Doc : doc[d].st \in {"processing", "done"}}

FileRow == [path : Path \cup {None, "removed"}, text : Nat, own : Nat, dirty : Nat,
            queued : BOOLEAN, doc : Doc \cup {None}, mirrored : Nat,
            status : {"none", "processing", "done"}]
DocRow == [st : {"unborn", "processing", "done", "gone"}, path : Path \cup {None},
           text : Nat, upd : Nat]

PullTypeOK ==
  /\ file \in [File -> FileRow]
  /\ \A f, g \in File : f # g /\ Live(f) => file[f].path # file[g].path
  /\ doc \in [Doc -> DocRow]
  /\ clock \in Nat /\ edits \in 0..MaxEdits /\ seen \in Nat
  /\ job \in [Task -> [todo : Seq(Page), newest : Nat, page : Nat, more : BOOLEAN,
                      on : File \cup {None}]]
  /\ push \in [File -> [doc : Doc \cup {None}, text : Nat]]
  /\ scan \in [pc : {"idle", "listed", "remove"}, ids : SUBSET Doc, left : SUBSET Doc,
               on : File \cup {None}]
  /\ poll \in [pc : {"idle", "rows", "ask"}, rows : SUBSET (File \X Doc),
               processing : SUBSET Doc]

(* A new cache, or that of an earlier mount with one file that is synced;  *)
(* which file, path and document makes no difference.                      *)
Init ==
  /\ \E held \in BOOLEAN :
       LET f == CHOOSE f \in File : TRUE
           d == CHOOSE d \in Doc : TRUE
           p == CHOOSE p \in Path : TRUE
       IN /\ file = [g \in File |-> IF held /\ g = f
                       THEN [NoFile EXCEPT !.path = p, !.text = 1, !.doc = d,
                                           !.mirrored = 2, !.status = "done"]
                       ELSE NoFile]
          /\ doc = [e \in Doc |-> IF held /\ e = d
                      THEN [st |-> "done", path |-> p, text |-> 1, upd |-> 2]
                      ELSE NoDoc]
          /\ clock = IF held THEN 2 ELSE 0
          /\ seen = clock
  /\ edits = 0
  /\ job = [t \in Task |-> NoJob]
  /\ push = [f \in File |-> NoPush]
  /\ scan = NoScan
  /\ poll = NoPoll

(* Between two locks of a pull or a scan nothing else happens, if there is *)
(* no "race".                                                              *)
Calm ==
  \/ "race" \in Hazards
  \/ (\A t \in Task : job[t].on = None) /\ scan.on = None

(* The paths a client may create something at. *)
Vacant(p) == "twins" \in Hazards \/ (At(p) = {} /\ \A d \in Listed : doc[d].path # p)

Editing == Calm /\ edits < MaxEdits
Edited == edits' = edits + 1 /\ clock' = clock + 1
-----------------------------------------------------------------------------
(* Local users and the push worker.                                        *)

CreateFile(f, p) ==
  /\ "write" \in Edits /\ Editing
  /\ Unused(f) /\ At(p) = {} /\ Vacant(p)
  /\ Edited
  /\ file' = [file EXCEPT ![f] = [NoFile EXCEPT !.path = p, !.text = clock', !.own = clock',
                                  !.dirty = clock', !.queued = TRUE]]
  /\ UNCHANGED <<doc, seen, job, push, scan, poll>>

WriteFile(f) ==
  /\ "write" \in Edits /\ Editing
  /\ Live(f)
  /\ push[f] = NoPush \/ "resave" \in Hazards
  /\ Edited
  /\ file' = [file EXCEPT ![f].text = clock', ![f].own = clock',
                          ![f].dirty = clock', ![f].queued = TRUE]
  /\ UNCHANGED <<doc, seen, job, push, scan, poll>>

(* process_job reads the content and sends it: a new document, or a PATCH  *)
(* of one that is not being processed.  The answer to a POST binds the     *)
(* file (INSERT OR REPLACE forgets what was mirrored).                     *)
PushSend(f) ==
  /\ Calm /\ Live(f) /\ file[f].queued /\ push[f] = NoPush
  /\ \E d \in Doc :
       /\ IF file[f].doc = None THEN doc[d].st = "unborn"
          ELSE d = file[f].doc /\ doc[d].st = "done"
       /\ clock' = clock + 1
       /\ doc' = [doc EXCEPT ![d] = [st |-> "processing", path |-> file[f].path,
                                     text |-> file[f].text, upd |-> clock']]
       /\ push' = [push EXCEPT ![f] = [doc |-> d, text |-> file[f].text]]
  /\ file' = [file EXCEPT ![f].queued = FALSE]
  /\ UNCHANGED <<edits, seen, job, scan, poll>>

(* Slip: the row is dropped. *)
Push404Drops(f) ==
  /\ Calm /\ Live(f) /\ file[f].queued /\ push[f] = NoPush
  /\ file[f].doc # None /\ doc[file[f].doc].st = "gone"
  /\ file' = [file EXCEPT ![f].queued = FALSE]
  /\ UNCHANGED <<doc, clock, edits, seen, job, push, scan, poll>>

(* A PATCH of a document that is gone is made a POST.                      *)
Push404(f) ==
  /\ Calm /\ Live(f) /\ file[f].queued /\ push[f] = NoPush
  /\ file[f].doc # None /\ doc[file[f].doc].st = "gone"
  /\ file' = [file EXCEPT ![f].doc = None, ![f].mirrored = 0, ![f].status = "none"]
  /\ UNCHANGED <<doc, clock, edits, seen, job, push, scan, poll>>

PushBind(f) ==
  /\ Calm /\ Live(f) /\ push[f] # NoPush /\ file[f].doc # push[f].doc
  /\ file' = [file EXCEPT ![f].doc = push[f].doc, ![f].mirrored = 0,
                          ![f].status = "none"]
  /\ UNCHANGED <<doc, clock, edits, seen, job, push, scan, poll>>

(* Slip: the file stays dirty. *)
PushDoneKeepsDirty(f) ==
  /\ Calm /\ push[f] # NoPush
  /\ ~Live(f) \/ (file[f].doc = push[f].doc /\ doc[push[f].doc].st # "processing")
  /\ push' = [push EXCEPT ![f] = NoPush]
  /\ file' = IF Live(f) THEN [file EXCEPT ![f].status = "done"] ELSE file
  /\ UNCHANGED <<doc, clock, edits, seen, job, scan, poll>>

(* The document is processed: the file counts as clean, whatever was       *)
(* written to it in the meantime.                                          *)
PushDone(f) ==
  /\ Calm /\ push[f] # NoPush
  /\ ~Live(f) \/ (file[f].doc = push[f].doc /\ doc[push[f].doc].st # "processing")
  /\ push' = [push EXCEPT ![f] = NoPush]
  /\ file' = IF Live(f) THEN [file EXCEPT ![f].status = "done", ![f].dirty = 0]
             ELSE file
  /\ UNCHANGED <<doc, clock, edits, seen, job, scan, poll>>
-----------------------------------------------------------------------------
(* The server and its other clients (external).  A document whose          *)
(* processing ends is stamped anew.                                        *)

Process(d) ==
  /\ Calm /\ doc[d].st = "processing"
  /\ clock' = clock + 1
  /\ doc' = [doc EXCEPT ![d].st = "done", ![d].upd = clock']
  /\ UNCHANGED <<file, edits, seen, job, push, scan, poll>>

OtherEdits(d) ==
  /\ Editing /\ Edited
  /\ \E new \in [st : {"processing", "gone"}, path : Path, text : {doc[d].text, clock'},
                 upd : {clock'}] :
       /\ doc' = [doc EXCEPT ![d] = new]
       /\ \/ /\ "post" \in Edits /\ doc[d].st = "unborn"
             /\ new.st = "processing" /\ new.text = clock' /\ Vacant(new.path)
          \/ /\ "patch" \in Edits /\ doc[d].st = "done"
             /\ new.st = "processing" /\ new.text = clock' /\ new.path = doc[d].path
          \/ /\ "move" \in Edits /\ doc[d].st = "done"
             /\ new.st = "processing" /\ new.text = doc[d].text /\ Vacant(new.path)
          \/ /\ "delete" \in Edits /\ doc[d].st = "done"
             /\ new.st = "gone" /\ new.text = doc[d].text /\ new.path = doc[d].path
             /\ job[Delta].more => "shift" \in Hazards
  /\ UNCHANGED <<file, seen, job, push, scan, poll>>
-----------------------------------------------------------------------------
(* The pulls.                                                              *)

Copy(d) == [id |-> d, st |-> doc[d].st, path |-> doc[d].path,
            text |-> doc[d].text, upd |-> doc[d].upd]

(* The pages of these documents, newest first (no two have one stamp). *)
NewestFirst(ds) ==
  {pages \in SetToSeqs({Copy(d) : d \in ds}) :
     \A m, n \in DOMAIN pages : m < n => pages[m].upd > pages[n].upd}

(* Page k of the list, from 0, as the server would answer now.             *)
Ahead(d) == {e \in Listed : doc[e].upd > doc[d].upd}
OnPage(k) == {d \in Listed : Cardinality(Ahead(d)) \in k * PageSize .. k * PageSize + PageSize - 1}

NewerOf(upd, pages) ==
  IF pages # <<>> /\ pages[1].upd > upd THEN pages[1].upd ELSE upd

(* Slip: only the first page is asked for. *)
DeltaListOnePage ==
  LET new == {d \in OnPage(0) : doc[d].upd > seen}
  IN /\ Calm /\ job[Delta] = NoJob /\ new # {}
     /\ \E pages \in NewestFirst(new) :
          job' = [job EXCEPT ![Delta] = [todo |-> pages, newest |-> pages[1].upd, page |-> 1,
                                         more |-> FALSE, on |-> None]]
     /\ UNCHANGED <<file, doc, clock, edits, seen, push, scan, poll>>

(* delta_pull: the next page, down to the watermark.  Other tasks run      *)
(* while it is asked for and between its documents.                        *)
DeltaList ==
  LET j == job[Delta]
      here == OnPage(j.page)
      new == {d \in here : doc[d].upd > seen}
  IN /\ Calm /\ j.todo = <<>>
     /\ IF j = NoJob THEN new # {} ELSE j.more
     /\ \E pages \in NewestFirst(new) :
          job' = [job EXCEPT ![Delta] =
            [todo |-> pages, newest |-> NewerOf(j.newest, pages), page |-> j.page + 1,
             more |-> new = here /\ (j.page + 1) * PageSize < Cardinality(Listed),
             on |-> None]]
     /\ UNCHANGED <<file, doc, clock, edits, seen, push, scan, poll>>

DeltaEnd ==
  /\ Calm /\ job[Delta].newest # 0 /\ job[Delta].todo = <<>> /\ ~job[Delta].more
  /\ seen' = job[Delta].newest
  /\ job' = [job EXCEPT ![Delta] = NoJob]
  /\ UNCHANGED <<file, doc, clock, edits, push, scan, poll>>

(* hydrate_path: the document of one path, whatever the watermark.         *)
HydrateGet(t, d) ==
  /\ Calm /\ job[t] = NoJob /\ d \in Listed
  /\ job' = [job EXCEPT ![t].todo = <<Copy(d)>>]
  /\ UNCHANGED <<file, doc, clock, edits, seen, push, scan, poll>>

Current(t) == Head(job[t].todo)
HasPage(t) == job[t].todo # <<>> /\ job[t].on = None
Advance(t) == job' = [job EXCEPT ![t].todo = Tail(@), ![t].on = None]

LocalNewer(f, c) == file[f].dirty > c.upd
Mirrored(f, c) == file[f].mirrored >= c.upd /\ c.st = "done"

(* A document that some file is bound to is skipped, or moved and then     *)
(* mirrored.  A taken path makes the move fail.                            *)
Skip(t, f) ==
  /\ Calm /\ HasPage(t) /\ f \in Bound(Current(t).id)
  /\ \/ LocalNewer(f, Current(t))
     \/ Mirrored(f, Current(t))
     \/ At(Current(t).path) \notin {{}, {f}}
  /\ Advance(t)
  /\ UNCHANGED <<file, doc, clock, edits, seen, push, scan, poll>>

(* Slip: a local edit that is newer does not stop the pull. *)
TakeAnyway(t, f) ==
  LET c == Current(t)
  IN /\ Calm /\ HasPage(t) /\ f \in Bound(c.id)
     /\ ~Mirrored(f, c)
     /\ At(c.path) \in {{}, {f}}
     /\ file' = [file EXCEPT ![f].path = c.path]
     /\ job' = [job EXCEPT ![t].on = f]
     /\ UNCHANGED <<doc, clock, edits, seen, push, scan, poll>>

Take(t, f) ==
  LET c == Current(t)
  IN /\ Calm /\ HasPage(t) /\ f \in Bound(c.id)
     /\ ~LocalNewer(f, c) /\ ~Mirrored(f, c)
     /\ At(c.path) \in {{}, {f}}
     /\ file' = [file EXCEPT ![f].path = c.path]
     /\ job' = [job EXCEPT ![t].on = f]
     /\ UNCHANGED <<doc, clock, edits, seen, push, scan, poll>>

(* Slip: what was not mirrored, for want of content, counts as mirrored. *)
MirrorStatusOnly(t) ==
  LET c == Current(t)
      f == job[t].on
  IN /\ f # None
     /\ file' = IF ~Live(f) THEN file
                ELSE [file EXCEPT ![f].mirrored = c.upd, ![f].status = c.st]
     /\ Advance(t)
     /\ UNCHANGED <<doc, clock, edits, seen, push, scan, poll>>

(* Content and mirrored_updated_at only of a document that is processed.   *)
Mirror(t) ==
  LET c == Current(t)
      f == job[t].on
  IN /\ f # None
     /\ file' = IF ~Live(f) THEN file
                ELSE IF c.st = "done"
                THEN [file EXCEPT ![f].text = c.text, ![f].mirrored = c.upd,
                                  ![f].status = "done"]
                ELSE [file EXCEPT ![f].status = c.st]
     /\ Advance(t)
     /\ UNCHANGED <<doc, clock, edits, seen, push, scan, poll>>

Defer(t) ==
  /\ Calm /\ HasPage(t) /\ Bound(Current(t).id) = {} /\ Current(t).st # "done"
  /\ Advance(t)
  /\ UNCHANGED <<file, doc, clock, edits, seen, push, scan, poll>>

(* A file of that path takes the document over, its text as well unless    *)
(* its own is newer; a queued push of it will PATCH.                       *)
AttachFile(t, f) ==
  LET c == Current(t)
      bound == [file[f] EXCEPT !.doc = c.id, !.mirrored = 0, !.status = "none"]
  IN /\ Calm /\ HasPage(t) /\ Bound(c.id) = {} /\ c.st = "done"
     /\ file[f].path = c.path
     /\ file' = [file EXCEPT ![f] =
                   IF LocalNewer(f, c) THEN bound
                   ELSE [bound EXCEPT !.text = c.text, !.mirrored = c.upd,
                                      !.status = "done"]]
     /\ Advance(t)
     /\ UNCHANGED <<doc, clock, edits, seen, push, scan, poll>>

(* Slip: a name that is taken is taken again. *)
CreateLocalTwice(t, f) ==
  LET c == Current(t)
  IN /\ Calm /\ HasPage(t) /\ Bound(c.id) = {} /\ c.st = "done"
     /\ Unused(f)
     /\ file' = [file EXCEPT ![f] = [NoFile EXCEPT !.path = c.path, !.text = c.text,
                                     !.doc = c.id, !.mirrored = c.upd,
                                     !.status = "done"]]
     /\ Advance(t)
     /\ UNCHANGED <<doc, clock, edits, seen, push, scan, poll>>

CreateLocal(t, f) ==
  LET c == Current(t)
  IN /\ Calm /\ HasPage(t) /\ Bound(c.id) = {} /\ c.st = "done"
     /\ At(c.path) = {} /\ Unused(f)
     /\ file' = [file EXCEPT ![f] = [NoFile EXCEPT !.path = c.path, !.text = c.text,
                                     !.doc = c.id, !.mirrored = c.upd,
                                     !.status = "done"]]
     /\ Advance(t)
     /\ UNCHANGED <<doc, clock, edits, seen, push, scan, poll>>

Reconcile(t) ==
  \/ Mirror(t) \/ Defer(t)
  \/ \E f \in File : Skip(t, f) \/ Take(t, f) \/ AttachFile(t, f) \/ CreateLocal(t, f)
-----------------------------------------------------------------------------
(* The deletion scan: the ids of the server, then the local ones, then the *)
(* files whose id the server did not name.                                 *)

ScanList ==
  /\ "scan" \in Hazards /\ Calm /\ scan.pc = "idle"
  /\ scan' = [NoScan EXCEPT !.pc = "listed", !.ids = Listed]
  /\ UNCHANGED <<file, doc, clock, edits, seen, job, push, poll>>

ScanCompare ==
  /\ scan.pc = "listed" /\ Calm
  /\ scan' = [scan EXCEPT !.pc = "remove", !.ids = {},
                !.left = {file[f].doc : f \in {g \in File : Live(g)}} \ (scan.ids \cup {None})]
  /\ UNCHANGED <<file, doc, clock, edits, seen, job, push, poll>>

(* apply_deletion spares what is dirty.                                    *)
ScanCheck(d) ==
  /\ scan.pc = "remove" /\ scan.on = None /\ Calm
  /\ d \in scan.left
  /\ LET clean == {f \in Bound(d) : file[f].dirty = 0}
     IN scan' = [scan EXCEPT !.left = @ \ {d},
                   !.on = IF clean = {} THEN None ELSE CHOOSE f \in clean : TRUE]
  /\ UNCHANGED <<file, doc, clock, edits, seen, job, push, poll>>

ScanRemove ==
  /\ scan.on # None
  /\ file' = [file EXCEPT ![scan.on] = [NoFile EXCEPT !.path = "removed"]]
  /\ scan' = [scan EXCEPT !.on = None]
  /\ UNCHANGED <<doc, clock, edits, seen, job, push, poll>>

ScanEnd ==
  /\ scan.pc = "remove" /\ scan.on = None /\ scan.left = {}
  /\ scan' = NoScan
  /\ UNCHANGED <<file, doc, clock, edits, seen, job, push, poll>>
-----------------------------------------------------------------------------
(* The poller: the rows not known to be done, the documents in processing, *)
(* then a GET for each row that is not among them.                         *)

PollRows ==
  /\ "poller" \in Hazards /\ Calm /\ poll.pc = "idle"
  /\ LET rows == {<<f, file[f].doc>> : f \in {g \in File : Live(g) /\ file[g].doc # None
                                              /\ file[g].status # "done"}}
     IN /\ rows # {}
        /\ poll' = [NoPoll EXCEPT !.pc = "rows", !.rows = rows]
  /\ UNCHANGED <<file, doc, clock, edits, seen, job, push, scan>>

PollList ==
  /\ poll.pc = "rows" /\ Calm
  /\ poll' = [poll EXCEPT !.pc = "ask",
                          !.processing = {d \in Doc : doc[d].st = "processing"}]
  /\ UNCHANGED <<file, doc, clock, edits, seen, job, push, scan>>

PollAsk(f, d) ==
  /\ poll.pc = "ask" /\ Calm /\ <<f, d>> \in poll.rows
  /\ file' = IF ~Live(f) \/ file[f].doc = None THEN file
             ELSE IF d \in poll.processing
             THEN [file EXCEPT ![f].status = "processing"]
             ELSE IF doc[d].st = "done"
             THEN [file EXCEPT ![f].status = "done", ![f].mirrored = doc[d].upd]
             ELSE IF doc[d].st = "gone"
             THEN [file EXCEPT ![f].doc = None, ![f].mirrored = 0, ![f].status = "none"]
             ELSE [file EXCEPT ![f].status = doc[d].st]
  /\ poll' = IF poll.rows = {<<f, d>>} THEN NoPoll
             ELSE [poll EXCEPT !.rows = @ \ {<<f, d>>}]
  /\ UNCHANGED <<doc, clock, edits, seen, job, push, scan>>
-----------------------------------------------------------------------------
PushStep(f) == PushSend(f) \/ Push404(f) \/ PushBind(f) \/ PushDone(f)
ScanStep == ScanList \/ ScanCompare \/ (\E d \in Doc : ScanCheck(d)) \/ ScanRemove \/ ScanEnd
PollStep == PollRows \/ PollList \/ (\E f \in File, d \in Doc : PollAsk(f, d))

Next ==
  \/ \E f \in File : WriteFile(f) \/ PushStep(f) \/ \E p \in Path : CreateFile(f, p)
  \/ \E d \in Doc : Process(d) \/ OtherEdits(d)
  \/ DeltaList \/ DeltaEnd
  \/ \E t \in Puller, d \in Doc : HydrateGet(t, d)
  \/ \E t \in Task : Reconcile(t)
  \/ ScanStep \/ PollStep

Spec == Init /\ [][Next]_vars

(* The tasks run until they have no more to do: the loops have timers, the *)
(* server processes what it holds.                                         *)
Fairness ==
  /\ \A f \in File : WF_vars(PushStep(f))
  /\ \A d \in Doc : WF_vars(Process(d))
  /\ WF_vars(DeltaList) /\ WF_vars(DeltaEnd)
  /\ \A t \in Task : WF_vars(Reconcile(t))
  /\ WF_vars(ScanList) /\ WF_vars(ScanCompare) /\ WF_vars(\E d \in Doc : ScanCheck(d))
  /\ WF_vars(ScanRemove) /\ WF_vars(ScanEnd)
  /\ WF_vars(PollStep)

FairSpec == Spec /\ Fairness
-----------------------------------------------------------------------------
Quiet(f) == file[f].dirty = 0 /\ ~file[f].queued /\ push[f] = NoPush

(* A clean file whose mirrored_updated_at is the document's updatedAt      *)
(* shows the document's text (cache/fs.rs: "we also only advance           *)
(* mirrored_updated_at when we actually mirrored content").                *)
MirroredIsShown ==
  \A f \in File : \A d \in Doc :
    Live(f) /\ file[f].doc = d /\ doc[d].st = "done" /\ file[f].mirrored = doc[d].upd
    /\ Quiet(f) => file[f].text = doc[d].text

(* What the watermark has passed is here or is on its way: a processed     *)
(* document that is not newer than the watermark has a file that shows it, *)
(* or one with an edit of its own that will be pushed.                     *)
WatermarkSound ==
  job[Delta] = NoJob =>
    \A d \in Doc : doc[d].st = "done" /\ doc[d].upd <= seen =>
      \E f \in Bound(d) : file[f].text = doc[d].text \/ ~Quiet(f)

(* A file is removed only when its document was deleted (sync/scan.rs:     *)
(* "local inodes that were unlinked because their remote_id disappeared    *)
(* from the server").                                                      *)
ScanSpares ==
  [][\A f \in File : Live(f) /\ ~Live(f)' /\ file[f].doc # None =>
       doc[file[f].doc].st = "gone"]_vars

(* No pull or scan removes an edit that still waits for its push, or       *)
(* replaces it with a version of the document that is older (cache/fs.rs:  *)
(* "Local write is newer - defer to push queue, don't clobber").           *)
LocalWins ==
  [][\A f \in File : Live(f) /\ file[f].queued /\ file[f].text = file[f].own
       /\ file'[f].text # file[f].text /\ edits' = edits =>
         Live(f)' /\ file[f].text < file'[f].mirrored]_vars

(* When the edits end, every document has a file that shows its text, and  *)
(* every file is clean.                                                    *)
Settled ==
  /\ \A d \in Doc : doc[d].st = "done" =>
       \E f \in Bound(d) : file[f].text = doc[d].text
  /\ \A f \in File : Live(f) => file[f].dirty = 0

Converges == <>[]Settled

(* No file stays bound to a document that was deleted: it is removed, or   *)
(* its edit makes a document of its own.                                   *)
GoneIsUnbound == \A d \in Doc : [](doc[d].st = "gone" => <>(Bound(d) = {}))
=============================================================================
