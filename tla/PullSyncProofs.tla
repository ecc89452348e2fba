--------------------------- MODULE PullSyncProofs ---------------------------
(***************************************************************************)
(* What the pulls, the scan, the poller and the push worker do to the      *)
(* files keeps them typed and apart, shows what counts as mirrored, spares *)
(* the edits that wait for their push and loses nothing that the watermark *)
(* has passed, for every set of files, documents, paths and pulling tasks  *)
(* and any number of edits.                                                *)
(***************************************************************************)
EXTENDS PullSync, FiniteSetTheorems, TLAPS

(***************************************************************************)
(* The invariant.  The server's stamps are its own: a page a pull still    *)
(* holds is a version of its document, and no other document ever has its  *)
(* time.                                                                   *)
(***************************************************************************)
Stamped ==
  /\ \A d \in Doc : IF doc[d].st = "unborn" THEN doc[d].upd = 0
                    ELSE doc[d].upd \in 1..clock
  /\ \A d \in Doc : doc[d].st \in {"processing", "done"} => doc[d].path \in Path
  /\ \A d, e \in Doc : doc[d].upd = doc[e].upd /\ doc[d].upd # 0 => d = e

VersionOf(c) ==
  /\ c.upd \in 1..clock /\ doc[c.id].st # "unborn"
  /\ \A e \in Doc : doc[e].upd = c.upd => e = c.id /\ doc[e].text = c.text

PagesAreVersions ==
  \A t \in Task : \A k \in 1..Len(job[t].todo) : VersionOf(job[t].todo[k])

(* What a file, a push or the poller names was created. *)
Born ==
  /\ \A f \in File : file[f].doc # None => doc[file[f].doc].st # "unborn"
  /\ \A f \in File : push[f].doc # None => doc[push[f].doc].st # "unborn"
  /\ \A f \in File : push[f] # NoPush => push[f].doc # None
  /\ \A r \in poll.rows : doc[r[2]].st # "unborn"

Past == \A f \in File : file[f].mirrored <= clock /\ file[f].own <= clock

HoldsPage == \A t \in Task : job[t].on # None => job[t].todo # <<>>

PullInv ==
  /\ PullTypeOK /\ Stamped /\ PagesAreVersions /\ Born /\ Past /\ HoldsPage

(* What is mirrored is the text, or was written over since. *)
Shown ==
  \A f \in File : \A d \in Doc :
    Live(f) /\ file[f].doc = d /\ doc[d].st = "done" /\ file[f].mirrored = doc[d].upd =>
      file[f].text = doc[d].text \/ file[f].queued

ShownInv == PullInv /\ Shown

(* One file at a time is between two locks, and nothing else happens then. *)
OneLocked ==
  /\ \A t, u \in Task : job[t].on # None /\ job[u].on # None => t = u
  /\ \A t \in Task : job[t].on # None => scan.on = None

LockedIsClean ==
  /\ \A t \in Task : job[t].on # None =>
       Live(job[t].on) /\ file[job[t].on].dirty <= job[t].todo[1].upd
  /\ scan.on # None => file[scan.on].dirty = 0

(* A push that is under way sends the newest text, and the time of an edit *)
(* that waits is known.                                                    *)
Waits(row, sent) ==
  /\ sent # NoPush => ~row.queued /\ row.path # None
  /\ row.queued => row.dirty = row.own /\ row.own # 0

WaitingIsDirty == \A f \in File : Waits(file[f], push[f])

(* No version has the time of an edit. *)
Stamps == {doc[d].upd : d \in Doc}
          \cup UNION {{job[t].todo[k].upd : k \in 1..Len(job[t].todo)} : t \in Task}

OwnTimes == \A f \in File : file[f].own # 0 => file[f].own \notin Stamps

WaitInv ==
  /\ PullInv
  /\ OneLocked /\ LockedIsClean /\ WaitingIsDirty /\ OwnTimes
-----------------------------------------------------------------------------
(***************************************************************************)
(* The documents: stamps only grow, and a page stays a version.            *)
(***************************************************************************)
Grows ==
  /\ clock' \in Nat /\ clock <= clock'
  /\ \A e \in Doc : doc[e].st # "unborn" => doc'[e].st # "unborn"

(* No event: time, documents and pulls are as they were, or only time is not. *)
LEMMA Later ==
  ASSUME PullInv, UNCHANGED <<doc, job>>, clock' \in {clock, clock + 1}
  PROVE  Grows /\ Stamped' /\ PagesAreVersions' /\ HoldsPage'
<1>1. clock \in Nat /\ doc \in [Doc -> DocRow]
  BY DEF PullInv, PullTypeOK
<1>2. Grows
  BY <1>1 DEF Grows
<1>3. Stamped'
  BY <1>1 DEF PullInv, Stamped, DocRow
<1>4. PagesAreVersions'
  <2> SUFFICES ASSUME NEW t \in Task, NEW k \in 1..Len(job[t].todo)
               PROVE  VersionOf(job[t].todo[k])'
    BY DEF PagesAreVersions
  <2> QED
    BY <1>1 DEF PullInv, PagesAreVersions, VersionOf
<1> QED
  BY <1>2, <1>3, <1>4 DEF PullInv, HoldsPage

(* A document is stamped: no page is of its new time. *)
LEMMA Stamping ==
  ASSUME PullInv, UNCHANGED job, clock' = clock + 1,
         NEW d \in Doc, NEW new \in DocRow, doc' = [doc EXCEPT ![d] = new],
         new.st # "unborn", new.upd = clock',
         new.st \in {"processing", "done"} => new.path \in Path
  PROVE  Grows /\ doc' \in [Doc -> DocRow]
         /\ Stamped' /\ PagesAreVersions' /\ HoldsPage'
<1>1. clock \in Nat /\ doc \in [Doc -> DocRow]
  BY DEF PullInv, PullTypeOK
<1>2. doc' \in [Doc -> DocRow] /\ doc'[d] = new /\ \A e \in Doc \ {d} : doc'[e] = doc[e]
  BY <1>1
<1>3. Grows
  BY <1>1, <1>2 DEF Grows
<1>4. \A e \in Doc : doc[e].upd \in Nat /\ doc[e].upd <= clock
  BY <1>1 DEF PullInv, Stamped, DocRow
<1>5. Stamped'
  <2>1. \A e \in Doc : IF doc'[e].st = "unborn" THEN doc'[e].upd = 0
                       ELSE doc'[e].upd \in 1..clock'
    <3> TAKE e \in Doc
    <3>1. CASE e = d
      BY <3>1, <1>1, <1>2
    <3>2. CASE e # d
      BY <3>2, <1>1, <1>2 DEF PullInv, Stamped
    <3> QED
      BY <3>1, <3>2
  <2>2. \A e \in Doc : doc'[e].st \in {"processing", "done"} => doc'[e].path \in Path
    BY <1>2 DEF PullInv, Stamped
  <2>3. \A e, g \in Doc : doc'[e].upd = doc'[g].upd /\ doc'[e].upd # 0 => e = g
    <3> TAKE e, g \in Doc
    <3>1. CASE e # d /\ g # d
      BY <3>1, <1>2 DEF PullInv, Stamped
    <3>2. CASE e = d \/ g = d
      BY <3>2, <1>1, <1>2, <1>4
    <3> QED
      BY <3>1, <3>2
  <2> QED
    BY <2>1, <2>2, <2>3 DEF Stamped
<1>6. PagesAreVersions'
  <2> SUFFICES ASSUME NEW t \in Task, NEW k \in 1..Len(job[t].todo)
               PROVE  VersionOf(job[t].todo[k])'
    BY DEF PagesAreVersions
  <2> DEFINE c == job[t].todo[k]
  <2>1. VersionOf(c) /\ c \in Page
    BY DEF PullInv, PullTypeOK, PagesAreVersions
  <2>2. c.id \in Doc
    BY <2>1 DEF Page
  <2>3. c.upd \in 1..clock' /\ doc'[c.id].st # "unborn"
    BY <2>1, <2>2, <1>1, <1>2 DEF VersionOf
  <2>4. \A e \in Doc : doc'[e].upd = c.upd => e = c.id /\ doc'[e].text = c.text
    <3> TAKE e \in Doc
    <3>1. CASE e = d
      BY <3>1, <2>1, <1>1, <1>2 DEF VersionOf
    <3>2. CASE e # d
      BY <3>2, <2>1, <1>2 DEF VersionOf
    <3> QED
      BY <3>1, <3>2
  <2> QED
    BY <2>3, <2>4 DEF VersionOf
<1> QED
  BY <1>2, <1>3, <1>5, <1>6 DEF PullInv, HoldsPage
-----------------------------------------------------------------------------
(***************************************************************************)
(* The files: one of them changes.                                         *)
(***************************************************************************)
FilesOK ==
  /\ file \in [File -> FileRow]
  /\ \A f, g \in File : f # g /\ Live(f) => file[f].path # file[g].path
  /\ Past
  /\ \A f \in File : file[f].doc # None => doc[file[f].doc].st # "unborn"

LEMMA FilesKept ==
  ASSUME PullInv, Grows, UNCHANGED file
  PROVE  FilesOK'
<1>1. /\ file \in [File -> FileRow] /\ clock \in Nat
      /\ \A f, g \in File : f # g /\ Live(f) => file[f].path # file[g].path
  BY DEF PullInv, PullTypeOK
<1>2. \A f \in File : /\ file[f].mirrored \in Nat /\ file[f].own \in Nat
                      /\ file[f].doc \in Doc \cup {None}
  BY <1>1 DEF FileRow
<1>3. Past'
  BY <1>1, <1>2 DEF PullInv, Past, Grows
<1>4. \A f \in File : file[f].doc # None => doc'[file[f].doc].st # "unborn"
  BY <1>2 DEF PullInv, Born, Grows
<1> QED
  BY <1>1, <1>3, <1>4 DEF FilesOK, Live

LEMMA OneFileChanges ==
  ASSUME PullInv, Grows, NEW f \in File, NEW new \in FileRow,
         file' = [file EXCEPT ![f] = new],
         new.path \in Path => \A g \in File \ {f} : file[g].path # new.path,
         new.mirrored <= clock', new.own <= clock',
         new.doc # None => doc'[new.doc].st # "unborn"
  PROVE  FilesOK'
<1>1. /\ file \in [File -> FileRow] /\ clock \in Nat
      /\ \A g, h \in File : g # h /\ Live(g) => file[g].path # file[h].path
  BY DEF PullInv, PullTypeOK
<1>2. /\ file' \in [File -> FileRow] /\ file'[f] = new
      /\ \A g \in File \ {f} : file'[g] = file[g]
  BY <1>1
<1>3. \A g \in File : /\ file[g].mirrored \in Nat /\ file[g].own \in Nat
                      /\ file[g].doc \in Doc \cup {None}
  BY <1>1 DEF FileRow
<1>4. \A g, h \in File : g # h /\ Live(g)' => file'[g].path # file'[h].path
  <2> SUFFICES ASSUME NEW g \in File, NEW h \in File, g # h, file'[g].path \in Path
               PROVE  file'[g].path # file'[h].path
    BY DEF Live
  <2>1. CASE g = f
    BY <2>1, <1>2
  <2>2. CASE h = f
    BY <2>2, <1>2
  <2>3. CASE g # f /\ h # f
    BY <2>3, <1>1, <1>2 DEF Live
  <2> QED
    BY <2>1, <2>2, <2>3
<1>5. Past'
  <2> SUFFICES ASSUME NEW g \in File
               PROVE  file'[g].mirrored <= clock' /\ file'[g].own <= clock'
    BY DEF Past
  <2>1. CASE g = f
    BY <2>1, <1>2
  <2>2. CASE g # f
    BY <2>2, <1>1, <1>2, <1>3 DEF PullInv, Past, Grows
  <2> QED
    BY <2>1, <2>2
<1>6. \A g \in File : file'[g].doc # None => doc'[file'[g].doc].st # "unborn"
  <2> TAKE g \in File
  <2>1. CASE g = f
    BY <2>1, <1>2
  <2>2. CASE g # f
    BY <2>2, <1>2, <1>3 DEF PullInv, Born, Grows
  <2> QED
    BY <2>1, <2>2
<1> QED
  BY <1>2, <1>4, <1>5, <1>6 DEF FilesOK
-----------------------------------------------------------------------------
(***************************************************************************)
(* The rest of the state.                                                  *)
(***************************************************************************)
JobRow == [todo : Seq(Page), newest : Nat, page : Nat, more : BOOLEAN, on : File \cup {None}]
ScanRow == [pc : {"idle", "listed", "remove"}, ids : SUBSET Doc, left : SUBSET Doc,
            on : File \cup {None}]
PollRow == [pc : {"idle", "rows", "ask"}, rows : SUBSET (File \X Doc),
            processing : SUBSET Doc]

LoopsOK ==
  /\ edits \in 0..MaxEdits /\ seen \in Nat
  /\ job \in [Task -> JobRow] /\ scan \in ScanRow /\ poll \in PollRow

PushOK ==
  /\ push \in [File -> [doc : Doc \cup {None}, text : Nat]]
  /\ \A f \in File : push[f].doc # None => doc[push[f].doc].st # "unborn"
  /\ \A f \in File : push[f] # NoPush => push[f].doc # None

RowsBorn == \A r \in poll.rows : doc[r[2]].st # "unborn"

LEMMA Parts ==
  ASSUME PullInv
  PROVE  /\ FilesOK /\ LoopsOK /\ PushOK /\ RowsBorn
         /\ doc \in [Doc -> DocRow] /\ clock \in Nat
         /\ Stamped /\ PagesAreVersions /\ HoldsPage
BY DEF PullInv, PullTypeOK, Born, FilesOK, LoopsOK, PushOK, RowsBorn, JobRow, ScanRow,
       PollRow

LEMMA Whole ==
  ASSUME FilesOK', LoopsOK', PushOK', RowsBorn', doc' \in [Doc -> DocRow], Grows,
         Stamped', PagesAreVersions', HoldsPage'
  PROVE  PullInv'
BY DEF PullInv, PullTypeOK, Born, FilesOK, LoopsOK, PushOK, RowsBorn, JobRow, ScanRow,
       PollRow, Grows

LEMMA PushKept ==
  ASSUME PullInv, Grows, UNCHANGED push
  PROVE  PushOK'
BY Parts DEF PushOK, Grows

LEMMA RowsKept ==
  ASSUME PullInv, Grows, UNCHANGED poll
  PROVE  RowsBorn'
BY Parts DEF RowsBorn, Grows, LoopsOK, PollRow

LEMMA FileIsRow ==
  ASSUME PullInv, NEW f \in File
  PROVE  /\ file[f] \in FileRow /\ file[f].doc \in Doc \cup {None}
         /\ file[f].text \in Nat /\ file[f].own \in Nat /\ file[f].dirty \in Nat
         /\ file[f].mirrored \in Nat /\ file[f].mirrored <= clock /\ file[f].own <= clock
         /\ file[f].doc # None => doc[file[f].doc].st # "unborn"
         /\ file[f].path \in Path => \A g \in File \ {f} : file[g].path # file[f].path
<1>1. file[f] \in FileRow
  BY Parts DEF FilesOK
<1> QED
  BY <1>1, Parts DEF FilesOK, FileRow, Past, Live

LEMMA NamesApart == None \notin Path /\ None \notin Doc /\ "removed" \notin Path
                    /\ "removed" # None /\ None \notin File /\ MaxEdits \in Nat
BY PullAssumption

LEMMA NewFile ==
  /\ NoFile \in FileRow /\ NoFile.mirrored = 0 /\ NoFile.own = 0 /\ NoFile.doc = None
BY DEF NoFile, FileRow

(* Users and the push worker. *)
LEMMA CreateFileInv ==
  ASSUME PullInv, NEW f \in File, NEW p \in Path, CreateFile(f, p)
  PROVE  PullInv'
<1> DEFINE new == [NoFile EXCEPT !.path = p, !.text = clock', !.own = clock',
                                 !.dirty = clock', !.queued = TRUE]
<1>1. /\ clock \in Nat /\ clock' = clock + 1 /\ clock' \in Nat /\ UNCHANGED <<doc, job>>
      /\ edits < MaxEdits /\ edits' = edits + 1
      /\ file' = [file EXCEPT ![f] = new] /\ At(p) = {}
  BY Parts DEF CreateFile, Edited, Editing
<1>2. Grows /\ Stamped' /\ PagesAreVersions' /\ HoldsPage'
  BY <1>1, Later
<1>3. FilesOK'
  <2>1. new \in FileRow /\ new.path = p /\ new.mirrored = 0 /\ new.own = clock'
        /\ new.doc = None
    BY <1>1, NewFile DEF NoFile, FileRow
  <2>2. \A g \in File \ {f} : file[g].path # p
    BY <1>1 DEF At
  <2>3. new.mirrored <= clock' /\ new.own <= clock'
    BY <1>1, <2>1
  <2> QED
    BY <1>1, <1>2, <2>1, <2>2, <2>3, OneFileChanges
<1>4. PushOK' /\ RowsBorn'
  BY <1>2, PushKept, RowsKept DEF CreateFile
<1>5. LoopsOK'
  BY <1>1, Parts, NamesApart DEF CreateFile, LoopsOK
<1> QED
  BY <1>1, <1>2, <1>3, <1>4, <1>5, Parts, Whole

LEMMA WriteFileInv ==
  ASSUME PullInv, NEW f \in File, WriteFile(f)
  PROVE  PullInv'
<1> DEFINE new == [file[f] EXCEPT !.text = clock', !.own = clock', !.dirty = clock',
                                  !.queued = TRUE]
<1>1. /\ clock \in Nat /\ clock' = clock + 1 /\ clock' \in Nat /\ UNCHANGED <<doc, job>>
      /\ edits < MaxEdits /\ edits' = edits + 1
  BY Parts DEF WriteFile, Edited, Editing
<1>2. Grows /\ Stamped' /\ PagesAreVersions' /\ HoldsPage'
  BY <1>1, Later
<1>3. FilesOK'
  <2>1. file' = [file EXCEPT ![f] = new]
    BY FileIsRow, Parts DEF WriteFile, FilesOK, FileRow
  <2>2. new \in FileRow /\ new.path = file[f].path /\ new.mirrored = file[f].mirrored
        /\ new.own = clock' /\ new.doc = file[f].doc
    BY <1>1, FileIsRow DEF FileRow
  <2>3. new.mirrored <= clock' /\ new.own <= clock'
    BY <1>1, <2>2, FileIsRow
  <2>4. /\ new.path \in Path => \A g \in File \ {f} : file[g].path # new.path
        /\ new.doc # None => doc'[new.doc].st # "unborn"
    BY <1>1, <2>2, FileIsRow
  <2> QED
    BY <1>2, <2>1, <2>2, <2>3, <2>4, OneFileChanges
<1>4. PushOK' /\ RowsBorn'
  BY <1>2, PushKept, RowsKept DEF WriteFile
<1>5. LoopsOK'
  BY <1>1, Parts, NamesApart DEF WriteFile, LoopsOK
<1> QED
  BY <1>1, <1>2, <1>3, <1>4, <1>5, Parts, Whole

LEMMA PushSendInv ==
  ASSUME PullInv, NEW f \in File, PushSend(f)
  PROVE  PullInv'
<1>1. PICK d \in Doc :
        /\ clock' = clock + 1
        /\ doc' = [doc EXCEPT ![d] = [st |-> "processing", path |-> file[f].path,
                                      text |-> file[f].text, upd |-> clock']]
        /\ push' = [push EXCEPT ![f] = [doc |-> d, text |-> file[f].text]]
  BY DEF PushSend
<1> DEFINE sent == [st |-> "processing", path |-> file[f].path, text |-> file[f].text,
                    upd |-> clock']
           new == [file[f] EXCEPT !.queued = FALSE]
<1>2. /\ clock \in Nat /\ UNCHANGED <<job, edits, seen, scan, poll>>
      /\ file' = [file EXCEPT ![f].queued = FALSE] /\ file[f].path \in Path
  BY Parts DEF PushSend, Live
<1>3. sent \in DocRow /\ sent.st = "processing" /\ sent.upd = clock' /\ sent.path \in Path
  BY <1>1, <1>2, FileIsRow DEF DocRow
<1>4. Grows /\ doc' \in [Doc -> DocRow] /\ Stamped' /\ PagesAreVersions' /\ HoldsPage'
  BY <1>1, <1>2, <1>3, Stamping
<1>5. FilesOK'
  <2>1. file' = [file EXCEPT ![f] = new]
    BY <1>2, FileIsRow, Parts DEF FilesOK, FileRow
  <2>2. new \in FileRow /\ new.path = file[f].path /\ new.mirrored = file[f].mirrored
        /\ new.own = file[f].own /\ new.doc = file[f].doc
    BY FileIsRow DEF FileRow
  <2>3. new.mirrored <= clock' /\ new.own <= clock'
    BY <1>1, <1>2, <2>2, FileIsRow
  <2>4. /\ new.path \in Path => \A g \in File \ {f} : file[g].path # new.path
        /\ new.doc # None => doc'[new.doc].st # "unborn"
    BY <1>4, <2>2, FileIsRow DEF Grows
  <2> QED
    BY <1>4, <2>1, <2>2, <2>3, <2>4, OneFileChanges
<1>6. PushOK'
  <2>1. push \in [File -> [doc : Doc \cup {None}, text : Nat]]
    BY Parts DEF PushOK
  <2>2. /\ push' \in [File -> [doc : Doc \cup {None}, text : Nat]]
        /\ push'[f] = [doc |-> d, text |-> file[f].text]
        /\ \A g \in File \ {f} : push'[g] = push[g]
    BY <1>1, <2>1, FileIsRow
  <2>3. doc'[d].st # "unborn" /\ d # None
    BY <1>1, <1>3, Parts, NamesApart
  <2>4. \A g \in File : push'[g].doc # None => doc'[push'[g].doc].st # "unborn"
    <3> TAKE g \in File
    <3>1. CASE g = f
      BY <3>1, <2>2, <2>3
    <3>2. CASE g # f
      BY <3>2, <2>1, <2>2, <1>4, Parts DEF PushOK, Grows
    <3> QED
      BY <3>1, <3>2
  <2>5. \A g \in File : push'[g] # NoPush => push'[g].doc # None
    <3> TAKE g \in File
    <3>1. CASE g = f
      BY <3>1, <2>2, <2>3
    <3>2. CASE g # f
      BY <3>2, <2>1, <2>2, Parts DEF PushOK
    <3> QED
      BY <3>1, <3>2
  <2> QED
    BY <2>2, <2>4, <2>5 DEF PushOK
<1>7. RowsBorn' /\ LoopsOK'
  BY <1>2, <1>4, Parts, RowsKept DEF LoopsOK
<1> QED
  BY <1>4, <1>5, <1>6, <1>7, Whole

(* Only files and finished pushes change: the frame of what follows. *)
LEMMA OnlyFiles ==
  ASSUME PullInv, FilesOK', UNCHANGED <<doc, clock, edits, seen, job, scan, poll>>, PushOK'
  PROVE  PullInv'
<1>1. Grows /\ Stamped' /\ PagesAreVersions' /\ HoldsPage'
  BY Parts, Later
<1>2. LoopsOK' /\ RowsBorn' /\ doc' \in [Doc -> DocRow]
  BY <1>1, Parts, RowsKept DEF LoopsOK
<1> QED
  BY <1>1, <1>2, Whole

LEMMA Push404Inv ==
  ASSUME PullInv, NEW f \in File, Push404(f)
  PROVE  PullInv'
<1> DEFINE new == [file[f] EXCEPT !.doc = None, !.mirrored = 0, !.status = "none"]
<1>1. /\ UNCHANGED <<doc, clock, edits, seen, job, push, scan, poll>> /\ clock \in Nat
      /\ file' = [file EXCEPT ![f].doc = None, ![f].mirrored = 0, ![f].status = "none"]
  BY Parts DEF Push404
<1>2. Grows
  BY <1>1, Later
<1>3. FilesOK'
  <2>1. file' = [file EXCEPT ![f] = new]
    BY <1>1, FileIsRow, Parts DEF FilesOK, FileRow
  <2>2. new \in FileRow /\ new.path = file[f].path /\ new.mirrored = 0
        /\ new.own = file[f].own /\ new.doc = None
    BY FileIsRow DEF FileRow
  <2>3. new.mirrored <= clock' /\ new.own <= clock'
    BY <1>1, <2>2, FileIsRow
  <2>4. new.path \in Path => \A g \in File \ {f} : file[g].path # new.path
    BY <2>2, FileIsRow
  <2> QED
    BY <1>2, <2>1, <2>2, <2>3, <2>4, OneFileChanges
<1> QED
  BY <1>1, <1>2, <1>3, PushKept, OnlyFiles

LEMMA PushBindInv ==
  ASSUME PullInv, NEW f \in File, PushBind(f)
  PROVE  PullInv'
<1> DEFINE new == [file[f] EXCEPT !.doc = push[f].doc, !.mirrored = 0, !.status = "none"]
<1>1. /\ UNCHANGED <<doc, clock, edits, seen, job, push, scan, poll>> /\ clock \in Nat
      /\ file' = [file EXCEPT ![f].doc = push[f].doc, ![f].mirrored = 0,
                              ![f].status = "none"]
  BY Parts DEF PushBind
<1>2. Grows
  BY <1>1, Later
<1>3. FilesOK'
  <2>1. file' = [file EXCEPT ![f] = new]
    BY <1>1, FileIsRow, Parts DEF FilesOK, FileRow
  <2>2. push[f].doc \in Doc \cup {None} /\ (push[f].doc # None => doc[push[f].doc].st # "unborn")
    BY Parts DEF PushOK
  <2>3. new \in FileRow /\ new.path = file[f].path /\ new.mirrored = 0
        /\ new.own = file[f].own /\ new.doc = push[f].doc
    BY <2>2, FileIsRow DEF FileRow
  <2>4. new.mirrored <= clock' /\ new.own <= clock'
    BY <1>1, <2>3, FileIsRow
  <2>5. /\ new.path \in Path => \A g \in File \ {f} : file[g].path # new.path
        /\ new.doc # None => doc'[new.doc].st # "unborn"
    BY <1>1, <2>2, <2>3, FileIsRow
  <2> QED
    BY <1>2, <2>1, <2>3, <2>4, <2>5, OneFileChanges
<1> QED
  BY <1>1, <1>2, <1>3, PushKept, OnlyFiles

LEMMA PushDoneInv ==
  ASSUME PullInv, NEW f \in File, PushDone(f)
  PROVE  PullInv'
<1> DEFINE new == [file[f] EXCEPT !.status = "done", !.dirty = 0]
<1>1. /\ UNCHANGED <<doc, clock, edits, seen, job, scan, poll>> /\ clock \in Nat
      /\ push' = [push EXCEPT ![f] = NoPush]
      /\ file' = file \/ file' = [file EXCEPT ![f].status = "done", ![f].dirty = 0]
  BY Parts DEF PushDone
<1>2. Grows
  BY <1>1, Later
<1>3. FilesOK'
  <2>1. CASE file' = file
    BY <2>1, <1>2, FilesKept
  <2>2. CASE file' = [file EXCEPT ![f].status = "done", ![f].dirty = 0]
    <3>1. file' = [file EXCEPT ![f] = new]
      BY <2>2, FileIsRow, Parts DEF FilesOK, FileRow
    <3>2. new \in FileRow /\ new.path = file[f].path /\ new.mirrored = file[f].mirrored
          /\ new.own = file[f].own /\ new.doc = file[f].doc
      BY FileIsRow DEF FileRow
    <3>3. new.mirrored <= clock' /\ new.own <= clock'
      BY <1>1, <3>2, FileIsRow
    <3>4. /\ new.path \in Path => \A g \in File \ {f} : file[g].path # new.path
          /\ new.doc # None => doc'[new.doc].st # "unborn"
      BY <1>1, <3>2, FileIsRow
    <3> QED
      BY <1>2, <3>1, <3>2, <3>3, <3>4, OneFileChanges
  <2> QED
    BY <1>1, <2>1, <2>2
<1>4. PushOK'
  <2>1. push \in [File -> [doc : Doc \cup {None}, text : Nat]]
        /\ NoPush \in [doc : Doc \cup {None}, text : Nat] /\ NoPush.doc = None
    BY Parts DEF PushOK, NoPush
  <2>2. /\ push' \in [File -> [doc : Doc \cup {None}, text : Nat]]
        /\ push'[f] = NoPush /\ \A g \in File \ {f} : push'[g] = push[g]
    BY <1>1, <2>1
  <2> QED
    BY <1>1, <2>1, <2>2, Parts DEF PushOK
<1> QED
  BY <1>1, <1>3, <1>4, OnlyFiles
-----------------------------------------------------------------------------
(* The server. *)
LEMMA ProcessInv ==
  ASSUME PullInv, NEW d \in Doc, Process(d)
  PROVE  PullInv'
<1> DEFINE new == [doc[d] EXCEPT !.st = "done", !.upd = clock']
<1>1. /\ UNCHANGED <<file, edits, seen, job, push, scan, poll>> /\ clock \in Nat
      /\ clock' = clock + 1 /\ clock' \in Nat
      /\ doc \in [Doc -> DocRow] /\ doc[d].st = "processing"
      /\ doc' = [doc EXCEPT ![d].st = "done", ![d].upd = clock']
  BY Parts DEF Process
<1>a. doc' = [doc EXCEPT ![d] = new]
  BY <1>1 DEF DocRow
<1>2. new \in DocRow /\ new.st = "done" /\ new.upd = clock' /\ new.path = doc[d].path
  BY <1>1 DEF DocRow
<1>3. new.path \in Path
  BY <1>1, <1>2, Parts DEF Stamped
<1>4. Grows /\ doc' \in [Doc -> DocRow] /\ Stamped' /\ PagesAreVersions' /\ HoldsPage'
  BY <1>1, <1>a, <1>2, <1>3, Stamping
<1>5. FilesOK' /\ PushOK' /\ RowsBorn' /\ LoopsOK'
  BY <1>1, <1>4, Parts, FilesKept, PushKept, RowsKept DEF LoopsOK
<1> QED
  BY <1>4, <1>5, Whole

LEMMA OtherEditsInv ==
  ASSUME PullInv, NEW d \in Doc, OtherEdits(d)
  PROVE  PullInv'
<1>1. /\ UNCHANGED <<file, seen, job, push, scan, poll>> /\ clock \in Nat
      /\ edits < MaxEdits /\ edits' = edits + 1 /\ clock' = clock + 1 /\ doc[d] \in DocRow
  BY Parts DEF OtherEdits, Editing, Edited
<1>2. PICK new \in [st : {"processing", "gone"}, path : Path, text : {doc[d].text, clock'},
                    upd : {clock'}] : doc' = [doc EXCEPT ![d] = new]
  BY DEF OtherEdits
<1>3. new \in DocRow /\ new.st # "unborn" /\ new.upd = clock' /\ new.path \in Path
  BY <1>1, <1>2 DEF DocRow
<1>4. Grows /\ doc' \in [Doc -> DocRow] /\ Stamped' /\ PagesAreVersions' /\ HoldsPage'
  BY <1>1, <1>2, <1>3, Stamping
<1>5. FilesOK' /\ PushOK' /\ RowsBorn'
  BY <1>1, <1>4, FilesKept, PushKept, RowsKept
<1>6. LoopsOK'
  BY <1>1, Parts, NamesApart DEF LoopsOK
<1> QED
  BY <1>4, <1>5, <1>6, Whole
-----------------------------------------------------------------------------
(***************************************************************************)
(* The pulls.                                                              *)
(***************************************************************************)
LEMMA CopyIsVersion ==
  ASSUME PullInv, NEW d \in Listed
  PROVE  Copy(d) \in Page /\ VersionOf(Copy(d)) /\ Copy(d).id = d
<1>1. d \in Doc /\ doc[d] \in DocRow /\ doc[d].st \in {"processing", "done"}
  BY Parts DEF Listed
<1>2. doc[d].path \in Path /\ doc[d].text \in Nat /\ doc[d].upd \in 1..clock
  BY <1>1, Parts DEF Stamped, DocRow
<1>3. \A e \in Doc : doc[e].upd = doc[d].upd => e = d
  BY <1>1, <1>2, Parts DEF Stamped
<1> QED
  BY <1>1, <1>2, <1>3 DEF Copy, Page, VersionOf

(* The pages of a set of documents are a sequence of them. *)
LEMMA NewestFirstIsSequence ==
  ASSUME NEW ds \in SUBSET Doc, NEW pages \in NewestFirst(ds)
  PROVE  pages \in Seq({Copy(d) : d \in ds})
<1> DEFINE copies == {Copy(d) : d \in ds}
<1>1. IsFiniteSet(ds)
  BY PullAssumption, FS_Subset
<1>2. IsFiniteSet(copies)
  <2> DEFINE copy == [d \in ds |-> Copy(d)]
  <2>1. copy \in Surjection(ds, copies)
    BY DEF Surjection
  <2> QED
    BY <1>1, <2>1, FS_Surjection
<1>3. Cardinality(copies) \in Nat
  BY <1>2, FS_CardinalityType
<1>4. pages \in [1..Cardinality(copies) -> copies]
  BY DEF NewestFirst, SetToSeqs
<1> HIDE DEF copies
<1>5. pages \in Seq(copies)
  BY <1>3, <1>4
<1> QED
  BY <1>5 DEF copies

(* What a delta pull takes from the page it asks for.                      *)
Here == OnPage(job[Delta].page)
Fresh == {d \in Here : doc[d].upd > seen}
Row(pages) ==
  [todo |-> pages, newest |-> NewerOf(job[Delta].newest, pages), page |-> job[Delta].page + 1,
   more |-> Fresh = Here /\ (job[Delta].page + 1) * PageSize < Cardinality(Listed),
   on |-> None]

LEMMA ListsFresh ==
  ASSUME PullInv, DeltaList
  PROVE  /\ Fresh \in SUBSET Doc /\ Fresh \in SUBSET Listed /\ Delta \in Task
         /\ Calm /\ job[Delta].todo = <<>> /\ job[Delta] \in JobRow
         /\ job[Delta] # NoJob => job[Delta].more
         /\ UNCHANGED <<file, doc, clock, edits, seen, push, scan, poll>>
         /\ \E pages \in NewestFirst(Fresh) :
              /\ job' = [job EXCEPT ![Delta] = Row(pages)]
              /\ pages \in Seq({Copy(d) : d \in Fresh})
<1>1. Fresh \in SUBSET Doc /\ Fresh \in SUBSET Listed
  BY DEF Fresh, Here, OnPage, Listed
<1>2. Delta \in Task /\ job[Delta] \in JobRow
  BY Parts DEF Task, LoopsOK
<1>3. PICK pages \in NewestFirst(Fresh) : job' = [job EXCEPT ![Delta] = Row(pages)]
  BY DEF DeltaList, Fresh, Here, Row
<1>4. pages \in Seq({Copy(d) : d \in Fresh})
  BY <1>1, NewestFirstIsSequence
<1>5. /\ Calm /\ job[Delta].todo = <<>> /\ (job[Delta] # NoJob => job[Delta].more)
      /\ UNCHANGED <<file, doc, clock, edits, seen, push, scan, poll>>
  BY DEF DeltaList
<1> QED
  BY <1>1, <1>2, <1>3, <1>4, <1>5

(* The page a task is at. *)
LEMMA CurrentPage ==
  ASSUME PullInv, NEW t \in Task, job[t].todo # <<>>
  PROVE  /\ Current(t) = job[t].todo[1] /\ Current(t) \in Page /\ VersionOf(Current(t))
         /\ Current(t).id \in Doc /\ Current(t).path \in Path
         /\ Current(t).text \in Nat /\ Current(t).upd \in Nat /\ Current(t).upd <= clock
<1>1. job[t].todo \in Seq(Page)
  BY Parts DEF LoopsOK, JobRow
<1>2. Current(t) = job[t].todo[1] /\ 1 \in 1..Len(job[t].todo)
  BY <1>1 DEF Current
<1>3. Current(t) \in Page
  BY <1>1, <1>2
<1>4. VersionOf(Current(t))
  BY <1>2, Parts DEF PagesAreVersions
<1> QED
  BY <1>2, <1>3, <1>4, Parts DEF Page, VersionOf

(* One pull takes new pages. *)
LEMMA OnePullChanges ==
  ASSUME PullInv, UNCHANGED <<doc, clock>>, NEW t \in Task, NEW new \in JobRow,
         job' = [job EXCEPT ![t] = new],
         \A k \in 1..Len(new.todo) : VersionOf(new.todo[k]),
         new.on # None => new.todo # <<>>
  PROVE  /\ job' \in [Task -> JobRow] /\ Grows
         /\ Stamped' /\ PagesAreVersions' /\ HoldsPage'
<1>1. clock \in Nat /\ doc \in [Doc -> DocRow] /\ job \in [Task -> JobRow]
  BY Parts DEF LoopsOK
<1>2. /\ job' \in [Task -> JobRow] /\ job'[t] = new
      /\ \A u \in Task \ {t} : job'[u] = job[u]
  BY <1>1
<1>3. Grows /\ Stamped'
  BY <1>1, Parts DEF Grows, Stamped
<1>4. PagesAreVersions'
  <2> SUFFICES ASSUME NEW u \in Task, NEW k \in 1..Len(job'[u].todo)
               PROVE  VersionOf(job[u].todo[k])'
    BY DEF PagesAreVersions
  <2>1. VersionOf(job'[u].todo[k])
    <3>1. CASE u = t
      BY <3>1, <1>2
    <3>2. CASE u # t
      BY <3>2, <1>2, Parts DEF PagesAreVersions
    <3> QED
      BY <3>1, <3>2
  <2> QED
    BY <2>1 DEF VersionOf
<1>5. HoldsPage'
  BY <1>2, Parts DEF HoldsPage
<1> QED
  BY <1>2, <1>3, <1>4, <1>5

LEMMA AdvancePulls ==
  ASSUME PullInv, UNCHANGED <<doc, clock>>, NEW t \in Task, job[t].todo # <<>>, Advance(t)
  PROVE  /\ job' \in [Task -> JobRow] /\ Grows
         /\ Stamped' /\ PagesAreVersions' /\ HoldsPage'
<1> DEFINE new == [job[t] EXCEPT !.todo = Tail(@), !.on = None]
<1>1. job \in [Task -> JobRow] /\ job[t] \in JobRow /\ job[t].todo \in Seq(Page)
  BY Parts DEF LoopsOK, JobRow
<1>a. Tail(job[t].todo) \in Seq(Page)
  BY <1>1
<1>2. new \in JobRow /\ new.todo = Tail(job[t].todo) /\ new.on = None
  BY <1>1, <1>a DEF JobRow
<1>3. job' = [job EXCEPT ![t] = new]
  BY <1>1 DEF Advance, JobRow
<1>4. \A k \in 1..Len(new.todo) : VersionOf(new.todo[k])
  <2> TAKE k \in 1..Len(new.todo)
  <2>1. Len(new.todo) = Len(job[t].todo) - 1 /\ new.todo[k] = job[t].todo[k + 1]
    BY <1>1, <1>2
  <2>2. k + 1 \in 1..Len(job[t].todo)
    BY <1>1, <2>1
  <2> QED
    BY <2>1, <2>2, Parts DEF PagesAreVersions
<1> HIDE DEF new
<1> QED
  BY <1>2, <1>3, <1>4, OnePullChanges

(* Only pulls and files change: the frame of the steps of the pulls. *)
LEMMA OnlyPulls ==
  ASSUME PullInv, FilesOK', job' \in [Task -> JobRow], Grows, Stamped', PagesAreVersions',
         HoldsPage', UNCHANGED <<doc, edits, push, scan, poll>>, seen' \in Nat
  PROVE  PullInv'
<1>1. PushOK' /\ RowsBorn' /\ LoopsOK' /\ doc' \in [Doc -> DocRow]
  BY Parts, PushKept, RowsKept DEF LoopsOK
<1> QED
  BY <1>1, Whole

LEMMA DeltaListInv ==
  ASSUME PullInv, DeltaList
  PROVE  PullInv'
<1> DEFINE copies == {Copy(d) : d \in Fresh}
<1>1. PICK pages : pages \in Seq(copies) /\ job' = [job EXCEPT ![Delta] = Row(pages)]
  BY ListsFresh
<1>2. /\ Fresh \in SUBSET Listed /\ Delta \in Task /\ job[Delta] \in JobRow
      /\ UNCHANGED <<file, doc, clock, edits, seen, push, scan, poll>>
  BY ListsFresh
<1>3. \A c \in copies : c \in Page /\ VersionOf(c)
  BY <1>2, CopyIsVersion
<1> HIDE DEF copies
<1>4. pages \in Seq(Page) /\ \A k \in 1..Len(pages) : pages[k] \in Page /\ VersionOf(pages[k])
  <2>1. Len(pages) \in Nat /\ pages \in [1..Len(pages) -> copies]
    BY <1>1
  <2>2. \A k \in 1..Len(pages) : pages[k] \in Page /\ VersionOf(pages[k])
    BY <2>1, <1>3
  <2>3. pages \in [1..Len(pages) -> Page]
    BY <2>1, <2>2
  <2> QED
    BY <2>1, <2>2, <2>3
<1>5. Row(pages).todo = pages /\ Row(pages).on = None
  BY DEF Row
<1>6. Row(pages) \in JobRow
  <2>1. pages # <<>> => pages[1].upd \in Nat
    <3>1. pages # <<>> => 1 \in 1..Len(pages)
      BY <1>4
    <3> QED
      BY <1>4, <3>1 DEF Page
  <2>2. NewerOf(job[Delta].newest, pages) \in Nat /\ job[Delta].page + 1 \in Nat
    BY <1>2, <2>1 DEF NewerOf, JobRow
  <2> QED
    BY <1>4, <2>2 DEF Row, JobRow
<1>7. job' \in [Task -> JobRow] /\ Grows /\ Stamped' /\ PagesAreVersions' /\ HoldsPage'
  BY <1>1, <1>2, <1>4, <1>5, <1>6, OnePullChanges
<1> QED
  BY <1>2, <1>7, FilesKept, OnlyPulls, Parts DEF LoopsOK

LEMMA DeltaEndInv ==
  ASSUME PullInv, DeltaEnd
  PROVE  PullInv'
<1>1. /\ job' = [job EXCEPT ![Delta] = NoJob] /\ seen' = job[Delta].newest /\ Delta \in Task
      /\ UNCHANGED <<file, doc, clock, edits, push, scan, poll>>
  BY DEF DeltaEnd, Task
<1>2. NoJob \in JobRow /\ NoJob.on = None /\ NoJob.todo = <<>> /\ Len(NoJob.todo) = 0
  BY DEF NoJob, JobRow
<1>3. \A k \in 1..Len(NoJob.todo) : VersionOf(NoJob.todo[k])
  BY <1>2
<1>4. job' \in [Task -> JobRow] /\ Grows /\ Stamped' /\ PagesAreVersions' /\ HoldsPage'
  BY <1>1, <1>2, <1>3, OnePullChanges
<1>5. seen' \in Nat
  BY <1>1, Parts DEF LoopsOK, JobRow
<1> QED
  BY <1>1, <1>4, <1>5, FilesKept, OnlyPulls

LEMMA HydrateGetInv ==
  ASSUME PullInv, NEW t \in Puller, NEW d \in Doc, HydrateGet(t, d)
  PROVE  PullInv'
<1>1. /\ job' = [job EXCEPT ![t].todo = <<Copy(d)>>] /\ d \in Listed /\ job[t] = NoJob
      /\ t \in Task /\ UNCHANGED <<file, doc, clock, edits, seen, push, scan, poll>>
  BY DEF HydrateGet, Task
<1> DEFINE new == [job[t] EXCEPT !.todo = <<Copy(d)>>]
<1>2. job' = [job EXCEPT ![t] = new] /\ job[t] \in JobRow
  BY <1>1, Parts DEF LoopsOK
<1>3. Copy(d) \in Page /\ VersionOf(Copy(d))
  BY <1>1, CopyIsVersion
<1>4. new \in JobRow /\ new.on = None /\ \A k \in 1..Len(new.todo) : VersionOf(new.todo[k])
  <2>1. <<Copy(d)>> \in Seq(Page) /\ Len(<<Copy(d)>>) = 1 /\ <<Copy(d)>>[1] = Copy(d)
    BY <1>3
  <2>2. job[t].on = None
    BY <1>1 DEF NoJob
  <2>3. new \in JobRow /\ new.on = None /\ new.todo = <<Copy(d)>>
    BY <1>2, <2>1, <2>2 DEF JobRow
  <2> HIDE DEF new
  <2> QED
    BY <1>3, <2>1, <2>3
<1>5. job' \in [Task -> JobRow] /\ Grows /\ Stamped' /\ PagesAreVersions' /\ HoldsPage'
  <2> HIDE DEF new
  <2> QED
    BY <1>1, <1>2, <1>4, OnePullChanges
<1> QED
  BY <1>1, <1>5, FilesKept, OnlyPulls, Parts DEF LoopsOK

LEMMA SkipInv ==
  ASSUME PullInv, NEW t \in Task, NEW f \in File, Skip(t, f)
  PROVE  PullInv'
<1>1. /\ Advance(t) /\ job[t].todo # <<>>
      /\ UNCHANGED <<file, doc, clock, edits, seen, push, scan, poll>>
  BY DEF Skip, HasPage
<1>2. job' \in [Task -> JobRow] /\ Grows /\ Stamped' /\ PagesAreVersions' /\ HoldsPage'
  BY <1>1, AdvancePulls
<1> QED
  BY <1>1, <1>2, FilesKept, OnlyPulls, Parts DEF LoopsOK

LEMMA DeferInv ==
  ASSUME PullInv, NEW t \in Task, Defer(t)
  PROVE  PullInv'
<1>1. /\ Advance(t) /\ job[t].todo # <<>>
      /\ UNCHANGED <<file, doc, clock, edits, seen, push, scan, poll>>
  BY DEF Defer, HasPage
<1>2. job' \in [Task -> JobRow] /\ Grows /\ Stamped' /\ PagesAreVersions' /\ HoldsPage'
  BY <1>1, AdvancePulls
<1> QED
  BY <1>1, <1>2, FilesKept, OnlyPulls, Parts DEF LoopsOK

LEMMA TakeInv ==
  ASSUME PullInv, NEW t \in Task, NEW f \in File, Take(t, f)
  PROVE  PullInv'
<1> DEFINE c == Current(t)
           new == [file[f] EXCEPT !.path = c.path]
           row == [job[t] EXCEPT !.on = f]
<1>1. /\ job[t].todo # <<>> /\ job' = [job EXCEPT ![t].on = f]
      /\ file' = [file EXCEPT ![f].path = c.path] /\ At(c.path) \in {{}, {f}}
      /\ UNCHANGED <<doc, clock, edits, seen, push, scan, poll>>
  BY DEF Take, HasPage
<1>2. job \in [Task -> JobRow] /\ job[t] \in JobRow
  BY Parts DEF LoopsOK
<1>3. job' = [job EXCEPT ![t] = row] /\ row \in JobRow /\ row.todo = job[t].todo
  BY <1>1, <1>2 DEF JobRow
<1>4. \A k \in 1..Len(row.todo) : VersionOf(row.todo[k])
  BY <1>3, Parts DEF PagesAreVersions
<1>5. job' \in [Task -> JobRow] /\ Grows /\ Stamped' /\ PagesAreVersions' /\ HoldsPage'
  <2> HIDE DEF row
  <2> QED
    BY <1>1, <1>3, <1>4, OnePullChanges
<1>6. FilesOK'
  <2>1. c.path \in Path
    BY <1>1, CurrentPage
  <2>2. file' = [file EXCEPT ![f] = new]
    BY <1>1, FileIsRow, Parts DEF FilesOK, FileRow
  <2>3. new \in FileRow /\ new.path = c.path /\ new.mirrored = file[f].mirrored
        /\ new.own = file[f].own /\ new.doc = file[f].doc
    BY <2>1, FileIsRow DEF FileRow
  <2>4. new.mirrored <= clock' /\ new.own <= clock'
    BY <1>1, <2>3, FileIsRow
  <2>5. \A g \in File \ {f} : file[g].path # new.path
    BY <1>1, <2>3 DEF At
  <2>6. new.doc # None => doc'[new.doc].st # "unborn"
    BY <1>1, <2>3, FileIsRow
  <2> QED
    BY <1>5, <2>2, <2>3, <2>4, <2>5, <2>6, OneFileChanges
<1> QED
  BY <1>1, <1>5, <1>6, OnlyPulls, Parts DEF LoopsOK

LEMMA MirrorInv ==
  ASSUME PullInv, NEW t \in Task, Mirror(t)
  PROVE  PullInv'
<1> DEFINE c == Current(t)
<1>1. /\ job[t].on # None /\ Advance(t)
      /\ UNCHANGED <<doc, clock, edits, seen, push, scan, poll>>
  BY DEF Mirror
<1>f. PICK f \in File : f = job[t].on
  BY <1>1, Parts DEF LoopsOK, JobRow
<1>2. job[t].todo # <<>>
  BY <1>1, Parts DEF HoldsPage
<1>3. job' \in [Task -> JobRow] /\ Grows /\ Stamped' /\ PagesAreVersions' /\ HoldsPage'
  BY <1>1, <1>2, AdvancePulls
<1>4. /\ c.text \in Nat /\ c.upd \in Nat /\ c.upd <= clock
      /\ c.st \in {"processing", "done"}
  BY <1>2, CurrentPage DEF Page
<1>5. \/ file' = file
      \/ file' = [file EXCEPT ![f].text = c.text, ![f].mirrored = c.upd, ![f].status = "done"]
      \/ file' = [file EXCEPT ![f].status = c.st]
  BY <1>f DEF Mirror
<1> HIDE DEF c
<1>6. FilesOK'
  <2>1. CASE file' = file
    BY <2>1, <1>3, FilesKept
  <2>2. CASE file' = [file EXCEPT ![f].text = c.text, ![f].mirrored = c.upd,
                                  ![f].status = "done"]
    <3> DEFINE new == [file[f] EXCEPT !.text = c.text, !.mirrored = c.upd, !.status = "done"]
    <3>1. file' = [file EXCEPT ![f] = new]
      BY <2>2, <1>2, FileIsRow, Parts DEF FilesOK, FileRow
    <3>2. new \in FileRow /\ new.path = file[f].path /\ new.mirrored = c.upd
          /\ new.own = file[f].own /\ new.doc = file[f].doc
      BY <1>2, <1>4, FileIsRow DEF FileRow
    <3>3. new.mirrored <= clock' /\ new.own <= clock'
      BY <1>1, <1>2, <1>4, <3>2, FileIsRow
    <3>4. /\ new.path \in Path => \A g \in File \ {f} : file[g].path # new.path
          /\ new.doc # None => doc'[new.doc].st # "unborn"
      BY <1>1, <1>2, <3>2, FileIsRow
    <3> HIDE DEF new
    <3> QED
      BY <1>2, <1>3, <3>1, <3>2, <3>3, <3>4, OneFileChanges
  <2>3. CASE file' = [file EXCEPT ![f].status = c.st]
    <3> DEFINE new == [file[f] EXCEPT !.status = c.st]
    <3>1. file' = [file EXCEPT ![f] = new]
      BY <2>3, <1>2, FileIsRow, Parts DEF FilesOK, FileRow
    <3>2. new \in FileRow /\ new.path = file[f].path /\ new.mirrored = file[f].mirrored
          /\ new.own = file[f].own /\ new.doc = file[f].doc
      BY <1>2, <1>4, FileIsRow DEF FileRow
    <3>3. new.mirrored <= clock' /\ new.own <= clock'
      BY <1>1, <1>2, <3>2, FileIsRow
    <3>4. /\ new.path \in Path => \A g \in File \ {f} : file[g].path # new.path
          /\ new.doc # None => doc'[new.doc].st # "unborn"
      BY <1>1, <1>2, <3>2, FileIsRow
    <3> HIDE DEF new
    <3> QED
      BY <1>2, <1>3, <3>1, <3>2, <3>3, <3>4, OneFileChanges
  <2> QED
    BY <1>5, <2>1, <2>2, <2>3
<1> QED
  BY <1>1, <1>3, <1>6, OnlyPulls, Parts DEF LoopsOK

LEMMA AttachFileInv ==
  ASSUME PullInv, NEW t \in Task, NEW f \in File, AttachFile(t, f)
  PROVE  PullInv'
<1> DEFINE c == Current(t)
           bound == [file[f] EXCEPT !.doc = c.id, !.mirrored = 0, !.status = "none"]
           shown == [bound EXCEPT !.text = c.text, !.mirrored = c.upd, !.status = "done"]
<1>1. /\ job[t].todo # <<>> /\ Advance(t)
      /\ file' = [file EXCEPT ![f] = bound] \/ file' = [file EXCEPT ![f] = shown]
      /\ UNCHANGED <<doc, clock, edits, seen, push, scan, poll>>
  BY DEF AttachFile, HasPage
<1>2. job' \in [Task -> JobRow] /\ Grows /\ Stamped' /\ PagesAreVersions' /\ HoldsPage'
  BY <1>1, AdvancePulls
<1>3. /\ c.text \in Nat /\ c.upd \in Nat /\ c.upd <= clock /\ c.id \in Doc
      /\ doc[c.id].st # "unborn"
  BY <1>1, CurrentPage DEF VersionOf
<1>4. PICK new \in {bound, shown} : file' = [file EXCEPT ![f] = new]
  BY <1>1
<1>5. new \in FileRow /\ new.path = file[f].path /\ new.mirrored \in {0, c.upd}
      /\ new.own = file[f].own /\ new.doc = c.id
  <2>1. bound \in FileRow /\ bound.path = file[f].path /\ bound.mirrored = 0
        /\ bound.own = file[f].own /\ bound.doc = c.id
    BY <1>3, FileIsRow DEF FileRow
  <2>2. shown \in FileRow /\ shown.path = file[f].path /\ shown.mirrored = c.upd
        /\ shown.own = file[f].own /\ shown.doc = c.id
    BY <1>3, FileIsRow DEF FileRow
  <2> QED
    BY <1>4, <2>1, <2>2
<1>6. FilesOK'
  <2>1. new.mirrored <= clock' /\ new.own <= clock'
    BY <1>1, <1>3, <1>5, FileIsRow, Parts
  <2>2. /\ new.path \in Path => \A g \in File \ {f} : file[g].path # new.path
        /\ new.doc # None => doc'[new.doc].st # "unborn"
    BY <1>1, <1>3, <1>5, FileIsRow
  <2> QED
    BY <1>2, <1>4, <1>5, <2>1, <2>2, OneFileChanges
<1> QED
  BY <1>1, <1>2, <1>6, OnlyPulls, Parts DEF LoopsOK

LEMMA CreateLocalInv ==
  ASSUME PullInv, NEW t \in Task, NEW f \in File, CreateLocal(t, f)
  PROVE  PullInv'
<1> DEFINE c == Current(t)
           new == [NoFile EXCEPT !.path = c.path, !.text = c.text, !.doc = c.id,
                                 !.mirrored = c.upd, !.status = "done"]
<1>1. /\ job[t].todo # <<>> /\ Advance(t) /\ file' = [file EXCEPT ![f] = new]
      /\ At(c.path) = {} /\ UNCHANGED <<doc, clock, edits, seen, push, scan, poll>>
  BY DEF CreateLocal, HasPage
<1>2. job' \in [Task -> JobRow] /\ Grows /\ Stamped' /\ PagesAreVersions' /\ HoldsPage'
  BY <1>1, AdvancePulls
<1>3. /\ c.text \in Nat /\ c.upd \in Nat /\ c.upd <= clock /\ c.id \in Doc /\ c.path \in Path
      /\ doc[c.id].st # "unborn"
  BY <1>1, CurrentPage DEF VersionOf
<1>4. new \in FileRow /\ new.path = c.path /\ new.mirrored = c.upd /\ new.own = 0
      /\ new.doc = c.id
  BY <1>3 DEF FileRow, NoFile
<1>5. FilesOK'
  <2>1. new.mirrored <= clock' /\ new.own <= clock'
    BY <1>1, <1>3, <1>4, Parts
  <2>2. /\ \A g \in File \ {f} : file[g].path # new.path
        /\ new.doc # None => doc'[new.doc].st # "unborn"
    BY <1>1, <1>3, <1>4 DEF At
  <2> HIDE DEF new
  <2> QED
    BY <1>1, <1>2, <1>4, <2>1, <2>2, OneFileChanges
<1> QED
  BY <1>1, <1>2, <1>5, OnlyPulls, Parts DEF LoopsOK
-----------------------------------------------------------------------------
(***************************************************************************)
(* The scan and the poller.                                                *)
(***************************************************************************)
LEMMA OnlyScan ==
  ASSUME PullInv, scan' \in ScanRow,
         UNCHANGED <<file, doc, clock, edits, seen, job, push, poll>>
  PROVE  PullInv'
<1>1. Grows /\ Stamped' /\ PagesAreVersions' /\ HoldsPage'
  BY Parts, Later
<1>2. FilesOK' /\ PushOK' /\ RowsBorn' /\ LoopsOK' /\ doc' \in [Doc -> DocRow]
  BY <1>1, Parts, FilesKept, PushKept, RowsKept DEF LoopsOK
<1> QED
  BY <1>1, <1>2, Whole

LEMMA ScanReadInv ==
  ASSUME PullInv, ScanList \/ ScanCompare \/ (\E d \in Doc : ScanCheck(d)) \/ ScanEnd
  PROVE  PullInv'
<1>1. scan \in ScanRow
  BY Parts DEF LoopsOK
<1>2. CASE ScanList
  <2>1. scan' \in ScanRow
    BY <1>2 DEF ScanList, NoScan, ScanRow, Listed
  <2> QED
    BY <1>2, <2>1, OnlyScan DEF ScanList
<1>3. CASE ScanCompare
  <2> DEFINE gone == {file[f].doc : f \in {g \in File : Live(g)}} \ (scan.ids \cup {None})
  <2>1. gone \in SUBSET Doc
    BY FileIsRow
  <2>2. scan' = [scan EXCEPT !.pc = "remove", !.ids = {}, !.left = gone]
    BY <1>3 DEF ScanCompare
  <2>3. scan' \in ScanRow
    <3> HIDE DEF gone
    <3> QED
      BY <1>1, <2>1, <2>2 DEF ScanRow
  <2> QED
    BY <1>3, <2>3, OnlyScan DEF ScanCompare
<1>4. ASSUME NEW d \in Doc, ScanCheck(d)
      PROVE  PullInv'
  <2> DEFINE clean == {f \in Bound(d) : file[f].dirty = 0}
             next == IF clean = {} THEN None ELSE CHOOSE f \in clean : TRUE
  <2>1. next \in File \cup {None}
    BY DEF Bound
  <2>2. scan' = [scan EXCEPT !.left = @ \ {d}, !.on = next]
    BY <1>4 DEF ScanCheck
  <2>3. scan' \in ScanRow
    <3> HIDE DEF next
    <3> QED
      BY <1>1, <2>1, <2>2 DEF ScanRow
  <2> QED
    BY <1>4, <2>3, OnlyScan DEF ScanCheck
<1>5. CASE ScanEnd
  <2>1. scan' \in ScanRow
    BY <1>5 DEF ScanEnd, NoScan, ScanRow
  <2> QED
    BY <1>5, <2>1, OnlyScan DEF ScanEnd
<1> QED
  BY <1>2, <1>3, <1>4, <1>5

LEMMA ScanRemoveInv ==
  ASSUME PullInv, ScanRemove
  PROVE  PullInv'
<1> DEFINE new == [NoFile EXCEPT !.path = "removed"]
<1>1. /\ scan.on # None /\ file' = [file EXCEPT ![scan.on] = new]
      /\ scan' = [scan EXCEPT !.on = None]
      /\ UNCHANGED <<doc, clock, edits, seen, job, push, poll>>
  BY DEF ScanRemove
<1>2. scan \in ScanRow /\ scan.on \in File
  BY <1>1, Parts DEF LoopsOK, ScanRow
<1>3. Grows /\ Stamped' /\ PagesAreVersions' /\ HoldsPage'
  BY <1>1, Parts, Later
<1>4. FilesOK'
  <2>1. new \in FileRow /\ new.path = "removed" /\ new.mirrored = 0 /\ new.own = 0
        /\ new.doc = None
    BY DEF FileRow, NoFile
  <2>2. new.path \notin Path /\ new.mirrored <= clock' /\ new.own <= clock'
    BY <1>1, <2>1, NamesApart, Parts
  <2> HIDE DEF new
  <2> QED
    BY <1>1, <1>2, <1>3, <2>1, <2>2, OneFileChanges
<1>5. scan' \in ScanRow
  BY <1>1, <1>2 DEF ScanRow
<1>6. PushOK' /\ RowsBorn' /\ LoopsOK' /\ doc' \in [Doc -> DocRow]
  BY <1>1, <1>3, <1>5, Parts, PushKept, RowsKept DEF LoopsOK
<1> QED
  BY <1>3, <1>4, <1>6, Whole

LEMMA OnlyPoll ==
  ASSUME PullInv, FilesOK', poll' \in PollRow, RowsBorn',
         UNCHANGED <<doc, clock, edits, seen, job, push, scan>>
  PROVE  PullInv'
<1>1. Grows /\ Stamped' /\ PagesAreVersions' /\ HoldsPage'
  BY Parts, Later
<1>2. PushOK' /\ LoopsOK' /\ doc' \in [Doc -> DocRow]
  BY <1>1, Parts, PushKept DEF LoopsOK
<1> QED
  BY <1>1, <1>2, Whole

LEMMA PollRowsInv ==
  ASSUME PullInv, PollRows
  PROVE  PullInv'
<1> DEFINE waiting == {g \in File : Live(g) /\ file[g].doc # None /\ file[g].status # "done"}
           rows == {<<f, file[f].doc>> : f \in waiting}
<1>1. poll' = [NoPoll EXCEPT !.pc = "rows", !.rows = rows]
      /\ UNCHANGED <<file, doc, clock, edits, seen, job, push, scan>>
  BY DEF PollRows
<1>2. \A r \in rows : r \in File \X Doc /\ doc[r[2]].st # "unborn"
  BY FileIsRow
<1>3. poll' \in PollRow /\ poll'.rows = rows
  <2> HIDE DEF rows
  <2> QED
    BY <1>1, <1>2 DEF PollRow, NoPoll
<1>4. RowsBorn'
  BY <1>1, <1>2, <1>3 DEF RowsBorn
<1>5. FilesOK'
  BY <1>1, Parts, Later, FilesKept
<1> QED
  BY <1>1, <1>3, <1>4, <1>5, OnlyPoll

LEMMA PollListInv ==
  ASSUME PullInv, PollList
  PROVE  PullInv'
<1>1. /\ poll' = [poll EXCEPT !.pc = "ask",
                              !.processing = {d \in Doc : doc[d].st = "processing"}]
      /\ UNCHANGED <<file, doc, clock, edits, seen, job, push, scan>>
  BY DEF PollList
<1>2. poll \in PollRow
  BY Parts DEF LoopsOK
<1>3. poll' \in PollRow /\ poll'.rows = poll.rows
  BY <1>1, <1>2 DEF PollRow
<1>4. RowsBorn'
  BY <1>1, <1>3, Parts DEF RowsBorn
<1>5. FilesOK'
  BY <1>1, Parts, Later, FilesKept
<1> QED
  BY <1>1, <1>3, <1>4, <1>5, OnlyPoll

(* What the poller finds out about a file: nothing but what is stored of the *)
(* server changes.                                                         *)
PollNotes(f, d) ==
  {file[f],
   [file[f] EXCEPT !.status = "processing"],
   [file[f] EXCEPT !.status = "done", !.mirrored = doc[d].upd],
   [file[f] EXCEPT !.doc = None, !.mirrored = 0, !.status = "none"]}

LEMMA PollAskChanges ==
  ASSUME PullInv, NEW f \in File, NEW d \in Doc, PollAsk(f, d)
  PROVE  \E new \in PollNotes(f, d) : file' = [file EXCEPT ![f] = new]
<1>1. file \in [File -> FileRow] /\ file[f] \in FileRow
  BY Parts DEF FilesOK
<1>2. doc[d].st \in {"processing", "done", "gone"}
  <2>1. <<f, d>> \in poll.rows
    BY DEF PollAsk
  <2>2. doc[d].st # "unborn"
    BY <2>1, Parts DEF RowsBorn
  <2> QED
    BY <2>2, Parts DEF DocRow
<1>3. \/ file' = file
      \/ file' = [file EXCEPT ![f].status = "processing"]
      \/ file' = [file EXCEPT ![f].status = "done", ![f].mirrored = doc[d].upd]
      \/ file' = [file EXCEPT ![f].doc = None, ![f].mirrored = 0, ![f].status = "none"]
  BY <1>2 DEF PollAsk
<1>4. CASE file' = file
  BY <1>1, <1>4 DEF PollNotes
<1>5. CASE file' = [file EXCEPT ![f].status = "processing"]
  <2>1. file' = [file EXCEPT ![f] = [file[f] EXCEPT !.status = "processing"]]
    BY <1>1, <1>5 DEF FileRow
  <2> QED
    BY <2>1 DEF PollNotes
<1>6. CASE file' = [file EXCEPT ![f].status = "done", ![f].mirrored = doc[d].upd]
  <2>1. file' = [file EXCEPT ![f] =
                   [file[f] EXCEPT !.status = "done", !.mirrored = doc[d].upd]]
    BY <1>1, <1>6 DEF FileRow
  <2> QED
    BY <2>1 DEF PollNotes
<1>7. CASE file' = [file EXCEPT ![f].doc = None, ![f].mirrored = 0, ![f].status = "none"]
  <2>1. file' = [file EXCEPT ![f] =
                   [file[f] EXCEPT !.doc = None, !.mirrored = 0, !.status = "none"]]
    BY <1>1, <1>7 DEF FileRow
  <2> QED
    BY <2>1 DEF PollNotes
<1> QED
  BY <1>3, <1>4, <1>5, <1>6, <1>7

LEMMA PollNoteIsRow ==
  ASSUME PullInv, NEW f \in File, NEW d \in Doc, NEW new \in PollNotes(f, d)
  PROVE  /\ new \in FileRow /\ new.path = file[f].path /\ new.own = file[f].own
         /\ new.text = file[f].text /\ new.dirty = file[f].dirty
         /\ new.queued = file[f].queued
         /\ new.doc \in {None, file[f].doc} /\ new.mirrored \in Nat /\ new.mirrored <= clock
<1>1. doc[d].upd \in Nat /\ doc[d].upd <= clock /\ clock \in Nat
  BY Parts DEF Stamped, DocRow
<1>2. file[f] \in FileRow /\ file[f].mirrored \in Nat /\ file[f].mirrored <= clock
  BY FileIsRow
<1>3. CASE new = file[f]
  BY <1>2, <1>3 DEF FileRow
<1>4. CASE new = [file[f] EXCEPT !.status = "processing"]
  BY <1>2, <1>4 DEF FileRow
<1>5. CASE new = [file[f] EXCEPT !.status = "done", !.mirrored = doc[d].upd]
  BY <1>1, <1>2, <1>5 DEF FileRow
<1>6. CASE new = [file[f] EXCEPT !.doc = None, !.mirrored = 0, !.status = "none"]
  <2>1. 0 \in Nat /\ 0 <= clock
    BY <1>1
  <2>2. new \in FileRow
    BY <1>2, <1>6 DEF FileRow
  <2>3. new.mirrored = 0 /\ new.doc = None
    BY <1>2, <1>6 DEF FileRow
  <2>4. /\ new.path = file[f].path /\ new.own = file[f].own /\ new.text = file[f].text
        /\ new.dirty = file[f].dirty /\ new.queued = file[f].queued
    BY <1>2, <1>6 DEF FileRow
  <2> QED
    BY <2>1, <2>2, <2>3, <2>4
<1> QED
  BY <1>3, <1>4, <1>5, <1>6 DEF PollNotes

LEMMA PollAskInv ==
  ASSUME PullInv, NEW f \in File, NEW d \in Doc, PollAsk(f, d)
  PROVE  PullInv'
<1>1. /\ poll' \in {NoPoll, [poll EXCEPT !.rows = @ \ {<<f, d>>}]}
      /\ UNCHANGED <<doc, clock, edits, seen, job, push, scan>>
  BY DEF PollAsk
<1>2. poll \in PollRow
  BY Parts DEF LoopsOK
<1>3. poll' \in PollRow /\ poll'.rows \subseteq poll.rows
  BY <1>1, <1>2 DEF PollRow, NoPoll
<1>4. RowsBorn'
  BY <1>1, <1>3, Parts DEF RowsBorn
<1>5. FilesOK'
  <2>1. PICK new \in PollNotes(f, d) : file' = [file EXCEPT ![f] = new]
    BY PollAskChanges
  <2>2. /\ new \in FileRow /\ new.path = file[f].path /\ new.own = file[f].own
        /\ new.doc \in {None, file[f].doc} /\ new.mirrored <= clock
    BY PollNoteIsRow
  <2>3. new.mirrored <= clock' /\ new.own <= clock'
    BY <1>1, <2>2, FileIsRow
  <2>4. /\ new.path \in Path => \A g \in File \ {f} : file[g].path # new.path
        /\ new.doc # None => doc'[new.doc].st # "unborn"
    BY <1>1, <2>2, FileIsRow
  <2>5. Grows
    BY <1>1, Parts, Later
  <2> QED
    BY <2>1, <2>2, <2>3, <2>4, <2>5, OneFileChanges
<1> QED
  BY <1>1, <1>3, <1>4, <1>5, OnlyPoll
-----------------------------------------------------------------------------
LEMMA PullInvInit == Init => PullInv
<1> SUFFICES ASSUME Init
             PROVE  PullInv
  OBVIOUS
<1> DEFINE f == CHOOSE f \in File : TRUE
           d == CHOOSE d \in Doc : TRUE
           p == CHOOSE p \in Path : TRUE
<1>1. f \in File /\ d \in Doc /\ p \in Path
  BY PullAssumption
<1>2. PICK held \in BOOLEAN :
        /\ file = [g \in File |-> IF held /\ g = f
                     THEN [NoFile EXCEPT !.path = p, !.text = 1, !.doc = d,
                                         !.mirrored = 2, !.status = "done"]
                     ELSE NoFile]
        /\ doc = [e \in Doc |-> IF held /\ e = d
                    THEN [st |-> "done", path |-> p, text |-> 1, upd |-> 2]
                    ELSE NoDoc]
        /\ clock = IF held THEN 2 ELSE 0
        /\ seen = clock
  BY DEF Init
<1> DEFINE first == [NoFile EXCEPT !.path = p, !.text = 1, !.doc = d, !.mirrored = 2,
                                   !.status = "done"]
<1>3. /\ edits = 0 /\ job = [t \in Task |-> NoJob] /\ push = [g \in File |-> NoPush]
      /\ scan = NoScan /\ poll = NoPoll
  BY DEF Init
<1> HIDE DEF f, d, p
<1>4. /\ first \in FileRow /\ first.path = p /\ first.mirrored = 2 /\ first.own = 0
      /\ first.doc = d
  BY <1>1 DEF FileRow, NoFile
<1>5. NoFile \in FileRow /\ NoFile.path = None /\ NoFile.mirrored = 0 /\ NoFile.own = 0
      /\ NoFile.doc = None
  BY DEF FileRow, NoFile
<1>6. /\ NoDoc \in DocRow /\ NoDoc.st = "unborn" /\ NoDoc.upd = 0
      /\ [st |-> "done", path |-> p, text |-> 1, upd |-> 2] \in DocRow
  BY <1>1 DEF DocRow, NoDoc
<1>7. FilesOK
  <2>1. file \in [File -> FileRow] /\ \A g \in File : file[g] = IF held /\ g = f THEN first
                                                               ELSE NoFile
    BY <1>2, <1>4, <1>5
  <2>2. \A g, h \in File : g # h /\ Live(g) => file[g].path # file[h].path
    BY <1>1, <1>4, <1>5, <2>1, NamesApart DEF Live
  <2>3. Past
    BY <1>2, <1>4, <1>5, <2>1 DEF Past
  <2>4. \A g \in File : file[g].doc # None => doc[file[g].doc].st # "unborn"
    BY <1>1, <1>2, <1>4, <1>5, <2>1
  <2> QED
    BY <2>1, <2>2, <2>3, <2>4 DEF FilesOK
<1>8. doc \in [Doc -> DocRow] /\ clock \in Nat /\ seen \in Nat
  BY <1>2, <1>6
<1>9. Stamped
  <2>1. \A e \in Doc : doc[e] = IF held /\ e = d
                                THEN [st |-> "done", path |-> p, text |-> 1, upd |-> 2]
                                ELSE NoDoc
    BY <1>2
  <2> QED
    BY <1>1, <1>2, <1>6, <2>1 DEF Stamped
<1>10. NoJob \in JobRow /\ NoJob.on = None /\ Len(NoJob.todo) = 0
  BY DEF NoJob, JobRow
<1>11. job \in [Task -> JobRow] /\ PagesAreVersions /\ HoldsPage
  BY <1>3, <1>10 DEF PagesAreVersions, HoldsPage
<1>12. PushOK
  BY <1>3 DEF PushOK, NoPush
<1>13. scan \in ScanRow /\ poll \in PollRow /\ RowsBorn
  BY <1>3 DEF ScanRow, PollRow, NoScan, NoPoll, RowsBorn
<1>14. LoopsOK
  BY <1>3, <1>8, <1>11, <1>13, NamesApart DEF LoopsOK
<1> QED
  BY <1>7, <1>8, <1>9, <1>11, <1>12, <1>13, <1>14
  DEF PullInv, PullTypeOK, Born, FilesOK, LoopsOK, PushOK, RowsBorn, JobRow, ScanRow, PollRow

LEMMA PullInvStep == PullInv /\ [Next]_vars => PullInv'
<1> SUFFICES ASSUME PullInv, [Next]_vars
             PROVE  PullInv'
  OBVIOUS
<1>1. ASSUME NEW f \in File, WriteFile(f) \/ PushStep(f) \/ \E p \in Path : CreateFile(f, p)
      PROVE  PullInv'
  BY <1>1, WriteFileInv, CreateFileInv, PushSendInv, Push404Inv, PushBindInv, PushDoneInv
  DEF PushStep
<1>2. ASSUME NEW d \in Doc, Process(d) \/ OtherEdits(d)
      PROVE  PullInv'
  BY <1>2, ProcessInv, OtherEditsInv
<1>3. CASE DeltaList \/ DeltaEnd \/ \E t \in Puller, d \in Doc : HydrateGet(t, d)
  BY <1>3, DeltaListInv, DeltaEndInv, HydrateGetInv
<1>4. ASSUME NEW t \in Task, Reconcile(t)
      PROVE  PullInv'
  BY <1>4, MirrorInv, DeferInv, SkipInv, TakeInv, AttachFileInv, CreateLocalInv DEF Reconcile
<1>5. CASE ScanStep
  BY <1>5, ScanReadInv, ScanRemoveInv DEF ScanStep
<1>6. CASE PollStep
  BY <1>6, PollRowsInv, PollListInv, PollAskInv DEF PollStep
<1>7. CASE UNCHANGED vars
  <2>1. UNCHANGED <<file, doc, clock, edits, seen, job, push, scan, poll>>
    BY <1>7 DEF vars
  <2> QED
    BY <2>1, Parts, OnlyScan DEF LoopsOK
<1> QED
  BY <1>1, <1>2, <1>3, <1>4, <1>5, <1>6, <1>7 DEF Next

(* Whatever runs beside the pulls: rows are typed, no two files share a    *)
(* path, and a pull never puts a second file where one is.                 *)
THEOREM PullsAreTyped == Spec => []PullTypeOK
<1>1. PullInv => PullTypeOK
  BY DEF PullInv
<1> QED
  BY <1>1, PullInvInit, PullInvStep, PTL DEF Spec
-----------------------------------------------------------------------------
(***************************************************************************)
(* What is mirrored is shown.                                              *)
(***************************************************************************)
(* A row shows what it mirrors of these documents. *)
Shows(row, docs) ==
  \A d \in Doc :
    row.path \in Path /\ row.doc = d /\ docs[d].st = "done" /\ row.mirrored = docs[d].upd =>
      row.text = docs[d].text \/ row.queued

LEMMA ShownByRows == Shown <=> \A f \in File : Shows(file[f], doc)
BY DEF Shown, Shows, Live

LEMMA ShownByRowsNext == Shown' <=> \A f \in File : Shows(file'[f], doc')
BY DEF Shown, Shows, Live

(* One row changes, no document does. *)
LEMMA ShownByOne ==
  ASSUME PullInv, Shown, UNCHANGED doc, NEW f \in File, NEW new, Shows(new, doc),
         file' = [file EXCEPT ![f] = new]
  PROVE  Shown'
<1>1. file \in [File -> FileRow]
  BY Parts DEF FilesOK
<1>2. \A g \in File : file'[g] = IF g = f THEN new ELSE file[g]
  BY <1>1
<1>3. \A g \in File : Shows(file[g], doc)
  BY ShownByRows
<1>4. \A g \in File : Shows(file'[g], doc')
  <2> TAKE g \in File
  <2>1. CASE g = f
    BY <2>1, <1>2
  <2>2. CASE g # f
    BY <2>2, <1>2, <1>3
  <2> QED
    BY <2>1, <2>2
<1> QED
  BY <1>4, ShownByRowsNext

(* The new time of a stamped document is mirrored nowhere. *)
LEMMA ShownByStamp ==
  ASSUME PullInv, Shown, clock' = clock + 1, NEW d \in Doc, NEW new \in DocRow,
         doc' = [doc EXCEPT ![d] = new], new.upd = clock',
         \A f \in File : /\ file'[f].path = file[f].path /\ file'[f].doc = file[f].doc
                         /\ file'[f].mirrored = file[f].mirrored
                         /\ file'[f].text = file[f].text,
         \A f \in File : file[f].queued /\ ~file'[f].queued => file[f].doc \in {None, d}
  PROVE  Shown'
<1> SUFFICES ASSUME NEW f \in File, NEW e \in Doc,
                    file'[f].path \in Path, file'[f].doc = e, doc'[e].st = "done",
                    file'[f].mirrored = doc'[e].upd
             PROVE  file'[f].text = doc'[e].text \/ file'[f].queued
  BY DEF Shown, Live
<1>1. doc \in [Doc -> DocRow] /\ clock \in Nat
  BY Parts
<1>2. doc' = [doc EXCEPT ![d] = new] /\ doc'[d] = new
  BY <1>1
<1>3. e # d
  <2>1. file[f].mirrored \in Nat /\ file[f].mirrored <= clock
    BY FileIsRow
  <2> QED
    BY <1>1, <1>2, <2>1
<1>4. doc'[e] = doc[e]
  BY <1>1, <1>2, <1>3
<1>5. file[f].text = doc[e].text \/ file[f].queued
  BY <1>4 DEF Shown, Live
<1>6. file[f].doc # None
  BY NamesApart
<1> QED
  BY <1>3, <1>4, <1>5, <1>6

LEMMA ShownByUsers ==
  ASSUME PullInv, Shown, NEW f \in File, WriteFile(f) \/ \E p \in Path : CreateFile(f, p)
  PROVE  Shown'
<1>1. file \in [File -> FileRow] /\ UNCHANGED doc
  BY Parts DEF FilesOK, WriteFile, CreateFile
<1>2. CASE WriteFile(f)
  <2> DEFINE new == [file[f] EXCEPT !.text = clock', !.own = clock', !.dirty = clock',
                                    !.queued = TRUE]
  <2>1. file' = [file EXCEPT ![f] = new]
    BY <1>1, <1>2 DEF WriteFile, FileRow
  <2>2. Shows(new, doc)
    BY <1>1 DEF Shows, FileRow
  <2> HIDE DEF new
  <2> QED
    BY <1>1, <2>1, <2>2, ShownByOne
<1>3. ASSUME NEW p \in Path, CreateFile(f, p)
      PROVE  Shown'
  <2> DEFINE new == [NoFile EXCEPT !.path = p, !.text = clock', !.own = clock',
                                   !.dirty = clock', !.queued = TRUE]
  <2>1. file' = [file EXCEPT ![f] = new]
    BY <1>3 DEF CreateFile
  <2>2. Shows(new, doc)
    BY DEF Shows, NoFile
  <2> HIDE DEF new
  <2> QED
    BY <1>1, <2>1, <2>2, ShownByOne
<1> QED
  BY <1>2, <1>3

LEMMA ShownByPushes ==
  ASSUME PullInv, Shown, NEW f \in File, PushStep(f)
  PROVE  Shown'
<1>1. file \in [File -> FileRow] /\ file[f] \in FileRow
  BY Parts DEF FilesOK
<1>2. Shows(file[f], doc)
  BY ShownByRows
<1>3. CASE PushSend(f)
  <2>1. PICK d \in Doc :
          /\ clock' = clock + 1
          /\ IF file[f].doc = None THEN doc[d].st = "unborn" ELSE d = file[f].doc
          /\ doc' = [doc EXCEPT ![d] = [st |-> "processing", path |-> file[f].path,
                                        text |-> file[f].text, upd |-> clock']]
    BY <1>3 DEF PushSend
  <2>2. file' = [file EXCEPT ![f].queued = FALSE] /\ file[f].path \in Path
    BY <1>3 DEF PushSend, Live
  <2> DEFINE sent == [st |-> "processing", path |-> file[f].path, text |-> file[f].text,
                      upd |-> clock']
  <2>3. clock' \in Nat
    BY <2>1, Parts
  <2>4. sent \in DocRow /\ sent.upd = clock'
    BY <2>2, <2>3, FileIsRow DEF DocRow
  <2>5. \A g \in File :
          /\ file'[g].path = file[g].path /\ file'[g].doc = file[g].doc
          /\ file'[g].mirrored = file[g].mirrored /\ file'[g].text = file[g].text
          /\ g # f => file'[g] = file[g]
    BY <1>1, <2>2 DEF FileRow
  <2>6. \A g \in File : file[g].queued /\ ~file'[g].queued => file[g].doc \in {None, d}
    BY <2>1, <2>5
  <2>7. doc' = [doc EXCEPT ![d] = sent]
    BY <2>1
  <2> HIDE DEF sent
  <2>8. \A g \in File : /\ file'[g].path = file[g].path /\ file'[g].doc = file[g].doc
                        /\ file'[g].mirrored = file[g].mirrored
                        /\ file'[g].text = file[g].text
    BY <2>5
  <2>9. clock' = clock + 1
    BY <2>1
  <2> QED
    BY <2>4, <2>6, <2>7, <2>8, <2>9, ShownByStamp
<1>4. CASE Push404(f)
  <2> DEFINE new == [file[f] EXCEPT !.doc = None, !.mirrored = 0, !.status = "none"]
  <2>1. file' = [file EXCEPT ![f] = new] /\ UNCHANGED doc
    BY <1>1, <1>4 DEF Push404, FileRow
  <2>2. Shows(new, doc)
    BY <1>1, NamesApart DEF Shows, FileRow
  <2> HIDE DEF new
  <2> QED
    BY <2>1, <2>2, ShownByOne
<1>5. CASE PushBind(f)
  <2> DEFINE new == [file[f] EXCEPT !.doc = push[f].doc, !.mirrored = 0, !.status = "none"]
  <2>1. file' = [file EXCEPT ![f] = new] /\ UNCHANGED doc
    BY <1>1, <1>5 DEF PushBind, FileRow
  <2>2. Shows(new, doc)
    <3>1. new.mirrored = 0
      BY <1>1 DEF FileRow
    <3>2. \A d \in Doc : doc[d].st = "done" => doc[d].upd # 0
      BY Parts DEF Stamped
    <3> QED
      BY <3>1, <3>2 DEF Shows
  <2> HIDE DEF new
  <2> QED
    BY <2>1, <2>2, ShownByOne
<1>6. CASE PushDone(f)
  <2> DEFINE new == [file[f] EXCEPT !.status = "done", !.dirty = 0]
  <2>1. Shows(new, doc)
    BY <1>1, <1>2 DEF Shows, FileRow
  <2>2. UNCHANGED doc /\ (file' = [file EXCEPT ![f] = new] \/ file' = file)
    BY <1>1, <1>6 DEF PushDone, FileRow
  <2> HIDE DEF new
  <2>3. CASE file' = file
    BY <2>2, <2>3 DEF Shown, Live
  <2> QED
    BY <2>1, <2>2, <2>3, ShownByOne
<1> QED
  BY <1>3, <1>4, <1>5, <1>6 DEF PushStep

LEMMA ShownByServer ==
  ASSUME PullInv, Shown, NEW d \in Doc, Process(d) \/ OtherEdits(d)
  PROVE  Shown'
<1>1. doc \in [Doc -> DocRow] /\ clock \in Nat /\ clock' = clock + 1 /\ UNCHANGED file
  BY Parts DEF Process, OtherEdits, Edited
<1>2. clock' \in Nat
  BY <1>1
<1>3. PICK new \in DocRow : doc' = [doc EXCEPT ![d] = new] /\ new.upd = clock'
  <2>1. CASE Process(d)
    <3> DEFINE new == [doc[d] EXCEPT !.st = "done", !.upd = clock']
    <3>1. doc' = [doc EXCEPT ![d].st = "done", ![d].upd = clock']
      BY <2>1 DEF Process
    <3>2. doc' = [doc EXCEPT ![d] = new]
      BY <1>1, <3>1 DEF DocRow
    <3>3. new \in DocRow /\ new.upd = clock'
      BY <1>1, <1>2 DEF DocRow
    <3> HIDE DEF new
    <3> QED
      BY <3>2, <3>3
  <2>2. CASE OtherEdits(d)
    <3>1. PICK new \in [st : {"processing", "gone"}, path : Path,
                        text : {doc[d].text, clock'}, upd : {clock'}] :
                 doc' = [doc EXCEPT ![d] = new]
      BY <2>2 DEF OtherEdits
    <3>2. new \in DocRow /\ new.upd = clock'
      BY <1>1, <1>2, <3>1 DEF DocRow
    <3> QED
      BY <3>1, <3>2
  <2> QED
    BY <2>1, <2>2
<1> QED
  BY <1>1, <1>3, ShownByStamp

(* What is copied from a page of a processed document shows it. *)
LEMMA CopiedIsShown ==
  ASSUME PullInv, NEW t \in Task, job[t].todo # <<>>, NEW row,
         row.text = Current(t).text, row.mirrored = Current(t).upd
  PROVE  Shows(row, doc)
BY CurrentPage DEF Shows, VersionOf

LEMMA ShownByPulls ==
  ASSUME PullInv, Shown, NEW t \in Task, Reconcile(t)
  PROVE  Shown'
<1> DEFINE c == Current(t)
<1>1. file \in [File -> FileRow] /\ \A f \in File : Shows(file[f], doc)
  BY Parts, ShownByRows DEF FilesOK
<1>2. UNCHANGED doc
  BY DEF Reconcile, Mirror, Defer, Skip, Take, AttachFile, CreateLocal
<1>3. \A d \in Doc : doc[d].st = "done" => doc[d].upd # 0
  BY Parts DEF Stamped
<1>4. CASE file' = file
  BY <1>2, <1>4 DEF Shown, Live
<1>5. CASE Mirror(t)
  <2>1. PICK f \in File : f = job[t].on
    BY <1>5, Parts DEF Mirror, LoopsOK, JobRow
  <2>2. job[t].todo # <<>>
    BY <1>5, Parts DEF Mirror, HoldsPage
  <2>3. \/ file' = file
        \/ file' = [file EXCEPT ![f].text = c.text, ![f].mirrored = c.upd,
                                ![f].status = "done"]
        \/ file' = [file EXCEPT ![f].status = c.st]
    BY <1>5, <2>1 DEF Mirror
  <2> HIDE DEF c
  <2>4. CASE file' = [file EXCEPT ![f].text = c.text, ![f].mirrored = c.upd,
                                  ![f].status = "done"]
    <3> DEFINE new == [file[f] EXCEPT !.text = c.text, !.mirrored = c.upd, !.status = "done"]
    <3>1. file' = [file EXCEPT ![f] = new] /\ new.text = c.text /\ new.mirrored = c.upd
      BY <1>1, <2>4 DEF FileRow
    <3> HIDE DEF new
    <3>2. Shows(new, doc)
      BY <2>2, <3>1, CopiedIsShown DEF c
    <3> QED
      BY <1>2, <3>1, <3>2, ShownByOne
  <2>5. CASE file' = [file EXCEPT ![f].status = c.st]
    <3> DEFINE new == [file[f] EXCEPT !.status = c.st]
    <3>1. file' = [file EXCEPT ![f] = new]
      BY <1>1, <2>5 DEF FileRow
    <3>2. Shows(new, doc)
      BY <1>1 DEF Shows, FileRow
    <3> HIDE DEF new
    <3> QED
      BY <1>2, <3>1, <3>2, ShownByOne
  <2> QED
    BY <1>4, <2>3, <2>4, <2>5
<1>6. ASSUME NEW f \in File, Take(t, f)
      PROVE  Shown'
  <2> DEFINE new == [file[f] EXCEPT !.path = c.path]
  <2>1. file' = [file EXCEPT ![f].path = c.path] /\ file[f].path \in Path
    BY <1>6 DEF Take, Bound, Live
  <2> HIDE DEF c
  <2>2. file' = [file EXCEPT ![f] = new]
    BY <1>1, <2>1 DEF FileRow
  <2>3. Shows(new, doc)
    BY <1>1, <2>1 DEF Shows, FileRow
  <2> HIDE DEF new
  <2> QED
    BY <1>2, <2>2, <2>3, ShownByOne
<1>7. ASSUME NEW f \in File, AttachFile(t, f)
      PROVE  Shown'
  <2> DEFINE bound == [file[f] EXCEPT !.doc = c.id, !.mirrored = 0, !.status = "none"]
             shown == [bound EXCEPT !.text = c.text, !.mirrored = c.upd, !.status = "done"]
  <2>1. /\ job[t].todo # <<>>
        /\ file' = [file EXCEPT ![f] = bound] \/ file' = [file EXCEPT ![f] = shown]
    BY <1>7 DEF AttachFile, HasPage
  <2>2. bound.mirrored = 0 /\ shown.text = c.text /\ shown.mirrored = c.upd
    <3> HIDE DEF c
    <3> QED
      BY <1>1 DEF FileRow
  <2> HIDE DEF bound, shown
  <2>3. Shows(bound, doc)
    BY <1>3, <2>2 DEF Shows
  <2>4. Shows(shown, doc)
    BY <2>1, <2>2, CopiedIsShown
  <2> QED
    BY <1>2, <2>1, <2>3, <2>4, ShownByOne
<1>8. ASSUME NEW f \in File, CreateLocal(t, f)
      PROVE  Shown'
  <2> DEFINE new == [NoFile EXCEPT !.path = c.path, !.text = c.text, !.doc = c.id,
                                   !.mirrored = c.upd, !.status = "done"]
  <2>1. job[t].todo # <<>> /\ file' = [file EXCEPT ![f] = new]
    BY <1>8 DEF CreateLocal, HasPage
  <2>2. new.text = c.text /\ new.mirrored = c.upd
    BY DEF NoFile
  <2> HIDE DEF new
  <2>3. Shows(new, doc)
    BY <2>1, <2>2, CopiedIsShown
  <2> QED
    BY <1>2, <2>1, <2>3, ShownByOne
<1> QED
  BY <1>4, <1>5, <1>6, <1>7, <1>8 DEF Reconcile, Defer, Skip

LEMMA ShownByScan ==
  ASSUME PullInv, Shown, ScanStep
  PROVE  Shown'
<1>1. UNCHANGED doc
  BY DEF ScanStep, ScanList, ScanCompare, ScanCheck, ScanRemove, ScanEnd
<1>2. CASE file' = file
  BY <1>1, <1>2 DEF Shown, Live
<1>3. CASE ScanRemove
  <2> DEFINE new == [NoFile EXCEPT !.path = "removed"]
  <2>1. scan.on \in File
    BY <1>3, Parts DEF ScanRemove, LoopsOK, ScanRow
  <2>2. file' = [file EXCEPT ![scan.on] = new]
    BY <1>3 DEF ScanRemove
  <2>3. Shows(new, doc)
    BY NamesApart DEF Shows, NoFile
  <2> HIDE DEF new
  <2> QED
    BY <1>1, <2>1, <2>2, <2>3, ShownByOne
<1> QED
  BY <1>2, <1>3 DEF ScanStep, ScanList, ScanCompare, ScanCheck, ScanEnd

(* Without the poller there is never a row to ask about. *)
NoPolling == poll = NoPoll

LEMMA NothingPolled ==
  ASSUME "poller" \notin Hazards, NoPolling, [Next]_vars
  PROVE  NoPolling' /\ ~PollStep
<1>1. ~PollStep
  BY DEF NoPolling, NoPoll, PollStep, PollRows, PollList, PollAsk
<1>2. UNCHANGED poll
  BY <1>1, ZenonT(40)
  DEF Next, vars, WriteFile, CreateFile, PushStep, PushSend, Push404, PushBind, PushDone,
      Process, OtherEdits, DeltaList, DeltaEnd, HydrateGet, Reconcile, Mirror, Defer, Skip,
      Take, AttachFile, CreateLocal, ScanStep, ScanList, ScanCompare, ScanCheck,
      ScanRemove, ScanEnd
<1> QED
  BY <1>1, <1>2 DEF NoPolling

LEMMA ShownStep ==
  ASSUME PullInv, Shown, ~PollStep, [Next]_vars
  PROVE  Shown'
<1>1. CASE DeltaList \/ DeltaEnd \/ \E t \in Puller, d \in Doc : HydrateGet(t, d)
  <2>1. UNCHANGED <<file, doc>>
    BY <1>1 DEF DeltaList, DeltaEnd, HydrateGet
  <2> QED
    BY <2>1 DEF Shown, Live
<1>2. CASE UNCHANGED vars
  <2>1. UNCHANGED <<file, doc>>
    BY <1>2 DEF vars
  <2> QED
    BY <2>1 DEF Shown, Live
<1>3. ASSUME NEW f \in File, WriteFile(f) \/ PushStep(f) \/ \E p \in Path : CreateFile(f, p)
      PROVE  Shown'
  BY <1>3, ShownByUsers, ShownByPushes
<1>4. ASSUME NEW d \in Doc, Process(d) \/ OtherEdits(d)
      PROVE  Shown'
  BY <1>4, ShownByServer
<1>5. ASSUME NEW t \in Task, Reconcile(t)
      PROVE  Shown'
  BY <1>5, ShownByPulls
<1>6. CASE ScanStep
  BY <1>6, ShownByScan
<1> QED
  BY <1>1, <1>2, <1>3, <1>4, <1>5, <1>6 DEF Next

LEMMA ShownInit == Init => Shown /\ NoPolling
<1> SUFFICES ASSUME Init
             PROVE  Shown /\ NoPolling
  OBVIOUS
<1> DEFINE f0 == CHOOSE f \in File : TRUE
           d0 == CHOOSE d \in Doc : TRUE
           p0 == CHOOSE p \in Path : TRUE
<1>1. PICK held \in BOOLEAN :
        /\ file = [g \in File |-> IF held /\ g = f0
                     THEN [NoFile EXCEPT !.path = p0, !.text = 1, !.doc = d0,
                                         !.mirrored = 2, !.status = "done"]
                     ELSE NoFile]
        /\ doc = [e \in Doc |-> IF held /\ e = d0
                    THEN [st |-> "done", path |-> p0, text |-> 1, upd |-> 2]
                    ELSE NoDoc]
  BY DEF Init
<1> HIDE DEF f0, d0, p0
<1> DEFINE first == [NoFile EXCEPT !.path = p0, !.text = 1, !.doc = d0, !.mirrored = 2,
                                   !.status = "done"]
<1>2. NoFile.path = None /\ first.text = 1 /\ first.doc = d0 /\ NoDoc.st = "unborn"
  BY DEF NoFile, NoDoc
<1>3. \A f \in File : file[f] = first \/ file[f].path = None
  BY <1>1, <1>2
<1>4. \A d \in Doc : doc[d].st = "done" => d = d0 /\ doc[d].text = 1
  BY <1>1, <1>2
<1> HIDE DEF first
<1>5. Shown
  BY <1>2, <1>3, <1>4, NamesApart DEF Shown, Live
<1> QED
  BY <1>5 DEF Init, NoPolling

(* Where the poller does not run, a clean file whose mirrored_updated_at   *)
(* is the document's updatedAt shows the document's text, whatever the     *)
(* scan, the users and the pushes do between the locks of a pull.          *)
THEOREM MirroredFilesShow ==
  ASSUME "poller" \notin Hazards
  PROVE  Spec => []MirroredIsShown
<1> DEFINE Good == PullInv /\ Shown /\ NoPolling
<1>1. Init => Good
  BY PullInvInit, ShownInit
<1>2. Good /\ [Next]_vars => Good'
  BY PullInvStep, NothingPolled, ShownStep
<1>3. Good => MirroredIsShown
  BY DEF Shown, MirroredIsShown, Quiet
<1> HIDE DEF Good
<1> QED
  BY <1>1, <1>2, <1>3, PTL DEF Spec
-----------------------------------------------------------------------------
(***************************************************************************)
(* The edits that wait.  Where nothing happens between two locks of a pull *)
(* or a scan and no file is written while it is pushed, dirty_since is the *)
(* time of the edit for as long as the edit waits.                         *)
(***************************************************************************)
Orderly == "race" \notin Hazards /\ "resave" \notin Hazards

LocksOK == OneLocked /\ LockedIsClean

Unlocked == (\A t \in Task : job[t].on = None) /\ scan.on = None

LEMMA CalmIsUnlocked ==
  ASSUME Orderly
  PROVE  Calm <=> Unlocked
BY DEF Calm, Orderly, Unlocked

LEMMA UnlockedIsOK ==
  ASSUME Unlocked'
  PROVE  LocksOK'
BY DEF LocksOK, OneLocked, LockedIsClean, Unlocked

LEMMA LocksKept ==
  ASSUME LocksOK, UNCHANGED <<file, job>>, scan'.on = scan.on
  PROVE  LocksOK'
BY DEF LocksOK, OneLocked, LockedIsClean, Live

LEMMA LocksByPulls ==
  ASSUME PullInv, PullInv', LocksOK, Orderly, NEW t \in Task, Reconcile(t)
  PROVE  LocksOK'
<1>1. job \in [Task -> JobRow] /\ scan' = scan /\ file \in [File -> FileRow]
  BY Parts DEF Reconcile, Mirror, Defer, Skip, Take, AttachFile, CreateLocal, LoopsOK, FilesOK
<1>2. CASE Mirror(t)
  <2>1. job' = [job EXCEPT ![t].todo = Tail(@), ![t].on = None] /\ job[t].on # None
    BY <1>2 DEF Mirror, Advance
  <2>2. \A u \in Task : job'[u].on = IF u = t THEN None ELSE job[u].on
    BY <1>1, <2>1 DEF JobRow
  <2>3. scan.on = None /\ \A u \in Task \ {t} : job[u].on = None
    BY <2>1 DEF LocksOK, OneLocked
  <2> QED
    BY <1>1, <2>2, <2>3, UnlockedIsOK DEF Unlocked
<1>3. ASSUME Calm, Advance(t)
      PROVE  LocksOK'
  <2>1. Unlocked
    BY <1>3, CalmIsUnlocked
  <2>2. \A u \in Task : job'[u].on = IF u = t THEN None ELSE job[u].on
    BY <1>1, <1>3 DEF Advance, JobRow
  <2> QED
    BY <1>1, <2>1, <2>2, UnlockedIsOK DEF Unlocked
<1>4. ASSUME NEW f \in File, Take(t, f)
      PROVE  LocksOK'
  <2> DEFINE c == Current(t)
  <2>1. /\ Calm /\ job[t].todo # <<>> /\ ~(file[f].dirty > c.upd)
        /\ file' = [file EXCEPT ![f].path = c.path] /\ job' = [job EXCEPT ![t].on = f]
    BY <1>4 DEF Take, HasPage, LocalNewer
  <2>2. Unlocked /\ f # None
    BY <2>1, CalmIsUnlocked, NamesApart
  <2>3. c = job[t].todo[1] /\ c.path \in Path /\ c.upd \in Nat /\ file[f].dirty \in Nat
    BY <2>1, CurrentPage, FileIsRow
  <2> HIDE DEF c
  <2>4. \A u \in Task : /\ job'[u].on = IF u = t THEN f ELSE None
                        /\ job'[u].todo = job[u].todo
    BY <1>1, <2>1, <2>2 DEF JobRow, Unlocked
  <2>5. file'[f].path = c.path /\ file'[f].dirty = file[f].dirty
    BY <1>1, <2>1 DEF FileRow
  <2>6. file[f].dirty <= c.upd
    BY <2>1, <2>3
  <2>7. OneLocked'
    BY <1>1, <2>2, <2>4 DEF OneLocked, Unlocked
  <2>8. LockedIsClean'
    BY <1>1, <2>2, <2>3, <2>4, <2>5, <2>6 DEF LockedIsClean, Live, Unlocked
  <2> QED
    BY <2>7, <2>8 DEF LocksOK
<1> QED
  BY <1>2, <1>3, <1>4 DEF Reconcile, Defer, Skip, AttachFile, CreateLocal

LEMMA LocksByScan ==
  ASSUME PullInv, LocksOK, Orderly, ScanStep
  PROVE  LocksOK'
<1>1. UNCHANGED job /\ scan \in ScanRow
  BY Parts DEF ScanStep, ScanList, ScanCompare, ScanCheck, ScanRemove, ScanEnd, LoopsOK
<1>2. CASE ScanList \/ ScanCompare
  <2>1. Unlocked
    BY <1>2, CalmIsUnlocked DEF ScanList, ScanCompare
  <2>2. scan'.on = None
    BY <1>1, <1>2, <2>1 DEF ScanList, ScanCompare, NoScan, Unlocked, ScanRow
  <2> QED
    BY <1>1, <2>1, <2>2, UnlockedIsOK DEF Unlocked
<1>3. ASSUME NEW d \in Doc, ScanCheck(d)
      PROVE  LocksOK'
  <2> DEFINE clean == {f \in Bound(d) : file[f].dirty = 0}
             next == IF clean = {} THEN None ELSE CHOOSE f \in clean : TRUE
  <2>1. Unlocked /\ UNCHANGED <<file, job>> /\ scan' = [scan EXCEPT !.left = @ \ {d}, !.on = next]
    BY <1>3, CalmIsUnlocked DEF ScanCheck
  <2>2. next # None => file[next].dirty = 0
    BY DEF Bound
  <2> HIDE DEF next
  <2>3. scan'.on = next
    BY <1>1, <2>1 DEF ScanRow
  <2> QED
    BY <2>1, <2>2, <2>3 DEF LocksOK, OneLocked, LockedIsClean, Unlocked
<1>4. CASE ScanRemove
  <2>1. scan.on # None /\ scan' = [scan EXCEPT !.on = None]
    BY <1>4 DEF ScanRemove
  <2>2. scan'.on = None
    BY <1>1, <2>1 DEF ScanRow
  <2>3. \A t \in Task : job[t].on = None
    BY <2>1 DEF LocksOK, OneLocked
  <2> QED
    BY <1>1, <2>2, <2>3, UnlockedIsOK DEF Unlocked
<1>5. CASE ScanEnd
  <2>1. scan.on = None /\ scan'.on = None /\ UNCHANGED <<file, job>>
    BY <1>5 DEF ScanEnd, NoScan
  <2> QED
    BY <2>1, LocksKept
<1> QED
  BY <1>2, <1>3, <1>4, <1>5 DEF ScanStep

LEMMA LocksStep ==
  ASSUME PullInv, PullInv', LocksOK, Orderly, [Next]_vars
  PROVE  LocksOK'
<1>1. ASSUME Calm, UNCHANGED <<job, scan>>
      PROVE  LocksOK'
  BY <1>1, CalmIsUnlocked, UnlockedIsOK DEF Unlocked
<1>2. ASSUME NEW f \in File, WriteFile(f) \/ PushStep(f) \/ \E p \in Path : CreateFile(f, p)
      PROVE  LocksOK'
  BY <1>1, <1>2
  DEF WriteFile, CreateFile, PushStep, PushSend, Push404, PushBind, PushDone, Editing
<1>3. ASSUME NEW d \in Doc, Process(d) \/ OtherEdits(d)
      PROVE  LocksOK'
  BY <1>1, <1>3 DEF Process, OtherEdits, Editing
<1>4. CASE DeltaList \/ DeltaEnd \/ \E t \in Puller, d \in Doc : HydrateGet(t, d)
  <2>1. Unlocked /\ UNCHANGED scan /\ job \in [Task -> JobRow]
    BY <1>4, CalmIsUnlocked, Parts DEF DeltaList, DeltaEnd, HydrateGet, LoopsOK
  <2>2. \A t \in Task : job'[t].on = None
    <3>1. CASE DeltaList
      BY <2>1, <3>1 DEF DeltaList, Unlocked
    <3>2. CASE DeltaEnd
      BY <2>1, <3>2 DEF DeltaEnd, Unlocked, NoJob
    <3>3. ASSUME NEW u \in Puller, NEW d \in Doc, HydrateGet(u, d)
          PROVE  \A t \in Task : job'[t].on = None
      BY <2>1, <3>3 DEF HydrateGet, Unlocked, JobRow
    <3> QED
      BY <1>4, <3>1, <3>2, <3>3
  <2> QED
    BY <2>1, <2>2, UnlockedIsOK DEF Unlocked
<1>5. CASE PollStep
  BY <1>1, <1>5 DEF PollStep, PollRows, PollList, PollAsk
<1>6. CASE UNCHANGED vars
  <2>1. UNCHANGED <<file, job, scan>>
    BY <1>6 DEF vars
  <2> QED
    BY <2>1, LocksKept
<1> QED
  BY <1>2, <1>3, <1>4, <1>5, <1>6, LocksByPulls, LocksByScan DEF Next
-----------------------------------------------------------------------------
(***************************************************************************)
(* The queue of pushes and dirty_since.                                    *)
(***************************************************************************)
KeepsWait(new, row) ==
  /\ new.queued = row.queued /\ new.dirty = row.dirty /\ new.own = row.own
  /\ row.path # None => new.path # None

LEMMA WaitsByOne ==
  ASSUME PullInv, WaitingIsDirty, UNCHANGED push, NEW f \in File, NEW new,
         Waits(new, push[f]), file' = [file EXCEPT ![f] = new]
  PROVE  WaitingIsDirty'
<1>1. file \in [File -> FileRow]
  BY Parts DEF FilesOK
<1>2. \A g \in File : file'[g] = IF g = f THEN new ELSE file[g]
  BY <1>1
<1>3. \A g \in File : Waits(file'[g], push'[g])
  <2> TAKE g \in File
  <2>1. CASE g = f
    BY <2>1, <1>2
  <2>2. CASE g # f
    BY <2>2, <1>2 DEF WaitingIsDirty
  <2> QED
    BY <2>1, <2>2
<1> QED
  BY <1>3 DEF WaitingIsDirty, Waits

LEMMA WaitsKept ==
  ASSUME PullInv, WaitingIsDirty, UNCHANGED push, NEW f \in File, NEW new,
         KeepsWait(new, file[f]), file' = [file EXCEPT ![f] = new]
  PROVE  WaitingIsDirty'
<1>1. Waits(new, push[f])
  BY DEF WaitingIsDirty, Waits, KeepsWait
<1> QED
  BY <1>1, WaitsByOne

LEMMA WaitsByUsers ==
  ASSUME PullInv, WaitingIsDirty, Orderly, NEW f \in File,
         WriteFile(f) \/ \E p \in Path : CreateFile(f, p)
  PROVE  WaitingIsDirty'
<1>1. /\ file[f] \in FileRow /\ file \in [File -> FileRow]
      /\ clock \in Nat /\ clock' = clock + 1 /\ UNCHANGED push
  BY Parts DEF FilesOK, WriteFile, CreateFile, Edited
<1>2. clock' # 0
  BY <1>1
<1>3. CASE WriteFile(f)
  <2> DEFINE new == [file[f] EXCEPT !.text = clock', !.own = clock', !.dirty = clock',
                                    !.queued = TRUE]
  <2>1. file' = [file EXCEPT ![f] = new] /\ push[f] = NoPush
    BY <1>1, <1>3 DEF WriteFile, FileRow, Orderly
  <2>2. new.own = clock' /\ new.dirty = clock'
    BY <1>1 DEF FileRow
  <2> HIDE DEF new
  <2>3. Waits(new, push[f])
    BY <1>2, <2>1, <2>2 DEF Waits
  <2> QED
    BY <1>1, <2>1, <2>3, WaitsByOne
<1>4. ASSUME NEW p \in Path, CreateFile(f, p)
      PROVE  WaitingIsDirty'
  <2> DEFINE new == [NoFile EXCEPT !.path = p, !.text = clock', !.own = clock',
                                   !.dirty = clock', !.queued = TRUE]
  <2>1. file' = [file EXCEPT ![f] = new] /\ file[f] = NoFile
    BY <1>4 DEF CreateFile, Unused
  <2>2. new.own = clock' /\ new.dirty = clock'
    BY DEF NoFile
  <2>3. push[f] = NoPush
    BY <2>1 DEF WaitingIsDirty, Waits, NoFile
  <2> HIDE DEF new
  <2>4. Waits(new, push[f])
    BY <1>2, <2>2, <2>3 DEF Waits
  <2> QED
    BY <1>1, <2>1, <2>4, WaitsByOne
<1> QED
  BY <1>3, <1>4

LEMMA WaitsByPushes ==
  ASSUME PullInv, WaitingIsDirty, NEW f \in File, PushStep(f)
  PROVE  WaitingIsDirty'
<1>1. /\ file[f] \in FileRow /\ file \in [File -> FileRow]
      /\ push \in [File -> [doc : Doc \cup {None}, text : Nat]]
  BY Parts DEF FilesOK, PushOK
<1>2. ASSUME ~file'[f].queued, file'[f].path # None,
             \A g \in File \ {f} : file'[g] = file[g] /\ push'[g] = push[g]
      PROVE  WaitingIsDirty'
  <2>1. \A g \in File : Waits(file'[g], push'[g])
    BY <1>2 DEF WaitingIsDirty, Waits
  <2> QED
    BY <2>1 DEF WaitingIsDirty, Waits
<1>3. CASE PushSend(f)
  <2>1. PICK d \in Doc : push' = [push EXCEPT ![f] = [doc |-> d, text |-> file[f].text]]
    BY <1>3 DEF PushSend
  <2>2. file' = [file EXCEPT ![f].queued = FALSE] /\ file[f].path # None
    BY <1>3, NamesApart DEF PushSend, Live
  <2>3. ~file'[f].queued /\ file'[f].path # None
    BY <1>1, <2>2 DEF FileRow
  <2> QED
    BY <1>1, <1>2, <2>1, <2>2, <2>3
<1>4. CASE Push404(f)
  <2> DEFINE new == [file[f] EXCEPT !.doc = None, !.mirrored = 0, !.status = "none"]
  <2>1. file' = [file EXCEPT ![f] = new] /\ UNCHANGED push
    BY <1>1, <1>4 DEF Push404, FileRow
  <2>2. KeepsWait(new, file[f])
    BY <1>1 DEF KeepsWait, FileRow
  <2> HIDE DEF new
  <2> QED
    BY <2>1, <2>2, WaitsKept
<1>5. CASE PushBind(f)
  <2> DEFINE new == [file[f] EXCEPT !.doc = push[f].doc, !.mirrored = 0, !.status = "none"]
  <2>1. file' = [file EXCEPT ![f] = new] /\ UNCHANGED push
    BY <1>1, <1>5 DEF PushBind, FileRow
  <2>2. KeepsWait(new, file[f])
    BY <1>1 DEF KeepsWait, FileRow
  <2> HIDE DEF new
  <2> QED
    BY <2>1, <2>2, WaitsKept
<1>6. CASE PushDone(f)
  <2>1. push[f] # NoPush /\ push' = [push EXCEPT ![f] = NoPush]
        /\ (file' = [file EXCEPT ![f].status = "done", ![f].dirty = 0] \/ file' = file)
    BY <1>6 DEF PushDone
  <2>2. ~file[f].queued /\ file[f].path # None
    BY <2>1 DEF WaitingIsDirty, Waits
  <2>3. file'[f].queued = file[f].queued /\ file'[f].path = file[f].path
        /\ \A g \in File \ {f} : file'[g] = file[g]
    BY <1>1, <2>1 DEF FileRow
  <2> QED
    BY <1>1, <1>2, <2>1, <2>2, <2>3
<1> QED
  BY <1>3, <1>4, <1>5, <1>6 DEF PushStep

LEMMA WaitsByPulls ==
  ASSUME PullInv, WaitingIsDirty, NEW t \in Task, Reconcile(t)
  PROVE  WaitingIsDirty'
<1> DEFINE c == Current(t)
<1>1. file \in [File -> FileRow] /\ UNCHANGED push
  BY Parts DEF FilesOK, Reconcile, Mirror, Defer, Skip, Take, AttachFile, CreateLocal
<1>2. CASE file' = file
  BY <1>1, <1>2 DEF WaitingIsDirty, Waits
<1>3. CASE Mirror(t)
  <2>1. PICK f \in File : f = job[t].on
    BY <1>3, Parts DEF Mirror, LoopsOK, JobRow
  <2>2. \/ file' = file
        \/ file' = [file EXCEPT ![f].text = c.text, ![f].mirrored = c.upd,
                                ![f].status = "done"]
        \/ file' = [file EXCEPT ![f].status = c.st]
    BY <1>3, <2>1 DEF Mirror
  <2> HIDE DEF c
  <2>3. CASE file' = [file EXCEPT ![f].text = c.text, ![f].mirrored = c.upd,
                                  ![f].status = "done"]
    <3> DEFINE new == [file[f] EXCEPT !.text = c.text, !.mirrored = c.upd, !.status = "done"]
    <3>1. file' = [file EXCEPT ![f] = new] /\ KeepsWait(new, file[f])
      BY <1>1, <2>3 DEF FileRow, KeepsWait
    <3> HIDE DEF new
    <3> QED
      BY <1>1, <3>1, WaitsKept
  <2>4. CASE file' = [file EXCEPT ![f].status = c.st]
    <3> DEFINE new == [file[f] EXCEPT !.status = c.st]
    <3>1. file' = [file EXCEPT ![f] = new] /\ KeepsWait(new, file[f])
      BY <1>1, <2>4 DEF FileRow, KeepsWait
    <3> HIDE DEF new
    <3> QED
      BY <1>1, <3>1, WaitsKept
  <2> QED
    BY <1>2, <2>2, <2>3, <2>4
<1>4. ASSUME NEW f \in File, Take(t, f)
      PROVE  WaitingIsDirty'
  <2> DEFINE new == [file[f] EXCEPT !.path = c.path]
  <2>1. file' = [file EXCEPT ![f].path = c.path] /\ c.path # None
    BY <1>4, CurrentPage, NamesApart DEF Take, HasPage
  <2> HIDE DEF c
  <2>2. file' = [file EXCEPT ![f] = new] /\ KeepsWait(new, file[f])
    BY <1>1, <2>1 DEF FileRow, KeepsWait
  <2> HIDE DEF new
  <2> QED
    BY <1>1, <2>2, WaitsKept
<1>5. ASSUME NEW f \in File, AttachFile(t, f)
      PROVE  WaitingIsDirty'
  <2> DEFINE bound == [file[f] EXCEPT !.doc = c.id, !.mirrored = 0, !.status = "none"]
             shown == [bound EXCEPT !.text = c.text, !.mirrored = c.upd, !.status = "done"]
  <2>1. file' = [file EXCEPT ![f] = bound] \/ file' = [file EXCEPT ![f] = shown]
    BY <1>5 DEF AttachFile
  <2>2. KeepsWait(bound, file[f]) /\ KeepsWait(shown, file[f])
    <3> HIDE DEF c
    <3> QED
      BY <1>1 DEF FileRow, KeepsWait
  <2> HIDE DEF bound, shown
  <2> QED
    BY <1>1, <2>1, <2>2, WaitsKept
<1>6. ASSUME NEW f \in File, CreateLocal(t, f)
      PROVE  WaitingIsDirty'
  <2> DEFINE new == [NoFile EXCEPT !.path = c.path, !.text = c.text, !.doc = c.id,
                                   !.mirrored = c.upd, !.status = "done"]
  <2>1. file' = [file EXCEPT ![f] = new] /\ file[f] = NoFile
    BY <1>6 DEF CreateLocal, Unused
  <2>2. new.queued = FALSE
    BY DEF NoFile
  <2>3. push[f] = NoPush
    BY <2>1 DEF WaitingIsDirty, Waits, NoFile
  <2> HIDE DEF new
  <2>4. Waits(new, push[f])
    BY <2>2, <2>3 DEF Waits
  <2> QED
    BY <1>1, <2>1, <2>4, WaitsByOne
<1> QED
  BY <1>2, <1>3, <1>4, <1>5, <1>6 DEF Reconcile, Defer, Skip

LEMMA WaitsStep ==
  ASSUME PullInv, WaitingIsDirty, Orderly, [Next]_vars
  PROVE  WaitingIsDirty'
<1>1. ASSUME UNCHANGED <<file, push>>
      PROVE  WaitingIsDirty'
  BY <1>1 DEF WaitingIsDirty, Waits
<1>2. ASSUME NEW f \in File, WriteFile(f) \/ PushStep(f) \/ \E p \in Path : CreateFile(f, p)
      PROVE  WaitingIsDirty'
  BY <1>2, WaitsByUsers, WaitsByPushes
<1>3. ASSUME NEW d \in Doc, Process(d) \/ OtherEdits(d)
      PROVE  WaitingIsDirty'
  BY <1>1, <1>3 DEF Process, OtherEdits
<1>4. CASE DeltaList \/ DeltaEnd \/ \E t \in Puller, d \in Doc : HydrateGet(t, d)
  BY <1>1, <1>4 DEF DeltaList, DeltaEnd, HydrateGet
<1>5. CASE ScanRemove
  <2> DEFINE new == [NoFile EXCEPT !.path = "removed"]
  <2>1. scan.on \in File
    BY <1>5, Parts DEF ScanRemove, LoopsOK, ScanRow
  <2>2. file' = [file EXCEPT ![scan.on] = new] /\ UNCHANGED push
    BY <1>5 DEF ScanRemove
  <2>3. Waits(new, push[scan.on])
    BY NamesApart DEF Waits, NoFile
  <2> HIDE DEF new
  <2> QED
    BY <2>1, <2>2, <2>3, WaitsByOne
<1>6. CASE ScanList \/ ScanCompare \/ (\E d \in Doc : ScanCheck(d)) \/ ScanEnd
  BY <1>1, <1>6 DEF ScanList, ScanCompare, ScanCheck, ScanEnd
<1>7. CASE PollRows \/ PollList
  BY <1>1, <1>7 DEF PollRows, PollList
<1>8. ASSUME NEW f \in File, NEW d \in Doc, PollAsk(f, d)
      PROVE  WaitingIsDirty'
  <2>1. PICK new \in PollNotes(f, d) : file' = [file EXCEPT ![f] = new]
    BY <1>8, PollAskChanges
  <2>2. KeepsWait(new, file[f])
    BY PollNoteIsRow DEF KeepsWait
  <2> QED
    BY <1>8, <2>1, <2>2, WaitsKept DEF PollAsk
<1>9. CASE UNCHANGED vars
  BY <1>1, <1>9 DEF vars
<1> QED
  BY <1>2, <1>3, <1>4, <1>5, <1>6, <1>7, <1>8, <1>9, WaitsByPulls DEF Next, ScanStep, PollStep
-----------------------------------------------------------------------------
(***************************************************************************)
(* The times of edits and of versions.                                     *)
(***************************************************************************)
LEMMA StampsPast ==
  ASSUME PullInv, NEW s \in Stamps
  PROVE  s \in Nat /\ s <= clock
<1>1. \A d \in Doc : doc[d].upd \in Nat /\ doc[d].upd <= clock
  BY Parts DEF Stamped, DocRow
<1>2. \A t \in Task : \A k \in 1..Len(job[t].todo) :
        job[t].todo[k].upd \in Nat /\ job[t].todo[k].upd <= clock
  BY Parts DEF PagesAreVersions, VersionOf
<1> QED
  BY <1>1, <1>2 DEF Stamps

LEMMA DocIsStamp == \A d \in Doc : doc[d].upd \in Stamps
BY DEF Stamps

LEMMA PageIsStamp == \A t \in Task : \A k \in 1..Len(job[t].todo) : job[t].todo[k].upd \in Stamps
BY DEF Stamps

(* Pages are copies or were held before. *)
LEMMA PagesAreStamps ==
  ASSUME PullInv, UNCHANGED doc,
         \A t \in Task : \A k \in 1..Len(job'[t].todo) : job'[t].todo[k].upd \in Stamps
  PROVE  Stamps' \subseteq Stamps
<1> SUFFICES ASSUME NEW s \in Stamps'
             PROVE  s \in Stamps
  OBVIOUS
<1>1. CASE \E d \in Doc : s = doc'[d].upd
  BY <1>1, DocIsStamp
<1>2. CASE \E t \in Task : \E k \in 1..Len(job'[t].todo) : s = job'[t].todo[k].upd
  BY <1>2
<1> QED
  BY <1>1, <1>2 DEF Stamps

(* The step of an edit here stamps nothing, and a step that stamps is of no edit. *)
TimesStep ==
  \/ Stamps' \subseteq Stamps /\ \A f \in File : file'[f].own \in {0, file[f].own, clock + 1}
  \/ /\ Stamps' \subseteq Stamps \cup {clock + 1}
     /\ \A f \in File : file'[f].own \in {0, file[f].own}

LEMMA OwnTimesByStep ==
  ASSUME PullInv, OwnTimes, TimesStep
  PROVE  OwnTimes'
<1> SUFFICES ASSUME NEW f \in File, file'[f].own # 0
             PROVE  file'[f].own \notin Stamps'
  BY DEF OwnTimes
<1>1. clock \in Nat /\ file[f].own \in Nat /\ file[f].own <= clock
  BY Parts, FileIsRow
<1>2. \A s \in Stamps : s \in Nat /\ s <= clock
  BY StampsPast
<1>3. file[f].own # 0 => file[f].own \notin Stamps
  BY DEF OwnTimes
<1>4. clock + 1 \notin Stamps
  BY <1>1, <1>2
<1>5. file[f].own # clock + 1
  BY <1>1
<1> QED
  BY <1>3, <1>4, <1>5 DEF TimesStep

LEMMA TimesByDocs ==
  ASSUME PullInv, UNCHANGED job, clock' = clock + 1, NEW d \in Doc, NEW new, new.upd = clock',
         doc' = [doc EXCEPT ![d] = new], \A f \in File : file'[f].own = file[f].own
  PROVE  TimesStep
<1>1. doc \in [Doc -> DocRow]
  BY Parts
<1>2. \A e \in Doc : doc'[e] = IF e = d THEN new ELSE doc[e]
  BY <1>1
<1>3. \A e \in Doc : doc'[e].upd \in Stamps \cup {clock + 1}
  BY <1>2, DocIsStamp
<1>4. Stamps' \subseteq Stamps \cup {clock + 1}
  <2> SUFFICES ASSUME NEW s \in Stamps'
               PROVE  s \in Stamps \cup {clock + 1}
    OBVIOUS
  <2>1. CASE \E e \in Doc : s = doc'[e].upd
    BY <2>1, <1>3
  <2>2. CASE \E t \in Task : \E k \in 1..Len(job[t].todo) : s = job[t].todo[k].upd
    BY <2>2, PageIsStamp
  <2> QED
    BY <2>1, <2>2 DEF Stamps
<1> QED
  BY <1>4 DEF TimesStep

LEMMA TimesByUsers ==
  ASSUME PullInv, NEW f \in File, WriteFile(f) \/ \E p \in Path : CreateFile(f, p)
  PROVE  TimesStep
<1>1. file \in [File -> FileRow] /\ UNCHANGED <<doc, job>> /\ clock' = clock + 1
  BY Parts DEF FilesOK, WriteFile, CreateFile, Edited
<1>2. Stamps' = Stamps
  BY <1>1 DEF Stamps
<1>3. \A g \in File : file'[g].own \in {0, file[g].own, clock + 1}
  <2>1. CASE WriteFile(f)
    <3>1. file' = [file EXCEPT ![f].text = clock', ![f].own = clock', ![f].dirty = clock',
                               ![f].queued = TRUE]
      BY <2>1 DEF WriteFile
    <3>2. file'[f].own = clock' /\ \A g \in File \ {f} : file'[g] = file[g]
      BY <1>1, <3>1 DEF FileRow
    <3> QED
      BY <1>1, <3>2
  <2>2. ASSUME NEW p \in Path, CreateFile(f, p)
        PROVE  \A g \in File : file'[g].own \in {0, file[g].own, clock + 1}
    <3> DEFINE new == [NoFile EXCEPT !.path = p, !.text = clock', !.own = clock',
                                     !.dirty = clock', !.queued = TRUE]
    <3>1. file' = [file EXCEPT ![f] = new]
      BY <2>2 DEF CreateFile
    <3>2. new.own = clock'
      BY DEF NoFile
    <3> HIDE DEF new
    <3> QED
      BY <1>1, <3>1, <3>2
  <2> QED
    BY <2>1, <2>2
<1> QED
  BY <1>2, <1>3 DEF TimesStep

LEMMA TimesByPushes ==
  ASSUME PullInv, NEW f \in File, PushStep(f)
  PROVE  TimesStep
<1>1. file \in [File -> FileRow] /\ UNCHANGED job
  BY Parts DEF FilesOK, PushStep, PushSend, Push404, PushBind, PushDone
<1>2. \A g \in File : file'[g].own = file[g].own
  <2>1. \/ file' = file
        \/ file' = [file EXCEPT ![f].queued = FALSE]
        \/ file' = [file EXCEPT ![f].doc = None, ![f].mirrored = 0, ![f].status = "none"]
        \/ file' = [file EXCEPT ![f].doc = push[f].doc, ![f].mirrored = 0,
                                ![f].status = "none"]
        \/ file' = [file EXCEPT ![f].status = "done", ![f].dirty = 0]
    BY DEF PushStep, PushSend, Push404, PushBind, PushDone
  <2> QED
    BY <1>1, <2>1 DEF FileRow
<1>3. CASE PushSend(f)
  <2>1. PICK d \in Doc :
          /\ clock' = clock + 1
          /\ doc' = [doc EXCEPT ![d] = [st |-> "processing", path |-> file[f].path,
                                        text |-> file[f].text, upd |-> clock']]
    BY <1>3 DEF PushSend
  <2> QED
    BY <1>1, <1>2, <2>1, TimesByDocs
<1>4. CASE UNCHANGED doc
  <2>1. Stamps' = Stamps
    BY <1>1, <1>4 DEF Stamps
  <2> QED
    BY <1>2, <2>1 DEF TimesStep
<1> QED
  BY <1>3, <1>4 DEF PushStep, Push404, PushBind, PushDone

LEMMA TimesByServer ==
  ASSUME PullInv, NEW d \in Doc, Process(d) \/ OtherEdits(d)
  PROVE  TimesStep
<1>1. doc \in [Doc -> DocRow] /\ clock' = clock + 1 /\ UNCHANGED <<job, file>>
  BY Parts DEF Process, OtherEdits, Edited
<1>2. PICK new : doc' = [doc EXCEPT ![d] = new] /\ new.upd = clock'
  <2>1. CASE Process(d)
    <3> DEFINE new == [doc[d] EXCEPT !.st = "done", !.upd = clock']
    <3>1. doc' = [doc EXCEPT ![d].st = "done", ![d].upd = clock']
      BY <2>1 DEF Process
    <3>2. doc' = [doc EXCEPT ![d] = new] /\ new.upd = clock'
      BY <1>1, <3>1 DEF DocRow
    <3> HIDE DEF new
    <3> QED
      BY <3>2
  <2>2. CASE OtherEdits(d)
    <3>1. PICK new \in [st : {"processing", "gone"}, path : Path,
                        text : {doc[d].text, clock'}, upd : {clock'}] :
                 doc' = [doc EXCEPT ![d] = new]
      BY <2>2 DEF OtherEdits
    <3> QED
      BY <3>1
  <2> QED
    BY <2>1, <2>2
<1> QED
  BY <1>1, <1>2, TimesByDocs

LEMMA TimesByLists ==
  ASSUME PullInv, DeltaList \/ DeltaEnd \/ \E t \in Puller, d \in Doc : HydrateGet(t, d)
  PROVE  TimesStep
<1>1. job \in [Task -> JobRow] /\ UNCHANGED <<file, doc>>
  BY Parts DEF LoopsOK, DeltaList, DeltaEnd, HydrateGet
<1>2. \A t \in Task : \A k \in 1..Len(job'[t].todo) : job'[t].todo[k].upd \in Stamps
  <2>1. CASE DeltaList
    <3> DEFINE copies == {Copy(d) : d \in Fresh}
    <3>1. PICK pages : pages \in Seq(copies) /\ job' = [job EXCEPT ![Delta] = Row(pages)]
      BY <2>1, ListsFresh
    <3>2. Fresh \in SUBSET Doc
      BY <2>1, ListsFresh
    <3>4. \A c \in copies : c.upd \in Stamps
      BY <3>2, DocIsStamp DEF Copy
    <3> HIDE DEF copies
    <3>5. \A k \in 1..Len(pages) : pages[k].upd \in Stamps
      BY <3>1, <3>4
    <3>6. \A t \in Task : job'[t].todo = IF t = Delta THEN pages ELSE job[t].todo
      BY <1>1, <3>1 DEF Row
    <3> QED
      BY <3>5, <3>6, PageIsStamp
  <2>2. CASE DeltaEnd
    <3>1. \A t \in Task : job'[t].todo = IF t = Delta THEN <<>> ELSE job[t].todo
      BY <1>1, <2>2 DEF DeltaEnd, NoJob
    <3> QED
      BY <3>1, PageIsStamp
  <2>3. ASSUME NEW u \in Puller, NEW d \in Doc, HydrateGet(u, d)
        PROVE  \A t \in Task : \A k \in 1..Len(job'[t].todo) : job'[t].todo[k].upd \in Stamps
    <3>1. \A t \in Task : job'[t].todo = IF t = u THEN <<Copy(d)>> ELSE job[t].todo
      BY <1>1, <2>3 DEF HydrateGet, JobRow
    <3>2. Len(<<Copy(d)>>) = 1 /\ <<Copy(d)>>[1].upd \in Stamps
      BY DocIsStamp DEF Copy
    <3> QED
      BY <3>1, <3>2, PageIsStamp
  <2> QED
    BY <2>1, <2>2, <2>3
<1>3. Stamps' \subseteq Stamps
  BY <1>1, <1>2, PagesAreStamps
<1> QED
  BY <1>1, <1>3 DEF TimesStep

LEMMA TimesByPulls ==
  ASSUME PullInv, NEW t \in Task, Reconcile(t)
  PROVE  TimesStep
<1> DEFINE c == Current(t)
<1>1. /\ file \in [File -> FileRow] /\ job \in [Task -> JobRow] /\ UNCHANGED doc
      /\ job[t].todo # <<>> /\ job[t].todo \in Seq(Page)
  BY Parts DEF FilesOK, LoopsOK, JobRow, HoldsPage, Reconcile, Mirror, Defer, Skip, Take,
     AttachFile, CreateLocal, HasPage
<1>2. \A u \in Task : job'[u].todo \in {job[u].todo, Tail(job[t].todo)}
  <2>1. CASE Advance(t)
    BY <1>1, <2>1 DEF Advance, JobRow
  <2>2. ASSUME NEW f \in File, Take(t, f)
        PROVE  \A u \in Task : job'[u].todo = job[u].todo
    BY <1>1, <2>2 DEF Take, JobRow
  <2> QED
    BY <2>1, <2>2 DEF Reconcile, Mirror, Defer, Skip, AttachFile, CreateLocal
<1>3. \A u \in Task : \A k \in 1..Len(job'[u].todo) : job'[u].todo[k].upd \in Stamps
  <2> TAKE u \in Task
  <2>1. \A k \in 1..Len(Tail(job[t].todo)) :
          Tail(job[t].todo)[k] = job[t].todo[k + 1] /\ k + 1 \in 1..Len(job[t].todo)
    BY <1>1
  <2> QED
    BY <1>2, <2>1, PageIsStamp
<1>4. Stamps' \subseteq Stamps
  BY <1>1, <1>3, PagesAreStamps
<1>5. \A g \in File : file'[g].own \in {0, file[g].own}
  <2>1. CASE file' = file
    BY <2>1
  <2>2. CASE Mirror(t)
    <3>0. PICK f \in File : f = job[t].on
      BY <2>2, Parts DEF Mirror, LoopsOK, JobRow
    <3>1. \/ file' = file
          \/ file' = [file EXCEPT ![f].text = c.text, ![f].mirrored = c.upd,
                                  ![f].status = "done"]
          \/ file' = [file EXCEPT ![f].status = c.st]
      BY <2>2, <3>0 DEF Mirror
    <3> HIDE DEF c
    <3>2. CASE file' = [file EXCEPT ![f].text = c.text, ![f].mirrored = c.upd,
                                    ![f].status = "done"]
      <4>1. file'[f].own = file[f].own
        BY <1>1, <3>2 DEF FileRow
      <4>2. \A g \in File \ {f} : file'[g] = file[g]
        BY <1>1, <3>2
      <4> QED
        BY <4>1, <4>2
    <3>3. CASE file' = [file EXCEPT ![f].status = c.st]
      <4>1. file'[f].own = file[f].own
        BY <1>1, <3>3 DEF FileRow
      <4>2. \A g \in File \ {f} : file'[g] = file[g]
        BY <1>1, <3>3
      <4> QED
        BY <4>1, <4>2
    <3> QED
      BY <3>1, <3>2, <3>3
  <2>3. ASSUME NEW f \in File, Take(t, f)
        PROVE  \A g \in File : file'[g].own \in {0, file[g].own}
    <3>1. file' = [file EXCEPT ![f].path = c.path]
      BY <2>3 DEF Take
    <3> HIDE DEF c
    <3> QED
      BY <1>1, <3>1 DEF FileRow
  <2>4. ASSUME NEW f \in File, AttachFile(t, f)
        PROVE  \A g \in File : file'[g].own \in {0, file[g].own}
    <3> DEFINE bound == [file[f] EXCEPT !.doc = c.id, !.mirrored = 0, !.status = "none"]
               shown == [bound EXCEPT !.text = c.text, !.mirrored = c.upd, !.status = "done"]
    <3>1. file' = [file EXCEPT ![f] = bound] \/ file' = [file EXCEPT ![f] = shown]
      BY <2>4 DEF AttachFile
    <3>2. bound.own = file[f].own /\ shown.own = file[f].own
      <4> HIDE DEF c
      <4> QED
        BY <1>1 DEF FileRow
    <3> HIDE DEF bound, shown
    <3> QED
      BY <1>1, <3>1, <3>2
  <2>5. ASSUME NEW f \in File, CreateLocal(t, f)
        PROVE  \A g \in File : file'[g].own \in {0, file[g].own}
    <3> DEFINE new == [NoFile EXCEPT !.path = c.path, !.text = c.text, !.doc = c.id,
                                     !.mirrored = c.upd, !.status = "done"]
    <3>1. file' = [file EXCEPT ![f] = new] /\ new.own = 0
      BY <2>5 DEF CreateLocal, NoFile
    <3> HIDE DEF new
    <3> QED
      BY <1>1, <3>1
  <2> QED
    BY <2>1, <2>2, <2>3, <2>4, <2>5 DEF Reconcile, Defer, Skip
<1> QED
  BY <1>4, <1>5 DEF TimesStep

LEMMA OwnTimesStep ==
  ASSUME PullInv, OwnTimes, [Next]_vars
  PROVE  OwnTimes'
<1>1. ASSUME UNCHANGED <<doc, job>>, \A f \in File : file'[f].own \in {0, file[f].own}
      PROVE  TimesStep
  BY <1>1 DEF TimesStep, Stamps
<1>2. ASSUME NEW f \in File, WriteFile(f) \/ PushStep(f) \/ \E p \in Path : CreateFile(f, p)
      PROVE  TimesStep
  BY <1>2, TimesByUsers, TimesByPushes
<1>3. ASSUME ScanRemove
      PROVE  TimesStep
  <2> DEFINE new == [NoFile EXCEPT !.path = "removed"]
  <2>1. file' = [file EXCEPT ![scan.on] = new] /\ UNCHANGED <<doc, job>> /\ new.own = 0
        /\ file \in [File -> FileRow]
    BY <1>3, Parts DEF ScanRemove, NoFile, FilesOK
  <2> HIDE DEF new
  <2> QED
    BY <1>1, <2>1
<1>4. ASSUME ScanList \/ ScanCompare \/ (\E d \in Doc : ScanCheck(d)) \/ ScanEnd
      PROVE  TimesStep
  BY <1>1, <1>4 DEF ScanList, ScanCompare, ScanCheck, ScanEnd
<1>5. ASSUME PollRows \/ PollList
      PROVE  TimesStep
  BY <1>1, <1>5 DEF PollRows, PollList
<1>6. ASSUME NEW f \in File, NEW d \in Doc, PollAsk(f, d)
      PROVE  TimesStep
  <2>1. PICK new \in PollNotes(f, d) : file' = [file EXCEPT ![f] = new]
    BY <1>6, PollAskChanges
  <2>2. new.own = file[f].own /\ UNCHANGED <<doc, job>> /\ file \in [File -> FileRow]
    BY <1>6, PollNoteIsRow, Parts DEF PollAsk, FilesOK
  <2> QED
    BY <1>1, <2>1, <2>2
<1>7. ASSUME UNCHANGED vars
      PROVE  TimesStep
  BY <1>1, <1>7 DEF vars
<1>8. TimesStep
  BY <1>2, <1>3, <1>4, <1>5, <1>6, <1>7, TimesByServer, TimesByLists, TimesByPulls
  DEF Next, ScanStep, PollStep
<1> QED
  BY <1>8, OwnTimesByStep
-----------------------------------------------------------------------------
LEMMA WaitInvInit == Init => WaitInv
<1> SUFFICES ASSUME Init
             PROVE  WaitInv
  OBVIOUS
<1> DEFINE f0 == CHOOSE f \in File : TRUE
           d0 == CHOOSE d \in Doc : TRUE
           p0 == CHOOSE p \in Path : TRUE
           first == [NoFile EXCEPT !.path = p0, !.text = 1, !.doc = d0, !.mirrored = 2,
                                   !.status = "done"]
<1>a. job = [t \in Task |-> NoJob] /\ push = [g \in File |-> NoPush] /\ scan = NoScan
  BY DEF Init
<1>b. PICK held \in BOOLEAN : file = [g \in File |-> IF held /\ g = f0 THEN first ELSE NoFile]
  BY DEF Init
<1>c. first.own = 0 /\ first.queued = FALSE /\ NoFile.own = 0 /\ NoFile.queued = FALSE
  BY DEF NoFile
<1> HIDE DEF f0, first
<1>1. /\ job = [t \in Task |-> NoJob] /\ push = [g \in File |-> NoPush] /\ scan = NoScan
      /\ \A g \in File : file[g].own = 0 /\ file[g].queued = FALSE
  BY <1>a, <1>b, <1>c
<1>2. OneLocked /\ LockedIsClean
  BY <1>1 DEF OneLocked, LockedIsClean, NoJob, NoScan
<1>3. WaitingIsDirty /\ OwnTimes
  BY <1>1 DEF WaitingIsDirty, Waits, OwnTimes
<1> QED
  BY <1>2, <1>3, PullInvInit DEF WaitInv

LEMMA WaitInvStep ==
  ASSUME Orderly, WaitInv, [Next]_vars
  PROVE  WaitInv'
<1>1. PullInv /\ PullInv'
  BY PullInvStep DEF WaitInv
<1>2. LocksOK'
  BY <1>1, LocksStep DEF WaitInv, LocksOK
<1>3. WaitingIsDirty' /\ OwnTimes'
  BY <1>1, WaitsStep, OwnTimesStep DEF WaitInv
<1> QED
  BY <1>1, <1>2, <1>3 DEF WaitInv, LocksOK

(* The step of LocalWins, for one file. *)
Spared(f) ==
  Live(f) /\ file[f].queued /\ file[f].text = file[f].own
  /\ file'[f].text # file[f].text /\ edits' = edits =>
    Live(f)' /\ file[f].text < file'[f].mirrored

LEMMA SparedByPulls ==
  ASSUME WaitInv, NEW t \in Task, Reconcile(t), NEW f \in File
  PROVE  Spared(f)
<1> SUFFICES ASSUME Live(f), file[f].queued, file[f].text = file[f].own,
                    file'[f].text # file[f].text
             PROVE  Live(f)' /\ file[f].text < file'[f].mirrored
  BY DEF Spared
<1> DEFINE c == Current(t)
<1>1. PullInv /\ file \in [File -> FileRow] /\ file[f].dirty \in Nat
  BY Parts, FileIsRow DEF WaitInv, FilesOK
<1>2. file[f].dirty = file[f].own /\ file[f].own # 0
  BY DEF WaitInv, WaitingIsDirty, Waits
<1>3. job[t].todo # <<>>
  BY <1>1, Parts DEF HoldsPage, Reconcile, Mirror, Defer, Skip, Take, AttachFile,
     CreateLocal, HasPage
<1>4. c.upd \in Nat /\ c.upd # file[f].own
  <2>1. c = job[t].todo[1] /\ c.upd \in Nat
    BY <1>1, <1>3, CurrentPage
  <2>2. 1 \in 1..Len(job[t].todo)
    BY <1>1, <1>3, Parts DEF LoopsOK, JobRow
  <2>3. c.upd \in Stamps
    BY <2>1, <2>2, PageIsStamp
  <2> QED
    BY <1>2, <2>1, <2>3 DEF WaitInv, OwnTimes
<1>5. CASE Mirror(t)
  <2>1. PICK g \in File : g = job[t].on
    BY <1>1, <1>5, Parts DEF Mirror, LoopsOK, JobRow
  <2>2. \/ file' = file
        \/ file' = [file EXCEPT ![g].text = c.text, ![g].mirrored = c.upd,
                                ![g].status = "done"]
        \/ file' = [file EXCEPT ![g].status = c.st]
    BY <1>5, <2>1 DEF Mirror
  <2>3. file[g].dirty <= c.upd
    BY <1>1, <1>3, <1>5, <2>1, CurrentPage DEF Mirror, WaitInv, LockedIsClean
  <2> HIDE DEF c
  <2>4. file' = [file EXCEPT ![g].text = c.text, ![g].mirrored = c.upd, ![g].status = "done"]
        /\ g = f
    BY <1>1, <2>2 DEF FileRow
  <2>5. file'[f].path = file[f].path /\ file'[f].mirrored = c.upd
    BY <1>1, <2>4 DEF FileRow
  <2>6. file[f].own < c.upd
    BY <1>1, <1>2, <1>4, <2>3, <2>4
  <2> QED
    BY <2>5, <2>6 DEF Live
<1>6. ASSUME NEW g \in File, Take(t, g)
      PROVE  FALSE
  <2>1. file' = [file EXCEPT ![g].path = c.path]
    BY <1>6 DEF Take
  <2> HIDE DEF c
  <2> QED
    BY <1>1, <2>1 DEF FileRow
<1>7. ASSUME NEW g \in File, AttachFile(t, g)
      PROVE  Live(f)' /\ file[f].text < file'[f].mirrored
  <2> DEFINE bound == [file[g] EXCEPT !.doc = c.id, !.mirrored = 0, !.status = "none"]
             shown == [bound EXCEPT !.text = c.text, !.mirrored = c.upd, !.status = "done"]
  <2>1. \/ file' = [file EXCEPT ![g] = bound]
        \/ file' = [file EXCEPT ![g] = shown] /\ ~(file[g].dirty > c.upd)
    BY <1>7 DEF AttachFile, LocalNewer
  <2> HIDE DEF c
  <2>2. bound.text = file[g].text /\ shown.path = file[g].path /\ shown.mirrored = c.upd
    BY <1>1 DEF FileRow
  <2> HIDE DEF bound, shown
  <2>3. g = f /\ file' = [file EXCEPT ![g] = shown] /\ ~(file[g].dirty > c.upd)
    BY <1>1, <2>1, <2>2
  <2>4. file'[f] = shown
    BY <1>1, <2>3
  <2>5. file[f].own < c.upd
    BY <1>1, <1>2, <1>4, <2>3
  <2> QED
    BY <2>2, <2>3, <2>4, <2>5 DEF Live
<1>8. ASSUME NEW g \in File, CreateLocal(t, g)
      PROVE  FALSE
  <2> DEFINE new == [NoFile EXCEPT !.path = c.path, !.text = c.text, !.doc = c.id,
                                   !.mirrored = c.upd, !.status = "done"]
  <2>1. file' = [file EXCEPT ![g] = new] /\ file[g] = NoFile
    BY <1>8 DEF CreateLocal, Unused
  <2> HIDE DEF new
  <2>2. g = f
    BY <1>1, <2>1
  <2> QED
    BY <2>1, <2>2 DEF NoFile
<1> QED
  BY <1>5, <1>6, <1>7, <1>8 DEF Reconcile, Defer, Skip

LEMMA SparedByOthers ==
  ASSUME WaitInv, [Next]_vars, ~(\E t \in Task : Reconcile(t)), NEW f \in File
  PROVE  Spared(f)
<1> SUFFICES ASSUME Live(f), file[f].queued, file'[f].text # file[f].text, edits' = edits
             PROVE  FALSE
  BY DEF Spared
<1>1. PullInv /\ file \in [File -> FileRow] /\ edits \in Nat
  BY Parts, NamesApart DEF WaitInv, FilesOK, LoopsOK
<1>2. file[f].dirty = file[f].own /\ file[f].own # 0
  BY DEF WaitInv, WaitingIsDirty, Waits
<1>3. ASSUME NEW g \in File, PushStep(g)
      PROVE  FALSE
  <2>1. \/ file' = file
        \/ file' = [file EXCEPT ![g].queued = FALSE]
        \/ file' = [file EXCEPT ![g].doc = None, ![g].mirrored = 0, ![g].status = "none"]
        \/ file' = [file EXCEPT ![g].doc = push[g].doc, ![g].mirrored = 0,
                                ![g].status = "none"]
        \/ file' = [file EXCEPT ![g].status = "done", ![g].dirty = 0]
    BY <1>3 DEF PushStep, PushSend, Push404, PushBind, PushDone
  <2> QED
    BY <1>1, <2>1 DEF FileRow
<1>4. ASSUME NEW g \in File, WriteFile(g) \/ \E p \in Path : CreateFile(g, p)
      PROVE  FALSE
  <2>1. edits' = edits + 1
    BY <1>4 DEF WriteFile, CreateFile, Edited
  <2> QED
    BY <1>1, <2>1
<1>5. CASE ScanRemove
  <2>1. scan.on # None /\ file' = [file EXCEPT ![scan.on] = [NoFile EXCEPT !.path = "removed"]]
    BY <1>5 DEF ScanRemove
  <2>2. scan.on = f
    BY <1>1, <2>1
  <2>3. file[f].dirty = 0
    BY <2>1, <2>2 DEF WaitInv, LockedIsClean
  <2> QED
    BY <1>2, <2>3
<1>6. ASSUME NEW g \in File, NEW d \in Doc, PollAsk(g, d)
      PROVE  FALSE
  <2>1. PICK new \in PollNotes(g, d) : file' = [file EXCEPT ![g] = new]
    BY <1>1, <1>6, PollAskChanges
  <2>2. new.text = file[g].text
    BY <1>1, PollNoteIsRow
  <2> QED
    BY <1>1, <2>1, <2>2
<1>7. file' # file
  OBVIOUS
<1> QED
  BY <1>3, <1>4, <1>5, <1>6, <1>7
  DEF Next, vars, Process, OtherEdits, DeltaList, DeltaEnd, HydrateGet, ScanStep, ScanList,
      ScanCompare, ScanCheck, ScanEnd, PollStep, PollRows, PollList

(* Where nothing happens between two locks of a pull or a scan, and no     *)
(* file is written while it is pushed, an edit that waits for its push is  *)
(* removed by nothing and replaced only by a version that is newer.        *)
THEOREM WaitingEditsWin ==
  ASSUME Orderly
  PROVE  Spec => LocalWins
<1>1. ASSUME WaitInv, [Next]_vars
      PROVE  \A f \in File : Spared(f)
  BY <1>1, SparedByPulls, SparedByOthers
<1>2. WaitInv /\ [Next]_vars =>
        [\A f \in File : Live(f) /\ file[f].queued /\ file[f].text = file[f].own
           /\ file'[f].text # file[f].text /\ edits' = edits =>
             Live(f)' /\ file[f].text < file'[f].mirrored]_vars
  BY <1>1 DEF Spared
<1>3. WaitInv /\ [Next]_vars => WaitInv'
  BY WaitInvStep
<1> QED
  BY <1>2, <1>3, WaitInvInit, PTL DEF Spec, LocalWins
-----------------------------------------------------------------------------
(***************************************************************************)
(* The watermark.  In a peaceful cache documents are created and written   *)
(* but not moved or deleted, no two of one path are created at once, the   *)
(* scan and the poller rest, and only the delta pull can be between two    *)
(* locks while something else happens.                                     *)
(***************************************************************************)
Peaceful ==
  /\ Edits \subseteq {"write", "post", "patch"}
  /\ Hazards \subseteq {"race", "resave"}
  /\ Puller = {} \/ "race" \notin Hazards

NoScanning == scan = NoScan

NoneGone == \A d \in Doc : doc[d].st # "gone"

(* No two documents share a path. *)
Alone ==
  \A d, e \in Doc :
    doc[d].st # "unborn" /\ doc[e].st # "unborn" /\ doc[d].path = doc[e].path => d = e

(* A file lies at the path of the document it is bound or pushed to and is *)
(* the only one that can be; what it mirrors is no news, and an edit of it *)
(* that is newer than the document waits.                                  *)
Fits(row, sent, docs, now) ==
  /\ row.path \in Path \cup {None} /\ row.dirty <= now
  /\ \A d \in {row.doc, sent.doc} \ {None} :
       /\ row.path \in Path /\ row.path = docs[d].path
       /\ row.dirty > docs[d].upd => row.queued
  /\ \A d \in Doc :
       row.path \in Path /\ docs[d].st # "unborn" /\ docs[d].path = row.path =>
         d \in {row.doc, sent.doc}
  /\ row.doc # None => row.mirrored <= docs[row.doc].upd

FilesFit == \A f \in File : Fits(file[f], push[f], doc, clock)

(* A page is of the path of its document, and has its state if it is the   *)
(* newest version.                                                         *)
PageOld(c) ==
  /\ c.upd <= doc[c.id].upd /\ c.path = doc[c.id].path
  /\ c.upd = doc[c.id].upd => c.st = doc[c.id].st

PagesOld == \A t \in Task : \A k \in 1..Len(job[t].todo) : PageOld(job[t].todo[k])

(* What changed since the delta pull began is newer than all of its pages. *)
DeltaPages ==
  /\ job[Delta].todo # <<>> => job[Delta].newest # 0
  /\ \A k \in 1..Len(job[Delta].todo) :
       LET c == job[Delta].todo[k]
       IN  c.upd = doc[c.id].upd \/ doc[c.id].upd > job[Delta].newest

MarksOld ==
  /\ seen <= clock /\ job[Delta].newest <= clock
  /\ job[Delta].newest # 0 => seen <= job[Delta].newest

(* The file a pull holds is that of its page, and where nothing happens    *)
(* between the locks it is the only one that is held and not yet mirrored. *)
Held ==
  \A t \in Task : job[t].on # None =>
    /\ file[job[t].on].doc = job[t].todo[1].id
    /\ "race" \notin Hazards =>
         /\ file[job[t].on].mirrored < job[t].todo[1].upd \/ job[t].todo[1].st # "done"
         /\ \A u \in Task : job[u].on # None => u = t

(* The watermark the delta pull will leave, and what it still has to do. *)
Mark == IF job[Delta].newest = 0 THEN seen ELSE job[Delta].newest

ToDo(d) ==
  \E k \in 1..Len(job[Delta].todo) :
    job[Delta].todo[k].id = d /\ job[Delta].todo[k].upd = doc[d].upd

(* What the delta pull has not come to. *)
Beyond(d) ==
  job[Delta].more /\ doc[d].upd > seen /\ job[Delta].page * PageSize <= Cardinality(Ahead(d))

(* A file mirrors the newest version of the document or waits to replace it. *)
Kept(d) == \E f \in File : file[f].doc = d /\ (file[f].queued \/ file[f].mirrored = doc[d].upd)

Passed ==
  \A d \in Doc :
    doc[d].st = "done" /\ doc[d].upd <= Mark /\ ~ToDo(d) /\ ~Beyond(d) => Kept(d)

PagesFit == PagesOld /\ DeltaPages /\ MarksOld

MarkInv ==
  /\ PullInv /\ Shown /\ NoPolling /\ NoScanning
  /\ NoneGone /\ Alone /\ FilesFit /\ PagesFit /\ Held /\ Passed
-----------------------------------------------------------------------------
(* Neither the scan nor the poller ever starts. *)
LEMMA NothingBeside ==
  ASSUME Peaceful, NoScanning, NoPolling, [Next]_vars
  PROVE  NoScanning' /\ NoPolling' /\ ~ScanStep /\ ~PollStep
<1>1. "poller" \notin Hazards /\ "scan" \notin Hazards
  BY DEF Peaceful
<1>2. NoPolling' /\ ~PollStep
  BY <1>1, NothingPolled
<1>3. ~ScanStep
  BY <1>1, NamesApart
     DEF NoScanning, NoScan, ScanStep, ScanList, ScanCompare, ScanCheck, ScanRemove, ScanEnd
<1>4. UNCHANGED scan
  BY <1>2, <1>3
     DEF Next, vars, WriteFile, CreateFile, PushStep, PushSend, Push404, PushBind, PushDone,
         Process, OtherEdits, DeltaList, DeltaEnd, HydrateGet, Reconcile, Mirror, Defer,
         Skip, Take, AttachFile, CreateLocal
<1> QED
  BY <1>2, <1>3, <1>4 DEF NoScanning

(* What is unborn is in no file and on no page. *)
LEMMA StampsAreOld ==
  ASSUME PullInv
  PROVE  \A d \in Doc : doc[d] \in DocRow /\ doc[d].upd \in Nat /\ doc[d].upd <= clock
BY Parts DEF Stamped, DocRow

LEMMA PushIsRow ==
  ASSUME PullInv, NEW f \in File
  PROVE  /\ push[f] \in [doc : Doc \cup {None}, text : Nat] /\ push[f].doc \in Doc \cup {None}
         /\ push[f].doc # None => doc[push[f].doc].st # "unborn"
         /\ push[f] = NoPush <=> push[f].doc = None
<1>1. push[f] \in [doc : Doc \cup {None}, text : Nat]
  BY Parts DEF PushOK
<1> QED
  BY <1>1, Parts DEF PushOK, NoPush

(* The place of a document in the list falls with its stamp. *)
LEMMA PlaceInList ==
  ASSUME NEW d \in Doc
  PROVE  /\ IsFiniteSet(Ahead(d)) /\ Cardinality(Ahead(d)) \in Nat
         /\ Cardinality(Listed) \in Nat
         /\ d \in Listed /\ doc[d].upd \in Nat => Cardinality(Ahead(d)) < Cardinality(Listed)
<1>1. IsFiniteSet(Listed) /\ Ahead(d) \in SUBSET Listed
  BY PullAssumption, FS_Subset DEF Listed, Ahead
<1>2. /\ IsFiniteSet(Ahead(d)) /\ Cardinality(Ahead(d)) \in Nat /\ Cardinality(Listed) \in Nat
      /\ Cardinality(Ahead(d)) <= Cardinality(Listed)
      /\ Cardinality(Ahead(d)) = Cardinality(Listed) => Ahead(d) = Listed
  BY <1>1, FS_Subset, FS_CardinalityType
<1>3. doc[d].upd \in Nat => d \notin Ahead(d)
  BY DEF Ahead
<1> QED
  BY <1>2, <1>3

LEMMA NewerIsAhead ==
  ASSUME PullInv, NEW d \in Doc, NEW e \in Doc, doc[d].upd <= doc[e].upd
  PROVE  Cardinality(Ahead(e)) <= Cardinality(Ahead(d))
<1>1. Ahead(e) \in SUBSET Ahead(d)
  BY StampsAreOld DEF Ahead, Listed
<1> QED
  BY <1>1, PlaceInList, FS_Subset

LEMMA BeyondKept ==
  ASSUME UNCHANGED <<doc, seen>>, job'[Delta].page = job[Delta].page,
         job'[Delta].more = job[Delta].more, NEW d \in Doc
  PROVE  Beyond(d)' = Beyond(d)
<1>1. Ahead(d)' = Ahead(d)
  BY DEF Ahead, Listed
<1> QED
  BY <1>1 DEF Beyond

(* A document gets a new version, at its path or at one that is free. *)
NewVersion(d, new) ==
  /\ new \in DocRow /\ new.st \in {"processing", "done"} /\ new.path \in Path
  /\ clock' = clock + 1 /\ new.upd = clock' /\ doc' = [doc EXCEPT ![d] = new]
  /\ IF doc[d].st = "unborn"
     THEN \A e \in Doc : doc[e].st # "unborn" => doc[e].path # new.path
     ELSE new.path = doc[d].path
  /\ UNCHANGED <<seen, job>>

LEMMA VersionDocs ==
  ASSUME PullInv, NEW d \in Doc, NEW new, NewVersion(d, new)
  PROVE  /\ clock \in Nat /\ clock' = clock + 1 /\ doc'[d] = new
         /\ doc'[d].upd = clock' /\ doc'[d].st # "unborn" /\ doc'[d].path = new.path
         /\ \A e \in Doc \ {d} : doc'[e] = doc[e]
         /\ \A e \in Doc : /\ doc'[e].upd \in Nat /\ doc[e].upd <= doc'[e].upd
                           /\ doc[e].st # "unborn" => /\ doc'[e].path = doc[e].path
                                                      /\ doc'[e].st # "unborn"
<1>1. clock \in Nat /\ doc \in [Doc -> DocRow]
  BY Parts
<1>2. doc'[d] = new /\ \A e \in Doc \ {d} : doc'[e] = doc[e]
  BY <1>1 DEF NewVersion
<1> QED
  BY <1>1, <1>2, StampsAreOld DEF NewVersion

LEMMA AloneByVersion ==
  ASSUME PullInv, NoneGone, Alone, NEW d \in Doc, NEW new, NewVersion(d, new)
  PROVE  NoneGone' /\ Alone'
<1>1. NoneGone'
  BY VersionDocs DEF NoneGone, NewVersion
<1>2. Alone'
  <2> SUFFICES ASSUME NEW e \in Doc, NEW g \in Doc, doc'[e].st # "unborn",
                      doc'[g].st # "unborn", doc'[e].path = doc'[g].path
               PROVE  e = g
    BY DEF Alone
  <2>1. CASE doc[e].st # "unborn" /\ doc[g].st # "unborn"
    BY <2>1, VersionDocs DEF Alone
  <2>2. CASE doc[e].st = "unborn"
    <3>1. e = d /\ doc'[e].path = new.path
      BY <2>2, VersionDocs
    <3> QED
      BY <2>2, <3>1, VersionDocs DEF NewVersion
  <2>3. CASE doc[g].st = "unborn"
    <3>1. g = d /\ doc'[g].path = new.path
      BY <2>3, VersionDocs
    <3> QED
      BY <2>3, <3>1, VersionDocs DEF NewVersion
  <2> QED
    BY <2>1, <2>2, <2>3
<1> QED
  BY <1>1, <1>2

LEMMA PagesByVersion ==
  ASSUME PullInv, PagesFit, NEW d \in Doc, NEW new, NewVersion(d, new)
  PROVE  PagesFit'
<1>1. UNCHANGED <<seen, job>> /\ seen \in Nat /\ Delta \in Task /\ job[Delta].newest \in Nat
  BY Parts DEF NewVersion, LoopsOK, JobRow, Task
<1>2. MarksOld'
  BY <1>1, VersionDocs DEF PagesFit, MarksOld
<1>3. ASSUME NEW t \in Task, NEW k \in 1..Len(job[t].todo)
      PROVE  /\ job[t].todo[k].id \in Doc /\ job[t].todo[k].upd \in 1..clock
             /\ doc[job[t].todo[k].id].st # "unborn"
  <2>1. job[t].todo[k] \in Page
    BY Parts DEF LoopsOK, JobRow
  <2> QED
    BY <2>1, Parts DEF PagesAreVersions, VersionOf, Page
<1>4. PagesOld'
  <2> SUFFICES ASSUME NEW t \in Task, NEW k \in 1..Len(job[t].todo)
               PROVE  PageOld(job[t].todo[k])'
    BY <1>1 DEF PagesOld
  <2> DEFINE c == job[t].todo[k]
  <2>1. PageOld(c) /\ c.id \in Doc /\ c.upd \in 1..clock /\ doc[c.id].st # "unborn"
    BY <1>3 DEF PagesFit, PagesOld
  <2>2. c.upd <= doc'[c.id].upd /\ c.path = doc'[c.id].path
    <3>1. c.upd \in Nat /\ c.upd <= doc[c.id].upd /\ c.path = doc[c.id].path
      BY <2>1 DEF PageOld
    <3>2. /\ doc[c.id].upd \in Nat /\ doc'[c.id].upd \in Nat
          /\ doc[c.id].upd <= doc'[c.id].upd /\ doc'[c.id].path = doc[c.id].path
      BY <2>1, VersionDocs, StampsAreOld
    <3> HIDE DEF c
    <3> QED
      BY <3>1, <3>2
  <2>3. c.upd = doc'[c.id].upd => c.st = doc'[c.id].st
    <3>1. CASE c.id = d
      BY <2>1, <3>1, VersionDocs
    <3>2. CASE c.id # d
      BY <2>1, <3>2, VersionDocs DEF PageOld
    <3> QED
      BY <3>1, <3>2
  <2> QED
    BY <1>1, <2>2, <2>3 DEF PageOld
<1>5. DeltaPages'
  <2> SUFFICES ASSUME NEW k \in 1..Len(job[Delta].todo)
               PROVE  \/ job[Delta].todo[k].upd = doc'[job[Delta].todo[k].id].upd
                      \/ doc'[job[Delta].todo[k].id].upd > job[Delta].newest
    BY <1>1 DEF DeltaPages, PagesFit
  <2> DEFINE c == job[Delta].todo[k]
  <2>1. c.id \in Doc /\ (c.upd = doc[c.id].upd \/ doc[c.id].upd > job[Delta].newest)
    BY <1>1, <1>3 DEF PagesFit, DeltaPages
  <2>2. CASE c.id = d
    BY <1>1, <2>2, VersionDocs DEF PagesFit, MarksOld
  <2>3. CASE c.id # d
    BY <2>1, <2>3, VersionDocs
  <2> QED
    BY <2>2, <2>3
<1> QED
  BY <1>2, <1>4, <1>5 DEF PagesFit

(* A row still fits when a document elsewhere, or its own, has a new version. *)
LEMMA FitsByVersion ==
  ASSUME PullInv, NEW d \in Doc, NEW new, NewVersion(d, new), NEW f \in File,
         Fits(file[f], push[f], doc, clock),
         doc[d].st = "unborn" => file[f].path # new.path
  PROVE  Fits(file[f], push[f], doc', clock')
<1> DEFINE row == file[f]
           sent == push[f]
<1>1. /\ row.doc \in Doc \cup {None} /\ row.mirrored \in Nat /\ row.dirty \in Nat
      /\ row.doc # None => doc[row.doc].st # "unborn"
      /\ sent.doc \in Doc \cup {None} /\ (sent.doc # None => doc[sent.doc].st # "unborn")
  BY FileIsRow, PushIsRow
<1>2. row.path \in Path \cup {None} /\ row.dirty <= clock'
  BY <1>1, VersionDocs DEF Fits
<1>3. ASSUME NEW e \in {row.doc, sent.doc} \ {None}
      PROVE  /\ row.path \in Path /\ row.path = doc'[e].path
             /\ row.dirty > doc'[e].upd => row.queued
  <2>1. e \in Doc /\ doc[e].st # "unborn"
    BY <1>1, <1>3
  <2>2. /\ row.path \in Path /\ row.path = doc[e].path
        /\ row.dirty > doc[e].upd => row.queued
    BY <1>3 DEF Fits
  <2> QED
    BY <1>1, <2>1, <2>2, VersionDocs, StampsAreOld
<1>4. ASSUME NEW e \in Doc, row.path \in Path, doc'[e].st # "unborn", doc'[e].path = row.path
      PROVE  e \in {row.doc, sent.doc}
  <2>1. CASE doc[e].st = "unborn"
    BY <1>4, <2>1, VersionDocs
  <2>2. CASE doc[e].st # "unborn"
    BY <1>4, <2>2, VersionDocs DEF Fits
  <2> QED
    BY <2>1, <2>2
<1>5. row.doc # None => row.mirrored <= doc'[row.doc].upd
  <2> SUFFICES ASSUME row.doc # None
               PROVE  row.mirrored <= doc'[row.doc].upd
    OBVIOUS
  <2>1. row.doc \in Doc /\ row.mirrored <= doc[row.doc].upd
    BY <1>1 DEF Fits
  <2> QED
    BY <1>1, <2>1, VersionDocs, StampsAreOld
<1> HIDE DEF row, sent
<1>6. Fits(row, sent, doc', clock')
  BY <1>2, <1>3, <1>4, <1>5 DEF Fits
<1> QED
  BY <1>6 DEF row, sent

LEMMA PassedByVersion ==
  ASSUME PullInv, Passed, PagesFit, NEW d \in Doc, NEW new, NewVersion(d, new),
         \A g \in File : /\ file'[g].doc = file[g].doc /\ file'[g].mirrored = file[g].mirrored
                         /\ file[g].queued /\ ~file'[g].queued => file[g].doc \in {None, d}
  PROVE  Passed'
<1> SUFFICES ASSUME NEW e \in Doc, doc'[e].st = "done", doc'[e].upd <= Mark', ~ToDo(e)',
                    ~Beyond(e)'
             PROVE  Kept(e)'
  BY DEF Passed
<1>1. Mark' = Mark /\ Mark \in Nat /\ Mark <= clock /\ UNCHANGED job
  BY Parts DEF NewVersion, LoopsOK, JobRow, Task, Mark, PagesFit, MarksOld
<1>2. e # d
  BY <1>1, VersionDocs
<1>3. doc'[e] = doc[e]
  BY <1>2, VersionDocs
<1>4. ~ToDo(e)
  BY <1>1, <1>3 DEF ToDo
<1>a. /\ Cardinality(Ahead(e)) <= Cardinality(Ahead(e)')
      /\ Cardinality(Ahead(e)) \in Nat /\ Cardinality(Ahead(e)') \in Nat
  <2>1. Ahead(e) \in SUBSET (Ahead(e)')
    <3> SUFFICES ASSUME NEW x \in Ahead(e)
                 PROVE  x \in Ahead(e)'
      OBVIOUS
    <3>1. x \in Doc /\ doc[x].st \in {"processing", "done"} /\ doc[x].upd > doc[e].upd
      BY DEF Ahead, Listed
    <3>2. doc'[x].st \in {"processing", "done"}
      BY <3>1, VersionDocs DEF NewVersion
    <3>3. doc'[x].upd > doc'[e].upd
      BY <1>3, <3>1, VersionDocs, StampsAreOld
    <3> QED
      BY <3>1, <3>2, <3>3 DEF Ahead, Listed
  <2>2. IsFiniteSet(Ahead(e)')
    <3>1. (Ahead(e)') \in SUBSET Doc
      BY DEF Ahead, Listed
    <3> QED
      BY <3>1, PullAssumption, FS_Subset
  <2> QED
    BY <2>1, <2>2, FS_Subset, FS_CardinalityType
<1>b. ~Beyond(e)
  <2> SUFFICES ASSUME Beyond(e)
               PROVE  FALSE
    OBVIOUS
  <2>1. /\ job'[Delta].more /\ doc'[e].upd > seen'
        /\ job'[Delta].page * PageSize <= Cardinality(Ahead(e))
        /\ job'[Delta].page * PageSize \in Nat
    BY <1>1, <1>3, Parts, PullAssumption DEF Beyond, NewVersion, LoopsOK, JobRow, Task
  <2>2. job'[Delta].page * PageSize <= Cardinality(Ahead(e)')
    BY <1>a, <2>1
  <2> QED
    BY <2>1, <2>2 DEF Beyond
<1>5. PICK f \in File : file[f].doc = e /\ (file[f].queued \/ file[f].mirrored = doc[e].upd)
  BY <1>1, <1>3, <1>4, <1>b DEF Passed, Kept
<1>6. file'[f].doc = e /\ (file'[f].queued \/ file'[f].mirrored = doc'[e].upd)
  BY <1>2, <1>3, <1>5, NamesApart
<1> QED
  BY <1>6 DEF Kept

LEMMA HeldKept ==
  ASSUME PullInv, Held, Calm, NoScanning, UNCHANGED job,
         \A g \in File : file[g].doc # None => file'[g].doc = file[g].doc
  PROVE  Held'
<1> SUFFICES ASSUME NEW t \in Task, job[t].on # None
             PROVE  /\ file'[job[t].on].doc = job[t].todo[1].id
                    /\ "race" \in Hazards
  BY DEF Held
<1>1. "race" \in Hazards
  BY DEF Calm
<1>2. job[t].on \in File /\ job[t].todo # <<>>
  BY Parts DEF LoopsOK, JobRow, HoldsPage
<1>3. job[t].todo[1].id \in Doc
  BY <1>2, CurrentPage
<1>4. file[job[t].on].doc = job[t].todo[1].id
  BY DEF Held
<1> QED
  BY <1>1, <1>2, <1>3, <1>4, NamesApart

(* What holds of the server, the pulls and the watermark after a new version. *)
LEMMA MarksByVersion ==
  ASSUME MarkInv, Calm, NEW d \in Doc, NEW new, NewVersion(d, new), FilesFit',
         \A g \in File : /\ file'[g].doc = file[g].doc /\ file'[g].mirrored = file[g].mirrored
                         /\ file[g].queued /\ ~file'[g].queued => file[g].doc \in {None, d}
  PROVE  NoneGone' /\ Alone' /\ FilesFit' /\ PagesFit' /\ Held' /\ Passed'
<1>1. PullInv /\ NoScanning /\ NoneGone /\ Alone /\ PagesFit /\ Held /\ Passed
  BY DEF MarkInv
<1>2. NoneGone' /\ Alone'
  BY <1>1, AloneByVersion
<1>3. PagesFit'
  BY <1>1, PagesByVersion
<1>4. Held'
  BY <1>1, HeldKept DEF NewVersion
<1>5. Passed'
  BY <1>1, PassedByVersion
<1> QED
  BY <1>2, <1>3, <1>4, <1>5

(* What is not gone, not unborn is listed, and no listed document has a    *)
(* path that is vacant.                                                    *)
LEMMA VacantPath ==
  ASSUME Peaceful, PullInv, NoneGone, NEW p \in Path, Vacant(p)
  PROVE  /\ \A f \in File : file[f].path # p
         /\ \A d \in Doc : doc[d].st # "unborn" => doc[d].path # p
<1>1. At(p) = {} /\ \A d \in Listed : doc[d].path # p
  BY DEF Vacant, Peaceful
<1>2. \A d \in Doc : doc[d].st # "unborn" => d \in Listed
  BY StampsAreOld DEF NoneGone, Listed, DocRow
<1> QED
  BY <1>1, <1>2 DEF At

LEMMA MarksByProcess ==
  ASSUME MarkInv, NEW d \in Doc, Process(d)
  PROVE  NoneGone' /\ Alone' /\ FilesFit' /\ PagesFit' /\ Held' /\ Passed'
<1> DEFINE new == [doc[d] EXCEPT !.st = "done", !.upd = clock']
<1>1. PullInv /\ FilesFit /\ clock \in Nat /\ clock' \in Nat /\ Stamped /\ doc[d] \in DocRow
  BY Parts DEF MarkInv, Process
<1>2. /\ new \in DocRow /\ new.st = "done" /\ new.path = doc[d].path /\ new.upd = clock'
      /\ doc[d].st = "processing" /\ doc[d].path \in Path
  BY <1>1 DEF DocRow, Process, Stamped
<1>3. doc' = [doc EXCEPT ![d] = new]
  BY <1>1, Parts DEF Process, DocRow
<1>4. NewVersion(d, new)
  <2> HIDE DEF new
  <2> QED
    BY <1>2, <1>3 DEF NewVersion, Process
<1>5. UNCHANGED <<file, push>> /\ Calm
  BY DEF Process
<1> HIDE DEF new
<1>6. FilesFit'
  <2> SUFFICES ASSUME NEW f \in File
               PROVE  Fits(file[f], push[f], doc', clock')
    BY <1>5 DEF FilesFit
  <2> QED
    BY <1>1, <1>2, <1>4, FitsByVersion DEF FilesFit
<1> QED
  BY <1>4, <1>5, <1>6, MarksByVersion

LEMMA MarksByOthers ==
  ASSUME Peaceful, MarkInv, NEW d \in Doc, OtherEdits(d)
  PROVE  NoneGone' /\ Alone' /\ FilesFit' /\ PagesFit' /\ Held' /\ Passed'
<1>1. PullInv /\ FilesFit /\ NoneGone /\ clock \in Nat /\ clock' = clock + 1 /\ doc[d] \in DocRow
      /\ Calm /\ UNCHANGED <<file, push, seen, job>>
  BY Parts DEF MarkInv, OtherEdits, Edited, Editing
<1>2. PICK new \in [st : {"processing", "gone"}, path : Path, text : {doc[d].text, clock'},
                    upd : {clock'}] :
        /\ doc' = [doc EXCEPT ![d] = new]
        /\ new.st = "processing"
        /\ IF doc[d].st = "unborn" THEN Vacant(new.path) ELSE new.path = doc[d].path
  BY DEF OtherEdits, Peaceful
<1>3. new \in DocRow /\ new.path \in Path /\ new.upd = clock'
  BY <1>1, <1>2 DEF DocRow
<1>4. doc[d].st = "unborn" => /\ \A f \in File : file[f].path # new.path
                              /\ \A e \in Doc : doc[e].st # "unborn" => doc[e].path # new.path
  BY <1>1, <1>2, <1>3, VacantPath
<1>5. NewVersion(d, new)
  BY <1>1, <1>2, <1>3, <1>4 DEF NewVersion
<1>6. FilesFit'
  <2> SUFFICES ASSUME NEW f \in File
               PROVE  Fits(file[f], push[f], doc', clock')
    BY <1>1 DEF FilesFit
  <2> QED
    BY <1>1, <1>4, <1>5, FitsByVersion DEF FilesFit
<1> QED
  BY <1>1, <1>5, <1>6, MarksByVersion

(* A push makes a document at the path of its file, which has none there,  *)
(* or a version of the document of the file.                               *)
LEMMA MarksBySend ==
  ASSUME MarkInv, NEW f \in File, PushSend(f)
  PROVE  NoneGone' /\ Alone' /\ FilesFit' /\ PagesFit' /\ Held' /\ Passed'
<1>1. /\ PullInv /\ FilesFit /\ clock \in Nat /\ Calm /\ Live(f) /\ file[f].queued
      /\ push[f] = NoPush /\ clock' = clock + 1 /\ file' = [file EXCEPT ![f].queued = FALSE]
      /\ UNCHANGED <<seen, job>> /\ file[f] \in FileRow /\ file[f].path \in Path
      /\ file[f].text \in Nat /\ file[f].dirty \in Nat /\ file[f].mirrored \in Nat
  BY Parts, FileIsRow DEF MarkInv, PushSend, Live
<1>2. PICK d \in Doc :
        /\ IF file[f].doc = None THEN doc[d].st = "unborn"
           ELSE d = file[f].doc /\ doc[d].st = "done"
        /\ doc' = [doc EXCEPT ![d] = [st |-> "processing", path |-> file[f].path,
                                      text |-> file[f].text, upd |-> clock']]
        /\ push' = [push EXCEPT ![f] = [doc |-> d, text |-> file[f].text]]
  BY DEF PushSend
<1> DEFINE new == [st |-> "processing", path |-> file[f].path, text |-> file[f].text,
                   upd |-> clock']
<1>3. /\ new \in DocRow /\ new.st = "processing" /\ new.path = file[f].path /\ new.upd = clock'
      /\ doc' = [doc EXCEPT ![d] = new]
  BY <1>1, <1>2 DEF DocRow
<1> HIDE DEF new
<1>4. Fits(file[f], push[f], doc, clock) /\ push[f].doc = None
  BY <1>1 DEF FilesFit, NoPush
<1>5. IF doc[d].st = "unborn"
      THEN \A e \in Doc : doc[e].st # "unborn" => doc[e].path # new.path
      ELSE new.path = doc[d].path
  <2>1. CASE file[f].doc = None
    BY <1>1, <1>2, <1>3, <1>4, <2>1, NamesApart DEF Fits
  <2>2. CASE file[f].doc # None
    BY <1>2, <1>3, <1>4, <2>2 DEF Fits
  <2> QED
    BY <2>1, <2>2
<1>6. NewVersion(d, new)
  BY <1>1, <1>3, <1>5 DEF NewVersion
<1>7. /\ file' \in [File -> FileRow]
      /\ \A g \in File \ {f} : file'[g] = file[g] /\ push'[g] = push[g]
      /\ file'[f].path = file[f].path /\ file'[f].doc = file[f].doc
      /\ file'[f].mirrored = file[f].mirrored /\ file'[f].dirty = file[f].dirty
      /\ push'[f].doc = d
  <2>1. file \in [File -> FileRow] /\ push \in [File -> [doc : Doc \cup {None}, text : Nat]]
    BY <1>1, Parts DEF FilesOK, PushOK
  <2> QED
    BY <1>1, <1>2, <2>1 DEF FileRow
<1>8. Fits(file'[f], push'[f], doc', clock')
  <2>1. /\ doc'[d].upd = clock' /\ doc'[d].path = file[f].path /\ clock' = clock + 1
        /\ file[f].dirty <= clock /\ file[f].dirty < clock'
    BY <1>1, <1>3, <1>4, <1>6, VersionDocs DEF Fits
  <2>2. file[f].doc \in {None, d}
    BY <1>2
  <2>3. \A e \in Doc : doc'[e].st # "unborn" /\ doc'[e].path = file[f].path => e = d
    <3> SUFFICES ASSUME NEW e \in Doc, e # d, doc[e].st # "unborn", doc[e].path = file[f].path
                 PROVE  FALSE
      BY <1>1, <1>6, VersionDocs
    <3>1. e \in {file[f].doc, push[f].doc}
      BY <1>1, <1>4 DEF Fits
    <3> QED
      BY <2>2, <3>1, <1>4, NamesApart
  <2>4. file[f].doc # None => file[f].mirrored <= doc'[d].upd
    <3>1. file[f].mirrored <= clock
      BY <1>1, FileIsRow
    <3> QED
      BY <1>1, <2>1, <3>1
  <2> QED
    BY <1>1, <1>7, <2>1, <2>2, <2>3, <2>4, NamesApart DEF Fits
<1>9. FilesFit'
  <2> SUFFICES ASSUME NEW g \in File
               PROVE  Fits(file'[g], push'[g], doc', clock')
    BY DEF FilesFit
  <2>1. CASE g = f
    BY <2>1, <1>8
  <2>2. CASE g # f
    <3>1. file[g].path # file[f].path
      BY <1>1, <2>2, Parts DEF FilesOK, Live
    <3>2. Fits(file[g], push[g], doc', clock')
      BY <1>1, <1>3, <1>6, <3>1, FitsByVersion DEF FilesFit
    <3> QED
      BY <2>2, <1>7, <3>2
  <2> QED
    BY <2>1, <2>2
<1>10. \A g \in File : /\ file'[g].doc = file[g].doc /\ file'[g].mirrored = file[g].mirrored
                       /\ file[g].queued /\ ~file'[g].queued => file[g].doc \in {None, d}
  BY <1>2, <1>7
<1> QED
  BY <1>1, <1>6, <1>9, <1>10, MarksByVersion
-----------------------------------------------------------------------------
(* One row changes, and no document. *)
KeepsDoc(row, new) ==
  row.doc # None => /\ new.doc = row.doc /\ new.mirrored = row.mirrored
                    /\ row.queued => new.queued

LEMMA FitByOne ==
  ASSUME PullInv, FilesFit, UNCHANGED doc, clock' \in Nat, clock <= clock',
         NEW f \in File, NEW new, file' = [file EXCEPT ![f] = new],
         \A g \in File \ {f} : push'[g] = push[g],
         Fits(new, push'[f], doc, clock')
  PROVE  FilesFit'
<1> SUFFICES ASSUME NEW g \in File
             PROVE  Fits(file'[g], push'[g], doc, clock')
  BY DEF FilesFit
<1>1. file'[f] = new /\ \A h \in File \ {f} : file'[h] = file[h]
  BY Parts DEF FilesOK
<1>2. CASE g = f
  BY <1>1, <1>2
<1>3. CASE g # f
  <2>1. Fits(file[g], push[g], doc, clock) /\ clock \in Nat /\ file[g].dirty \in Nat
    BY Parts, FileIsRow DEF FilesFit
  <2>2. file[g].dirty <= clock'
    BY <2>1 DEF Fits
  <2>3. Fits(file[g], push[g], doc, clock')
    BY <2>1, <2>2 DEF Fits
  <2> QED
    BY <1>1, <1>3, <2>3
<1> QED
  BY <1>2, <1>3

LEMMA KeptByOne ==
  ASSUME PullInv, UNCHANGED doc, NEW f \in File, NEW new, file' = [file EXCEPT ![f] = new],
         KeepsDoc(file[f], new), NEW d \in Doc, Kept(d)
  PROVE  Kept(d)'
<1>1. file'[f] = new /\ \A g \in File \ {f} : file'[g] = file[g]
  BY Parts DEF FilesOK
<1>2. PICK g \in File : file[g].doc = d /\ (file[g].queued \/ file[g].mirrored = doc[d].upd)
  BY DEF Kept
<1>3. file'[g].doc = d /\ (file'[g].queued \/ file'[g].mirrored = doc[d].upd)
  <2>1. CASE g = f
    BY <1>1, <1>2, <2>1, NamesApart DEF KeepsDoc
  <2>2. CASE g # f
    BY <1>1, <1>2, <2>2
  <2> QED
    BY <2>1, <2>2
<1> QED
  BY <1>3 DEF Kept

LEMMA MarksByFile ==
  ASSUME MarkInv, Calm, UNCHANGED <<doc, seen, job>>, clock' \in {clock, clock + 1},
         NEW f \in File, NEW new, file' = [file EXCEPT ![f] = new],
         \A g \in File \ {f} : push'[g] = push[g],
         Fits(new, push'[f], doc, clock'), KeepsDoc(file[f], new)
  PROVE  NoneGone' /\ Alone' /\ FilesFit' /\ PagesFit' /\ Held' /\ Passed'
<1>1. /\ PullInv /\ NoScanning /\ NoneGone /\ Alone /\ FilesFit /\ PagesFit /\ Held /\ Passed
      /\ clock \in Nat /\ clock' \in Nat /\ clock <= clock'
      /\ seen \in Nat /\ job[Delta].newest \in Nat
  BY Parts DEF MarkInv, LoopsOK, JobRow, Task
<1>2. NoneGone' /\ Alone'
  BY <1>1 DEF NoneGone, Alone
<1>3. PagesFit'
  <2>1. PagesOld' /\ DeltaPages'
    BY <1>1 DEF PagesFit, PagesOld, PageOld, DeltaPages
  <2>2. MarksOld'
    BY <1>1 DEF PagesFit, MarksOld
  <2> QED
    BY <2>1, <2>2 DEF PagesFit
<1>4. FilesFit'
  BY <1>1, FitByOne
<1>5. Held'
  <2>1. \A g \in File : file[g].doc # None => file'[g].doc = file[g].doc
    BY <1>1, Parts DEF FilesOK, KeepsDoc
  <2> QED
    BY <1>1, <2>1, HeldKept
<1>6. Passed'
  <2> SUFFICES ASSUME NEW d \in Doc, doc[d].st = "done", doc[d].upd <= Mark, ~ToDo(d),
                      ~Beyond(d)
               PROVE  Kept(d)'
    BY BeyondKept DEF Passed, Mark, ToDo
  <2>1. Kept(d)
    BY <1>1 DEF Passed
  <2> QED
    BY <1>1, <2>1, KeptByOne
<1> QED
  BY <1>2, <1>3, <1>4, <1>5, <1>6

LEMMA MarksByCreate ==
  ASSUME Peaceful, MarkInv, NEW f \in File, NEW p \in Path, CreateFile(f, p)
  PROVE  NoneGone' /\ Alone' /\ FilesFit' /\ PagesFit' /\ Held' /\ Passed'
<1> DEFINE new == [NoFile EXCEPT !.path = p, !.text = clock', !.own = clock',
                                 !.dirty = clock', !.queued = TRUE]
<1>1. /\ PullInv /\ FilesFit /\ NoneGone /\ clock \in Nat /\ clock' = clock + 1 /\ clock' \in Nat
      /\ Calm /\ UNCHANGED <<doc, seen, job, push>> /\ file[f] = NoFile /\ Vacant(p)
      /\ file' = [file EXCEPT ![f] = new]
  BY Parts DEF MarkInv, CreateFile, Edited, Editing, Unused
<1>2. new.path = p /\ new.doc = None /\ new.mirrored = 0 /\ new.dirty = clock'
  BY DEF NoFile
<1> HIDE DEF new
<1>3. push[f].doc = None
  <2>1. Fits(file[f], push[f], doc, clock) /\ file[f].path = None
    BY <1>1 DEF FilesFit, NoFile
  <2> QED
    BY <1>1, <2>1, NamesApart, PushIsRow DEF Fits
<1>4. Fits(new, push'[f], doc, clock')
  BY <1>1, <1>2, <1>3, VacantPath DEF Fits
<1>5. KeepsDoc(file[f], new)
  BY <1>1 DEF KeepsDoc, NoFile
<1> QED
  BY <1>1, <1>4, <1>5, MarksByFile

LEMMA MarksByWrite ==
  ASSUME MarkInv, NEW f \in File, WriteFile(f)
  PROVE  NoneGone' /\ Alone' /\ FilesFit' /\ PagesFit' /\ Held' /\ Passed'
<1> DEFINE new == [file[f] EXCEPT !.text = clock', !.own = clock', !.dirty = clock',
                                  !.queued = TRUE]
<1>1. /\ PullInv /\ FilesFit /\ clock \in Nat /\ clock' = clock + 1 /\ clock' \in Nat
      /\ Calm /\ UNCHANGED <<doc, seen, job, push>> /\ file[f] \in FileRow
  BY Parts DEF MarkInv, WriteFile, Edited, Editing, FilesOK
<1>2. /\ new.path = file[f].path /\ new.doc = file[f].doc /\ new.mirrored = file[f].mirrored
      /\ new.dirty = clock' /\ new.queued
  BY <1>1 DEF FileRow
<1>3. file' = [file EXCEPT ![f] = new]
  BY Parts DEF MarkInv, WriteFile, FilesOK, FileRow
<1> HIDE DEF new
<1>4. Fits(file[f], push[f], doc, clock)
  BY <1>1 DEF FilesFit
<1>5. Fits(new, push'[f], doc, clock')
  BY <1>1, <1>2, <1>4 DEF Fits
<1>6. KeepsDoc(file[f], new)
  BY <1>2 DEF KeepsDoc
<1> QED
  BY <1>1, <1>3, <1>5, <1>6, MarksByFile

(* A bound file is bound to the document of its push. *)
LEMMA BoundToPushed ==
  ASSUME PullInv, Alone, FilesFit, NEW f \in File, file[f].doc # None, push[f].doc # None
  PROVE  file[f].doc = push[f].doc
<1>1. Fits(file[f], push[f], doc, clock)
  BY DEF FilesFit
<1>2. /\ file[f].doc \in Doc /\ push[f].doc \in Doc
      /\ doc[file[f].doc].st # "unborn" /\ doc[push[f].doc].st # "unborn"
  BY FileIsRow, PushIsRow
<1>3. doc[file[f].doc].path = doc[push[f].doc].path
  BY <1>1, <1>2 DEF Fits
<1> QED
  BY <1>2, <1>3 DEF Alone

LEMMA MarksByBind ==
  ASSUME MarkInv, NEW f \in File, PushBind(f)
  PROVE  NoneGone' /\ Alone' /\ FilesFit' /\ PagesFit' /\ Held' /\ Passed'
<1> DEFINE new == [file[f] EXCEPT !.doc = push[f].doc, !.mirrored = 0, !.status = "none"]
<1>1. /\ PullInv /\ Alone /\ FilesFit /\ clock \in Nat /\ clock' = clock
      /\ Calm /\ UNCHANGED <<doc, seen, job, push>> /\ file[f] \in FileRow
      /\ push[f].doc # None /\ push[f].doc \in Doc /\ file[f].doc # push[f].doc
  BY Parts, PushIsRow DEF MarkInv, PushBind, FilesOK
<1>2. file[f].doc = None
  BY <1>1, BoundToPushed
<1>3. /\ new.path = file[f].path /\ new.doc = push[f].doc /\ new.mirrored = 0
      /\ new.dirty = file[f].dirty /\ new.queued = file[f].queued
  BY <1>1 DEF FileRow
<1>4. file' = [file EXCEPT ![f] = new]
  BY Parts DEF MarkInv, PushBind, FilesOK, FileRow
<1> HIDE DEF new
<1>5. Fits(file[f], push[f], doc, clock)
  BY <1>1 DEF FilesFit
<1>6. Fits(new, push'[f], doc, clock')
  <2>1. 0 <= doc[push[f].doc].upd
    BY <1>1, StampsAreOld
  <2> QED
    BY <1>1, <1>2, <1>3, <1>5, <2>1, NamesApart DEF Fits
<1>7. KeepsDoc(file[f], new)
  BY <1>2 DEF KeepsDoc
<1> QED
  BY <1>1, <1>4, <1>6, <1>7, MarksByFile

LEMMA MarksByDone ==
  ASSUME MarkInv, NEW f \in File, PushDone(f)
  PROVE  NoneGone' /\ Alone' /\ FilesFit' /\ PagesFit' /\ Held' /\ Passed'
<1> DEFINE new == [file[f] EXCEPT !.status = "done", !.dirty = 0]
<1>1. /\ PullInv /\ FilesFit /\ clock \in Nat /\ clock' = clock
      /\ Calm /\ UNCHANGED <<doc, seen, job>> /\ file[f] \in FileRow
      /\ push' = [push EXCEPT ![f] = NoPush] /\ push[f].doc # None
      /\ Fits(file[f], push[f], doc, clock)
  BY Parts, PushIsRow DEF MarkInv, PushDone, FilesOK, FilesFit
<1>2. Live(f) /\ file[f].doc = push[f].doc
  BY <1>1, PushIsRow DEF PushDone, Fits, Live
<1>3. /\ new.path = file[f].path /\ new.doc = file[f].doc /\ new.mirrored = file[f].mirrored
      /\ new.dirty = 0 /\ new.queued = file[f].queued
  BY <1>1 DEF FileRow
<1>4. file' = [file EXCEPT ![f] = new]
  BY <1>2, Parts DEF MarkInv, PushDone, FilesOK, FileRow
<1> HIDE DEF new
<1>5. push'[f].doc = None /\ \A g \in File \ {f} : push'[g] = push[g]
  BY <1>1, Parts DEF PushOK, NoPush
<1>6. Fits(new, push'[f], doc, clock')
  <2>1. \A d \in Doc : ~(0 > doc[d].upd)
    BY <1>1, StampsAreOld
  <2>2. file[f].doc \in Doc
    BY <1>1, <1>2, FileIsRow
  <2> QED
    BY <1>1, <1>2, <1>3, <1>5, <2>1, <2>2, NamesApart DEF Fits
<1>7. KeepsDoc(file[f], new)
  BY <1>3 DEF KeepsDoc
<1> QED
  BY <1>1, <1>4, <1>5, <1>6, <1>7, MarksByFile

LEMMA MarksByPush ==
  ASSUME MarkInv, NEW f \in File, PushStep(f)
  PROVE  NoneGone' /\ Alone' /\ FilesFit' /\ PagesFit' /\ Held' /\ Passed'
<1>1. ~Push404(f)
  <2>1. PullInv /\ NoneGone
    BY DEF MarkInv
  <2> QED
    BY <2>1, FileIsRow DEF Push404, NoneGone
<1> QED
  BY <1>1, MarksBySend, MarksByBind, MarksByDone DEF PushStep
-----------------------------------------------------------------------------
(* The pages of a set of documents hold every one of them. *)
LEMMA NewestFirstIsAll ==
  ASSUME NEW ds \in SUBSET Doc, NEW pages \in NewestFirst(ds), NEW d \in ds
  PROVE  \E k \in 1..Len(pages) : pages[k] = Copy(d)
<1> DEFINE copies == {Copy(e) : e \in ds}
           n == Cardinality(copies)
<1>1. IsFiniteSet(ds)
  BY PullAssumption, FS_Subset
<1>2. IsFiniteSet(copies)
  <2> DEFINE copy == [e \in ds |-> Copy(e)]
  <2>1. copy \in Surjection(ds, copies)
    BY DEF Surjection
  <2> QED
    BY <1>1, <2>1, FS_Surjection
<1>3. n \in Nat
  BY <1>2, FS_CardinalityType
<1>4. pages \in [1..n -> copies] /\ \A i, j \in 1..n : i # j => pages[i] # pages[j]
  BY DEF NewestFirst, SetToSeqs
<1>5. Copy(d) \in copies
  OBVIOUS
<1> HIDE DEF copies
<1>6. Cardinality(1..n) = n
  <2> HIDE DEF n
  <2> QED
    BY <1>3, FS_Interval
<1>7. pages \in Injection(1..n, copies)
  BY <1>4 DEF Injection, IsInjective
<1>8. pages \in Surjection(1..n, copies)
  BY <1>2, <1>6, <1>7, FS_Injection
<1>9. \E k \in 1..n : pages[k] = Copy(d)
  BY <1>5, <1>8 DEF Surjection
<1>10. Len(pages) = n
  <2> HIDE DEF n
  <2> QED
    BY <1>3, <1>4
<1> QED
  BY <1>9, <1>10

LEMMA PagesByPull ==
  ASSUME PullInv, PagesOld, UNCHANGED doc, NEW t \in Task, NEW row,
         job' = [job EXCEPT ![t] = row], \A k \in 1..Len(row.todo) : PageOld(row.todo[k])
  PROVE  PagesOld'
<1> SUFFICES ASSUME NEW u \in Task, NEW k \in 1..Len(job'[u].todo)
             PROVE  PageOld(job'[u].todo[k])
  BY DEF PagesOld, PageOld
<1>1. job'[t] = row /\ \A v \in Task \ {t} : job'[v] = job[v]
  BY Parts DEF LoopsOK
<1>2. CASE u = t
  BY <1>1, <1>2
<1>3. CASE u # t
  BY <1>1, <1>3 DEF PagesOld
<1> QED
  BY <1>2, <1>3

LEMMA HeldByPull ==
  ASSUME PullInv, Held, NoScanning, NEW t \in Task, NEW row, row.on = None,
         job' = [job EXCEPT ![t] = row],
         Calm \/ job[t].on # None,
         \A g \in File : /\ file[g].doc # None => file'[g].doc = file[g].doc
  PROVE  Held'
<1>1. job'[t].on = None /\ \A u \in Task \ {t} : job'[u] = job[u]
  BY Parts DEF LoopsOK
<1> SUFFICES ASSUME NEW u \in Task, job'[u].on # None
             PROVE  /\ file'[job'[u].on].doc = job'[u].todo[1].id
                    /\ "race" \in Hazards
  BY DEF Held
<1>2. u # t /\ job'[u] = job[u] /\ job[u].on # None
  BY <1>1
<1>3. "race" \in Hazards
  BY <1>2 DEF Held, Calm
<1>4. job[u].on \in File /\ job[u].todo # <<>>
  BY <1>2, Parts DEF LoopsOK, JobRow, HoldsPage
<1>5. job[u].todo[1].id \in Doc
  BY <1>4, CurrentPage
<1>6. file[job[u].on].doc = job[u].todo[1].id
  BY <1>2 DEF Held
<1> QED
  BY <1>2, <1>3, <1>4, <1>5, <1>6, NamesApart

LEMMA MarksByList ==
  ASSUME MarkInv, DeltaList
  PROVE  NoneGone' /\ Alone' /\ FilesFit' /\ PagesFit' /\ Held' /\ Passed'
<1>1. /\ PullInv /\ NoScanning /\ NoneGone /\ Alone /\ FilesFit /\ PagesFit /\ Held /\ Passed
      /\ clock \in Nat /\ seen \in Nat
  BY Parts DEF MarkInv, LoopsOK
<1>2. /\ Fresh \in SUBSET Doc /\ Fresh \in SUBSET Listed /\ Delta \in Task /\ Calm
      /\ job[Delta].todo = <<>> /\ job[Delta] \in JobRow
      /\ UNCHANGED <<file, doc, clock, seen, push>>
  BY <1>1, ListsFresh
<1> DEFINE copies == {Copy(d) : d \in Fresh}
<1>3. PICK pages \in NewestFirst(Fresh) :
        job' = [job EXCEPT ![Delta] = Row(pages)] /\ pages \in Seq(copies)
  BY <1>1, ListsFresh
<1>4. \A c \in copies : /\ PageOld(c) /\ c.upd = doc[c.id].upd /\ c.id \in Fresh
                        /\ c.upd \in 1..clock
  <2> SUFFICES ASSUME NEW d \in Fresh
               PROVE  /\ PageOld(Copy(d)) /\ Copy(d).upd = doc[Copy(d).id].upd
                      /\ Copy(d).id \in Fresh /\ Copy(d).upd \in 1..clock
    OBVIOUS
  <2>1. Copy(d).id = d /\ Copy(d).upd = doc[d].upd /\ Copy(d).path = doc[d].path
        /\ Copy(d).st = doc[d].st /\ d \in Doc /\ doc[d].upd \in Nat
    BY <1>1, <1>2, StampsAreOld DEF Copy
  <2>2. Copy(d).upd \in 1..clock
    BY <1>1, <1>2, CopyIsVersion DEF VersionOf
  <2> QED
    BY <2>1, <2>2 DEF PageOld
<1>5. /\ Len(pages) \in Nat /\ \A k \in 1..Len(pages) : pages[k] \in copies
      /\ pages # <<>> => 1 \in 1..Len(pages)
  <2> HIDE DEF copies
  <2> QED
    BY <1>3
<1>6. \A k \in 1..Len(pages) :
        /\ PageOld(pages[k]) /\ pages[k].upd = doc[pages[k].id].upd /\ pages[k].id \in Fresh
        /\ pages[k].upd \in 1..clock
  <2> HIDE DEF copies
  <2> QED
    BY <1>4, <1>5
<1> HIDE DEF copies
<1>7. /\ job'[Delta].todo = pages /\ job'[Delta].newest = NewerOf(job[Delta].newest, pages)
      /\ job'[Delta].page = job[Delta].page + 1 /\ Row(pages).on = None
      /\ Row(pages).todo = pages
      /\ job'[Delta].more <=> Fresh = Here
                             /\ (job[Delta].page + 1) * PageSize < Cardinality(Listed)
  BY <1>1, <1>2, <1>3, Parts DEF LoopsOK, Row
<1>8. /\ job[Delta].newest \in 0..clock /\ job[Delta].page \in Nat /\ PageSize \in Nat
      /\ job[Delta].newest # 0 => seen <= job[Delta].newest
  BY <1>1, <1>2, PullAssumption DEF JobRow, PagesFit, MarksOld
<1>9. pages # <<>> => /\ pages[1].upd \in 1..clock /\ pages[1].upd > seen
                      /\ pages[1].id \in Fresh /\ pages[1].upd = doc[pages[1].id].upd
  BY <1>5, <1>6 DEF Fresh
<1> DEFINE newest == NewerOf(job[Delta].newest, pages)
<1>10. /\ newest \in 0..clock
       /\ newest # 0 => seen <= newest
       /\ pages # <<>> => newest # 0
       /\ newest = job[Delta].newest \/ (pages # <<>> /\ newest = pages[1].upd)
  BY <1>1, <1>8, <1>9 DEF NewerOf
<1>11. job'[Delta].newest = newest
  BY <1>7
<1> HIDE DEF newest
<1>12. PagesFit'
  <2>1. PagesOld'
    <3>1. \A k \in 1..Len(Row(pages).todo) : PageOld(Row(pages).todo[k])
      BY <1>6, <1>7
    <3> QED
      BY <1>1, <1>2, <1>3, <3>1, PagesByPull DEF PagesFit
  <2>2. DeltaPages'
    BY <1>2, <1>6, <1>7, <1>10, <1>11 DEF DeltaPages
  <2>3. MarksOld'
    BY <1>1, <1>2, <1>10, <1>11 DEF MarksOld, PagesFit
  <2> QED
    BY <2>1, <2>2, <2>3 DEF PagesFit
<1>13. Held'
  BY <1>1, <1>2, <1>3, <1>7, HeldByPull
<1>14. Passed'
  <2> SUFFICES ASSUME NEW d \in Doc, doc[d].st = "done", doc[d].upd <= Mark', ~ToDo(d)',
                      ~Beyond(d)'
               PROVE  Kept(d)
    BY <1>2 DEF Passed, Kept
  <2> DEFINE place == Cardinality(Ahead(d))
             first == job[Delta].page * PageSize
  <2>1. /\ d \in Listed /\ doc[d].upd \in Nat /\ place \in Nat /\ Cardinality(Listed) \in Nat
        /\ place < Cardinality(Listed)
    BY <1>1, StampsAreOld, PlaceInList DEF Listed
  <2>2. first \in Nat /\ (job[Delta].page + 1) * PageSize = first + PageSize
    BY <1>8
  <2> HIDE DEF place, first
  <2>3. \A e \in Here : /\ e \in Doc /\ doc[e].upd \in Nat /\ Cardinality(Ahead(e)) \in Nat
                       /\ first <= Cardinality(Ahead(e))
                       /\ Cardinality(Ahead(e)) < first + PageSize
    <3> SUFFICES ASSUME NEW e \in Here
                 PROVE  /\ e \in Doc /\ doc[e].upd \in Nat /\ Cardinality(Ahead(e)) \in Nat
                        /\ first <= Cardinality(Ahead(e))
                        /\ Cardinality(Ahead(e)) < first + PageSize
      OBVIOUS
    <3>1. e \in Doc /\ Cardinality(Ahead(e)) \in first .. first + PageSize - 1
      BY DEF Here, OnPage, Listed, first
    <3>2. doc[e].upd \in Nat /\ Cardinality(Ahead(e)) \in Nat
      BY <1>1, <3>1, StampsAreOld, PlaceInList
    <3> QED
      BY <1>8, <2>2, <3>1, <3>2
  <2>4. \A e \in Here : doc[e].upd < doc[d].upd => place <= Cardinality(Ahead(e))
    BY <1>1, <2>1, <2>3, NewerIsAhead DEF place
  <2>5. \A e \in Here : doc[d].upd <= doc[e].upd => Cardinality(Ahead(e)) <= place
    BY <1>1, <2>3, NewerIsAhead DEF place
  <2>6. ~ToDo(d)
    BY <1>2 DEF ToDo
  <2>7. CASE doc[d].upd <= seen
    <3>1. ~Beyond(d)
      BY <1>1, <2>1, <2>7 DEF Beyond
    <3>2. doc[d].upd <= Mark
      BY <1>1, <1>8, <2>1, <2>7 DEF Mark
    <3> QED
      BY <1>1, <2>6, <3>1, <3>2 DEF Passed
  <2>8. CASE doc[d].upd > seen /\ first + PageSize <= place
    <3>1. Here = Fresh
      <4>1. \A e \in Here : doc[e].upd > seen
        BY <1>1, <1>8, <2>1, <2>2, <2>3, <2>4, <2>8
      <4> QED
        BY <4>1 DEF Fresh
    <3>2. job'[Delta].more
      BY <1>7, <1>8, <2>1, <2>2, <2>8, <3>1
    <3>3. job'[Delta].page * PageSize = first + PageSize
      BY <1>7, <2>2
    <3>4. Ahead(d)' = Ahead(d) /\ doc'[d].upd > seen'
      BY <1>2, <2>8 DEF Ahead, Listed
    <3>5. job'[Delta].page * PageSize <= Cardinality(Ahead(d)')
      BY <2>8, <3>3, <3>4 DEF place
    <3> QED
      BY <3>2, <3>4, <3>5 DEF Beyond
  <2>9. CASE doc[d].upd > seen /\ first <= place /\ place < first + PageSize
    <3>1. place \in first .. first + PageSize - 1
      BY <1>8, <2>1, <2>2, <2>9
    <3>2. d \in Fresh
      BY <2>1, <2>9, <3>1 DEF Fresh, Here, OnPage, place, first
    <3>3. PICK k \in 1..Len(pages) : pages[k] = Copy(d)
      BY <1>2, <3>2, NewestFirstIsAll
    <3>4. pages[k].id = d /\ pages[k].upd = doc[d].upd
      BY <3>3 DEF Copy
    <3> QED
      BY <1>2, <1>7, <3>4 DEF ToDo
  <2>10. CASE doc[d].upd > seen /\ place < first
    <3>1. ~Beyond(d)
      BY <2>1, <2>2, <2>10 DEF Beyond, place, first
    <3>2. pages # <<>> => ~(doc[d].upd <= pages[1].upd)
      BY <1>9, <2>1, <2>2, <2>3, <2>5, <2>10 DEF Fresh
    <3>3. Mark' = IF newest = 0 THEN seen ELSE newest
      BY <1>2, <1>11 DEF Mark
    <3>4. newest # 0 /\ newest = job[Delta].newest
      BY <1>1, <1>10, <2>1, <2>10, <3>2, <3>3
    <3>5. doc[d].upd <= Mark
      BY <1>2, <3>3, <3>4 DEF Mark
    <3> QED
      BY <1>1, <2>6, <3>1, <3>5 DEF Passed
  <2> QED
    BY <1>1, <1>8, <2>1, <2>2, <2>7, <2>8, <2>9, <2>10
<1> QED
  BY <1>1, <1>2, <1>12, <1>13, <1>14 DEF NoneGone, Alone, FilesFit

LEMMA MarksByEnd ==
  ASSUME MarkInv, DeltaEnd
  PROVE  NoneGone' /\ Alone' /\ FilesFit' /\ PagesFit' /\ Held' /\ Passed'
<1>1. /\ Delta \in Task /\ Calm /\ job[Delta].newest # 0 /\ job[Delta].todo = <<>>
      /\ ~job[Delta].more /\ seen' = job[Delta].newest /\ job' = [job EXCEPT ![Delta] = NoJob]
      /\ UNCHANGED <<file, doc, clock, push>>
      /\ PullInv /\ NoScanning /\ NoneGone /\ Alone /\ FilesFit /\ PagesFit /\ Held /\ Passed
  BY DEF DeltaEnd, Task, MarkInv
<1>2. NoJob.todo = <<>> /\ NoJob.newest = 0 /\ NoJob.on = None
  BY DEF NoJob
<1>3. job'[Delta] = NoJob /\ clock \in Nat
  BY <1>1, Parts DEF LoopsOK
<1>4. PagesFit'
  <2>1. PagesOld'
    <3>1. \A k \in 1..Len(NoJob.todo) : PageOld(NoJob.todo[k])
      BY <1>2
    <3> QED
      BY <1>1, <3>1, PagesByPull DEF PagesFit
  <2>2. DeltaPages'
    BY <1>2, <1>3 DEF DeltaPages
  <2>3. MarksOld'
    BY <1>1, <1>2, <1>3 DEF MarksOld, PagesFit
  <2> QED
    BY <2>1, <2>2, <2>3 DEF PagesFit
<1>5. Held'
  BY <1>1, <1>2, HeldByPull
<1>6. Passed'
  <2>1. Mark' = Mark
    BY <1>1, <1>2, <1>3 DEF Mark
  <2>2. \A d \in Doc : ~ToDo(d) /\ ~Beyond(d)
    BY <1>1 DEF ToDo, Beyond
  <2> QED
    BY <1>1, <2>1, <2>2 DEF Passed, Kept
<1> QED
  BY <1>1, <1>4, <1>5, <1>6 DEF NoneGone, Alone, FilesFit

LEMMA MarksByGet ==
  ASSUME MarkInv, NEW t \in Puller, NEW d \in Doc, HydrateGet(t, d)
  PROVE  NoneGone' /\ Alone' /\ FilesFit' /\ PagesFit' /\ Held' /\ Passed'
<1> DEFINE row == [job[t] EXCEPT !.todo = <<Copy(d)>>]
<1>1. /\ t \in Task /\ t # Delta /\ Calm /\ job[t] = NoJob /\ d \in Listed
      /\ UNCHANGED <<file, doc, clock, push, seen>>
      /\ PullInv /\ NoScanning /\ NoneGone /\ Alone /\ FilesFit /\ PagesFit /\ Held /\ Passed
  BY PullAssumption DEF HydrateGet, Task, MarkInv
<1>2. row.todo = <<Copy(d)>> /\ row.on = None /\ job' = [job EXCEPT ![t] = row]
  BY <1>1, Parts DEF NoJob, HydrateGet, LoopsOK, JobRow
<1> HIDE DEF row
<1>3. job'[Delta] = job[Delta]
  BY <1>1, <1>2
<1>4. PagesFit'
  <2>1. PageOld(Copy(d))
    BY <1>1, StampsAreOld DEF Copy, PageOld
  <2>2. PagesOld'
    <3>1. \A k \in 1..Len(row.todo) : PageOld(row.todo[k])
      BY <1>2, <2>1
    <3> QED
      BY <1>1, <1>2, <3>1, PagesByPull DEF PagesFit
  <2>3. DeltaPages' /\ MarksOld'
    BY <1>1, <1>3 DEF PagesFit, DeltaPages, MarksOld
  <2> QED
    BY <2>2, <2>3 DEF PagesFit
<1>5. Held'
  BY <1>1, <1>2, HeldByPull
<1>6. Passed'
  BY <1>1, <1>3, BeyondKept DEF Passed, Kept, Mark, ToDo
<1> QED
  BY <1>1, <1>4, <1>5, <1>6 DEF NoneGone, Alone, FilesFit
-----------------------------------------------------------------------------
(* A pull goes on to its next page. *)
LEMMA AdvanceRows ==
  ASSUME PullInv, NEW t \in Task, job[t].todo # <<>>, Advance(t)
  PROVE  /\ job'[t].on = None /\ job'[t].newest = job[t].newest
         /\ job'[t].page = job[t].page /\ job'[t].more = job[t].more
         /\ \A u \in Task \ {t} : job'[u] = job[u]
         /\ \A k \in 1..Len(job'[t].todo) : /\ k + 1 \in 1..Len(job[t].todo)
                                            /\ job'[t].todo[k] = job[t].todo[k + 1]
         /\ \A k \in 2..Len(job[t].todo) : /\ k - 1 \in 1..Len(job'[t].todo)
                                           /\ job'[t].todo[k - 1] = job[t].todo[k]
         /\ Len(job[t].todo) \in Nat /\ Len(job'[t].todo) \in Nat
         /\ job'[t].todo # <<>> => job[t].todo # <<>>
<1>1. job \in [Task -> JobRow] /\ job[t].todo \in Seq(Page)
  BY Parts DEF LoopsOK, JobRow
<1>2. /\ job'[t].todo = Tail(job[t].todo) /\ job'[t].on = None
      /\ job'[t].newest = job[t].newest
      /\ job'[t].page = job[t].page /\ job'[t].more = job[t].more
      /\ \A u \in Task \ {t} : job'[u] = job[u]
  BY <1>1 DEF Advance, JobRow
<1> DEFINE s == job[t].todo
<1>3. s \in Seq(Page) /\ s # <<>>
  BY <1>1
<1> HIDE DEF s
<1>4. /\ Len(s) \in Nat /\ Len(Tail(s)) = Len(s) - 1 /\ Len(Tail(s)) \in Nat
      /\ \A k \in 1..Len(Tail(s)) : Tail(s)[k] = s[k + 1]
  BY <1>3
<1>5. /\ \A k \in 1..Len(Tail(s)) : k + 1 \in 1..Len(s) /\ Tail(s)[k] = s[k + 1]
      /\ \A k \in 2..Len(s) : k - 1 \in 1..Len(Tail(s)) /\ Tail(s)[k - 1] = s[k]
  BY <1>4
<1> QED
  BY <1>2, <1>4, <1>5 DEF s

LEMMA PagesByAdvance ==
  ASSUME PullInv, PagesFit, UNCHANGED <<doc, clock, seen>>, NEW t \in Task,
         job[t].todo # <<>>, Advance(t)
  PROVE  PagesFit'
<1>1. Delta \in Task /\ PagesOld /\ DeltaPages /\ MarksOld
  BY DEF Task, PagesFit
<1>2. PagesOld'
  <2> SUFFICES ASSUME NEW u \in Task, NEW k \in 1..Len(job'[u].todo)
               PROVE  PageOld(job'[u].todo[k])
    BY DEF PagesOld, PageOld
  <2>1. CASE u = t
    BY <1>1, <2>1, AdvanceRows DEF PagesOld
  <2>2. CASE u # t
    BY <1>1, <2>2, AdvanceRows DEF PagesOld
  <2> QED
    BY <2>1, <2>2
<1>3. job'[Delta].newest = job[Delta].newest
  BY <1>1, AdvanceRows
<1>4. DeltaPages'
  <2>1. CASE t = Delta
    <3>1. job'[Delta].todo # <<>> => job'[Delta].newest # 0
      BY <1>1, <1>3, <2>1, AdvanceRows DEF DeltaPages
    <3>2. ASSUME NEW k \in 1..Len(job'[Delta].todo)
          PROVE  \/ job'[Delta].todo[k].upd = doc[job'[Delta].todo[k].id].upd
                 \/ doc[job'[Delta].todo[k].id].upd > job'[Delta].newest
      <4>1. k + 1 \in 1..Len(job[Delta].todo) /\ job'[Delta].todo[k] = job[Delta].todo[k + 1]
        BY <2>1, AdvanceRows
      <4> QED
        BY <1>1, <1>3, <4>1 DEF DeltaPages
    <3> QED
      BY <3>1, <3>2 DEF DeltaPages
  <2>2. CASE t # Delta
    BY <1>1, <2>2, AdvanceRows DEF DeltaPages
  <2> QED
    BY <2>1, <2>2
<1>5. MarksOld'
  BY <1>1, <1>3 DEF MarksOld
<1> QED
  BY <1>2, <1>4, <1>5 DEF PagesFit

(* The page that is done with is that of an older version than the mark is *)
(* meant for, or of the one that a file has now.                           *)
LEMMA PassedByAdvance ==
  ASSUME PullInv, PagesFit, Passed, UNCHANGED <<doc, seen>>, NEW t \in Task,
         job[t].todo # <<>>, Advance(t),
         \A d \in Doc : doc[d].upd <= Mark /\ Kept(d) => Kept(d)',
         \A d \in Doc : Current(t).id = d /\ Current(t).upd = doc[d].upd
                        /\ Current(t).st = "done" => Kept(d)'
  PROVE  Passed'
<1> DEFINE c == Current(t)
<1>1. Delta \in Task /\ PagesOld /\ DeltaPages
  BY DEF Task, PagesFit
<1>2. Mark' = Mark
  BY <1>1, AdvanceRows DEF Mark
<1>3. c = job[t].todo[1] /\ c.id \in Doc /\ c.upd \in Nat /\ 1 \in 1..Len(job[t].todo)
  BY CurrentPage, AdvanceRows
<1>4. PageOld(c)
  BY <1>1, <1>3 DEF PagesOld
<1>b. job'[Delta].page = job[Delta].page /\ job'[Delta].more = job[Delta].more
  BY <1>1, AdvanceRows
<1> SUFFICES ASSUME NEW d \in Doc, doc[d].st = "done", doc[d].upd <= Mark, ~ToDo(d)',
                    ~Beyond(d)
             PROVE  Kept(d)'
  BY <1>2, <1>b, BeyondKept DEF Passed
<1>5. CASE ~ToDo(d)
  BY <1>5 DEF Passed
<1>6. CASE ToDo(d)
  <2>1. PICK k \in 1..Len(job[Delta].todo) :
          job[Delta].todo[k].id = d /\ job[Delta].todo[k].upd = doc[d].upd
    BY <1>6 DEF ToDo
  <2>2. t = Delta
    <3> SUFFICES ASSUME t # Delta
                 PROVE  FALSE
      OBVIOUS
    <3>1. job'[Delta] = job[Delta]
      BY <1>1, AdvanceRows
    <3> QED
      BY <2>1, <3>1 DEF ToDo
  <2>3. k = 1
    <3> SUFFICES ASSUME k # 1
                 PROVE  FALSE
      OBVIOUS
    <3>1. k \in 2..Len(job[t].todo)
      BY <2>1, <2>2, AdvanceRows
    <3>2. k - 1 \in 1..Len(job'[Delta].todo) /\ job'[Delta].todo[k - 1] = job[Delta].todo[k]
      BY <2>2, <3>1, AdvanceRows
    <3> QED
      BY <2>1, <3>2 DEF ToDo
  <2>4. c.id = d /\ c.upd = doc[d].upd
    BY <1>3, <2>1, <2>2, <2>3
  <2>5. c.st = "done"
    BY <1>4, <2>4 DEF PageOld
  <2> QED
    BY <2>4, <2>5
<1> QED
  BY <1>5, <1>6

LEMMA MarksByAdvance ==
  ASSUME MarkInv, UNCHANGED <<doc, clock, seen>>, NEW t \in Task,
         job[t].todo # <<>>, Advance(t), Calm \/ job[t].on # None, FilesFit',
         \A g \in File : file[g].doc # None => file'[g].doc = file[g].doc,
         \A d \in Doc : doc[d].upd <= Mark /\ Kept(d) => Kept(d)',
         \A d \in Doc : Current(t).id = d /\ Current(t).upd = doc[d].upd
                        /\ Current(t).st = "done" => Kept(d)'
  PROVE  NoneGone' /\ Alone' /\ FilesFit' /\ PagesFit' /\ Held' /\ Passed'
<1>1. PullInv /\ NoScanning /\ NoneGone /\ Alone /\ PagesFit /\ Held /\ Passed
  BY DEF MarkInv
<1>2. NoneGone' /\ Alone'
  BY <1>1 DEF NoneGone, Alone
<1>3. PagesFit' /\ Passed'
  BY <1>1, PagesByAdvance, PassedByAdvance
<1>4. Held'
  <2> DEFINE row == [job[t] EXCEPT !.todo = Tail(@), !.on = None]
  <2>1. row.on = None /\ job' = [job EXCEPT ![t] = row]
    BY <1>1, Parts DEF Advance, LoopsOK, JobRow
  <2> HIDE DEF row
  <2> QED
    BY <1>1, <2>1, HeldByPull
<1> QED
  BY <1>2, <1>3, <1>4

LEMMA MarksByIdle ==
  ASSUME MarkInv, NEW t \in Task, Defer(t) \/ \E f \in File : Skip(t, f)
  PROVE  NoneGone' /\ Alone' /\ FilesFit' /\ PagesFit' /\ Held' /\ Passed'
<1> DEFINE c == Current(t)
<1>1. /\ PullInv /\ FilesFit /\ Calm /\ job[t].todo # <<>> /\ Advance(t)
      /\ UNCHANGED <<file, doc, clock, seen, push>>
  BY DEF MarkInv, Defer, Skip, HasPage
<1>2. c.id \in Doc /\ c.upd \in Nat /\ c = job[t].todo[1] /\ 1 \in 1..Len(job[t].todo)
  BY <1>1, CurrentPage, AdvanceRows
<1>3. PageOld(c)
  BY <1>2 DEF MarkInv, PagesFit, PagesOld
<1>4. FilesFit'
  BY <1>1 DEF FilesFit
<1>5. \A d \in Doc : Kept(d) => Kept(d)'
  BY <1>1 DEF Kept
<1>6. ASSUME NEW d \in Doc, c.id = d, c.upd = doc[d].upd, c.st = "done"
      PROVE  Kept(d)
  <2>1. PICK f \in File : /\ f \in Bound(c.id)
                          /\ \/ LocalNewer(f, c)
                             \/ Mirrored(f, c)
                             \/ At(c.path) \notin {{}, {f}}
    BY <1>6 DEF Defer, Skip
  <2>2. file[f].doc = d /\ Fits(file[f], push[f], doc, clock) /\ d # None /\ Live(f)
        /\ file[f].mirrored \in Nat /\ file[f].path = doc[d].path
    BY <1>1, <1>6, <2>1, FileIsRow, NamesApart DEF Bound, FilesFit, Fits
  <2>3. CASE LocalNewer(f, c)
    BY <1>6, <2>2, <2>3 DEF LocalNewer, Fits, Kept
  <2>4. CASE Mirrored(f, c)
    <3>1. file[f].mirrored = doc[d].upd
      BY <1>2, <1>6, <2>2, <2>4 DEF Mirrored, Fits
    <3> QED
      BY <2>2, <3>1 DEF Kept
  <2>5. CASE At(c.path) \notin {{}, {f}}
    <3>1. c.path = file[f].path
      BY <1>3, <1>6, <2>2 DEF PageOld
    <3>2. At(c.path) = {f}
      BY <1>1, <2>2, <3>1, Parts DEF FilesOK, At, Live
    <3> QED
      BY <2>5, <3>2
  <2> QED
    BY <2>1, <2>3, <2>4, <2>5
<1>7. \A d \in Doc : c.id = d /\ c.upd = doc[d].upd /\ c.st = "done" => Kept(d)'
  BY <1>5, <1>6
<1>8. \A g \in File : file[g].doc # None => file'[g].doc = file[g].doc
  BY <1>1
<1> HIDE DEF c
<1> QED
  BY <1>1, <1>4, <1>5, <1>7, <1>8, MarksByAdvance DEF c

(* A page is taken for a file that lies where the document is: nothing moves. *)
LEMMA MarksByTake ==
  ASSUME MarkInv, NEW t \in Task, NEW f \in File, Take(t, f)
  PROVE  NoneGone' /\ Alone' /\ FilesFit' /\ PagesFit' /\ Held' /\ Passed'
<1> DEFINE c == Current(t)
<1>1. /\ PullInv /\ NoScanning /\ NoneGone /\ Alone /\ FilesFit /\ PagesFit /\ Held /\ Passed
      /\ Calm /\ job[t].todo # <<>> /\ f \in Bound(c.id) /\ ~Mirrored(f, c)
      /\ file' = [file EXCEPT ![f].path = c.path] /\ job' = [job EXCEPT ![t].on = f]
      /\ UNCHANGED <<doc, clock, seen, push>>
  BY DEF MarkInv, Take, HasPage
<1>2. /\ c.id \in Doc /\ c.upd \in Nat /\ c = job[t].todo[1] /\ 1 \in 1..Len(job[t].todo)
      /\ file[f] \in FileRow /\ file[f].mirrored \in Nat /\ f # None
  <2>1. Len(job[t].todo) \in Nat /\ job[t].todo \in Seq(Page)
    BY <1>1, Parts DEF LoopsOK, JobRow
  <2>2. Len(job[t].todo) # 0
    BY <1>1, <2>1
  <2> QED
    BY <1>1, <2>1, <2>2, CurrentPage, FileIsRow, NamesApart
<1>3. c.path = file[f].path
  <2>1. c.path = doc[c.id].path
    BY <1>1, <1>2 DEF PagesFit, PagesOld, PageOld
  <2>2. file[f].path = doc[c.id].path
    BY <1>1, <1>2, NamesApart DEF Bound, FilesFit, Fits
  <2> QED
    BY <2>1, <2>2
<1>4. file' = file
  <2>1. file \in [File -> FileRow]
    BY <1>1, Parts DEF FilesOK
  <2>2. [file[f] EXCEPT !.path = c.path] = file[f]
    BY <1>2, <1>3 DEF FileRow
  <2> HIDE DEF c
  <2> QED
    BY <1>1, <2>1, <2>2
<1>5. /\ job'[t].on = f /\ job'[t].todo = job[t].todo /\ job'[t].newest = job[t].newest
      /\ job'[t].page = job[t].page /\ job'[t].more = job[t].more
      /\ \A u \in Task \ {t} : job'[u] = job[u]
  BY <1>1, Parts DEF LoopsOK, JobRow
<1>6. \A u \in Task : /\ job'[u].todo = job[u].todo /\ job'[u].newest = job[u].newest
                      /\ job'[u].page = job[u].page /\ job'[u].more = job[u].more
  BY <1>5
<1>7. Delta \in Task
  BY DEF Task
<1>8. PagesFit' /\ Passed'
  <2>1. PagesOld' /\ DeltaPages' /\ MarksOld'
    BY <1>1, <1>6, <1>7 DEF PagesFit, PagesOld, PageOld, DeltaPages, MarksOld
  <2>2. Passed'
    BY <1>1, <1>4, <1>6, <1>7, BeyondKept DEF Passed, Mark, ToDo, Kept
  <2> QED
    BY <2>1, <2>2 DEF PagesFit
<1>9. Held'
  <2> SUFFICES ASSUME NEW u \in Task, job'[u].on # None
               PROVE  /\ file[job'[u].on].doc = job'[u].todo[1].id
                      /\ "race" \notin Hazards =>
                           /\ \/ file[job'[u].on].mirrored < job'[u].todo[1].upd
                              \/ job'[u].todo[1].st # "done"
                           /\ \A v \in Task : job'[v].on # None => v = u
    BY <1>4 DEF Held
  <2>1. CASE u = t
    <3>1. file[f].doc = c.id /\ (file[f].mirrored < c.upd \/ c.st # "done")
      BY <1>1, <1>2 DEF Bound, Mirrored
    <3>2. "race" \notin Hazards => \A v \in Task : job'[v].on # None => v = t
      BY <1>1, <1>5 DEF Calm
    <3> QED
      BY <1>2, <1>5, <2>1, <3>1, <3>2
  <2>2. CASE u # t
    <3>1. job'[u] = job[u] /\ job[u].on # None
      BY <1>5, <2>2
    <3>2. "race" \in Hazards
      BY <1>1, <3>1 DEF Calm
    <3> QED
      BY <1>1, <3>1, <3>2 DEF Held
  <2> QED
    BY <2>1, <2>2
<1> QED
  BY <1>1, <1>4, <1>8, <1>9 DEF NoneGone, Alone, FilesFit

(* A file that no document is bound to takes over that of its path. *)
LEMMA MarksByAttach ==
  ASSUME MarkInv, NEW t \in Task, NEW f \in File, AttachFile(t, f)
  PROVE  NoneGone' /\ Alone' /\ FilesFit' /\ PagesFit' /\ Held' /\ Passed'
<1> DEFINE c == Current(t)
           bound == [file[f] EXCEPT !.doc = c.id, !.mirrored = 0, !.status = "none"]
           new == IF LocalNewer(f, c) THEN bound
                  ELSE [bound EXCEPT !.text = c.text, !.mirrored = c.upd, !.status = "done"]
<1>1. /\ PullInv /\ Alone /\ FilesFit /\ Calm /\ job[t].todo # <<>>
      /\ Bound(c.id) = {} /\ c.st = "done" /\ file[f].path = c.path
      /\ file' = [file EXCEPT ![f] = new] /\ Advance(t)
      /\ UNCHANGED <<doc, clock, seen, push>> /\ clock \in Nat
  BY Parts DEF MarkInv, AttachFile, HasPage
<1>2. /\ c.id \in Doc /\ c.path \in Path /\ c.upd \in Nat /\ c = job[t].todo[1]
      /\ 1 \in 1..Len(job[t].todo) /\ file[f] \in FileRow /\ file[f].dirty \in Nat
      /\ VersionOf(c)
  BY <1>1, CurrentPage, AdvanceRows, FileIsRow
<1>3. PageOld(c) /\ doc[c.id].st # "unborn" /\ doc[c.id].upd \in Nat
  BY <1>1, <1>2, StampsAreOld DEF MarkInv, PagesFit, PagesOld, VersionOf
<1>4. Fits(file[f], push[f], doc, clock) /\ Live(f)
  BY <1>1, <1>2 DEF FilesFit, Live
<1>5. file[f].doc # c.id
  BY <1>1, <1>4 DEF Bound
<1>6. push[f].doc = c.id
  BY <1>1, <1>2, <1>3, <1>4, <1>5 DEF Fits, PageOld
<1>7. file[f].doc = None
  BY <1>1, <1>2, <1>5, <1>6, BoundToPushed, NamesApart
<1>8. /\ new.path = file[f].path /\ new.doc = c.id /\ new.dirty = file[f].dirty
      /\ new.queued = file[f].queued
      /\ new.mirrored = IF LocalNewer(f, c) THEN 0 ELSE c.upd
  BY <1>2 DEF FileRow
<1> HIDE DEF new, c
<1>9. Fits(new, push[f], doc, clock)
  BY <1>2, <1>3, <1>4, <1>6, <1>7, <1>8, NamesApart DEF Fits, PageOld
<1>10. FilesFit'
  <2>1. Fits(new, push'[f], doc, clock') /\ clock' \in Nat /\ clock <= clock'
    BY <1>1, <1>9
  <2> QED
    BY <1>1, <2>1, FitByOne
<1>11. \A g \in File : file[g].doc # None => file'[g].doc = file[g].doc
  BY <1>1, <1>7, Parts DEF FilesOK
<1>12. \A d \in Doc : Kept(d) => Kept(d)'
  BY <1>1, <1>7, KeptByOne DEF KeepsDoc
<1>13. ASSUME NEW d \in Doc, c.id = d, c.upd = doc[d].upd
       PROVE  Kept(d)'
  <2>1. new.doc = d /\ (new.queued \/ new.mirrored = doc[d].upd)
    <3>1. LocalNewer(f, c) => file[f].queued
      BY <1>2, <1>4, <1>6, <1>13, NamesApart DEF LocalNewer, Fits
    <3> QED
      BY <1>8, <1>13, <3>1
  <2>2. file'[f] = new
    BY <1>1, Parts DEF FilesOK
  <2> QED
    BY <1>1, <2>1, <2>2 DEF Kept
<1> QED
  BY <1>1, <1>10, <1>11, <1>12, <1>13, MarksByAdvance DEF c

LEMMA MarksByNewFile ==
  ASSUME MarkInv, NEW t \in Task, NEW f \in File, CreateLocal(t, f)
  PROVE  NoneGone' /\ Alone' /\ FilesFit' /\ PagesFit' /\ Held' /\ Passed'
<1> DEFINE c == Current(t)
           new == [NoFile EXCEPT !.path = c.path, !.text = c.text, !.doc = c.id,
                                 !.mirrored = c.upd, !.status = "done"]
<1>1. /\ PullInv /\ Alone /\ FilesFit /\ Calm /\ job[t].todo # <<>> /\ file[f] = NoFile
      /\ file' = [file EXCEPT ![f] = new] /\ Advance(t)
      /\ UNCHANGED <<doc, clock, seen, push>> /\ clock \in Nat
  BY Parts DEF MarkInv, CreateLocal, HasPage, Unused
<1>2. /\ c.id \in Doc /\ c.path \in Path /\ c.upd \in Nat /\ c = job[t].todo[1]
      /\ 1 \in 1..Len(job[t].todo) /\ VersionOf(c)
  BY <1>1, CurrentPage, AdvanceRows
<1>3. PageOld(c) /\ doc[c.id].st # "unborn" /\ doc[c.id].upd \in Nat
  BY <1>1, <1>2, StampsAreOld DEF MarkInv, PagesFit, PagesOld, VersionOf
<1>4. /\ new.path = c.path /\ new.doc = c.id /\ new.dirty = 0 /\ new.mirrored = c.upd
      /\ file[f].doc = None /\ file[f].path = None
  BY <1>1 DEF NoFile
<1>5. push[f].doc = None
  <2>1. Fits(file[f], push[f], doc, clock)
    BY <1>1 DEF FilesFit
  <2> QED
    BY <1>1, <1>4, <2>1, NamesApart, PushIsRow DEF Fits
<1> HIDE DEF new, c
<1>6. Fits(new, push[f], doc, clock)
  <2>1. \A d \in Doc : doc[d].st # "unborn" /\ doc[d].path = c.path => d = c.id
    BY <1>1, <1>2, <1>3 DEF Alone, PageOld
  <2>2. c.path = doc[c.id].path /\ c.upd <= doc[c.id].upd /\ ~(0 > doc[c.id].upd)
        /\ 0 <= clock /\ c.id # None /\ c.path # None
    BY <1>1, <1>2, <1>3, NamesApart DEF PageOld
  <2> QED
    BY <1>2, <1>4, <1>5, <2>1, <2>2 DEF Fits
<1>7. FilesFit'
  <2>1. Fits(new, push'[f], doc, clock') /\ clock' \in Nat /\ clock <= clock'
    BY <1>1, <1>6
  <2> QED
    BY <1>1, <2>1, FitByOne
<1>8. \A g \in File : file[g].doc # None => file'[g].doc = file[g].doc
  BY <1>1, <1>4, Parts DEF FilesOK
<1>9. \A d \in Doc : Kept(d) => Kept(d)'
  BY <1>1, <1>4, KeptByOne DEF KeepsDoc
<1>10. ASSUME NEW d \in Doc, c.id = d, c.upd = doc[d].upd
       PROVE  Kept(d)'
  BY <1>1, <1>4, <1>10, Parts DEF FilesOK, Kept
<1> QED
  BY <1>1, <1>7, <1>8, <1>9, <1>10, MarksByAdvance DEF c

(* A version that is mirrored is newer than what was, or is on a page of   *)
(* the delta pull: then it is the newest, or not what the mark is for.     *)
LEMMA MarksByMirror ==
  ASSUME Peaceful, MarkInv, NEW t \in Task, Mirror(t)
  PROVE  NoneGone' /\ Alone' /\ FilesFit' /\ PagesFit' /\ Held' /\ Passed'
<1> DEFINE c == Current(t)
           f == job[t].on
           new == IF c.st = "done"
                  THEN [file[f] EXCEPT !.text = c.text, !.mirrored = c.upd, !.status = "done"]
                  ELSE [file[f] EXCEPT !.status = c.st]
<1>1. /\ PullInv /\ Alone /\ FilesFit /\ Held /\ Passed /\ f # None /\ f \in File
      /\ job[t].todo # <<>> /\ Advance(t)
      /\ UNCHANGED <<doc, clock, seen, push>> /\ clock \in Nat
  BY Parts DEF MarkInv, Mirror, LoopsOK, JobRow, HoldsPage
<1>2. /\ c.id \in Doc /\ c.path \in Path /\ c.upd \in Nat /\ c = job[t].todo[1]
      /\ 1 \in 1..Len(job[t].todo) /\ VersionOf(c)
      /\ file[f] \in FileRow /\ file[f].mirrored \in Nat
  BY <1>1, CurrentPage, AdvanceRows, FileIsRow
<1>3. PageOld(c) /\ doc[c.id].st # "unborn" /\ doc[c.id].upd \in Nat
  BY <1>1, <1>2, StampsAreOld DEF MarkInv, PagesFit, PagesOld, VersionOf
<1>4. file[f].doc = c.id
  BY <1>1, <1>2 DEF Held
<1>5. Fits(file[f], push[f], doc, clock) /\ Live(f)
  BY <1>1, <1>2, <1>4, NamesApart DEF FilesFit, Fits, Live
<1>6. file' = [file EXCEPT ![f] = new]
  BY <1>1, <1>2, <1>5, Parts DEF Mirror, FilesOK, FileRow
<1>7. /\ new.path = file[f].path /\ new.doc = file[f].doc /\ new.dirty = file[f].dirty
      /\ new.queued = file[f].queued
      /\ new.mirrored = IF c.st = "done" THEN c.upd ELSE file[f].mirrored
  BY <1>2 DEF FileRow
<1> HIDE DEF new, c, f
<1>8. Fits(new, push[f], doc, clock)
  BY <1>2, <1>3, <1>4, <1>5, <1>7 DEF Fits, PageOld
<1>9. FilesFit'
  <2>1. Fits(new, push'[f], doc, clock') /\ clock' \in Nat /\ clock <= clock'
    BY <1>1, <1>8
  <2> QED
    BY <1>1, <1>6, <2>1, FitByOne
<1>10. \A g \in File : file[g].doc # None => file'[g].doc = file[g].doc
  BY <1>1, <1>6, <1>7, Parts DEF FilesOK
<1>11. file'[f] = new /\ \A g \in File \ {f} : file'[g] = file[g]
  BY <1>1, <1>6, Parts DEF FilesOK
<1>12. ASSUME NEW d \in Doc, c.id = d, c.upd = doc[d].upd, c.st = "done"
       PROVE  Kept(d)'
  BY <1>1, <1>4, <1>7, <1>11, <1>12 DEF Kept
<1>13. ASSUME NEW d \in Doc, doc[d].upd <= Mark, Kept(d)
       PROVE  Kept(d)'
  <2>1. PICK g \in File : file[g].doc = d /\ (file[g].queued \/ file[g].mirrored = doc[d].upd)
    BY <1>13 DEF Kept
  <2>2. CASE g # f \/ c.st # "done" \/ file[g].queued
    <3>1. file'[g].doc = d /\ (file'[g].queued \/ file'[g].mirrored = doc[d].upd)
      BY <1>7, <1>11, <2>1, <2>2
    <3> QED
      BY <1>1, <3>1 DEF Kept
  <2>3. CASE g = f /\ c.st = "done" /\ file[f].mirrored = doc[d].upd
    <3>1. d = c.id /\ doc[d].upd \in Nat /\ c.upd <= doc[d].upd
      BY <1>3, <1>4, <2>1, <2>3 DEF PageOld
    <3>2. "race" \in Hazards
      <4> SUFFICES ASSUME "race" \notin Hazards
                   PROVE  FALSE
        OBVIOUS
      <4>1. file[f].mirrored < c.upd
        BY <1>1, <1>2, <2>3 DEF Held, f
      <4> QED
        BY <1>2, <2>3, <3>1, <4>1
    <3>3. t = Delta
      BY <3>2 DEF Peaceful, Task
    <3>4. c.upd = doc[d].upd
      <4>1. DeltaPages /\ job[Delta].newest \in Nat
        BY <1>1, <3>3, Parts DEF MarkInv, PagesFit, LoopsOK, JobRow
      <4>2. Mark = job[Delta].newest
        BY <1>1, <3>3, <4>1 DEF DeltaPages, Mark
      <4>3. c.upd = doc[d].upd \/ doc[d].upd > job[Delta].newest
        BY <1>2, <3>1, <3>3, <4>1 DEF DeltaPages
      <4> QED
        BY <1>13, <3>1, <4>1, <4>2, <4>3
    <3> QED
      BY <1>12, <2>3, <3>1, <3>4
  <2> QED
    BY <2>1, <2>2, <2>3
<1>14. Calm \/ job[t].on # None
  BY <1>1 DEF f
<1> QED
  BY <1>1, <1>9, <1>10, <1>12, <1>13, <1>14, MarksByAdvance DEF c

LEMMA MarksByPull ==
  ASSUME Peaceful, MarkInv, NEW t \in Task, Reconcile(t)
  PROVE  NoneGone' /\ Alone' /\ FilesFit' /\ PagesFit' /\ Held' /\ Passed'
BY MarksByIdle, MarksByTake, MarksByAttach, MarksByNewFile, MarksByMirror DEF Reconcile
-----------------------------------------------------------------------------
LEMMA MarkInvInit == Init => MarkInv
<1> SUFFICES ASSUME Init
             PROVE  MarkInv
  OBVIOUS
<1>1. PullInv /\ Shown /\ NoPolling /\ NoScanning
  BY PullInvInit, ShownInit DEF Init, NoScanning
<1> DEFINE f == CHOOSE f \in File : TRUE
           d == CHOOSE d \in Doc : TRUE
           p == CHOOSE p \in Path : TRUE
<1>2. f \in File /\ d \in Doc /\ p \in Path
  BY PullAssumption
<1>3. PICK held \in BOOLEAN :
        /\ file = [g \in File |-> IF held /\ g = f
                     THEN [NoFile EXCEPT !.path = p, !.text = 1, !.doc = d,
                                         !.mirrored = 2, !.status = "done"]
                     ELSE NoFile]
        /\ doc = [e \in Doc |-> IF held /\ e = d
                    THEN [st |-> "done", path |-> p, text |-> 1, upd |-> 2]
                    ELSE NoDoc]
        /\ clock = IF held THEN 2 ELSE 0
        /\ seen = clock
  BY DEF Init
<1> HIDE DEF f, d, p
<1>4. /\ \A g \in File : push[g] = NoPush
      /\ \A t \in Task : job[t] = NoJob /\ job[t].todo = <<>> /\ job[t].newest = 0
                         /\ job[t].on = None
      /\ Delta \in Task
  BY DEF Init, NoJob, Task
<1>5. NoneGone /\ Alone
  BY <1>3 DEF NoneGone, Alone, NoDoc
<1>6. \A e \in Doc : IF held /\ e = d
                     THEN doc[e].st = "done" /\ doc[e].path = p /\ doc[e].upd = 2
                     ELSE doc[e].st = "unborn" /\ doc[e].upd = 0
  BY <1>3 DEF NoDoc
<1>7. \A g \in File : IF held /\ g = f
                      THEN /\ file[g].path = p /\ file[g].doc = d /\ file[g].mirrored = 2
                           /\ file[g].dirty = 0
                      ELSE file[g].path = None /\ file[g].doc = None /\ file[g].dirty = 0
  BY <1>3 DEF NoFile
<1>8. FilesFit
  <2> SUFFICES ASSUME NEW g \in File
               PROVE  Fits(file[g], push[g], doc, clock)
    BY DEF FilesFit
  <2>1. push[g].doc = None /\ clock \in {0, 2}
    BY <1>3, <1>4 DEF NoPush
  <2>2. CASE held /\ g = f
    BY <1>2, <1>6, <1>7, <2>1, <2>2, NamesApart DEF Fits
  <2>3. CASE ~(held /\ g = f)
    BY <1>2, <1>6, <1>7, <2>1, <2>3, NamesApart DEF Fits
  <2> QED
    BY <2>2, <2>3
<1>9. PagesFit
  <2>1. clock \in Nat
    BY <1>3
  <2> QED
    BY <1>3, <1>4, <2>1 DEF PagesFit, PagesOld, DeltaPages, MarksOld
<1>10. Held
  BY <1>4 DEF Held
<1>11. Passed
  BY <1>2, <1>6, <1>7 DEF Passed, Kept
<1> QED
  BY <1>1, <1>5, <1>8, <1>9, <1>10, <1>11 DEF MarkInv

LEMMA MarkInvStep ==
  ASSUME Peaceful, MarkInv, [Next]_vars
  PROVE  MarkInv'
<1>1. PullInv /\ Shown /\ NoPolling /\ NoScanning
  BY DEF MarkInv
<1>2. NoScanning' /\ NoPolling' /\ ~ScanStep /\ ~PollStep
  BY <1>1, NothingBeside
<1>3. PullInv' /\ Shown'
  BY <1>1, <1>2, PullInvStep, ShownStep
<1>4. NoneGone' /\ Alone' /\ FilesFit' /\ PagesFit' /\ Held' /\ Passed'
  <2>1. CASE UNCHANGED vars
    <3>1. UNCHANGED <<file, doc, clock, seen, job, push, scan>>
      BY <2>1 DEF vars
    <3> QED
      BY <3>1, BeyondKept
         DEF MarkInv, NoneGone, Alone, FilesFit, PagesFit, PagesOld, PageOld, DeltaPages,
             MarksOld, Held, Passed, Kept, ToDo, Mark
  <2>2. ASSUME NEW f \in File, WriteFile(f) \/ PushStep(f) \/ \E p \in Path : CreateFile(f, p)
        PROVE  NoneGone' /\ Alone' /\ FilesFit' /\ PagesFit' /\ Held' /\ Passed'
    BY <2>2, MarksByWrite, MarksByPush, MarksByCreate
  <2>3. ASSUME NEW d \in Doc, Process(d) \/ OtherEdits(d)
        PROVE  NoneGone' /\ Alone' /\ FilesFit' /\ PagesFit' /\ Held' /\ Passed'
    BY <2>3, MarksByProcess, MarksByOthers
  <2>4. CASE DeltaList \/ DeltaEnd
    BY <2>4, MarksByList, MarksByEnd
  <2>5. ASSUME NEW t \in Puller, NEW d \in Doc, HydrateGet(t, d)
        PROVE  NoneGone' /\ Alone' /\ FilesFit' /\ PagesFit' /\ Held' /\ Passed'
    BY <2>5, MarksByGet
  <2>6. ASSUME NEW t \in Task, Reconcile(t)
        PROVE  NoneGone' /\ Alone' /\ FilesFit' /\ PagesFit' /\ Held' /\ Passed'
    BY <2>6, MarksByPull
  <2> QED
    BY <1>2, <2>1, <2>2, <2>3, <2>4, <2>5, <2>6 DEF Next
<1> QED
  BY <1>2, <1>3, <1>4 DEF MarkInv

(* Where documents are created and written but not moved or deleted, no    *)
(* two of one path are created at once, and the scan and the poller rest,  *)
(* what the watermark has passed is here or is on its way, for any number  *)
(* of edits, and even if files are written and pushed between the locks    *)
(* and the pages of the delta pull.                                        *)
THEOREM WatermarkIsSound ==
  ASSUME Peaceful
  PROVE  Spec => []WatermarkSound
<1>1. Init => MarkInv
  BY MarkInvInit
<1>2. MarkInv /\ [Next]_vars => MarkInv'
  BY MarkInvStep
<1>3. MarkInv => WatermarkSound
  <2> SUFFICES ASSUME MarkInv, job[Delta] = NoJob, NEW d \in Doc, doc[d].st = "done",
                      doc[d].upd <= seen
               PROVE  \E f \in Bound(d) : file[f].text = doc[d].text \/ ~Quiet(f)
    BY DEF WatermarkSound
  <2>1. Mark = seen /\ ~ToDo(d) /\ ~Beyond(d)
    BY DEF Mark, ToDo, Beyond, NoJob
  <2>2. PICK f \in File : file[f].doc = d /\ (file[f].queued \/ file[f].mirrored = doc[d].upd)
    BY <2>1 DEF MarkInv, Passed, Kept
  <2>3. Live(f)
    BY <2>2, NamesApart DEF MarkInv, FilesFit, Fits, Live
  <2>4. f \in Bound(d)
    BY <2>2, <2>3 DEF Bound
  <2>5. file[f].text = doc[d].text \/ file[f].queued
    BY <2>2, <2>3 DEF MarkInv, Shown
  <2> QED
    BY <2>4, <2>5 DEF Quiet
<1> QED
  BY <1>1, <1>2, <1>3, PTL DEF Spec
=============================================================================
