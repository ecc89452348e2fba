------------------------------- MODULE Volume -------------------------------
(***************************************************************************)
(* The bash package's file system over the documents of one container:     *)
(* SupermemoryFs (supermemory-fs.ts) and SupermemoryVolume (volume.ts)     *)
(* with their path index and session cache.  JavaScript runs one call at a *)
(* time up to its next request to the server, so a call is a request, what *)
(* the server does about it, and the code after the await.  A path is the  *)
(* sequence of its segments, a text the set of its lines.                  *)
(***************************************************************************)
EXTENDS Naturals, FiniteSets, Sequences, SequencesExt

CONSTANTS
  Path,      \* the paths that may exist, without the root
  Doc,       \* document ids
  Line,      \* lines of text
  Blurb,     \* the line in place of a document that could not be processed
  Slot,      \* calls under way at a time, those of a tree's batch included
  None,
  MaxCalls,  \* bound: calls ever made
  MaxEvents, \* bound: failed requests, expired texts, failed processing,
             \* what others do
  DirPath,   \* bound: the directories mkdir is called for
  Hazards    \* see below

(* "others": another session creates, edits and deletes documents.         *)
(* "lost": a request is served and its answer is lost.  "partial": a bulk  *)
(* deletion leaves documents behind.  "overlap": calls on related paths    *)
(* are under way at a time.                                                *)
ASSUME VolumeAssumption ==
  /\ Path \subseteq Seq(STRING) \ {<<>>}
  /\ IsFiniteSet(Path) /\ IsFiniteSet(Doc)
  /\ None \notin Path \cup Doc \cup Slot \cup {<<>>}
  /\ Blurb \notin Line
  /\ \A p \in Path \cup {None}, t \in SUBSET (Line \cup {Blurb}), b \in BOOLEAN :
       None # t /\ None # [path |-> p, text |-> t, broken |-> b]
  /\ MaxCalls \in Nat /\ MaxEvents \in Nat /\ DirPath \subseteq Path
  /\ Hazards \subseteq {"others", "lost", "partial", "overlap"}

VARIABLES
  docs,   \* the server: path and text of a document, and whether it could
          \* not be processed; None before it exists
  index,  \* PathIndex: files, byDoc and the synthetic directories
  cache,  \* SessionCache: the text of a path
  call,   \* the calls under way
  calls,  \* calls made so far
  events, \* what else happened so far
  foreign \* history: paths that others, or half a deletion, changed

vars == <<docs, index, cache, call, calls, events, foreign>>

Root == <<>>
Texts == SUBSET (Line \cup {Blurb})
Gone == [path |-> None, text |-> {}, broken |-> FALSE]
Unused == {d \in Doc : docs[d] = None}
LiveAt(p) == {d \in Doc \ Unused : docs[d].path = p}
Under(dir) == {p \in Path : IsStrictPrefix(dir, p)}
Moved(p, from, to) == to \o SubSeq(p, Len(from) + 1, Len(p))
Entry(d) ==
  [doc |-> d, path |-> docs[d].path, text |-> docs[d].text, broken |-> docs[d].broken]

NoReq == [kind |-> "none", path |-> None, doc |-> None, text |-> {}]
NoAns == [status |-> "none", docs |-> {}]
Free == [op |-> "free", path |-> None, dest |-> None, text |-> {}, doc |-> None,
         req |-> NoReq, ans |-> NoAns, kids |-> {}, failed |-> FALSE, of |-> None]

Ops == {"read", "append", "copy", "write", "remove", "rmtree", "rmdir", "move",
        "mvtree", "cptree", "list", "warm"}
Entries == [doc : Doc, path : Path, text : Texts, broken : BOOLEAN]

VolumeTypeOK ==
  /\ docs \in [Doc -> {None, Gone} \cup [path : Path, text : Texts, broken : BOOLEAN]]
  /\ index.files \in [Path -> Doc \cup {None}]
  /\ index.byDoc \in [Doc -> Path \cup {None}]
  /\ index.dirs \subseteq Path
  /\ cache \in [Path -> Texts \cup {None}]
  /\ calls \in 0..MaxCalls /\ events \in 0..MaxEvents /\ foreign \subseteq Path
  /\ \A s \in Slot :
       \/ call[s] = Free
       \/ /\ call[s].op \in Ops
          /\ call[s].path \in Path \cup {Root} /\ call[s].dest \in Path \cup {None}
          /\ call[s].text \in Texts /\ call[s].doc \in Doc \cup {None}
          /\ call[s].kids \subseteq Entries /\ call[s].failed \in BOOLEAN
          /\ call[s].ans.docs \subseteq Entries
          /\ call[s].of \in Slot \cup {None}
          /\ call[s].of # None => call[call[s].of].op \in {"mvtree", "cptree"}

(* After createBash has warmed the index, and unless told not to, the cache. *)
Init ==
  \E at \in [Doc -> Path \cup {None}], content \in BOOLEAN :
    LET there == {d \in Doc : at[d] # None}
    IN  /\ \A d, e \in there : d # e => ~IsPrefix(at[d], at[e])
        /\ docs = [d \in Doc |-> IF d \in there THEN [path |-> at[d], text |-> {}, broken |-> FALSE]
                                ELSE None]
        /\ index = [files |-> [p \in Path |-> IF \E d \in there : at[d] = p
                                            THEN CHOOSE d \in there : at[d] = p ELSE None],
                    byDoc |-> at, dirs |-> {}]
        /\ cache = [p \in Path |-> IF content /\ \E d \in there : at[d] = p THEN {} ELSE None]
  /\ call = [s \in Slot |-> Free]
  /\ calls = 0 /\ events = 0 /\ foreign = {}
-----------------------------------------------------------------------------
(* PathIndex.                                                              *)

(* Slip: the path's former document keeps its reverse entry. *)
InsertKeepsOld(ix, p, d) ==
  [ix EXCEPT !.files[p] = d, !.byDoc[d] = p]

Insert(ix, p, d) ==
  LET old == ix.files[p]
  IN  [ix EXCEPT !.files[p] = d,
                 !.byDoc = [e \in Doc |-> IF e = d THEN p
                                          ELSE IF e = old THEN None ELSE @[e]]]

RemovePath(ix, p) ==
  [ix EXCEPT !.files[p] = None,
             !.byDoc = [e \in Doc |-> IF e = ix.files[p] THEN None ELSE @[e]]]

InsertAll(ix, entries) == FoldSet(LAMBDA e, acc : Insert(acc, e.path, e.doc), ix, entries)
RemoveAll(ix, paths) == FoldSet(LAMBDA p, acc : RemovePath(acc, p), ix, paths)

IsFile(ix, p) == p # Root /\ ix.files[p] # None
HasDescendant(ix, p) == \E q \in Under(p) : IsFile(ix, q)
IsDirectory(ix, p) == p = Root \/ p \in ix.dirs \/ HasDescendant(ix, p)
IsDirOnly(ix, p) == IsDirectory(ix, p) /\ ~IsFile(ix, p)
AncestorFile(ix, p) == \E q \in Path : IsStrictPrefix(q, p) /\ IsFile(ix, q)

(* Slip: a file may be put below a file. *)
WritableBelow(ix, p) == ~HasDescendant(ix, p)

(* assertWritable: no file above, no file below.                           *)
Writable(ix, p) == ~AncestorFile(ix, p) /\ ~HasDescendant(ix, p)
-----------------------------------------------------------------------------
(* Steps of a call.                                                        *)

Done(s) == call' = [call EXCEPT ![s] = Free]

(* A call that throws; a child leaves its error with its tree.             *)
Throw(s) ==
  call' = [t \in Slot |-> IF t = s THEN Free
                          ELSE IF t = call[s].of THEN [call[t] EXCEPT !.failed = TRUE]
                          ELSE call[t]]

Ask(s, job, kind, path, doc, text) ==
  call' = [call EXCEPT ![s] = [job EXCEPT
             !.req = [kind |-> kind, path |-> path, doc |-> doc, text |-> text],
             !.ans = NoAns]]

(* addDoc, up to its request.                                              *)
AddDoc(s, job, p, text, ix) ==
  LET write == [job EXCEPT !.op = "write", !.path = p, !.text = text]
  IN  IF ~Writable(ix, p) THEN Throw(s)
      ELSE IF IsFile(ix, p) THEN Ask(s, write, "update", p, ix.files[p], text)
      ELSE Ask(s, write, "add", p, None, text)

(* What follows getDoc; a text of None: there is no such file.             *)
Got(s, job, text, ix) ==
  CASE job.op = "append" ->
         AddDoc(s, job, job.path, job.text \cup (IF text = None THEN {} ELSE text), ix)
    [] job.op = "copy" /\ text # None -> AddDoc(s, job, job.dest, text, ix)
    [] job.op = "copy" /\ text = None -> Throw(s)
    [] OTHER -> Done(s)

(* getDoc and statDoc: the cache answers if the index has the document.    *)
GetDoc(s, job) ==
  IF cache[job.path] # None /\ IsFile(index, job.path)
  THEN Got(s, job, cache[job.path], index)
  ELSE Ask(s, job, "find", job.path, None, {})

(* moveDoc: look up the source, then the target, then rename.              *)
MoveDoc(s, job, ix) ==
  IF ~IsFile(ix, job.path) THEN Ask(s, job, "find", job.path, None, {})
  ELSE IF IsFile(ix, job.dest) THEN Throw(s)
  ELSE Ask(s, [job EXCEPT !.doc = ix.files[job.path]], "find", job.dest, None, {})

MoveTo(s, job) == Ask(s, job, "rename", job.dest, job.doc, {})
-----------------------------------------------------------------------------
(* The calls of SupermemoryFs, up to the first request.                    *)

Job(op, p, q, text) == [Free EXCEPT !.op = op, !.path = p, !.dest = q, !.text = text]
Related(p, q) == p # None /\ q # None /\ (IsPrefix(p, q) \/ IsPrefix(q, p))

MayCall(s, p, q) ==
  /\ call[s] = Free /\ calls < MaxCalls
  /\ calls' = calls + 1
  /\ "overlap" \in Hazards \/
       \A t \in Slot, u \in {p, q} :
         call[t] # Free => ~Related(u, call[t].path) /\ ~Related(u, call[t].dest)
  /\ UNCHANGED <<docs, events, foreign>>

ReadFile(s) == \E p \in Path :
  /\ MayCall(s, p, None) /\ ~IsDirOnly(index, p)
  /\ GetDoc(s, Job("read", p, None, {}))
  /\ UNCHANGED <<index, cache>>

WriteFile(s) == \E p \in Path, l \in Line :
  /\ MayCall(s, p, None) /\ ~IsDirOnly(index, p)
  /\ AddDoc(s, Job("write", p, None, {l}), p, {l}, index)
  /\ UNCHANGED <<index, cache>>

AppendFile(s, l) == \E p \in Path :
  /\ MayCall(s, p, None) /\ ~IsDirOnly(index, p)
  /\ GetDoc(s, Job("append", p, None, {l}))
  /\ UNCHANGED <<index, cache>>

Cp(s) == \E p, q \in Path :
  /\ MayCall(s, p, q) /\ ~IsDirOnly(index, p)
  /\ GetDoc(s, Job("copy", p, q, {}))
  /\ UNCHANGED <<index, cache>>

Mkdir(s) == \E p \in DirPath :
  /\ MayCall(s, p, None) /\ ~IsFile(index, p)
  /\ \E dirs \in {{p}, {q \in Path : IsPrefix(q, p)}} :
       /\ dirs = {p} => ~IsDirectory(index, p)
       /\ index' = [index EXCEPT !.dirs = @ \cup dirs]
  /\ UNCHANGED <<cache, call>>

Rm(s) == \E p \in Path :
  /\ MayCall(s, p, None)
  /\ IsFile(index, p)
  /\ Ask(s, Job("remove", p, None, {}), "delete", p, index.files[p], {})
  /\ UNCHANGED <<index, cache>>

RmTree(s) == \E p \in Path \cup {Root} :
  /\ MayCall(s, p, None) /\ IsDirOnly(index, p)
  /\ Ask(s, Job("rmtree", p, None, {}), "bulk", p, None, {})
  /\ UNCHANGED <<index, cache>>

Rmdir(s) == \E p \in Path :
  /\ MayCall(s, p, None) /\ IsDirOnly(index, p)
  /\ Ask(s, Job("rmdir", p, None, {}), "list", p, None, {})
  /\ UNCHANGED <<index, cache>>

Readdir(s) == \E p \in Path \cup {Root} :
  /\ MayCall(s, p, None) /\ ~IsFile(index, p)
  /\ Ask(s, Job("list", p, None, {}), "list", p, None, {})
  /\ UNCHANGED <<index, cache>>

Warm(s) ==
  /\ MayCall(s, Root, None)
  /\ Ask(s, Job("warm", Root, None, {}), "list", Root, None, {})
  /\ UNCHANGED <<index, cache>>

Mv(s) == \E p, q \in Path :
  /\ MayCall(s, p, q) /\ ~IsDirOnly(index, p) /\ Writable(index, q)
  /\ MoveDoc(s, Job("move", p, q, {}), index)
  /\ UNCHANGED <<index, cache>>

(* mv and cp -r of a directory; targets outside Path are not enumerated.   *)
MvTree(s) == \E p, q \in Path, op \in {"mvtree", "cptree"} :
  /\ MayCall(s, p, q) /\ IsDirOnly(index, p)
  /\ {Moved(r, p, q) : r \in Under(p)} \subseteq Path
  /\ Ask(s, Job(op, p, q, {}), "list", p, None, {})
  /\ UNCHANGED <<index, cache>>
-----------------------------------------------------------------------------
(* The server.                                                             *)

Answer(s, status, found) ==
  call' = [call EXCEPT ![s].ans = [status |-> status, docs |-> found]]
Asked(s, kind) == call[s].req.kind = kind /\ call[s].ans = NoAns

Find(s) ==
  /\ Asked(s, "find")
  /\ LET live == LiveAt(call[s].req.path)
     IN  \/ live = {} /\ Answer(s, "ok", {})
         \/ \E d \in live : Answer(s, "ok", {Entry(d)})
  /\ UNCHANGED docs

ListDocs(s) ==
  /\ Asked(s, "list")
  /\ Answer(s, "ok", {Entry(d) : d \in UNION {LiveAt(p) : p \in Under(call[s].req.path)}})
  /\ UNCHANGED docs

Add(s) ==
  /\ Asked(s, "add")
  /\ \E d \in Unused :
       LET p == call[s].req.path
           text == call[s].req.text
       IN  /\ docs' = [docs EXCEPT ![d] = [path |-> p, text |-> text, broken |-> FALSE]]
           /\ Answer(s, "ok", {[doc |-> d, path |-> p, text |-> text, broken |-> FALSE]})

(* A PATCH with content keeps the path, one without keeps the content.     *)
Patch(s) ==
  \E kind \in {"update", "rename", "delete"} :
    /\ Asked(s, kind)
    /\ LET req == call[s].req
       IN  IF docs[req.doc] = Gone THEN Answer(s, "missing", {}) /\ UNCHANGED docs
           ELSE /\ docs' = [docs EXCEPT ![req.doc] =
                     CASE kind = "update" -> [@ EXCEPT !.text = req.text, !.broken = FALSE]
                       [] kind = "rename" -> [@ EXCEPT !.path = req.path]
                       [] kind = "delete" -> Gone]
                /\ Answer(s, "ok", {})

Bulk(s) ==
  /\ Asked(s, "bulk")
  /\ LET hit == UNION {LiveAt(p) : p \in Under(call[s].req.path)}
     IN  \E del \in IF "partial" \in Hazards THEN SUBSET hit ELSE {hit} :
           docs' = [d \in Doc |-> IF d \in del THEN Gone ELSE docs[d]]
  /\ Answer(s, "ok", {})

Serve(s) ==
  /\ Find(s) \/ ListDocs(s) \/ Add(s) \/ Patch(s) \/ Bulk(s)
  /\ UNCHANGED <<index, cache, calls, events>>
  /\ foreign' = foreign \cup
       (IF call[s].req.kind = "rename" /\ call[s].path \in foreign THEN {call[s].dest} ELSE {})
       \cup (IF call[s].req.kind = "bulk"
             THEN {p \in Under(call[s].path) : \E d \in Doc : docs'[d] \notin {None, Gone} /\ docs'[d].path = p}
             ELSE {})

Happens == events < MaxEvents /\ events' = events + 1

(* The request fails; with "lost", after it was served.                    *)
Fail(s) ==
  /\ call[s].req # NoReq
  /\ call[s].ans.status \in {"none"} \cup IF "lost" \in Hazards THEN {"ok"} ELSE {}
  /\ Answer(s, "failed", {})
  /\ Happens
  /\ UNCHANGED <<docs, index, cache, calls, foreign>>

Others ==
  /\ "others" \in Hazards /\ Happens
  /\ \E p \in Path :
       /\ foreign' = foreign \cup {p}
       /\ \/ \E d \in Unused, t \in Texts :
               LiveAt(p) = {} /\ docs' = [docs EXCEPT ![d] = [path |-> p, text |-> t, broken |-> FALSE]]
          \/ \E d \in LiveAt(p), t \in Texts :
               docs' = [docs EXCEPT ![d].text = t, ![d].broken = FALSE]
          \/ \E d \in LiveAt(p) : docs' = [docs EXCEPT ![d] = Gone]
  /\ UNCHANGED <<index, cache, call, calls>>

(* A document is stored and then cannot be processed.                      *)
ProcessingFails == \E d \in Doc \ Unused :
  /\ docs[d] # Gone /\ ~docs[d].broken /\ Happens
  /\ docs' = [docs EXCEPT ![d].broken = TRUE]
  /\ UNCHANGED <<index, cache, call, calls, foreign>>
-----------------------------------------------------------------------------
(* What follows an answer.                                                 *)

Answered(s, op, kind, status) ==
  /\ call[s].op \in op /\ call[s].req.kind = kind /\ call[s].ans.status = status
Put(p, text) == cache' = [cache EXCEPT ![p] = text]
Evict(paths) == cache' = [p \in Path |-> IF p \in paths THEN None ELSE cache[p]]

(* Slip: the text is cached whatever the answer. *)
EioCaches(s) ==
  /\ call[s].ans.status = "failed"
  /\ IF call[s].op = "write" THEN Put(call[s].path, call[s].text) ELSE UNCHANGED cache
  /\ Throw(s) /\ UNCHANGED index

(* Any failed request ends its call with EIO (or EBUSY); so does an update *)
(* of a document that is gone.                                             *)
Eio(s) ==
  /\ call[s].ans.status = "failed" \/ Answered(s, {"write"}, "update", "missing")
  /\ Throw(s) /\ UNCHANGED <<index, cache>>

(* getDoc has a blurb for a document that could not be processed, statDoc  *)
(* its text.                                                               *)
TextsOf(op, e) ==
  (IF e.broken THEN {{Blurb}} ELSE {e.text}) \cup (IF op = "read" THEN {e.text} ELSE {})

GotDoc(s) ==
  /\ Answered(s, {"read", "append", "copy"}, "find", "ok")
  /\ LET job == call[s]
         p == job.path
         found == job.ans.docs
         ix == IF found = {} THEN RemovePath(index, p) ELSE InsertAll(index, found)
     IN  \E text \in IF found = {} THEN {None} ELSE TextsOf(job.op, CHOOSE e \in found : TRUE) :
           index' = ix /\ Put(p, text) /\ Got(s, job, text, ix)

Written(s) ==
  /\ Answered(s, {"write"}, "add", "ok") \/ Answered(s, {"write"}, "update", "ok")
  /\ LET job == call[s]
         d == IF job.req.kind = "update" THEN job.req.doc
              ELSE (CHOOSE e \in job.ans.docs : TRUE).doc
     IN  index' = Insert(index, job.path, d) /\ Put(job.path, job.text)
  /\ Done(s)

Removed(s) ==
  /\ Answered(s, {"remove"}, "delete", "ok") \/ Answered(s, {"remove"}, "delete", "missing")
  /\ index' = RemovePath(index, call[s].path) /\ Evict({call[s].path})
  /\ Done(s)

(* The synthetic directories go with the documents, also with those the    *)
(* server could not delete.                                                *)
TreeRemoved(s) ==
  /\ Answered(s, {"rmtree"}, "bulk", "ok")
  /\ LET dir == call[s].path
         below == {p \in Under(dir) : IsFile(index, p)}
     IN  /\ index' = [RemoveAll(index, below) EXCEPT !.dirs = @ \ ({dir} \cup Under(dir))]
         /\ Evict(below)
  /\ Done(s)

(* isDirEmpty asks for one document below.                                 *)
RmdirListed(s) ==
  /\ Answered(s, {"rmdir"}, "list", "ok")
  /\ LET dir == call[s].path
         found == call[s].ans.docs
     IN  IF found # {} THEN (\E e \in found : index' = InsertAll(index, {e})) /\ Throw(s)
         ELSE IF index.dirs \cap Under(dir) # {} THEN UNCHANGED index /\ Throw(s)
         ELSE index' = [index EXCEPT !.dirs = @ \ {dir}] /\ Done(s)
  /\ UNCHANGED cache

Listed(s) ==
  /\ Answered(s, {"list", "warm"}, "list", "ok")
  /\ LET found == call[s].ans.docs
     IN  /\ index' = InsertAll(index, found)
         /\ cache' = [p \in Path |->
              IF call[s].op = "warm" /\ \E e \in found : e.path = p
              THEN (CHOOSE e \in found : e.path = p).text ELSE cache[p]]
  /\ Done(s)

(* The batch of a tree: one moveDoc or addDoc for every entry.             *)
TreeListed(s) ==
  /\ Answered(s, {"mvtree", "cptree"}, "list", "ok")
  /\ LET job == call[s]
         found == job.ans.docs
     IN  /\ index' = InsertAll(index, found)
         /\ cache' = [p \in Path |->
              IF job.op = "cptree" /\ \E e \in found : e.path = p
              THEN (CHOOSE e \in found : e.path = p).text ELSE cache[p]]
         /\ call' = [call EXCEPT ![s] = [job EXCEPT !.req = NoReq, !.ans = NoAns, !.kids = found]]

Spawn(s) == \E e \in call[s].kids, t \in Slot :
  /\ call[t] = Free
  /\ LET tree == call[s]
         to == Moved(e.path, tree.path, tree.dest)
         kid == [Free EXCEPT !.op = IF tree.op = "mvtree" THEN "move" ELSE "write",
                   !.path = IF tree.op = "mvtree" THEN e.path ELSE to,
                   !.dest = IF tree.op = "mvtree" THEN to ELSE None,
                   !.text = IF tree.op = "mvtree" THEN {} ELSE e.text, !.of = s]
     IN  /\ call' = [call EXCEPT ![s].kids = @ \ {e}, ![t] = kid]
         /\ foreign' = foreign \cup IF e.path \in foreign THEN {to} ELSE {}
  /\ UNCHANGED <<docs, index, cache, calls, events>>

StartKid(s) ==
  /\ call[s].of # None /\ call[s].req = NoReq
  /\ LET job == call[s]
     IN  IF job.op = "write" THEN AddDoc(s, job, job.path, job.text, index)
         ELSE IF ~Writable(index, job.dest) THEN Throw(s) ELSE MoveDoc(s, job, index)
  /\ UNCHANGED <<index, cache>>

(* Slip: the batch is not awaited. *)
KidsStarted(s) == call[s].kids = {}

KidsDone(s) == call[s].kids = {} /\ \A t \in Slot : call[t].of # s

TreeDone(s) ==
  /\ call[s].op \in {"mvtree", "cptree"} /\ call[s].req = NoReq /\ KidsDone(s)
  /\ LET from == call[s].path
         below == index.dirs \cap Under(from)
         made == {Moved(d, from, call[s].dest) : d \in below} \cup {call[s].dest}
     IN  index' = [index EXCEPT !.dirs =
           (IF call[s].op = "mvtree" THEN @ \ (below \cup {from}) ELSE @) \cup made]
  /\ Done(s) /\ UNCHANGED cache

FoundSource(s) ==
  /\ Answered(s, {"move"}, "find", "ok") /\ call[s].doc = None
  /\ LET ix == InsertAll(index, call[s].ans.docs)
     IN  /\ index' = ix
         /\ IF call[s].ans.docs = {} THEN Throw(s) ELSE MoveDoc(s, call[s], ix)
  /\ UNCHANGED cache

FoundTarget(s) ==
  /\ Answered(s, {"move"}, "find", "ok") /\ call[s].doc # None
  /\ index' = InsertAll(index, call[s].ans.docs)
  /\ IF call[s].ans.docs = {} THEN MoveTo(s, call[s]) ELSE Throw(s)
  /\ UNCHANGED cache

(* Slip: the source stays in the index. *)
RenamedKeepsSource(s) ==
  /\ Answered(s, {"move"}, "rename", "ok")
  /\ index' = Insert(index, call[s].dest, call[s].doc)
  /\ Done(s) /\ UNCHANGED cache

Renamed(s) ==
  /\ Answered(s, {"move"}, "rename", "ok")
  /\ LET from == call[s].path
         to == call[s].dest
     IN  /\ index' = Insert(RemovePath(index, from), to, call[s].doc)
         /\ cache' = IF cache[from] = None THEN cache
                     ELSE [cache EXCEPT ![to] = cache[from], ![from] = None]
  /\ Done(s)

RenamedNothing(s) ==
  /\ Answered(s, {"move"}, "rename", "missing")
  /\ index' = RemovePath(index, call[s].path) /\ Evict({call[s].path})
  /\ Throw(s)

(* The time to live is over, or the cache is full.                         *)
Expire == \E p \in Path :
  /\ cache[p] # None /\ Evict({p}) /\ Happens
  /\ UNCHANGED <<docs, index, call, calls, foreign>>

Start(s) ==
  \/ ReadFile(s) \/ WriteFile(s) \/ (\E l \in Line : AppendFile(s, l)) \/ Cp(s) \/ Mkdir(s)
  \/ Rm(s) \/ RmTree(s) \/ Rmdir(s) \/ Readdir(s) \/ Warm(s) \/ Mv(s) \/ MvTree(s)

Resume(s) ==
  /\ \/ Eio(s) \/ GotDoc(s) \/ Written(s) \/ Removed(s) \/ TreeRemoved(s)
     \/ RmdirListed(s) \/ Listed(s) \/ TreeListed(s) \/ StartKid(s)
     \/ TreeDone(s) \/ FoundSource(s) \/ FoundTarget(s) \/ Renamed(s) \/ RenamedNothing(s)
  /\ UNCHANGED <<docs, calls, events, foreign>>

Next ==
  \/ \E s \in Slot : Start(s) \/ Serve(s) \/ Fail(s) \/ Resume(s) \/ Spawn(s)
  \/ Others \/ ProcessingFails \/ Expire

Spec == Init /\ [][Next]_vars
-----------------------------------------------------------------------------
(* sgrep names a hit by PathIndex.findPath: the path it gives is the one   *)
(* the document has in the index, whatever was written, moved and listed.  *)
FindPathAgrees ==
  VolumeTypeOK /\ \A d \in Doc : index.byDoc[d] # None => index.files[index.byDoc[d]] = d

(* A request goes by document id.  On paths that only this session wrote,  *)
(* the document is still at the path of the call: a command on one path    *)
(* never changes another.                                                  *)
ActsOnItsPath ==
  \A s \in Slot :
    LET req == call[s].req
    IN  call[s].ans = NoAns /\ call[s].path \notin foreign /\ req.kind \in {"update", "rename", "delete"} =>
          docs[req.doc] = Gone \/ docs[req.doc].path = call[s].path

UnderWay(p) == \E s \in Slot : Related(p, call[s].path) \/ Related(p, call[s].dest)
Settled == {p \in Path \ foreign : ~UnderWay(p)}

(* Between calls, on paths that only this session wrote: what the index    *)
(* and the cache say is what the server has (tool-description.ts: "writes  *)
(* return immediately and self-reads see them via the local cache"), or    *)
(* the blurb for a document that could not be processed.                   *)
SelfReads ==
  \A p \in Settled :
    /\ LiveAt(p) = IF IsFile(index, p) THEN {index.files[p]} ELSE {}
    /\ IsFile(index, p) /\ cache[p] # None =>
         LET doc == docs[index.files[p]]
         IN  cache[p] = doc.text \/ (doc.broken /\ cache[p] = {Blurb})

(* The server never has a document below a document: neither would be both *)
(* a file and a directory to any client.                                   *)
TreeShape ==
  \A p, q \in Path \ foreign :
    IsStrictPrefix(p, q) /\ LiveAt(p) # {} => LiveAt(q) = {}

(* When mv of a directory to an unrelated path ends without an error,      *)
(* nothing of it is left at the source.                                    *)
MovedWhole ==
  [][\A s \in Slot :
       call[s].op = "mvtree" /\ call'[s] = Free /\ call[s].ans.status # "failed"
         /\ ~call[s].failed /\ ~Related(call[s].path, call[s].dest)
       => \A p \in Under(call[s].path) \ foreign : LiveAt(p) = {}]_vars
=============================================================================
