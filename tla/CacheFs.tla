------------------------------- MODULE CacheFs -------------------------------
(***************************************************************************)
(* The namespace of the SQLite cache (cache/fs.rs): fs_inode, fs_dentry,   *)
(* and the dentry cache beside them.  The calls of the mount are made by   *)
(* callers; pullers bring in what the server has (reconcile_one and what   *)
(* it calls).  A step is what happens under one lock of the database; what *)
(* a call does after it has released that lock is left in `rest'.          *)
(*                                                                         *)
(* A derived sibling is a read-only file that the program keeps beside a   *)
(* file (a transcription or an error); its six suffixes are treated alike  *)
(* and are one here.  A file's content, its document and the push queue    *)
(* are in PushSync and PullSync.                                           *)
(***************************************************************************)
EXTENDS Naturals, FiniteSets

CONSTANTS
  Name,      \* names in a directory
  Sibling,   \* name -> the name of its derived sibling, by a suffix
  MaxIno,    \* bound: inode numbers, of which 1 is the root
  MaxLinks,  \* bound: names of one file
  CacheMax,  \* entries the dentry cache has room for
  Caller,    \* threads that make the mount's calls
  Puller,    \* tasks that apply what was pulled
  Hazards    \* what the environment does beside the plain use, see below

(* "overlink": a file with a second name is replaced or deleted;           *)
(* "race": calls and pullers work in one directory at the same time;       *)
(* "filedir": the server has a document below the filepath of a file.      *)
ASSUME CacheAssumption ==
  /\ MaxIno \in Nat \ {0} /\ CacheMax \in Nat \ {0} /\ MaxLinks \in Nat
  /\ DOMAIN Sibling \subseteq Name
  /\ \A n \in DOMAIN Sibling : Sibling[n] \in Name \ DOMAIN Sibling
  /\ \A n, m \in DOMAIN Sibling : Sibling[n] = Sibling[m] => n = m
  /\ \A m \in Name \ DOMAIN Sibling : \E n \in DOMAIN Sibling : Sibling[n] = m
  /\ Caller \cap Puller = {}
  /\ Hazards \subseteq {"overlink", "race", "filedir"}

Root == 1
Ino == 1..MaxIno
Task == Caller \cup Puller

VARIABLES
  kind,      \* fs_inode.mode's type, "none" if there is no row, "lost" if
             \* there is one without a name; "file" is a symlink, too
  nlink,     \* fs_inode.nlink
  derived,   \* fs_inode.derived
  dentry,    \* fs_dentry: inode -> name -> inode, 0 if there is no row
  nextIno,   \* AUTOINCREMENT: inode numbers are never reused
  cache,     \* the dentry cache, as dentry
  rest       \* task -> what it does next, after its last lock

vars == <<kind, nlink, derived, dentry, nextIno, cache, rest>>

Entry == Ino \X Name
NoNames == [n \in Name |-> 0]

(* pc "publish", "sweep": update the dentry cache with `put', entries and   *)
(* their inode or 0, after the call's own step or its sibling's; "cascade": *)
(* look for the sibling of the name that left `from'; "placed": a puller    *)
(* has found the directory it will work in.                                 *)
Quiet == [pc |-> "idle", dirs |-> {}, put |-> {}, from |-> {}, to |-> {}]

CacheTypeOK ==
  /\ kind \in [Ino -> {"none", "lost", "dir", "file"}]
  /\ nlink \in [Ino -> Nat]
  /\ derived \in [Ino -> BOOLEAN]
  /\ dentry \in [Ino -> [Name -> Ino \cup {0}]]
  /\ cache \in [Ino -> [Name -> Ino \cup {0}]]
  /\ nextIno \in 2..MaxIno + 1
  /\ rest \in [Task -> [pc : {"idle", "publish", "cascade", "sweep", "placed"},
                        dirs : SUBSET Ino, put : SUBSET (Entry \X (Ino \cup {0})),
                        from : SUBSET Entry, to : SUBSET Entry]]

Init ==
  /\ kind = [i \in Ino |-> IF i = Root THEN "dir" ELSE "none"]
  /\ nlink = [i \in Ino |-> IF i = Root THEN 2 ELSE 0]
  /\ derived = [i \in Ino |-> FALSE]
  /\ dentry = [i \in Ino |-> NoNames]
  /\ cache = dentry
  /\ nextIno = 2
  /\ rest = [t \in Task |-> Quiet]
-----------------------------------------------------------------------------
(* Answers, in the order in which the code tests for them; a query for the *)
(* row of an inode that is gone fails as "NotFound" or, in rename, "Io".   *)

DirAnswer(p) == IF kind[p] = "none" THEN "NotFound"
                ELSE IF kind[p] # "dir" THEN "NotADirectory" ELSE "Ok"

First(x, y) == IF x # "Ok" THEN x ELSE y

Lookup(p, n) ==
  LET c == IF cache[p][n] # 0 THEN cache[p][n] ELSE dentry[p][n]
  IN IF DirAnswer(p) = "Ok" /\ c # 0 /\ kind[c] # "none" THEN c ELSE 0

(* readdir_plus joins fs_dentry with fs_inode; the cache is not asked *)
Listing(p) ==
  IF DirAnswer(p) = "Ok"
  THEN {n \in Name : dentry[p][n] # 0 /\ kind[dentry[p][n]] # "none"}
  ELSE {}

NewNameAnswer(p, n) ==
  First(DirAnswer(p), IF dentry[p][n] # 0 THEN "AlreadyExists" ELSE "Ok")

LinkAnswer(i, p, n) ==
  First(IF kind[i] = "none" THEN "NotFound"
        ELSE IF kind[i] = "dir" THEN "IsADirectory" ELSE "Ok",
        NewNameAnswer(p, n))

UnlinkAnswer(p, n) ==
  LET c == dentry[p][n]
  IN IF c = 0 \/ kind[c] = "none" THEN "NotFound"
     ELSE IF kind[c] = "dir" THEN "IsADirectory" ELSE "Ok"

(* Slip: what is in the directory is not asked. *)
RmdirAnswerFull(p, n) ==
  LET c == dentry[p][n]
  IN IF c = 0 THEN "NotFound" ELSE DirAnswer(c)

RmdirAnswer(p, n) ==
  LET c == dentry[p][n]
  IN First(IF c = 0 THEN "NotFound" ELSE DirAnswer(c),
           IF dentry[c] # NoNames THEN "NotEmpty" ELSE "Ok")

ReplaceAnswer(src, dst) ==
  CASE kind[dst] = "none" -> "Io"
    [] kind[src] = "dir" /\ kind[dst] = "file" -> "NotADirectory"
    [] kind[src] # "dir" /\ kind[dst] = "dir" -> "IsADirectory"
    [] kind[src] = "dir" /\ kind[dst] = "dir" /\ dentry[dst] # NoNames -> "NotEmpty"
    [] OTHER -> "Ok"

RenameAnswer(p, n, q, m) ==
  LET src == dentry[p][n]
      dst == dentry[q][m]
  IN First(First(IF src = 0 THEN "NotFound" ELSE "Ok", DirAnswer(q)),
           IF kind[src] = "none" THEN "Io"
           ELSE IF dst \in {0, src} THEN "Ok" ELSE ReplaceAnswer(src, dst))
-----------------------------------------------------------------------------
(* The kernel holds the directories of a call locked until it returns; it  *)
(* does not know of the pullers.                                           *)
Shuts(u, t) == u # t /\ ("race" \in Hazards => {u, t} \subseteq Caller)
Free(t, dirs) == \A u \in Task : Shuts(u, t) => rest[u].dirs \cap dirs = {}

Call(t, dirs) == t \in Caller /\ rest[t] = Quiet /\ Free(t, dirs)

Shared(i) == kind[i] = "file" /\ nlink[i] > 1
Ordinary(i) == Shared(i) => "overlink" \in Hazards

IsSiblingName(n) == \E b \in DOMAIN Sibling : Sibling[b] = n

Alloc(k) ==
  /\ nextIno <= MaxIno
  /\ nextIno' = nextIno + 1
  /\ kind' = [kind EXCEPT ![nextIno] = k]

(* The dentry cache after some entries are set or, with 0, dropped: when   *)
(* it is full another entry goes, which one depends on earlier look-ups.   *)
After(put) ==
  [p \in Ino |-> [n \in Name |->
     IF \E e \in put : e[1] = <<p, n>>
     THEN (CHOOSE e \in put : e[1] = <<p, n>>)[2]
     ELSE cache[p][n]]]

CachePut(put) ==
  LET after == After(put)
      filled == {e \in Entry : after[e[1]][e[2]] # 0}
  IN IF Cardinality(filled) <= CacheMax
     THEN cache' = after
     ELSE \E e \in filled : /\ ~\E f \in put : f[1] = e
                            /\ cache' = [after EXCEPT ![e[1]][e[2]] = 0]

Cached(at, i) == CachePut({<<at, i>>})

Then(t, r) == rest' = [rest EXCEPT ![t] = r]

(* What the call still has to put into the dentry cache.                   *)
Leaves(t, dirs, put, from, to) ==
  Then(t, [pc |-> "publish", dirs |-> dirs, put |-> put, from |-> from, to |-> to])
-----------------------------------------------------------------------------
(* Calls that keep the database locked until the cache is updated.         *)

Mkdir(t, p, n) ==
  /\ Call(t, {p})
  /\ ~IsSiblingName(n)
  /\ NewNameAnswer(p, n) = "Ok"
  /\ Alloc("dir")
  /\ nlink' = [nlink EXCEPT ![nextIno] = 2, ![p] = @ + 1]
  /\ dentry' = [dentry EXCEPT ![p][n] = nextIno]
  /\ Cached(<<p, n>>, nextIno)
  /\ UNCHANGED <<derived, rest>>

Symlink(t, p, n) ==
  /\ Call(t, {p})
  /\ ~IsSiblingName(n)
  /\ NewNameAnswer(p, n) = "Ok"
  /\ Alloc("file")
  /\ nlink' = [nlink EXCEPT ![nextIno] = 1]
  /\ dentry' = [dentry EXCEPT ![p][n] = nextIno]
  /\ Cached(<<p, n>>, nextIno)
  /\ UNCHANGED <<derived, rest>>

Link(t, i, p, n) ==
  /\ Call(t, {p})
  /\ ~IsSiblingName(n) /\ ~derived[i] /\ kind[i] # "lost"
  /\ LinkAnswer(i, p, n) = "Ok" /\ nlink[i] < MaxLinks
  /\ nlink' = [nlink EXCEPT ![i] = @ + 1]
  /\ dentry' = [dentry EXCEPT ![p][n] = i]
  /\ Cached(<<p, n>>, i)
  /\ UNCHANGED <<kind, derived, nextIno, rest>>

Rmdir(t, p, n) ==
  LET c == dentry[p][n]
  IN /\ Call(t, {p, c})
     /\ RmdirAnswer(p, n) = "Ok"
     /\ dentry' = [dentry EXCEPT ![p][n] = 0]
     /\ kind' = [kind EXCEPT ![c] = "none"]
     /\ nlink' = [nlink EXCEPT ![c] = 0, ![p] = IF @ > 3 THEN @ - 1 ELSE 2]
     /\ Cached(<<p, n>>, 0)
     /\ UNCHANGED <<derived, nextIno, rest>>

(* A look-up that misses the cache fills it.                               *)
LookupMiss(t, p, n) ==
  /\ Call(t, {p})
  /\ DirAnswer(p) = "Ok"
  /\ cache[p][n] = 0
  /\ dentry[p][n] # 0
  /\ Cached(<<p, n>>, dentry[p][n])
  /\ UNCHANGED <<kind, nlink, derived, dentry, nextIno, rest>>
-----------------------------------------------------------------------------
(* Calls that release the database before they update the cache.           *)

CreateFile(t, p, n) ==
  /\ Call(t, {p})
  /\ ~IsSiblingName(n)
  /\ NewNameAnswer(p, n) = "Ok"
  /\ Alloc("file")
  /\ nlink' = [nlink EXCEPT ![nextIno] = 1]
  /\ dentry' = [dentry EXCEPT ![p][n] = nextIno]
  /\ Leaves(t, {p}, {<<<<p, n>>, nextIno>>}, {}, {})
  /\ UNCHANGED <<derived, cache>>

(* Slip: the inode's row goes with its first name. *)
UnlinkAtOnce(t, p, n) ==
  LET c == dentry[p][n]
  IN /\ Call(t, {p})
     /\ UnlinkAnswer(p, n) = "Ok"
     /\ dentry' = [dentry EXCEPT ![p][n] = 0]
     /\ nlink' = [nlink EXCEPT ![c] = 0]
     /\ kind' = [kind EXCEPT ![c] = "none"]
     /\ Leaves(t, {p}, {<<<<p, n>>, 0>>}, {<<p, n>>}, {})
     /\ UNCHANGED <<derived, nextIno, cache>>

(* The last name of a file takes its row, its data and its fs_remote row   *)
(* along; then the sibling of that name is removed.                        *)
Unlink(t, p, n) ==
  LET c == dentry[p][n]
  IN /\ Call(t, {p})
     /\ UnlinkAnswer(p, n) = "Ok"
     /\ dentry' = [dentry EXCEPT ![p][n] = 0]
     /\ nlink' = [nlink EXCEPT ![c] = @ - 1]
     /\ kind' = IF nlink[c] > 1 THEN kind ELSE [kind EXCEPT ![c] = "none"]
     /\ Leaves(t, {p}, {<<<<p, n>>, 0>>}, {<<p, n>>}, {})
     /\ UNCHANGED <<derived, nextIno, cache>>

(* Everything below i, i included *)
Below(i) ==
  LET B[k \in 0..MaxIno] ==
        IF k = 0 THEN {i}
        ELSE B[k - 1] \cup ({dentry[e[1]][e[2]] : e \in B[k - 1] \X Name} \ {0})
  IN B[MaxIno]

(* The kernel refuses to move a directory below itself.                    *)
MayMove(src, q) ==
  kind[src] = "dir" => q \notin Below(src)

(* Whatever other names a replaced inode has, its row is deleted.          *)
Rename(t, p, n, q, m) ==
  LET src == dentry[p][n]
      dst == dentry[q][m]
  IN /\ Call(t, {p, q} \cup ({dst} \ {0}))
     /\ RenameAnswer(p, n, q, m) = "Ok"
     /\ dst # src
     /\ MayMove(src, q)
     /\ ~IsSiblingName(m)
     /\ dst # 0 => Ordinary(dst)
     /\ dentry' = [dentry EXCEPT ![p][n] = 0, ![q][m] = src]
     /\ kind' = IF dst = 0 THEN kind ELSE [kind EXCEPT ![dst] = "none"]
     /\ nlink' = IF dst = 0 THEN nlink ELSE [nlink EXCEPT ![dst] = 0]
     /\ Leaves(t, {p, q}, {<<<<p, n>>, 0>>, <<<<q, m>>, src>>},
               {<<p, n>>}, {<<q, m>>})
     /\ UNCHANGED <<derived, nextIno, cache>>
-----------------------------------------------------------------------------
(* What a puller does, having walked to its directory.                     *)

(* Where a walk begins, in the root, and where it has come to.             *)
Placed(t, q) ==
  \/ rest[t].pc = "placed" /\ rest[t].dirs = {q}
  \/ t \in Puller /\ rest[t] = Quiet /\ q = Root /\ Free(t, {Root})

(* ensure_dirs: the next directory of a document's filepath, made if need  *)
(* be.  What has the name is followed, a file like a directory, and what   *)
(* is missing is made below it.  The code walks the whole filepath under   *)
(* one lock; without "race" nobody can tell.                               *)
EnsureDir(t, p, n) ==
  LET d == dentry[p][n]
      Into(q) == Then(t, [Quiet EXCEPT !.pc = "placed", !.dirs = {q}])
  IN /\ Placed(t, p)
     /\ ~IsSiblingName(n)
     /\ \/ /\ d = 0
           /\ Alloc("dir")
           /\ nlink' = [nlink EXCEPT ![nextIno] = 2, ![p] = @ + 1]
           /\ dentry' = [dentry EXCEPT ![p][n] = nextIno]
           /\ Cached(<<p, n>>, nextIno)
           /\ Into(nextIno)
        \/ /\ d # 0
           /\ kind[d] # "dir" => "filedir" \in Hazards
           /\ Free(t, {d})
           /\ Into(d)
           /\ UNCHANGED <<kind, nlink, dentry, nextIno, cache>>
     /\ UNCHANGED derived

(* reconcile_one, create_raw_stub, create_derived_sibling: a new file.     *)
Materialize(t, q, m, d) ==
  /\ Placed(t, q)
  /\ d <=> IsSiblingName(m)
  /\ dentry[q][m] = 0
  /\ Alloc("file")
  /\ nlink' = [nlink EXCEPT ![nextIno] = 1]
  /\ derived' = [derived EXCEPT ![nextIno] = d]
  /\ dentry' = [dentry EXCEPT ![q][m] = nextIno]
  /\ Leaves(t, {q}, {<<<<q, m>>, nextIno>>}, {}, {})
  /\ UNCHANGED cache

(* apply_rename_to moves every name of the inode; a taken name, or two     *)
(* names, violate UNIQUE and the puller gives up.                          *)
ApplyRename(t, p, n, q, m) ==
  LET i == dentry[p][n]
  IN /\ Placed(t, q)
     /\ i # 0 /\ kind[i] = "file" /\ ~derived[i] /\ nlink[i] = 1
     /\ dentry[q][m] = 0
     /\ ~IsSiblingName(m)
     /\ Free(t, {p})
     /\ dentry' = [dentry EXCEPT ![p][n] = 0, ![q][m] = i]
     /\ Leaves(t, {p, q}, {<<<<p, n>>, 0>>, <<<<q, m>>, i>>}, {}, {})
     /\ UNCHANGED <<kind, nlink, derived, nextIno, cache>>

GiveUp(t) ==
  /\ rest[t].pc = "placed"
  /\ Then(t, Quiet)
  /\ UNCHANGED <<kind, nlink, derived, dentry, nextIno, cache>>

(* apply_deletion: all names of the inode go, one leaves the cache.        *)
ApplyDeletion(t, p, n) ==
  LET i == dentry[p][n]
  IN /\ t \in Puller /\ rest[t] = Quiet /\ Free(t, {p})
     /\ i # 0 /\ kind[i] = "file" /\ ~derived[i]
     /\ Ordinary(i)
     /\ dentry' = [q \in Ino |-> [m \in Name |-> IF dentry[q][m] = i THEN 0
                                                 ELSE dentry[q][m]]]
     /\ kind' = [kind EXCEPT ![i] = "none"]
     /\ nlink' = [nlink EXCEPT ![i] = 0]
     /\ Leaves(t, {p}, {<<<<p, n>>, 0>>}, {}, {})
     /\ UNCHANGED <<derived, nextIno, cache>>
-----------------------------------------------------------------------------
(* The rest of a call, when the database is no longer locked.              *)

(* Slip: a rename leaves its old name in the dentry cache. *)
PublishKeepsOld(t) ==
  LET r == rest[t]
      put == IF r.to = {} THEN r.put ELSE {e \in r.put : e[2] # 0}
  IN /\ r.pc \in {"publish", "sweep"}
     /\ CachePut(put)
     /\ Then(t, IF r.pc = "publish" /\ \E e \in r.from : e[2] \in DOMAIN Sibling
                THEN [r EXCEPT !.pc = "cascade", !.put = {}] ELSE Quiet)
     /\ UNCHANGED <<kind, nlink, derived, dentry, nextIno>>

Publish(t) ==
  LET r == rest[t]
  IN /\ r.pc \in {"publish", "sweep"}
     /\ CachePut(r.put)
     /\ Then(t, IF r.pc = "publish" /\ \E e \in r.from : e[2] \in DOMAIN Sibling
                THEN [r EXCEPT !.pc = "cascade", !.put = {}] ELSE Quiet)
     /\ UNCHANGED <<kind, nlink, derived, dentry, nextIno>>

(* The derived sibling at a name's side, 0 if there is none.               *)
SiblingOf(e) ==
  LET c == IF e[2] \in DOMAIN Sibling THEN dentry[e[1]][Sibling[e[2]]] ELSE 0
  IN IF c # 0 /\ kind[c] # "none" /\ derived[c] THEN c ELSE 0

Sib(e) == <<e[1], Sibling[e[2]]>>

NoSibling(t) ==
  /\ rest[t].pc = "cascade"
  /\ \A e \in rest[t].from : SiblingOf(e) = 0
  /\ Then(t, Quiet)
  /\ UNCHANGED <<kind, nlink, derived, dentry, nextIno, cache>>

(* remove_derived_sibling *)
RemoveSibling(t) ==
  \E e \in rest[t].from :
    LET c == SiblingOf(e)
        s == Sib(e)
    IN /\ rest[t].pc = "cascade" /\ rest[t].to = {} /\ c # 0
       /\ dentry' = [dentry EXCEPT ![s[1]][s[2]] = 0]
       /\ kind' = [kind EXCEPT ![c] = "none"]
       /\ nlink' = [nlink EXCEPT ![c] = 0]
       /\ Then(t, [rest[t] EXCEPT !.pc = "sweep", !.put = {<<s, 0>>}])
       /\ UNCHANGED <<derived, nextIno, cache>>

(* Slip: the sibling stays where it is. *)
LeaveSibling(t) ==
  /\ rest[t].pc = "cascade" /\ rest[t].to # {}
  /\ Then(t, Quiet)
  /\ UNCHANGED <<kind, nlink, derived, dentry, nextIno, cache>>

(* rename_derived_sibling: the dentry it lands on is deleted, its inode's  *)
(* row is left.                                                            *)
MoveSibling(t) ==
  \E e \in rest[t].from, f \in rest[t].to :
    LET c == SiblingOf(e)
        s == Sib(e)
        over == dentry[f[1]][Sibling[f[2]]]
    IN /\ rest[t].pc = "cascade" /\ c # 0
       /\ dentry' = [dentry EXCEPT ![s[1]][s[2]] = 0, ![f[1]][Sibling[f[2]]] = c]
       /\ kind' = IF over = 0 THEN kind ELSE [kind EXCEPT ![over] = "lost"]
       /\ Then(t, [rest[t] EXCEPT !.pc = "sweep", !.put = {<<s, 0>>, <<Sib(f), c>>}])
       /\ UNCHANGED <<nlink, derived, nextIno, cache>>
-----------------------------------------------------------------------------
CallerNext(t) ==
  \E p \in Ino, n \in Name :
    \/ Mkdir(t, p, n)
    \/ Symlink(t, p, n)
    \/ CreateFile(t, p, n)
    \/ \E i \in Ino : Link(t, i, p, n)
    \/ Unlink(t, p, n)
    \/ Rmdir(t, p, n)
    \/ dentry[p][n] # 0 /\ \E q \in Ino, m \in Name : Rename(t, p, n, q, m)
    \/ LookupMiss(t, p, n)

PullerNext(t) ==
  \/ GiveUp(t)
  \/ \E p \in Ino, n \in Name :
       \/ EnsureDir(t, p, n)
       \/ \E d \in BOOLEAN : Materialize(t, p, n, d)
       \/ dentry[p][n] # 0 /\ \E q \in Ino, m \in Name : ApplyRename(t, p, n, q, m)
       \/ ApplyDeletion(t, p, n)

Next ==
  \/ \E t \in Caller : CallerNext(t) \/ NoSibling(t) \/ RemoveSibling(t) \/ MoveSibling(t)
  \/ \E t \in Puller : PullerNext(t)
  \/ \E t \in Task : Publish(t)

Spec == Init /\ [][Next]_vars
-----------------------------------------------------------------------------
(* What no name leads to is gone for the callers.                          *)
Mem == INSTANCE MemFs WITH
         kind <- [i \in Ino |-> IF kind[i] = "lost" THEN "none" ELSE kind[i]],
         nlink <- [i \in Ino |-> IF kind[i] = "lost" THEN 0 ELSE nlink[i]],
         children <- dentry

(* The cache keeps the promise of the in-memory filesystem: every step of  *)
(* a caller or a puller is one of its calls, or nothing (vfs/mem.rs:       *)
(* "prove behavioural parity").  This is Mem!Spec, with its stuttering,    *)
(* which is what most steps are to it, tried first.                        *)
BehavesLikeMem == Mem!Init /\ [][UNCHANGED Mem!mvars \/ Mem!Next]_(Mem!mvars)

Idle(p) == \A t \in Task : p \notin rest[t].dirs

(* Where no call is under way, looking a name up through the dentry cache  *)
(* finds what the tables say, and a listing of the directory holds it      *)
(* (lookup reads the cache first, readdir_plus does not).                  *)
LookupAgrees ==
  \A p \in Ino, n \in Name : Idle(p) =>
    Lookup(p, n) = Mem!Lookup(p, n) /\ (n \in Listing(p) <=> Lookup(p, n) # 0)

(* Every call on a directory is answered as the in-memory filesystem       *)
(* answers it: the tables it asks are the ones the other calls left.       *)
CallsAgree ==
  \A p \in Ino, n \in Name : kind[p] = "dir" =>
    /\ NewNameAnswer(p, n) = Mem!NewNameAnswer(p, n)
    /\ UnlinkAnswer(p, n) = Mem!UnlinkAnswer(p, n)
    /\ RmdirAnswer(p, n) = Mem!RmdirAnswer(p, n)
    /\ dentry[p][n] # 0 => \A q \in Ino, m \in Name :
         kind[q] = "dir" => RenameAnswer(p, n, q, m) = Mem!RenameAnswer(p, n, q, m)

(* What the cache answers is what the in-memory filesystem would.          *)
SameAnswers == LookupAgrees /\ CallsAgree

(* Every name is in a directory that exists and is the name of a row that  *)
(* exists, and a directory has one name.                                   *)
Names ==
  /\ \A p \in Ino, n \in Name : dentry[p][n] # 0 =>
       kind[p] = "dir" /\ kind[dentry[p][n]] \in {"dir", "file"} /\ dentry[p][n] # Root
  /\ \A d \in Ino \ {Root} : kind[d] = "dir" =>
       Cardinality({e \in Entry : dentry[e[1]][e[2]] = d}) = 1

(* A file has as many names as its link count says: the last unlink, and   *)
(* only the last, deletes its row, its data and its fs_remote row.         *)
FileLinks ==
  \A i \in Ino : kind[i] = "file" =>
    nlink[i] = Cardinality({e \in Entry : dentry[e[1]][e[2]] = i})

(* The tables are a tree whose rows count their names: no order of calls   *)
(* and pulls makes a name that nothing can read or remove, or a row that   *)
(* no name leads to and no link count remembers.                           *)
TreeSound == CacheTypeOK /\ Names /\ FileLinks

(* When the unlink or the rename of a file returns, the read-only file     *)
(* that was derived from it is not left at the old name.                   *)
SiblingsFollow ==
  [][\A t \in Caller : rest[t].pc # "idle" /\ rest'[t].pc = "idle" =>
       \A e \in rest[t].from : SiblingOf(e)' = 0]_vars
=============================================================================
