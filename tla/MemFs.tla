------------------------------- MODULE MemFs -------------------------------
(***************************************************************************)
(* The in-memory reference filesystem (vfs/mem.rs): a table of nodes, each *)
(* call one step under one lock.  It states what any FileSystem of this    *)
(* program promises about names, links and types; CacheFs is shown to      *)
(* implement it.  File content is the business of FlatFile.                *)
(*                                                                         *)
(* A call is refused with an answer that the operators below compute from  *)
(* the state; a refused call changes nothing, so only calls that succeed   *)
(* are actions.                                                            *)
(***************************************************************************)
EXTENDS Naturals

CONSTANTS
  Name,      \* the names a directory may hold
  MaxIno     \* bound: inode numbers, of which 1 is the root

Root == 1
Ino == 1..MaxIno

VARIABLES
  kind,      \* inode -> "dir" or "file", which a symlink is, too; "none"
  nlink,     \* inode -> its link count
  children,  \* inode -> name -> inode, 0 if the directory has no such name
  nextIno    \* the next inode number; numbers are never reused

mvars == <<kind, nlink, children, nextIno>>

NoNames == [n \in Name |-> 0]

MemTypeOK ==
  /\ kind \in [Ino -> {"none", "dir", "file"}]
  /\ nlink \in [Ino -> Nat]
  /\ children \in [Ino -> [Name -> Ino \cup {0}]]
  /\ nextIno \in 2..MaxIno + 1

Init ==
  /\ kind = [i \in Ino |-> IF i = Root THEN "dir" ELSE "none"]
  /\ nlink = [i \in Ino |-> IF i = Root THEN 2 ELSE 0]
  /\ children = [i \in Ino |-> NoNames]
  /\ nextIno = 2
-----------------------------------------------------------------------------
(* Answers, in the order in which the code tests for them.                 *)

DirAnswer(p) == IF kind[p] = "none" THEN "NotFound"
                ELSE IF kind[p] # "dir" THEN "NotADirectory" ELSE "Ok"

Found(p, n) == IF children[p][n] = 0 THEN "NotFound" ELSE "Ok"

First(x, y) == IF x # "Ok" THEN x ELSE y

(* lookup: the inode behind a name, 0 if there is none *)
Lookup(p, n) ==
  LET c == children[p][n]
  IN IF DirAnswer(p) = "Ok" /\ c # 0 /\ kind[c] # "none" THEN c ELSE 0

(* readdir_plus: the entries whose node exists *)
Listing(p) == {n \in Name : Lookup(p, n) # 0}

NewNameAnswer(p, n) ==
  First(DirAnswer(p), IF children[p][n] # 0 THEN "AlreadyExists" ELSE "Ok")

LinkAnswer(i, p, n) ==
  First(IF kind[i] = "none" THEN "NotFound"
        ELSE IF kind[i] = "dir" THEN "IsADirectory" ELSE "Ok",
        NewNameAnswer(p, n))

NameAnswer(p, n) == First(DirAnswer(p), Found(p, n))

UnlinkAnswer(p, n) ==
  LET c == children[p][n]
  IN First(NameAnswer(p, n),
           IF kind[c] = "none" THEN "NotFound"
           ELSE IF kind[c] = "dir" THEN "IsADirectory" ELSE "Ok")

RmdirAnswer(p, n) ==
  LET c == children[p][n]
  IN First(NameAnswer(p, n),
           First(DirAnswer(c),
                 IF children[c] # NoNames THEN "NotEmpty" ELSE "Ok"))

(* what rename may replace: a file by a file, an empty directory by one    *)
ReplaceAnswer(src, dst) ==
  CASE kind[src] = "dir" /\ kind[dst] # "dir" -> "NotADirectory"
    [] kind[src] # "dir" /\ kind[dst] = "dir" -> "IsADirectory"
    [] kind[src] = "dir" /\ kind[dst] = "dir" ->
         IF children[dst] # NoNames THEN "NotEmpty" ELSE "Ok"
    [] OTHER -> "Ok"

RenameAnswer(p, n, q, m) ==
  LET src == children[p][n]
      dst == children[q][m]
  IN First(First(NameAnswer(p, n), DirAnswer(q)),
           IF dst \in {0, src} THEN "Ok" ELSE ReplaceAnswer(src, dst))
-----------------------------------------------------------------------------
Alloc(k) ==
  /\ nextIno <= MaxIno
  /\ nextIno' = nextIno + 1
  /\ kind' = [kind EXCEPT ![nextIno] = k]

Mkdir(p, n) ==
  /\ NewNameAnswer(p, n) = "Ok"
  /\ Alloc("dir")
  /\ nlink' = [nlink EXCEPT ![nextIno] = 2, ![p] = @ + 1]
  /\ children' = [children EXCEPT ![p][n] = nextIno]

Create(p, n) ==
  /\ NewNameAnswer(p, n) = "Ok"
  /\ Alloc("file")
  /\ nlink' = [nlink EXCEPT ![nextIno] = 1]
  /\ children' = [children EXCEPT ![p][n] = nextIno]

(* A symlink is a node like a file; its target is data.                    *)
Symlink(p, n) == Create(p, n)

Link(i, p, n) ==
  /\ LinkAnswer(i, p, n) = "Ok"
  /\ children' = [children EXCEPT ![p][n] = i]
  /\ nlink' = [nlink EXCEPT ![i] = @ + 1]
  /\ UNCHANGED <<kind, nextIno>>

Unlink(p, n) ==
  LET c == children[p][n]
  IN /\ UnlinkAnswer(p, n) = "Ok"
     /\ children' = [children EXCEPT ![p][n] = 0]
     /\ nlink' = [nlink EXCEPT ![c] = @ - 1]
     /\ kind' = IF nlink[c] > 1 THEN kind ELSE [kind EXCEPT ![c] = "none"]
     /\ UNCHANGED nextIno

Rmdir(p, n) ==
  LET c == children[p][n]
  IN /\ RmdirAnswer(p, n) = "Ok"
     /\ children' = [children EXCEPT ![p][n] = 0]
     /\ nlink' = [nlink EXCEPT ![c] = 0, ![p] = IF @ > 2 THEN @ - 1 ELSE @]
     /\ kind' = [kind EXCEPT ![c] = "none"]
     /\ UNCHANGED nextIno

(* A node that is replaced is removed, whatever other names it has; no     *)
(* directory's link count follows a directory that moves.                  *)
Rename(p, n, q, m) ==
  LET src == children[p][n]
      dst == children[q][m]
  IN /\ RenameAnswer(p, n, q, m) = "Ok"
     /\ dst # src
     /\ children' = [children EXCEPT ![p][n] = 0, ![q][m] = src]
     /\ kind' = IF dst = 0 THEN kind ELSE [kind EXCEPT ![dst] = "none"]
     /\ nlink' = IF dst = 0 THEN nlink ELSE [nlink EXCEPT ![dst] = 0]
     /\ UNCHANGED nextIno

Dirs == {d \in Ino : kind[d] = "dir"}

Next ==
  \E p \in Dirs, n \in Name :
    IF children[p][n] = 0
    THEN \/ Mkdir(p, n)
         \/ Create(p, n)
         \/ Symlink(p, n)
         \/ \E i \in Ino : Link(i, p, n)
    ELSE \/ Unlink(p, n)
         \/ Rmdir(p, n)
         \/ \E q \in Dirs, m \in Name : Rename(p, n, q, m)

Spec == Init /\ [][Next]_mvars
=============================================================================
