--------------------------- MODULE CacheFsProofs ---------------------------
(***************************************************************************)
(* Theorems about CacheFs, for any number of names, inodes, callers and    *)
(* pullers.  Callers and pullers take turns in a directory, a file with a  *)
(* second name is neither replaced nor deleted by a pull, and the server   *)
(* has no document below the filepath of a file.                           *)
(***************************************************************************)
EXTENDS CacheFs, FiniteSetTheorems, TLAPS

Plain == Hazards \cap {"overlink", "race", "filedir"} = {}

(* The names of an inode in a table like dentry.                           *)
NamesOf(d, i) == {e \in Entry : d[e[1]][e[2]] = i}
HasNames(d, i, c) == IsFiniteSet(NamesOf(d, i)) /\ Cardinality(NamesOf(d, i)) = c

(* Inode numbers from nextIno on are fresh; a derived file has one name,   *)
(* and a directory's link count does not sink below 2.                     *)
RowsOK ==
  /\ kind \in [Ino -> {"none", "lost", "dir", "file"}]
  /\ nlink \in [Ino -> Nat]
  /\ derived \in [Ino -> BOOLEAN]
  /\ nextIno \in 2..MaxIno + 1
  /\ kind[Root] = "dir"
  /\ \A i \in Ino :
       /\ i >= nextIno => kind[i] = "none" /\ ~derived[i]
       /\ derived[i] => kind[i] # "dir"
       /\ derived[i] /\ kind[i] = "file" => nlink[i] = 1
       /\ kind[i] = "dir" => nlink[i] >= 2

(* What is at a sibling's name was put there by the program.               *)
NamesOK ==
  /\ dentry \in [Ino -> [Name -> Ino \cup {0}]]
  /\ \A p \in Ino, n \in Name : dentry[p][n] # 0 =>
       /\ kind[p] = "dir"
       /\ kind[dentry[p][n]] \in {"dir", "file"}
       /\ dentry[p][n] # Root
       /\ IsSiblingName(n) => derived[dentry[p][n]]

CountOK ==
  \A i \in Ino :
    /\ kind[i] = "file" => HasNames(dentry, i, nlink[i])
    /\ kind[i] = "dir" /\ i # Root => HasNames(dentry, i, 1)
    /\ kind[i] \notin {"dir", "file"} => HasNames(dentry, i, 0)

TableInv == RowsOK /\ NamesOK /\ CountOK

Rests == [pc : {"idle", "publish", "cascade", "sweep", "placed"},
          dirs : SUBSET Ino, put : SUBSET (Entry \X (Ino \cup {0})),
          from : SUBSET Entry, to : SUBSET Entry]

(* The directories of a call under way exist, and are nobody else's.       *)
HeldOK ==
  /\ rest \in [Task -> Rests]
  /\ \A t \in Task : \A p \in rest[t].dirs : kind[p] = "dir"
  /\ \A t, u \in Task : t # u => rest[t].dirs \cap rest[u].dirs = {}

(* What a call has left to do lies in its directories and is up to date    *)
(* with the names d.                                                       *)
Pending(d, r) ==
  /\ r.pc = "idle" => r = Quiet
  /\ r.pc = "placed" => r.put = {} /\ r.from = {} /\ r.to = {}
  /\ r.pc = "cascade" => r.put = {}
  /\ \A x \in r.put : x[1][1] \in r.dirs /\ x[2] = d[x[1][1]][x[1][2]]
  /\ \A e \in r.from \cup r.to : e[1] \in r.dirs
  /\ \A e \in r.to : e[2] \in DOMAIN Sibling
  /\ r.from \cap r.to = {}
  /\ \A e, f \in r.from : e = f
  /\ r.pc = "sweep" => \A e \in r.from : e[2] \in DOMAIN Sibling =>
                         d[e[1]][Sibling[e[2]]] = 0

(* The dentry cache is behind the tables only where a call will put it     *)
(* right.                                                                  *)
Covered(p, n, r) == \E x \in r.put : x[1] = <<p, n>>

CacheOK ==
  /\ cache \in [Ino -> [Name -> Ino \cup {0}]]
  /\ \A p \in Ino, n \in Name :
       cache[p][n] \in {0, dentry[p][n]} \/ \E t \in Task : Covered(p, n, rest[t])

TaskInv == HeldOK /\ (\A t \in Task : Pending(dentry, rest[t])) /\ CacheOK

FsInv == TableInv /\ TaskInv
-----------------------------------------------------------------------------
(***************************************************************************)
(* Names and their number.                                                 *)
(***************************************************************************)
LEMMA Inodes ==
  /\ Root \in Ino /\ 0 \notin Ino /\ MaxIno \in Nat /\ Ino \subseteq Nat
  /\ \A i \in Ino : i <= MaxIno
BY CacheAssumption DEF Root, Ino

(* Two tables that differ in one name at most.                             *)
OnlyAt(d, d2, p, n) ==
  \A q \in Ino, m \in Name : q # p \/ m # n => d2[q][m] = d[q][m]

LEMMA NamesAfter ==
  ASSUME NEW d, NEW d2, NEW p \in Ino, NEW n \in Name, OnlyAt(d, d2, p, n), NEW k, NEW e
  PROVE  e \in NamesOf(d2, k) <=> IF e = <<p, n>> THEN d2[p][n] = k ELSE e \in NamesOf(d, k)
<1>1. e \in Entry => /\ e[1] \in Ino /\ e[2] \in Name
                     /\ e = <<p, n>> <=> e[1] = p /\ e[2] = n
  BY DEF Entry
<1>2. <<p, n>> \in Entry
  BY DEF Entry
<1>3. e \in Entry => (d2[e[1]][e[2]] = k <=>
        IF e = <<p, n>> THEN d2[p][n] = k ELSE d[e[1]][e[2]] = k)
  BY <1>1 DEF OnlyAt
<1>4. e \in NamesOf(d2, k) <=> e \in Entry /\ d2[e[1]][e[2]] = k
  BY DEF NamesOf
<1>5. e \in NamesOf(d, k) <=> e \in Entry /\ d[e[1]][e[2]] = k
  BY DEF NamesOf
<1> QED
  BY <1>2, <1>3, <1>4, <1>5

LEMMA NameGained ==
  ASSUME NEW d, NEW d2, NEW p \in Ino, NEW n \in Name, OnlyAt(d, d2, p, n),
         NEW k, NEW c, HasNames(d, k, c), d2[p][n] = k, d[p][n] # k
  PROVE  HasNames(d2, k, c + 1)
<1>1. NamesOf(d2, k) = NamesOf(d, k) \cup {<<p, n>>}
  BY NamesAfter
<1>2. <<p, n>> \notin NamesOf(d, k)
  BY DEF NamesOf
<1>3. IsFiniteSet(NamesOf(d, k))
  BY DEF HasNames
<1>4. /\ IsFiniteSet(NamesOf(d, k) \cup {<<p, n>>})
      /\ Cardinality(NamesOf(d, k) \cup {<<p, n>>}) = Cardinality(NamesOf(d, k)) + 1
  BY <1>2, <1>3, FS_AddElement
<1> QED
  BY <1>1, <1>4 DEF HasNames

LEMMA NameLost ==
  ASSUME NEW d, NEW d2, NEW p \in Ino, NEW n \in Name, OnlyAt(d, d2, p, n),
         NEW k, NEW c, HasNames(d, k, c), d2[p][n] # k, d[p][n] = k
  PROVE  HasNames(d2, k, c - 1)
<1>1. NamesOf(d2, k) = NamesOf(d, k) \ {<<p, n>>}
  BY NamesAfter
<1>2. <<p, n>> \in NamesOf(d, k)
  BY DEF NamesOf, Entry
<1>3. IsFiniteSet(NamesOf(d, k))
  BY DEF HasNames
<1>4. /\ IsFiniteSet(NamesOf(d, k) \ {<<p, n>>})
      /\ Cardinality(NamesOf(d, k) \ {<<p, n>>}) = Cardinality(NamesOf(d, k)) - 1
  BY <1>2, <1>3, FS_RemoveElement
<1> QED
  BY <1>1, <1>4 DEF HasNames

LEMMA NameKept ==
  ASSUME NEW d, NEW d2, NEW p \in Ino, NEW n \in Name, OnlyAt(d, d2, p, n),
         NEW k, NEW c, HasNames(d, k, c), d2[p][n] # k, d[p][n] # k
  PROVE  HasNames(d2, k, c)
<1>1. <<p, n>> \notin NamesOf(d, k)
  BY DEF NamesOf
<1>2. ASSUME NEW e PROVE e \in NamesOf(d2, k) <=> e \in NamesOf(d, k)
  BY <1>1, NamesAfter
<1>3. NamesOf(d2, k) = NamesOf(d, k)
  BY <1>2
<1> QED
  BY <1>3 DEF HasNames

LEMMA HasNone ==
  ASSUME NEW d, NEW k, HasNames(d, k, 0), NEW p \in Ino, NEW n \in Name
  PROVE  d[p][n] # k
<1>1. NamesOf(d, k) = {}
  BY FS_EmptySet DEF HasNames
<1>2. d[p][n] = k => <<p, n>> \in NamesOf(d, k)
  BY DEF NamesOf, Entry
<1> QED
  BY <1>1, <1>2

LEMMA HasOne ==
  ASSUME NEW d, NEW k, HasNames(d, k, 1),
         NEW p \in Ino, NEW n \in Name, d[p][n] = k,
         NEW q \in Ino, NEW m \in Name, d[q][m] = k
  PROVE  q = p /\ m = n
<1>1. <<p, n>> \in NamesOf(d, k) /\ <<q, m>> \in NamesOf(d, k)
  BY DEF NamesOf, Entry
<1>2. PICK x : NamesOf(d, k) = {x}
  BY FS_Singleton DEF HasNames
<1> QED
  BY <1>1, <1>2

LEMMA TableTypes ==
  ASSUME TableInv
  PROVE  dentry \in [Ino -> [Name -> Ino \cup {0}]]
BY DEF TableInv, NamesOK

(* A file with one name, and a directory, has no name but that one.        *)
LEMMA OnlyName ==
  ASSUME TableInv, NEW p \in Ino, NEW n \in Name, dentry[p][n] # 0,
         kind[dentry[p][n]] = "dir" \/ nlink[dentry[p][n]] = 1,
         NEW q \in Ino, NEW m \in Name, dentry[q][m] = dentry[p][n]
  PROVE  q = p /\ m = n
<1>1. /\ dentry[p][n] \in Ino /\ dentry[p][n] # Root
      /\ kind[dentry[p][n]] \in {"dir", "file"}
  BY DEF TableInv, NamesOK
<1>2. HasNames(dentry, dentry[p][n], 1)
  BY <1>1 DEF TableInv, CountOK
<1> QED
  BY <1>2, HasOne
-----------------------------------------------------------------------------
(***************************************************************************)
(* What the calls do to the tables comes down to five effects.             *)
(***************************************************************************)
Added(k, d, p, n) ==
  /\ kind[p] = "dir" /\ dentry[p][n] = 0 /\ nextIno <= MaxIno
  /\ d => k = "file"
  /\ IsSiblingName(n) => d
  /\ nextIno' = nextIno + 1
  /\ kind' = [kind EXCEPT ![nextIno] = k]
  /\ derived' = [derived EXCEPT ![nextIno] = d]
  /\ nlink' = IF k = "dir" THEN [nlink EXCEPT ![nextIno] = 2, ![p] = @ + 1]
              ELSE [nlink EXCEPT ![nextIno] = 1]
  /\ dentry' = [dentry EXCEPT ![p][n] = nextIno]

Linked(i, p, n) ==
  /\ kind[p] = "dir" /\ dentry[p][n] = 0 /\ ~IsSiblingName(n)
  /\ kind[i] = "file" /\ ~derived[i]
  /\ nlink' = [nlink EXCEPT ![i] = @ + 1]
  /\ dentry' = [dentry EXCEPT ![p][n] = i]
  /\ UNCHANGED <<kind, derived, nextIno>>

Unlinked(p, n) ==
  LET c == dentry[p][n]
  IN /\ c # 0 /\ kind[c] = "file"
     /\ dentry' = [dentry EXCEPT ![p][n] = 0]
     /\ nlink' = [nlink EXCEPT ![c] = @ - 1]
     /\ kind' = IF nlink[c] > 1 THEN kind ELSE [kind EXCEPT ![c] = "none"]
     /\ UNCHANGED <<derived, nextIno>>

RemovedDir(p, n) ==
  LET c == dentry[p][n]
  IN /\ c # 0 /\ kind[c] = "dir" /\ dentry[c] = NoNames
     /\ dentry' = [dentry EXCEPT ![p][n] = 0]
     /\ kind' = [kind EXCEPT ![c] = "none"]
     /\ nlink' = [nlink EXCEPT ![c] = 0, ![p] = IF @ > 3 THEN @ - 1 ELSE 2]
     /\ UNCHANGED <<derived, nextIno>>

(* g is what becomes of the kind of the inode that is replaced.            *)
Moved(p, n, q, m, g) ==
  LET src == dentry[p][n]
      dst == dentry[q][m]
  IN /\ src # 0 /\ dst # src /\ kind[q] = "dir"
     /\ IsSiblingName(m) => derived[src]
     /\ dst # 0 => /\ kind[dst] = "dir" => kind[src] = "dir" /\ dentry[dst] = NoNames
                   /\ kind[dst] = "file" => kind[src] = "file" /\ nlink[dst] = 1
     /\ dentry' = [dentry EXCEPT ![p][n] = 0, ![q][m] = src]
     /\ kind' = IF dst = 0 THEN kind ELSE [kind EXCEPT ![dst] = g]
     /\ nlink' \in [Ino -> Nat] /\ \A i \in Ino \ {dst} : nlink'[i] = nlink[i]
     /\ dst # 0 /\ g = "none" => nlink'[dst] = 0
     /\ UNCHANGED <<derived, nextIno>>

Effect ==
  \/ UNCHANGED <<kind, nlink, derived, dentry, nextIno>>
  \/ \E p \in Ino, n \in Name :
       \/ \E k \in {"dir", "file"}, d \in BOOLEAN : Added(k, d, p, n)
       \/ \E i \in Ino : Linked(i, p, n)
       \/ Unlinked(p, n)
       \/ RemovedDir(p, n)
       \/ \E q \in Ino, m \in Name, g \in {"none", "lost"} : Moved(p, n, q, m, g)

LEMMA AddedKeeps ==
  ASSUME TableInv, NEW p \in Ino, NEW n \in Name, NEW k \in {"dir", "file"},
         NEW d \in BOOLEAN, Added(k, d, p, n)
  PROVE  TableInv'
<1> DEFINE x == nextIno
<1>1. /\ x \in Ino /\ x # Root /\ kind[x] = "none" /\ x # p
      /\ \A i \in Ino : i >= x' => i >= x /\ i # x
  BY Inodes DEF TableInv, RowsOK, Added, Ino, Root
<1>2. RowsOK'
  BY <1>1, Inodes DEF TableInv, RowsOK, Added
<1>3. NamesOK'
  BY <1>1, Inodes DEF TableInv, NamesOK, RowsOK, Added
<1>4. OnlyAt(dentry, dentry', p, n) /\ dentry[p][n] = 0 /\ dentry'[p][n] = x
  BY TableTypes DEF Added, OnlyAt
<1>5. HasNames(dentry', x, 1)
  <2>1. HasNames(dentry, x, 0)
    BY <1>1 DEF TableInv, CountOK
  <2>2. dentry[p][n] # x
    BY <1>1, <1>4, Inodes
  <2>3. HasNames(dentry', x, 0 + 1)
    BY <1>4, <2>1, <2>2, NameGained
  <2> QED
    BY <2>3
<1>6. ASSUME NEW i \in Ino, i # x, NEW c, HasNames(dentry, i, c)
      PROVE  HasNames(dentry', i, c)
  <2>1. dentry'[p][n] # i /\ dentry[p][n] # i
    BY <1>4, <1>6, Inodes
  <2> QED
    BY <1>4, <1>6, <2>1, NameKept
<1>7. CountOK'
  <2> SUFFICES ASSUME NEW i \in Ino
               PROVE  /\ kind'[i] = "file" => HasNames(dentry', i, nlink'[i])
                      /\ kind'[i] = "dir" /\ i # Root => HasNames(dentry', i, 1)
                      /\ kind'[i] \notin {"dir", "file"} => HasNames(dentry', i, 0)
    BY DEF CountOK
  <2>1. CASE i = x
    <3>1. kind'[i] = k /\ (k = "file" => nlink'[i] = 1)
      BY <1>1, <2>1 DEF TableInv, RowsOK, Added
    <3> QED
      BY <1>5, <2>1, <3>1
  <2>2. CASE i # x
    <3>1. kind'[i] = kind[i] /\ (kind[i] = "file" => nlink'[i] = nlink[i])
      BY <1>1, <2>2 DEF TableInv, RowsOK, Added
    <3> QED
      BY <1>6, <2>2, <3>1 DEF TableInv, CountOK
  <2> QED
    BY <2>1, <2>2
<1> QED
  BY <1>2, <1>3, <1>7 DEF TableInv

LEMMA LinkedKeeps ==
  ASSUME TableInv, NEW p \in Ino, NEW n \in Name, NEW i \in Ino, Linked(i, p, n)
  PROVE  TableInv'
<1>1. RowsOK'
  BY Inodes DEF TableInv, RowsOK, Linked
<1>2. NamesOK'
  BY Inodes DEF TableInv, NamesOK, RowsOK, Linked
<1>3. OnlyAt(dentry, dentry', p, n) /\ dentry[p][n] = 0 /\ dentry'[p][n] = i
  BY TableTypes DEF Linked, OnlyAt
<1>4. HasNames(dentry', i, nlink'[i])
  <2>1. HasNames(dentry, i, nlink[i]) /\ dentry[p][n] # i
    BY <1>3, Inodes DEF TableInv, CountOK, Linked
  <2>2. nlink'[i] = nlink[i] + 1
    BY DEF TableInv, RowsOK, Linked
  <2> QED
    BY <1>3, <2>1, <2>2, NameGained
<1>5. ASSUME NEW j \in Ino, j # i, NEW c, HasNames(dentry, j, c)
      PROVE  HasNames(dentry', j, c)
  <2>1. dentry'[p][n] # j /\ dentry[p][n] # j
    BY <1>3, <1>5, Inodes
  <2> QED
    BY <1>3, <1>5, <2>1, NameKept
<1>6. \A j \in Ino : kind'[j] = kind[j] /\ (j # i => nlink'[j] = nlink[j])
  BY DEF TableInv, RowsOK, Linked
<1>7. CountOK'
  BY <1>4, <1>5, <1>6 DEF TableInv, CountOK, Linked
<1> QED
  BY <1>1, <1>2, <1>7 DEF TableInv

LEMMA UnlinkedKeeps ==
  ASSUME TableInv, NEW p \in Ino, NEW n \in Name, Unlinked(p, n)
  PROVE  TableInv'
<1> DEFINE c == dentry[p][n]
<1>1. c \in Ino /\ c # Root
  BY DEF TableInv, NamesOK, Unlinked
<1>2. HasNames(dentry, c, nlink[c]) /\ nlink[c] \in Nat /\ nlink[c] # 0
  BY <1>1, HasNone DEF TableInv, CountOK, RowsOK, Unlinked
<1>3. RowsOK'
  BY <1>1, <1>2 DEF TableInv, RowsOK, Unlinked
<1>4. NamesOK'
  <2> SUFFICES ASSUME NEW q \in Ino, NEW m \in Name, dentry'[q][m] # 0
               PROVE  /\ kind'[q] = "dir" /\ kind'[dentry'[q][m]] \in {"dir", "file"}
                      /\ dentry'[q][m] # Root
                      /\ IsSiblingName(m) => derived'[dentry'[q][m]]
    BY DEF TableInv, NamesOK, Unlinked
  <2>1. dentry'[q][m] = dentry[q][m] /\ (q # p \/ m # n)
    BY DEF TableInv, NamesOK, Unlinked
  <2>2. nlink[c] = 1 => dentry[q][m] # c
    BY <2>1, OnlyName DEF Unlinked
  <2>3. /\ kind[q] = "dir" /\ kind[dentry[q][m]] \in {"dir", "file"}
        /\ dentry[q][m] \in Ino \ {Root}
        /\ IsSiblingName(m) => derived[dentry[q][m]]
    BY <2>1 DEF TableInv, NamesOK
  <2>4. kind'[q] = kind[q] /\ kind'[dentry[q][m]] = kind[dentry[q][m]] /\ derived' = derived
    BY <1>1, <1>2, <2>2, <2>3 DEF Unlinked, TableInv, RowsOK
  <2> QED
    BY <2>1, <2>3, <2>4
<1>5. OnlyAt(dentry, dentry', p, n) /\ dentry'[p][n] = 0
  BY TableTypes DEF Unlinked, OnlyAt
<1>6. HasNames(dentry', c, nlink[c] - 1)
  BY <1>1, <1>2, <1>5, Inodes, NameLost
<1>7. ASSUME NEW i \in Ino, i # c, NEW l, HasNames(dentry, i, l)
      PROVE  HasNames(dentry', i, l)
  <2>1. dentry'[p][n] # i /\ dentry[p][n] # i
    BY <1>5, <1>7, Inodes
  <2> QED
    BY <1>5, <1>7, <2>1, NameKept
<1>8. /\ nlink'[c] = nlink[c] - 1 /\ kind'[c] = IF nlink[c] > 1 THEN "file" ELSE "none"
      /\ \A i \in Ino \ {c} : kind'[i] = kind[i] /\ nlink'[i] = nlink[i]
  BY <1>1, <1>2 DEF TableInv, RowsOK, Unlinked
<1>9. CountOK'
  <2> SUFFICES ASSUME NEW i \in Ino
               PROVE  /\ kind'[i] = "file" => HasNames(dentry', i, nlink'[i])
                      /\ kind'[i] = "dir" /\ i # Root => HasNames(dentry', i, 1)
                      /\ kind'[i] \notin {"dir", "file"} => HasNames(dentry', i, 0)
    BY DEF CountOK
  <2>1. CASE i = c
    <3>1. nlink[c] > 1 \/ nlink[c] - 1 = 0
      BY <1>2
    <3> QED
      BY <1>6, <1>8, <2>1, <3>1
  <2>2. CASE i # c
    BY <1>7, <1>8, <2>2 DEF TableInv, CountOK
  <2> QED
    BY <2>1, <2>2
<1> QED
  BY <1>3, <1>4, <1>9 DEF TableInv

LEMMA RemovedDirKeeps ==
  ASSUME TableInv, NEW p \in Ino, NEW n \in Name, RemovedDir(p, n)
  PROVE  TableInv'
<1> DEFINE c == dentry[p][n]
<1>1. c \in Ino /\ c # Root /\ c # p /\ kind[p] = "dir"
  BY DEF TableInv, NamesOK, RemovedDir, NoNames
<1>2. RowsOK'
  BY <1>1 DEF TableInv, RowsOK, RemovedDir
<1>3. NamesOK'
  <2> SUFFICES ASSUME NEW q \in Ino, NEW m \in Name, dentry'[q][m] # 0
               PROVE  /\ kind'[q] = "dir" /\ kind'[dentry'[q][m]] \in {"dir", "file"}
                      /\ dentry'[q][m] # Root
                      /\ IsSiblingName(m) => derived'[dentry'[q][m]]
    BY DEF TableInv, NamesOK, RemovedDir
  <2>1. dentry'[q][m] = dentry[q][m] /\ (q # p \/ m # n) /\ q # c
    BY DEF TableInv, NamesOK, RemovedDir, NoNames
  <2>2. dentry[q][m] # c
    BY <2>1, OnlyName DEF RemovedDir
  <2> QED
    BY <1>1, <2>1, <2>2 DEF TableInv, NamesOK, RowsOK, RemovedDir
<1>4. OnlyAt(dentry, dentry', p, n) /\ dentry'[p][n] = 0
  BY TableTypes DEF RemovedDir, OnlyAt
<1>5. HasNames(dentry', c, 0)
  <2>1. HasNames(dentry, c, 1) /\ dentry'[p][n] # c
    BY <1>1, <1>4, Inodes DEF TableInv, CountOK, RemovedDir
  <2>2. HasNames(dentry', c, 1 - 1)
    BY <1>4, <2>1, NameLost
  <2> QED
    BY <2>2
<1>6. ASSUME NEW i \in Ino, i # c, NEW l, HasNames(dentry, i, l)
      PROVE  HasNames(dentry', i, l)
  <2>1. dentry'[p][n] # i /\ dentry[p][n] # i
    BY <1>4, <1>6, Inodes
  <2> QED
    BY <1>4, <1>6, <2>1, NameKept
<1>7. /\ kind'[c] = "none" /\ \A i \in Ino \ {c} : kind'[i] = kind[i]
      /\ \A i \in Ino : kind[i] = "file" => nlink'[i] = nlink[i]
  BY <1>1 DEF TableInv, RowsOK, RemovedDir
<1>8. CountOK'
  <2> SUFFICES ASSUME NEW i \in Ino
               PROVE  /\ kind'[i] = "file" => HasNames(dentry', i, nlink'[i])
                      /\ kind'[i] = "dir" /\ i # Root => HasNames(dentry', i, 1)
                      /\ kind'[i] \notin {"dir", "file"} => HasNames(dentry', i, 0)
    BY DEF CountOK
  <2>1. CASE i = c
    BY <1>5, <1>7, <2>1
  <2>2. CASE i # c
    BY <1>6, <1>7, <2>2 DEF TableInv, CountOK
  <2> QED
    BY <2>1, <2>2
<1> QED
  BY <1>2, <1>3, <1>8 DEF TableInv

LEMMA MovedKeeps ==
  ASSUME TableInv, NEW p \in Ino, NEW n \in Name, NEW q \in Ino, NEW m \in Name,
         NEW g \in {"none", "lost"}, Moved(p, n, q, m, g)
  PROVE  TableInv'
<1> DEFINE src == dentry[p][n]
           dst == dentry[q][m]
           mid == [dentry EXCEPT ![p][n] = 0]
<1>1. /\ src \in Ino /\ src # Root /\ kind[p] = "dir" /\ kind[src] \in {"dir", "file"}
      /\ dst # 0 => dst \in Ino \ {Root} /\ kind[dst] \in {"dir", "file"}
      /\ q # p \/ m # n
  BY DEF TableInv, NamesOK, Moved
<1>2. dst # p /\ dst # q
  BY <1>1, Inodes DEF TableInv, NamesOK, Moved, NoNames
<1>3. RowsOK'
  BY <1>1, Inodes DEF TableInv, RowsOK, Moved
<1>4. \A r \in Ino, l \in Name :
        dentry'[r][l] = IF r = q /\ l = m THEN src
                        ELSE IF r = p /\ l = n THEN 0 ELSE dentry[r][l]
  BY TableTypes DEF Moved
<1>5. dst # 0 => \A r \in Ino, l \in Name : dentry[r][l] = dst => r = q /\ l = m
  BY <1>1, OnlyName DEF Moved
<1>6. NamesOK'
  <2> SUFFICES ASSUME NEW r \in Ino, NEW l \in Name, dentry'[r][l] # 0
               PROVE  /\ kind'[r] = "dir" /\ kind'[dentry'[r][l]] \in {"dir", "file"}
                      /\ dentry'[r][l] # Root
                      /\ IsSiblingName(l) => derived'[dentry'[r][l]]
    <3>1. mid \in [Ino -> [Name -> Ino \cup {0}]]
      BY <1>1, TableTypes
    <3>2. dentry' = [mid EXCEPT ![q][m] = src]
      BY DEF Moved
    <3>3. dentry' \in [Ino -> [Name -> Ino \cup {0}]]
      BY <1>1, <3>1, <3>2
    <3> QED
      BY <3>3 DEF NamesOK
  <2>1. dentry'[r][l] # dst
    <3>1. src # dst
      BY DEF Moved
    <3> QED
      BY <1>4, <1>5, <3>1
  <2>2. r # dst
    <3>1. dst # 0 /\ kind[dst] = "dir" => \A a \in Name : dentry[dst][a] = 0
      BY DEF Moved, NoNames
    <3>2. kind[r] = "dir"
      BY <1>1, <1>4 DEF Moved, TableInv, NamesOK
    <3> QED
      BY <1>1, <1>2, <1>4, <3>1, <3>2, Inodes
  <2>3. dentry'[r][l] \in Ino
    BY <1>1, <1>4, TableTypes
  <2>4. kind'[r] = kind[r] /\ kind'[dentry'[r][l]] = kind[dentry'[r][l]] /\ derived' = derived
    BY <2>1, <2>2, <2>3 DEF Moved, TableInv, RowsOK
  <2>5. CASE r = q /\ l = m
    <3>1. dentry'[r][l] = src
      BY <1>4, <2>5
    <3>2. kind[r] = "dir" /\ (IsSiblingName(l) => derived[src])
      BY <2>5 DEF Moved
    <3> QED
      BY <1>1, <2>4, <3>1, <3>2
  <2>6. CASE ~(r = q /\ l = m)
    <3>1. dentry'[r][l] = dentry[r][l]
      BY <1>4, <2>6
    <3> QED
      BY <2>4, <3>1 DEF TableInv, NamesOK
  <2> QED
    BY <2>5, <2>6
<1>7. /\ OnlyAt(dentry, mid, p, n) /\ mid[p][n] = 0
      /\ OnlyAt(mid, dentry', q, m) /\ dentry'[q][m] = src /\ mid[q][m] = dst
  BY <1>1, TableTypes DEF Moved, OnlyAt
<1> HIDE DEF mid
<1>8. src # dst /\ (dst # 0 => HasNames(dentry, dst, 1))
  BY <1>1 DEF Moved, TableInv, CountOK
<1>9. ASSUME NEW i \in Ino, i # dst, NEW l \in Nat, HasNames(dentry, i, l)
      PROVE  HasNames(dentry', i, l)
  <2>1. CASE i = src
    <3>1. mid[p][n] # i /\ dentry[p][n] = i
      BY <1>7, <2>1, Inodes
    <3>2. HasNames(mid, i, l - 1)
      BY <1>7, <1>9, <3>1, NameLost
    <3>3. dentry'[q][m] = i /\ mid[q][m] # i
      BY <1>7, <1>9, <2>1
    <3>4. HasNames(dentry', i, l - 1 + 1)
      BY <1>7, <3>2, <3>3, NameGained
    <3> QED
      BY <3>4
  <2>2. CASE i # src
    <3>1. mid[p][n] # i /\ dentry[p][n] # i
      BY <1>7, <2>2, Inodes
    <3>2. HasNames(mid, i, l)
      BY <1>7, <1>9, <3>1, NameKept
    <3>3. dentry'[q][m] # i /\ mid[q][m] # i
      BY <1>7, <1>9, <2>2
    <3> QED
      BY <1>7, <3>2, <3>3, NameKept
  <2> QED
    BY <2>1, <2>2
<1>10. dst # 0 => HasNames(dentry', dst, 0)
  <2> SUFFICES ASSUME dst # 0 PROVE HasNames(dentry', dst, 0)
    OBVIOUS
  <2>1. /\ mid[p][n] # dst /\ dentry[p][n] # dst
        /\ HasNames(dentry, dst, 1) /\ OnlyAt(dentry, mid, p, n)
    BY <1>7, <1>8
  <2>2. HasNames(mid, dst, 1)
    <3>1. ASSUME NEW k, HasNames(dentry, k, 1), OnlyAt(dentry, mid, p, n),
                 mid[p][n] # k, dentry[p][n] # k
          PROVE  HasNames(mid, k, 1)
      BY <3>1, NameKept
    <3> QED
      BY <2>1, <3>1
  <2>3. dentry'[q][m] # dst /\ mid[q][m] = dst
    BY <1>7, <1>8
  <2>4. HasNames(dentry', dst, 1 - 1)
    BY <1>7, <2>2, <2>3, NameLost
  <2> QED
    BY <2>4
<1>11. CountOK'
  <2> SUFFICES ASSUME NEW i \in Ino
               PROVE  /\ kind'[i] = "file" => HasNames(dentry', i, nlink'[i])
                      /\ kind'[i] = "dir" /\ i # Root => HasNames(dentry', i, 1)
                      /\ kind'[i] \notin {"dir", "file"} => HasNames(dentry', i, 0)
    BY DEF CountOK
  <2>1. CASE i = dst
    <3>1. kind'[i] = g /\ dst # 0
      BY <1>1, <2>1, Inodes DEF TableInv, RowsOK, Moved
    <3> QED
      BY <1>10, <2>1, <3>1
  <2>2. CASE i # dst
    <3>1. kind'[i] = kind[i] /\ nlink'[i] = nlink[i] /\ nlink[i] \in Nat
      BY <1>1, <2>2 DEF TableInv, RowsOK, Moved
    <3> QED
      BY <1>9, <2>2, <3>1 DEF TableInv, CountOK
  <2> QED
    BY <2>1, <2>2
<1> QED
  BY <1>3, <1>6, <1>11 DEF TableInv
-----------------------------------------------------------------------------
(***************************************************************************)
(* Tasks.  ds stands for the directories that a step works in or removes;  *)
(* the other tasks have nothing to do with them.                           *)
(***************************************************************************)
Apart(t, ds) ==
  \A u \in Task \ {t} : rest[u].dirs \cap ds = {} /\ rest'[u] = rest[u]

Within(ds) ==
  \A p \in Ino \ ds : dentry'[p] = dentry[p] /\ (kind[p] = "dir" => kind'[p] = "dir")

LEMMA OthersKept ==
  ASSUME TaskInv, NEW t \in Task, NEW ds, Apart(t, ds), Within(ds), NEW u \in Task \ {t}
  PROVE  Pending(dentry', rest'[u]) /\ \A p \in rest'[u].dirs : kind'[p] = "dir"
<1> DEFINE r == rest[u]
<1>1. r \in Rests /\ rest'[u] = r /\ Pending(dentry, r)
  BY DEF TaskInv, HeldOK, Apart
<1>2. \A p \in r.dirs : p \in Ino \ ds
  BY <1>1 DEF Apart, Rests
<1>3. \A p \in r.dirs : dentry'[p] = dentry[p] /\ kind'[p] = "dir"
  BY <1>2 DEF Within, TaskInv, HeldOK
<1> HIDE DEF r
<1>4. \A x \in r.put : x[1][1] \in r.dirs /\ x[2] = dentry'[x[1][1]][x[1][2]]
  BY <1>1, <1>3 DEF Pending
<1>5. r.pc = "sweep" => \A e \in r.from : e[2] \in DOMAIN Sibling =>
        dentry'[e[1]][Sibling[e[2]]] = 0
  BY <1>1, <1>3 DEF Pending
<1>6. Pending(dentry', r)
  BY <1>1, <1>4, <1>5 DEF Pending
<1> QED
  BY <1>1, <1>3, <1>6

LEMMA TaskStep ==
  ASSUME TaskInv, NEW t \in Task, NEW ds, Apart(t, ds), Within(ds),
         rest' \in [Task -> Rests], Pending(dentry', rest'[t]),
         \A p \in rest'[t].dirs : kind'[p] = "dir",
         \A u \in Task \ {t} : rest'[t].dirs \cap rest[u].dirs = {}, CacheOK'
  PROVE  TaskInv'
<1>1. \A u \in Task : Pending(dentry', rest'[u]) /\ \A p \in rest'[u].dirs : kind'[p] = "dir"
  BY OthersKept
<1>2. \A v, u \in Task : v # u => rest'[v].dirs \cap rest'[u].dirs = {}
  <2> SUFFICES ASSUME NEW v \in Task, NEW u \in Task, v # u
               PROVE  rest'[v].dirs \cap rest'[u].dirs = {}
    OBVIOUS
  <2>1. CASE v = t
    BY <2>1 DEF Apart
  <2>2. CASE u = t
    BY <2>2 DEF Apart
  <2>3. CASE v # t /\ u # t
    BY <2>3 DEF Apart, TaskInv, HeldOK
  <2> QED
    BY <2>1, <2>2, <2>3
<1> QED
  BY <1>1, <1>2 DEF TaskInv, HeldOK

(* A name that the dentry cache has right, or a task will put right, stays *)
(* so unless the step changes it.                                          *)
LEMMA CacheStays ==
  ASSUME TaskInv, NEW t \in Task, \A u \in Task \ {t} : rest'[u] = rest[u],
         NEW p \in Ino, NEW n \in Name, dentry'[p][n] = dentry[p][n],
         cache'[p][n] \in {0, cache[p][n]},
         Covered(p, n, rest[t]) => \/ Covered(p, n, rest'[t])
                                   \/ cache'[p][n] \in {0, dentry'[p][n]}
  PROVE  cache'[p][n] \in {0, dentry'[p][n]} \/ \E u \in Task : Covered(p, n, rest'[u])
<1>1. CASE cache[p][n] \in {0, dentry[p][n]}
  BY <1>1
<1>2. CASE \E u \in Task : Covered(p, n, rest[u])
  <2>1. PICK u \in Task : Covered(p, n, rest[u])
    BY <1>2
  <2>2. CASE u = t
    BY <2>1, <2>2
  <2>3. CASE u # t
    <3>1. rest'[u] = rest[u]
      BY <2>3
    <3> QED
      BY <2>1, <3>1
  <2> QED
    BY <2>2, <2>3
<1> QED
  BY <1>1, <1>2 DEF TaskInv, CacheOK

(* CachePut sets what is in put and drops at most one entry besides.       *)
LEMMA CachePutDoes ==
  ASSUME cache \in [Ino -> [Name -> Ino \cup {0}]],
         NEW put \in SUBSET (Entry \X (Ino \cup {0})), CachePut(put)
  PROVE  /\ cache' \in [Ino -> [Name -> Ino \cup {0}]]
         /\ \A p \in Ino, n \in Name :
              IF \E x \in put : x[1] = <<p, n>>
              THEN \E x \in put : x[1] = <<p, n>> /\ cache'[p][n] = x[2]
              ELSE cache'[p][n] \in {0, cache[p][n]}
<1> DEFINE after == After(put)
<1>1. \A p \in Ino, n \in Name :
        /\ after[p][n] \in Ino \cup {0}
        /\ IF \E x \in put : x[1] = <<p, n>>
           THEN \E x \in put : x[1] = <<p, n>> /\ after[p][n] = x[2]
           ELSE after[p][n] = cache[p][n]
  <2> SUFFICES ASSUME NEW p \in Ino, NEW n \in Name
               PROVE  /\ after[p][n] \in Ino \cup {0}
                      /\ IF \E x \in put : x[1] = <<p, n>>
                         THEN \E x \in put : x[1] = <<p, n>> /\ after[p][n] = x[2]
                         ELSE after[p][n] = cache[p][n]
    OBVIOUS
  <2>1. after[p][n] = IF \E e \in put : e[1] = <<p, n>>
                      THEN (CHOOSE e \in put : e[1] = <<p, n>>)[2] ELSE cache[p][n]
    BY DEF After
  <2>2. CASE \E e \in put : e[1] = <<p, n>>
    <3>1. PICK x \in put : x[1] = <<p, n>> /\ x = CHOOSE e \in put : e[1] = <<p, n>>
      BY <2>2
    <3> QED
      BY <2>1, <2>2, <3>1
  <2>3. CASE ~\E e \in put : e[1] = <<p, n>>
    BY <2>1, <2>3
  <2> QED
    BY <2>2, <2>3
<1>2. after \in [Ino -> [Name -> Ino \cup {0}]]
  BY <1>1 DEF After
<1>3. \/ cache' = after
      \/ \E e \in Entry : ~(\E f \in put : f[1] = e) /\ cache' = [after EXCEPT ![e[1]][e[2]] = 0]
  BY DEF CachePut
<1> HIDE DEF after
<1>4. CASE cache' = after
  BY <1>1, <1>2, <1>4
<1>5. ASSUME NEW e \in Entry, ~(\E f \in put : f[1] = e),
             cache' = [after EXCEPT ![e[1]][e[2]] = 0]
      PROVE  /\ cache' \in [Ino -> [Name -> Ino \cup {0}]]
             /\ \A p \in Ino, n \in Name :
                  cache'[p][n] = IF e = <<p, n>> THEN 0 ELSE after[p][n]
  <2>1. e[1] \in Ino /\ e[2] \in Name /\ \A p, n : e = <<p, n>> <=> e[1] = p /\ e[2] = n
    BY DEF Entry
  <2> QED
    BY <1>2, <1>5, <2>1
<1>6. ASSUME NEW e \in Entry, ~(\E f \in put : f[1] = e),
             cache' = [after EXCEPT ![e[1]][e[2]] = 0], NEW p \in Ino, NEW n \in Name
      PROVE  IF \E x \in put : x[1] = <<p, n>>
             THEN \E x \in put : x[1] = <<p, n>> /\ cache'[p][n] = x[2]
             ELSE cache'[p][n] \in {0, cache[p][n]}
  <2>1. cache'[p][n] = IF e = <<p, n>> THEN 0 ELSE after[p][n]
    BY <1>5, <1>6
  <2>2. CASE e = <<p, n>>
    <3>1. ~\E x \in put : x[1] = <<p, n>>
      BY <1>6, <2>2
    <3> QED
      BY <2>1, <2>2, <3>1
  <2>3. CASE e # <<p, n>>
    <3>1. cache'[p][n] = after[p][n]
      BY <2>1, <2>3
    <3>2. IF \E x \in put : x[1] = <<p, n>>
          THEN \E x \in put : x[1] = <<p, n>> /\ after[p][n] = x[2]
          ELSE after[p][n] = cache[p][n]
      BY <1>1
    <3>3. CASE \E x \in put : x[1] = <<p, n>>
      <4>1. PICK x \in put : x[1] = <<p, n>> /\ after[p][n] = x[2]
        BY <3>2, <3>3
      <4> QED
        BY <3>1, <3>3, <4>1
    <3>4. CASE ~\E x \in put : x[1] = <<p, n>>
      BY <3>1, <3>2, <3>4
    <3> QED
      BY <3>3, <3>4
  <2> QED
    BY <2>2, <2>3
<1> QED
  BY <1>3, <1>4, <1>5, <1>6

LEMMA EffectWithin ==
  ASSUME TableInv, NEW p \in Ino, NEW n \in Name
  PROVE  /\ \A k, d : Added(k, d, p, n) => Within({p})
         /\ \A i \in Ino : Linked(i, p, n) => Within({p})
         /\ Unlinked(p, n) => Within({p})
         /\ RemovedDir(p, n) => Within({p, dentry[p][n]})
         /\ \A q \in Ino, m \in Name : \A g : Moved(p, n, q, m, g) => Within({p, q, dentry[q][m]})
<1> USE DEF TableInv, RowsOK, NamesOK, Within
<1>1. ASSUME NEW k, NEW d, Added(k, d, p, n) PROVE Within({p})
  <2>1. kind[nextIno] # "dir" \/ nextIno \notin Ino
    OBVIOUS
  <2> QED
    BY <1>1, <2>1 DEF Added
<1>2. ASSUME NEW i \in Ino, Linked(i, p, n) PROVE Within({p})
  BY <1>2 DEF Linked
<1>3. ASSUME Unlinked(p, n) PROVE Within({p})
  BY <1>3 DEF Unlinked
<1>4. ASSUME RemovedDir(p, n) PROVE Within({p, dentry[p][n]})
  BY <1>4 DEF RemovedDir
<1>5. ASSUME NEW q \in Ino, NEW m \in Name, NEW g, Moved(p, n, q, m, g)
      PROVE  Within({p, q, dentry[q][m]})
  BY <1>5 DEF Moved
<1> QED
  BY <1>1, <1>2, <1>3, <1>4, <1>5

LEMMA FreeApart ==
  ASSUME Plain, NEW t \in Task, NEW ds, Free(t, ds), NEW u \in Task \ {t}
  PROVE  rest[u].dirs \cap ds = {}
BY DEF Plain, Free, Shuts

(* A step that sets its one name in the dentry cache at once.              *)
LEMMA CachedStep ==
  ASSUME TaskInv, NEW t \in Task, NEW ds, Apart(t, ds), Within(ds), rest[t].put = {},
         NEW p \in Ino, NEW n \in Name, OnlyAt(dentry, dentry', p, n),
         dentry' \in [Ino -> [Name -> Ino \cup {0}]],
         CachePut({<<<<p, n>>, dentry'[p][n]>>}), rest' \in [Task -> Rests],
         rest'[t].pc \in {"idle", "placed"}, Pending(dentry', rest'[t]),
         \A q \in rest'[t].dirs : kind'[q] = "dir",
         \A u \in Task \ {t} : rest'[t].dirs \cap rest[u].dirs = {}
  PROVE  TaskInv'
<1> DEFINE put == {<<<<p, n>>, dentry'[p][n]>>}
<1>1. put \in SUBSET (Entry \X (Ino \cup {0}))
  BY DEF Entry
<1>2. /\ cache' \in [Ino -> [Name -> Ino \cup {0}]]
      /\ \A q \in Ino, m \in Name :
           IF \E x \in put : x[1] = <<q, m>>
           THEN \E x \in put : x[1] = <<q, m>> /\ cache'[q][m] = x[2]
           ELSE cache'[q][m] \in {0, cache[q][m]}
  <2>1. cache \in [Ino -> [Name -> Ino \cup {0}]] /\ CachePut(put)
    BY DEF TaskInv, CacheOK
  <2> HIDE DEF put
  <2> QED
    BY <1>1, <2>1, CachePutDoes
<1>3. \A q \in Ino, m \in Name :
        IF q = p /\ m = n THEN cache'[q][m] = dentry'[q][m]
        ELSE cache'[q][m] \in {0, cache[q][m]} /\ dentry'[q][m] = dentry[q][m]
  BY <1>2 DEF OnlyAt
<1>4. CacheOK'
  <2> SUFFICES ASSUME NEW q \in Ino, NEW m \in Name
               PROVE  \/ cache'[q][m] \in {0, dentry'[q][m]}
                      \/ \E u \in Task : Covered(q, m, rest'[u])
    BY <1>2 DEF CacheOK
  <2>1. CASE q = p /\ m = n
    BY <1>3, <2>1
  <2>2. CASE ~(q = p /\ m = n)
    <3>1. ~Covered(q, m, rest[t])
      BY DEF Covered
    <3>2. \A u \in Task \ {t} : rest'[u] = rest[u]
      BY DEF Apart
    <3>3. cache'[q][m] \in {0, cache[q][m]} /\ dentry'[q][m] = dentry[q][m]
      BY <1>3, <2>2
    <3> QED
      BY <3>1, <3>2, <3>3, CacheStays
  <2> QED
    BY <2>1, <2>2
<1> QED
  BY <1>4, TaskStep

(* A step that leaves the names it changes to be put into the cache.       *)
LEMMA LeavingStep ==
  ASSUME TaskInv, NEW t \in Task, NEW ds, Apart(t, ds), Within(ds), rest[t].put = {},
         UNCHANGED cache, rest' \in [Task -> Rests],
         \A p \in Ino, n \in Name :
           dentry'[p][n] # dentry[p][n] => Covered(p, n, rest'[t]),
         Pending(dentry', rest'[t]), \A q \in rest'[t].dirs : kind'[q] = "dir",
         \A u \in Task \ {t} : rest'[t].dirs \cap rest[u].dirs = {}
  PROVE  TaskInv'
<1>1. CacheOK'
  <2> SUFFICES ASSUME NEW q \in Ino, NEW m \in Name
               PROVE  \/ cache'[q][m] \in {0, dentry'[q][m]}
                      \/ \E u \in Task : Covered(q, m, rest'[u])
    BY DEF CacheOK, TaskInv
  <2>1. CASE dentry'[q][m] # dentry[q][m]
    BY <2>1
  <2>2. CASE dentry'[q][m] = dentry[q][m]
    <3>1. ~Covered(q, m, rest[t])
      BY DEF Covered
    <3>2. \A u \in Task \ {t} : rest'[u] = rest[u]
      BY DEF Apart
    <3> QED
      BY <2>2, <3>1, <3>2, CacheStays
  <2> QED
    BY <2>1, <2>2
<1> QED
  BY <1>1, TaskStep
-----------------------------------------------------------------------------
(***************************************************************************)
(* The calls that set the dentry cache themselves.                         *)
(***************************************************************************)
LEMMA SiblingOrNot ==
  ASSUME NEW m \in Name
  PROVE  IsSiblingName(m) <=> m \notin DOMAIN Sibling
BY CacheAssumption DEF IsSiblingName

LEMMA QuietPending ==
  ASSUME NEW d
  PROVE  Pending(d, Quiet)
BY DEF Pending, Quiet

LEMMA AddedShape ==
  ASSUME TableInv, NEW p \in Ino, NEW n \in Name, NEW k \in {"dir", "file"},
         NEW d \in BOOLEAN, Added(k, d, p, n)
  PROVE  /\ TableInv' /\ Within({p}) /\ OnlyAt(dentry, dentry', p, n)
         /\ dentry'[p][n] = nextIno /\ nextIno \in Ino /\ kind[nextIno] = "none"
         /\ kind'[nextIno] = k /\ kind'[p] = "dir" /\ nextIno # p
         /\ dentry' \in [Ino -> [Name -> Ino \cup {0}]]
<1>1. TableInv' /\ Within({p})
  BY AddedKeeps, EffectWithin
<1>2. dentry' \in [Ino -> [Name -> Ino \cup {0}]] /\ OnlyAt(dentry, dentry', p, n)
  BY <1>1, TableTypes DEF TableInv, NamesOK, Added, OnlyAt
<1>3. nextIno \in Ino /\ kind[nextIno] = "none" /\ nextIno # p
  BY Inodes DEF TableInv, RowsOK, Added, Ino
<1> QED
  BY <1>1, <1>2, <1>3, TableTypes DEF Added, TableInv, RowsOK

LEMMA MkdirAdds ==
  ASSUME TableInv, NEW p \in Ino, NEW n \in Name, NEW k \in {"dir", "file"},
         NewNameAnswer(p, n) = "Ok", ~IsSiblingName(n), Alloc(k), UNCHANGED derived,
         nlink' = IF k = "dir" THEN [nlink EXCEPT ![nextIno] = 2, ![p] = @ + 1]
                  ELSE [nlink EXCEPT ![nextIno] = 1],
         dentry' = [dentry EXCEPT ![p][n] = nextIno]
  PROVE  Added(k, FALSE, p, n)
<1>1. kind[p] = "dir" /\ dentry[p][n] = 0
  BY DEF NewNameAnswer, First, DirAnswer
<1>2. derived = [derived EXCEPT ![nextIno] = FALSE]
  BY Inodes DEF TableInv, RowsOK, Alloc, Ino
<1> QED
  BY <1>1, <1>2 DEF Added, Alloc

(* Of a call that keeps to p, and leaves nothing to be done.               *)
LEMMA CachedCall ==
  ASSUME Plain, FsInv, NEW t \in Task, NEW ds, Call(t, ds), Within(ds), UNCHANGED rest,
         TableInv', NEW p \in Ino, NEW n \in Name, OnlyAt(dentry, dentry', p, n),
         Cached(<<p, n>>, dentry'[p][n])
  PROVE  FsInv'
<1>1. rest[t] = Quiet /\ Apart(t, ds)
  BY FreeApart DEF Call, Apart
<1>2. /\ rest' \in [Task -> Rests] /\ rest'[t] = Quiet
      /\ Quiet.pc = "idle" /\ Quiet.dirs = {} /\ rest[t].put = {}
  BY <1>1 DEF FsInv, TaskInv, HeldOK, Quiet
<1>3. dentry' \in [Ino -> [Name -> Ino \cup {0}]]
  BY DEF TableInv, NamesOK
<1>4. CachePut({<<<<p, n>>, dentry'[p][n]>>})
  BY DEF Cached
<1>5. TaskInv'
  BY <1>1, <1>2, <1>3, <1>4, QuietPending, CachedStep DEF FsInv
<1> QED
  BY <1>5 DEF FsInv

LEMMA NewNameStep ==
  ASSUME Plain, FsInv, NEW t \in Task, NEW p \in Ino, NEW n \in Name,
         Mkdir(t, p, n) \/ Symlink(t, p, n)
  PROVE  FsInv' /\ Effect
<1>1. PICK k \in {"dir", "file"} : Added(k, FALSE, p, n)
  BY MkdirAdds DEF Mkdir, Symlink, FsInv
<1>2. Cached(<<p, n>>, nextIno) /\ Call(t, {p}) /\ UNCHANGED rest
  BY DEF Mkdir, Symlink
<1>3. /\ TableInv' /\ Within({p}) /\ OnlyAt(dentry, dentry', p, n)
      /\ dentry'[p][n] = nextIno
  BY <1>1, AddedShape DEF FsInv
<1>4. Cached(<<p, n>>, dentry'[p][n])
  BY <1>2, <1>3
<1>20. FsInv'
  BY <1>2, <1>3, <1>4, CachedCall
<1> QED
  BY <1>20, <1>1 DEF Effect

LEMMA LinkStep ==
  ASSUME Plain, FsInv, NEW t \in Task, NEW i \in Ino, NEW p \in Ino, NEW n \in Name,
         Link(t, i, p, n)
  PROVE  FsInv' /\ Effect
<1>1. kind[i] = "file" /\ kind[p] = "dir" /\ dentry[p][n] = 0
  BY DEF Link, LinkAnswer, NewNameAnswer, First, DirAnswer, FsInv, TableInv, RowsOK
<1>2. Linked(i, p, n)
  BY <1>1 DEF Link, Linked
<1>3. OnlyAt(dentry, dentry', p, n) /\ dentry'[p][n] = i
  BY TableTypes DEF Link, OnlyAt, FsInv
<1>4. TableInv' /\ Within({p})
  BY <1>2, LinkedKeeps, EffectWithin DEF FsInv
<1>20. FsInv'
  BY <1>3, <1>4, CachedCall DEF Link
<1> QED
  BY <1>20, <1>2 DEF Effect

LEMMA RmdirStep ==
  ASSUME Plain, FsInv, NEW t \in Task, NEW p \in Ino, NEW n \in Name, Rmdir(t, p, n)
  PROVE  FsInv' /\ Effect
<1> DEFINE c == dentry[p][n]
<1>1. c # 0 /\ kind[c] = "dir" /\ dentry[c] = NoNames
  BY DEF Rmdir, RmdirAnswer, First, DirAnswer
<1>2. RemovedDir(p, n)
  BY <1>1 DEF Rmdir, RemovedDir
<1>3. OnlyAt(dentry, dentry', p, n) /\ dentry'[p][n] = 0
  BY TableTypes DEF Rmdir, OnlyAt, FsInv
<1>4. TableInv' /\ Within({p, c})
  BY <1>2, RemovedDirKeeps, EffectWithin DEF FsInv
<1>20. FsInv'
  BY <1>3, <1>4, CachedCall DEF Rmdir
<1> QED
  BY <1>20, <1>2 DEF Effect

LEMMA LookupStep ==
  ASSUME Plain, FsInv, NEW t \in Task, NEW p \in Ino, NEW n \in Name, LookupMiss(t, p, n)
  PROVE  FsInv' /\ Effect
<1>1. UNCHANGED <<kind, nlink, derived, dentry, nextIno>>
  BY DEF LookupMiss
<1>2. TableInv'
  BY <1>1 DEF FsInv, TableInv, RowsOK, NamesOK, CountOK
<1>3. OnlyAt(dentry, dentry', p, n) /\ Within({p}) /\ dentry'[p][n] = dentry[p][n]
  BY <1>1 DEF OnlyAt, Within
<1>20. FsInv'
  BY <1>2, <1>3, CachedCall DEF LookupMiss
<1> QED
  BY <1>20, <1>1 DEF Effect
-----------------------------------------------------------------------------
(***************************************************************************)
(* The calls and pulls that leave names to be put into the dentry cache.   *)
(***************************************************************************)
(* What is left to do suits the names d and the kinds of inodes k.         *)
Suits(d, k, dirs, put, from, to) ==
  /\ dirs \in SUBSET Ino /\ \A p \in dirs : k[p] = "dir"
  /\ put \in SUBSET (Entry \X (Ino \cup {0}))
  /\ \A x \in put : x[1][1] \in dirs /\ x[2] = d[x[1][1]][x[1][2]]
  /\ from \in SUBSET Entry /\ to \in SUBSET Entry
  /\ \A e \in from \cup to : e[1] \in dirs
  /\ \A e \in to : e[2] \in DOMAIN Sibling
  /\ from \cap to = {} /\ \A e, f \in from : e = f

Clear(t, ds) == \A u \in Task \ {t} : rest[u].dirs \cap ds = {}

(* put has all names in which d2 differs from d.                           *)
PutsAll(d, d2, put) ==
  \A p \in Ino, n \in Name : d2[p][n] # d[p][n] => \E x \in put : x[1] = <<p, n>>

LEMMA LeavingCall ==
  ASSUME FsInv, NEW t \in Task, NEW ds, Clear(t, ds), Within(ds), rest[t].put = {},
         UNCHANGED cache, TableInv', NEW dirs, dirs \subseteq ds,
         NEW put, NEW from, NEW to, Leaves(t, dirs, put, from, to),
         Suits(dentry', kind', dirs, put, from, to), PutsAll(dentry, dentry', put)
  PROVE  FsInv'
<1> DEFINE r == [pc |-> "publish", dirs |-> dirs, put |-> put, from |-> from, to |-> to]
<1>1. rest' = [rest EXCEPT ![t] = r] /\ rest \in [Task -> Rests]
  BY DEF Leaves, Then, FsInv, TaskInv, HeldOK
<1>2. r \in Rests
  BY DEF Rests, Suits
<1>3. rest' \in [Task -> Rests] /\ rest'[t] = r /\ \A u \in Task \ {t} : rest'[u] = rest[u]
  BY <1>1, <1>2
<1>4. Pending(dentry', r)
  BY DEF Pending, Suits
<1>5. r.dirs = dirs /\ r.put = put /\ \A p \in dirs : kind'[p] = "dir"
  BY DEF Suits
<1> HIDE DEF r
<1>6. /\ Apart(t, ds) /\ Pending(dentry', rest'[t]) /\ TaskInv
      /\ \A p \in Ino, n \in Name : dentry'[p][n] # dentry[p][n] => Covered(p, n, rest'[t])
      /\ \A q \in rest'[t].dirs : kind'[q] = "dir"
      /\ \A u \in Task \ {t} : rest'[t].dirs \cap rest[u].dirs = {}
  BY <1>3, <1>4, <1>5 DEF Apart, Covered, FsInv, Clear, PutsAll
<1>7. TaskInv'
  BY <1>3, <1>6, LeavingStep
<1> QED
  BY <1>7 DEF FsInv

(* A file's new row and name.                                              *)
LEMMA LeavingNew ==
  ASSUME FsInv, NEW t \in Task, NEW p \in Ino, NEW n \in Name, NEW d \in BOOLEAN,
         Clear(t, {p}), rest[t].put = {},
         Added("file", d, p, n), Leaves(t, {p}, {<<<<p, n>>, nextIno>>}, {}, {}),
         UNCHANGED cache
  PROVE  FsInv'
<1> DEFINE put == {<<<<p, n>>, nextIno>>}
<1>1. /\ TableInv' /\ Within({p}) /\ OnlyAt(dentry, dentry', p, n)
      /\ dentry'[p][n] = nextIno /\ nextIno \in Ino /\ kind'[p] = "dir"
  BY AddedShape DEF FsInv
<1>2. PutsAll(dentry, dentry', put)
  BY <1>1 DEF OnlyAt, PutsAll
<1>3. Suits(dentry', kind', {p}, put, {}, {})
  BY <1>1 DEF Suits, Entry
<1>4. Leaves(t, {p}, put, {}, {}) /\ {p} \subseteq {p}
  OBVIOUS
<1> HIDE DEF put
<1> QED
  BY <1>1, <1>2, <1>3, <1>4, LeavingCall

LEMMA LeavingUnlinked ==
  ASSUME FsInv, NEW t \in Task, NEW p \in Ino, NEW n \in Name,
         Clear(t, {p}), rest[t].put = {},
         Unlinked(p, n), UNCHANGED cache, NEW from \in SUBSET {<<p, n>>},
         Leaves(t, {p}, {<<<<p, n>>, 0>>}, from, {})
  PROVE  FsInv'
<1> DEFINE put == {<<<<p, n>>, 0>>}
<1>1. TableInv' /\ Within({p})
  BY UnlinkedKeeps, EffectWithin DEF FsInv
<1>2. OnlyAt(dentry, dentry', p, n) /\ dentry'[p][n] = 0
  BY TableTypes DEF Unlinked, OnlyAt, FsInv
<1>3. kind'[p] = "dir"
  BY DEF Unlinked, FsInv, TableInv, NamesOK, RowsOK
<1>4. PutsAll(dentry, dentry', put)
  BY <1>2 DEF OnlyAt, PutsAll
<1>5. Suits(dentry', kind', {p}, put, from, {})
  BY <1>2, <1>3 DEF Suits, Entry
<1>6. Leaves(t, {p}, put, from, {}) /\ {p} \subseteq {p}
  OBVIOUS
<1> HIDE DEF put
<1> QED
  BY <1>1, <1>4, <1>5, <1>6, LeavingCall

(* From one name to another, and what the call still has to look after.    *)
LEMMA LeavingMoved ==
  ASSUME FsInv, NEW t \in Task, NEW p \in Ino, NEW n \in Name, NEW q \in Ino, NEW m \in Name,
         Clear(t, {p, q, dentry[q][m]}), rest[t].put = {}, Moved(p, n, q, m, "none"), UNCHANGED cache,
         NEW from \in SUBSET {<<p, n>>}, NEW to \in SUBSET {<<q, m>>},
         to # {} => m \in DOMAIN Sibling,
         Leaves(t, {p, q}, {<<<<p, n>>, 0>>, <<<<q, m>>, dentry[p][n]>>}, from, to)
  PROVE  FsInv'
<1> DEFINE src == dentry[p][n]
           dst == dentry[q][m]
           put == {<<<<p, n>>, 0>>, <<<<q, m>>, src>>}
<1>1. TableInv' /\ Within({p, q, dst})
  BY MovedKeeps, EffectWithin DEF FsInv
<1>2. src \in Ino /\ (q # p \/ m # n) /\ kind[p] = "dir" /\ kind[q] = "dir"
  BY DEF Moved, FsInv, TableInv, NamesOK
<1>3. \A r \in Ino, l \in Name :
        dentry'[r][l] = IF r = q /\ l = m THEN src
                        ELSE IF r = p /\ l = n THEN 0 ELSE dentry[r][l]
  BY TableTypes DEF Moved, FsInv
<1>4. kind'[p] = "dir" /\ kind'[q] = "dir"
  <2>1. dst # 0 => dst # p /\ dst # q
    BY <1>2, Inodes DEF Moved, FsInv, TableInv, NamesOK, NoNames
  <2> QED
    BY <1>2, <2>1 DEF Moved, FsInv, TableInv, RowsOK
<1>5. PutsAll(dentry, dentry', put)
  BY <1>3 DEF PutsAll
<1>6. Suits(dentry', kind', {p, q}, put, from, to)
  <2>1. put \in SUBSET (Entry \X (Ino \cup {0}))
    BY <1>2 DEF Entry
  <2>2. \A x \in put : x[1][1] \in {p, q} /\ x[2] = dentry'[x[1][1]][x[1][2]]
    BY <1>2, <1>3
  <2>3. /\ from \in SUBSET Entry /\ to \in SUBSET Entry
        /\ \A e \in from \cup to : e[1] \in {p, q}
        /\ \A e \in to : e[2] \in DOMAIN Sibling
        /\ from \cap to = {} /\ \A e, f \in from : e = f
    BY <1>2 DEF Entry
  <2> HIDE DEF put
  <2> QED
    BY <1>4, <2>1, <2>2, <2>3 DEF Suits
<1>7. Leaves(t, {p, q}, put, from, to) /\ {p, q} \subseteq {p, q, dst}
  OBVIOUS
<1> HIDE DEF put
<1> QED
  BY <1>1, <1>5, <1>6, <1>7, LeavingCall

LEMMA CallClears ==
  ASSUME Plain, FsInv, NEW t \in Task, NEW ds, Free(t, ds), rest[t] = Quiet
  PROVE  Clear(t, ds) /\ rest[t].put = {} /\ Clear(t, ds \cup {0})
<1>1. \A u \in Task \ {t} : rest[u].dirs \cap ds = {}
  BY FreeApart
<1>2. \A u \in Task : 0 \notin rest[u].dirs
  BY Inodes DEF FsInv, TaskInv, HeldOK, Rests
<1>3. Clear(t, ds) /\ Clear(t, ds \cup {0})
  BY <1>1, <1>2 DEF Clear
<1> QED
  BY <1>3 DEF Quiet

LEMMA CreateFileStep ==
  ASSUME Plain, FsInv, NEW t \in Task, NEW p \in Ino, NEW n \in Name, CreateFile(t, p, n)
  PROVE  FsInv' /\ Effect
<1>1. Added("file", FALSE, p, n)
  BY MkdirAdds DEF CreateFile, FsInv
<1>2. Clear(t, {p}) /\ rest[t].put = {}
  BY CallClears DEF CreateFile, Call
<1>20. FsInv'
  BY <1>1, <1>2, LeavingNew DEF CreateFile
<1> QED
  BY <1>20, <1>1 DEF Effect

LEMMA UnlinkStep ==
  ASSUME Plain, FsInv, NEW t \in Task, NEW p \in Ino, NEW n \in Name, Unlink(t, p, n)
  PROVE  FsInv' /\ Effect
<1>1. Unlinked(p, n)
  BY DEF Unlink, Unlinked, UnlinkAnswer, FsInv, TableInv, NamesOK
<1>2. Clear(t, {p}) /\ rest[t].put = {}
  BY CallClears DEF Unlink, Call
<1>3. {<<p, n>>} \in SUBSET {<<p, n>>}
  OBVIOUS
<1>20. FsInv'
  BY <1>1, <1>2, <1>3, LeavingUnlinked DEF Unlink
<1> QED
  BY <1>20, <1>1 DEF Effect

LEMMA RenameStep ==
  ASSUME Plain, FsInv, NEW t \in Task, NEW p \in Ino, NEW n \in Name,
         NEW q \in Ino, NEW m \in Name, Rename(t, p, n, q, m)
  PROVE  FsInv' /\ Effect
<1> DEFINE src == dentry[p][n]
           dst == dentry[q][m]
<1>1. /\ src # 0 /\ dst # src /\ kind[q] = "dir" /\ m \in DOMAIN Sibling
      /\ ~IsSiblingName(m)
  BY SiblingOrNot DEF Rename, RenameAnswer, First, DirAnswer
<1>2. /\ src \in Ino /\ kind[src] \in {"dir", "file"}
      /\ dst # 0 => dst \in Ino /\ kind[dst] \in {"dir", "file"}
  BY <1>1 DEF FsInv, TableInv, NamesOK
<1>3. dst # 0 => /\ kind[dst] = "dir" => kind[src] = "dir" /\ dentry[dst] = NoNames
                 /\ kind[dst] = "file" => kind[src] = "file" /\ nlink[dst] = 1
  <2> SUFFICES ASSUME dst # 0
               PROVE  /\ kind[dst] = "dir" => kind[src] = "dir" /\ dentry[dst] = NoNames
                      /\ kind[dst] = "file" => kind[src] = "file" /\ nlink[dst] = 1
    OBVIOUS
  <2>1. ReplaceAnswer(src, dst) = "Ok"
    BY <1>1, <1>2 DEF Rename, RenameAnswer, First, DirAnswer
  <2>2. kind[dst] = "file" => nlink[dst] = 1
    <3>1. kind[dst] = "file" => ~(nlink[dst] > 1)
      BY DEF Rename, Ordinary, Shared, Plain
    <3>2. kind[dst] = "file" => HasNames(dentry, dst, nlink[dst]) /\ nlink[dst] \in Nat
      BY <1>2 DEF FsInv, TableInv, CountOK, RowsOK
    <3>3. kind[dst] = "file" => nlink[dst] # 0
      BY <3>2, HasNone
    <3> QED
      BY <3>1, <3>2, <3>3
  <2> QED
    BY <1>2, <2>1, <2>2 DEF ReplaceAnswer
<1>4. /\ nlink' \in [Ino -> Nat] /\ \A i \in Ino \ {dst} : nlink'[i] = nlink[i]
      /\ dst # 0 => nlink'[dst] = 0
  BY <1>2 DEF Rename, FsInv, TableInv, RowsOK
<1>5. Moved(p, n, q, m, "none")
  BY <1>1, <1>3, <1>4 DEF Rename, Moved
<1>6. Clear(t, {p, q, dst}) /\ rest[t].put = {}
  <2>1. Call(t, {p, q} \cup ({dst} \ {0}))
    BY DEF Rename
  <2>2. Clear(t, {p, q} \cup ({dst} \ {0}) \cup {0}) /\ rest[t].put = {}
    BY <2>1, CallClears DEF Call
  <2> QED
    BY <2>2 DEF Clear
<1>7. {<<p, n>>} \in SUBSET {<<p, n>>} /\ {<<q, m>>} \in SUBSET {<<q, m>>}
  OBVIOUS
<1>8. /\ Leaves(t, {p, q}, {<<<<p, n>>, 0>>, <<<<q, m>>, src>>}, {<<p, n>>}, {<<q, m>>})
      /\ UNCHANGED cache
  BY DEF Rename
<1> HIDE DEF src, dst
<1>20. FsInv'
  BY <1>1, <1>5, <1>6, <1>7, <1>8, LeavingMoved DEF src, dst
<1> QED
  BY <1>20, <1>5 DEF Effect

(* Whoever works in q as a puller has it for itself.                       *)
LEMMA PlacedClears ==
  ASSUME Plain, FsInv, NEW t \in Task, NEW q \in Ino, Placed(t, q)
  PROVE  Clear(t, {q}) /\ rest[t].put = {} /\ kind[q] = "dir"
<1>1. CASE rest[t].pc = "placed" /\ rest[t].dirs = {q}
  <2>1. Pending(dentry, rest[t])
    BY DEF FsInv, TaskInv
  <2> QED
    BY <1>1, <2>1 DEF FsInv, TaskInv, HeldOK, Pending, Clear
<1>2. CASE rest[t] = Quiet /\ q = Root /\ Free(t, {Root})
  BY <1>2, CallClears DEF FsInv, TableInv, RowsOK
<1> QED
  BY <1>1, <1>2 DEF Placed

LEMMA EnsureDirStep ==
  ASSUME Plain, FsInv, NEW t \in Task, NEW p \in Ino, NEW n \in Name, EnsureDir(t, p, n)
  PROVE  FsInv' /\ Effect
<1> DEFINE d == dentry[p][n]
           Walk(q) == [Quiet EXCEPT !.pc = "placed", !.dirs = {q}]
<1>0. d \in Ino \cup {0} /\ rest \in [Task -> Rests] /\ kind[p] = "dir"
      /\ Clear(t, {p}) /\ rest[t].put = {}
  BY TableTypes, PlacedClears DEF EnsureDir, FsInv, TaskInv, HeldOK
<1>1. CASE d = 0
  <2>1. Added("dir", FALSE, p, n)
    <3>1. NewNameAnswer(p, n) = "Ok"
      BY <1>0, <1>1 DEF NewNameAnswer, First, DirAnswer
    <3> QED
      BY <1>1, <3>1, MkdirAdds DEF EnsureDir, FsInv
  <2>2. /\ TableInv' /\ Within({p}) /\ OnlyAt(dentry, dentry', p, n)
        /\ dentry'[p][n] = nextIno /\ nextIno \in Ino /\ kind[nextIno] = "none"
        /\ kind'[nextIno] = "dir" /\ dentry' \in [Ino -> [Name -> Ino \cup {0}]]
    BY <2>1, AddedShape DEF FsInv
  <2>3. rest' = [rest EXCEPT ![t] = Walk(nextIno)]
    BY <1>1 DEF EnsureDir, Then
  <2>4. rest'[t] = Walk(nextIno) /\ rest' \in [Task -> Rests]
    BY <1>0, <2>2, <2>3 DEF Rests, Quiet
  <2>5. Pending(dentry', rest'[t]) /\ rest'[t].dirs = {nextIno} /\ rest'[t].pc = "placed"
    BY <2>4 DEF Pending, Quiet
  <2>6. Apart(t, {p})
    BY <1>0, <2>3 DEF Apart, Clear
  <2>7. \A u \in Task \ {t} : {nextIno} \cap rest[u].dirs = {}
    BY <2>2 DEF FsInv, TaskInv, HeldOK
  <2>8. CachePut({<<<<p, n>>, dentry'[p][n]>>})
    BY <1>1, <2>2 DEF EnsureDir, Cached
  <2>9. TaskInv'
    BY <1>0, <2>2, <2>4, <2>5, <2>6, <2>7, <2>8, CachedStep DEF FsInv
  <2> QED
    BY <2>1, <2>2, <2>9 DEF FsInv, Effect
<1>2. CASE d # 0
  <2>1. kind[d] = "dir" /\ d \in Ino
    BY <1>0, <1>2 DEF EnsureDir, Plain
  <2>2. UNCHANGED <<kind, nlink, derived, dentry, nextIno, cache>>
    BY <1>2 DEF EnsureDir
  <2>3. rest' = [rest EXCEPT ![t] = Walk(d)]
    BY <1>2 DEF EnsureDir, Then
  <2>4. rest'[t] = Walk(d) /\ rest' \in [Task -> Rests]
    BY <1>0, <2>1, <2>3 DEF Rests, Quiet
  <2>5. Pending(dentry', rest'[t]) /\ rest'[t].dirs = {d}
    BY <2>4 DEF Pending, Quiet
  <2>6. \A u \in Task \ {t} : rest[u].dirs \cap {p, d} = {} /\ rest'[u] = rest[u]
    BY <1>0, <1>2, <2>3, FreeApart DEF EnsureDir, Clear
  <2>7. Apart(t, {p, d}) /\ Within({p, d})
    BY <2>2, <2>6 DEF Apart, Within
  <2>8. /\ \A q \in Ino, m \in Name : dentry'[q][m] # dentry[q][m] => Covered(q, m, rest'[t])
        /\ \A q \in rest'[t].dirs : kind'[q] = "dir"
        /\ \A u \in Task \ {t} : rest'[t].dirs \cap rest[u].dirs = {}
        /\ UNCHANGED cache /\ TaskInv
    BY <2>1, <2>2, <2>5, <2>6 DEF FsInv
  <2>9. TaskInv'
    BY <1>0, <2>4, <2>5, <2>7, <2>8, LeavingStep
  <2> QED
    BY <2>2, <2>9 DEF FsInv, TableInv, RowsOK, NamesOK, CountOK, Effect
<1> QED
  BY <1>0, <1>1, <1>2

LEMMA MaterializeStep ==
  ASSUME Plain, FsInv, NEW t \in Task, NEW q \in Ino, NEW m \in Name, NEW d \in BOOLEAN,
         Materialize(t, q, m, d)
  PROVE  FsInv' /\ Effect
<1>1. Clear(t, {q}) /\ rest[t].put = {} /\ kind[q] = "dir"
  BY PlacedClears DEF Materialize
<1>2. Added("file", d, q, m)
  BY <1>1 DEF Added, Materialize, Alloc
<1>20. FsInv'
  BY <1>1, <1>2, LeavingNew DEF Materialize
<1> QED
  BY <1>20, <1>2 DEF Effect

LEMMA ApplyRenameStep ==
  ASSUME Plain, FsInv, NEW t \in Task, NEW p \in Ino, NEW n \in Name,
         NEW q \in Ino, NEW m \in Name, t \in Puller, ApplyRename(t, p, n, q, m)
  PROVE  FsInv' /\ Effect
<1> DEFINE i == dentry[p][n]
<1>1. Clear(t, {q}) /\ rest[t].put = {} /\ kind[q] = "dir"
  BY PlacedClears DEF ApplyRename
<1>2. i # 0 /\ dentry[q][m] = 0 /\ ~IsSiblingName(m)
  BY DEF ApplyRename
<1>3. Moved(p, n, q, m, "none")
  BY <1>1, <1>2 DEF Moved, ApplyRename, FsInv, TableInv, RowsOK
<1>4. Clear(t, {p, q, dentry[q][m]})
  <2>1. \A u \in Task \ {t} : rest[u].dirs \cap {p} = {}
    BY FreeApart DEF ApplyRename
  <2>2. \A u \in Task : 0 \notin rest[u].dirs
    BY Inodes DEF FsInv, TaskInv, HeldOK, Rests
  <2> QED
    BY <1>1, <1>2, <2>1, <2>2 DEF Clear
<1>5. {} \in SUBSET {<<p, n>>} /\ {} \in SUBSET {<<q, m>>} /\ ({} # {} => m \in DOMAIN Sibling)
  OBVIOUS
<1>6. /\ Leaves(t, {p, q}, {<<<<p, n>>, 0>>, <<<<q, m>>, dentry[p][n]>>}, {}, {})
      /\ UNCHANGED cache
  BY DEF ApplyRename
<1>20. FsInv'
  BY <1>1, <1>3, <1>4, <1>5, <1>6, LeavingMoved
<1> QED
  BY <1>20, <1>3 DEF Effect

LEMMA ApplyDeletionStep ==
  ASSUME Plain, FsInv, NEW t \in Task, NEW p \in Ino, NEW n \in Name, ApplyDeletion(t, p, n)
  PROVE  FsInv' /\ Effect
<1> DEFINE i == dentry[p][n]
<1>1. i # 0 /\ kind[i] = "file" /\ i \in Ino
  BY TableTypes DEF ApplyDeletion, FsInv
<1>2. nlink[i] = 1
  <2>1. ~(nlink[i] > 1)
    BY <1>1 DEF ApplyDeletion, Ordinary, Shared, Plain
  <2>2. HasNames(dentry, i, nlink[i]) /\ nlink[i] \in Nat
    BY <1>1 DEF FsInv, TableInv, CountOK, RowsOK
  <2>3. nlink[i] # 0
    BY <2>2, HasNone
  <2> QED
    BY <2>1, <2>2, <2>3
<1>3. \A q \in Ino, m \in Name : dentry[q][m] = i => q = p /\ m = n
  BY <1>1, <1>2, OnlyName DEF FsInv
<1>4. dentry' = [dentry EXCEPT ![p][n] = 0]
  <2>1. dentry' = [q \in Ino |-> [m \in Name |-> IF dentry[q][m] = i THEN 0 ELSE dentry[q][m]]]
    BY DEF ApplyDeletion
  <2>2. dentry \in [Ino -> [Name -> Ino \cup {0}]]
    BY TableTypes DEF FsInv
  <2> DEFINE d2 == [dentry EXCEPT ![p][n] = 0]
  <2>3. \A q \in Ino : d2[q] = [m \in Name |-> IF dentry[q][m] = i THEN 0 ELSE dentry[q][m]]
    <3> SUFFICES ASSUME NEW q \in Ino
                 PROVE  d2[q] = [m \in Name |-> IF dentry[q][m] = i THEN 0 ELSE dentry[q][m]]
      OBVIOUS
    <3>1. CASE q = p
      BY <1>3, <2>2, <3>1
    <3>2. CASE q # p
      BY <1>3, <2>2, <3>2
    <3> QED
      BY <3>1, <3>2
  <2>4. DOMAIN d2 = Ino /\ d2 = [q \in DOMAIN d2 |-> d2[q]]
    BY <2>2
  <2> HIDE DEF d2
  <2>5. d2 = dentry'
    BY <2>1, <2>3, <2>4
  <2> QED
    BY <2>5 DEF d2
<1>5. /\ nlink' = [nlink EXCEPT ![i] = nlink[i] - 1]
      /\ kind' = IF nlink[i] > 1 THEN kind ELSE [kind EXCEPT ![i] = "none"]
      /\ UNCHANGED <<derived, nextIno>>
  BY <1>2 DEF ApplyDeletion
<1>6. Unlinked(p, n)
  BY <1>1, <1>4, <1>5 DEF Unlinked
<1>7. Clear(t, {p}) /\ rest[t].put = {}
  BY CallClears DEF ApplyDeletion
<1>8. {} \in SUBSET {<<p, n>>}
  OBVIOUS
<1>20. FsInv'
  BY <1>6, <1>7, <1>8, LeavingUnlinked DEF ApplyDeletion
<1> QED
  BY <1>20, <1>6 DEF Effect
-----------------------------------------------------------------------------
(***************************************************************************)
(* What follows a call's own step.                                         *)
(***************************************************************************)
LEMMA SameTables ==
  ASSUME TableInv, UNCHANGED <<kind, nlink, derived, dentry, nextIno>>
  PROVE  TableInv' /\ Within({})
BY DEF TableInv, RowsOK, NamesOK, CountOK, Within

(* The end of a call that has put its names into the cache.                *)
LEMMA EndStep ==
  ASSUME FsInv, NEW t \in Task, rest[t].put = {}, Then(t, Quiet),
         UNCHANGED <<kind, nlink, derived, dentry, nextIno, cache>>
  PROVE  FsInv' /\ Effect
<1>1. TableInv' /\ Within({})
  BY SameTables DEF FsInv
<1>2. rest' = [rest EXCEPT ![t] = Quiet] /\ rest \in [Task -> Rests] /\ Quiet \in Rests
  BY DEF Then, FsInv, TaskInv, HeldOK, Rests, Quiet
<1>3. rest' \in [Task -> Rests] /\ rest'[t] = Quiet /\ Apart(t, {}) /\ TaskInv
  BY <1>2 DEF Apart, FsInv
<1>4. /\ Pending(dentry', rest'[t])
      /\ \A p \in Ino, m \in Name : dentry'[p][m] # dentry[p][m] => Covered(p, m, rest'[t])
      /\ \A q \in rest'[t].dirs : kind'[q] = "dir"
      /\ \A u \in Task \ {t} : rest'[t].dirs \cap rest[u].dirs = {}
  BY <1>3, QuietPending DEF Quiet
<1>5. TaskInv'
  BY <1>1, <1>3, <1>4, LeavingStep
<1> QED
  BY <1>1, <1>5 DEF FsInv, Effect

LEMMA GiveUpStep ==
  ASSUME FsInv, NEW t \in Task, GiveUp(t)
  PROVE  FsInv' /\ Effect
<1>1. rest[t].put = {}
  BY DEF GiveUp, FsInv, TaskInv, Pending
<1> QED
  BY <1>1, EndStep DEF GiveUp

LEMMA NoSiblingStep ==
  ASSUME FsInv, NEW t \in Task, NoSibling(t)
  PROVE  FsInv' /\ Effect
<1>1. rest[t].put = {}
  BY DEF NoSibling, FsInv, TaskInv, Pending
<1> QED
  BY <1>1, EndStep DEF NoSibling

(* Of a name that has a sibling.                                           *)
LEMMA SiblingFound ==
  ASSUME FsInv, NEW t \in Task, rest[t].pc = "cascade", NEW e \in rest[t].from,
         SiblingOf(e) # 0
  PROVE  /\ e[1] \in rest[t].dirs /\ e[1] \in Ino /\ kind[e[1]] = "dir"
         /\ e[2] \in DOMAIN Sibling /\ Sibling[e[2]] \in Name
         /\ dentry[e[1]][Sibling[e[2]]] = SiblingOf(e) /\ SiblingOf(e) \in Ino
         /\ kind[SiblingOf(e)] = "file" /\ nlink[SiblingOf(e)] = 1 /\ derived[SiblingOf(e)]
<1>1. e[2] \in DOMAIN Sibling /\ Sibling[e[2]] \in Name
  BY CacheAssumption DEF SiblingOf
<1>2. e[1] \in rest[t].dirs /\ rest[t].dirs \subseteq Ino /\ kind[e[1]] = "dir"
  BY DEF FsInv, TaskInv, HeldOK, Rests, Pending
<1>3. /\ dentry[e[1]][Sibling[e[2]]] = SiblingOf(e) /\ kind[SiblingOf(e)] # "none"
      /\ derived[SiblingOf(e)]
  BY <1>1 DEF SiblingOf
<1>4. SiblingOf(e) \in Ino
  BY <1>1, <1>2, <1>3, TableTypes DEF FsInv
<1>5. kind[SiblingOf(e)] \in {"dir", "file"}
  BY <1>1, <1>2, <1>3, <1>4 DEF FsInv, TableInv, NamesOK
<1>6. kind[SiblingOf(e)] = "file" /\ nlink[SiblingOf(e)] = 1
  BY <1>3, <1>4, <1>5 DEF FsInv, TableInv, RowsOK
<1> QED
  BY <1>1, <1>2, <1>3, <1>4, <1>6

(* The sibling has been removed or moved, and the cache is to be told.     *)
LEMMA SweepStep ==
  ASSUME FsInv, NEW t \in Task, rest[t].pc = "cascade", NEW ds, Clear(t, ds), Within(ds),
         NEW put \in SUBSET (Entry \X (Ino \cup {0})),
         Then(t, [rest[t] EXCEPT !.pc = "sweep", !.put = put]), UNCHANGED cache, TableInv',
         \A x \in put : x[1][1] \in rest[t].dirs /\ x[2] = dentry'[x[1][1]][x[1][2]],
         PutsAll(dentry, dentry', put), \A p \in rest[t].dirs : kind'[p] = "dir",
         NEW e \in rest[t].from, dentry'[e[1]][Sibling[e[2]]] = 0
  PROVE  FsInv'
<1> DEFINE r == [rest[t] EXCEPT !.pc = "sweep", !.put = put]
<1>1. rest[t] \in Rests /\ Pending(dentry, rest[t]) /\ rest \in [Task -> Rests] /\ TaskInv
  BY DEF FsInv, TaskInv, HeldOK
<1>2. r \in Rests /\ r.pc = "sweep" /\ r.put = put
      /\ r.dirs = rest[t].dirs /\ r.from = rest[t].from /\ r.to = rest[t].to
  BY <1>1 DEF Rests
<1>3. rest' = [rest EXCEPT ![t] = r]
  BY DEF Then
<1> HIDE DEF r
<1>4. rest' \in [Task -> Rests] /\ rest'[t] = r /\ \A u \in Task \ {t} : rest'[u] = rest[u]
  BY <1>1, <1>2, <1>3
<1>5. \A f \in r.from : f = e
  BY <1>1, <1>2 DEF Pending
<1>6. Pending(dentry', r)
  BY <1>1, <1>2, <1>5 DEF Pending
<1>7. Apart(t, ds) /\ Pending(dentry', rest'[t]) /\ rest[t].put = {}
  BY <1>1, <1>4, <1>6 DEF Apart, Clear, Pending
<1>8. \A p \in Ino, n \in Name : dentry'[p][n] # dentry[p][n] => Covered(p, n, rest'[t])
  BY <1>2, <1>4 DEF Covered, PutsAll
<1>9. /\ \A q \in rest'[t].dirs : kind'[q] = "dir"
      /\ \A u \in Task \ {t} : rest'[t].dirs \cap rest[u].dirs = {}
  BY <1>2, <1>4 DEF FsInv, TaskInv, HeldOK
<1>10. TaskInv'
  BY <1>1, <1>4, <1>7, <1>8, <1>9, LeavingStep
<1> QED
  BY <1>10 DEF FsInv

LEMMA RemoveSiblingStep ==
  ASSUME FsInv, NEW t \in Task, RemoveSibling(t)
  PROVE  FsInv' /\ Effect
<1>1. PICK e \in rest[t].from :
        /\ rest[t].pc = "cascade" /\ SiblingOf(e) # 0
        /\ dentry' = [dentry EXCEPT ![Sib(e)[1]][Sib(e)[2]] = 0]
        /\ kind' = [kind EXCEPT ![SiblingOf(e)] = "none"]
        /\ nlink' = [nlink EXCEPT ![SiblingOf(e)] = 0]
        /\ Then(t, [rest[t] EXCEPT !.pc = "sweep", !.put = {<<Sib(e), 0>>}])
        /\ UNCHANGED <<derived, nextIno, cache>>
  BY DEF RemoveSibling
<1> DEFINE p == e[1]
           n == Sibling[e[2]]
           put == {<<<<p, n>>, 0>>}
<1>2. /\ p \in rest[t].dirs /\ p \in Ino /\ kind[p] = "dir" /\ n \in Name
      /\ dentry[p][n] = SiblingOf(e) /\ SiblingOf(e) \in Ino
      /\ kind[SiblingOf(e)] = "file" /\ nlink[SiblingOf(e)] = 1
  BY <1>1, SiblingFound
<1>3. Sib(e) = <<p, n>>
  BY DEF Sib
<1>4. Unlinked(p, n)
  BY <1>1, <1>2, <1>3 DEF Unlinked
<1>5. TableInv' /\ Within({p})
  BY <1>2, <1>4, UnlinkedKeeps, EffectWithin DEF FsInv
<1>6. OnlyAt(dentry, dentry', p, n) /\ dentry'[p][n] = 0
  BY <1>1, <1>2, <1>3, TableTypes DEF OnlyAt, FsInv
<1>7. /\ \A x \in put : x[1][1] \in rest[t].dirs /\ x[2] = dentry'[x[1][1]][x[1][2]]
      /\ PutsAll(dentry, dentry', put) /\ put \in SUBSET (Entry \X (Ino \cup {0}))
  BY <1>2, <1>6 DEF OnlyAt, PutsAll, Entry
<1>8. \A q \in rest[t].dirs : kind'[q] = "dir"
  BY <1>1, <1>2 DEF FsInv, TaskInv, HeldOK, TableInv, RowsOK
<1>9. Clear(t, {p})
  BY <1>2 DEF Clear, FsInv, TaskInv, HeldOK
<1>10. /\ Then(t, [rest[t] EXCEPT !.pc = "sweep", !.put = put])
       /\ dentry'[e[1]][Sibling[e[2]]] = 0
  BY <1>1, <1>3, <1>6
<1> HIDE DEF put, p, n
<1>20. FsInv'
  BY <1>1, <1>5, <1>7, <1>8, <1>9, <1>10, SweepStep
<1> QED
  BY <1>20, <1>2, <1>4 DEF Effect

LEMMA MoveSiblingStep ==
  ASSUME FsInv, NEW t \in Task, MoveSibling(t)
  PROVE  FsInv' /\ Effect
<1>1. PICK e \in rest[t].from, f \in rest[t].to :
        /\ rest[t].pc = "cascade" /\ SiblingOf(e) # 0
        /\ dentry' = [dentry EXCEPT ![Sib(e)[1]][Sib(e)[2]] = 0,
                                    ![f[1]][Sibling[f[2]]] = SiblingOf(e)]
        /\ kind' = IF dentry[f[1]][Sibling[f[2]]] = 0 THEN kind
                   ELSE [kind EXCEPT ![dentry[f[1]][Sibling[f[2]]]] = "lost"]
        /\ Then(t, [rest[t] EXCEPT !.pc = "sweep",
                                   !.put = {<<Sib(e), 0>>, <<Sib(f), SiblingOf(e)>>}])
        /\ UNCHANGED <<nlink, derived, nextIno, cache>>
  BY DEF MoveSibling
<1> DEFINE p == e[1]
           n == Sibling[e[2]]
           q == f[1]
           m == Sibling[f[2]]
           src == SiblingOf(e)
           dst == dentry[q][m]
           put == {<<<<p, n>>, 0>>, <<<<q, m>>, src>>}
<1>2. /\ p \in rest[t].dirs /\ p \in Ino /\ kind[p] = "dir" /\ n \in Name
      /\ dentry[p][n] = src /\ src \in Ino /\ e[2] \in DOMAIN Sibling
      /\ kind[src] = "file" /\ nlink[src] = 1 /\ derived[src]
  BY <1>1, SiblingFound
<1>3. /\ q \in rest[t].dirs /\ q \in Ino /\ kind[q] = "dir" /\ m \in Name
      /\ f[2] \in DOMAIN Sibling /\ IsSiblingName(m)
  BY CacheAssumption DEF FsInv, TaskInv, HeldOK, Rests, Pending, IsSiblingName
<1>4. q # p \/ m # n
  <2>1. e \in Entry /\ f \in Entry /\ e # f
    BY DEF FsInv, TaskInv, HeldOK, Rests, Pending
  <2>2. q # p \/ f[2] # e[2]
    BY <2>1 DEF Entry
  <2> QED
    BY <1>2, <1>3, <2>2, CacheAssumption
<1>5. dst # src
  <2>1. TableInv /\ dentry[p][n] # 0 /\ nlink[dentry[p][n]] = 1
    BY <1>2, Inodes DEF FsInv
  <2>2. dentry[q][m] # dentry[p][n]
    BY <1>2, <1>3, <1>4, <2>1, OnlyName
  <2> QED
    BY <1>2, <2>2
<1>6. dst # 0 => dst \in Ino /\ kind[dst] = "file" /\ nlink[dst] = 1
  BY <1>3, TableTypes DEF FsInv, TableInv, NamesOK, RowsOK
<1>7. Sib(e) = <<p, n>> /\ Sib(f) = <<q, m>>
  BY DEF Sib
<1>8. Moved(p, n, q, m, "lost")
  <2>1. dentry' = [dentry EXCEPT ![p][n] = 0, ![q][m] = dentry[p][n]]
    BY <1>1, <1>2, <1>7
  <2>2. nlink' \in [Ino -> Nat] /\ \A i \in Ino : nlink'[i] = nlink[i]
    BY <1>1 DEF FsInv, TableInv, RowsOK
  <2>3. kind' = IF dst = 0 THEN kind ELSE [kind EXCEPT ![dst] = "lost"]
    BY <1>1
  <2> QED
    BY <1>1, <1>2, <1>3, <1>5, <1>6, <2>1, <2>2, <2>3, Inodes DEF Moved
<1>9. TableInv' /\ Within({p, q, dst})
  BY <1>2, <1>3, <1>8, MovedKeeps, EffectWithin DEF FsInv
<1>10. \A r \in Ino, l \in Name :
         dentry'[r][l] = IF r = q /\ l = m THEN src
                         ELSE IF r = p /\ l = n THEN 0 ELSE dentry[r][l]
  BY <1>1, <1>2, <1>3, <1>7, TableTypes DEF FsInv
<1>11. /\ \A x \in put : x[1][1] \in rest[t].dirs /\ x[2] = dentry'[x[1][1]][x[1][2]]
       /\ PutsAll(dentry, dentry', put)
  BY <1>2, <1>3, <1>4, <1>10 DEF PutsAll
<1>12. put \in SUBSET (Entry \X (Ino \cup {0}))
  BY <1>2, <1>3 DEF Entry
<1>13. \A r \in rest[t].dirs : kind'[r] = "dir"
  BY <1>1, <1>6 DEF FsInv, TaskInv, HeldOK, TableInv, RowsOK
<1>14. Clear(t, {p, q, dst})
  <2>1. \A u \in Task : dst \notin rest[u].dirs
    BY <1>6, Inodes DEF FsInv, TaskInv, HeldOK, Rests
  <2> QED
    BY <1>2, <1>3, <2>1 DEF Clear, FsInv, TaskInv, HeldOK
<1>15. Then(t, [rest[t] EXCEPT !.pc = "sweep", !.put = put])
  BY <1>1, <1>7
<1>16. dentry'[p][n] = 0
  BY <1>2, <1>4, <1>10
<1>17. UNCHANGED cache /\ rest[t].pc = "cascade" /\ dentry'[e[1]][Sibling[e[2]]] = 0
  BY <1>1, <1>16
<1> HIDE DEF put, p, n, q, m, src, dst
<1>20. FsInv'
  BY <1>9, <1>11, <1>12, <1>13, <1>14, <1>15, <1>17, SweepStep
<1> QED
  BY <1>20, <1>2, <1>3, <1>8 DEF Effect

LEMMA PublishStep ==
  ASSUME FsInv, NEW t \in Task, Publish(t)
  PROVE  FsInv' /\ Effect
<1> DEFINE r == rest[t]
           s == IF r.pc = "publish" /\ \E e \in r.from : e[2] \in DOMAIN Sibling
                THEN [r EXCEPT !.pc = "cascade", !.put = {}] ELSE Quiet
<1>1. /\ r \in Rests /\ Pending(dentry, r) /\ rest \in [Task -> Rests]
      /\ cache \in [Ino -> [Name -> Ino \cup {0}]]
  BY DEF FsInv, TaskInv, HeldOK, CacheOK
<1>2. /\ CachePut(r.put) /\ rest' = [rest EXCEPT ![t] = s]
      /\ UNCHANGED <<kind, nlink, derived, dentry, nextIno>>
  BY DEF Publish, Then
<1>3. TableInv' /\ Within({})
  BY <1>2, SameTables DEF FsInv
<1>4. s \in Rests /\ s.dirs \subseteq r.dirs
  BY <1>1 DEF Rests, Quiet
<1>5. Pending(dentry', s)
  <2>1. Pending(dentry, s)
    <3>1. CASE s = Quiet
      BY <3>1, QuietPending
    <3>2. CASE s = [r EXCEPT !.pc = "cascade", !.put = {}]
      <4>1. /\ s.pc = "cascade" /\ s.put = {} /\ s.from = r.from /\ s.to = r.to
            /\ s.dirs = r.dirs
        BY <1>1, <3>2 DEF Rests
      <4> HIDE DEF s
      <4> QED
        BY <1>1, <4>1 DEF Pending
    <3> QED
      BY <3>1, <3>2
  <2> QED
    BY <1>2, <2>1
<1> HIDE DEF s
<1>6. rest' \in [Task -> Rests] /\ rest'[t] = s /\ \A u \in Task \ {t} : rest'[u] = rest[u]
  BY <1>1, <1>2, <1>4
<1>7. r.put \in SUBSET (Entry \X (Ino \cup {0}))
  BY <1>1 DEF Rests
<1>8. /\ cache' \in [Ino -> [Name -> Ino \cup {0}]]
      /\ \A p \in Ino, n \in Name :
           IF \E x \in r.put : x[1] = <<p, n>>
           THEN \E x \in r.put : x[1] = <<p, n>> /\ cache'[p][n] = x[2]
           ELSE cache'[p][n] \in {0, cache[p][n]}
  <2>1. CachePut(r.put) /\ cache \in [Ino -> [Name -> Ino \cup {0}]]
    BY <1>1, <1>2
  <2> HIDE DEF r
  <2> QED
    BY <1>7, <2>1, CachePutDoes
<1>9. CacheOK'
  <2> SUFFICES ASSUME NEW p \in Ino, NEW n \in Name
               PROVE  \/ cache'[p][n] \in {0, dentry'[p][n]}
                      \/ \E u \in Task : Covered(p, n, rest'[u])
    BY <1>8 DEF CacheOK
  <2>1. CASE Covered(p, n, r)
    <3>1. PICK x \in r.put : x[1] = <<p, n>> /\ cache'[p][n] = x[2]
      BY <1>8, <2>1 DEF Covered
    <3>2. x[2] = dentry[p][n]
      BY <1>1, <3>1 DEF Pending
    <3> QED
      BY <1>2, <3>1, <3>2
  <2>2. CASE ~Covered(p, n, r)
    <3>1. cache'[p][n] \in {0, cache[p][n]} /\ dentry'[p][n] = dentry[p][n]
      BY <1>2, <1>8, <2>2 DEF Covered
    <3>2. TaskInv /\ ~Covered(p, n, rest[t])
      BY <2>2 DEF FsInv
    <3> QED
      BY <1>6, <3>1, <3>2, CacheStays
  <2> QED
    BY <2>1, <2>2
<1>10. /\ Apart(t, {}) /\ TaskInv /\ Pending(dentry', rest'[t])
       /\ \A q \in rest'[t].dirs : kind'[q] = "dir"
       /\ \A u \in Task \ {t} : rest'[t].dirs \cap rest[u].dirs = {}
  BY <1>2, <1>4, <1>5, <1>6 DEF Apart, FsInv, TaskInv, HeldOK
<1>11. TaskInv'
  BY <1>3, <1>6, <1>9, <1>10, TaskStep
<1>20. FsInv'
  BY <1>3, <1>11 DEF FsInv
<1> QED
  BY <1>20, <1>2 DEF Effect
-----------------------------------------------------------------------------
(***************************************************************************)
(* The invariant.                                                          *)
(***************************************************************************)
LEMMA InitFs ==
  ASSUME Init
  PROVE  FsInv
<1>1. RowsOK
  BY CacheAssumption DEF Init, RowsOK, Ino, Root
<1>2. dentry = [i \in Ino |-> NoNames] /\ NamesOK
  BY DEF Init, NamesOK, NoNames
<1>3. \A i \in Ino : HasNames(dentry, i, 0)
  <2> SUFFICES ASSUME NEW i \in Ino PROVE HasNames(dentry, i, 0)
    OBVIOUS
  <2>1. NamesOf(dentry, i) = {}
    BY <1>2, Inodes DEF NamesOf, Entry, NoNames
  <2> QED
    BY <2>1, FS_EmptySet DEF HasNames
<1>4. CountOK
  BY <1>3 DEF CountOK, Init
<1>5. rest = [t \in Task |-> Quiet] /\ Quiet \in Rests
  BY DEF Init, Quiet, Rests
<1>6. HeldOK /\ \A t \in Task : Pending(dentry, rest[t])
  BY <1>5, QuietPending DEF HeldOK, Quiet
<1>7. CacheOK
  BY <1>2 DEF CacheOK, Init, NoNames
<1> QED
  BY <1>1, <1>2, <1>4, <1>6, <1>7 DEF FsInv, TableInv, TaskInv

LEMMA StillFs ==
  ASSUME FsInv, UNCHANGED vars
  PROVE  FsInv' /\ Effect
BY DEF vars, FsInv, TableInv, RowsOK, NamesOK, CountOK, TaskInv, HeldOK, CacheOK, Effect

LEMMA StepFs ==
  ASSUME Plain, FsInv, [Next]_vars
  PROVE  FsInv' /\ Effect
<1>1. \A t \in Caller : t \in Task
  BY DEF Task
<1>2. \A t \in Puller : t \in Task
  BY DEF Task
<1>3. ASSUME NEW t \in Caller, CallerNext(t) PROVE FsInv' /\ Effect
  <2>1. PICK p \in Ino, n \in Name :
          \/ Mkdir(t, p, n) \/ Symlink(t, p, n) \/ CreateFile(t, p, n)
          \/ \E i \in Ino : Link(t, i, p, n)
          \/ Unlink(t, p, n) \/ Rmdir(t, p, n)
          \/ \E q \in Ino, m \in Name : Rename(t, p, n, q, m)
          \/ LookupMiss(t, p, n)
    BY <1>3 DEF CallerNext
  <2> QED
    BY <1>1, <2>1, NewNameStep, CreateFileStep, LinkStep, UnlinkStep, RmdirStep,
       RenameStep, LookupStep
<1>4. ASSUME NEW t \in Puller, PullerNext(t) PROVE FsInv' /\ Effect
  BY <1>2, <1>4, GiveUpStep, EnsureDirStep, MaterializeStep, ApplyRenameStep,
     ApplyDeletionStep DEF PullerNext
<1>5. ASSUME NEW t \in Caller, NoSibling(t) \/ RemoveSibling(t) \/ MoveSibling(t) PROVE FsInv' /\ Effect
  BY <1>1, <1>5, NoSiblingStep, RemoveSiblingStep, MoveSiblingStep
<1>6. ASSUME NEW t \in Task, Publish(t) PROVE FsInv' /\ Effect
  BY <1>6, PublishStep
<1> QED
  BY <1>3, <1>4, <1>5, <1>6, StillFs DEF Next

LEMMA FsInvariant ==
  ASSUME Plain
  PROVE  Spec => []FsInv
<1>1. Init => FsInv
  BY InitFs
<1>2. FsInv /\ [Next]_vars => FsInv'
  BY StepFs
<1> QED
  BY <1>1, <1>2, PTL DEF Spec

(* While no pull meets a file where it expects a directory (ensure_dirs    *)
(* does not ask) or a file with a second name, no order of calls and pulls *)
(* makes a name that leads nowhere, a second name of a directory, or a     *)
(* link count that is not the number of names: fs_dentry and fs_inode stay *)
(* a tree that an unlink takes down to the last name and no further.       *)
THEOREM TreeIsSound ==
  ASSUME Plain
  PROVE  Spec => []TreeSound
<1>1. FsInv => TreeSound
  <2> SUFFICES ASSUME FsInv PROVE TreeSound
    OBVIOUS
  <2>1. CacheTypeOK
    BY DEF FsInv, TableInv, RowsOK, NamesOK, TaskInv, HeldOK, Rests, CacheOK, CacheTypeOK
  <2>2. Names
    <3>1. \A p \in Ino, n \in Name : dentry[p][n] # 0 =>
            kind[p] = "dir" /\ kind[dentry[p][n]] \in {"dir", "file"} /\ dentry[p][n] # Root
      BY DEF FsInv, TableInv, NamesOK
    <3>2. \A d \in Ino \ {Root} : kind[d] = "dir" =>
            Cardinality({e \in Entry : dentry[e[1]][e[2]] = d}) = 1
      BY DEF FsInv, TableInv, CountOK, HasNames, NamesOf
    <3> QED
      BY <3>1, <3>2 DEF Names
  <2>3. FileLinks
    BY DEF FsInv, TableInv, CountOK, HasNames, NamesOf, FileLinks
  <2> QED
    BY <2>1, <2>2, <2>3 DEF TreeSound
<1> QED
  BY <1>1, FsInvariant, PTL

LEMMA UpToDate ==
  ASSUME FsInv, NEW p \in Ino, Idle(p), NEW n \in Name
  PROVE  cache[p][n] \in {0, dentry[p][n]}
<1>1. \A t \in Task : ~Covered(p, n, rest[t])
  BY DEF FsInv, TaskInv, Pending, Covered, Idle
<1> QED
  BY <1>1 DEF FsInv, TaskInv, CacheOK

(* Every look-up through the dentry cache and every call is answered from  *)
(* tables that the other calls and the pullers may change meanwhile as the *)
(* in-memory filesystem would answer it.                                   *)
THEOREM AnswersAreTheSame ==
  ASSUME Plain
  PROVE  Spec => []SameAnswers
<1>1. ASSUME FsInv PROVE LookupAgrees
  <2> SUFFICES ASSUME NEW p \in Ino, NEW n \in Name, Idle(p)
               PROVE  /\ Lookup(p, n) = Mem!Lookup(p, n)
                      /\ n \in Listing(p) <=> Lookup(p, n) # 0
    BY DEF LookupAgrees
  <2>1. cache[p][n] \in {0, dentry[p][n]}
    BY <1>1, UpToDate
  <2>2. /\ dentry[p][n] # 0 => /\ dentry[p][n] \in Ino /\ kind[p] = "dir"
                               /\ kind[dentry[p][n]] \in {"dir", "file"}
    BY <1>1, TableTypes DEF FsInv, TableInv, NamesOK
  <2>3. Lookup(p, n) = dentry[p][n]
    BY <2>1, <2>2 DEF Lookup, DirAnswer
  <2>4. n \in Listing(p) <=> dentry[p][n] # 0
    BY <2>2 DEF Listing, DirAnswer
  <2>5. Mem!Lookup(p, n) = dentry[p][n]
    BY <2>2 DEF Mem!Lookup, Mem!DirAnswer, Mem!Ino, Ino
  <2> QED
    BY <2>3, <2>4, <2>5
<1>2. ASSUME FsInv PROVE CallsAgree
  <2> SUFFICES ASSUME NEW p \in Ino, NEW n \in Name, kind[p] = "dir"
               PROVE  /\ NewNameAnswer(p, n) = Mem!NewNameAnswer(p, n)
                      /\ UnlinkAnswer(p, n) = Mem!UnlinkAnswer(p, n)
                      /\ RmdirAnswer(p, n) = Mem!RmdirAnswer(p, n)
                      /\ dentry[p][n] # 0 => \A q \in Ino, m \in Name : kind[q] = "dir" =>
                           RenameAnswer(p, n, q, m) = Mem!RenameAnswer(p, n, q, m)
    BY DEF CallsAgree
  <2>1. \A q \in Ino, m \in Name : dentry[q][m] # 0 =>
          dentry[q][m] \in Ino /\ kind[dentry[q][m]] \in {"dir", "file"}
    BY <1>2, TableTypes DEF FsInv, TableInv, NamesOK
  <2>2. NewNameAnswer(p, n) = Mem!NewNameAnswer(p, n)
    BY DEF NewNameAnswer, First, DirAnswer, Mem!NewNameAnswer, Mem!First, Mem!DirAnswer
  <2>3. UnlinkAnswer(p, n) = Mem!UnlinkAnswer(p, n)
    BY <2>1 DEF UnlinkAnswer, First, DirAnswer, Mem!UnlinkAnswer, Mem!NameAnswer,
                Mem!Found, Mem!First, Mem!DirAnswer
  <2>4. RmdirAnswer(p, n) = Mem!RmdirAnswer(p, n)
    BY <2>1 DEF RmdirAnswer, First, DirAnswer, NoNames, Mem!RmdirAnswer, Mem!NameAnswer,
                Mem!Found, Mem!First, Mem!DirAnswer, Mem!NoNames
  <2>5. ASSUME NEW q \in Ino, NEW m \in Name, kind[q] = "dir", dentry[p][n] # 0
        PROVE  RenameAnswer(p, n, q, m) = Mem!RenameAnswer(p, n, q, m)
    <3>1. ASSUME dentry[q][m] # 0
          PROVE  ReplaceAnswer(dentry[p][n], dentry[q][m])
                   = Mem!ReplaceAnswer(dentry[p][n], dentry[q][m])
      BY <2>1, <2>5, <3>1 DEF ReplaceAnswer, NoNames, Mem!ReplaceAnswer, Mem!NoNames
    <3>2. RenameAnswer(p, n, q, m) =
            IF dentry[q][m] \in {0, dentry[p][n]} THEN "Ok"
            ELSE ReplaceAnswer(dentry[p][n], dentry[q][m])
      BY <2>1, <2>5 DEF RenameAnswer, First, DirAnswer
    <3>3. Mem!RenameAnswer(p, n, q, m) =
            IF dentry[q][m] \in {0, dentry[p][n]} THEN "Ok"
            ELSE Mem!ReplaceAnswer(dentry[p][n], dentry[q][m])
      BY <2>1, <2>5 DEF Mem!RenameAnswer, Mem!NameAnswer, Mem!Found, Mem!First, Mem!DirAnswer
    <3> QED
      BY <3>1, <3>2, <3>3
  <2> QED
    BY <2>2, <2>3, <2>4, <2>5
<1>3. FsInv => SameAnswers
  BY <1>1, <1>2 DEF SameAnswers
<1> QED
  BY <1>3, FsInvariant, PTL

(* A call begins when its caller has nothing left to do, and a step is one *)
(* task's.                                                                 *)
LEMMA CallShape ==
  ASSUME NEW t, CallerNext(t)
  PROVE  rest[t] = Quiet /\ (UNCHANGED rest \/ \E r : Then(t, r))
<1>1. PICK p \in Ino, n \in Name :
        \/ Mkdir(t, p, n) \/ Symlink(t, p, n) \/ CreateFile(t, p, n)
        \/ \E i \in Ino : Link(t, i, p, n)
        \/ Unlink(t, p, n) \/ Rmdir(t, p, n)
        \/ \E q \in Ino, m \in Name : Rename(t, p, n, q, m)
        \/ LookupMiss(t, p, n)
  BY DEF CallerNext
<1>2. CASE Mkdir(t, p, n) \/ Symlink(t, p, n) \/ (\E i \in Ino : Link(t, i, p, n))
           \/ Rmdir(t, p, n) \/ LookupMiss(t, p, n)
  BY <1>2 DEF Mkdir, Symlink, Link, Rmdir, LookupMiss, Call
<1>3. CASE CreateFile(t, p, n)
  BY <1>3 DEF CreateFile, Leaves, Call
<1>4. CASE Unlink(t, p, n)
  BY <1>4 DEF Unlink, Leaves, Call
<1>5. ASSUME NEW q \in Ino, NEW m \in Name, Rename(t, p, n, q, m)
      PROVE  rest[t] = Quiet /\ \E r : Then(t, r)
  BY <1>5 DEF Rename, Leaves, Call
<1> QED
  BY <1>1, <1>2, <1>3, <1>4, <1>5

LEMMA PullShape ==
  ASSUME NEW t, PullerNext(t)
  PROVE  \E r : Then(t, r)
<1>1. CASE GiveUp(t)
  BY <1>1 DEF GiveUp
<1>2. ASSUME NEW p \in Ino, NEW n \in Name, EnsureDir(t, p, n) PROVE \E r : Then(t, r)
  BY <1>2 DEF EnsureDir
<1>3. ASSUME NEW p \in Ino, NEW n \in Name, NEW d \in BOOLEAN, Materialize(t, p, n, d)
      PROVE  \E r : Then(t, r)
  BY <1>3 DEF Materialize, Leaves
<1>4. ASSUME NEW p \in Ino, NEW n \in Name, NEW q \in Ino, NEW m \in Name,
             ApplyRename(t, p, n, q, m)
      PROVE  \E r : Then(t, r)
  BY <1>4 DEF ApplyRename, Leaves
<1>5. ASSUME NEW p \in Ino, NEW n \in Name, ApplyDeletion(t, p, n) PROVE \E r : Then(t, r)
  BY <1>5 DEF ApplyDeletion, Leaves
<1> QED
  BY <1>1, <1>2, <1>3, <1>4, <1>5 DEF PullerNext

(* A read-only file derived from a file is not left at the old name when   *)
(* an unlink or a rename of the file has returned.                         *)
THEOREM SiblingFollows ==
  ASSUME Plain
  PROVE  Spec => SiblingsFollow
<1>1. ASSUME FsInv, [Next]_vars, NEW t \in Caller, rest[t].pc # "idle", rest'[t].pc = "idle",
             NEW e \in rest[t].from
      PROVE  SiblingOf(e)' = 0
  <2>1. t \in Task /\ t \notin Puller
    BY CacheAssumption DEF Task
  <2>2. rest[t] # Quiet /\ rest'[t] # rest[t]
    BY <1>1 DEF Quiet
  <2>3. CASE NoSibling(t)
    BY <2>3 DEF NoSibling, SiblingOf
  <2>4. CASE Publish(t)
    <3>1. rest' = [rest EXCEPT ![t] =
            IF rest[t].pc = "publish" /\ \E f \in rest[t].from : f[2] \in DOMAIN Sibling
            THEN [rest[t] EXCEPT !.pc = "cascade", !.put = {}] ELSE Quiet]
          /\ UNCHANGED <<kind, derived, dentry>> /\ rest[t].pc \in {"publish", "sweep"}
      BY <2>4 DEF Publish, Then
    <3>2. rest \in [Task -> Rests] /\ Pending(dentry, rest[t])
      BY <1>1, <2>1 DEF FsInv, TaskInv, HeldOK
    <3>3. \/ e[2] \notin DOMAIN Sibling
          \/ rest[t].pc = "sweep"
      <4>1. ~(rest[t].pc = "publish" /\ \E f \in rest[t].from : f[2] \in DOMAIN Sibling)
        BY <1>1, <2>1, <3>1, <3>2 DEF Rests
      <4> QED
        BY <1>1, <3>1, <4>1
    <3>4. e[2] \notin DOMAIN Sibling \/ dentry'[e[1]][Sibling[e[2]]] = 0
      BY <1>1, <3>1, <3>2, <3>3 DEF Pending
    <3> QED
      BY <3>4 DEF SiblingOf
  <2>5. CASE RemoveSibling(t) \/ MoveSibling(t)
    <3>1. PICK put : rest' = [rest EXCEPT ![t] = [rest[t] EXCEPT !.pc = "sweep", !.put = put]]
      BY <2>5 DEF RemoveSibling, MoveSibling, Then
    <3>2. rest \in [Task -> Rests]
      BY <1>1 DEF FsInv, TaskInv, HeldOK
    <3>3. rest'[t].pc = "sweep"
      BY <2>1, <3>1, <3>2 DEF Rests
    <3> QED
      BY <1>1, <3>3
  <2>6. \/ NoSibling(t) \/ Publish(t) \/ RemoveSibling(t) \/ MoveSibling(t)
    <3>1. ~CallerNext(t)
      BY <2>2, CallShape
    <3>2. rest \in [Task -> Rests]
      BY <1>1 DEF FsInv, TaskInv, HeldOK
    <3>3. \A u \in Task \ {t} : \A r : Then(u, r) => rest'[t] = rest[t]
      BY <3>2, <2>1 DEF Then
    <3>4. \A u \in Puller : ~PullerNext(u)
      <4> SUFFICES ASSUME NEW u \in Puller, PullerNext(u) PROVE FALSE
        OBVIOUS
      <4>1. u \in Task \ {t}
        BY <2>1 DEF Task
      <4>2. \E r : Then(u, r)
        BY PullShape
      <4> QED
        BY <2>2, <3>3, <4>1, <4>2
    <3>5. \A u \in Task \ {t} : ~Publish(u) /\ ~NoSibling(u) /\ ~RemoveSibling(u)
                                /\ ~MoveSibling(u)
      BY <2>2, <3>3 DEF Publish, NoSibling, RemoveSibling, MoveSibling
    <3>6. \A u \in Caller \ {t} : ~CallerNext(u)
      <4> SUFFICES ASSUME NEW u \in Caller \ {t}, CallerNext(u) PROVE FALSE
        OBVIOUS
      <4>1. u \in Task \ {t}
        BY DEF Task
      <4>2. UNCHANGED rest \/ \E r : Then(u, r)
        BY CallShape
      <4> QED
        BY <2>2, <3>3, <4>1, <4>2
    <3>7. Next
      BY <1>1, <2>2 DEF vars
    <3> QED
      BY <2>1, <3>1, <3>4, <3>5, <3>6, <3>7 DEF Next, Task
  <2> QED
    BY <2>3, <2>4, <2>5, <2>6
<1>2. FsInv /\ [Next]_vars =>
        \/ \A t \in Caller : rest[t].pc # "idle" /\ rest'[t].pc = "idle" =>
             \A e \in rest[t].from : SiblingOf(e)' = 0
        \/ UNCHANGED vars
  BY <1>1
<1> QED
  BY <1>2, FsInvariant, PTL DEF Spec, SiblingsFollow
-----------------------------------------------------------------------------
(***************************************************************************)
(* The in-memory filesystem.                                               *)
(***************************************************************************)
Shown == [i \in Ino |-> IF kind[i] = "lost" THEN "none" ELSE kind[i]]
Counted == [i \in Ino |-> IF kind[i] = "lost" THEN 0 ELSE nlink[i]]

LEMMA MemNames ==
  /\ Mem!Ino = Ino /\ Mem!Root = Root /\ Mem!NoNames = NoNames
  /\ Mem!mvars = <<Shown, Counted, dentry, nextIno>>
  /\ Mem!Dirs = {d \in Ino : kind[d] = "dir"}
<1>1. Mem!Ino = Ino /\ Mem!Root = Root /\ Mem!NoNames = NoNames
  BY DEF Mem!Ino, Ino, Mem!Root, Root, Mem!NoNames, NoNames
<1>2. Mem!mvars = <<Shown, Counted, dentry, nextIno>>
  BY DEF Mem!mvars, Shown, Counted
<1>3. Mem!Dirs = {d \in Ino : kind[d] = "dir"}
  BY <1>1 DEF Mem!Dirs
<1> QED
  BY <1>1, <1>2, <1>3

LEMMA AddedIsCall ==
  ASSUME FsInv, FsInv', NEW p \in Ino, NEW n \in Name, NEW k \in {"dir", "file"},
         NEW d \in BOOLEAN, Added(k, d, p, n)
  PROVE  Mem!Next
<1>1. /\ nextIno \in Ino /\ kind[nextIno] = "none" /\ nextIno # p
      /\ nextIno <= MaxIno /\ nextIno' = nextIno + 1
      /\ kind[p] = "dir" /\ dentry[p][n] = 0
      /\ dentry' = [dentry EXCEPT ![p][n] = nextIno]
  BY AddedShape DEF Added, FsInv
<1>2. /\ kind \in [Ino -> {"none", "lost", "dir", "file"}] /\ nlink \in [Ino -> Nat]
      /\ kind' = [kind EXCEPT ![nextIno] = k]
  BY DEF FsInv, TableInv, RowsOK, Added
<1>3. Shown' = [Shown EXCEPT ![nextIno] = k]
  BY <1>1, <1>2 DEF Shown
<1>4. CASE k = "dir"
  <2>1. nlink' = [nlink EXCEPT ![nextIno] = 2, ![p] = @ + 1]
    BY <1>4 DEF Added
  <2>2. Counted' = [Counted EXCEPT ![nextIno] = 2, ![p] = @ + 1]
    BY <1>1, <1>2, <1>4, <2>1 DEF Counted
  <2>3. Mem!Mkdir(p, n)
    BY <1>1, <1>3, <1>4, <2>2 DEF Mem!Mkdir, Mem!NewNameAnswer, Mem!First, Mem!DirAnswer,
       Mem!Alloc, Shown, Counted
  <2> QED
    BY <1>1, <2>3, MemNames DEF Mem!Next
<1>5. CASE k = "file"
  <2>1. nlink' = [nlink EXCEPT ![nextIno] = 1]
    BY <1>5 DEF Added
  <2>2. Counted' = [Counted EXCEPT ![nextIno] = 1]
    BY <1>1, <1>2, <1>5, <2>1 DEF Counted
  <2>3. Mem!Create(p, n)
    BY <1>1, <1>3, <1>5, <2>2 DEF Mem!Create, Mem!NewNameAnswer, Mem!First, Mem!DirAnswer,
       Mem!Alloc, Shown, Counted
  <2> QED
    BY <1>1, <2>3, MemNames DEF Mem!Next
<1> QED
  BY <1>4, <1>5

LEMMA LinkedIsCall ==
  ASSUME FsInv, NEW p \in Ino, NEW n \in Name, NEW i \in Ino, Linked(i, p, n)
  PROVE  Mem!Next
<1>1. /\ kind[p] = "dir" /\ dentry[p][n] = 0 /\ kind[i] = "file"
      /\ nlink' = [nlink EXCEPT ![i] = @ + 1]
      /\ dentry' = [dentry EXCEPT ![p][n] = i]
      /\ UNCHANGED <<kind, nextIno>>
  BY DEF Linked
<1>2. kind \in [Ino -> {"none", "lost", "dir", "file"}] /\ nlink \in [Ino -> Nat]
  BY DEF FsInv, TableInv, RowsOK
<1>3. Shown' = Shown /\ Counted' = [Counted EXCEPT ![i] = @ + 1]
  BY <1>1, <1>2 DEF Shown, Counted
<1>4. Mem!Link(i, p, n)
  BY <1>1, <1>3 DEF Mem!Link, Mem!LinkAnswer, Mem!NewNameAnswer, Mem!First, Mem!DirAnswer,
     Shown, Counted
<1> QED
  BY <1>1, <1>4, MemNames DEF Mem!Next

LEMMA UnlinkedIsCall ==
  ASSUME FsInv, NEW p \in Ino, NEW n \in Name, Unlinked(p, n)
  PROVE  Mem!Next
<1> DEFINE c == dentry[p][n]
<1>1. /\ kind[p] = "dir" /\ c # 0 /\ c \in Ino /\ kind[c] = "file"
      /\ dentry' = [dentry EXCEPT ![p][n] = 0]
      /\ nlink' = [nlink EXCEPT ![c] = @ - 1]
      /\ kind' = IF nlink[c] > 1 THEN kind ELSE [kind EXCEPT ![c] = "none"]
      /\ UNCHANGED nextIno
  BY TableTypes DEF Unlinked, FsInv, TableInv, NamesOK
<1>2. kind \in [Ino -> {"none", "lost", "dir", "file"}] /\ nlink \in [Ino -> Nat]
  BY DEF FsInv, TableInv, RowsOK
<1>3. /\ Shown' = IF nlink[c] > 1 THEN Shown ELSE [Shown EXCEPT ![c] = "none"]
      /\ Counted' = [Counted EXCEPT ![c] = @ - 1]
  BY <1>1, <1>2 DEF Shown, Counted
<1>4. Counted[c] = nlink[c] /\ Shown[c] = "file" /\ Shown[p] = "dir"
  BY <1>1, <1>2 DEF Shown, Counted
<1>5. Mem!UnlinkAnswer(p, n) = "Ok"
  BY <1>1 DEF Mem!UnlinkAnswer, Mem!NameAnswer, Mem!Found, Mem!First, Mem!DirAnswer
<1>6. Mem!Unlink(p, n)
  BY <1>1, <1>3, <1>4, <1>5 DEF Mem!Unlink, Shown, Counted
<1> QED
  BY <1>1, <1>6, MemNames DEF Mem!Next

LEMMA RemovedDirIsCall ==
  ASSUME FsInv, NEW p \in Ino, NEW n \in Name, RemovedDir(p, n)
  PROVE  Mem!Next
<1> DEFINE c == dentry[p][n]
<1>1. /\ kind[p] = "dir" /\ c # 0 /\ c \in Ino /\ c # p /\ kind[c] = "dir"
      /\ dentry[c] = NoNames /\ dentry' = [dentry EXCEPT ![p][n] = 0]
      /\ kind' = [kind EXCEPT ![c] = "none"]
      /\ nlink' = [nlink EXCEPT ![c] = 0, ![p] = IF @ > 3 THEN @ - 1 ELSE 2]
      /\ UNCHANGED nextIno
  BY TableTypes DEF RemovedDir, FsInv, TableInv, NamesOK, NoNames
<1>2. /\ kind \in [Ino -> {"none", "lost", "dir", "file"}] /\ nlink \in [Ino -> Nat]
      /\ nlink[p] >= 2
  BY <1>1 DEF FsInv, TableInv, RowsOK
<1>3. Shown' = [Shown EXCEPT ![c] = "none"]
  BY <1>1, <1>2 DEF Shown
<1>4. Counted' = [Counted EXCEPT ![c] = 0, ![p] = IF @ > 2 THEN @ - 1 ELSE @]
  <2> DEFINE less == IF nlink[p] > 2 THEN nlink[p] - 1 ELSE nlink[p]
  <2>1. /\ Counted[p] = nlink[p]
        /\ nlink'[p] = less
        /\ nlink'[c] = 0
        /\ \A i \in Ino \ {c, p} : nlink'[i] = nlink[i] /\ kind'[i] = kind[i]
        /\ kind'[c] = "none" /\ kind'[p] = "dir"
    BY <1>1, <1>2 DEF Counted
  <2> HIDE DEF less
  <2>2. Counted' = [Counted EXCEPT ![c] = 0, ![p] = less]
    BY <1>1, <1>2, <2>1 DEF Counted
  <2>3. less = IF Counted[p] > 2 THEN Counted[p] - 1 ELSE Counted[p]
    BY <2>1 DEF less
  <2> QED
    BY <1>1, <2>2, <2>3 DEF Counted
<1>5. Mem!RmdirAnswer(p, n) = "Ok"
  BY <1>1, MemNames DEF Mem!RmdirAnswer, Mem!NameAnswer, Mem!Found, Mem!First, Mem!DirAnswer
<1>6. Mem!Rmdir(p, n)
  BY <1>1, <1>3, <1>4, <1>5 DEF Mem!Rmdir, Shown, Counted
<1> QED
  BY <1>1, <1>6, MemNames DEF Mem!Next

LEMMA MovedIsCall ==
  ASSUME FsInv, NEW p \in Ino, NEW n \in Name, NEW q \in Ino, NEW m \in Name,
         NEW g \in {"none", "lost"}, Moved(p, n, q, m, g)
  PROVE  Mem!Next
<1> DEFINE src == dentry[p][n]
           dst == dentry[q][m]
<1>1. /\ kind[p] = "dir" /\ src # 0 /\ src \in Ino /\ dst # src /\ kind[q] = "dir"
      /\ kind[src] \in {"dir", "file"}
      /\ dst # 0 => dst \in Ino /\ kind[dst] \in {"dir", "file"}
      /\ dst # 0 => /\ kind[dst] = "dir" => kind[src] = "dir" /\ dentry[dst] = NoNames
                    /\ kind[dst] = "file" => kind[src] = "file"
      /\ dentry' = [dentry EXCEPT ![p][n] = 0, ![q][m] = src]
      /\ kind' = IF dst = 0 THEN kind ELSE [kind EXCEPT ![dst] = g]
      /\ nlink' \in [Ino -> Nat] /\ \A i \in Ino \ {dst} : nlink'[i] = nlink[i]
      /\ dst # 0 /\ g = "none" => nlink'[dst] = 0
      /\ UNCHANGED nextIno
  BY TableTypes DEF Moved, FsInv, TableInv, NamesOK
<1>2. kind \in [Ino -> {"none", "lost", "dir", "file"}] /\ nlink \in [Ino -> Nat]
  BY DEF FsInv, TableInv, RowsOK
<1>3. Shown' = IF dst = 0 THEN Shown ELSE [Shown EXCEPT ![dst] = "none"]
  BY <1>1, <1>2 DEF Shown
<1>4. Counted' = IF dst = 0 THEN Counted ELSE [Counted EXCEPT ![dst] = 0]
  BY <1>1, <1>2, Inodes DEF Counted
<1>5. Mem!RenameAnswer(p, n, q, m) = "Ok"
  <2>1. Mem!NameAnswer(p, n) = "Ok" /\ Mem!DirAnswer(q) = "Ok"
    BY <1>1 DEF Mem!NameAnswer, Mem!Found, Mem!First, Mem!DirAnswer
  <2>2. dst # 0 => Mem!ReplaceAnswer(src, dst) = "Ok"
    BY <1>1, MemNames DEF Mem!ReplaceAnswer
  <2> QED
    BY <2>1, <2>2 DEF Mem!RenameAnswer, Mem!First
<1>6. Mem!Rename(p, n, q, m)
  BY <1>1, <1>3, <1>4, <1>5 DEF Mem!Rename, Shown, Counted
<1> QED
  BY <1>1, <1>6, MemNames DEF Mem!Next

(* While no pull meets a file where it expects a directory or a file with  *)
(* a second name, and however far the dentry cache is behind, what there   *)
(* is to see is what the in-memory filesystem would show after the same    *)
(* calls one by one ("behavioural parity", vfs/mem.rs).                    *)
THEOREM CacheIsMem ==
  ASSUME Plain
  PROVE  Spec => BehavesLikeMem
<1>1. Init => Mem!Init
  <2> SUFFICES ASSUME Init PROVE Mem!Init
    OBVIOUS
  <2>1. /\ kind = [i \in Ino |-> IF i = Root THEN "dir" ELSE "none"]
        /\ nlink = [i \in Ino |-> IF i = Root THEN 2 ELSE 0]
        /\ dentry = [i \in Ino |-> NoNames] /\ nextIno = 2
    BY DEF Init
  <2>2. Shown = kind /\ Counted = nlink
    BY <2>1 DEF Shown, Counted
  <2> QED
    BY <2>1, <2>2, MemNames DEF Mem!Init, Shown, Counted
<1>2. FsInv /\ FsInv' /\ Effect => UNCHANGED Mem!mvars \/ Mem!Next
  <2> SUFFICES ASSUME FsInv, FsInv', Effect PROVE UNCHANGED Mem!mvars \/ Mem!Next
    OBVIOUS
  <2>1. CASE UNCHANGED <<kind, nlink, derived, dentry, nextIno>>
    BY <2>1 DEF Mem!mvars
  <2> QED
    BY <2>1, AddedIsCall, LinkedIsCall, UnlinkedIsCall, RemovedDirIsCall, MovedIsCall
       DEF Effect
<1>3. FsInv /\ [Next]_vars => FsInv' /\ Effect
  BY StepFs
<1>4. FsInv /\ [Next]_vars => [UNCHANGED Mem!mvars \/ Mem!Next]_(Mem!mvars)
  BY <1>2, <1>3
<1> QED
  BY <1>1, <1>4, FsInvariant, PTL DEF Spec, BehavesLikeMem
=============================================================================
