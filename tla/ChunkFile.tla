----------------------------- MODULE ChunkFile -----------------------------
(***************************************************************************)
(* The content of a file in the SQLite cache (cache/file.rs): rows of      *)
(* fs_data, each a chunk of at most ChunkSize bytes, and fs_inode.size.    *)
(* Every operation is one transaction under the database's lock.           *)
(***************************************************************************)
EXTENDS Naturals, Sequences, FiniteSetsExt

CONSTANTS
  Byte,       \* bytes that are written; 0 is the byte of a gap
  ChunkSize,  \* CHUNK_SIZE
  MaxSize,    \* MAX_FILE_SIZE
  MaxData     \* bound: bytes of one write

ASSUME ChunkAssumption ==
  /\ Byte \subseteq Nat
  /\ ChunkSize \in Nat \ {0}
  /\ MaxSize \in Nat \ {0}
  /\ MaxData \in Nat

VARIABLES
  size,   \* fs_inode.size
  chunk   \* fs_data: chunk index -> bytes; <<>> if there is no row

cvars == <<size, chunk>>

Index == 0..(MaxSize - 1) \div ChunkSize

(* What a program sees that knows nothing of chunks: byte k is in chunk    *)
(* (k - 1) \div ChunkSize.                                                 *)
Stored ==
  [k \in 1..size |->
     LET c == chunk[(k - 1) \div ChunkSize]
         j == ((k - 1) % ChunkSize) + 1
     IN IF j <= Len(c) THEN c[j] ELSE 0]

Flat == INSTANCE FlatFile WITH data <- Stored

ChunkTypeOK ==
  /\ size \in 0..MaxSize
  /\ \A i \in Index : Len(chunk[i]) <= ChunkSize
                      /\ \A k \in 1..Len(chunk[i]) : chunk[i][k] \in Byte \cup {0}

Init ==
  /\ size = 0
  /\ chunk = [i \in Index |-> <<>>]
-----------------------------------------------------------------------------
(* The bytes of chunk i that a write of d at off sets are (lo, hi]: a      *)
(* whole chunk replaces the row, a part of one is laid over it.            *)
Written(i, off, d) ==
  LET lo == IF off > i * ChunkSize THEN off - i * ChunkSize ELSE 0
      hi == Flat!Smaller(off + Len(d) - i * ChunkSize, ChunkSize)
      part == SubSeq(d, i * ChunkSize + lo - off + 1, i * ChunkSize + hi - off)
  IN Flat!Overlaid(chunk[i], lo, part)

Touched(off, d) ==
  {i \in Index : i >= off \div ChunkSize /\ i <= (off + Len(d) - 1) \div ChunkSize}

Write(off, d) ==
  /\ off + Len(d) <= MaxSize
  /\ size' = Flat!Larger(size, off + Len(d))
  /\ chunk' = [i \in Index |->
                 IF i \in Touched(off, d) THEN Written(i, off, d) ELSE chunk[i]]

(* Slip: the last chunk keeps the bytes behind the new end. *)
TruncateUntrimmed(n) ==
  /\ size' = n
  /\ chunk' = [i \in Index |->
                 IF n = 0 \/ i > (n - 1) \div ChunkSize THEN <<>> ELSE chunk[i]]

Truncate(n) ==
  /\ size' = n
  /\ chunk' = [i \in Index |->
                 IF n = 0 \/ i > (n - 1) \div ChunkSize THEN <<>>
                 ELSE IF i = (n - 1) \div ChunkSize /\ n % ChunkSize > 0
                 THEN SubSeq(chunk[i], 1, Flat!Smaller(n % ChunkSize, Len(chunk[i])))
                 ELSE chunk[i]]

(* rewrite_file_content, rehydrate_raw_bytes: what was pulled replaces all *)
(* rows.                                                                   *)
Rewrite(d) ==
  /\ Len(d) <= MaxSize
  /\ size' = Len(d)
  /\ chunk' = [i \in Index |->
                 SubSeq(d, i * ChunkSize + 1,
                        Flat!Smaller((i + 1) * ChunkSize, Len(d)))]

Next ==
  \/ \E off \in 0..MaxSize, d \in Flat!Data : Write(off, d)
  \/ \E n \in 0..MaxSize : Truncate(n)
  \/ \E d \in Flat!Data : Rewrite(d)

Spec == Init /\ [][Next]_cvars
-----------------------------------------------------------------------------
(* Reading walks the rows that exist, the lowest index first, and pads the *)
(* chunks that have none.  (A fold that takes the highest index off a set  *)
(* of rows applies its step to the lowest one first.)                      *)

Zeros(n) == [k \in 1..n |-> 0]

Rows(from, to) == {i \in Index : from <= i /\ i <= to /\ chunk[i] # <<>>}

(* Slip: a chunk without a row is skipped. *)
ReadStepNoPad(acc, i, off, want) ==
  LET start == off \div ChunkSize
      skip == IF i = start THEN off % ChunkSize ELSE 0
      take == SubSeq(chunk[i], skip + 1, Len(chunk[i]))
  IN [out |-> SubSeq(acc.out \o take, 1, Flat!Smaller(want, Len(acc.out \o take))),
      next |-> i + 1]

ReadStep(acc, i, off, want) ==
  LET start == off \div ChunkSize
      gap == (i - acc.next) * ChunkSize
             - (IF acc.next = start /\ acc.next < i THEN off % ChunkSize ELSE 0)
      skip == IF i = start THEN off % ChunkSize ELSE 0
      all == acc.out \o Zeros(gap) \o SubSeq(chunk[i], skip + 1, Len(chunk[i]))
  IN [out |-> SubSeq(all, 1, Flat!Smaller(want, Len(all))), next |-> i + 1]

Read(off, n) ==
  LET want == Flat!Smaller(n, size - off)
      start == off \div ChunkSize
      last == IF off + want = 0 THEN 0 ELSE (off + want - 1) \div ChunkSize
      walked == MapThenFoldSet(LAMBDA i, acc : ReadStep(acc, i, off, want),
                               [out |-> <<>>, next |-> start],
                               LAMBDA i : i, LAMBDA R : Max(R), Rows(start, last))
  IN IF off >= size THEN <<>> ELSE Flat!Resized(walked.out, want)

(* The slice of the first row begins behind that row's end.                *)
ReadPanics(off, n) ==
  LET c == chunk[off \div ChunkSize]
  IN off < size /\ n > 0 /\ c # <<>> /\ off % ChunkSize > Len(c)

(* Slip: the rows come in another order. *)
AllContentUnordered ==
  LET all == MapThenFoldSet(LAMBDA i, acc : acc \o chunk[i], <<>>, LAMBDA i : i,
                            LAMBDA R : Min(R), Rows(0, MaxSize))
  IN SubSeq(all, 1, Flat!Smaller(size, Len(all)))

(* read_all_content: the rows one behind the other, cut at the size.       *)
AllContent ==
  LET all == MapThenFoldSet(LAMBDA i, acc : acc \o chunk[i], <<>>, LAMBDA i : i,
                            LAMBDA R : Max(R), Rows(0, MaxSize))
  IN SubSeq(all, 1, Flat!Smaller(size, Len(all)))
-----------------------------------------------------------------------------
(* The rows and the size together are the flat array: writes, truncations  *)
(* and rewrites change it as MemFile's change its array, also where a      *)
(* write spans chunks, a file shrinks and grows again, or has gaps.        *)
StoresFlat == Flat!Spec

(* The row of chunk i reaches the end of the chunk or of the file.         *)
Whole(i) == Len(chunk[i]) = Flat!Smaller(ChunkSize, size - i * ChunkSize)

InFile == {i \in Index : i * ChunkSize < size}

(* A read at any offset and of any length returns the bytes of the flat    *)
(* array, with zeros where nothing was written (vfs/mem.rs: "Gap should be *)
(* zero-filled").                                                          *)
ReadsAgree ==
  \A off \in 0..MaxSize - 1, n \in 1..MaxSize :
    ~ReadPanics(off, n) /\ Read(off, n) = Flat!Read(off, n)

(* It does so for files that were written from one end to the other and    *)
(* for those whose gaps are whole chunks: a missing row reads as zeros at  *)
(* the start, in the middle and at the end of what is read.                *)
WholeRowsReadBack ==
  (\A i \in InFile : Whole(i) \/ chunk[i] = <<>>) => ReadsAgree

(* The push worker sends what the file holds, byte for byte, if no chunk   *)
(* of it is missing or short, and no row is ever longer than a chunk:      *)
(* read_all_content and the reads agree.                                   *)
PushesWhatIsStored ==
  ChunkTypeOK /\ ((\A i \in InFile : Whole(i)) => AllContent = Stored)
=============================================================================
