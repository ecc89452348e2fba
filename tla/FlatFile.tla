------------------------------ MODULE FlatFile ------------------------------
(***************************************************************************)
(* The content of a file as the in-memory filesystem keeps it (MemFile in  *)
(* vfs/mem.rs): one array of bytes.  ChunkFile is shown to implement it.   *)
(***************************************************************************)
EXTENDS Naturals, Sequences

CONSTANTS
  Byte,     \* bytes that are written; 0 is the byte of a gap
  MaxSize,  \* MAX_FILE_SIZE, or a bound where the code has none
  MaxData   \* bound: bytes of one write

VARIABLE data

Data == UNION {[1..n -> Byte] : n \in 1..MaxData}

Larger(x, y) == IF x > y THEN x ELSE y
Smaller(x, y) == IF x < y THEN x ELSE y

(* The first n bytes of a sequence, or as many with zeros behind it.       *)
Resized(s, n) == [k \in 1..n |-> IF k <= Len(s) THEN s[k] ELSE 0]

(* The sequence with d laid over it from the offset on.                    *)
Overlaid(s, off, d) ==
  [k \in 1..Larger(Len(s), off + Len(d)) |->
     IF off < k /\ k <= off + Len(d) THEN d[k - off]
     ELSE IF k <= Len(s) THEN s[k] ELSE 0]

Init == data = <<>>

Write(off, d) == data' = Overlaid(data, off, d)

Truncate(n) == data' = Resized(data, n)

(* What read answers.                                                      *)
Read(off, n) ==
  SubSeq(data, Smaller(off, Len(data)) + 1, Smaller(off + n, Len(data)))

Next ==
  \/ \E off \in 0..MaxSize, d \in Data : off + Len(d) <= MaxSize /\ Write(off, d)
  \/ \E n \in 0..MaxSize : Truncate(n)
  \/ \E d \in Data : data' = d

Spec == Init /\ [][Next]_data
=============================================================================
