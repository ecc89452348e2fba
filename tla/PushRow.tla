------------------------------- MODULE PushRow -------------------------------
(***************************************************************************)
(* One row of the push_queue table (cache/schema.sql) and what each method *)
(* of cache/db.rs does to it.  The table holds at most one row per         *)
(* filepath; a filepath with no row has the value NoRow.                   *)
(*                                                                         *)
(* A write bundles the columns that always travel together (op,            *)
(* content_ino, rename_to), so a row has two of them: the main slot and    *)
(* the pending_* slot.  updated_at is kept as "due": whether it is in the  *)
(* past.  attempt, last_error and last_status only tune the delay or the   *)
(* message of a retry and are left out.                                    *)
(***************************************************************************)
EXTENDS Naturals

CONSTANTS
  Path,      \* the filepaths that is_macos_noise_path does not filter out
  Ino,       \* inode numbers; never reused (AUTOINCREMENT)
  Doc,       \* remote document ids
  None       \* SQL NULL

ASSUME NoneIsNull == None \notin Path \cup Ino \cup Doc

(***************************************************************************)
(* A queued write, with the columns process_job needs for its op.  PushOp  *)
(* also has upload_binary, which nothing in the program enqueues: binary   *)
(* content is recognised when the job of a create or update runs.  n is    *)
(* auxiliary: the how-manieth write of its filepath it is, which lets      *)
(* properties speak of older and newer writes.                             *)
(***************************************************************************)
ContentWrite == [op : {"create", "update"}, ino : Ino, to : {None}, n : Nat]
DeleteWrite  == [op : {"delete"}, ino : {None}, to : {None}, n : Nat]
RenameWrite  == [op : {"rename"}, ino : {None}, to : Path, n : Nat]

Write == ContentWrite \cup DeleteWrite \cup RenameWrite

NoWrite == [op |-> "none", ino |-> None, to |-> None, n |-> 0]

Slot == Write \cup {NoWrite}

NoRow == [main |-> NoWrite, pend |-> NoWrite, rid |-> None,
          inflight |-> FALSE, due |-> FALSE, poisoned |-> FALSE]

TableRow == [main     : Write,            \* op, content_ino, rename_to
             pend     : Slot,             \* pending_op, pending_content_ino, ...
             rid      : Doc \cup {None},  \* remote_id
             inflight : BOOLEAN,          \* inflight_started_at IS NOT NULL
             due      : BOOLEAN,          \* updated_at <= now
             poisoned : BOOLEAN]

Row == {NoRow} \cup TableRow

Present(r) == r.main # NoWrite

Coalesce(new, old) == IF new # None THEN new ELSE old

(***************************************************************************)
(* push_queue_upsert: park the write while the row is inflight (its        *)
(* remote id is then not stored), else replace the main slot.  The second  *)
(* case leaves pend and poisoned as they are.                              *)
(***************************************************************************)
Upserted(r, w, rid, due) ==
  IF r.inflight
  THEN [r EXCEPT !.pend = w, !.due = due]
  ELSE [r EXCEPT !.main = w, !.rid = Coalesce(rid, @), !.due = due]

(* Slip: a row that is being pushed is selected again.                     *)
ClaimableInflight(r) == Present(r) /\ ~r.poisoned /\ r.due

(***************************************************************************)
(* push_queue_claim_next: which rows it selects and how it marks one.  The *)
(* order among the due rows is left open: up to PUSH_CONCURRENCY of them   *)
(* run side by side, so it fixes no order of requests.                     *)
(***************************************************************************)
Claimable(r) == Present(r) /\ ~r.inflight /\ ~r.poisoned /\ r.due

Claimed(r) == [r EXCEPT !.inflight = TRUE]

(***************************************************************************)
(* The UPDATE ... WHERE filepath statements that end or annotate a job;    *)
(* they match nothing when the row has meanwhile gone.                     *)
(***************************************************************************)
Updated(r, new) == IF Present(r) THEN new ELSE r

Stamped(r, rid) == Updated(r, [r EXCEPT !.rid = rid])

(* Slips: the parked write is promoted and kept, promoted with the mark    *)
(* left on, or thrown away.                                                *)
SucceededKeepsParked(r) ==
  IF r.pend # NoWrite
  THEN [r EXCEPT !.main = r.pend, !.inflight = FALSE, !.due = TRUE]
  ELSE NoRow

SucceededStaysInflight(r) ==
  IF r.pend # NoWrite
  THEN [r EXCEPT !.main = r.pend, !.pend = NoWrite, !.due = TRUE]
  ELSE NoRow

SucceededDropsParked(r) == NoRow

Succeeded(r) ==
  IF r.pend # NoWrite
  THEN [r EXCEPT !.main = r.pend, !.pend = NoWrite, !.inflight = FALSE,
                 !.due = TRUE]
  ELSE NoRow

(* Slip: the delay of the next attempt is set but the claim is not released. *)
FailedStaysInflight(r, due) == Updated(r, [r EXCEPT !.due = due])

Failed(r, due) == Updated(r, [r EXCEPT !.inflight = FALSE, !.due = due])

Poisoned(r) ==
  Updated(r, [r EXCEPT !.poisoned = TRUE, !.inflight = FALSE, !.due = TRUE])

ClearedAfter404(r) ==
  Updated(r, [r EXCEPT !.rid = None, !.inflight = FALSE, !.due = TRUE])

(***************************************************************************)
(* push_queue_retarget_pending_create: which rows may move to a new        *)
(* filepath.  Neither poisoned nor the parked write is looked at, and      *)
(* nothing is asked of the row that already has the new filepath.          *)
(***************************************************************************)
Retargetable(r) == r.main.op = "create" /\ ~r.inflight /\ r.rid = None

\* The writes of the moved row are numbered after the `shift' writes that the
\* new filepath has already seen.
Renumbered(w, shift) == IF w = NoWrite THEN w ELSE [w EXCEPT !.n = @ + shift]

Retargeted(r, shift, rid) ==
  [r EXCEPT !.main = Renumbered(@, shift), !.pend = Renumbered(@, shift),
            !.rid = Coalesce(rid, @), !.due = TRUE]

\* The number of the newest write that a row holds.
Newest(r) == IF r.pend.n > r.main.n THEN r.pend.n ELSE r.main.n
=============================================================================
