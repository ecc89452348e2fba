------------------------------ MODULE PushQueue ------------------------------
(***************************************************************************)
(* The push_queue table and the tasks of the push worker that hold claims  *)
(* on its rows (cache/db.rs, sync/push.rs), with any caller: the           *)
(* filesystem may enqueue any write for any filepath at any time, and a    *)
(* task may end in any of the ways process_job ends.  PushSync says which  *)
(* writes are enqueued and how a task comes to its end.                    *)
(***************************************************************************)
EXTENDS PushRow, FiniteSets

CONSTANTS
  Permit,       \* the permits of the worker's semaphore (PUSH_CONCURRENCY)
  MaxWrites,    \* bound: writes enqueued per filepath
  Hazards       \* which of the events below the environment produces

ASSUME WorkerAssumption == None \notin Permit /\ MaxWrites \in Nat

(***************************************************************************)
(* "crash"   the process ends without waiting for its tasks: a kill, or    *)
(*           the five-second abort of daemon_runtime at unmount            *)
(* "poison"  the server answers a request with a 4xx                       *)
(* "busydst" a rename retargets a row onto a filepath that is being pushed *)
(* "latefail" a push fails after a newer write was parked behind it        *)
(***************************************************************************)
HazardKinds == {"crash", "poison", "busydst", "latefail"}

ASSUME HazardsAreKinds == Hazards \subseteq HazardKinds

VARIABLES
  queue,    \* filepath -> Row or NoRow
  job,      \* permit -> the claim its task holds, or Idle
  issued,   \* auxiliary, filepath -> writes enqueued so far
  sent      \* auxiliary, filepath -> n of the newest write that a task has
            \* claimed or a rename has taken to another filepath

qvars == <<queue, job, issued, sent>>

Idle == [path |-> None, w |-> NoWrite, rid |-> None]

Job == {Idle} \cup [path : Path, w : Write, rid : Doc \cup {None}]

Busy(k) == job[k] # Idle
Holders(p) == {k \in Permit : Busy(k) /\ job[k].path = p}

QTypeOK ==
  /\ queue \in [Path -> Row]
  /\ job \in [Permit -> Job]
  /\ issued \in [Path -> Nat]
  /\ sent \in [Path -> Nat]

QInit ==
  /\ queue = [p \in Path |-> NoRow]
  /\ job = [k \in Permit |-> Idle]
  /\ issued = [p \in Path |-> 0]
  /\ sent = [p \in Path |-> 0]
-----------------------------------------------------------------------------
(* The filesystem's side. *)

NewWrite(p, op, ino, to) ==
  [op |-> op, ino |-> ino, to |-> to, n |-> issued[p] + 1]

Upsert(p, op, ino, to, rid, due) ==
  /\ issued[p] < MaxWrites
  /\ queue' = [queue EXCEPT ![p] =
                 Upserted(@, NewWrite(p, op, ino, to), rid, due)]
  /\ issued' = [issued EXCEPT ![p] = @ + 1]
  /\ UNCHANGED <<job, sent>>

(* The row at new is deleted whether or not a task holds a claim on it. *)
Retarget(old, new, rid) ==
  /\ old # new
  /\ issued[new] + issued[old] <= MaxWrites
  /\ Retargetable(queue[old])
  /\ "busydst" \notin Hazards => ~queue[new].inflight
  /\ queue' = [queue EXCEPT
                 ![new] = Retargeted(queue[old], issued[new], rid),
                 ![old] = NoRow]
  /\ issued' = [issued EXCEPT ![new] = @ + Newest(queue[old])]
  /\ sent' = [sent EXCEPT ![old] = issued[old]]
  /\ UNCHANGED job

(* The pull reconciler attaches a document to a queued row by filepath. *)
Attach(p, rid) ==
  /\ Present(queue[p])
  /\ queue' = [queue EXCEPT ![p] = Stamped(@, rid)]
  /\ UNCHANGED <<job, issued, sent>>

(* A debounce or backoff delay runs out. *)
Elapse(p) ==
  /\ Present(queue[p]) /\ ~queue[p].due
  /\ queue' = [queue EXCEPT ![p].due = TRUE]
  /\ UNCHANGED <<job, issued, sent>>
-----------------------------------------------------------------------------
(* The worker's side. *)

Claim(p, k) ==
  /\ ~Busy(k)
  /\ Claimable(queue[p])
  /\ queue' = [queue EXCEPT ![p] = Claimed(@)]
  /\ job' = [job EXCEPT ![k] =
               [path |-> p, w |-> queue[p].main, rid |-> queue[p].rid]]
  /\ sent' = [sent EXCEPT ![p] = IF @ < queue[p].main.n THEN queue[p].main.n
                                                       ELSE @]
  /\ UNCHANGED issued

Stamp(k, rid) ==
  /\ Busy(k)
  /\ queue' = [queue EXCEPT ![job[k].path] = Stamped(@, rid)]
  /\ UNCHANGED <<job, issued, sent>>

(* The task of k ends and leaves the row of its filepath as `row'. *)
End(k, row) ==
  /\ Busy(k)
  /\ queue' = [queue EXCEPT ![job[k].path] = row]
  /\ job' = [job EXCEPT ![k] = Idle]
  /\ UNCHANGED <<issued, sent>>

HeldRow(k) == queue[job[k].path]

LateFailure(r) == r.pend # NoWrite

MayFail(k) == LateFailure(HeldRow(k)) => "latefail" \in Hazards

Succeed(k) == End(k, Succeeded(HeldRow(k)))

Fail(k) == Busy(k) /\ MayFail(k) /\ End(k, Failed(HeldRow(k), FALSE))

Clear404(k) == Busy(k) /\ MayFail(k) /\ End(k, ClearedAfter404(HeldRow(k)))

Poison(k) == "poison" \in Hazards /\ End(k, Poisoned(HeldRow(k)))

(* Every task disappears with the process; the table is as it was, and     *)
(* Db::open resets nothing in it.                                          *)
Crash ==
  /\ "crash" \in Hazards
  /\ job' = [k \in Permit |-> Idle]
  /\ UNCHANGED <<queue, issued, sent>>
-----------------------------------------------------------------------------
(* The writes that the four call sites of push_queue_upsert enqueue.       *)
UserStep ==
  \E p \in Path :
    \/ \E i \in Ino : Upsert(p, "create", i, None, None, FALSE)
    \/ \E i \in Ino, d \in Doc : Upsert(p, "update", i, None, d, FALSE)
    \/ \E d \in Doc \cup {None} : Upsert(p, "delete", None, None, d, TRUE)
    \/ \E q \in Path \ {p}, d \in Doc \cup {None} :
         Upsert(p, "rename", None, q, d, TRUE)
    \/ \E q \in Path, d \in Doc \cup {None} : Retarget(p, q, d)
    \/ \E d \in Doc : Attach(p, d)

WorkerStep ==
  \E k \in Permit :
    \/ \E p \in Path : Claim(p, k)
    \/ \E d \in Doc : Stamp(k, d)
    \/ Succeed(k)
    \/ Fail(k)
    \/ Clear404(k)
    \/ Poison(k)

QNext == UserStep \/ WorkerStep \/ (\E p \in Path : Elapse(p)) \/ Crash

QSpec == QInit /\ [][QNext]_qvars
-----------------------------------------------------------------------------
(* Same-file safety (push.rs, comment of run_push_worker: "Same-file       *)
(* safety is guaranteed by the inflight_started_at atomic update"): no two *)
(* tasks push the same filepath, and a task's claim is the one its row     *)
(* records.                                                                *)
OnePushPerPath ==
  \A k \in Permit : Busy(k) =>
    /\ Holders(job[k].path) = {k}
    /\ HeldRow(k).inflight
    /\ HeldRow(k).main = job[k].w

(* No write is dropped without being superseded (db.rs, push_queue_upsert  *)
(* and push_queue_finalize_success): the newest write of a filepath has    *)
(* been claimed by a task or waits in one of the slots of its row.         *)
NewestKept ==
  \A p \in Path : issued[p] \in {sent[p], queue[p].main.n, queue[p].pend.n}

(* Latest wins (db.rs, push_queue_upsert: "Latest always wins"): a task    *)
(* never sends a write of a filepath after a newer write of it was sent.   *)
NoReplay ==
  [][\A k \in Permit : job'[k] # job[k] /\ job'[k] # Idle =>
       job'[k].w.n >= sent[job'[k].path]]_qvars

(* A row marked inflight on behalf of no task is never claimed again       *)
(* (push_queue_claim_next skips it).  Only the end of the process leaves   *)
(* such a row behind: every way a task can end, in any order with other    *)
(* tasks, renames and upserts, releases the row or removes it.             *)
Stuck(p) == queue[p].inflight /\ Holders(p) = {}

StuckOnlyByCrash == [][\A p \in Path : Stuck(p)' => Stuck(p) \/ Crash]_qvars

(* The queue drains (push.rs and daemon_runtime.rs: rows that a mount      *)
(* leaves behind "persist and will resume next mount"): every row that is  *)
(* not poisoned is eventually gone or poisoned.                            *)
Waiting(p) == Present(queue[p]) /\ ~queue[p].poisoned

QueueDrains == \A p \in Path : Waiting(p) ~> ~Waiting(p)
=============================================================================
