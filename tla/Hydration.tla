------------------------------ MODULE Hydration ------------------------------
(***************************************************************************)
(* The read side's background queue (cache/hydration.rs): a look-up that   *)
(* finds nothing in the cache enqueues its key and answers at once; the    *)
(* tasks of a worker list the remote documents of a key and reconcile them *)
(* into the cache; a key that has just been pulled is not pulled again     *)
(* until NEGATIVE_TTL has passed.                                          *)
(*                                                                         *)
(* Removals are left out: files only appear, on the server and then in the *)
(* cache.                                                                  *)
(***************************************************************************)
EXTENDS Naturals, Sequences

CONSTANTS
  File,      \* filepaths of documents
  Key,       \* HydrationKey: one filepath, or the prefix of a directory
  Covers,    \* key -> the filepaths that list_documents returns for it
  Permit,    \* the permits of the worker's semaphore (HYDRATION_CONCURRENCY)
  NoKey      \* not a key

ASSUME KeyAssumption == NoKey \notin Key /\ Covers \in [Key -> SUBSET File]

VARIABLES
  queue,     \* Inner.queue
  pending,   \* Inner.pending
  inflight,  \* Inner.inflight
  recent,    \* Inner.recent: the keys whose time-to-live has not passed
  task,      \* permit -> its task
  running,   \* the worker has not been told to shut down
  missed,    \* keys of the look-ups between their miss and their enqueue
  local,     \* the files in the cache
  stored     \* the files whose documents are done on the server (external)

vars == <<queue, pending, inflight, recent, task, running, missed, local, stored>>
sched == <<queue, pending, inflight, recent>>

NoTask == [key |-> NoKey, pc |-> "idle", found |-> {}]

Task == {NoTask} \cup [key : Key, pc : {"asking", "reconciling", "ended"},
                       found : SUBSET File]

TypeOK ==
  /\ queue \in Seq(Key)
  /\ pending \subseteq Key
  /\ inflight \subseteq Key
  /\ recent \subseteq Key
  /\ task \in [Permit -> Task]
  /\ running \in BOOLEAN
  /\ missed \subseteq Key
  /\ local \subseteq File
  /\ stored \subseteq File

Init ==
  /\ queue = <<>>
  /\ pending = {} /\ inflight = {} /\ recent = {}
  /\ task = [t \in Permit |-> NoTask]
  /\ running = TRUE
  /\ missed = {}
  /\ local = {}
  /\ stored = {}
-----------------------------------------------------------------------------
Goto(t, pc, found) ==
  task' = [task EXCEPT ![t] = [key |-> task[t].key, pc |-> pc, found |-> found]]

(* Another client stores a file. *)
Store(f) ==
  /\ f \notin stored
  /\ stored' = stored \cup {f}
  /\ UNCHANGED <<sched, task, running, missed, local>>

(* lookup, readdir and readdir_plus: nothing is in the cache for the key.  *)
Miss(k) ==
  /\ Covers[k] \cap local = {}
  /\ missed' = missed \cup {k}
  /\ UNCHANGED <<sched, task, running, local, stored>>

(* Slips: a key that is being pulled, or was pulled just now, is queued.   *)
EnqueueInflight(k) ==
  /\ k \in missed
  /\ missed' = missed \ {k}
  /\ IF k \in recent \cup pending
     THEN UNCHANGED <<queue, pending>>
     ELSE /\ pending' = pending \cup {k}
          /\ queue' = Append(queue, k)
  /\ UNCHANGED <<inflight, recent, task, running, local, stored>>

EnqueueRecent(k) ==
  /\ k \in missed
  /\ missed' = missed \ {k}
  /\ IF k \in pending \cup inflight
     THEN UNCHANGED <<queue, pending>>
     ELSE /\ pending' = pending \cup {k}
          /\ queue' = Append(queue, k)
  /\ UNCHANGED <<inflight, recent, task, running, local, stored>>

Enqueue(k) ==
  /\ k \in missed
  /\ missed' = missed \ {k}
  /\ IF k \in recent \cup pending \cup inflight
     THEN UNCHANGED <<queue, pending>>
     ELSE /\ pending' = pending \cup {k}
          /\ queue' = Append(queue, k)
  /\ UNCHANGED <<inflight, recent, task, running, local, stored>>

(* enqueue's purge of recent, at any time after the time-to-live.          *)
Expire(k) ==
  /\ k \in recent
  /\ recent' = recent \ {k}
  /\ UNCHANGED <<queue, pending, inflight, task, running, missed, local, stored>>

Claim(t) ==
  /\ running
  /\ task[t] = NoTask
  /\ queue # <<>>
  /\ LET k == Head(queue)
     IN /\ pending' = pending \ {k}
        /\ inflight' = inflight \cup {k}
        /\ task' = [task EXCEPT ![t] = [key |-> k, pc |-> "asking", found |-> {}]]
  /\ queue' = Tail(queue)
  /\ UNCHANGED <<recent, running, missed, local, stored>>

(* pull_documents: the answer to the listing, or a failure, which skips    *)
(* the documents.                                                          *)
Listed(t) ==
  /\ task[t].pc = "asking"
  /\ Goto(t, "reconciling", Covers[task[t].key] \cap stored)
  /\ UNCHANGED <<sched, running, missed, local, stored>>

ListFailed(t) ==
  /\ task[t].pc = "asking"
  /\ Goto(t, "ended", {})
  /\ UNCHANGED <<sched, running, missed, local, stored>>

Reconcile(t) ==
  /\ task[t].pc = "reconciling"
  /\ IF task[t].found = {}
     THEN Goto(t, "ended", {}) /\ UNCHANGED local
     ELSE \E f \in task[t].found :
            /\ local' = local \cup {f}
            /\ Goto(t, "reconciling", task[t].found \ {f})
  /\ UNCHANGED <<sched, running, missed, stored>>

(* Slip: the key stays in the inflight set. *)
CompleteKeepsMark(t) ==
  /\ task[t].pc = "ended"
  /\ recent' = recent \cup {task[t].key}
  /\ task' = [task EXCEPT ![t] = NoTask]
  /\ UNCHANGED <<queue, pending, inflight, running, missed, local, stored>>

Complete(t) ==
  /\ task[t].pc = "ended"
  /\ inflight' = inflight \ {task[t].key}
  /\ recent' = recent \cup {task[t].key}
  /\ task' = [task EXCEPT ![t] = NoTask]
  /\ UNCHANGED <<queue, pending, running, missed, local, stored>>

(* Tasks under way are waited for; the queue is abandoned.                 *)
Shutdown ==
  /\ running
  /\ running' = FALSE
  /\ UNCHANGED <<sched, task, missed, local, stored>>

Worker(t) ==
  Claim(t) \/ Listed(t) \/ ListFailed(t) \/ Reconcile(t) \/ Complete(t)

Next ==
  \/ \E f \in File : Store(f)
  \/ \E k \in Key : Miss(k) \/ Enqueue(k) \/ Expire(k)
  \/ \E t \in Permit : Worker(t)
  \/ Shutdown

Spec == Init /\ [][Next]_vars
-----------------------------------------------------------------------------
Holds(t, k) == task[t].key = k

(* A key is in one place (hydration.rs, enqueue and claim_next): it waits  *)
(* once, or one task pulls it, or it was pulled just now; the queue and    *)
(* its two sets agree with each other and with the tasks.                  *)
QueueIsPending ==
  /\ \A i \in 1..Len(queue) : queue[i] \in pending
  /\ \A k \in pending : \E i \in 1..Len(queue) : queue[i] = k
  /\ \A i, j \in 1..Len(queue) : queue[i] = queue[j] => i = j

InflightIsHeld ==
  /\ inflight = {k \in Key : \E t \in Permit : Holds(t, k)}
  /\ \A t, u \in Permit : task[t] # NoTask /\ task[t].key = task[u].key => t = u

OnePlace ==
  /\ QueueIsPending
  /\ InflightIsHeld
  /\ pending \cap inflight = {}
  /\ pending \cap recent = {}
  /\ inflight \cap recent = {}

(* The negative cache holds (hydration.rs, NEGATIVE_TTL): a task never     *)
(* starts to pull a key that another task is pulling, or that has been     *)
(* pulled within the time-to-live, however the look-ups are timed.         *)
PulledOnce ==
  [][\A t \in Permit : task[t] = NoTask /\ task'[t] # NoTask =>
        /\ task'[t].key \notin recent
        /\ \A u \in Permit : ~Holds(u, task'[t].key)]_vars

(* Look-ups that are repeated succeed in the end (hydration.rs: "Misses    *)
(* enqueue a refresh here and return immediately"), although requests fail *)
(* and misses are cached: a stored file that a key covers becomes local.   *)
LookupsSucceed ==
  \A k \in Key :
    (Covers[k] \cap stored # {}) ~> (Covers[k] \cap local # {} \/ ~running)

(* The user looks a missing key up again and again, calls finish, time     *)
(* passes, the worker polls every 500 ms, its tasks run, and the requests  *)
(* for one key do not fail for ever.                                       *)
Fairness ==
  /\ \A k \in Key :
       /\ WF_vars(Miss(k)) /\ WF_vars(Enqueue(k)) /\ WF_vars(Expire(k))
       /\ SF_vars(\E t \in Permit : Holds(t, k) /\ Listed(t))
  /\ WF_vars(\E t \in Permit : Claim(t))
  /\ \A t \in Permit :
       WF_vars(Listed(t) \/ ListFailed(t) \/ Reconcile(t) \/ Complete(t))

FairSpec == Spec /\ Fairness
=============================================================================
