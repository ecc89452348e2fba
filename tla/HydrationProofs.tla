--------------------------- MODULE HydrationProofs ---------------------------
(***************************************************************************)
(* Proofs about Hydration for every set of files, keys and permits.  The   *)
(* conjunction of TypeOK and OnePlace is inductive as it stands.           *)
(***************************************************************************)
EXTENDS Hydration, TLAPS

HInv == TypeOK /\ OnePlace

-----------------------------------------------------------------------------
(* Type correctness (Inner, run_hydration_worker).                         *)
LEMMA BusyTask ==
  ASSUME TypeOK, NEW t \in Permit, task[t] # NoTask
  PROVE  /\ task[t].key \in Key
         /\ task[t].found \subseteq File
         /\ task[t].pc \in {"asking", "reconciling", "ended"}
  BY DEF TypeOK, Task

LEMMA GotoStep ==
  ASSUME TypeOK, NEW t \in Permit, task[t] # NoTask,
         NEW pc \in {"asking", "reconciling", "ended"}, NEW found \in SUBSET File,
         Goto(t, pc, found)
  PROVE  task' \in [Permit -> Task]
<1>1. [key |-> task[t].key, pc |-> pc, found |-> found] \in Task
  BY BusyTask DEF Task
<1> QED
  BY <1>1 DEF Goto, TypeOK

LEMMA TypeStep == TypeOK /\ [Next]_vars => TypeOK'
<1> SUFFICES ASSUME TypeOK, [Next]_vars PROVE TypeOK'
  OBVIOUS
<1>1. ASSUME NEW f \in File, Store(f) PROVE TypeOK'
  BY <1>1 DEF Store, sched, TypeOK
<1>2. ASSUME NEW k \in Key, Miss(k) PROVE TypeOK'
  BY <1>2 DEF Miss, sched, TypeOK
<1>3. ASSUME NEW k \in Key, Enqueue(k) PROVE TypeOK'
  <2>1. Append(queue, k) \in Seq(Key)
    BY DEF TypeOK
  <2>2. queue' \in Seq(Key) /\ pending' \subseteq Key
    BY <1>3, <2>1 DEF Enqueue, TypeOK
  <2> QED
    BY <1>3, <2>2 DEF Enqueue, TypeOK
<1>4. ASSUME NEW k \in Key, Expire(k) PROVE TypeOK'
  BY <1>4 DEF Expire, TypeOK
<1>5. ASSUME NEW t \in Permit, Claim(t) PROVE TypeOK'
  <2>1. Head(queue) \in Key /\ Tail(queue) \in Seq(Key)
    BY <1>5 DEF Claim, TypeOK
  <2>2. [key |-> Head(queue), pc |-> "asking", found |-> {}] \in Task
    BY <2>1 DEF Task
  <2>3. task' \in [Permit -> Task]
    BY <1>5, <2>2 DEF Claim, TypeOK
  <2> QED
    BY <1>5, <2>1, <2>3 DEF Claim, TypeOK
<1>6. ASSUME NEW t \in Permit, Listed(t) PROVE TypeOK'
  <2>1. task[t] # NoTask
    BY <1>6 DEF Listed, NoTask
  <2>2. Covers[task[t].key] \cap stored \in SUBSET File
    BY DEF TypeOK
  <2>3. task' \in [Permit -> Task]
    BY <1>6, <2>1, <2>2, GotoStep DEF Listed
  <2> QED
    BY <1>6, <2>3 DEF Listed, sched, TypeOK
<1>7. ASSUME NEW t \in Permit, ListFailed(t) PROVE TypeOK'
  <2>1. task[t] # NoTask
    BY <1>7 DEF ListFailed, NoTask
  <2>2. task' \in [Permit -> Task]
    BY <1>7, <2>1, GotoStep DEF ListFailed
  <2> QED
    BY <1>7, <2>2 DEF ListFailed, sched, TypeOK
<1>8. ASSUME NEW t \in Permit, Reconcile(t) PROVE TypeOK'
  <2>1. task[t] # NoTask
    BY <1>8 DEF Reconcile, NoTask
  <2>2. task[t].found \subseteq File
    BY <2>1, BusyTask
  <2>3. CASE task[t].found = {}
    <3>1. task' \in [Permit -> Task]
      BY <1>8, <2>1, <2>3, GotoStep DEF Reconcile
    <3> QED
      BY <1>8, <2>3, <3>1 DEF Reconcile, sched, TypeOK
  <2>4. CASE task[t].found # {}
    <3>1. PICK f \in task[t].found :
            /\ local' = local \cup {f}
            /\ Goto(t, "reconciling", task[t].found \ {f})
      BY <1>8, <2>4 DEF Reconcile
    <3>2. task[t].found \ {f} \in SUBSET File
      BY <2>2
    <3>3. task' \in [Permit -> Task]
      BY <2>1, <3>1, <3>2, GotoStep
    <3> QED
      BY <1>8, <2>2, <3>1, <3>3 DEF Reconcile, sched, TypeOK
  <2> QED
    BY <2>3, <2>4
<1>9. ASSUME NEW t \in Permit, Complete(t) PROVE TypeOK'
  <2>1. task[t] # NoTask
    BY <1>9 DEF Complete, NoTask
  <2>2. task[t].key \in Key
    BY <2>1, BusyTask
  <2>3. task' \in [Permit -> Task]
    BY <1>9 DEF Complete, Task, TypeOK
  <2> QED
    BY <1>9, <2>2, <2>3 DEF Complete, TypeOK
<1>10. CASE Shutdown
  BY <1>10 DEF Shutdown, sched, TypeOK
<1>11. CASE UNCHANGED vars
  BY <1>11 DEF vars, TypeOK
<1> QED
  BY <1>1, <1>2, <1>3, <1>4, <1>5, <1>6, <1>7, <1>8, <1>9, <1>10, <1>11
  DEF Next, Worker

(* Type correctness (Inner, run_hydration_worker): the scheduler's fields  *)
(* and the tasks keep their types under every interleaving.                *)
THEOREM HydrationTypes == Spec => []TypeOK
<1>1. Init => TypeOK
  BY DEF Init, TypeOK, Task, NoTask
<1> QED
  BY <1>1, TypeStep, PTL DEF Spec
-----------------------------------------------------------------------------
(* Every key in one place.                                                 *)
LEMMA SameKeys ==
  ASSUME OnePlace, UNCHANGED sched,
         \A t \in Permit : /\ task'[t].key = task[t].key
                           /\ task'[t] = NoTask <=> task[t] = NoTask
  PROVE  OnePlace'
<1>1. QueueIsPending'
  BY DEF OnePlace, QueueIsPending, sched
<1>2. InflightIsHeld'
  BY DEF OnePlace, InflightIsHeld, Holds, sched
<1> QED
  BY <1>1, <1>2 DEF OnePlace, sched

LEMMA GotoKeepsKeys ==
  ASSUME TypeOK, OnePlace, UNCHANGED sched,
         NEW t \in Permit, task[t] # NoTask,
         NEW pc \in {"asking", "reconciling", "ended"}, NEW found,
         Goto(t, pc, found)
  PROVE  OnePlace'
<1>1. task[t].key # NoKey
  BY BusyTask, KeyAssumption
<1>2. task' = [task EXCEPT ![t] = [key |-> task[t].key, pc |-> pc,
                                   found |-> found]]
  BY DEF Goto
<1>3. task \in [Permit -> Task]
  BY DEF TypeOK
<1>4. \A u \in Permit : u # t => task'[u] = task[u]
  BY <1>2, <1>3
<1>5. task'[t] = [key |-> task[t].key, pc |-> pc, found |-> found]
  BY <1>2, <1>3
<1>6. task'[t].key = task[t].key /\ task'[t] # NoTask
  BY <1>1, <1>5 DEF NoTask
<1> QED
  BY <1>4, <1>6, SameKeys

LEMMA EnqueueStep ==
  ASSUME HInv, NEW k \in Key, Enqueue(k)
  PROVE  OnePlace'
<1> USE DEF HInv
<1>1. InflightIsHeld'
  BY DEF OnePlace, InflightIsHeld, Holds, Enqueue
<1>2. CASE k \in recent \cup pending \cup inflight
  BY <1>1, <1>2 DEF OnePlace, QueueIsPending, Enqueue
<1>3. CASE k \notin recent \cup pending \cup inflight
  <2>1. /\ queue' = Append(queue, k) /\ pending' = pending \cup {k}
        /\ UNCHANGED <<inflight, recent>>
    BY <1>3 DEF Enqueue
  <2>2. /\ Len(queue') = Len(queue) + 1
        /\ Len(queue) \in Nat
        /\ \A i \in 1..Len(queue) : queue'[i] = queue[i]
        /\ queue'[Len(queue) + 1] = k
    BY <2>1 DEF TypeOK
  <2>3. \A i \in 1..Len(queue) : queue[i] \in pending /\ queue[i] # k
    BY <1>3 DEF OnePlace, QueueIsPending
  <2>4. QueueIsPending'
    <3>1. \A i \in 1..Len(queue') : i \in 1..Len(queue) \/ i = Len(queue) + 1
      BY <2>2
    <3>2. \A i \in 1..Len(queue') : queue'[i] \in pending'
      BY <2>1, <2>2, <2>3, <3>1
    <3>3. \A m \in pending' : \E i \in 1..Len(queue') : queue'[i] = m
      <4>1. Len(queue) + 1 \in 1..Len(queue')
        BY <2>2
      <4>2. \A m \in pending : \E i \in 1..Len(queue) : queue[i] = m
        BY DEF OnePlace, QueueIsPending
      <4>3. \A i \in 1..Len(queue) : i \in 1..Len(queue')
        BY <2>2
      <4> QED
        BY <2>1, <2>2, <4>1, <4>2, <4>3
    <3>4. \A i, j \in 1..Len(queue') : queue'[i] = queue'[j] => i = j
      BY <2>2, <2>3, <3>1 DEF OnePlace, QueueIsPending
    <3> QED
      BY <3>2, <3>3, <3>4 DEF QueueIsPending
  <2> QED
    BY <1>1, <1>3, <2>1, <2>4 DEF OnePlace
<1> QED
  BY <1>2, <1>3

LEMMA ClaimStep ==
  ASSUME HInv, NEW t \in Permit, Claim(t)
  PROVE  OnePlace'
<1> USE DEF HInv
<1> DEFINE k == Head(queue)
<1>1. /\ queue # <<>> /\ task[t] = NoTask
      /\ queue' = Tail(queue)
      /\ pending' = pending \ {k} /\ inflight' = inflight \cup {k}
      /\ task' = [task EXCEPT ![t] = [key |-> k, pc |-> "asking", found |-> {}]]
      /\ recent' = recent
  BY DEF Claim
<1>2. /\ Len(queue) \in Nat \ {0} /\ Len(queue') = Len(queue) - 1
      /\ queue[1] = k
      /\ \A i \in 1..Len(queue') : queue'[i] = queue[i + 1]
      /\ \A i \in 1..Len(queue') : i + 1 \in 1..Len(queue)
      /\ \A i \in 1..Len(queue) : i # 1 => i - 1 \in 1..Len(queue')
                                          /\ queue'[i - 1] = queue[i]
      /\ 1 \in 1..Len(queue)
  BY <1>1 DEF TypeOK
<1>3. k \in Key /\ k \in pending
  BY <1>1, <1>2 DEF TypeOK, OnePlace, QueueIsPending
<1> HIDE DEF k
<1>4. QueueIsPending'
  <2>1. \A i \in 1..Len(queue') : queue'[i] \in pending'
    <3> SUFFICES ASSUME NEW i \in 1..Len(queue') PROVE queue'[i] \in pending'
      OBVIOUS
    <3>1. queue[i + 1] \in pending /\ i + 1 # 1
      BY <1>2 DEF OnePlace, QueueIsPending
    <3>2. queue[i + 1] # k
      BY <1>2, <3>1 DEF OnePlace, QueueIsPending
    <3> QED
      BY <1>1, <1>2, <3>1, <3>2
  <2>2. \A m \in pending' : \E i \in 1..Len(queue') : queue'[i] = m
    <3> SUFFICES ASSUME NEW m \in pending'
                 PROVE  \E i \in 1..Len(queue') : queue'[i] = m
      OBVIOUS
    <3>1. PICK i \in 1..Len(queue) : queue[i] = m
      BY <1>1 DEF OnePlace, QueueIsPending
    <3>2. i # 1
      BY <1>1, <1>2, <3>1
    <3> QED
      BY <1>2, <3>1, <3>2
  <2>3. \A i, j \in 1..Len(queue') : queue'[i] = queue'[j] => i = j
    <3> SUFFICES ASSUME NEW i \in 1..Len(queue'), NEW j \in 1..Len(queue'),
                        queue'[i] = queue'[j]
                 PROVE  i = j
      OBVIOUS
    <3>1. /\ i + 1 \in 1..Len(queue) /\ j + 1 \in 1..Len(queue)
          /\ queue[i + 1] = queue[j + 1]
      BY <1>2
    <3>2. \A x, y \in 1..Len(queue) : queue[x] = queue[y] => x = y
      BY DEF OnePlace, QueueIsPending
    <3>3. i + 1 = j + 1
      BY <3>1, <3>2
    <3> QED
      BY <3>3
  <2> QED
    BY <2>1, <2>2, <2>3 DEF QueueIsPending
<1>5. /\ task'[t] = [key |-> k, pc |-> "asking", found |-> {}]
      /\ \A u \in Permit : u # t => task'[u] = task[u]
  BY <1>1 DEF TypeOK
<1>6. \A u \in Permit : ~Holds(u, k)
  BY <1>3 DEF OnePlace, InflightIsHeld
<1>7. InflightIsHeld'
  <2>1. inflight' = {m \in Key : \E u \in Permit : Holds(u, m)'}
    <3>1. \A m \in Key : ~Holds(t, m)
      BY <1>1, KeyAssumption DEF Holds, NoTask
    <3>2. \A m \in Key : (\E u \in Permit : Holds(u, m)')
                             <=> m = k \/ \E u \in Permit : Holds(u, m)
      BY <1>5, <3>1 DEF Holds
    <3> QED
      BY <1>1, <1>3, <3>2 DEF OnePlace, InflightIsHeld
  <2>2. \A u, v \in Permit :
           task'[u] # NoTask /\ task'[u].key = task'[v].key => u = v
    BY <1>5, <1>6 DEF OnePlace, InflightIsHeld, Holds
  <2> QED
    BY <2>1, <2>2 DEF InflightIsHeld, Holds
<1> QED
  BY <1>1, <1>3, <1>4, <1>7 DEF OnePlace

LEMMA CompleteStep ==
  ASSUME HInv, NEW t \in Permit, Complete(t)
  PROVE  OnePlace'
<1> USE DEF HInv
<1> DEFINE k == task[t].key
<1>1. /\ task[t] # NoTask
      /\ task' = [task EXCEPT ![t] = NoTask]
      /\ inflight' = inflight \ {k} /\ recent' = recent \cup {k}
      /\ UNCHANGED <<queue, pending>>
  BY DEF Complete, NoTask
<1>2. k \in Key /\ k \in inflight
  BY <1>1, BusyTask DEF OnePlace, InflightIsHeld, Holds
<1>3. QueueIsPending'
  BY <1>1 DEF OnePlace, QueueIsPending
<1>4. /\ task'[t] = NoTask
      /\ \A u \in Permit : u # t => task'[u] = task[u]
  BY <1>1 DEF TypeOK
<1>5. \A u \in Permit : u # t => task[u].key # k
  BY <1>1 DEF OnePlace, InflightIsHeld
<1>6. InflightIsHeld'
  <2>1. inflight' = {m \in Key : \E u \in Permit : Holds(u, m)'}
    <3>1. \A m \in Key : ~Holds(t, m)'
      BY <1>4, KeyAssumption DEF Holds, NoTask
    <3>2. \A m \in Key : (\E u \in Permit : Holds(u, m)')
                             <=> m # k /\ \E u \in Permit : Holds(u, m)
      BY <1>4, <1>5, <3>1 DEF Holds
    <3> QED
      BY <1>1, <3>2 DEF OnePlace, InflightIsHeld
  <2>2. \A u, v \in Permit :
           task'[u] # NoTask /\ task'[u].key = task'[v].key => u = v
    <3> SUFFICES ASSUME NEW u \in Permit, NEW v \in Permit,
                        task'[u] # NoTask, task'[u].key = task'[v].key
                 PROVE  u = v
      OBVIOUS
    <3>1. u # t /\ task'[u] = task[u]
      BY <1>4
    <3>2. task[u].key \in Key
      BY <3>1, BusyTask
    <3>3. v # t
      BY <1>4, <3>1, <3>2, KeyAssumption DEF NoTask
    <3> QED
      BY <1>4, <3>1, <3>3 DEF OnePlace, InflightIsHeld
  <2> QED
    BY <2>1, <2>2 DEF InflightIsHeld, Holds
<1> QED
  BY <1>1, <1>2, <1>3, <1>6 DEF OnePlace

LEMMA PlaceStep == HInv /\ [Next]_vars => OnePlace'
<1> SUFFICES ASSUME HInv, [Next]_vars PROVE OnePlace'
  OBVIOUS
<1>0. TypeOK /\ OnePlace
  BY DEF HInv
<1>1. ASSUME NEW f \in File, Store(f) PROVE OnePlace'
  BY <1>0, <1>1, SameKeys DEF Store
<1>2. ASSUME NEW k \in Key, Miss(k) PROVE OnePlace'
  BY <1>0, <1>2, SameKeys DEF Miss
<1>3. ASSUME NEW k \in Key, Enqueue(k) PROVE OnePlace'
  BY <1>3, EnqueueStep
<1>4. ASSUME NEW k \in Key, Expire(k) PROVE OnePlace'
  BY <1>0, <1>4 DEF Expire, OnePlace, QueueIsPending, InflightIsHeld, Holds
<1>5. ASSUME NEW t \in Permit, Claim(t) PROVE OnePlace'
  BY <1>5, ClaimStep
<1>6. ASSUME NEW t \in Permit, Listed(t) PROVE OnePlace'
  BY <1>0, <1>6, GotoKeepsKeys DEF Listed, NoTask
<1>7. ASSUME NEW t \in Permit, ListFailed(t) PROVE OnePlace'
  BY <1>0, <1>7, GotoKeepsKeys DEF ListFailed, NoTask
<1>8. ASSUME NEW t \in Permit, Reconcile(t) PROVE OnePlace'
  <2>1. PICK pc \in {"asking", "reconciling", "ended"} :
          \E found : Goto(t, pc, found)
    BY <1>8 DEF Reconcile
  <2> QED
    BY <1>0, <1>8, <2>1, GotoKeepsKeys DEF Reconcile, NoTask
<1>9. ASSUME NEW t \in Permit, Complete(t) PROVE OnePlace'
  BY <1>9, CompleteStep
<1>10. CASE Shutdown
  BY <1>0, <1>10, SameKeys DEF Shutdown
<1>11. CASE UNCHANGED vars
  BY <1>0, <1>11, SameKeys DEF vars, sched
<1> QED
  BY <1>1, <1>2, <1>3, <1>4, <1>5, <1>6, <1>7, <1>8, <1>9, <1>10, <1>11
  DEF Next, Worker

LEMMA HInvHolds == Spec => []HInv
<1>1. Init => HInv
  <2>1. Init => TypeOK
    BY DEF Init, TypeOK, Task, NoTask
  <2>2. Init => OnePlace
    BY KeyAssumption
    DEF Init, OnePlace, QueueIsPending, InflightIsHeld, Holds, NoTask
  <2> QED
    BY <2>1, <2>2 DEF HInv
<1>2. HInv /\ [Next]_vars => HInv'
  BY TypeStep, PlaceStep DEF HInv
<1> QED
  BY <1>1, <1>2, PTL DEF Spec

(* Every key is in one place (hydration.rs, Inner): the queue and its two  *)
(* sets agree with each other and with the tasks of the worker.            *)
THEOREM KeysInOnePlace == Spec => []OnePlace
<1>1. HInv => OnePlace
  BY DEF HInv
<1> QED
  BY <1>1, HInvHolds, PTL

(* No key is pulled by two tasks, or again within its time-to-live         *)
(* (hydration.rs, enqueue), whatever the timing of look-ups and tasks.     *)
THEOREM NeverPulledTwice == Spec => PulledOnce
<1> DEFINE A == \A t \in Permit : task[t] = NoTask /\ task'[t] # NoTask =>
                    /\ task'[t].key \notin recent
                    /\ \A u \in Permit : ~Holds(u, task'[t].key)
<1>1. HInv /\ [Next]_vars => [A]_vars
  <2> SUFFICES ASSUME HInv, Next, NEW t \in Permit,
                      task[t] = NoTask, task'[t] # NoTask
               PROVE  /\ task'[t].key \notin recent
                      /\ \A u \in Permit : ~Holds(u, task'[t].key)
    OBVIOUS
  <2>1. PICK u \in Permit : Worker(u)
    BY DEF Next, Store, Miss, Enqueue, Expire, Shutdown
  <2>2. Claim(t)
    <3>1. task \in [Permit -> Task]
      BY DEF HInv, TypeOK
    <3>2. u = t
      BY <2>1, <3>1
      DEF Worker, Claim, Listed, ListFailed, Reconcile, Complete, Goto
    <3>3. task[t].pc = "idle"
      BY DEF NoTask
    <3> QED
      BY <2>1, <3>2, <3>3
      DEF Worker, Listed, ListFailed, Reconcile, Complete
  <2>3. task'[t].key = Head(queue) /\ Head(queue) = queue[1]
        /\ 1 \in 1..Len(queue)
    BY <2>2 DEF Claim, HInv, TypeOK
  <2>4. Head(queue) \in pending /\ Head(queue) \in Key
    BY <2>3 DEF HInv, TypeOK, OnePlace, QueueIsPending
  <2> QED
    BY <2>3, <2>4 DEF HInv, OnePlace, InflightIsHeld
<1> QED
  BY <1>1, HInvHolds, PTL DEF Spec, PulledOnce
=============================================================================
