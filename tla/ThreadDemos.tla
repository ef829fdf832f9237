----------------------------- MODULE ThreadDemos -----------------------------
(***************************************************************************)
(* Four programs of study_test/Thread: 8_pthread_cond.c (a producer and two  *)
(* consumers on one condition variable), 8_pthread_mutex.c (two threads that *)
(* take two mutexes in opposite orders, the second with trylock, whose       *)
(* result they ignore), 8_pthread_spin.c and 8_pthread_rwlcok.c (counters    *)
(* under a spin lock and under a read-write lock).  A step is one library    *)
(* call or one access to the shared variable.                                *)
(***************************************************************************)
EXTENDS Integers, FiniteSets

CONSTANTS Readers, Writers, \* threads of the read-write lock demo
          Turns,            \* loops and 10: the turns of a counting thread
          MaxAvail          \* bound: items produced ahead of the consumers

ASSUME ThreadAssumption == Turns \in Nat \ {0} /\ MaxAvail \in Nat \ {0}

VARIABLES demo,      \* "cond", "mutex", "spin" or "rwlock"
          stage,     \* where a thread stands
          holder,    \* of a lock: the threads that hold it (several readers)
          shared,    \* g_avail, testsize - 666, g_count
          register,  \* a thread's copy of it
          turns      \* turns a thread has left

threadVars == <<demo, stage, holder, shared, register, turns>>

Consumers == {"consumer_thread", "consumer_thread1"}
Threads == CASE demo = "cond" -> Consumers \cup {"main"}
             [] demo = "mutex" -> {"fun", "fun1"}
             [] demo = "spin" -> {"tid1", "tid2"}
             [] OTHER -> Readers \cup Writers
AllThreads == Consumers \cup {"main", "fun", "fun1", "tid1", "tid2"} \cup Readers \cup Writers
Locks == {"mutex", "mutex1"}

ThreadInit ==
  /\ demo \in {"cond", "mutex", "spin", "rwlock"}
  /\ stage = [t \in AllThreads |-> "lock"]
  /\ holder = [l \in Locks |-> {}]
  /\ shared = 0 /\ register = [t \in AllThreads |-> 0]
  /\ turns = [t \in AllThreads |-> IF demo = "mutex" THEN 3 ELSE Turns]

Reach(t, label) == stage' = [stage EXCEPT ![t] = label]
Hold(t, l) == holder' = [holder EXCEPT ![l] = @ \cup {t}]
FreeLock(l) == holder' = [holder EXCEPT ![l] = {}]

-----------------------------------------------------------------------------
(* 8_pthread_cond.c.                                                        *)
Produce ==
  /\ demo = "cond"
  /\ \/ /\ stage.main = "lock" /\ holder["mutex"] = {} /\ shared < MaxAvail
        /\ Hold("main", "mutex") /\ Reach("main", "count")
        /\ UNCHANGED shared
     \/ /\ stage.main = "count"
        /\ shared' = shared + 1 /\ Reach("main", "unlock")
        /\ UNCHANGED holder
     \/ /\ stage.main = "unlock"
        /\ FreeLock("mutex") /\ Reach("main", "signal")
        /\ UNCHANGED shared
  /\ UNCHANGED <<demo, register, turns>>

Waiters == {c \in Consumers : stage[c] = "waiting"}

\* pthread_cond_signal wakes one waiter, or nobody.
Signal ==
  /\ demo = "cond" /\ stage.main = "signal"
  /\ \/ /\ Waiters = {} /\ Reach("main", "lock")
     \/ \E c \in Waiters : stage' = [stage EXCEPT !.main = "lock", ![c] = "lock"]
  /\ UNCHANGED <<demo, holder, shared, register, turns>>

\* A consumer's lock, and pthread_cond_wait's when it is woken.
LockToConsume(c) ==
  /\ demo = "cond" /\ stage[c] = "lock" /\ holder["mutex"] = {}
  /\ Hold(c, "mutex") /\ Reach(c, "test")
  /\ UNCHANGED <<demo, shared, register, turns>>

TestThenWait(c) ==                                                 \* (mutant)
  \/ /\ stage[c] = "test" /\ shared = 0
     /\ FreeLock("mutex") /\ Reach(c, "doze")
  \/ stage[c] = "doze" /\ Reach(c, "waiting") /\ UNCHANGED holder

\* pthread_cond_wait releases the mutex and waits in one step.
CondWait(c) == /\ stage[c] = "test" /\ shared = 0
               /\ FreeLock("mutex") /\ Reach(c, "waiting")

WaitForMore(c) ==
  /\ demo = "cond" /\ CondWait(c)
  /\ UNCHANGED <<demo, shared, register, turns>>

Consume(c) ==
  /\ demo = "cond" /\ stage[c] = "test" /\ shared > 0
  /\ shared' = 0 /\ Reach(c, "unlock")
  /\ UNCHANGED <<demo, holder, register, turns>>

DoneConsuming(c) ==
  /\ demo = "cond" /\ stage[c] = "unlock"
  /\ FreeLock("mutex") /\ Reach(c, "lock")
  /\ UNCHANGED <<demo, shared, register, turns>>

\* The wait may return without a signal.
WakeUnasked(c) ==
  /\ demo = "cond" /\ stage[c] = "waiting"
  /\ Reach(c, "lock")
  /\ UNCHANGED <<demo, holder, shared, register, turns>>
-----------------------------------------------------------------------------
(* 8_pthread_mutex.c: fun holds mutex and tries mutex1, fun1 the reverse;   *)
(* both unlock both.  pthread_mutex_unlock of a mutex somebody else holds is *)
(* undefined; with the C library it frees the mutex.                        *)
Own(t) == IF t = "fun" THEN "mutex" ELSE "mutex1"
TheOther(t) == IF t = "fun" THEN "mutex1" ELSE "mutex"

LockOwn(t) ==
  /\ demo = "mutex" /\ stage[t] = "lock" /\ holder[Own(t)] = {}
  /\ Hold(t, Own(t)) /\ Reach(t, "try")
  /\ UNCHANGED <<demo, shared, register, turns>>

\* The commented-out pthread_mutex_lock (lines 21 and 40).
BlockingLock(t) == holder[TheOther(t)] = {} /\ Hold(t, TheOther(t))   \* (mutant)
TryLock(t) == IF holder[TheOther(t)] = {} THEN Hold(t, TheOther(t)) ELSE UNCHANGED holder

TryOther(t) ==
  /\ demo = "mutex" /\ stage[t] = "try"
  /\ TryLock(t)
  /\ Reach(t, "read")
  /\ UNCHANGED <<demo, shared, register, turns>>

Unlocking(t) ==
  /\ demo = "mutex"
  /\ \/ stage[t] = "unlock" /\ FreeLock("mutex") /\ Reach(t, "unlock1")
     \/ stage[t] = "unlock1" /\ FreeLock("mutex1") /\ Reach(t, "end")
  /\ UNCHANGED <<demo, shared, register, turns>>
-----------------------------------------------------------------------------
(* The counting loops: read, add, write.  A turn of the mutex demo is one   *)
(* testsize++; of the others it is between lock and unlock.                 *)
Added == IF demo = "rwlock" THEN 20 ELSE 1
Counts(t) == t \notin Readers /\ demo # "cond"

ReadShared(t) ==
  /\ demo # "cond" /\ stage[t] = "read"
  /\ register' = [register EXCEPT ![t] = shared]
  /\ Reach(t, IF Counts(t) THEN "write" ELSE "unlock")
  /\ UNCHANGED <<demo, holder, shared, turns>>

WriteShared(t) ==
  /\ stage[t] = "write"
  /\ shared' = register[t] + Added
  /\ IF demo = "mutex"
     THEN /\ turns' = [turns EXCEPT ![t] = @ - 1]
          /\ Reach(t, IF turns[t] = 1 THEN "unlock" ELSE "read")
     ELSE UNCHANGED turns /\ Reach(t, "unlock")
  /\ UNCHANGED <<demo, holder, register>>

\* pthread_spin_lock and wrlock need the lock free, rdlock only of writers.
MayEnter(t) == holder["mutex"] \subseteq (IF t \in Readers THEN Readers ELSE {})

EnterTurn(t) ==
  /\ demo \in {"spin", "rwlock"} /\ stage[t] = "lock"
  /\ MayEnter(t)
  /\ Hold(t, "mutex") /\ Reach(t, "read")
  /\ UNCHANGED <<demo, shared, register, turns>>

LeaveTurn(t) ==
  /\ demo \in {"spin", "rwlock"} /\ stage[t] = "unlock"
  /\ holder' = [holder EXCEPT !["mutex"] = @ \ {t}]
  /\ turns' = [turns EXCEPT ![t] = @ - 1]
  /\ Reach(t, IF turns[t] = 1 THEN "end" ELSE "lock")
  /\ UNCHANGED <<demo, shared, register>>

ThreadStep(t) == \/ LockOwn(t) \/ TryOther(t) \/ Unlocking(t)
                 \/ ReadShared(t) \/ WriteShared(t) \/ EnterTurn(t) \/ LeaveTurn(t)

Scheduled(t) == demo # "cond" /\ t \in Threads /\ ThreadStep(t)

ThreadNext ==
  \/ Produce \/ Signal
  \/ \E c \in Consumers : \/ LockToConsume(c) \/ WaitForMore(c) \/ Consume(c)
                          \/ DoneConsuming(c) \/ WakeUnasked(c)
  \/ \E t \in Threads : Scheduled(t)

ThreadSpec == ThreadInit /\ [][ThreadNext]_threadVars

\* The system schedules the threads of the mutex demo and of the counters.
ThreadFairSpec == ThreadSpec /\ \A t \in AllThreads : WF_threadVars(Scheduled(t))
-----------------------------------------------------------------------------
(* No item waits for a consumer that nobody will wake: when something is    *)
(* available and both consumers wait, the producer is still about to signal. *)
NoLostWakeup ==
  demo = "cond" /\ shared > 0 /\ Waiters = Consumers => stage.main \in {"unlock", "signal"}

(* The threads of the mutex demo and of the counters all come to their end, *)
(* whatever the order in which they take the locks, so that main's joins    *)
(* return; and what the counters count to under the spin lock and under the *)
(* read-write lock is what they have added, none of it overwritten.         *)
ThreadsEnd ==
  <>(demo # "cond" =>
       /\ \A t \in Threads : stage[t] = "end"
       /\ demo \in {"spin", "rwlock"} =>
            shared = Added * Turns * Cardinality({t \in Threads : Counts(t)}))
=============================================================================
