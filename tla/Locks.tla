-------------------------------- MODULE Locks --------------------------------
(* The locks of src/mutex.h and their guards: SelfLock over Mutex and         *)
(* SpinLock, RDSelfLock and WRSelfLock over RWMutex.  A guard takes its lock  *)
(* in the constructor, lets go of it in the destructor, and in between its    *)
(* thread may call lock() and unlock() in any order; islock keeps the calls   *)
(* from reaching the lock twice.  Nobody looks at what pthread's calls        *)
(* return, so a guard whose call was refused believes that it holds its lock. *)
EXTENDS Integers, FiniteSets

CONSTANTS
    Guards,      \* the guard objects
    Threads,
    Locks,
    RWLocks,     \* the locks that are RWMutexes
    ThreadOf,    \* the thread whose stack holds each guard
    LockOf,      \* the lock each guard refers to
    Readers      \* the guards that are RDSelfLocks

ASSUME GuardsAssumption ==
    /\ IsFiniteSet(Guards)
    /\ ThreadOf \in [Guards -> Threads]
    /\ LockOf \in [Guards -> Locks]
    /\ RWLocks \subseteq Locks
    /\ Readers \subseteq {g \in Guards : LockOf[g] \in RWLocks}

VARIABLES
    stage,    \* of each guard: "none", "taking" (inside a call that takes the
              \* lock), "live", or "gone"
    islock,
    rd, wr,   \* of each lock: pthread's count of readers, and the thread that
              \* holds it for writing (or holds it, if no RWMutex), if any
    refused   \* history: the locks that have refused a call

vars == <<stage, islock, rd, wr, refused>>

Init ==
    /\ stage = [g \in Guards |-> "none"]
    /\ islock = [g \in Guards |-> FALSE]
    /\ rd = [l \in Locks |-> 0]
    /\ wr = [l \in Locks |-> {}]
    /\ refused = {}

\* A thread does one thing at a time: it is not inside a call that waits.
Running(t) == \A g \in Guards : ThreadOf[g] = t => stage[g] # "taking"

\* The constructor, up to the call that takes the lock.
Construct(g) ==
    /\ stage[g] = "none" /\ Running(ThreadOf[g])
    /\ stage' = [stage EXCEPT ![g] = "taking"]
    /\ UNCHANGED <<islock, rd, wr, refused>>

\* lock(): nothing happens when the flag says that the lock is held.
lock(g) ==
    /\ stage[g] = "live" /\ Running(ThreadOf[g])
    /\ ~islock[g]
    /\ stage' = [stage EXCEPT ![g] = "taking"]
    /\ UNCHANGED <<islock, rd, wr, refused>>

\* The call that takes the lock is over; the flag is set whatever it returned.
Returns(g) ==
    /\ stage[g] = "taking"
    /\ stage' = [stage EXCEPT ![g] = "live"]
    /\ islock' = [islock EXCEPT ![g] = TRUE]

\* Faulty variant: rdlock() does not wait for a writer.
AcquireNoWait(g) ==
    LET l == LockOf[g] IN
    /\ Returns(g)
    /\ IF g \in Readers THEN rd' = [rd EXCEPT ![l] = @ + 1] /\ UNCHANGED wr
       ELSE wr[l] = {} /\ rd[l] <= 0 /\ wr' = [wr EXCEPT ![l] = {ThreadOf[g]}] /\ UNCHANGED rd
    /\ UNCHANGED refused

\* pthread_mutex_lock, pthread_spin_lock, pthread_rwlock_wrlock or
\* pthread_rwlock_rdlock has taken the lock.  (A count below zero is the work
\* of an unlock() that had nothing to undo; a writer may get past it.)
Acquire(g) ==
    LET l == LockOf[g] IN
    /\ Returns(g)
    /\ wr[l] = {}
    /\ IF g \in Readers THEN rd' = [rd EXCEPT ![l] = @ + 1] /\ UNCHANGED wr
       ELSE rd[l] <= 0 /\ wr' = [wr EXCEPT ![l] = {ThreadOf[g]}] /\ UNCHANGED rd
    /\ UNCHANGED refused

\* Faulty variant: the calls try the lock instead of waiting for it.
RefusedTry(g) ==
    /\ Returns(g)
    /\ LockOf[g] \in RWLocks /\ wr[LockOf[g]] # {}
    /\ refused' = refused \cup {LockOf[g]}
    /\ UNCHANGED <<rd, wr>>

\* A read/write lock does not let its writer wait for itself: the call returns
\* EDEADLK without the lock.  Nor does it count a reader when the count is
\* below zero (EAGAIN).  A Mutex or a SpinLock has neither answer: there a
\* thread waits for itself as for any other.
Refused(g) ==
    LET l == LockOf[g] IN
    /\ Returns(g)
    /\ l \in RWLocks
    /\ wr[l] = {ThreadOf[g]} \/ (g \in Readers /\ rd[l] < 0)
    /\ refused' = refused \cup {l}
    /\ UNCHANGED <<rd, wr>>

\* The unlock of the lock itself, by thread t.  A read/write lock tells by its
\* own state what to undo: the writing of this thread, or else one reader, were
\* there none (two below zero is as good as any number).
Release(t, l) ==
    /\ IF l \notin RWLocks \/ wr[l] = {t}
       THEN wr' = [wr EXCEPT ![l] = {}] /\ UNCHANGED rd
       ELSE rd' = [rd EXCEPT ![l] = IF @ > -2 THEN @ - 1 ELSE @] /\ UNCHANGED wr
    /\ UNCHANGED refused

\* unlock(): nothing happens when the flag says that the lock is not held.
unlock(g) ==
    /\ stage[g] = "live" /\ Running(ThreadOf[g])
    /\ islock[g]
    /\ Release(ThreadOf[g], LockOf[g])
    /\ islock' = [islock EXCEPT ![g] = FALSE]
    /\ UNCHANGED stage

\* Faulty variant: the destructor unlocks whatever the flag says.
DestroyAlways(g) ==
    /\ stage[g] = "live" /\ Running(ThreadOf[g])
    /\ Release(ThreadOf[g], LockOf[g])
    /\ islock' = [islock EXCEPT ![g] = FALSE]
    /\ stage' = [stage EXCEPT ![g] = "gone"]

\* Faulty variant: the destructor leaves the lock as it is.
DestroyKeeps(g) ==
    /\ stage[g] = "live" /\ Running(ThreadOf[g])
    /\ islock' = [islock EXCEPT ![g] = FALSE]
    /\ stage' = [stage EXCEPT ![g] = "gone"]
    /\ UNCHANGED <<rd, wr, refused>>

\* The destructor, which calls unlock().
Destroy(g) ==
    /\ stage[g] = "live" /\ Running(ThreadOf[g])
    /\ IF islock[g] THEN Release(ThreadOf[g], LockOf[g]) ELSE UNCHANGED <<rd, wr, refused>>
    /\ islock' = [islock EXCEPT ![g] = FALSE]
    /\ stage' = [stage EXCEPT ![g] = "gone"]

Next == \E g \in Guards :
    Construct(g) \/ lock(g) \/ Acquire(g) \/ Refused(g) \/ unlock(g) \/ Destroy(g)

Spec == Init /\ [][Next]_vars

----------------------------------------------------------------------------
\* Type invariant.
TypeOK ==
    /\ stage \in [Guards -> {"none", "taking", "live", "gone"}]
    /\ islock \in [Guards -> BOOLEAN]
    /\ rd \in [Locks -> Int]
    /\ wr \in [Locks -> {{}} \cup {{t} : t \in Threads}]
    /\ refused \subseteq RWLocks

Holding(l) == {g \in Guards : LockOf[g] = l /\ islock[g]}
Writing(l) == Holding(l) \ Readers

\* Two guards of different threads, or of one, believe that they hold a lock at
\* the same time only if both are read guards, or the lock has refused a call.
Exclusion ==
    \A l \in Locks \ refused : \A g, h \in Holding(l) : g # h => g \in Readers /\ h \in Readers

\* As long as a lock has refused no call, the flags of its guards and its own
\* state agree whatever order the calls came in: no unlock is lost and none
\* reaches a lock that is not held, or is held by somebody else.  A guard that
\* is gone holds nothing.
HeldExactly ==
    /\ TypeOK
    /\ \A g \in Guards : islock[g] => stage[g] = "live"
    /\ \A l \in Locks \ refused :
         /\ rd[l] = Cardinality(Holding(l) \cap Readers)
         /\ wr[l] = {ThreadOf[g] : g \in Writing(l)}

\* The first call a lock refuses is that of a thread that holds it through a
\* write guard and asks for it through a second guard.
RefusedOnlyNested == [][
    \A l \in refused' \ refused : \E g \in Guards, h \in Writing(l) :
        /\ LockOf[g] = l /\ ThreadOf[g] = ThreadOf[h]
        /\ stage[g] = "taking" /\ ~islock[g] /\ islock'[g]]_vars

Waiting == {g \in Guards : stage[g] = "taking"}
CanReturn(g) ==
    LET l == LockOf[g] IN
    \/ wr[l] = {} /\ (g \in Readers \/ rd[l] = 0)
    \/ wr[l] = {ThreadOf[g]} /\ l \in RWLocks

\* Everybody waits for everybody only where some waiting thread already holds
\* a guard, or for a lock that has refused a call: threads with one guard at a
\* time cannot deadlock, a thread with two can do it alone.
DeadlockNeedsNesting ==
    Waiting # {} /\ (\A g \in Waiting : ~CanReturn(g)) /\ (\A t \in Threads : ~Running(t)) =>
        \/ \E g \in Waiting : LockOf[g] \in refused
        \/ \E g \in Waiting, h \in Guards : h # g /\ ThreadOf[h] = ThreadOf[g] /\ islock[h]

=============================================================================
