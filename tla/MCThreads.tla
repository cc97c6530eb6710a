----------------------------- MODULE MCThreads -----------------------------
(* The lock guards and the Thread objects for TLC.  Neither uses the other,   *)
(* so a behaviour moves one of them (`part') and leaves the other in its      *)
(* initial state.                                                             *)
EXTENDS Locks

CONSTANT Objects   \* the Thread objects

\* The first lock is a Mutex, the second an RWMutex.  Thread 1 has a guard on
\* each, thread 2 one on the first and two on the second; the even guards are
\* read guards.
MCThreadOf == <<1, 1, 2, 2, 2>>
MCLockOf == <<1, 2, 1, 2, 2>>

VARIABLES part, owner, child, live, m_id, m_sem, m_thread, released, stale

threadVars == <<owner, child, live, m_id, m_sem, m_thread, released, stale>>

Thr == INSTANCE Thread WITH Threads <- Objects

MCInit == part \in {"locks", "thread"} /\ Init /\ Thr!Init

MCNext ==
    \/ part = "locks" /\ Next /\ UNCHANGED <<part, threadVars>>
    \/ part = "thread" /\ Thr!Next /\ UNCHANGED <<part, vars>>

MCSpec == MCInit /\ [][MCNext]_<<part, vars, threadVars>> /\ Thr!Fairness

----------------------------------------------------------------------------
\* Once Thread's constructor has returned, getThreadId() gives the id that
\* run() stored.
IdKnown == Thr!IdKnown

\* After Thread::join the thread has ended and has never touched a dead object.
JoinedIsOver == Thr!JoinedIsOver

\* Thread::join and the destructor release the pthread exactly once.
ReleasedOnce == Thr!TypeOK /\ Thr!ReleasedOnce

\* Thread's constructor returns if the thread could be created.
ConstructorEnds == Thr!ConstructorEnds
=============================================================================
