------------------------------- MODULE Thread -------------------------------
(***************************************************************************)
(* tadpole::Thread (src/src/thread.cc) and the Semaphore it uses           *)
(* (src/src/mutex.cc): the owner's constructor, join and destructor        *)
(* against the new thread's run().  Both use the Thread object; m_sem      *)
(* makes the constructor wait until run() has registered itself.           *)
(***************************************************************************)
EXTENDS Naturals

CONSTANT Threads  \* the Thread objects

VARIABLES
    owner,    \* where the code that owns the object is
    child,    \* where the thread's run() is
    live,     \* whether the object's memory is valid
    m_id,     \* whether m_id has been set
    m_sem,    \* value of the semaphore
    m_thread, \* whether m_thread holds a handle (is not 0)
    released, \* how often the pthread was joined or detached
    stale     \* whether run() has touched the object after its end

vars == <<owner, child, live, m_id, m_sem, m_thread, released, stale>>

Init ==
    /\ owner = [x \in Threads |-> "none"]
    /\ child = [x \in Threads |-> "none"]
    /\ live = [x \in Threads |-> FALSE]
    /\ m_id = [x \in Threads |-> FALSE]
    /\ m_sem = [x \in Threads |-> 0]
    /\ m_thread = [x \in Threads |-> FALSE]
    /\ released = [x \in Threads |-> 0]
    /\ stale = [x \in Threads |-> FALSE]

Set(f, x, v) == [f EXCEPT ![x] = v]

-----------------------------------------------------------------------------
(* The owner.                                                              *)

\* The constructor calls pthread_create.  A failure is a positive number,
\* which the test against -1 does not see: the constructor waits either way.
Construct(x) ==
    /\ owner[x] = "none"
    /\ owner' = Set(owner, x, "wait")
    /\ live' = Set(live, x, TRUE)
    /\ \/ child' = Set(child, x, "created") /\ m_thread' = Set(m_thread, x, TRUE)
       \/ UNCHANGED <<child, m_thread>>
    /\ UNCHANGED <<m_id, m_sem, released, stale>>

\* m_sem.wait() returns and so does the constructor.
Wait(x) ==
    /\ owner[x] = "wait"
    /\ m_sem[x] > 0
    /\ m_sem' = Set(m_sem, x, m_sem[x] - 1)
    /\ owner' = Set(owner, x, "ready")
    /\ UNCHANGED <<child, live, m_id, m_thread, released, stale>>

\* A signal interrupts sem_wait: wait() throws, the constructor is left by the
\* exception and the object is gone.  Its destructor does not run.
WaitThrows(x) ==
    /\ owner[x] = "wait"
    /\ owner' = Set(owner, x, "threw")
    /\ live' = Set(live, x, FALSE)
    /\ UNCHANGED <<child, m_id, m_sem, m_thread, released, stale>>

\* Faulty variant: m_thread keeps the handle.
joinKeepsHandle(x) ==
    /\ owner[x] = "ready"
    /\ m_thread[x]
    /\ child[x] = "done"
    /\ released' = Set(released, x, released[x] + 1)
    /\ owner' = Set(owner, x, "joined")
    /\ UNCHANGED <<child, live, m_id, m_sem, m_thread, stale>>

\* Faulty variant: pthread_detach in place of pthread_join.
joinDetaches(x) ==
    /\ owner[x] = "ready"
    /\ m_thread[x]
    /\ released' = Set(released, x, released[x] + 1)
    /\ m_thread' = Set(m_thread, x, FALSE)
    /\ owner' = Set(owner, x, "joined")
    /\ UNCHANGED <<child, live, m_id, m_sem, stale>>

\* join(): waits for the thread to end and forgets the handle.
join(x) ==
    /\ owner[x] = "ready"
    /\ m_thread[x]
    /\ child[x] = "done"
    /\ released' = Set(released, x, released[x] + 1)
    /\ m_thread' = Set(m_thread, x, FALSE)
    /\ owner' = Set(owner, x, "joined")
    /\ UNCHANGED <<child, live, m_id, m_sem, stale>>

\* The destructor, after join() or without it, detaches if there is a handle.
Destroy(x) ==
    /\ owner[x] \in {"ready", "joined"}
    /\ released' = IF m_thread[x] THEN Set(released, x, released[x] + 1) ELSE released
    /\ live' = Set(live, x, FALSE)
    /\ owner' = Set(owner, x, "gone")
    /\ UNCHANGED <<child, m_id, m_sem, m_thread, stale>>

-----------------------------------------------------------------------------
(* run() in the new thread.  Each step uses the object.                    *)

Touch(x) == stale' = Set(stale, x, stale[x] \/ ~live[x])

\* t_thread, m_id and the name.
Register(x) ==
    /\ child[x] = "created"
    /\ m_id' = Set(m_id, x, TRUE)
    /\ child' = Set(child, x, "registered")
    /\ Touch(x)
    /\ UNCHANGED <<owner, live, m_sem, m_thread, released>>

\* Faulty variant: the semaphore is posted before run() has registered.
NotifyEarly(x) ==
    /\ child[x] \in {"created", "registered"}
    /\ m_sem' = Set(m_sem, x, m_sem[x] + 1)
    /\ child' = Set(child, x, IF child[x] = "created" THEN "created" ELSE "notified")
    /\ m_sem[x] = 0
    /\ Touch(x)
    /\ UNCHANGED <<owner, live, m_id, m_thread, released>>

\* Faulty variant: run() does not post the semaphore.
NotifyLost(x) ==
    /\ child[x] = "registered"
    /\ child' = Set(child, x, "notified")
    /\ Touch(x)
    /\ UNCHANGED <<owner, live, m_id, m_sem, m_thread, released>>

\* m_sem.notify().
Notify(x) ==
    /\ child[x] = "registered"
    /\ m_sem' = Set(m_sem, x, m_sem[x] + 1)
    /\ child' = Set(child, x, "notified")
    /\ Touch(x)
    /\ UNCHANGED <<owner, live, m_id, m_thread, released>>

\* The test of m_cb, and the call of the function object it holds.
CallCb(x) ==
    /\ child[x] = "notified"
    /\ child' = Set(child, x, "running")
    /\ Touch(x)
    /\ UNCHANGED <<owner, live, m_id, m_sem, m_thread, released>>

\* The callback, whose state lives in m_cb, ends and so does the thread.
Finish(x) ==
    /\ child[x] = "running"
    /\ child' = Set(child, x, "done")
    /\ Touch(x)
    /\ UNCHANGED <<owner, live, m_id, m_sem, m_thread, released>>

OwnerStep(x) == Construct(x) \/ Wait(x) \/ WaitThrows(x) \/ join(x) \/ Destroy(x)
ChildStep(x) == Register(x) \/ Notify(x) \/ CallCb(x) \/ Finish(x)

Next == \E x \in Threads : OwnerStep(x) \/ ChildStep(x)

\* The operating system runs every thread that can run; a callback need not
\* end, and an owner need not construct, join or destroy.
Fairness == \A x \in Threads :
    WF_vars(Register(x) \/ Notify(x)) /\ WF_vars(Wait(x))

Spec == Init /\ [][Next]_vars
FairSpec == Spec /\ Fairness

-----------------------------------------------------------------------------
\* Type invariant; the semaphore is only ever 0 or 1.
TypeOK ==
    /\ owner \in [Threads -> {"none", "wait", "ready", "joined", "gone", "threw"}]
    /\ child \in [Threads -> {"none", "created", "registered", "notified", "running", "done"}]
    /\ live \in [Threads -> BOOLEAN]
    /\ m_id \in [Threads -> BOOLEAN]
    /\ m_sem \in [Threads -> 0..1]
    /\ m_thread \in [Threads -> BOOLEAN]
    /\ released \in [Threads -> 0..1]
    /\ stale \in [Threads -> BOOLEAN]

\* Once the constructor has returned, getThreadId() gives the id run() stored.
IdKnown == \A x \in Threads : owner[x] \in {"ready", "joined"} => m_id[x]

\* After join() the thread has ended and has never touched a dead object: an
\* owner that joins before it destroys is safe.
JoinedIsOver ==
    \A x \in Threads : owner[x] = "joined" => child[x] = "done" /\ ~stale[x]

\* join() and the destructor release the pthread exactly once between them.
ReleasedOnce ==
    \A x \in Threads :
        released[x] = IF owner[x] \in {"joined", "gone"} THEN 1 ELSE 0

\* If the thread could be created, the constructor ends.
ConstructorEnds ==
    \A x \in Threads :
        owner[x] = "wait" /\ child[x] # "none" ~> owner[x] # "wait"

\* An owner may let the Thread object go while the thread runs: run() does
\* not use the object after the destructor.
NoUseAfterDestroy == \A x \in Threads : owner[x] = "gone" => ~stale[x]

=============================================================================
