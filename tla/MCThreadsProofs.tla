-------------------------- MODULE MCThreadsProofs --------------------------
(* The lock guards of src/mutex.h for any number of guards, threads and       *)
(* locks: exclusion and agreement of the flags with the locks until a lock    *)
(* refuses a call, what that takes, and deadlock by nesting.  And the life of *)
(* any number of tadpole::Thread objects (src/thread.cc): the invariants that *)
(* tie the owner's constructor, join and destructor to the new thread's run().*)
EXTENDS MCThreads, FiniteSetTheorems, TLAPS

----------------------------------------------------------------------------
(* The lock guards.                                                           *)

\* The inductive invariant.  Neither half is inductive alone: that a release
\* undoes what its own guard took needs exclusion, and that a lock which looks
\* free has no holder needs the agreement.
IInv == HeldExactly /\ Exclusion

\* The read guards that hold a lock: those that pthread counts.
Reading(l) == Holding(l) \cap Readers

\* What the invariant says of one lock.
Agrees(l) ==
    /\ rd[l] = Cardinality(Reading(l))
    /\ wr[l] = {ThreadOf[g] : g \in Writing(l)}
Alone(l) == \A g, h \in Holding(l) : g # h => g \in Readers /\ h \in Readers

----------------------------------------------------------------------------
\* The holders of a lock are guards, so they can be counted.
LEMMA ReadingCount ==
    ASSUME NEW l \in Locks
    PROVE  /\ IsFiniteSet(Reading(l))
           /\ Cardinality(Reading(l)) \in Nat
           /\ Cardinality(Reading(l)) = 0 <=> Reading(l) = {}
<1>1. IsFiniteSet(Guards) /\ Reading(l) \subseteq Guards
  BY GuardsAssumption DEF Reading, Holding
<1>2. IsFiniteSet(Reading(l)) BY <1>1, FS_Subset
<1>3. Cardinality(Reading(l)) \in Nat BY <1>2, FS_CardinalityType
<1>4. Cardinality(Reading(l)) = 0 <=> Reading(l) = {}
  BY <1>2, FS_EmptySet
<1> QED BY <1>2, <1>3, <1>4

\* The invariant at a lock that has refused no call.
LEMMA AtLock ==
    ASSUME IInv, NEW l \in Locks, l \notin refused
    PROVE  Agrees(l) /\ Alone(l)
BY DEF IInv, HeldExactly, Exclusion, Agrees, Alone, Reading

\* A lock that pthread would give to a guard has no holder but readers, and
\* none at all for a write guard.
LEMMA FreeLock ==
    ASSUME IInv, NEW l \in Locks, l \notin refused, wr[l] = {}
    PROVE  /\ Holding(l) \subseteq Readers
           /\ rd[l] \in Nat
           /\ rd[l] = 0 => Holding(l) = {}
<1>1. Agrees(l) BY AtLock
<1>2. Writing(l) = {} BY <1>1 DEF Agrees
<1>3. Reading(l) = Holding(l) BY <1>2 DEF Reading, Writing
<1>4. rd[l] = Cardinality(Reading(l)) BY <1>1 DEF Agrees
<1> QED BY <1>2, <1>3, <1>4, ReadingCount DEF Writing

\* The holder of a lock that is held for writing is alone, a write guard, and
\* of the thread that pthread knows as the writer; the holder of any other lock
\* is a read guard.
LEMMA HolderKind ==
    ASSUME IInv, NEW g \in Guards, islock[g], LockOf[g] \notin refused
    PROVE  IF wr[LockOf[g]] = {} THEN g \in Readers
           ELSE /\ Holding(LockOf[g]) = {g} /\ g \notin Readers
                /\ wr[LockOf[g]] = {ThreadOf[g]}
<1> DEFINE l == LockOf[g]
<1>1. l \in Locks BY GuardsAssumption
<1>2. g \in Holding(l) BY DEF Holding
<1>3. ASSUME wr[l] # {}
      PROVE  Holding(l) = {g} /\ g \notin Readers /\ wr[l] = {ThreadOf[g]}
  <2>1. wr[l] = {ThreadOf[h] : h \in Writing(l)} BY <1>1, AtLock DEF Agrees
  <2>2. PICK h \in Writing(l) : TRUE BY <1>3, <2>1
  <2>3. h \in Holding(l) /\ h \notin Readers BY <2>2 DEF Writing
  <2>4. \A k \in Holding(l) : k = h BY <1>1, <2>3, AtLock DEF Alone
  <2>5. Holding(l) = {g} /\ g \notin Readers BY <1>2, <2>3, <2>4
  <2>6. Writing(l) = {g} BY <2>5 DEF Writing
  <2> QED BY <2>1, <2>5, <2>6
<1>4. ASSUME wr[l] = {} PROVE g \in Readers
  BY <1>1, <1>2, <1>4, FreeLock
<1> QED BY <1>3, <1>4

----------------------------------------------------------------------------
\* No step that leaves the locks and the flags alone, and only changes stages
\* of guards that hold nothing, disturbs the invariant.
LEMMA StageStep ==
    ASSUME IInv, NEW g \in Guards, ~islock[g],
           NEW s \in {"taking", "gone"}, stage' = [stage EXCEPT ![g] = s],
           UNCHANGED <<islock, rd, wr, refused>>
    PROVE  IInv'
<1>1. TypeOK' BY DEF IInv, HeldExactly, TypeOK
<1>2. \A h \in Guards : islock'[h] => stage'[h] = "live"
  BY DEF IInv, HeldExactly, TypeOK
<1>3. \A l \in Locks : Holding(l)' = Holding(l) BY DEF Holding
<1>4. \A l \in Locks : Writing(l)' = Writing(l) BY <1>3 DEF Writing
<1> QED BY <1>1, <1>2, <1>3, <1>4 DEF IInv, HeldExactly, Exclusion

\* A step at one lock leaves the invariant to be shown for that lock, unless
\* that lock has refused a call.
LEMMA OneLock ==
    ASSUME IInv, TypeOK', \A h \in Guards : islock'[h] => stage'[h] = "live",
           NEW l \in Locks, refused \subseteq refused',
           \A m \in Locks \ {l} :
               Holding(m)' = Holding(m) /\ rd'[m] = rd[m] /\ wr'[m] = wr[m],
           l \in refused' \/ (Agrees(l)' /\ Alone(l)')
    PROVE  IInv'
<1>1. ASSUME NEW m \in Locks, m \notin refused' PROVE Agrees(m)' /\ Alone(m)'
  <2>1. CASE m = l BY <1>1, <2>1
  <2>2. CASE m # l
    <3>1. Agrees(m) /\ Alone(m) BY <1>1, AtLock
    <3>2. Reading(m)' = Reading(m) /\ Writing(m)' = Writing(m) /\ Holding(m)' = Holding(m)
      BY <2>2 DEF Reading, Writing
    <3>3. rd'[m] = rd[m] /\ wr'[m] = wr[m] BY <2>2
    <3> QED BY <3>1, <3>2, <3>3 DEF Agrees, Alone
  <2> QED BY <2>1, <2>2
<1>2. HeldExactly' BY <1>1 DEF HeldExactly, Agrees, Reading
<1>3. Exclusion' BY <1>1 DEF Exclusion, Alone
<1> QED BY <1>2, <1>3 DEF IInv

\* The return of pthread's call makes the guard a holder, in its own eyes.
LEMMA ReturnStep ==
    ASSUME IInv, NEW g \in Guards, Returns(g)
    PROVE  /\ stage' \in [Guards -> {"none", "taking", "live", "gone"}]
           /\ islock' \in [Guards -> BOOLEAN]
           /\ \A h \in Guards : islock'[h] => stage'[h] = "live"
           /\ ~islock[g]
           /\ Holding(LockOf[g])' = Holding(LockOf[g]) \cup {g}
           /\ \A m \in Locks \ {LockOf[g]} : Holding(m)' = Holding(m)
<1>1. TypeOK /\ \A h \in Guards : islock[h] => stage[h] = "live"
  BY DEF IInv, HeldExactly
<1>2. ~islock[g] BY <1>1 DEF Returns, TypeOK
<1>3. islock' = [islock EXCEPT ![g] = TRUE] /\ stage' = [stage EXCEPT ![g] = "live"]
  BY DEF Returns
<1>4. /\ stage' \in [Guards -> {"none", "taking", "live", "gone"}]
      /\ islock' \in [Guards -> BOOLEAN]
  BY <1>1, <1>3 DEF TypeOK
<1>5. \A h \in Guards : islock'[h] => stage'[h] = "live"
  BY <1>1, <1>3 DEF TypeOK
<1>6. /\ Holding(LockOf[g])' = Holding(LockOf[g]) \cup {g}
      /\ \A m \in Locks \ {LockOf[g]} : Holding(m)' = Holding(m)
  BY <1>1, <1>3 DEF Holding, TypeOK
<1> QED BY <1>2, <1>4, <1>5, <1>6

\* A call that took the lock: the guard was no holder, and becomes one.
LEMMA AcquireStep ==
    ASSUME IInv, NEW g \in Guards, Acquire(g)
    PROVE  IInv'
<1> DEFINE l == LockOf[g]
<1>1. l \in Locks /\ ThreadOf[g] \in Threads /\ wr[l] = {} /\ Returns(g) /\ refused' = refused
  BY GuardsAssumption DEF Acquire
<1>2. TypeOK BY DEF IInv, HeldExactly
<1>3. TypeOK'
  <2>1. CASE g \in Readers
    <3>1. rd' = [rd EXCEPT ![l] = @ + 1] /\ wr' = wr BY <2>1 DEF Acquire
    <3>2. rd' \in [Locks -> Int] BY <1>1, <1>2, <3>1 DEF TypeOK
    <3> QED BY <1>1, <1>2, <3>1, <3>2, ReturnStep DEF TypeOK
  <2>2. CASE g \notin Readers
    <3>1. wr' = [wr EXCEPT ![l] = {ThreadOf[g]}] /\ rd' = rd BY <2>2 DEF Acquire
    <3>2. wr' \in [Locks -> {{}} \cup {{t} : t \in Threads}] BY <1>1, <1>2, <3>1 DEF TypeOK
    <3> QED BY <1>1, <1>2, <3>1, <3>2, ReturnStep DEF TypeOK
  <2> QED BY <2>1, <2>2
<1>4. \A m \in Locks \ {l} : Holding(m)' = Holding(m) /\ rd'[m] = rd[m] /\ wr'[m] = wr[m]
  <2>1. \A m \in Locks \ {l} : rd'[m] = rd[m] /\ wr'[m] = wr[m]
    BY <1>1, <1>2 DEF Acquire, TypeOK
  <2> QED BY <1>1, <2>1, ReturnStep
<1>5. ASSUME l \notin refused PROVE Agrees(l)' /\ Alone(l)'
  <2>1. Holding(l)' = Holding(l) \cup {g} /\ g \notin Holding(l)
    BY <1>1, ReturnStep DEF Holding
  <2>2. Holding(l) \subseteq Readers /\ rd[l] \in Nat /\ (rd[l] = 0 => Holding(l) = {})
    BY <1>1, <1>5, FreeLock
  <2>3. rd[l] = Cardinality(Reading(l)) BY <1>1, <1>5, AtLock DEF Agrees
  <2>4. CASE g \in Readers
    <3>1. rd'[l] = rd[l] + 1 /\ wr'[l] = {} BY <1>1, <1>2, <2>4 DEF Acquire, TypeOK
    <3>2. Reading(l)' = Reading(l) \cup {g} /\ g \notin Reading(l)
      BY <2>1, <2>4 DEF Reading
    <3>3. Cardinality(Reading(l)') = Cardinality(Reading(l)) + 1
      BY <1>1, <3>2, ReadingCount, FS_AddElement
    <3>4. Writing(l)' = {} BY <2>1, <2>2, <2>4 DEF Writing
    <3>5. Alone(l)' BY <2>1, <2>2, <2>4 DEF Alone
    <3> QED BY <2>3, <3>1, <3>3, <3>4, <3>5 DEF Agrees
  <2>5. CASE g \notin Readers
    <3>1. rd[l] <= 0 /\ rd'[l] = rd[l] /\ wr'[l] = {ThreadOf[g]}
      BY <1>1, <1>2, <2>5 DEF Acquire, TypeOK
    <3>2. rd[l] = 0 BY <2>2, <3>1
    <3>3. Holding(l)' = {g} BY <2>1, <2>2, <3>2
    <3>4. Reading(l)' = Reading(l) BY <2>1, <2>5 DEF Reading
    <3>5. Writing(l)' = {g} BY <2>5, <3>3 DEF Writing
    <3>6. Alone(l)' BY <3>3 DEF Alone
    <3> QED BY <2>3, <3>1, <3>4, <3>5, <3>6 DEF Agrees
  <2> QED BY <2>4, <2>5
<1>6. \A h \in Guards : islock'[h] => stage'[h] = "live" BY <1>1, ReturnStep
<1> QED BY <1>1, <1>3, <1>4, <1>5, <1>6, OneLock

\* A call that was refused leaves the locks alone; of this one the invariant
\* says nothing from here on.
LEMMA RefusedStep ==
    ASSUME IInv, NEW g \in Guards, Refused(g)
    PROVE  IInv'
<1> DEFINE l == LockOf[g]
<1>1. /\ l \in Locks /\ l \in RWLocks /\ Returns(g)
      /\ refused' = refused \cup {l} /\ rd' = rd /\ wr' = wr
  BY GuardsAssumption DEF Refused
<1>2. TypeOK' BY <1>1, ReturnStep DEF IInv, HeldExactly, TypeOK
<1>3. \A m \in Locks \ {l} : Holding(m)' = Holding(m) /\ rd'[m] = rd[m] /\ wr'[m] = wr[m]
  BY <1>1, ReturnStep
<1>4. \A h \in Guards : islock'[h] => stage'[h] = "live" BY <1>1, ReturnStep
<1> QED BY <1>1, <1>2, <1>3, <1>4, OneLock

\* A guard that holds its lock lets go of it, by unlock() or in the destructor:
\* pthread undoes what this guard took.
LEMMA ReleaseStep ==
    ASSUME IInv, NEW g \in Guards, islock[g], Release(ThreadOf[g], LockOf[g]),
           islock' = [islock EXCEPT ![g] = FALSE],
           NEW s \in {"live", "gone"}, stage' = [stage EXCEPT ![g] = s]
    PROVE  IInv'
<1> DEFINE l == LockOf[g]
<1>1. l \in Locks /\ refused' = refused BY GuardsAssumption DEF Release
<1>2. TypeOK BY DEF IInv, HeldExactly
<1>3. /\ Holding(l)' = Holding(l) \ {g} /\ g \in Holding(l)
      /\ \A m \in Locks \ {l} : Holding(m)' = Holding(m)
  BY <1>2 DEF Holding, TypeOK
<1>4. \A h \in Guards : islock'[h] => stage'[h] = "live"
  BY <1>2 DEF IInv, HeldExactly, TypeOK
<1>5. TypeOK'
  <2>1. rd' \in [Locks -> Int] BY <1>1, <1>2 DEF Release, TypeOK
  <2>2. wr' \in [Locks -> {{}} \cup {{t} : t \in Threads}] BY <1>1, <1>2 DEF Release, TypeOK
  <2> QED BY <1>1, <1>2, <2>1, <2>2 DEF TypeOK
<1>6. \A m \in Locks \ {l} : Holding(m)' = Holding(m) /\ rd'[m] = rd[m] /\ wr'[m] = wr[m]
  <2>1. \A m \in Locks \ {l} : rd'[m] = rd[m] /\ wr'[m] = wr[m]
    BY <1>1, <1>2 DEF Release, TypeOK
  <2> QED BY <1>3, <2>1
<1>7. ASSUME l \notin refused PROVE Agrees(l)' /\ Alone(l)'
  <2>1. rd[l] = Cardinality(Reading(l)) /\ Alone(l) BY <1>1, <1>7, AtLock DEF Agrees
  <2>2. Alone(l)' BY <1>3, <2>1 DEF Alone
  <2>3. CASE wr[l] # {}
    <3>1. Holding(l) = {g} /\ g \notin Readers /\ wr[l] = {ThreadOf[g]}
      BY <1>7, <2>3, HolderKind
    <3>2. rd'[l] = rd[l] /\ wr'[l] = {} BY <1>1, <1>2, <3>1 DEF Release, TypeOK
    <3>3. Reading(l)' = Reading(l) /\ Writing(l)' = {}
      BY <1>3, <3>1 DEF Reading, Writing
    <3> QED BY <2>1, <2>2, <3>2, <3>3 DEF Agrees
  <2>4. CASE wr[l] = {}
    <3>1. g \in Readers /\ l \in RWLocks BY <1>7, <2>4, HolderKind, GuardsAssumption
    <3>2. Holding(l) \subseteq Readers /\ rd[l] \in Nat BY <1>1, <1>7, <2>4, FreeLock
    <3>3. rd'[l] = rd[l] - 1 /\ wr'[l] = {}
      BY <1>1, <1>2, <2>4, <3>1, <3>2 DEF Release, TypeOK
    <3>4. Reading(l)' = Reading(l) \ {g} /\ g \in Reading(l)
      BY <1>3, <3>1 DEF Reading
    <3>5. Cardinality(Reading(l)') = Cardinality(Reading(l)) - 1
      BY <1>1, <3>4, ReadingCount, FS_RemoveElement
    <3>6. Writing(l)' = {} BY <1>3, <3>2 DEF Writing
    <3> QED BY <2>1, <2>2, <3>3, <3>5, <3>6 DEF Agrees
  <2> QED BY <2>3, <2>4
<1> QED BY <1>1, <1>4, <1>5, <1>6, <1>7, OneLock

----------------------------------------------------------------------------
\* At the start no guard holds anything.
LEMMA InitInv == Init => IInv
<1> SUFFICES ASSUME Init PROVE IInv OBVIOUS
<1>1. \A l \in Locks : Holding(l) = {} BY DEF Init, Holding
<1>2. \A l \in Locks : Reading(l) = {} /\ Writing(l) = {} BY <1>1 DEF Reading, Writing
<1>3. Cardinality({}) = 0 BY FS_EmptySet
<1>4. TypeOK BY DEF Init, TypeOK
<1>5. \A l \in Locks : Agrees(l) BY <1>2, <1>3 DEF Init, Agrees
<1>6. Exclusion BY <1>1 DEF Exclusion
<1> QED BY <1>4, <1>5, <1>6 DEF IInv, HeldExactly, Init, Agrees, Reading

\* Every call of every guard preserves the invariant.
LEMMA NextInv == IInv /\ [Next]_vars => IInv'
<1> SUFFICES ASSUME IInv, [Next]_vars PROVE IInv' OBVIOUS
<1>1. CASE UNCHANGED vars
  BY <1>1 DEF vars, IInv, HeldExactly, Exclusion, TypeOK, Holding, Writing
<1>2. ASSUME NEW g \in Guards, Construct(g) PROVE IInv'
  <2>1. ~islock[g] BY <1>2 DEF Construct, IInv, HeldExactly
  <2> QED BY <1>2, <2>1, StageStep DEF Construct
<1>3. ASSUME NEW g \in Guards, lock(g) PROVE IInv'
  BY <1>3, StageStep DEF lock
<1>4. ASSUME NEW g \in Guards, Acquire(g) PROVE IInv'
  BY <1>4, AcquireStep
<1>5. ASSUME NEW g \in Guards, Refused(g) PROVE IInv'
  BY <1>5, RefusedStep
<1>6. ASSUME NEW g \in Guards, unlock(g) PROVE IInv'
  <2>1. stage' = [stage EXCEPT ![g] = "live"]
    BY <1>6 DEF unlock, IInv, HeldExactly, TypeOK
  <2> QED BY <1>6, <2>1, ReleaseStep DEF unlock
<1>7. ASSUME NEW g \in Guards, Destroy(g) PROVE IInv'
  <2>1. CASE islock[g] BY <1>7, <2>1, ReleaseStep DEF Destroy
  <2>2. CASE ~islock[g]
    <3>1. islock' = islock BY <1>7, <2>2 DEF Destroy, IInv, HeldExactly, TypeOK
    <3> QED BY <1>7, <2>2, <3>1, StageStep DEF Destroy
  <2> QED BY <2>1, <2>2
<1> QED BY <1>1, <1>2, <1>3, <1>4, <1>5, <1>6, <1>7 DEF Next

\* The invariant of the guards.
LEMMA GuardsInv == Spec => []IInv
BY InitInv, NextInv, PTL DEF Spec

----------------------------------------------------------------------------
\* The flags of the guards and the state of the locks agree, whatever order the
\* calls of lock() and unlock() and the destructors come in, until a lock
\* refuses a call.
THEOREM GuardsExact == Spec => []HeldExactly
<1>1. IInv => HeldExactly BY DEF IInv
<1> QED BY <1>1, GuardsInv, PTL

\* A lock that several guards believe they hold is held by read guards only, or
\* has refused a call.
THEOREM MutualExclusion == Spec => []Exclusion
<1>1. IInv => Exclusion BY DEF IInv
<1> QED BY <1>1, GuardsInv, PTL

\* A lock refuses its first call to the thread that holds it through a write
\* guard, and asks for it through another: guards that are not nested on one
\* RWMutex exclude each other and agree with their locks for ever.
THEOREM RefusedTheorem == Spec => RefusedOnlyNested
<1> DEFINE Nested(l) ==
        \E g \in Guards, h \in Writing(l) :
            /\ LockOf[g] = l /\ ThreadOf[g] = ThreadOf[h]
            /\ stage[g] = "taking" /\ ~islock[g] /\ islock'[g]
<1>1. IInv /\ [Next]_vars => [\A l \in refused' \ refused : Nested(l)]_vars
  <2> SUFFICES ASSUME IInv, Next, NEW l \in refused', l \notin refused PROVE Nested(l)
    BY DEF vars
  <2>1. PICK g \in Guards : Refused(g)
    BY DEF Next, Construct, lock, Acquire, unlock, Destroy, Release
  <2>2. LockOf[g] = l /\ l \in Locks BY <2>1, GuardsAssumption DEF Refused
  <2>3. stage[g] = "taking" /\ ~islock[g] /\ islock'[g]
    <3>1. stage[g] = "taking" /\ islock' = [islock EXCEPT ![g] = TRUE] /\ TypeOK
      BY <2>1 DEF Refused, Returns, IInv, HeldExactly
    <3>2. ~islock[g] BY <2>1, ReturnStep DEF Refused
    <3> QED BY <3>1, <3>2 DEF TypeOK
  <2>4. Agrees(l) BY <2>2, AtLock
  <2>5. wr[l] = {ThreadOf[g]}
    <3>1. rd[l] \in Nat BY <2>2, <2>4, ReadingCount DEF Agrees
    <3> QED BY <2>1, <2>2, <3>1 DEF Refused
  <2>6. PICK h \in Writing(l) : ThreadOf[h] = ThreadOf[g] BY <2>4, <2>5 DEF Agrees
  <2> QED BY <2>2, <2>3, <2>6
<1> QED BY <1>1, GuardsInv, PTL DEF Spec, RefusedOnlyNested

\* Threads that all wait for ever are the work of a thread that holds one guard
\* while it waits for another, or of a call that was refused.
THEOREM NestingDeadlocks == Spec => []DeadlockNeedsNesting
<1>1. IInv => DeadlockNeedsNesting
  <2> SUFFICES ASSUME IInv, NEW g \in Waiting, ~CanReturn(g), LockOf[g] \notin refused,
                      \A t \in Threads : ~Running(t)
               PROVE  \E k \in Waiting, h \in Guards :
                         h # k /\ ThreadOf[h] = ThreadOf[k] /\ islock[h]
    BY DEF DeadlockNeedsNesting
  <2> DEFINE l == LockOf[g]
  <2>1. g \in Guards /\ l \in Locks BY GuardsAssumption DEF Waiting
  <2>2. wr[l] # {} \/ rd[l] # 0 BY DEF CanReturn
  <2>3. PICK h \in Holding(l) : TRUE
    <3>1. Agrees(l) BY <2>1, AtLock
    <3>2. CASE wr[l] # {}
      <4>1. Writing(l) # {} BY <3>1, <3>2 DEF Agrees
      <4> QED BY <4>1 DEF Writing
    <3>3. CASE rd[l] # 0
      <4>1. Reading(l) # {} BY <2>1, <3>1, <3>3, ReadingCount DEF Agrees
      <4> QED BY <4>1 DEF Reading
    <3> QED BY <2>2, <3>2, <3>3
  <2>4. h \in Guards /\ islock[h] /\ stage[h] = "live" /\ ThreadOf[h] \in Threads
    BY <2>3, GuardsAssumption DEF Holding, IInv, HeldExactly
  <2>5. PICK k \in Guards : ThreadOf[k] = ThreadOf[h] /\ stage[k] = "taking"
    BY <2>4 DEF Running
  <2> QED BY <2>4, <2>5 DEF Waiting
<1> QED BY <1>1, GuardsInv, PTL

----------------------------------------------------------------------------
(* The Thread objects beside the guards.                                      *)

\* Where the owner has got past the wait in the constructor.
Returned == {"ready", "joined", "gone"}

\* The inductive invariant of one object.  The constructor returns only after
\* notify, so a thread whose owner goes on has registered and can be joined or
\* detached; it is posted once, so the semaphore is used up by then; and run()
\* touches a dead object only when the object is dead.
Life(x) ==
    /\ live[x] <=> owner[x] \in {"wait", "ready", "joined"}
    /\ owner[x] = "none" => child[x] = "none"
    /\ child[x] \in {"none", "created", "registered"} => m_sem[x] = 0 /\ owner[x] \notin Returned
    /\ owner[x] \in Returned => m_sem[x] = 0
    /\ child[x] \notin {"none", "created"} => m_id[x]
    /\ owner[x] = "ready" => m_thread[x]
    /\ child[x] # "none" /\ owner[x] = "wait" => m_thread[x]
    /\ owner[x] = "joined" => ~m_thread[x] /\ child[x] = "done"
    /\ released[x] = IF owner[x] \in {"joined", "gone"} THEN 1 ELSE 0
    /\ owner[x] \in {"none", "wait", "ready", "joined"} => ~stale[x]

ThreadInv == Thr!TypeOK /\ \A x \in Objects : Life(x)

\* Before the constructor nothing has happened to an object.
LEMMA ThreadInit == MCInit => ThreadInv
BY DEF MCInit, Thr!Init, ThreadInv, Thr!TypeOK, Life, Returned

\* A step concerns one object; the others are as they were.
Elsewhere(x) ==
    \A y \in Objects \ {x} :
        /\ owner'[y] = owner[y] /\ child'[y] = child[y] /\ live'[y] = live[y]
        /\ m_id'[y] = m_id[y] /\ m_sem'[y] = m_sem[y] /\ m_thread'[y] = m_thread[y]
        /\ released'[y] = released[y] /\ stale'[y] = stale[y]

\* It is enough to look at that object.
LEMMA OneObject ==
    ASSUME ThreadInv, NEW x \in Objects, Thr!TypeOK', Elsewhere(x), Life(x)'
    PROVE  ThreadInv'
<1>1. ASSUME NEW y \in Objects, y # x PROVE Life(y)'
  <2>1. Life(y) BY DEF ThreadInv
  <2> QED BY <1>1, <2>1 DEF Elsewhere, Life
<1> QED BY <1>1 DEF ThreadInv

\* The steps of the owner.
LEMMA OwnerInv ==
    ASSUME ThreadInv, NEW x \in Objects, Thr!OwnerStep(x)
    PROVE  ThreadInv'
<1>1. Thr!TypeOK /\ Life(x) BY DEF ThreadInv
<1>2. CASE Thr!Construct(x)
  <2>1. Thr!TypeOK' /\ Elsewhere(x) BY <1>1, <1>2 DEF Thr!Construct, Thr!Set, Thr!TypeOK, Elsewhere
  <2>2. Life(x)' BY <1>1, <1>2 DEF Thr!Construct, Thr!Set, Thr!TypeOK, Life, Returned
  <2> QED BY <2>1, <2>2, OneObject
<1>3. CASE Thr!Wait(x)
  <2>1. Thr!TypeOK' /\ Elsewhere(x) BY <1>1, <1>3 DEF Thr!Wait, Thr!Set, Thr!TypeOK, Elsewhere
  <2>2. Life(x)' BY <1>1, <1>3 DEF Thr!Wait, Thr!Set, Thr!TypeOK, Life, Returned
  <2> QED BY <2>1, <2>2, OneObject
<1>4. CASE Thr!WaitThrows(x)
  <2>1. Thr!TypeOK' /\ Elsewhere(x) BY <1>1, <1>4 DEF Thr!WaitThrows, Thr!Set, Thr!TypeOK, Elsewhere
  <2>2. Life(x)' BY <1>1, <1>4 DEF Thr!WaitThrows, Thr!Set, Thr!TypeOK, Life, Returned
  <2> QED BY <2>1, <2>2, OneObject
<1>5. CASE Thr!join(x)
  <2>1. Thr!TypeOK' /\ Elsewhere(x)
    BY <1>1, <1>5 DEF Thr!join, Thr!Set, Thr!TypeOK, Elsewhere, Life
  <2>2. Life(x)' BY <1>1, <1>5 DEF Thr!join, Thr!Set, Thr!TypeOK, Life, Returned
  <2> QED BY <2>1, <2>2, OneObject
<1>6. CASE Thr!Destroy(x)
  <2>1. released'[x] = 1 /\ released' = [released EXCEPT ![x] = 1]
    <3>1. CASE owner[x] = "ready"
      <4>1. m_thread[x] /\ released[x] = 0 BY <1>1, <3>1 DEF Life
      <4>2. released' = [released EXCEPT ![x] = 1] BY <1>6, <4>1 DEF Thr!Destroy, Thr!Set
      <4> QED BY <1>1, <4>2 DEF Thr!TypeOK
    <3>2. CASE owner[x] = "joined"
      <4>1. ~m_thread[x] /\ released[x] = 1 BY <1>1, <3>2 DEF Life
      <4>2. released' = released BY <1>6, <4>1 DEF Thr!Destroy
      <4> QED BY <1>1, <4>1, <4>2 DEF Thr!TypeOK
    <3> QED BY <1>6, <3>1, <3>2 DEF Thr!Destroy
  <2>2. Thr!TypeOK' /\ Elsewhere(x)
    BY <1>1, <1>6, <2>1 DEF Thr!Destroy, Thr!Set, Thr!TypeOK, Elsewhere
  <2>3. Life(x)' BY <1>1, <1>6, <2>1 DEF Thr!Destroy, Thr!Set, Thr!TypeOK, Life, Returned
  <2> QED BY <2>2, <2>3, OneObject
<1> QED BY <1>2, <1>3, <1>4, <1>5, <1>6 DEF Thr!OwnerStep

\* The steps of run().
LEMMA ChildInv ==
    ASSUME ThreadInv, NEW x \in Objects, Thr!ChildStep(x)
    PROVE  ThreadInv'
<1>1. Thr!TypeOK /\ Life(x) BY DEF ThreadInv
<1>2. CASE Thr!Register(x)
  <2>1. Thr!TypeOK' /\ Elsewhere(x) BY <1>1, <1>2 DEF Thr!Register, Thr!Touch, Thr!Set, Thr!TypeOK, Elsewhere
  <2>2. Life(x)' BY <1>1, <1>2 DEF Thr!Register, Thr!Touch, Thr!Set, Thr!TypeOK, Life, Returned
  <2> QED BY <2>1, <2>2, OneObject
<1>3. CASE Thr!Notify(x)
  <2>1. Thr!TypeOK' /\ Elsewhere(x)
    BY <1>1, <1>3 DEF Thr!Notify, Thr!Touch, Thr!Set, Thr!TypeOK, Elsewhere, Life
  <2>2. Life(x)' BY <1>1, <1>3 DEF Thr!Notify, Thr!Touch, Thr!Set, Thr!TypeOK, Life, Returned
  <2> QED BY <2>1, <2>2, OneObject
<1>4. CASE Thr!CallCb(x)
  <2>1. Thr!TypeOK' /\ Elsewhere(x) BY <1>1, <1>4 DEF Thr!CallCb, Thr!Touch, Thr!Set, Thr!TypeOK, Elsewhere
  <2>2. Life(x)' BY <1>1, <1>4 DEF Thr!CallCb, Thr!Touch, Thr!Set, Thr!TypeOK, Life, Returned
  <2> QED BY <2>1, <2>2, OneObject
<1>5. CASE Thr!Finish(x)
  <2>1. Thr!TypeOK' /\ Elsewhere(x) BY <1>1, <1>5 DEF Thr!Finish, Thr!Touch, Thr!Set, Thr!TypeOK, Elsewhere
  <2>2. Life(x)' BY <1>1, <1>5 DEF Thr!Finish, Thr!Touch, Thr!Set, Thr!TypeOK, Life, Returned
  <2> QED BY <2>1, <2>2, OneObject
<1> QED BY <1>2, <1>3, <1>4, <1>5 DEF Thr!ChildStep

\* Every step preserves the invariant: one of the lock guards leaves the Thread
\* objects as they are.
LEMMA ThreadNext == ThreadInv /\ [MCNext]_<<part, vars, threadVars>> => ThreadInv'
<1> SUFFICES ASSUME ThreadInv, [MCNext]_<<part, vars, threadVars>> PROVE ThreadInv' OBVIOUS
<1>1. CASE Thr!Next BY <1>1, OwnerInv, ChildInv DEF Thr!Next
<1>2. CASE UNCHANGED threadVars BY <1>2 DEF threadVars, ThreadInv, Thr!TypeOK, Life
<1> QED BY <1>1, <1>2 DEF MCNext

LEMMA LifeInv == MCSpec => []ThreadInv
BY ThreadInit, ThreadNext, PTL DEF MCSpec

----------------------------------------------------------------------------
\* Once the constructor of a Thread has returned, getThreadId() gives the id
\* that run() stored.
THEOREM IdTheorem == MCSpec => []IdKnown
<1>1. ThreadInv => IdKnown BY DEF ThreadInv, Thr!TypeOK, Life, Returned, IdKnown, Thr!IdKnown
<1> QED BY <1>1, LifeInv, PTL

\* After Thread::join the thread has ended, and it never touched a dead object.
THEOREM JoinTheorem == MCSpec => []JoinedIsOver
<1>1. ThreadInv => JoinedIsOver BY DEF ThreadInv, Life, JoinedIsOver, Thr!JoinedIsOver
<1> QED BY <1>1, LifeInv, PTL

\* Thread::join and the destructor release the pthread exactly once between
\* them, and the semaphore is never above 1.
THEOREM ReleaseTheorem == MCSpec => []ReleasedOnce
<1>1. ThreadInv => ReleasedOnce BY DEF ThreadInv, Life, ReleasedOnce, Thr!ReleasedOnce
<1> QED BY <1>1, LifeInv, PTL
=============================================================================
