------------------------------ MODULE TimerMgr ------------------------------
(***************************************************************************)
(* How the timer manager comes to life (src/src/timer.cc, singleton.hpp).  *)
(* TimerMgr::GetInstance() is the only way to it.  Its first call builds   *)
(* the TimerManagers object, whose constructor creates the timer coroutine *)
(* and runs it up to its first yield; before that yield the coroutine      *)
(* itself calls TimerMgr::GetInstance().                                   *)
(*                                                                         *)
(* The function-local static of GetInstance is protected by libstdc++'s    *)
(* __cxa_guard_acquire: the first caller builds; a caller that comes while *)
(* the object is being built waits for the builder if the process has      *)
(* other threads, and gets recursive_init_error if it has none, which on   *)
(* the coroutine's stack nothing catches.  The builder and the coroutine   *)
(* are one thread.                                                         *)
(***************************************************************************)

VARIABLES
    threaded, \* whether the process has started other threads
    guard,    \* the static's guard: "unset", "pending" or "set"
    running,  \* the coroutine that has the thread: "main", "timer", or "none"
    pc        \* where each of the two is

vars == <<threaded, guard, running, pc>>

Init ==
    /\ threaded \in BOOLEAN
    /\ guard = "unset"
    /\ running = "main"
    /\ pc = [main |-> "call", timer |-> "none"]

Goto(co, label) == pc' = [pc EXCEPT ![co] = label]

\* GetInstance() by coroutine co finds the object built, or has to build it.
\* With the guard "pending" there is no such step: the caller waits.
GetInstance(co) ==
    /\ running = co
    /\ pc[co] = "call"
    /\ \/ guard = "set" /\ Goto(co, "returned") /\ UNCHANGED guard
       \/ guard = "unset" /\ Goto(co, "init") /\ guard' = "pending"
    /\ UNCHANGED <<threaded, running>>

\* The exception thrown at a caller that is building the object itself ends
\* the process (std::terminate).
RecursiveInit(co) ==
    /\ running = co
    /\ pc[co] = "call"
    /\ guard = "pending"
    /\ ~threaded
    /\ running' = "none"
    /\ UNCHANGED <<threaded, guard, pc>>

\* init(): the pipe cannot be made and the constructor throws, or the
\* coroutine is created and resumed.
init ==
    /\ running = "main"
    /\ pc["main"] = "init"
    /\ \/ /\ Goto("main", "threw")
          /\ guard' = "unset"
          /\ UNCHANGED running
       \/ /\ pc' = [main |-> "resumed", timer |-> "call"]
          /\ running' = "timer"
          /\ UNCHANGED guard
    /\ UNCHANGED threaded

\* timer_routine has frontMs() and yields in co_poll.
timer_routine ==
    /\ running = "timer"
    /\ pc["timer"] = "returned"
    /\ Goto("timer", "poll")
    /\ running' = "main"
    /\ UNCHANGED <<threaded, guard>>

\* The constructor ends and GetInstance() returns the object.
Built ==
    /\ running = "main"
    /\ pc["main"] = "resumed"
    /\ guard' = "set"
    /\ Goto("main", "returned")
    /\ UNCHANGED <<threaded, running>>

Next ==
    \/ \E co \in {"main", "timer"} : GetInstance(co) \/ RecursiveInit(co)
    \/ init
    \/ timer_routine
    \/ Built

\* The thread is not stopped while it can go on.
Spec == Init /\ [][Next]_vars /\ WF_vars(Next)

\* GetInstance() gives its caller the instance, or throws if the pipe fails.
InstanceObtained == <>(pc["main"] \in {"returned", "threw"})

=============================================================================
