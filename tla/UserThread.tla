----------------------------- MODULE UserThread -----------------------------
(***************************************************************************)
(* The user-level thread library of src/src/userthread.c.                  *)
(*                                                                         *)
(* Everything runs on one kernel thread.  A "flow" is a stack of its own:  *)
(* the program's main function, or the wrapper() of one thread.  Exactly   *)
(* one flow is on the CPU; flows trade places in scheduler(), which is the *)
(* handler of SIGALRM and is entered when the interval timer expires       *)
(* (Tick) or when thread_yield raises the signal.                          *)
(*                                                                         *)
(* A call is two steps, the pthread_mutex_lock and the rest, so that the   *)
(* timer can expire inside it.  Threads are numbered by their slot in      *)
(* threads[]; a tid is the slot plus one, as in the code.                  *)
(*                                                                         *)
(* The client may call anything at any time, with these exceptions: only   *)
(* main calls thread_libinit and thread_libterminate.                      *)
(***************************************************************************)
EXTENDS Integers

CONSTANTS MaxThreads,   \* MAX_THREADS, the length of threads[]
          Priorities,   \* the priorities clients pass to thread_create
          IntMin        \* INT_MIN, where the search for the maximum starts

ASSUME MaxThreadsAssumption == MaxThreads \in Nat \ {0}
ASSUME PrioritiesAssumption ==
    /\ Priorities \subseteq Int
    /\ IntMin \in Int
    /\ \A p \in Priorities : p >= IntMin

VARIABLES
    scheduling_policy,  \* the policy of the last thread_libinit
    armed,              \* the interval timer runs and SIGALRM has its handler
    num_threads,
    current_thread,     \* the slot dispatched last, NoThread at first
    threads,            \* threads[], one tcb_t per slot
    mutex,              \* the global mutex is held
    cpu,                \* the flow on the CPU and where it is
    log_file,
    fault               \* what has stopped the process, if anything has

vars == <<scheduling_policy, armed, num_threads, current_thread, threads,
          mutex, cpu, log_file, fault>>

-----------------------------------------------------------------------------
(* The shape of the state.                                                 *)

Slots == 0 .. MaxThreads - 1
NoThread == -1
Main == -1
Flows == Slots \cup {Main}

Policies == {"FIFO", "SJF", "PRIORITY"}
States == {"FINISHED", "INITIALIZED", "RUNNING", "WAITING"}

(* Where a flow is.  "entry" is a context fresh from makecontext, "none"   *)
(* one that memset zeroed; neither is ever on the CPU.  Inside "create",   *)
(* "join", "wake", "finish" and "terminate" the flow holds the mutex.      *)
LockedAt == {"create", "join", "wake", "finish", "terminate"}
OnCpuAt == LockedAt \cup {"user", "wait", "exit", "close"}
SavedAt == OnCpuAt \cup {"entry", "none"}

Tids == 1 .. MaxThreads
JoinArgs == 0 .. MaxThreads

(* What getcontext, makecontext or swapcontext stores: whose stack it is,  *)
(* where the flow resumes and, inside a join, the tid it joins.            *)
Contexts(places) == [flow : Flows, at : places, tid : JoinArgs]

Tcbs == [state : States, wait_on_tid : Tids \cup {-1},
         priority : Priorities \cup {0},
         stack : {"null", "live", "freed"}, context : Contexts(SavedAt)]

(* A tcb that was never used is zeroed memory, whose state reads FINISHED. *)
UnusedTcb(i) == [state |-> "FINISHED", wait_on_tid |-> -1, priority |-> 0,
                 stack |-> "null",
                 context |-> [flow |-> i, at |-> "none", tid |-> 0]]

InitialTcb(i, p, stack, at) ==
    [state |-> "INITIALIZED", wait_on_tid |-> -1, priority |-> p,
     stack |-> stack, context |-> [flow |-> i, at |-> at, tid |-> 0]]

MainInUser == [flow |-> Main, at |-> "user", tid |-> 0]

Init ==
    /\ scheduling_policy = "FIFO"
    /\ armed = FALSE
    /\ num_threads = 0
    /\ current_thread = NoThread
    /\ threads = [i \in Slots |-> UnusedTcb(i)]
    /\ mutex = FALSE
    /\ cpu = MainInUser
    /\ log_file = "null"
    /\ fault = "none"

-----------------------------------------------------------------------------
(* scheduler().                                                            *)

Finished(t, tid) == t[tid - 1].state = "FINISHED"

(* Variant: the wake loop does not look at the joined thread.              *)
WakeAll ==
    [i \in Slots |->
        IF i < num_threads /\ threads[i].state = "WAITING"
        THEN [threads[i] EXCEPT !.state = "INITIALIZED"]
        ELSE threads[i]]

(* The wake loop: threads whose join has been satisfied become runnable.   *)
WakeWaiters ==
    [i \in Slots |->
        IF /\ i < num_threads
           /\ threads[i].state = "WAITING"
           /\ Finished(threads, threads[i].wait_on_tid)
        THEN [threads[i] EXCEPT !.state = "INITIALIZED"]
        ELSE threads[i]]

(* The threads a policy's search can find.  The search for the maximum     *)
(* starts at INT_MIN and wants something strictly greater.                 *)
Eligible(t, i) ==
    /\ i < num_threads
    /\ t[i].state = "INITIALIZED"
    /\ scheduling_policy = "PRIORITY" => t[i].priority > IntMin

(* FIFO looks at (current_thread + k) % num_threads for k = 1, 2, ...      *)
Turn(i) == IF i > current_thread THEN i - current_thread
                                 ELSE i - current_thread + num_threads

(* SJF compares the ticks of the tcb, which nothing increments, so the     *)
(* lowest slot wins.                                                       *)
Before(t, i, j) ==
    CASE scheduling_policy = "FIFO" -> Turn(i) < Turn(j)
      [] scheduling_policy = "SJF" -> i < j
      [] scheduling_policy = "PRIORITY" ->
            \/ t[i].priority > t[j].priority
            \/ t[i].priority = t[j].priority /\ i < j

Chosen(t, n) ==
    /\ Eligible(t, n)
    /\ \A m \in Slots \ {n} : Eligible(t, m) => Before(t, n, m)

(* setcontext of a context that a tcb holds.  The stack under a saved      *)
(* context of main has been reused since, for main_context resumed below   *)
(* it: the resumed frames are undefined.  Execution goes on where it was   *)
(* saved, or after some later call of main, or nowhere.                    *)
SetContext(c) ==
    /\ \/ cpu' = IF c.at = "entry" THEN [c EXCEPT !.at = "user"] ELSE c
       \/ c.flow = Main /\ cpu' = MainInUser
    /\ \/ UNCHANGED fault
       \/ c.flow = Main /\ fault' = "lost_frames"

(* Variant: current_thread is left as it was.                              *)
DispatchForgetsCurrent(t, n) ==
    /\ threads' = [t EXCEPT ![n].state = "RUNNING"]
    /\ SetContext(t[n].context)
    /\ UNCHANGED current_thread

(* Variant: the state of the chosen thread is left as it was.              *)
DispatchForgetsState(t, n) ==
    /\ current_thread' = n
    /\ threads' = t
    /\ SetContext(t[n].context)

(* The switch to a thread does not save the flow that loses the CPU.       *)
Dispatch(t, n) ==
    /\ current_thread' = n
    /\ threads' = [t EXCEPT ![n].state = "RUNNING"]
    /\ SetContext(t[n].context)

(* Nothing to run: main_context goes on as a second return of              *)
(* thread_libinit, whose frame by now holds the return address of main's   *)
(* latest call, so main is back in its own code.  The flow that loses the  *)
(* CPU, main itself perhaps, is saved in the current thread's tcb.         *)
ReturnToMain(t) ==
    /\ threads' = IF current_thread = NoThread THEN t
                  ELSE [t EXCEPT ![current_thread].context = cpu]
    /\ cpu' = MainInUser
    /\ UNCHANGED <<current_thread, fault>>

(* Variant: the next thread is searched for before the wake loop.          *)
SearchThenWake ==
    /\ \/ \E n \in Slots : Chosen(threads, n) /\ Dispatch(WakeWaiters, n)
       \/ /\ \A n \in Slots : ~Eligible(threads, n)
          /\ ReturnToMain(WakeWaiters)
    /\ UNCHANGED <<scheduling_policy, armed, num_threads, mutex, log_file>>

Scheduler ==
    /\ LET woken == WakeWaiters IN
          \/ \E n \in Slots : Chosen(woken, n) /\ Dispatch(woken, n)
          \/ /\ \A n \in Slots : ~Eligible(woken, n)
             /\ ReturnToMain(woken)
    /\ UNCHANGED <<scheduling_policy, armed, num_threads, mutex, log_file>>

(* Variant: the handler does not lock the mutex.                           *)
TickWithoutLock == fault = "none" /\ armed /\ Scheduler

(* SIGALRM: the handler locks the mutex, on the kernel thread that may     *)
(* hold it already; then nothing ever runs again.                          *)
Tick ==
    /\ fault = "none"
    /\ armed
    /\ \/ ~mutex /\ Scheduler
       \/ /\ mutex
          /\ fault' = "hung"
          /\ UNCHANGED <<scheduling_policy, armed, num_threads, current_thread,
                         threads, mutex, cpu, log_file>>

-----------------------------------------------------------------------------
(* The calls.                                                              *)

At(place) == fault = "none" /\ cpu.at = place

Lock(place, tid) ==
    /\ At("user")
    /\ ~mutex
    /\ mutex' = TRUE
    /\ cpu' = [cpu EXCEPT !.at = place, !.tid = tid]
    /\ UNCHANGED <<scheduling_policy, armed, num_threads, current_thread,
                   threads, log_file, fault>>

Unlock(place) ==
    /\ mutex' = FALSE
    /\ cpu' = [cpu EXCEPT !.at = place, !.tid = 0]

(* Variant: the early return keeps the mutex.                              *)
FailKeepsLock ==
    /\ log_file = "open"
    /\ cpu' = [cpu EXCEPT !.at = "user", !.tid = 0]
    /\ UNCHANGED <<mutex, fault>>

(* A failing call writes to the log, which crashes when it is not open.    *)
FailWithLog ==
    \/ /\ log_file = "open"
       /\ Unlock("user")
       /\ UNCHANGED fault
    \/ /\ log_file # "open"
       /\ fault' = "bad_log"
       /\ UNCHANGED <<mutex, cpu>>

thread_libinit ==
    /\ At("user")
    /\ cpu.flow = Main
    /\ scheduling_policy' \in Policies
    /\ \/ log_file' = "open" /\ armed' = TRUE
       \/ log_file' = "null" /\ UNCHANGED armed      \* fopen failed
    /\ UNCHANGED <<num_threads, current_thread, threads, mutex, cpu, fault>>

CreateBegin == Lock("create", 0)

CreateFull ==
    /\ At("create")
    /\ num_threads >= MaxThreads
    /\ FailWithLog
    /\ UNCHANGED <<scheduling_policy, armed, num_threads, current_thread,
                   threads, log_file>>

(* The slot's previous stack is freed first; thread_libterminate freed it  *)
(* already and left the pointer.                                           *)
CreateFreesTwice ==
    /\ At("create")
    /\ num_threads < MaxThreads
    /\ threads[num_threads].stack = "freed"
    /\ fault' = "double_free"
    /\ UNCHANGED <<scheduling_policy, armed, num_threads, current_thread,
                   threads, mutex, cpu, log_file>>

(* Variant: a thread whose stack could not be allocated is counted.        *)
CreateCountsFailure ==
    /\ At("create")
    /\ num_threads < MaxThreads
    /\ threads[num_threads].stack # "freed"
    /\ \E p \in Priorities, stack \in {"live", "null"} :
          threads' = [threads EXCEPT ![num_threads] =
                         InitialTcb(num_threads, p, stack, "entry")]
    /\ num_threads' = num_threads + 1
    /\ Unlock("user")
    /\ UNCHANGED <<scheduling_policy, armed, current_thread, log_file, fault>>

CreateBody ==
    /\ At("create")
    /\ num_threads < MaxThreads
    /\ threads[num_threads].stack # "freed"
    /\ \E p \in Priorities :
          \/ /\ threads' = [threads EXCEPT ![num_threads] =
                               InitialTcb(num_threads, p, "live", "entry")]
             /\ num_threads' = num_threads + 1
          \/ /\ threads' = [threads EXCEPT ![num_threads] =   \* malloc failed
                               InitialTcb(num_threads, p, "null", "none")]
             /\ UNCHANGED num_threads
    /\ Unlock("user")
    /\ UNCHANGED <<scheduling_policy, armed, current_thread, log_file, fault>>

thread_yield ==
    /\ At("user")
    /\ current_thread # NoThread
    /\ Scheduler

JoinBegin == \E tid \in JoinArgs : Lock("join", tid)

(* Variant: the bound is off by one.                                       *)
ValidTidOffByOne(tid) == tid > 0 /\ tid <= num_threads + 1

ValidTid(tid) == tid > 0 /\ tid <= num_threads

JoinInvalid ==
    /\ At("join")
    /\ ~ValidTid(cpu.tid)
    /\ FailWithLog
    /\ UNCHANGED <<scheduling_policy, armed, num_threads, current_thread,
                   threads, log_file>>

JoinFinished ==
    /\ At("join")
    /\ ValidTid(cpu.tid)
    /\ Finished(threads, cpu.tid)
    /\ Unlock("user")
    /\ UNCHANGED <<scheduling_policy, armed, num_threads, current_thread,
                   threads, log_file, fault>>

(* Variant: a finished current thread is marked like any other.            *)
MarkAnyWaiting(tid) ==
    IF current_thread # NoThread
    THEN [threads EXCEPT ![current_thread].state = "WAITING",
                         ![current_thread].wait_on_tid = tid]
    ELSE threads

(* Variant: the slot is stored where the tid belongs.                      *)
MarkWaitingOnSlot(tid) ==
    IF current_thread # NoThread /\ threads[current_thread].state # "FINISHED"
    THEN [threads EXCEPT ![current_thread].state = "WAITING",
                         ![current_thread].wait_on_tid = tid - 1]
    ELSE threads

(* Whoever joins, it is the current thread that is marked as waiting:      *)
(* current_thread is stale when main has the CPU.                          *)
MarkWaiting(tid) ==
    IF current_thread # NoThread /\ threads[current_thread].state # "FINISHED"
    THEN [threads EXCEPT ![current_thread].state = "WAITING",
                         ![current_thread].wait_on_tid = tid]
    ELSE threads

JoinWait ==
    /\ At("join")
    /\ ValidTid(cpu.tid)
    /\ ~Finished(threads, cpu.tid)
    /\ threads' = MarkWaiting(cpu.tid)
    /\ mutex' = FALSE                        \* pthread_cond_wait releases it
    /\ cpu' = [cpu EXCEPT !.at = "wait"]
    /\ UNCHANGED <<scheduling_policy, armed, num_threads, current_thread,
                   log_file, fault>>

(* Variant: if instead of while, so that a spurious wakeup ends the join.   *)
JoinWakeIf ==
    /\ At("wait")
    /\ ~mutex
    /\ mutex' = TRUE
    /\ cpu' = [cpu EXCEPT !.at = "wake"]
    /\ UNCHANGED <<scheduling_policy, armed, num_threads, current_thread,
                   threads, log_file, fault>>

JoinWake ==
    /\ At("wait")
    /\ Finished(threads, cpu.tid)
    /\ ~mutex
    /\ mutex' = TRUE
    /\ cpu' = [cpu EXCEPT !.at = "wake"]
    /\ UNCHANGED <<scheduling_policy, armed, num_threads, current_thread,
                   threads, log_file, fault>>

JoinEnd ==
    /\ At("wake")
    /\ Unlock("user")
    /\ UNCHANGED <<scheduling_policy, armed, num_threads, current_thread,
                   threads, log_file, fault>>

(* The start routine has returned to wrapper().                            *)
FinishBegin == cpu.flow # Main /\ Lock("finish", 0)

FinishBody ==
    /\ At("finish")
    /\ threads' = [threads EXCEPT ![current_thread].state = "FINISHED"]
    /\ Unlock("exit")
    /\ UNCHANGED <<scheduling_policy, armed, num_threads, current_thread,
                   log_file, fault>>

WrapperYields == At("exit") /\ Scheduler

TerminateBegin == cpu.flow = Main /\ Lock("terminate", 0)

TerminateBody ==
    /\ At("terminate")
    /\ threads' = [i \in Slots |->
          IF i < num_threads
          THEN [threads[i] EXCEPT !.state = "FINISHED", !.stack = "freed"]
          ELSE threads[i]]
    /\ num_threads' = 0
    /\ current_thread' = NoThread
    /\ Unlock("close")
    /\ UNCHANGED <<scheduling_policy, armed, log_file, fault>>

(* fclose, after the mutex is released.                                    *)
TerminateClose ==
    /\ At("close")
    /\ \/ /\ log_file = "open"
          /\ log_file' = "closed"
          /\ cpu' = MainInUser
          /\ UNCHANGED fault
       \/ /\ log_file # "open"
          /\ fault' = "bad_log"
          /\ UNCHANGED <<cpu, log_file>>
    /\ UNCHANGED <<scheduling_policy, armed, num_threads, current_thread,
                   threads, mutex>>

Next ==
    \/ Tick
    \/ thread_libinit
    \/ CreateBegin \/ CreateFull \/ CreateFreesTwice \/ CreateBody
    \/ thread_yield
    \/ JoinBegin \/ JoinInvalid \/ JoinFinished
    \/ JoinWait \/ JoinWake \/ JoinEnd
    \/ FinishBegin \/ FinishBody \/ WrapperYields
    \/ TerminateBegin \/ TerminateBody \/ TerminateClose

(* The timer is periodic: once armed it keeps expiring.  Nothing else is   *)
(* promised, a flow may sit in its own code for ever.                      *)
Spec == Init /\ [][Next]_vars /\ WF_vars(Tick)

-----------------------------------------------------------------------------
(* Properties.                                                             *)

(* Every variable stays in its type, and the thread numbers in range.      *)
TypeOK ==
    /\ scheduling_policy \in Policies
    /\ armed \in BOOLEAN
    /\ num_threads \in 0 .. MaxThreads
    /\ current_thread \in Slots \cup {NoThread}
    /\ threads \in [Slots -> Tcbs]
    /\ mutex \in BOOLEAN
    /\ cpu \in Contexts(OnCpuAt)
    /\ log_file \in {"null", "open", "closed"}
    /\ fault \in {"none", "hung", "double_free", "bad_log", "lost_frames"}

(* A flow holds the global mutex exactly while it is inside a critical     *)
(* section: no early return leaks it and no context switch carries it      *)
(* away, so a tick outside a critical section finds it free.               *)
LockDiscipline == mutex <=> cpu.at \in LockedAt

(* The thread whose code is on the CPU is the one current_thread names,    *)
(* and its tcb says so, in its state and in holding a context of its own:  *)
(* wrapper() and thread_join act on threads[current_thread] believing it   *)
(* is their caller.                                                        *)
CurrentIsOnCpu ==
    cpu.flow # Main =>
        /\ current_thread = cpu.flow
        /\ cpu.flow < num_threads
        /\ threads[cpu.flow].context.flow = cpu.flow
        /\ CASE cpu.at = "exit" -> threads[cpu.flow].state = "FINISHED"
             [] cpu.at = "wait" -> threads[cpu.flow].state \in {"WAITING", "RUNNING"}
             [] OTHER -> threads[cpu.flow].state = "RUNNING"

(* No flow runs, or can be dispatched, on a stack that was not allocated   *)
(* or has been freed.                                                      *)
RunsOnLiveStack ==
    /\ cpu.flow # Main => threads[cpu.flow].stack = "live"
    /\ \A i \in Slots : i < num_threads => threads[i].stack = "live"

(* A waiting thread waits for a thread that exists, so the wake loop reads *)
(* inside threads[]; and a thread blocked in its join is recorded as       *)
(* waiting for the very tid it joins, which has yet to finish.             *)
WaitTargetsExist ==
    /\ \A i \in Slots : i < num_threads /\ threads[i].state = "WAITING" =>
          threads[i].wait_on_tid \in 1 .. num_threads
    /\ (/\ cpu.at = "wait"
        /\ current_thread # NoThread
        /\ threads[current_thread].state = "WAITING")
          => /\ threads[current_thread].wait_on_tid = cpu.tid
             /\ ~Finished(threads, cpu.tid)

(* What setcontext may resume: the context of a created thread belongs to  *)
(* that thread or, saved under a stale current_thread, to main; it resumes *)
(* at the thread's start, in user code or in a join, never inside a        *)
(* critical section, and past wrapper()'s end only if the thread has       *)
(* finished.                                                               *)
SavedContexts ==
    \A i \in Slots : i < num_threads =>
        LET c == threads[i].context IN
        /\ c.flow \in {i, Main}
        /\ c.at \in {"entry", "user", "wait", "exit"}
        /\ c.flow = Main => c.at \in {"user", "wait"}
        /\ c.at = "exit" => threads[i].state = "FINISHED"
        /\ c.at = "wait" => ValidTid(c.tid)

(* Which flows can be where, and with what to wait for.                    *)
Places ==
    /\ cpu.at \in {"finish", "exit"} => cpu.flow # Main
    /\ cpu.at \in {"terminate", "close"} => cpu.flow = Main
    /\ cpu.at = "close" => current_thread = NoThread
    /\ cpu.at \in {"wait", "wake"} => ValidTid(cpu.tid)
    /\ current_thread # NoThread => current_thread < num_threads

(* The inductive invariant.                                                *)
IInv ==
    /\ TypeOK
    /\ LockDiscipline
    /\ Places
    /\ CurrentIsOnCpu
    /\ RunsOnLiveStack
    /\ SavedContexts
    /\ WaitTargetsExist

(* A finished thread is never made to wait, woken or dispatched again,     *)
(* although join marks a stale current_thread and wrapper() still yields   *)
(* after it has finished.                                                  *)
FinishedIsFinal ==
    [][\A i \in Slots :
          i < num_threads /\ threads[i].state = "FINISHED"
             => threads'[i].state = "FINISHED"]_vars

(* The scheduler gives main the CPU through main_context only when no      *)
(* thread is runnable, counting those whose join has just been satisfied.  *)
MainRunsLast ==
    [][cpu.flow # Main /\ cpu'.flow = Main /\ current_thread' = current_thread =>
          \A i \in Slots : i < num_threads =>
             /\ ~Eligible(threads, i)
             /\ ~(/\ threads[i].state = "WAITING"
                  /\ Finished(threads, threads[i].wait_on_tid)
                  /\ Eligible([threads EXCEPT ![i].state = "INITIALIZED"], i))]_vars

(* What the calls mean for the program.  A slot from num_threads on is     *)
(* unused, whatever its tcb still says.                                    *)
Lives == [i \in Slots |-> IF i >= num_threads THEN "unused"
                          ELSE IF threads[i].state = "FINISHED" THEN "finished"
                          ELSE "alive"]

Waits == [i \in Slots |-> IF i < num_threads /\ threads[i].state = "WAITING"
                          THEN threads[i].wait_on_tid - 1 ELSE NoThread]

Joins == IF cpu.at = "wait" THEN cpu.tid - 1 ELSE NoThread

Life == INSTANCE ThreadLife WITH
    Ids <- Slots, None <- NoThread,
    life <- Lives, waits <- Waits, runs <- cpu.flow, joins <- Joins

(* The library keeps what ThreadLife promises of the threads, although the *)
(* handler, the calls and wrapper() go by a current_thread that is stale   *)
(* whenever main runs.                                                     *)
KeepsThreadLife == Life!Spec

(* Once the timer runs, main always gets back to its own code, whatever    *)
(* the threads do, unless the process has come to a stop.                  *)
MainRegainsControl ==
    armed ~> (cpu.flow = Main /\ cpu.at = "user") \/ fault # "none"

(* A new thread, or one whose join has been satisfied, is dispatched or    *)
(* the library is terminated, unless the process has come to a stop.       *)
(* Nothing is said here of the threads that the search cannot find: those  *)
(* that have lost the CPU (see YieldersGoOn) and, with PRIORITY, those     *)
(* whose priority is INT_MIN.                                              *)
RunnableIsDispatched ==
    \A i \in Slots :
        armed /\ Eligible(threads, i)
            ~> threads[i].state # "INITIALIZED" \/ ~Eligible(threads, i)
               \/ fault # "none"

(* test_nested_fifo.c expects a thread to go on after its join: one that   *)
(* waits and is off the CPU has a saved continuation, and not its start    *)
(* routine to go back to.                                                  *)
WaitersKeepTheirContinuation ==
    \A i \in Slots :
        i < num_threads /\ threads[i].state = "WAITING" /\ cpu.flow # i
            => threads[i].context.at # "entry"

(* test_sjf_yield.c expects five lines of each thread, which yields after  *)
(* every one: under SJF a thread that has lost the CPU without waiting or  *)
(* finishing gets it again.                                                *)
YieldersGoOn ==
    \A i \in Slots :
        armed /\ scheduling_policy = "SJF" /\ i < num_threads
              /\ threads[i].state = "RUNNING"
            ~> \/ cpu.flow = i \/ threads[i].state # "RUNNING"
               \/ ~armed \/ scheduling_policy # "SJF" \/ fault # "none"

(* Of what the two tests expect of a thread that loses the CPU, one at     *)
(* least is true of a run: it keeps its continuation if it waits, or gets  *)
(* the CPU again if it does not.                                           *)
ThreadsGoOn == []WaitersKeepTheirContinuation \/ YieldersGoOn

=============================================================================
