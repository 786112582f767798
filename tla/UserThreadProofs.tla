-------------------------- MODULE UserThreadProofs --------------------------
(***************************************************************************)
(* What TLAPS proves of UserThread for every number of slots and every set *)
(* of priorities.                                                          *)
(***************************************************************************)
EXTENDS UserThread, TLAPS

LEMMA InitEstablishesIInv == Init => IInv
<1> USE MaxThreadsAssumption, PrioritiesAssumption
<1> SUFFICES ASSUME Init PROVE IInv
  OBVIOUS
<1>1. \A i \in Slots : UnusedTcb(i) \in Tcbs
  BY DEF UnusedTcb, Tcbs, Contexts, Flows, Slots, States, SavedAt, Tids, JoinArgs
<1>2. TypeOK
  <2>1. MainInUser \in Contexts(OnCpuAt)
    BY DEF MainInUser, Contexts, Flows, OnCpuAt, JoinArgs, Main
  <2>2. threads \in [Slots -> Tcbs]
    BY <1>1 DEF Init
  <2>3. num_threads \in 0 .. MaxThreads
    BY DEF Init
  <2> QED
    BY <2>1, <2>2, <2>3 DEF Init, TypeOK, Policies
<1>3. LockDiscipline
  BY DEF Init, LockDiscipline, MainInUser, LockedAt
<1>4. Places
  BY DEF Init, Places, MainInUser
<1>5. CurrentIsOnCpu
  BY DEF Init, CurrentIsOnCpu, MainInUser
<1>6. RunsOnLiveStack
  BY DEF Init, RunsOnLiveStack, MainInUser, Slots
<1>7. SavedContexts
  BY DEF Init, SavedContexts, Slots
<1>8. WaitTargetsExist
  BY DEF Init, WaitTargetsExist, MainInUser, Slots
<1> QED
  BY <1>2, <1>3, <1>4, <1>5, <1>6, <1>7, <1>8 DEF IInv

(***************************************************************************)
(* The wake loop changes the state of waiting threads and nothing else.    *)
(***************************************************************************)
LEMMA WakeWaitersSpec ==
  ASSUME IInv
  PROVE  /\ WakeWaiters \in [Slots -> Tcbs]
         /\ \A i \in Slots :
              /\ WakeWaiters[i].context = threads[i].context
              /\ WakeWaiters[i].stack = threads[i].stack
              /\ WakeWaiters[i].priority = threads[i].priority
              /\ WakeWaiters[i].wait_on_tid = threads[i].wait_on_tid
              /\ \/ WakeWaiters[i].state = threads[i].state
                 \/ /\ threads[i].state = "WAITING"
                    /\ WakeWaiters[i].state = "INITIALIZED"
                    /\ Finished(threads, threads[i].wait_on_tid)
<1> USE DEF IInv, TypeOK, WakeWaiters
<1>1. \A i \in Slots : [threads[i] EXCEPT !.state = "INITIALIZED"] \in Tcbs
  BY DEF Tcbs, States
<1>2. WakeWaiters \in [Slots -> Tcbs]
  BY <1>1
<1>3. \A i \in Slots :
         LET w == [threads[i] EXCEPT !.state = "INITIALIZED"] IN
         /\ w.context = threads[i].context
         /\ w.stack = threads[i].stack
         /\ w.priority = threads[i].priority
         /\ w.wait_on_tid = threads[i].wait_on_tid
         /\ w.state = "INITIALIZED"
  BY DEF Tcbs
<1> QED
  BY <1>2, <1>3

(***************************************************************************)
(* A context switch preserves the invariant.                               *)
(***************************************************************************)
LEMMA DispatchPreservesIInv ==
  ASSUME IInv, ~mutex, NEW n \in Slots,
         Eligible(WakeWaiters, n), Dispatch(WakeWaiters, n),
         UNCHANGED <<scheduling_policy, armed, num_threads, mutex, log_file>>
  PROVE  IInv'
<1> DEFINE w == WakeWaiters
<1> DEFINE c == w[n].context
<1>1. w \in [Slots -> Tcbs]
  BY WakeWaitersSpec
<1>2. /\ current_thread' = n
      /\ threads' = [w EXCEPT ![n].state = "RUNNING"]
      /\ n < num_threads
      /\ w[n].state = "INITIALIZED"
  BY DEF Dispatch, Eligible
<1>3. \A i \in Slots :
        /\ threads'[i].context = threads[i].context
        /\ threads'[i].stack = threads[i].stack
        /\ threads'[i].wait_on_tid = threads[i].wait_on_tid
        /\ threads'[i].state = IF i = n THEN "RUNNING" ELSE w[i].state
  BY <1>1, <1>2, WakeWaitersSpec DEF Tcbs
<1>4. threads' \in [Slots -> Tcbs]
  BY <1>1, <1>2 DEF Tcbs, States
<1>5. /\ c = threads[n].context
      /\ c.flow \in {n, Main}
      /\ c.at \in {"entry", "user", "wait"}
      /\ c.flow = Main => c.at \in {"user", "wait"}
      /\ c.at = "wait" => ValidTid(c.tid)
      /\ c \in Contexts(SavedAt)
  BY <1>1, <1>2, WakeWaitersSpec DEF IInv, SavedContexts, TypeOK, Tcbs
<1>6. /\ cpu' \in Contexts(OnCpuAt)
      /\ cpu'.flow \in {n, Main}
      /\ cpu'.flow = n => c.flow = n
      /\ cpu'.at \in {"user", "wait"}
      /\ cpu'.at = "wait" => ValidTid(cpu'.tid)
  <2>1. CASE cpu' = MainInUser
    BY <2>1, MaxThreadsAssumption
       DEF MainInUser, Contexts, Flows, OnCpuAt, JoinArgs, Main, Slots
  <2>2. CASE cpu' = IF c.at = "entry" THEN [c EXCEPT !.at = "user"] ELSE c
    BY <2>2, <1>5 DEF Contexts, OnCpuAt
  <2> QED
    BY <2>1, <2>2 DEF Dispatch, SetContext
<1>7. TypeOK'
  <2>1. fault' = fault \/ fault' = "lost_frames"
    BY DEF Dispatch, SetContext
  <2> QED
    BY <2>1, <1>2, <1>4, <1>6 DEF IInv, TypeOK
<1>8. LockDiscipline'
  BY <1>6 DEF LockDiscipline, LockedAt
<1>9. Places'
  BY <1>2, <1>6 DEF Places, ValidTid
<1>10. CurrentIsOnCpu'
  BY <1>2, <1>3, <1>5, <1>6 DEF CurrentIsOnCpu
<1>11. RunsOnLiveStack'
  BY <1>2, <1>3, <1>6 DEF IInv, RunsOnLiveStack
<1>12. SavedContexts'
  BY <1>2, <1>3, WakeWaitersSpec DEF IInv, SavedContexts, ValidTid
<1>13. WaitTargetsExist'
  BY <1>2, <1>3, WakeWaitersSpec DEF IInv, WaitTargetsExist
<1> QED
  BY <1>7, <1>8, <1>9, <1>10, <1>11, <1>12, <1>13 DEF IInv

LEMMA ReturnToMainPreservesIInv ==
  ASSUME IInv, ~mutex, ReturnToMain(WakeWaiters),
         UNCHANGED <<scheduling_policy, armed, num_threads, mutex, log_file>>
  PROVE  IInv'
<1> DEFINE w == WakeWaiters
<1>1. w \in [Slots -> Tcbs]
  BY WakeWaitersSpec
<1>2. /\ current_thread' = current_thread
      /\ cpu' = MainInUser
      /\ fault' = fault
      /\ threads' = IF current_thread = NoThread THEN w
                    ELSE [w EXCEPT ![current_thread].context = cpu]
  BY DEF ReturnToMain
<1>3. current_thread # NoThread => current_thread \in Slots
  BY DEF IInv, TypeOK
<1>4. \A i \in Slots :
        /\ threads'[i].context =
             IF i = current_thread THEN cpu ELSE threads[i].context
        /\ threads'[i].stack = threads[i].stack
        /\ threads'[i].wait_on_tid = threads[i].wait_on_tid
        /\ threads'[i].state = w[i].state
  BY <1>1, <1>2, <1>3, WakeWaitersSpec DEF Tcbs, NoThread, Slots
<1>5. cpu \in Contexts(SavedAt) /\ cpu.at \in {"user", "wait", "exit", "close"}
  BY DEF IInv, TypeOK, LockDiscipline, Contexts, SavedAt, OnCpuAt, LockedAt
<1>6. TypeOK'
  <2>1. threads' \in [Slots -> Tcbs]
    BY <1>1, <1>2, <1>5 DEF Tcbs
  <2>2. MainInUser \in Contexts(OnCpuAt)
    BY MaxThreadsAssumption DEF MainInUser, Contexts, Flows, OnCpuAt, JoinArgs, Main
  <2> QED
    BY <2>1, <2>2, <1>2 DEF IInv, TypeOK
<1>7. LockDiscipline'
  BY <1>2 DEF LockDiscipline, MainInUser, LockedAt
<1>8. Places'
  BY <1>2 DEF IInv, Places, MainInUser
<1>9. CurrentIsOnCpu'
  BY <1>2 DEF CurrentIsOnCpu, MainInUser
<1>10. RunsOnLiveStack'
  BY <1>2, <1>4 DEF IInv, RunsOnLiveStack, MainInUser
<1>11. SavedContexts'
  <2> SUFFICES ASSUME NEW i \in Slots, i < num_threads
               PROVE  LET c == threads'[i].context IN
                      /\ c.flow \in {i, Main}
                      /\ c.at \in {"entry", "user", "wait", "exit"}
                      /\ c.flow = Main => c.at \in {"user", "wait"}
                      /\ c.at = "exit" => threads'[i].state = "FINISHED"
                      /\ c.at = "wait" => ValidTid(c.tid)
    BY DEF SavedContexts, ValidTid
  <2>1. CASE i = current_thread
    <3>1. cpu.at # "close"
      BY <2>1 DEF IInv, Places, NoThread, Slots
    <3>2. cpu.flow \in {i, Main} /\ (cpu.flow = Main => cpu.at \in {"user", "wait"})
      BY <2>1, <3>1, <1>5 DEF IInv, CurrentIsOnCpu, Places
    <3>3. cpu.at = "exit" => threads[i].state = "FINISHED"
      BY <2>1, <3>2 DEF IInv, CurrentIsOnCpu, Places
    <3>4. threads[i].state = "FINISHED" => w[i].state = "FINISHED"
      BY WakeWaitersSpec
    <3> QED
      BY <2>1, <3>1, <3>2, <3>3, <3>4, <1>4, <1>5 DEF IInv, Places
  <2>2. CASE i # current_thread
    BY <2>2, <1>4, WakeWaitersSpec DEF IInv, SavedContexts
  <2> QED
    BY <2>1, <2>2
<1>12. WaitTargetsExist'
  BY <1>2, <1>4, WakeWaitersSpec DEF IInv, WaitTargetsExist, MainInUser
<1> QED
  BY <1>6, <1>7, <1>8, <1>9, <1>10, <1>11, <1>12 DEF IInv

LEMMA SchedulerPreservesIInv ==
  ASSUME IInv, ~mutex, Scheduler
  PROVE  IInv'
BY DispatchPreservesIInv, ReturnToMainPreservesIInv DEF Scheduler, Chosen

(***************************************************************************)
(* Steps that only move the flow on the CPU to another place.              *)
(***************************************************************************)
LEMMA LockPreservesIInv ==
  ASSUME IInv, NEW place \in LockedAt \ {"wake"}, NEW tid \in JoinArgs,
         Lock(place, tid),
         place = "finish" => cpu.flow # Main,
         place = "terminate" => cpu.flow = Main
  PROVE  IInv'
<1> USE DEF IInv, Lock, At
<1>1. /\ cpu'.flow = cpu.flow
      /\ cpu'.at = place
      /\ cpu' \in Contexts(OnCpuAt)
  BY DEF TypeOK, Contexts, OnCpuAt
<1>2. TypeOK'
  BY <1>1 DEF TypeOK
<1>3. LockDiscipline'
  BY <1>1 DEF LockDiscipline
<1>4. Places'
  BY <1>1 DEF Places, LockedAt
<1>5. CurrentIsOnCpu'
  BY <1>1 DEF CurrentIsOnCpu, LockedAt
<1>6. RunsOnLiveStack'
  BY <1>1 DEF RunsOnLiveStack
<1>7. SavedContexts'
  BY DEF SavedContexts, ValidTid
<1>8. WaitTargetsExist'
  BY <1>1 DEF WaitTargetsExist, LockedAt
<1> QED
  BY <1>2, <1>3, <1>4, <1>5, <1>6, <1>7, <1>8

LEMMA UnlockPreservesIInv ==
  ASSUME IInv, Unlock("user"), cpu.at \in {"create", "join", "wake"},
         UNCHANGED <<scheduling_policy, armed, num_threads, current_thread,
                     threads, log_file, fault>>
  PROVE  IInv'
<1> USE DEF IInv, Unlock
<1>1. /\ cpu'.flow = cpu.flow
      /\ cpu'.at = "user"
      /\ cpu' \in Contexts(OnCpuAt)
  <2>1. cpu \in Contexts(OnCpuAt) /\ 0 \in JoinArgs
    BY MaxThreadsAssumption DEF TypeOK, JoinArgs
  <2>2. "user" \in OnCpuAt
    BY DEF OnCpuAt
  <2> QED
    BY <2>1, <2>2 DEF Contexts
<1>2. TypeOK'
  BY <1>1 DEF TypeOK
<1>3. LockDiscipline'
  BY <1>1 DEF LockDiscipline, LockedAt
<1>4. Places'
  BY <1>1 DEF Places
<1>5. CurrentIsOnCpu'
  BY <1>1 DEF CurrentIsOnCpu
<1>6. RunsOnLiveStack'
  BY <1>1 DEF RunsOnLiveStack
<1>7. SavedContexts'
  BY DEF SavedContexts, ValidTid
<1>8. WaitTargetsExist'
  BY <1>1 DEF WaitTargetsExist
<1> QED
  BY <1>2, <1>3, <1>4, <1>5, <1>6, <1>7, <1>8

(* Nothing but the fault changes when the process stops.                   *)
LEMMA FaultPreservesIInv ==
  ASSUME IInv, fault' \in {"hung", "double_free", "bad_log"},
         UNCHANGED <<scheduling_policy, armed, num_threads, current_thread,
                     threads, mutex, cpu, log_file>>
  PROVE  IInv'
BY DEF IInv, TypeOK, LockDiscipline, Places, CurrentIsOnCpu, RunsOnLiveStack,
       SavedContexts, WaitTargetsExist, ValidTid

LEMMA FailWithLogPreservesIInv ==
  ASSUME IInv, FailWithLog, cpu.at \in {"create", "join"},
         UNCHANGED <<scheduling_policy, armed, num_threads, current_thread,
                     threads, log_file>>
  PROVE  IInv'
BY UnlockPreservesIInv, FaultPreservesIInv DEF FailWithLog

(***************************************************************************)
(* The steps that write the tcbs.                                          *)
(***************************************************************************)
LEMMA CreatePreservesIInv ==
  ASSUME IInv, CreateBody
  PROVE  IInv'
<1> USE DEF IInv
<1> DEFINE k == num_threads
<1>1. /\ k \in Slots
      /\ current_thread # k
      /\ cpu.at = "create"
      /\ UNCHANGED <<scheduling_policy, armed, current_thread, log_file, fault>>
  BY MaxThreadsAssumption DEF CreateBody, At, TypeOK, Slots, Places, NoThread
<1>2. PICK p \in Priorities :
        \/ /\ threads' = [threads EXCEPT ![k] = InitialTcb(k, p, "live", "entry")]
           /\ num_threads' = k + 1
        \/ /\ threads' = [threads EXCEPT ![k] = InitialTcb(k, p, "null", "none")]
           /\ num_threads' = k
  BY DEF CreateBody
<1>3. /\ cpu'.flow = cpu.flow
      /\ cpu'.at = "user"
      /\ cpu' \in Contexts(OnCpuAt)
      /\ mutex' = FALSE
  <2>1. cpu \in Contexts(OnCpuAt) /\ 0 \in JoinArgs
    BY MaxThreadsAssumption DEF TypeOK, JoinArgs
  <2>2. "user" \in OnCpuAt
    BY DEF OnCpuAt
  <2> QED
    BY <2>1, <2>2 DEF Contexts, CreateBody, Unlock
<1>4. /\ InitialTcb(k, p, "live", "entry") \in Tcbs
      /\ InitialTcb(k, p, "null", "none") \in Tcbs
  BY <1>1, MaxThreadsAssumption
     DEF InitialTcb, Tcbs, States, Contexts, Flows, SavedAt, JoinArgs
<1>5. \A i \in Slots : i # k => threads'[i] = threads[i]
  BY <1>2 DEF TypeOK
<1>6. num_threads' = k + 1 => threads'[k] = InitialTcb(k, p, "live", "entry")
  BY <1>1, <1>2 DEF TypeOK
<1>. /\ k \in Nat
     /\ \A i \in Slots \cup {NoThread} : i \in Int
     /\ current_thread \in Int
     /\ num_threads' \in Nat
     /\ num_threads' \in {k, k + 1}
  BY <1>1, <1>2 DEF Slots, NoThread, TypeOK
<1>7. TypeOK'
  <2>1. threads' \in [Slots -> Tcbs]
    BY <1>2, <1>4 DEF TypeOK
  <2>2. num_threads' \in 0 .. MaxThreads
    BY <1>1, <1>2, MaxThreadsAssumption DEF TypeOK, Slots
  <2> QED
    BY <2>1, <2>2, <1>1, <1>3 DEF TypeOK
<1>8. LockDiscipline'
  BY <1>3 DEF LockDiscipline, LockedAt
<1>9. Places'
  BY <1>1, <1>3 DEF Places
<1>10. CurrentIsOnCpu'
  <2>1. cpu.flow # Main => cpu.flow \in Slots /\ cpu.flow # k
    BY <1>1 DEF CurrentIsOnCpu, TypeOK, Contexts, Flows
  <2>2. cpu.flow # Main => cpu.flow < k /\ cpu.flow < num_threads'
    BY <2>1 DEF CurrentIsOnCpu
  <2> QED
    BY <2>1, <2>2, <1>1, <1>3, <1>5 DEF CurrentIsOnCpu
<1>11. RunsOnLiveStack'
  <2>1. cpu.flow # Main => cpu.flow \in Slots /\ cpu.flow # k
    BY <1>1 DEF CurrentIsOnCpu, TypeOK, Contexts, Flows
  <2>2. ASSUME NEW i \in Slots, i < num_threads'
        PROVE  threads'[i].stack = "live"
    BY <2>2, <1>1, <1>2, <1>5, <1>6 DEF RunsOnLiveStack, InitialTcb, Slots
  <2> QED
    BY <2>1, <2>2, <1>3, <1>5 DEF RunsOnLiveStack
<1>12. SavedContexts'
  <2> SUFFICES ASSUME NEW i \in Slots, i < num_threads'
               PROVE  LET c == threads'[i].context IN
                      /\ c.flow \in {i, Main}
                      /\ c.at \in {"entry", "user", "wait", "exit"}
                      /\ c.flow = Main => c.at \in {"user", "wait"}
                      /\ c.at = "exit" => threads'[i].state = "FINISHED"
                      /\ c.at = "wait" => c.tid > 0 /\ c.tid <= num_threads'
    BY DEF SavedContexts, ValidTid
  <2>1. CASE i = k
    <3>1. num_threads' = k + 1
      BY <2>1
    <3>2. i # Main
      BY DEF Slots, Main
    <3> QED
      BY <2>1, <3>1, <3>2, <1>6 DEF InitialTcb
  <2>2. CASE i # k
    <3>1. i < k /\ threads'[i] = threads[i]
      BY <2>2, <1>5
    <3>2. ValidTid(threads[i].context.tid) =>
             /\ threads[i].context.tid > 0
             /\ threads[i].context.tid <= num_threads'
      <4>1. threads[i].context.tid \in Int
        BY DEF TypeOK, Tcbs, Contexts, JoinArgs
      <4> QED
        BY <3>1, <4>1 DEF ValidTid
    <3> QED
      BY <3>1, <3>2 DEF SavedContexts
  <2> QED
    BY <2>1, <2>2
<1>13. WaitTargetsExist'
  <2>1. ASSUME NEW i \in Slots, i < num_threads', threads'[i].state = "WAITING"
        PROVE  threads'[i].wait_on_tid \in 1 .. num_threads'
    <3>1. i # k
      BY <2>1, <1>1, <1>2, <1>6 DEF InitialTcb, Slots
    <3>2. i < k /\ threads'[i] = threads[i]
      BY <3>1, <2>1, <1>1, <1>2, <1>5 DEF Slots
    <3> QED
      BY <3>2, <2>1, <1>1, <1>2 DEF WaitTargetsExist, Slots
  <2> QED
    BY <2>1, <1>3 DEF WaitTargetsExist
<1> QED
  BY <1>7, <1>8, <1>9, <1>10, <1>11, <1>12, <1>13

LEMMA JoinWaitPreservesIInv ==
  ASSUME IInv, JoinWait
  PROVE  IInv'
<1> USE DEF IInv
<1> DEFINE c == current_thread
<1>1. /\ cpu.at = "join"
      /\ ValidTid(cpu.tid)
      /\ mutex' = FALSE
      /\ threads' = MarkWaiting(cpu.tid)
      /\ UNCHANGED <<scheduling_policy, armed, num_threads, current_thread,
                     log_file, fault>>
  BY DEF JoinWait, At
<1>2. /\ cpu'.flow = cpu.flow
      /\ cpu'.at = "wait"
      /\ cpu'.tid = cpu.tid
      /\ cpu' \in Contexts(OnCpuAt)
  BY DEF JoinWait, TypeOK, Contexts, OnCpuAt
<1>3. cpu.tid \in Tids /\ cpu.tid \in 1 .. num_threads
  BY <1>1, MaxThreadsAssumption DEF ValidTid, TypeOK, Contexts, JoinArgs, Tids
<1>4. c # NoThread => c \in Slots
  BY DEF TypeOK
<1>5. /\ threads' \in [Slots -> Tcbs]
      /\ \A i \in Slots :
           /\ threads'[i].context = threads[i].context
           /\ threads'[i].stack = threads[i].stack
           /\ \/ threads'[i] = threads[i] /\ (i = c => threads[i].state = "FINISHED")
              \/ /\ i = c
                 /\ threads[i].state # "FINISHED"
                 /\ threads'[i].state = "WAITING"
                 /\ threads'[i].wait_on_tid = cpu.tid
  <2>1. CASE c # NoThread /\ threads[c].state # "FINISHED"
    <3> DEFINE t == [threads[c] EXCEPT !.state = "WAITING", !.wait_on_tid = cpu.tid]
    <3>1. threads' = [threads EXCEPT ![c] = t]
      BY <2>1, <1>1 DEF MarkWaiting, TypeOK
    <3>2. /\ t \in Tcbs
          /\ t.context = threads[c].context
          /\ t.stack = threads[c].stack
          /\ t.state = "WAITING"
          /\ t.wait_on_tid = cpu.tid
      BY <2>1, <1>3, <1>4 DEF TypeOK, Tcbs, States
    <3> QED
      BY <3>1, <3>2, <2>1, <1>4 DEF TypeOK
  <2>2. CASE ~(c # NoThread /\ threads[c].state # "FINISHED")
    BY <2>2, <1>1 DEF MarkWaiting, TypeOK, NoThread, Slots
  <2> QED
    BY <2>1, <2>2
<1>6. TypeOK'
  BY <1>1, <1>2, <1>5 DEF TypeOK
<1>7. LockDiscipline'
  BY <1>1, <1>2 DEF LockDiscipline, LockedAt
<1>8. Places'
  BY <1>1, <1>2 DEF Places, ValidTid
<1>9. CurrentIsOnCpu'
  <2>1. cpu.flow # Main => c = cpu.flow /\ threads[c].state = "RUNNING"
    BY <1>1 DEF CurrentIsOnCpu
  <2>2. cpu.flow # Main => cpu.flow \in Slots
    BY DEF TypeOK, Contexts, Flows
  <2> QED
    BY <2>1, <2>2, <1>1, <1>2, <1>5 DEF CurrentIsOnCpu
<1>10. RunsOnLiveStack'
  <2>1. cpu.flow # Main => cpu.flow \in Slots
    BY DEF TypeOK, Contexts, Flows
  <2> QED
    BY <2>1, <1>1, <1>2, <1>5 DEF RunsOnLiveStack
<1>11. SavedContexts'
  BY <1>1, <1>5 DEF SavedContexts, ValidTid
<1>12. WaitTargetsExist'
  <2>1. ~Finished(threads, cpu.tid)
    BY DEF JoinWait
  <2>2. cpu.tid - 1 \in Slots
    BY <1>3, MaxThreadsAssumption DEF Tids, Slots
  <2>3. ~Finished(threads', cpu.tid)
    BY <2>1, <2>2, <1>5 DEF Finished
  <2>4. \A i \in Slots : i < num_threads' /\ threads'[i].state = "WAITING" =>
          threads'[i].wait_on_tid \in 1 .. num_threads'
    BY <1>1, <1>3, <1>5 DEF WaitTargetsExist
  <2>5. current_thread' # NoThread /\ threads'[current_thread'].state = "WAITING"
           => threads'[current_thread'].wait_on_tid = cpu.tid
    BY <1>1, <1>4, <1>5
  <2> QED
    BY <2>3, <2>4, <2>5, <1>2 DEF WaitTargetsExist, Finished
<1> QED
  BY <1>6, <1>7, <1>8, <1>9, <1>10, <1>11, <1>12

LEMMA FinishPreservesIInv ==
  ASSUME IInv, FinishBody
  PROVE  IInv'
<1> USE DEF IInv
<1> DEFINE c == current_thread
<1>1. /\ cpu.at = "finish"
      /\ cpu.flow # Main
      /\ c = cpu.flow
      /\ c \in Slots
      /\ mutex' = FALSE
      /\ threads' = [threads EXCEPT ![c].state = "FINISHED"]
      /\ UNCHANGED <<scheduling_policy, armed, num_threads, current_thread,
                     log_file, fault>>
  BY DEF FinishBody, At, Unlock, Places, CurrentIsOnCpu, TypeOK, Contexts, Flows
<1>2. /\ cpu'.flow = cpu.flow
      /\ cpu'.at = "exit"
      /\ cpu' \in Contexts(OnCpuAt)
  <2>1. cpu \in Contexts(OnCpuAt) /\ 0 \in JoinArgs
    BY MaxThreadsAssumption DEF TypeOK, JoinArgs
  <2>2. "exit" \in OnCpuAt
    BY DEF OnCpuAt
  <2> QED
    BY <2>1, <2>2 DEF Contexts, FinishBody, Unlock
<1>3. /\ threads' \in [Slots -> Tcbs]
      /\ \A i \in Slots :
           /\ threads'[i].context = threads[i].context
           /\ threads'[i].stack = threads[i].stack
           /\ threads'[i].wait_on_tid = threads[i].wait_on_tid
           /\ threads'[i].state = IF i = c THEN "FINISHED" ELSE threads[i].state
  BY <1>1 DEF TypeOK, Tcbs, States
<1>4. TypeOK'
  BY <1>1, <1>2, <1>3 DEF TypeOK
<1>5. LockDiscipline'
  BY <1>1, <1>2 DEF LockDiscipline, LockedAt
<1>6. Places'
  BY <1>1, <1>2 DEF Places
<1>7. CurrentIsOnCpu'
  BY <1>1, <1>2, <1>3 DEF CurrentIsOnCpu
<1>8. RunsOnLiveStack'
  BY <1>1, <1>2, <1>3 DEF RunsOnLiveStack
<1>9. SavedContexts'
  BY <1>1, <1>3 DEF SavedContexts, ValidTid
<1>10. WaitTargetsExist'
  BY <1>1, <1>2, <1>3 DEF WaitTargetsExist
<1> QED
  BY <1>4, <1>5, <1>6, <1>7, <1>8, <1>9, <1>10

LEMMA TerminatePreservesIInv ==
  ASSUME IInv, TerminateBody
  PROVE  IInv'
<1> USE DEF IInv
<1>1. /\ cpu.flow = Main
      /\ mutex' = FALSE
      /\ num_threads' = 0
      /\ current_thread' = NoThread
      /\ UNCHANGED <<scheduling_policy, armed, log_file, fault>>
  BY DEF TerminateBody, At, Unlock, Places
<1>2. /\ cpu'.flow = Main
      /\ cpu'.at = "close"
      /\ cpu' \in Contexts(OnCpuAt)
  <2>1. cpu \in Contexts(OnCpuAt) /\ 0 \in JoinArgs
    BY MaxThreadsAssumption DEF TypeOK, JoinArgs
  <2>2. "close" \in OnCpuAt
    BY DEF OnCpuAt
  <2> QED
    BY <2>1, <2>2, <1>1 DEF Contexts, TerminateBody, Unlock
<1>3. threads' \in [Slots -> Tcbs]
  <2>1. \A i \in Slots :
           [threads[i] EXCEPT !.state = "FINISHED", !.stack = "freed"] \in Tcbs
    BY DEF TypeOK, Tcbs, States
  <2> QED
    BY <2>1 DEF TypeOK, TerminateBody
<1>4. TypeOK'
  <2>1. 0 \in 0 .. MaxThreads
    BY MaxThreadsAssumption
  <2> QED
    BY <2>1, <1>1, <1>2, <1>3 DEF TypeOK
<1>5. LockDiscipline'
  BY <1>1, <1>2 DEF LockDiscipline, LockedAt
<1>6. Places'
  BY <1>1, <1>2 DEF Places
<1>7. CurrentIsOnCpu'
  BY <1>2 DEF CurrentIsOnCpu
<1>8. RunsOnLiveStack'
  BY <1>1, <1>2 DEF RunsOnLiveStack, Slots
<1>9. SavedContexts'
  BY <1>1 DEF SavedContexts, Slots
<1>10. WaitTargetsExist'
  BY <1>1, <1>2 DEF WaitTargetsExist, Slots
<1> QED
  BY <1>4, <1>5, <1>6, <1>7, <1>8, <1>9, <1>10

LEMMA WakePreservesIInv ==
  ASSUME IInv, JoinWake
  PROVE  IInv'
<1> USE DEF IInv, JoinWake, At
<1>1. /\ cpu'.flow = cpu.flow
      /\ cpu'.at = "wake"
      /\ cpu'.tid = cpu.tid
      /\ cpu' \in Contexts(OnCpuAt)
  BY DEF TypeOK, Contexts, OnCpuAt, LockedAt
<1>2. TypeOK'
  BY <1>1 DEF TypeOK
<1>3. LockDiscipline'
  BY <1>1 DEF LockDiscipline, LockedAt
<1>4. Places'
  BY <1>1 DEF Places, ValidTid
<1>5. CurrentIsOnCpu'
  <2>1. cpu.flow # Main =>
           /\ current_thread # NoThread
           /\ threads[cpu.flow].state # "WAITING"
    BY DEF CurrentIsOnCpu, WaitTargetsExist, TypeOK, Contexts, Flows, Main, NoThread
  <2> QED
    BY <2>1, <1>1 DEF CurrentIsOnCpu
<1>6. RunsOnLiveStack'
  BY <1>1 DEF RunsOnLiveStack
<1>7. SavedContexts'
  BY DEF SavedContexts, ValidTid
<1>8. WaitTargetsExist'
  BY <1>1 DEF WaitTargetsExist
<1> QED
  BY <1>2, <1>3, <1>4, <1>5, <1>6, <1>7, <1>8

LEMMA ClosePreservesIInv ==
  ASSUME IInv, TerminateClose
  PROVE  IInv'
<1> USE DEF IInv
<1>1. CASE log_file = "open"
  <2>1. /\ cpu' = MainInUser
        /\ log_file' = "closed"
        /\ UNCHANGED <<scheduling_policy, armed, num_threads, current_thread,
                       threads, mutex, fault>>
        /\ cpu.at = "close"
    BY <1>1 DEF TerminateClose, At
  <2>2. MainInUser \in Contexts(OnCpuAt)
    BY MaxThreadsAssumption DEF MainInUser, Contexts, Flows, OnCpuAt, JoinArgs, Main
  <2>3. TypeOK'
    BY <2>1, <2>2 DEF TypeOK
  <2>4. LockDiscipline' /\ Places' /\ CurrentIsOnCpu'
    BY <2>1 DEF LockDiscipline, LockedAt, Places, CurrentIsOnCpu, MainInUser
  <2>5. RunsOnLiveStack' /\ SavedContexts' /\ WaitTargetsExist'
    BY <2>1 DEF RunsOnLiveStack, SavedContexts, WaitTargetsExist, MainInUser, ValidTid
  <2> QED
    BY <2>3, <2>4, <2>5
<1>2. CASE log_file # "open"
  BY <1>2, FaultPreservesIInv DEF TerminateClose
<1> QED
  BY <1>1, <1>2

(***************************************************************************)
(* Every step preserves the invariant, one case per action.                *)
(***************************************************************************)
LEMMA NextPreservesIInv == IInv /\ [Next]_vars => IInv'
<1> SUFFICES ASSUME IInv, [Next]_vars PROVE IInv'
  OBVIOUS
<1>1. CASE Tick
  BY <1>1, SchedulerPreservesIInv, FaultPreservesIInv DEF Tick
<1>2. CASE thread_libinit
  <2> USE <1>2 DEF thread_libinit, IInv
  <2>1. TypeOK'
    BY DEF TypeOK
  <2>2. LockDiscipline' /\ Places' /\ CurrentIsOnCpu'
    BY DEF LockDiscipline, Places, CurrentIsOnCpu, ValidTid
  <2>3. RunsOnLiveStack' /\ SavedContexts' /\ WaitTargetsExist'
    BY DEF RunsOnLiveStack, SavedContexts, WaitTargetsExist, ValidTid, Finished
  <2> QED
    BY <2>1, <2>2, <2>3
<1>3. CASE CreateBegin
  BY <1>3, LockPreservesIInv, MaxThreadsAssumption DEF CreateBegin, LockedAt, JoinArgs
<1>4. CASE CreateFull
  BY <1>4, FailWithLogPreservesIInv DEF CreateFull, At
<1>5. CASE CreateFreesTwice
  BY <1>5, FaultPreservesIInv DEF CreateFreesTwice
<1>6. CASE CreateBody
  BY <1>6, CreatePreservesIInv
<1>7. CASE thread_yield
  <2>1. ~mutex
    BY <1>7 DEF thread_yield, At, IInv, LockDiscipline, LockedAt
  <2> QED
    BY <1>7, <2>1, SchedulerPreservesIInv DEF thread_yield
<1>8. CASE JoinBegin
  BY <1>8, LockPreservesIInv DEF JoinBegin, LockedAt
<1>9. CASE JoinInvalid
  BY <1>9, FailWithLogPreservesIInv DEF JoinInvalid, At
<1>10. CASE JoinFinished
  BY <1>10, UnlockPreservesIInv DEF JoinFinished, At
<1>11. CASE JoinWait
  BY <1>11, JoinWaitPreservesIInv
<1>12. CASE JoinWake
  BY <1>12, WakePreservesIInv
<1>13. CASE JoinEnd
  BY <1>13, UnlockPreservesIInv DEF JoinEnd, At
<1>14. CASE FinishBegin
  BY <1>14, LockPreservesIInv, MaxThreadsAssumption DEF FinishBegin, LockedAt, JoinArgs
<1>15. CASE FinishBody
  BY <1>15, FinishPreservesIInv
<1>16. CASE WrapperYields
  <2>1. ~mutex
    BY <1>16 DEF WrapperYields, At, IInv, LockDiscipline, LockedAt
  <2> QED
    BY <1>16, <2>1, SchedulerPreservesIInv DEF WrapperYields
<1>17. CASE TerminateBegin
  BY <1>17, LockPreservesIInv, MaxThreadsAssumption DEF TerminateBegin, LockedAt, JoinArgs
<1>18. CASE TerminateBody
  BY <1>18, TerminatePreservesIInv
<1>19. CASE TerminateClose
  BY <1>19, ClosePreservesIInv
<1>20. CASE UNCHANGED vars
  BY <1>20 DEF vars, IInv, TypeOK, LockDiscipline, Places, CurrentIsOnCpu,
               RunsOnLiveStack, SavedContexts, WaitTargetsExist, ValidTid, Finished
<1> QED
  BY <1>1, <1>2, <1>3, <1>4, <1>5, <1>6, <1>7, <1>8, <1>9, <1>10, <1>11, <1>12,
     <1>13, <1>14, <1>15, <1>16, <1>17, <1>18, <1>19, <1>20 DEF Next

(***************************************************************************)
(* The invariant holds in every reachable state.                           *)
(***************************************************************************)
LEMMA Invariance == Spec => []IInv
  BY InitEstablishesIInv, NextPreservesIInv, PTL DEF Spec

(* Every variable of the library stays in its type: num_threads never      *)
(* passes MAX_THREADS and current_thread always indexes threads[].         *)
THEOREM TypeCorrect == Spec => []TypeOK
<1>1. IInv => TypeOK
  BY DEF IInv
<1> QED
  BY <1>1, Invariance, PTL

(* The mutex is held exactly inside the critical sections of the calls.    *)
THEOREM LocksAreReleased == Spec => []LockDiscipline
<1>1. IInv => LockDiscipline
  BY DEF IInv
<1> QED
  BY <1>1, Invariance, PTL

(* current_thread names the thread that runs, and its state says so.       *)
THEOREM CurrentThreadRuns == Spec => []CurrentIsOnCpu
<1>1. IInv => CurrentIsOnCpu
  BY DEF IInv
<1> QED
  BY <1>1, Invariance, PTL

(* No thread runs on a stack that is not allocated.                        *)
THEOREM StacksAreLive == Spec => []RunsOnLiveStack
<1>1. IInv => RunsOnLiveStack
  BY DEF IInv
<1> QED
  BY <1>1, Invariance, PTL

(* What a tcb holds can be resumed without entering a critical section.    *)
THEOREM ContextsResume == Spec => []SavedContexts
<1>1. IInv => SavedContexts
  BY DEF IInv
<1> QED
  BY <1>1, Invariance, PTL

(* Waiting threads wait for existing threads.                              *)
THEOREM WaitersHaveTargets == Spec => []WaitTargetsExist
<1>1. IInv => WaitTargetsExist
  BY DEF IInv
<1> QED
  BY <1>1, Invariance, PTL

(***************************************************************************)
(* Finished threads stay finished.  The scheduler dispatches and wakes     *)
(* others only, a join marks a current thread that has not finished, and a *)
(* new thread takes an unused slot.                                        *)
(***************************************************************************)
LEMMA SchedulerKeepsFinished ==
  ASSUME IInv, Scheduler, NEW i \in Slots, threads[i].state = "FINISHED"
  PROVE  threads'[i].state = "FINISHED"
<1> DEFINE w == WakeWaiters
<1>1. w \in [Slots -> Tcbs] /\ w[i].state = "FINISHED"
  BY WakeWaitersSpec
<1>2. ASSUME NEW n \in Slots, Chosen(w, n), Dispatch(w, n)
      PROVE  threads'[i].state = "FINISHED"
  BY <1>1, <1>2 DEF Chosen, Eligible, Dispatch, Tcbs
<1>3. CASE ReturnToMain(w)
  <2>1. current_thread # NoThread => current_thread \in Slots
    BY DEF IInv, TypeOK
  <2> QED
    BY <1>1, <1>3, <2>1 DEF ReturnToMain, Tcbs
<1> QED
  BY <1>2, <1>3 DEF Scheduler

THEOREM FinishedForGood == Spec => FinishedIsFinal
<1> DEFINE Kept == \A i \in Slots :
                      i < num_threads /\ threads[i].state = "FINISHED"
                         => threads'[i].state = "FINISHED"
<1>1. IInv /\ [Next]_vars => Kept
  <2> SUFFICES ASSUME IInv, [Next]_vars, NEW i \in Slots, i < num_threads,
                      threads[i].state = "FINISHED"
               PROVE  threads'[i].state = "FINISHED"
    OBVIOUS
  <2>1. CASE Scheduler
    BY <2>1, SchedulerKeepsFinished
  <2>2. CASE UNCHANGED threads
    BY <2>2
  <2>3. CASE CreateBody
    <3>1. i # num_threads
      BY DEF IInv, TypeOK, Slots
    <3> QED
      BY <2>3, <3>1 DEF CreateBody, IInv, TypeOK
  <2>4. CASE JoinWait
    <3>1. current_thread # NoThread => current_thread \in Slots
      BY DEF IInv, TypeOK
    <3> QED
      BY <2>4, <3>1 DEF JoinWait, MarkWaiting, IInv, TypeOK
  <2>5. CASE FinishBody
    <3>1. current_thread \in Slots \cup {NoThread}
      BY DEF IInv, TypeOK
    <3> QED
      BY <2>5, <3>1 DEF FinishBody, IInv, TypeOK, Tcbs
  <2>6. CASE TerminateBody
    BY <2>6 DEF TerminateBody, IInv, TypeOK, Tcbs
  <2> QED
    BY <2>1, <2>2, <2>3, <2>4, <2>5, <2>6
       DEF Next, vars, Tick, thread_libinit, CreateBegin, CreateFull,
           CreateFreesTwice, thread_yield, JoinBegin, JoinInvalid, JoinFinished,
           JoinWake, JoinEnd, FinishBegin, WrapperYields, TerminateBegin,
           TerminateClose, Lock
<1> QED
  BY <1>1, Invariance, PTL DEF Spec, FinishedIsFinal

(* Main gets the CPU back through main_context only when no thread can     *)
(* run: the search for the next thread comes after the wake loop.          *)
THEOREM MainComesLast == Spec => MainRunsLast
<1> DEFINE w == WakeWaiters
<1> DEFINE Runnable(i) ==
             \/ Eligible(threads, i)
             \/ /\ threads[i].state = "WAITING"
                /\ Finished(threads, threads[i].wait_on_tid)
                /\ Eligible([threads EXCEPT ![i].state = "INITIALIZED"], i)
<1>1. ASSUME IInv, NEW i \in Slots, i < num_threads, Runnable(i)
      PROVE  Eligible(w, i)
  <2>1. w[i].state = "INITIALIZED"
    <3>1. CASE threads[i].state = "INITIALIZED"
      BY <3>1, WakeWaitersSpec, <1>1
    <3>2. CASE threads[i].state = "WAITING" /\ Finished(threads, threads[i].wait_on_tid)
      BY <3>2, <1>1 DEF WakeWaiters, IInv, TypeOK, Tcbs
    <3> QED
      BY <3>1, <3>2, <1>1 DEF Eligible
  <2>2. scheduling_policy = "PRIORITY" => threads[i].priority > IntMin
    BY <1>1 DEF Eligible, IInv, TypeOK, Tcbs
  <2> QED
    BY <2>1, <2>2, <1>1, WakeWaitersSpec DEF Eligible
<1>2. ASSUME IInv, [Next]_vars, cpu.flow # Main, cpu'.flow = Main,
             current_thread' = current_thread
      PROVE  \A n \in Slots : ~Eligible(w, n)
  <2>1. Scheduler
    <3>1. CASE Tick
      BY <3>1, <1>2 DEF Tick
    <3>2. CASE ~Tick
      <4> USE <3>2, <1>2
      <4>1. cpu \in Contexts(OnCpuAt)
        BY DEF IInv, TypeOK
      <4>2. cpu'.flow = cpu.flow \/ thread_yield \/ WrapperYields \/ TerminateClose
        BY <4>1 DEF Next, vars, thread_libinit, CreateBegin, CreateFull, FailWithLog,
                    CreateFreesTwice, CreateBody, JoinBegin, JoinInvalid, JoinFinished,
                    JoinWait, JoinWake, JoinEnd, FinishBegin, FinishBody,
                    TerminateBegin, TerminateBody, Lock, Unlock, Contexts
      <4>3. ~TerminateClose
        BY DEF TerminateClose, At, IInv, Places
      <4> QED
        BY <4>2, <4>3 DEF thread_yield, WrapperYields
    <3> QED
      BY <3>1, <3>2
  <2>2. ASSUME NEW n \in Slots, Dispatch(w, n)
        PROVE  FALSE
    <3>1. n = current_thread /\ n = cpu.flow
      BY <2>2, <1>2 DEF Dispatch, IInv, CurrentIsOnCpu
    <3>2. w[n].context.flow = n /\ w[n].context \in Contexts(SavedAt)
      BY <3>1, <1>2, WakeWaitersSpec DEF IInv, CurrentIsOnCpu, TypeOK, Tcbs
    <3> QED
      BY <2>2, <3>1, <3>2, <1>2 DEF Dispatch, SetContext, Contexts
  <2> QED
    BY <2>1, <2>2 DEF Scheduler
<1>3. IInv /\ [Next]_vars =>
        (cpu.flow # Main /\ cpu'.flow = Main /\ current_thread' = current_thread =>
           \A i \in Slots : i < num_threads =>
              /\ ~Eligible(threads, i)
              /\ ~(/\ threads[i].state = "WAITING"
                   /\ Finished(threads, threads[i].wait_on_tid)
                   /\ Eligible([threads EXCEPT ![i].state = "INITIALIZED"], i)))
  BY <1>1, <1>2
<1> QED
  BY <1>3, Invariance, PTL DEF Spec, MainRunsLast

(***************************************************************************)
(* The refinement of ThreadLife.                                           *)
(***************************************************************************)
LEMMA LifeFacts ==
  ASSUME IInv
  PROVE  /\ \A i \in Slots :
              /\ i < num_threads \/ i >= num_threads
              /\ Lives[i] = IF i >= num_threads THEN "unused"
                            ELSE IF threads[i].state = "FINISHED" THEN "finished" ELSE "alive"
              /\ Waits[i] = IF i < num_threads /\ threads[i].state = "WAITING"
                            THEN threads[i].wait_on_tid - 1 ELSE NoThread
         /\ \A t \in 1 .. num_threads : t - 1 \in Slots /\ t - 1 < num_threads
         /\ cpu.flow # Main => cpu.flow \in Slots /\ cpu.flow < num_threads
         /\ cpu.flow # Main /\ cpu.at \in OnCpuAt \ {"exit", "wait"} => Life!CanRun(cpu.flow)
<1>1. num_threads \in Nat /\ num_threads <= MaxThreads /\ MaxThreads \in Nat
  BY MaxThreadsAssumption DEF IInv, TypeOK
<1>2. \A i \in Slots : i \in Nat /\ (i < num_threads \/ i >= num_threads)
  BY <1>1 DEF Slots
<1>3. \A t \in 1 .. num_threads : t - 1 \in Slots /\ t - 1 < num_threads
  BY <1>1 DEF Slots
<1>4. cpu.flow # Main => cpu.flow \in Slots /\ cpu.flow < num_threads
  BY DEF IInv, TypeOK, CurrentIsOnCpu, Contexts, Flows
<1>5. ASSUME cpu.flow # Main, cpu.at \in OnCpuAt \ {"exit", "wait"}
      PROVE  Life!CanRun(cpu.flow)
  <2>1. threads[cpu.flow].state = "RUNNING"
    BY <1>5 DEF IInv, CurrentIsOnCpu
  <2>2. ~(cpu.flow >= num_threads)
    BY <1>1, <1>2, <1>4, <1>5
  <2> QED
    BY <1>4, <1>5, <2>1, <2>2 DEF Life!CanRun, Lives, Waits, NoThread
<1> QED
  BY <1>2, <1>3, <1>4, <1>5 DEF Lives, Waits

(* What the program cannot tell.                                           *)
LEMMA QuietLife ==
  ASSUME UNCHANGED <<num_threads, threads>>, cpu'.flow = cpu.flow,
         cpu.at # "wait", cpu'.at # "wait"
  PROVE  UNCHANGED Life!vars
BY DEF Life!vars, Lives, Waits, Joins

LEMMA SwitchesLife ==
  ASSUME IInv, IInv', Scheduler
  PROVE  Life!Switch
<1> DEFINE w == WakeWaiters
<1>1. UNCHANGED num_threads /\ w \in [Slots -> Tcbs]
  BY WakeWaitersSpec DEF Scheduler
<1>2. ASSUME NEW i \in Slots
      PROVE  w[i].state = IF /\ i < num_threads /\ threads[i].state = "WAITING"
                             /\ Finished(threads, threads[i].wait_on_tid)
                          THEN "INITIALIZED" ELSE threads[i].state
  BY DEF WakeWaiters, IInv, TypeOK, Tcbs
<1>3. /\ \A i \in Slots : threads'[i].wait_on_tid = threads[i].wait_on_tid
      /\ \E n \in Slots \cup {NoThread} :
           /\ \A i \in Slots : threads'[i].state = IF i = n THEN "RUNNING" ELSE w[i].state
           /\ n # NoThread => w[n].state = "INITIALIZED" /\ n < num_threads
           /\ cpu'.flow \in {n, Main}
  <2>1. ASSUME NEW n \in Slots, Chosen(w, n), Dispatch(w, n)
        PROVE  /\ \A i \in Slots : threads'[i].wait_on_tid = threads[i].wait_on_tid
               /\ \A i \in Slots : threads'[i].state = IF i = n THEN "RUNNING" ELSE w[i].state
               /\ w[n].state = "INITIALIZED" /\ n < num_threads
               /\ cpu'.flow \in {n, Main}
    <3>1. threads' = [w EXCEPT ![n].state = "RUNNING"] /\ SetContext(w[n].context)
      BY <2>1 DEF Dispatch
    <3>2. w[n].state = "INITIALIZED" /\ n < num_threads
      BY <2>1 DEF Chosen, Eligible
    <3>3. w[n].context = threads[n].context /\ w[n].context \in Contexts(SavedAt)
      BY <1>1, WakeWaitersSpec DEF Tcbs
    <3>4. w[n].context.flow \in {n, Main}
      BY <3>2, <3>3 DEF IInv, SavedContexts
    <3>5. cpu'.flow \in {n, Main}
      BY <3>1, <3>3, <3>4 DEF SetContext, MainInUser, Contexts
    <3>6. \A i \in Slots :
             /\ threads'[i].state = IF i = n THEN "RUNNING" ELSE w[i].state
             /\ threads'[i].wait_on_tid = w[i].wait_on_tid
      BY <3>1, <1>1 DEF Tcbs
    <3> QED
      BY <3>2, <3>5, <3>6, WakeWaitersSpec
  <2>2. ASSUME ReturnToMain(w)
        PROVE  /\ \A i \in Slots : threads'[i].wait_on_tid = threads[i].wait_on_tid
               /\ \A i \in Slots : threads'[i].state = w[i].state
               /\ cpu'.flow = Main
    <3>1. current_thread # NoThread => current_thread \in Slots
      BY DEF IInv, TypeOK
    <3>2. \A i \in Slots :
             /\ threads'[i].state = w[i].state
             /\ threads'[i].wait_on_tid = w[i].wait_on_tid
      BY <2>2, <3>1, <1>1 DEF ReturnToMain, Tcbs
    <3> QED
      BY <2>2, <3>2, WakeWaitersSpec DEF ReturnToMain, MainInUser
  <2>3. NoThread \notin Slots
    BY DEF NoThread, Slots
  <2>4. CASE \E n \in Slots : Chosen(w, n) /\ Dispatch(w, n)
    BY <2>1, <2>4
  <2>5. CASE ReturnToMain(w)
    BY <2>2, <2>3, <2>5
  <2> QED
    BY <2>4, <2>5 DEF Scheduler
<1>4. PICK n \in Slots \cup {NoThread} :
         /\ \A i \in Slots : threads'[i].state = IF i = n THEN "RUNNING" ELSE w[i].state
         /\ n # NoThread => w[n].state = "INITIALIZED" /\ n < num_threads
         /\ cpu'.flow \in {n, Main}
  BY <1>3
<1> HIDE DEF w
<1>5. ASSUME NEW i \in Slots
      PROVE  /\ Lives'[i] = Lives[i]
             /\ Waits'[i] = IF Waits[i] # NoThread /\ Lives[Waits[i]] = "finished"
                             THEN NoThread ELSE Waits[i]
  <2>1. /\ Lives'[i] = IF i >= num_threads THEN "unused"
                        ELSE IF threads'[i].state = "FINISHED" THEN "finished" ELSE "alive"
        /\ Waits'[i] = IF i < num_threads /\ threads'[i].state = "WAITING"
                        THEN threads[i].wait_on_tid - 1 ELSE NoThread
    BY <1>1, <1>3 DEF Lives, Waits
  <2>2. /\ Lives[i] = IF i >= num_threads THEN "unused"
                       ELSE IF threads[i].state = "FINISHED" THEN "finished" ELSE "alive"
        /\ Waits[i] = IF i < num_threads /\ threads[i].state = "WAITING"
                       THEN threads[i].wait_on_tid - 1 ELSE NoThread
    BY DEF Lives, Waits
  <2>3. i = n => w[i].state = "INITIALIZED" /\ i < num_threads
    BY <1>4 DEF NoThread, Slots
  <2>4. Lives'[i] = Lives[i]
    BY <2>1, <2>2, <2>3, <1>2, <1>4
  <2>5. CASE ~(i < num_threads /\ threads[i].state = "WAITING")
    BY <2>1, <2>2, <2>4, <2>5, <1>2, <1>4
  <2>6. CASE i < num_threads /\ threads[i].state = "WAITING"
    <3> DEFINE t == threads[i].wait_on_tid
    <3>1. t \in 1 .. num_threads /\ t - 1 \in Slots /\ t - 1 < num_threads
      BY <2>6, LifeFacts DEF IInv, WaitTargetsExist
    <3>2. Waits[i] = t - 1 /\ t - 1 # NoThread
      BY <2>2, <2>6, <3>1 DEF NoThread, Slots
    <3>3. ~(t - 1 >= num_threads)
      BY <3>1 DEF Slots, IInv, TypeOK
    <3>4. Lives[t - 1] = IF threads[t - 1].state = "FINISHED" THEN "finished" ELSE "alive"
      BY <3>1, <3>3 DEF Lives
    <3>5. Finished(threads, t) <=> Lives[Waits[i]] = "finished"
      BY <3>2, <3>4 DEF Finished
    <3>6. CASE Finished(threads, t)
      <4>1. w[i].state = "INITIALIZED"
        BY <3>6, <2>6, <1>2
      <4>2. threads'[i].state # "WAITING"
        BY <4>1, <1>4
      <4> QED
        BY <4>2, <2>1, <2>4, <3>2, <3>5, <3>6
    <3>7. CASE ~Finished(threads, t)
      <4>1. w[i].state = "WAITING" /\ i # n
        BY <3>7, <2>3, <2>6, <1>2
      <4>2. threads'[i].state = "WAITING"
        BY <4>1, <1>4
      <4> QED
        BY <4>2, <2>1, <2>4, <2>6, <3>2, <3>5, <3>7
    <3> QED
      BY <3>6, <3>7
  <2> QED
    BY <2>5, <2>6
<1>6. Lives' = Lives
  BY <1>1, <1>5 DEF Lives
<1>7. Waits' = [i \in Slots |-> IF Waits[i] # NoThread /\ Lives[Waits[i]] = "finished"
                                THEN NoThread ELSE Waits[i]]
  BY <1>5 DEF Waits
<1>8. cpu'.flow \in {Main} \cup {i \in Slots : Life!CanRun(i)'}
  <2>1. CASE cpu'.flow = Main
    BY <2>1
  <2>2. CASE cpu'.flow # Main
    <3>1. n \in Slots /\ cpu'.flow = n /\ n < num_threads /\ threads'[n].state = "RUNNING"
      BY <1>4, <2>2 DEF NoThread, Main
    <3>2. ~(n >= num_threads)
      BY <3>1 DEF Slots, IInv, TypeOK
    <3>3. Lives'[n] = "alive" /\ Waits'[n] = NoThread
      BY <3>1, <3>2, <1>1 DEF Lives, Waits
    <3> QED
      BY <3>1, <3>3 DEF Life!CanRun
  <2> QED
    BY <2>1, <2>2
<1>9. Joins' \in Slots \cup {NoThread}
  <2>1. cpu'.at = "wait" => cpu'.tid \in 1 .. num_threads
    BY <1>1 DEF IInv, TypeOK, Places, ValidTid, Contexts, JoinArgs
  <2> QED
    BY <2>1, LifeFacts DEF Joins
<1> QED
  BY <1>6, <1>7, <1>8, <1>9 DEF Life!Switch

LEMMA CreatesLife ==
  ASSUME IInv, CreateBody
  PROVE  Life!Create \/ UNCHANGED Life!vars
<1> DEFINE n == num_threads
<1>1. /\ n \in Slots /\ cpu.at = "create" /\ cpu'.at = "user" /\ cpu'.flow = cpu.flow
  <2>1. n \in Slots
    BY MaxThreadsAssumption DEF CreateBody, IInv, TypeOK, Slots
  <2> QED
    BY <2>1 DEF CreateBody, At, Unlock, IInv, TypeOK, Contexts
<1>2. Joins' = Joins
  BY <1>1 DEF Joins
<1>3. \A i \in Slots : i # n => threads'[i] = threads[i]
  BY DEF CreateBody, IInv, TypeOK
<1>4. \A i \in Slots : i \in Nat /\ n \in Nat
  BY <1>1 DEF Slots
<1>5. CASE num_threads' = n
  <2>1. \A i \in Slots : i < n => i # n
    BY <1>4
  <2>2. \A i \in Slots : ~(i >= n) => i # n
    BY <1>4
  <2>3. Lives' = Lives
    BY <2>2, <1>3, <1>5 DEF Lives
  <2>4. Waits' = Waits
    BY <2>1, <1>3, <1>5 DEF Waits
  <2> QED
    BY <2>3, <2>4, <1>1, <1>2 DEF Life!vars
<1>6. CASE num_threads' = n + 1
  <2>1. threads'[n].state = "INITIALIZED"
    BY <1>1, <1>6 DEF CreateBody, InitialTcb, IInv, TypeOK, Tcbs
  <2>2. Lives[n] = "unused"
    BY <1>1, <1>4 DEF Lives
  <2>3. ASSUME NEW i \in Slots
        PROVE  Lives'[i] = [Lives EXCEPT ![n] = "alive"][i] /\ Waits'[i] = Waits[i]
    <3>1. CASE i = n
      BY <3>1, <2>1, <1>1, <1>4, <1>6 DEF Lives, Waits
    <3>2. CASE i # n
      <4>1. (i < n + 1 <=> i < n) /\ (i >= n + 1 <=> i >= n)
        BY <3>2, <1>4
      <4> QED
        BY <4>1, <3>2, <1>3, <1>6 DEF Lives, Waits
    <3> QED
      BY <3>1, <3>2
  <2>4. Lives' = [Lives EXCEPT ![n] = "alive"]
    BY <2>3 DEF Lives
  <2>5. Waits' = Waits
    BY <2>3 DEF Waits
  <2>6. Life!Able
    BY <1>1, LifeFacts DEF Life!Able, OnCpuAt, LockedAt
  <2> QED
    BY <1>1, <1>2, <2>2, <2>4, <2>5, <2>6 DEF Life!Create
<1> QED
  BY <1>5, <1>6 DEF CreateBody

LEMMA JoinsLife ==
  ASSUME IInv, JoinWait
  PROVE  Life!Join
<1> DEFINE t == cpu.tid
           c == current_thread
<1>1. /\ cpu.at = "join" /\ cpu'.at = "wait" /\ cpu'.tid = t /\ cpu'.flow = cpu.flow
      /\ UNCHANGED num_threads /\ t \in 1 .. num_threads /\ ~Finished(threads, t)
      /\ threads' = MarkWaiting(t)
  BY DEF JoinWait, At, ValidTid, IInv, TypeOK, Contexts, JoinArgs
<1>2. /\ t - 1 \in Slots /\ t - 1 < num_threads
      /\ \A i \in Slots : i < num_threads \/ i >= num_threads
  BY <1>1, LifeFacts
<1>3. Joins = NoThread /\ Joins' = t - 1
  BY <1>1 DEF Joins
<1>4. Lives[t - 1] = "alive"
  <2>1. ~(t - 1 >= num_threads)
    BY <1>2 DEF Slots, IInv, TypeOK
  <2> QED
    BY <2>1, <1>1, <1>2 DEF Lives, Finished
<1>5. Life!Able
  BY <1>1, LifeFacts DEF Life!Able, OnCpuAt, LockedAt
<1>6. CASE c = NoThread \/ threads[c].state = "FINISHED"
  <2>1. UNCHANGED threads
    BY <1>1, <1>6 DEF MarkWaiting
  <2>2. Lives' = Lives /\ Waits' = Waits
    BY <2>1, <1>1 DEF Lives, Waits
  <2> QED
    BY <2>2, <1>1, <1>2, <1>3, <1>4, <1>5 DEF Life!Join
<1>7. CASE c # NoThread /\ threads[c].state # "FINISHED"
  <2>1. c \in Slots /\ c < num_threads /\ ~(c >= num_threads)
    BY <1>7 DEF IInv, TypeOK, Places, Slots
  <2>2. threads' = [threads EXCEPT ![c].state = "WAITING", ![c].wait_on_tid = t]
    BY <1>1, <1>7 DEF MarkWaiting
  <2>3. /\ threads'[c].state = "WAITING" /\ threads'[c].wait_on_tid = t
        /\ \A i \in Slots : i # c => threads'[i] = threads[i]
    BY <2>1, <2>2 DEF IInv, TypeOK, Tcbs
  <2>4. Lives[c] = "alive"
    BY <2>1, <1>7 DEF Lives
  <2>5. \A i \in Slots : Lives'[i] = Lives[i] /\ Waits'[i] = [Waits EXCEPT ![c] = t - 1][i]
    BY <2>1, <2>3, <1>1, <1>7 DEF Lives, Waits
  <2>6. Lives' = Lives
    BY <2>5 DEF Lives
  <2>7. Waits' = [Waits EXCEPT ![c] = t - 1]
    BY <2>5 DEF Waits
  <2> QED
    BY <2>1, <2>4, <2>6, <2>7, <1>1, <1>2, <1>3, <1>4, <1>5 DEF Life!Join
<1> QED
  BY <1>6, <1>7

LEMMA ReturnsLife ==
  ASSUME IInv, JoinWake
  PROVE  Life!Return
<1> DEFINE t == cpu.tid
<1>1. /\ cpu.at = "wait" /\ cpu'.at = "wake" /\ cpu'.flow = cpu.flow
      /\ UNCHANGED <<threads, num_threads>> /\ t \in 1 .. num_threads /\ Finished(threads, t)
  BY DEF JoinWake, At, Places, ValidTid, IInv, TypeOK, Contexts, JoinArgs
<1>2. t - 1 \in Slots /\ t - 1 < num_threads /\ ~(t - 1 >= num_threads)
  BY <1>1, LifeFacts DEF Slots, IInv, TypeOK
<1>3. Joins = t - 1 /\ Joins # NoThread /\ Joins' = NoThread
  BY <1>1, <1>2 DEF Joins, NoThread, Slots
<1>4. Lives[Joins] = "finished"
  BY <1>1, <1>2, <1>3 DEF Lives, Finished
<1>5. Lives' = Lives /\ Waits' = Waits
  BY <1>1 DEF Lives, Waits
<1>6. Life!Able
  <2> SUFFICES ASSUME cpu.flow # Main PROVE Life!CanRun(cpu.flow)
    BY DEF Life!Able
  <2>1. cpu.flow \in Slots /\ cpu.flow < num_threads /\ ~(cpu.flow >= num_threads)
    BY LifeFacts DEF Slots, IInv, TypeOK
  <2>2. cpu.flow = current_thread /\ current_thread # NoThread
    BY DEF IInv, CurrentIsOnCpu, Main, NoThread
  <2>3. threads[cpu.flow].state = "RUNNING"
    BY <2>2, <1>1 DEF IInv, CurrentIsOnCpu, WaitTargetsExist
  <2> QED
    BY <2>1, <2>3 DEF Life!CanRun, Lives, Waits
<1> QED
  BY <1>1, <1>3, <1>4, <1>5, <1>6 DEF Life!Return

LEMMA FinishesLife ==
  ASSUME IInv, FinishBody
  PROVE  Life!Finish
<1> DEFINE n == cpu.flow
<1>1. /\ cpu.at = "finish" /\ cpu'.at = "exit" /\ cpu'.flow = n /\ n # Main
      /\ n = current_thread /\ UNCHANGED num_threads
      /\ threads' = [threads EXCEPT ![n].state = "FINISHED"]
  BY DEF FinishBody, At, Unlock, IInv, Places, CurrentIsOnCpu, TypeOK, Contexts
<1>2. n \in Slots /\ n < num_threads /\ ~(n >= num_threads) /\ Life!CanRun(n)
  BY <1>1, LifeFacts DEF OnCpuAt, LockedAt, Slots, IInv, TypeOK
<1>3. /\ threads'[n].state = "FINISHED" /\ Waits[n] = NoThread
      /\ \A i \in Slots : i # n => threads'[i] = threads[i]
  BY <1>1, <1>2 DEF IInv, TypeOK, Tcbs, Life!CanRun
<1>4. \A i \in Slots : Lives'[i] = [Lives EXCEPT ![n] = "finished"][i] /\ Waits'[i] = Waits[i]
  BY <1>1, <1>2, <1>3 DEF Lives, Waits
<1>5. Lives' = [Lives EXCEPT ![n] = "finished"]
  BY <1>4 DEF Lives
<1>6. Waits' = Waits
  BY <1>4 DEF Waits
<1>7. Joins' = Joins
  BY <1>1 DEF Joins
<1> QED
  BY <1>1, <1>2, <1>5, <1>6, <1>7 DEF Life!Finish

LEMMA TerminatesLife ==
  ASSUME IInv, TerminateBody
  PROVE  Life!Terminate
<1>1. /\ cpu.at = "terminate" /\ cpu'.at = "close" /\ cpu'.flow = cpu.flow
      /\ cpu.flow = Main /\ num_threads' = 0
  BY DEF TerminateBody, At, Unlock, IInv, Places, TypeOK, Contexts
<1>2. \A i \in Slots : i >= 0 /\ ~(i < 0)
  BY DEF Slots
<1>3. Lives' = [i \in Slots |-> "unused"] /\ Waits' = [i \in Slots |-> NoThread]
  BY <1>1, <1>2 DEF Lives, Waits
<1>4. Joins' = Joins
  BY <1>1 DEF Joins
<1> QED
  BY <1>1, <1>3, <1>4 DEF Life!Terminate

(* For every number of slots the library implements ThreadLife: the        *)
(* scheduler, the calls and wrapper() change the lives of the threads as   *)
(* it says, and only so.                                                   *)
THEOREM ImplementsThreadLife == Spec => KeepsThreadLife
<1>1. Init => Life!Init
  <2> SUFFICES ASSUME Init PROVE Life!Init
    OBVIOUS
  <2>1. \A i \in Slots : i >= 0 /\ ~(i < 0)
    BY DEF Slots
  <2>2. Lives = [i \in Slots |-> "unused"] /\ Waits = [i \in Slots |-> NoThread]
    BY <2>1 DEF Init, Lives, Waits
  <2> QED
    BY <2>2 DEF Init, Life!Init, Joins, MainInUser
<1>2. IInv /\ IInv' /\ [Next]_vars => [Life!Next]_(Life!vars)
  <2> SUFFICES ASSUME IInv, IInv', [Next]_vars
               PROVE  Life!Next \/ UNCHANGED Life!vars
    OBVIOUS
  <2>1. cpu \in Contexts(OnCpuAt)
    BY DEF IInv, TypeOK
  <2>2. CASE Scheduler
    BY <2>2, SwitchesLife DEF Life!Next
  <2>3. CASE CreateBody
    BY <2>3, CreatesLife DEF Life!Next
  <2>4. CASE JoinWait
    BY <2>4, JoinsLife DEF Life!Next
  <2>5. CASE JoinWake
    BY <2>5, ReturnsLife DEF Life!Next
  <2>6. CASE FinishBody
    BY <2>6, FinishesLife DEF Life!Next
  <2>7. CASE TerminateBody
    BY <2>7, TerminatesLife DEF Life!Next
  <2>8. CASE UNCHANGED <<num_threads, threads, cpu>>
    BY <2>8 DEF Life!vars, Lives, Waits, Joins
  <2>9. CASE \/ CreateBegin \/ CreateFull \/ JoinBegin \/ JoinInvalid \/ JoinFinished
             \/ JoinEnd \/ FinishBegin \/ TerminateBegin \/ TerminateClose
    <3>1. UNCHANGED <<num_threads, threads>> /\ cpu.at # "wait"
      BY <2>9 DEF CreateBegin, CreateFull, JoinBegin, JoinInvalid, JoinFinished, JoinEnd,
                  FinishBegin, TerminateBegin, TerminateClose, At, Lock
    <3>2. cpu'.flow = cpu.flow /\ cpu'.at # "wait"
      <4>1. CASE TerminateClose
        BY <4>1 DEF TerminateClose, At, MainInUser, IInv, Places
      <4>2. CASE CreateBegin \/ JoinBegin \/ FinishBegin \/ TerminateBegin
        BY <2>1, <4>2 DEF CreateBegin, JoinBegin, FinishBegin, TerminateBegin, Lock, Contexts
      <4>3. CASE CreateFull \/ JoinInvalid \/ JoinFinished \/ JoinEnd
        BY <2>1, <4>3 DEF CreateFull, JoinInvalid, JoinFinished, JoinEnd, FailWithLog, At,
                          Unlock, Contexts
      <4> QED
        BY <2>9, <4>1, <4>2, <4>3
    <3> QED
      BY <3>1, <3>2, QuietLife
  <2> QED
    BY <2>2, <2>3, <2>4, <2>5, <2>6, <2>7, <2>8, <2>9
       DEF Next, vars, Tick, thread_libinit, CreateFreesTwice, thread_yield, WrapperYields
<1> QED
  BY <1>1, <1>2, Invariance, PTL DEF Spec, KeepsThreadLife, Life!Spec

=============================================================================
