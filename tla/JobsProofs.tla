----------------------------- MODULE JobsProofs -----------------------------
(***************************************************************************)
(* What TLAPS proves of Jobs, for any number of children.  Each action is  *)
(* shown to preserve the invariant by a lemma of its own.                  *)
(***************************************************************************)
EXTENDS Jobs, TLAPS

USE ShellAssumption DEF In, At, Prompt, Places, States, Kinds

LEMMA InitInvariant == Init => IInv
<1> SUFFICES ASSUME Init PROVE IInv
  OBVIOUS
<1>1. TypeOK
  <2>1. /\ state \in [Pids -> States] /\ kind \in [Pids -> Kinds]
        /\ report = {} /\ listed = {} /\ marked = {}
        /\ terminal = Shell /\ sigchld = FALSE /\ sigtstp = FALSE /\ fault = FALSE
    BY DEF Init
  <2>2. /\ main \in [at : Places, pid : Pids \cup {Shell}, left : Nat]
        /\ main.at = "prompt"
    BY DEF Init
  <2> QED
    BY <2>1, <2>2 DEF TypeOK
<1>2. Bookkeeping /\ NoReportIsLost
  BY DEF Init, Bookkeeping, NoReportIsLost
<1>3. TerminalIsReturned /\ StoppedMarkIsTrue /\ NoJobIsForgotten
  BY DEF Init, TerminalIsReturned, StoppedMarkIsTrue, NoJobIsForgotten
<1> QED
  BY <1>1, <1>2, <1>3 DEF IInv

LEMMA ChildExecsInvariant ==
  ASSUME IInv, NEW p \in Pids, ChildExecs(p)
  PROVE  IInv'
<1> USE DEF IInv, ChildExecs, job_list, signals
<1>1. TypeOK'
  BY DEF TypeOK
<1>2. \A q \in Pids : state'[q] = IF q = p THEN "running" ELSE state[q]
  BY DEF TypeOK
<1>3. Bookkeeping'
  BY <1>2 DEF Bookkeeping, TypeOK
<1>4. TerminalIsReturned'
  BY DEF TerminalIsReturned, Bookkeeping
<1>5. NoReportIsLost'
  BY <1>2 DEF NoReportIsLost
<1>6. StoppedMarkIsTrue'
  BY <1>2 DEF StoppedMarkIsTrue, Bookkeeping, TypeOK
<1>7. kind' = kind /\ main' = main /\ listed' = listed
  OBVIOUS
<1>8. NoJobIsForgotten'
  BY <1>2, <1>7 DEF NoJobIsForgotten, Bookkeeping
<1> QED
  BY <1>1, <1>3, <1>4, <1>5, <1>6, <1>8

LEMMA ChildExitsInvariant ==
  ASSUME IInv, NEW p \in Pids, ChildExits(p)
  PROVE  IInv'
<1> USE DEF IInv, ChildExits, job_list
<1>1. TypeOK'
  BY DEF TypeOK
<1>2. \A q \in Pids : state'[q] = IF q = p THEN "exited" ELSE state[q]
  BY DEF TypeOK
<1>3. Bookkeeping'
  BY <1>2 DEF Bookkeeping, TypeOK
<1>4. TerminalIsReturned' /\ NoReportIsLost'
  BY DEF TerminalIsReturned, NoReportIsLost
<1>5. StoppedMarkIsTrue'
  BY <1>2 DEF StoppedMarkIsTrue, TypeOK
<1>6. NoJobIsForgotten'
  BY <1>2 DEF NoJobIsForgotten
<1> QED
  BY <1>1, <1>3, <1>4, <1>5, <1>6

(* A stop of running children, by Control-Z or by handle_sigtstp, which    *)
(* then marks the job that has the terminal.                               *)
LEMMA StopsInvariant ==
  ASSUME IInv, Stops(InGroup(terminal)), sigtstp' \in BOOLEAN,
         UNCHANGED <<listed, terminal, main, fault>>,
         NEW M \in SUBSET (listed \cap {terminal}), marked' = marked \cup M
  PROVE  IInv'
<1> USE DEF IInv
<1> DEFINE S == InGroup(terminal)
<1>1. \A q \in Pids : state'[q] = IF q \in S THEN "stopped" ELSE state[q]
  BY DEF Stops
<1>2. S \subseteq In("running") /\ \A q \in In("running") : q = terminal => q \in S
  BY DEF InGroup
<1>3. report' = report \cup S /\ sigchld' = (sigchld \/ S # {}) /\ kind' = kind
  BY DEF Stops
<1>4. TypeOK'
  <2>1. state' \in [Pids -> States]
    BY <1>1 DEF Stops, TypeOK
  <2>2. marked' \subseteq listed' /\ report' \subseteq Pids /\ sigchld' \in BOOLEAN
    BY <1>2, <1>3 DEF TypeOK
  <2> QED
    BY <1>3, <2>1, <2>2 DEF TypeOK
<1>5. Bookkeeping'
  BY <1>1, <1>2, <1>3 DEF Bookkeeping, TypeOK
<1>6. TerminalIsReturned'
  BY DEF TerminalIsReturned
<1>7. NoReportIsLost'
  BY <1>1, <1>3 DEF NoReportIsLost
<1>8. StoppedMarkIsTrue'
  <2> SUFFICES ASSUME NEW q \in marked'
               PROVE  \/ state'[q] \in {"stopped", "exited", "reaped"}
                      \/ main.at \in {"bg_mark", "fg_mark"} /\ main.pid = q
    BY DEF StoppedMarkIsTrue
  <2>1. q \in Pids /\ q \in listed
    BY DEF TypeOK
  <2>2. CASE q \in marked
    BY <1>1, <2>1, <2>2 DEF StoppedMarkIsTrue
  <2>3. CASE q = terminal
    BY <1>1, <1>2, <2>1, <2>3 DEF Bookkeeping, TypeOK
  <2> QED
    BY <2>2, <2>3
<1>9. NoJobIsForgotten'
  BY <1>1, <1>2, <1>3 DEF NoJobIsForgotten
<1> QED
  BY <1>4, <1>5, <1>6, <1>7, <1>8, <1>9

LEMMA CtrlZInvariant == IInv /\ CtrlZ => IInv'
<1> SUFFICES ASSUME IInv, CtrlZ PROVE IInv'
  OBVIOUS
<1>1. Stops(InGroup(terminal)) /\ UNCHANGED <<job_list, terminal, main, fault>>
  BY DEF CtrlZ
<1>2. sigtstp' \in BOOLEAN
  BY DEF CtrlZ, IInv, TypeOK
<1>3. marked' = marked \cup {} /\ {} \in SUBSET (listed \cap {terminal})
  BY <1>1 DEF job_list
<1> QED
  BY <1>1, <1>2, <1>3, StopsInvariant DEF job_list

(* A step of the handlers or of main that touches no process and no job.   *)
LEMMA ProcessesKept ==
  ASSUME IInv, UNCHANGED <<processes, job_list, sigchld, terminal, main>>,
         sigtstp' \in BOOLEAN, fault' \in BOOLEAN
  PROVE  IInv'
BY DEF IInv, TypeOK, Bookkeeping, TerminalIsReturned, NoReportIsLost,
       StoppedMarkIsTrue, NoJobIsForgotten, processes, job_list

LEMMA SigtstpInvariant == IInv /\ handle_sigtstp => IInv'
<1> SUFFICES ASSUME IInv, handle_sigtstp PROVE IInv'
  OBVIOUS
<1>1. sigtstp' = FALSE /\ UNCHANGED <<terminal, main, fault>>
  BY DEF handle_sigtstp
<1>2. fault' \in BOOLEAN
  BY <1>1 DEF IInv, TypeOK
<1>3. CASE terminal = Shell
  BY <1>1, <1>2, <1>3, ProcessesKept DEF handle_sigtstp
<1>4. CASE terminal # Shell
  <2>1. /\ Stops(InGroup(terminal))
        /\ marked' = marked \cup (listed \cap {terminal})
        /\ UNCHANGED listed
    BY <1>4 DEF handle_sigtstp
  <2>2. (listed \cap {terminal}) \in SUBSET (listed \cap {terminal})
    OBVIOUS
  <2> QED
    BY <1>1, <2>1, <2>2, StopsInvariant
<1> QED
  BY <1>3, <1>4

LEMMA SigchldInvariant == IInv /\ handle_sigchld => IInv'
<1> SUFFICES ASSUME IInv, handle_sigchld PROVE IInv'
  OBVIOUS
<1> USE DEF IInv, handle_sigchld
<1>1. \A q \in Pids : state'[q] = IF state[q] = "exited" THEN "reaped" ELSE state[q]
  OBVIOUS
<1>2. TypeOK'
  <2>1. state' \in [Pids -> States]
    BY DEF TypeOK
  <2> QED
    BY <2>1 DEF TypeOK
<1>3. Bookkeeping'
  BY <1>1 DEF Bookkeeping, TypeOK
<1>4. TerminalIsReturned'
  BY DEF TerminalIsReturned
<1>5. NoReportIsLost'
  BY <1>1 DEF NoReportIsLost
<1>6. StoppedMarkIsTrue'
  BY <1>1 DEF StoppedMarkIsTrue, Bookkeeping, TypeOK
<1>7. NoJobIsForgotten'
  BY <1>1 DEF NoJobIsForgotten
<1> QED
  BY <1>2, <1>3, <1>4, <1>5, <1>6, <1>7

(***************************************************************************)
(* Main.                                                                   *)
(***************************************************************************)
LEMMA RunInvariant ==
  ASSUME IInv, NEW p \in Pids, RunForeground(p) \/ RunBackground(p)
  PROVE  IInv'
<1> USE DEF IInv
<1>1. main = Prompt /\ terminal = Shell
  BY DEF RunForeground, RunBackground, TerminalIsReturned
<1>2. PICK k \in {"foreground", "background"} :
         /\ Fork(p, k)
         /\ main' = IF k = "foreground" THEN At("give", p) ELSE At("add", p)
  BY DEF RunForeground, RunBackground
<1>3. \A q \in Pids :
         /\ kind'[q] = IF q = p THEN k ELSE kind[q]
         /\ state'[q] = IF q # p THEN state[q]
                        ELSE IF k = "foreground" THEN "forked" ELSE "running"
  BY <1>2 DEF Fork, TypeOK
<1>4. state[p] = "unborn" /\ UNCHANGED <<report, job_list, terminal, signals, fault>>
  BY <1>2 DEF Fork
<1>5. TypeOK'
  <2>1. state' \in [Pids -> States] /\ kind' \in [Pids -> Kinds]
    BY <1>2 DEF Fork, TypeOK
  <2> QED
    BY <1>2, <1>4, <2>1 DEF TypeOK, job_list, signals
<1>6. Bookkeeping'
  BY <1>1, <1>2, <1>3, <1>4 DEF Bookkeeping, TypeOK, job_list
<1>7. TerminalIsReturned' /\ NoReportIsLost'
  BY <1>1, <1>3, <1>4 DEF TerminalIsReturned, NoReportIsLost, signals
<1>8. StoppedMarkIsTrue'
  BY <1>1, <1>3, <1>4 DEF StoppedMarkIsTrue, Bookkeeping, TypeOK, job_list
<1>9. NoJobIsForgotten'
  BY <1>1, <1>2, <1>3, <1>4 DEF NoJobIsForgotten, job_list
<1> QED
  BY <1>5, <1>6, <1>7, <1>8, <1>9

LEMMA PipelineInvariant ==
  ASSUME IInv, NEW p \in Pids, RunPipeline(p)
  PROVE  IInv'
<1> USE DEF IInv
<1>1. /\ main.at \in {"prompt", "pipe"} /\ main.left \in Nat
      /\ main' = [at |-> "pipe", pid |-> Shell, left |-> main.left + 1]
      /\ state[p] = "unborn" /\ terminal = Shell
      /\ UNCHANGED <<report, job_list, terminal, signals, fault>>
  BY DEF RunPipeline, Fork, TypeOK, TerminalIsReturned
<1>2. \A r \in Pids :
         /\ kind'[r] = IF r = p THEN "pipe" ELSE kind[r]
         /\ state'[r] = IF r = p THEN "running" ELSE state[r]
  BY DEF RunPipeline, Fork, TypeOK
<1>3. TypeOK'
  <2>1. state' \in [Pids -> States] /\ kind' \in [Pids -> Kinds]
    BY DEF RunPipeline, Fork, TypeOK
  <2> QED
    BY <1>1, <2>1 DEF TypeOK, job_list, signals
<1>4. Bookkeeping'
  BY <1>1, <1>2 DEF Bookkeeping, TypeOK, job_list
<1>5. TerminalIsReturned' /\ NoReportIsLost'
  BY <1>1, <1>2 DEF TerminalIsReturned, NoReportIsLost, signals
<1>6. StoppedMarkIsTrue'
  BY <1>1, <1>2 DEF StoppedMarkIsTrue, Bookkeeping, TypeOK, job_list
<1>7. NoJobIsForgotten'
  BY <1>1, <1>2 DEF NoJobIsForgotten, job_list
<1> QED
  BY <1>3, <1>4, <1>5, <1>6, <1>7

LEMMA WaitForPipelineInvariant == IInv /\ WaitForPipeline => IInv'
<1> SUFFICES ASSUME IInv, WaitForPipeline PROVE IInv'
  OBVIOUS
<1> USE DEF IInv, processes, job_list, signals
<1>1. /\ main \in [at : Places, pid : Pids \cup {Shell}, left : Nat]
      /\ main' \in [at : Places, pid : Pids \cup {Shell}, left : Nat]
      /\ main.at = "pipe" /\ main'.at = "wait_all" /\ main'.left # 0
      /\ UNCHANGED <<processes, job_list, terminal, signals, fault>>
  BY DEF WaitForPipeline, TypeOK
<1>2. TypeOK'
  BY <1>1 DEF TypeOK
<1>3. Bookkeeping' /\ TerminalIsReturned' /\ NoReportIsLost'
  BY <1>1 DEF Bookkeeping, TerminalIsReturned, NoReportIsLost
<1>4. StoppedMarkIsTrue' /\ NoJobIsForgotten'
  BY <1>1 DEF StoppedMarkIsTrue, NoJobIsForgotten
<1> QED
  BY <1>2, <1>3, <1>4

(* A step of main that changes no process and no job, to a place of which  *)
(* the invariant says no more than that main is busy with a child.         *)
Busy == {"wait", "bg", "bg_mark", "bg_print", "fg", "fg_mark", "fg_give", "fg_wait", "kill"}

LEMMA MoveInvariant ==
  ASSUME IInv, UNCHANGED <<processes, listed, signals, fault>>,
         \A p \in marked' : p \in marked /\ (p = main.pid => main.at \notin {"bg_mark", "fg_mark"}),
         NEW p \in Pids, NEW place \in Busy,
         main' = At(place, p) \/ main' = Prompt,
         main.at \in {"give", "wait"} => main' = At("wait", main.pid),
         main.at \notin {"add", "wait_all"},
         terminal' \in Pids \cup {Shell},
         main'.at \notin {"wait", "fg_wait"} => terminal' = Shell
  PROVE  IInv'
<1> USE DEF IInv, processes, signals, Busy
<1>1. /\ main' \in [at : Places, pid : Pids \cup {Shell}, left : Nat]
      /\ main'.at \in Busy \cup {"prompt"}
      /\ main'.at # "prompt" => main'.pid \in Pids
  OBVIOUS
<1>2. TypeOK'
  BY <1>1 DEF TypeOK
<1>3. Bookkeeping'
  BY <1>1 DEF Bookkeeping
<1>4. TerminalIsReturned' /\ NoReportIsLost'
  BY <1>1 DEF TerminalIsReturned, NoReportIsLost
<1>5. StoppedMarkIsTrue'
  BY DEF StoppedMarkIsTrue
<1>7. NoJobIsForgotten'
  BY DEF NoJobIsForgotten
<1> QED
  BY <1>2, <1>3, <1>4, <1>5, <1>7

LEMMA GiveInvariant == IInv /\ Give => IInv'
<1> SUFFICES ASSUME IInv, Give PROVE IInv'
  OBVIOUS
<1>1. /\ main.at = "give" /\ main.pid \in Pids /\ main' = At("wait", main.pid)
      /\ UNCHANGED <<processes, job_list, signals, fault>>
  BY DEF Give, IInv, TypeOK
<1>2. terminal' \in Pids \cup {Shell}
  BY <1>1 DEF Give, GiveTerminal, IInv, TypeOK
<1> QED
  BY <1>1, <1>2, MoveInvariant DEF job_list, Busy

LEMMA WaitInvariant == IInv /\ Wait => IInv'
<1> SUFFICES ASSUME IInv, Wait PROVE IInv'
  OBVIOUS
<1> USE DEF IInv, job_list, signals
<1>1. /\ main.at = "wait" /\ main.pid \in Pids
      /\ main'.at = "take" /\ main'.pid = main.pid
      /\ main' \in [at : Places, pid : Pids \cup {Shell}, left : Nat]
      /\ UNCHANGED <<kind, job_list, terminal, signals, fault>>
  BY DEF Wait, TypeOK
<1>2. /\ state' \in [Pids -> States]
      /\ \A q \in Pids : state'[q] # state[q] => state[q] = "exited" /\ state'[q] = "reaped"
      /\ report' \subseteq report
  BY <1>1 DEF Wait, TypeOK
<1>3. state[main.pid] # "forked"
  BY <1>1 DEF Wait, Bookkeeping
<1>4. TypeOK'
  BY <1>1, <1>2 DEF TypeOK
<1>5. Bookkeeping'
  BY <1>1, <1>2, <1>3 DEF Bookkeeping, TypeOK
<1>6. TerminalIsReturned' /\ NoReportIsLost'
  BY <1>1, <1>2 DEF TerminalIsReturned, NoReportIsLost, TypeOK
<1>7. StoppedMarkIsTrue'
  BY <1>1, <1>2 DEF StoppedMarkIsTrue, TypeOK
<1>8. NoJobIsForgotten'
  BY <1>1, <1>2 DEF NoJobIsForgotten
<1> QED
  BY <1>4, <1>5, <1>6, <1>7, <1>8

LEMMA TakeInvariant == IInv /\ Take => IInv'
<1> SUFFICES ASSUME IInv, Take PROVE IInv'
  OBVIOUS
<1> USE DEF IInv, Take, processes, job_list, signals
<1>1. TypeOK'
  BY DEF TypeOK
<1>2. Bookkeeping' /\ TerminalIsReturned' /\ NoReportIsLost'
  BY DEF Bookkeeping, TerminalIsReturned, NoReportIsLost
<1>3. StoppedMarkIsTrue' /\ NoJobIsForgotten'
  BY DEF StoppedMarkIsTrue, NoJobIsForgotten
<1> QED
  BY <1>1, <1>2, <1>3

LEMMA AddInvariant == IInv /\ add_job => IInv'
<1> SUFFICES ASSUME IInv, add_job PROVE IInv'
  OBVIOUS
<1> USE DEF IInv, add_job, processes, signals
<1>1. TypeOK'
  BY DEF TypeOK
<1>2. Bookkeeping' /\ TerminalIsReturned' /\ NoReportIsLost'
  BY DEF Bookkeeping, TerminalIsReturned, NoReportIsLost
<1>3. StoppedMarkIsTrue' /\ NoJobIsForgotten'
  BY DEF StoppedMarkIsTrue, NoJobIsForgotten
<1> QED
  BY <1>1, <1>2, <1>3

LEMMA WaitAnyInvariant == IInv /\ WaitAny => IInv'
<1> SUFFICES ASSUME IInv, WaitAny PROVE IInv'
  OBVIOUS
<1> USE DEF IInv, job_list, signals
<1>1. /\ main.at = "wait_all"
      /\ UNCHANGED <<kind, report, job_list, terminal, signals, fault>>
  BY DEF WaitAny
<1>2. /\ state' \in [Pids -> States]
      /\ \A q \in Pids : state'[q] # state[q] => state[q] = "exited" /\ state'[q] = "reaped"
  BY DEF WaitAny, TypeOK
<1>3. /\ main' \in [at : Places, pid : Pids \cup {Shell}, left : Nat]
      /\ main'.at \in {"prompt", "wait_all"}
      /\ main'.at = "wait_all" => main'.left # 0
  <2>1. CASE main.left = 1
    BY <2>1 DEF WaitAny
  <2>2. CASE main.left # 1
    <3>1. main' = [main EXCEPT !.left = @ - 1] /\ main.left \in Nat
      BY <2>2 DEF WaitAny, TypeOK
    <3>2. main.left # 0
      BY <1>1 DEF Bookkeeping
    <3> QED
      BY <1>1, <2>2, <3>1, <3>2 DEF TypeOK
  <2> QED
    BY <2>1, <2>2
<1>4. TypeOK'
  BY <1>1, <1>2, <1>3 DEF TypeOK
<1>5. Bookkeeping'
  BY <1>1, <1>2, <1>3 DEF Bookkeeping, TypeOK
<1>6. TerminalIsReturned' /\ NoReportIsLost'
  BY <1>1, <1>2 DEF TerminalIsReturned, NoReportIsLost, TypeOK
<1>7. StoppedMarkIsTrue'
  BY <1>1, <1>2 DEF StoppedMarkIsTrue, TypeOK
<1>8. NoJobIsForgotten'
  BY <1>1, <1>2 DEF NoJobIsForgotten
<1> QED
  BY <1>4, <1>5, <1>6, <1>7, <1>8

LEMMA FindInvariant ==
  ASSUME IInv, NEW place \in {"bg", "fg", "kill"}, Find(place)
  PROVE  IInv'
<1>1. main = Prompt /\ UNCHANGED <<processes, job_list, terminal, signals, fault>>
  BY DEF Find
<1>2. PICK p \in listed : main' = At(place, p)
  BY DEF Find
<1>3. p \in Pids /\ terminal = Shell /\ place \in Busy
  BY <1>1 DEF IInv, TypeOK, TerminalIsReturned, Busy
<1> QED
  BY <1>1, <1>2, <1>3, MoveInvariant DEF job_list

(* The use of a job that was freed.                                        *)
LEMMA FaultInvariant ==
  ASSUME IInv, fault' = TRUE, UNCHANGED <<processes, job_list, terminal, signals, main>>
  PROVE  IInv'
BY ProcessesKept DEF IInv, TypeOK, signals

LEMMA ContinueInvariant ==
  ASSUME IInv, Continue(main.pid), fault' = fault,
         \/ main.at = "bg" /\ main' = At("bg_mark", main.pid)
         \/ main.at = "fg" /\ main' = At("fg_mark", main.pid)
  PROVE  IInv'
<1> USE DEF IInv, job_list
<1> DEFINE p == main.pid
<1>1. p \in Pids /\ UNCHANGED <<kind, job_list, terminal, sigtstp>>
  BY DEF Continue, TypeOK
<1>2. /\ state' \in [Pids -> States]
      /\ \A q \in Pids : state'[q] = IF q = p /\ state[p] = "stopped" THEN "running" ELSE state[q]
      /\ report' = report \ {p}
      /\ sigchld' = (sigchld \/ state[p] = "stopped")
  BY <1>1 DEF Continue, TypeOK
<1>3. main'.at \in {"bg_mark", "fg_mark"} /\ main'.pid = p
  OBVIOUS
<1>4. TypeOK'
  BY <1>1, <1>2 DEF TypeOK
<1>5. Bookkeeping'
  BY <1>1, <1>2, <1>3 DEF Bookkeeping, TypeOK
<1>6. TerminalIsReturned' /\ NoReportIsLost'
  BY <1>1, <1>2, <1>3 DEF TerminalIsReturned, NoReportIsLost
<1>7. StoppedMarkIsTrue'
  BY <1>1, <1>2, <1>3 DEF StoppedMarkIsTrue, TypeOK
<1>8. NoJobIsForgotten'
  BY <1>1, <1>2 DEF NoJobIsForgotten
<1> QED
  BY <1>4, <1>5, <1>6, <1>7, <1>8

LEMMA BgInvariant == IInv /\ bg_command => IInv'
<1> SUFFICES ASSUME IInv, bg_command PROVE IInv'
  OBVIOUS
<1>1. CASE Find("bg")
  BY <1>1, FindInvariant
<1>2. CASE main.at = "bg" /\ Use(Continue(main.pid) /\ main' = At("bg_mark", main.pid))
  BY <1>2, ContinueInvariant, FaultInvariant DEF Use
<1>3. CASE main.at = "bg_print" /\ Use(Stay /\ main' = Prompt)
  <2>1. CASE fault' = TRUE /\ UNCHANGED <<processes, job_list, terminal, signals, main>>
    BY <2>1, FaultInvariant
  <2>2. CASE Stay /\ main' = Prompt /\ UNCHANGED fault
    <3>1. main.pid \in Pids /\ terminal = Shell /\ "bg" \in Busy
      BY <1>3 DEF IInv, TypeOK, TerminalIsReturned, Busy
    <3> QED
      BY <1>3, <2>2, <3>1, MoveInvariant DEF Stay, job_list
  <2> QED
    BY <1>3, <2>1, <2>2 DEF Use
<1> QED
  BY <1>1, <1>2, <1>3 DEF bg_command

LEMMA FgInvariant == IInv /\ fg_command => IInv'
<1> SUFFICES ASSUME IInv, fg_command PROVE IInv'
  OBVIOUS
<1>1. CASE Find("fg")
  BY <1>1, FindInvariant
<1>2. CASE main.at = "fg" /\ Use(Continue(main.pid) /\ main' = At("fg_mark", main.pid))
  BY <1>2, ContinueInvariant, FaultInvariant DEF Use
<1>3. CASE /\ main.at \in {"fg_give", "fg_wait"}
           /\ terminal' \in Pids \cup {Shell}
           /\ main' = At("fg_wait", main.pid) \/ main' = At("wait", main.pid)
           /\ UNCHANGED <<processes, job_list, signals, fault>>
  <2>1. main.pid \in Pids /\ {"fg_wait", "wait"} \subseteq Busy
    BY <1>3 DEF IInv, TypeOK, Busy
  <2> QED
    BY <1>3, <2>1, MoveInvariant DEF job_list
<1>4. CASE fault' = TRUE /\ UNCHANGED <<processes, job_list, terminal, signals, main>>
  BY <1>4, FaultInvariant
<1>5. CASE /\ main.at = "fg_give"
           /\ Use(/\ GiveTerminal(main.pid)
                  /\ main' = At("fg_wait", main.pid)
                  /\ UNCHANGED <<processes, job_list, signals>>)
  <2>1. GiveTerminal(main.pid) => terminal' \in Pids \cup {Shell}
    BY <1>5 DEF GiveTerminal, IInv, TypeOK
  <2> QED
    BY <1>3, <1>4, <1>5, <2>1 DEF Use
<1>6. CASE main.at = "fg_wait" /\ Use(Stay /\ main' = At("wait", main.pid))
  <2>1. Stay => terminal' \in Pids \cup {Shell}
    BY DEF Stay, IInv, TypeOK
  <2> QED
    BY <1>3, <1>4, <1>6, <2>1 DEF Use, Stay
<1> QED
  BY <1>1, <1>2, <1>5, <1>6 DEF fg_command

LEMMA MarkInvariant == IInv /\ MarkRunning => IInv'
<1> SUFFICES ASSUME IInv, MarkRunning PROVE IInv'
  OBVIOUS
<1>1. main.at \in {"bg_mark", "fg_mark"} /\ main.pid \in Pids /\ terminal = Shell
  BY DEF MarkRunning, IInv, TypeOK, TerminalIsReturned
<1>2. CASE fault' = TRUE /\ UNCHANGED <<processes, job_list, terminal, signals, main>>
  BY <1>2, FaultInvariant
<1>3. CASE /\ marked' = marked \ {main.pid}
           /\ main' = IF main.at = "bg_mark" THEN At("bg_print", main.pid)
                                             ELSE At("fg_give", main.pid)
           /\ UNCHANGED <<processes, listed, terminal, signals, fault>>
  <2>1. {"bg_print", "fg_give"} \subseteq Busy
    BY DEF Busy
  <2> QED
    BY <1>1, <1>3, <2>1, MoveInvariant
<1> QED
  BY <1>2, <1>3 DEF MarkRunning, Use

LEMMA SigKillInvariant ==
  ASSUME IInv, main.at = "kill", main.pid \in listed, SigKill(main.pid), fault' = fault
  PROVE  IInv'
<1> USE DEF IInv, job_list
<1> DEFINE p == main.pid
<1>1. p \in Pids /\ UNCHANGED <<kind, job_list, terminal, sigtstp>>
  BY DEF SigKill, TypeOK
<1>2. /\ state' \in [Pids -> States]
      /\ \A q \in Pids : state'[q] = IF q = p /\ state[p] \in {"running", "stopped"}
                                     THEN "exited" ELSE state[q]
      /\ report' = report \ {p}
      /\ sigchld' = (sigchld \/ state[p] \in {"running", "stopped"})
  BY <1>1 DEF SigKill, TypeOK
<1>3. main' = At("kill_remove", p)
  BY DEF SigKill
<1>4. TypeOK'
  BY <1>1, <1>2, <1>3 DEF TypeOK
<1>5. Bookkeeping'
  BY <1>1, <1>2, <1>3 DEF Bookkeeping, TypeOK
<1>6. TerminalIsReturned' /\ NoReportIsLost'
  BY <1>1, <1>2, <1>3 DEF TerminalIsReturned, NoReportIsLost
<1>7. StoppedMarkIsTrue'
  BY <1>1, <1>2, <1>3 DEF StoppedMarkIsTrue, TypeOK
<1>8. NoJobIsForgotten'
  BY <1>1, <1>2 DEF NoJobIsForgotten
<1> QED
  BY <1>4, <1>5, <1>6, <1>7, <1>8

LEMMA RemoveInvariant ==
  ASSUME IInv, main.at = "kill_remove", remove_job, fault' = fault
  PROVE  IInv'
<1> USE DEF IInv, remove_job, processes, signals
<1>1. main.pid \in Pids /\ state[main.pid] \in {"exited", "reaped"}
  BY DEF TypeOK, Bookkeeping
<1>2. TypeOK'
  BY DEF TypeOK
<1>3. Bookkeeping' /\ TerminalIsReturned' /\ NoReportIsLost'
  BY DEF Bookkeeping, TerminalIsReturned, NoReportIsLost
<1>4. StoppedMarkIsTrue' /\ NoJobIsForgotten'
  BY <1>1 DEF StoppedMarkIsTrue, NoJobIsForgotten
<1> QED
  BY <1>2, <1>3, <1>4

LEMMA KillInvariant == IInv /\ kill_command => IInv'
<1> SUFFICES ASSUME IInv, kill_command PROVE IInv'
  OBVIOUS
<1>1. CASE Find("kill")
  BY <1>1, FindInvariant
<1>2. CASE fault' = TRUE /\ UNCHANGED <<processes, job_list, terminal, signals, main>>
  BY <1>2, FaultInvariant
<1>3. CASE main.at = "kill" /\ Terminate /\ UNCHANGED fault
  <2>1. main.pid \in Pids /\ terminal = Shell /\ "bg" \in Busy
    BY <1>3 DEF IInv, TypeOK, TerminalIsReturned, Busy
  <2> QED
    BY <1>3, <2>1, MoveInvariant DEF Terminate, Stay, job_list
<1>4. CASE main.at = "kill" /\ main.pid \in listed /\ SigKill(main.pid) /\ UNCHANGED fault
  BY <1>4, SigKillInvariant
<1>5. CASE main.at = "kill_remove" /\ remove_job /\ UNCHANGED fault
  BY <1>5, RemoveInvariant
<1> QED
  BY <1>1, <1>2, <1>3, <1>4, <1>5 DEF kill_command, Use

LEMMA NextInvariant == IInv /\ [Next]_vars => IInv'
<1> SUFFICES ASSUME IInv, [Next]_vars PROVE IInv'
  OBVIOUS
<1>1. CASE UNCHANGED vars
  BY <1>1, ProcessesKept DEF vars, signals, IInv, TypeOK
<1>2. CASE \E p \in Pids : ChildExecs(p) \/ ChildExits(p)
  BY <1>2, ChildExecsInvariant, ChildExitsInvariant
<1>3. CASE CtrlZ \/ handle_sigchld \/ handle_sigtstp
  BY <1>3, CtrlZInvariant, SigchldInvariant, SigtstpInvariant
<1>4. CASE \E p \in Pids : RunForeground(p) \/ RunBackground(p)
  BY <1>4, RunInvariant
<1>5. CASE (\E p \in Pids : RunPipeline(p)) \/ WaitForPipeline
  BY <1>5, PipelineInvariant, WaitForPipelineInvariant
<1>6. CASE Give \/ Wait \/ Take \/ add_job \/ WaitAny
  BY <1>6, GiveInvariant, WaitInvariant, TakeInvariant, AddInvariant, WaitAnyInvariant
<1>7. CASE bg_command \/ fg_command \/ MarkRunning \/ kill_command
  BY <1>7, BgInvariant, FgInvariant, MarkInvariant, KillInvariant
<1> QED
  BY <1>1, <1>2, <1>3, <1>4, <1>5, <1>6, <1>7 DEF Next, Main

(***************************************************************************)
(* The theorems.                                                           *)
(***************************************************************************)
(* The invariant holds whenever main, the handlers and the children        *)
(* interleave, for any number of children.                                 *)
THEOREM Invariance == Spec => []IInv
<1> QED
  BY InitInvariant, NextInvariant, PTL DEF Spec

(* Every variable of the shell stays in its type; what is marked Stopped   *)
(* is in the job list.                                                     *)
THEOREM TypeCorrect == Spec => []TypeOK
<1>1. IInv => TypeOK
  BY DEF IInv
<1> QED
  BY <1>1, Invariance, PTL

(* Whoever gives the terminal away and whenever, the shell has it when it  *)
(* is not waiting for a foreground command.                                *)
THEOREM TerminalComesBack == Spec => []TerminalIsReturned
<1>1. IInv => TerminalIsReturned
  BY DEF IInv
<1> QED
  BY <1>1, Invariance, PTL

(* SIGCHLD does not queue, and no child's end or stop is lost for that:    *)
(* the handler waits until there is nothing to wait for.                   *)
THEOREM ReportsArrive == Spec => []NoReportIsLost
<1>1. IInv => NoReportIsLost
  BY DEF IInv
<1> QED
  BY <1>1, Invariance, PTL

(* The jobs command shows no running job as Stopped, but while fg or bg is *)
(* between its signal and its mark.                                        *)
THEOREM MarksAreTrue == Spec => []StoppedMarkIsTrue
<1>1. IInv => StoppedMarkIsTrue
  BY DEF IInv
<1> QED
  BY <1>1, Invariance, PTL

(* Every living background command is in the job list.                     *)
THEOREM JobsAreKept == Spec => []NoJobIsForgotten
<1>1. IInv => NoJobIsForgotten
  BY DEF IInv
<1> QED
  BY <1>1, Invariance, PTL

(***************************************************************************)
(* The shell does what Commands promises.  Beside the invariant that needs *)
(* that main leaves a command which has stopped or ended, and that what    *)
(* has yet to be started is in no pipeline.                                *)
(***************************************************************************)
Departures ==
    /\ main.at = "take" => state[main.pid] \in {"stopped", "reaped"}
    /\ \A p \in In("unborn") : kind[p] = "none"

RInv == IInv /\ Departures

LEMMA DeparturesInvariant == RInv /\ [Next]_vars => Departures'
<1> SUFFICES ASSUME RInv, [Next]_vars PROVE Departures'
  OBVIOUS
<1> USE DEF RInv, Departures, IInv, TypeOK
<1>1. CASE UNCHANGED vars
  BY <1>1 DEF vars, processes
<1>2. ASSUME NEW p \in Pids, ChildExecs(p) \/ ChildExits(p) PROVE Departures'
  BY <1>2 DEF ChildExecs, ChildExits
<1>3. CASE CtrlZ \/ handle_sigtstp
  <2>1. CASE UNCHANGED <<processes, main>>
    BY <2>1 DEF processes
  <2>2. CASE Stops(InGroup(terminal)) /\ UNCHANGED main
    BY <2>2 DEF Stops, InGroup
  <2> QED
    BY <1>3, <2>1, <2>2 DEF CtrlZ, handle_sigtstp
<1>4. CASE handle_sigchld
  BY <1>4 DEF handle_sigchld
<1>5. ASSUME NEW p \in Pids, RunForeground(p) \/ RunBackground(p) PROVE Departures'
  <2>1. PICK k \in Kinds : Fork(p, k) /\ main'.at # "take"
    BY <1>5 DEF RunForeground, RunBackground
  <2>2. \A q \in Pids : q # p => state'[q] = state[q] /\ kind'[q] = kind[q]
    BY <2>1 DEF Fork
  <2>3. state'[p] # "unborn"
    BY <2>1 DEF Fork
  <2> QED
    BY <2>1, <2>2, <2>3
<1>6. ASSUME NEW p \in Pids, RunPipeline(p) PROVE Departures'
  <2>1. Fork(p, "pipe") /\ main'.at # "take"
    BY <1>6 DEF RunPipeline
  <2>2. \A q \in Pids : q # p => state'[q] = state[q] /\ kind'[q] = kind[q]
    BY <2>1 DEF Fork
  <2>3. state'[p] # "unborn"
    BY <2>1 DEF Fork
  <2> QED
    BY <2>1, <2>2, <2>3
<1>7. CASE Wait
  BY <1>7 DEF Wait, Bookkeeping
<1>8. CASE Give \/ Take \/ add_job \/ WaitForPipeline
  BY <1>8 DEF Give, Take, add_job, WaitForPipeline, processes
<1>9. CASE WaitAny
  <2>1. main'.at # "take" /\ kind' = kind
    BY <1>9 DEF WaitAny
  <2>2. \A r \in Pids : state'[r] = "unborn" => state[r] = "unborn"
    BY <1>9 DEF WaitAny
  <2> QED
    BY <2>1, <2>2
<1>10. CASE fault' = TRUE /\ UNCHANGED <<processes, job_list, terminal, signals, main>>
  BY <1>10 DEF processes
<1>11. CASE MarkRunning
  BY <1>10, <1>11 DEF MarkRunning, Use, processes
<1>12. CASE UNCHANGED <<processes>> /\ main'.at # "take"
  BY <1>12 DEF processes
<1>13. CASE main.pid \in Pids /\ Continue(main.pid) /\ main'.at # "take"
  BY <1>13 DEF Continue
<1>14. CASE main.pid \in Pids /\ SigKill(main.pid)
  BY <1>14 DEF SigKill
<1>15. CASE bg_command \/ fg_command
  BY <1>10, <1>12, <1>13, <1>15 DEF bg_command, fg_command, Use, Find, Stay
<1>16. CASE kill_command
  BY <1>10, <1>12, <1>14, <1>16 DEF kill_command, Use, Find, Stay, Terminate, remove_job
<1> QED
  BY <1>1, <1>2, <1>3, <1>4, <1>5, <1>6, <1>7, <1>8, <1>9, <1>11, <1>15, <1>16 DEF Next, Main

LEMMA SameControl ==
  ASSUME Lives' = Lives, kind' = kind, Kept' = Kept, Front' = Front, terminal' = terminal
  PROVE  UNCHANGED Control!vars
BY DEF Control!vars, Piped

(* Main goes from a place to another, in front of the same command or of   *)
(* none, and nothing else is seen to change.                               *)
LEMMA MovesControl ==
  ASSUME UNCHANGED <<state, kind, listed, terminal>>, main'.pid = main.pid,
         main.at \in InFront <=> main'.at \in InFront,
         main.at = "add" <=> main'.at = "add"
  PROVE  UNCHANGED Control!vars
BY SameControl DEF Lives, Kept, Front

LEMMA LendsControl ==
  ASSUME RInv, main.at \in InFront, main.pid \in Pids,
         UNCHANGED <<state, kind, listed>>, main'.pid = main.pid,
         main'.at \in InFront, GiveTerminal(main.pid)
  PROVE  Control!Lend \/ UNCHANGED Control!vars
<1>1. CASE terminal' = terminal
  BY <1>1, MovesControl DEF InFront
<1>2. CASE terminal' = main.pid
  <2>1. Front = main.pid /\ Front' = main.pid /\ Kept' = Kept
    BY DEF Front, Kept, InFront
  <2>2. Lives' = Lives /\ Piped' = Piped
    BY DEF Lives, Piped
  <2> QED
    BY <1>2, <2>1, <2>2 DEF Control!Lend
<1> QED
  BY <1>1, <1>2 DEF GiveTerminal

LEMMA ExecsControl ==
  ASSUME RInv, NEW p \in Pids, ChildExecs(p)
  PROVE  Control!Lend
<1>1. main.at \in {"give", "wait"} /\ main.pid = p
  BY DEF ChildExecs, RInv, IInv, Bookkeeping
<1>2. Front = p /\ Front' = p /\ Kept' = Kept /\ Piped' = Piped /\ terminal' = p
  BY <1>1 DEF ChildExecs, Front, InFront, Kept, Piped, job_list
<1>3. Lives' = Lives
  BY DEF ChildExecs, Lives, RInv, IInv, TypeOK
<1> QED
  BY <1>2, <1>3 DEF Control!Lend

(* A child ends, by itself or by SIGKILL.                                  *)
LEMMA EndsControl ==
  ASSUME RInv, NEW p \in Pids, state' = [state EXCEPT ![p] = "exited"],
         state[p] \in {"forked", "running"} \/ (state[p] = "stopped" /\ p \in listed),
         Kept' = Kept, Front' = Front, UNCHANGED <<kind, terminal>>
  PROVE  Control!End(p)
<1>1. state \in [Pids -> States]
  BY DEF RInv, IInv, TypeOK
<1>2. Lives' = [Lives EXCEPT ![p] = "ended"]
  BY <1>1 DEF Lives
<1>3. Lives[p] = "running" \/ (Lives[p] = "stopped" /\ p \in Kept)
  BY <1>1 DEF Lives, Kept
<1>4. Piped' = Piped
  BY DEF Piped
<1> QED
  BY <1>2, <1>3, <1>4 DEF Control!End

(* Control-Z, or handle_sigtstp.                                           *)
LEMMA StopsControl ==
  ASSUME RInv, Stops(InGroup(terminal)), UNCHANGED <<listed, terminal, main>>
  PROVE  Control!Stop
<1> DEFINE S == InGroup(terminal)
<1>1. state \in [Pids -> States]
  BY DEF RInv, IInv, TypeOK
<1>2. S \subseteq (IF terminal = Shell THEN Piped ELSE {terminal})
      /\ \A p \in S : p \in Pids /\ state[p] = "running"
  BY DEF InGroup, Piped
<1>3. \A p \in S : Lives[p] = "running"
  BY <1>1, <1>2 DEF Lives
<1>4. Lives' = [p \in Pids |-> IF p \in S THEN "stopped" ELSE Lives[p]]
  BY <1>1 DEF Stops, Lives
<1>5. UNCHANGED <<Piped, Kept, Front, terminal>>
  BY DEF Stops, Piped, Kept, Front
<1> HIDE DEF S
<1> QED
  BY <1>2, <1>3, <1>4, <1>5 DEF Control!Stop

LEMMA ReapsControl ==
  ASSUME RInv, handle_sigchld
  PROVE  Control!Forget
<1> DEFINE S == Kept \ Kept'
<1>1. state \in [Pids -> States] /\ listed \subseteq Pids
  BY DEF RInv, IInv, TypeOK
<1>2. Lives' = Lives
  BY <1>1 DEF handle_sigchld, Lives
<1>3. S \subseteq In("exited") /\ Kept' = Kept \ S
  BY DEF handle_sigchld, Kept
<1>4. \A p \in S : Lives[p] = "ended"
  BY <1>3 DEF Lives
<1>5. UNCHANGED <<Piped, Front, terminal>>
  BY DEF handle_sigchld, Piped, Front
<1>6. S \in SUBSET Kept
  OBVIOUS
<1> HIDE DEF S
<1> QED
  BY <1>2, <1>3, <1>4, <1>5, <1>6 DEF Control!Forget

(* A command is started.                                                   *)
LEMMA StartsControl ==
  ASSUME RInv, NEW p \in Pids, RunForeground(p) \/ RunBackground(p)
  PROVE  Control!Run(p) \/ Control!RunInBackground(p)
<1>1. state \in [Pids -> States] /\ kind \in [Pids -> Kinds]
  BY DEF RInv, IInv, TypeOK
<1>2. PICK k \in {"foreground", "background"} :
         /\ Fork(p, k)
         /\ main' = IF k = "foreground" THEN At("give", p) ELSE At("add", p)
  BY DEF RunForeground, RunBackground
<1>3. main = Prompt /\ state[p] = "unborn" /\ Front = Shell /\ Kept = listed
  BY DEF RunForeground, RunBackground, Fork, Front, InFront, Kept
<1>4. Control!Starts(p)
  <2>1. Lives' = [Lives EXCEPT ![p] = "running"]
    BY <1>1, <1>2 DEF Fork, Lives
  <2>2. Lives[p] = "unborn"
    BY <1>3 DEF Lives
  <2> QED
    BY <1>3, <2>1, <2>2 DEF Control!Starts
<1>5. Piped' = Piped /\ listed' = listed /\ terminal' = terminal
  BY <1>1, <1>2, <1>3 DEF Fork, Piped, RInv, Departures, job_list
<1>6. CASE k = "foreground"
  <2>1. Front' = p /\ Kept' = Kept
    BY <1>2, <1>3, <1>5, <1>6 DEF Front, InFront, Kept
  <2> QED
    BY <1>4, <1>5, <2>1 DEF Control!Run
<1>7. CASE k = "background"
  <2>1. Front' = Front /\ Kept' = Kept \cup {p}
    BY <1>2, <1>3, <1>5, <1>7 DEF Front, InFront, Kept
  <2> QED
    BY <1>4, <1>5, <2>1 DEF Control!RunInBackground
<1> QED
  BY <1>6, <1>7

LEMMA PipesControl ==
  ASSUME RInv, NEW p \in Pids, RunPipeline(p)
  PROVE  Control!RunPipeline(p)
<1>1. state \in [Pids -> States] /\ kind \in [Pids -> Kinds] /\ state[p] = "unborn"
  BY DEF RInv, IInv, TypeOK, RunPipeline, Fork
<1>2. Lives[p] = "unborn" /\ Lives' = [Lives EXCEPT ![p] = "running"]
  BY <1>1 DEF RunPipeline, Fork, Lives
<1>3. Piped' = Piped \cup {p}
  BY <1>1 DEF RunPipeline, Fork, Piped
<1>4. main.at \in {"prompt", "pipe"} /\ main'.at = "pipe"
  BY DEF RunPipeline
<1>5. Front = Shell /\ Front' = Front /\ Kept' = Kept /\ terminal' = terminal
  BY <1>4 DEF RunPipeline, Fork, Front, InFront, Kept, job_list
<1> QED
  BY <1>2, <1>3, <1>5 DEF Control!RunPipeline, Control!Starts

LEMMA WaitsControl ==
  ASSUME RInv, Wait \/ WaitAny
  PROVE  UNCHANGED Control!vars
<1>1. state \in [Pids -> States]
  BY DEF RInv, IInv, TypeOK
<1>2. Lives' = Lives
  BY <1>1 DEF Wait, WaitAny, Lives
<1>3. Front' = Front /\ Kept' = Kept /\ kind' = kind /\ terminal' = terminal
  <2>1. CASE Wait
    <3>1. main'.at = "take" /\ main'.pid = main.pid /\ main.at = "wait"
      BY <2>1 DEF Wait, RInv, IInv, TypeOK
    <3> QED
      BY <2>1, <3>1 DEF Wait, Front, InFront, Kept, job_list
  <2>2. CASE WaitAny
    <3>1. main'.at \in {"prompt", "wait_all"} /\ main.at = "wait_all"
      BY <2>2 DEF WaitAny, RInv, IInv, TypeOK
    <3> QED
      BY <2>2, <3>1 DEF WaitAny, Front, InFront, Kept, job_list
  <2> QED
    BY <2>1, <2>2
<1> QED
  BY <1>2, <1>3, SameControl

LEMMA TakesControl ==
  ASSUME RInv, Take
  PROVE  Control!TurnBack
<1>1. main.at = "take" /\ main.pid \in Pids /\ state[main.pid] \in {"stopped", "reaped"}
  BY DEF Take, RInv, IInv, TypeOK, Departures
<1>2. Front = main.pid /\ Lives[main.pid] \in {"stopped", "ended"}
  BY <1>1 DEF Front, InFront, Lives
<1>3. Front' = Shell /\ terminal' = Shell
  BY DEF Take, Front, InFront
<1>4. Lives' = Lives /\ Piped' = Piped /\ Kept' = Kept
  BY <1>1 DEF Take, Lives, Piped, Kept, processes, job_list
<1>5. Front # Shell
  BY <1>1, <1>2
<1> QED
  BY <1>2, <1>3, <1>4, <1>5 DEF Control!TurnBack

LEMMA AddsControl == RInv /\ add_job => UNCHANGED Control!vars
BY SameControl DEF add_job, Lives, Kept, Front, InFront, processes

(* The job commands.                                                       *)
LEMMA FindsControl ==
  ASSUME RInv, NEW place \in {"bg", "fg", "kill"}, Find(place)
  PROVE  (\E p \in Pids : Control!Bring(p)) \/ UNCHANGED Control!vars
<1>1. main = Prompt /\ UNCHANGED <<state, kind, listed, terminal>>
  BY DEF Find, processes, job_list
<1>2. PICK p \in listed : main' = At(place, p)
  BY DEF Find
<1>3. p \in Pids /\ Front = Shell /\ Kept = listed /\ Kept' = listed
  BY <1>1, <1>2 DEF RInv, IInv, TypeOK, Front, InFront, Kept
<1>4. Lives' = Lives /\ Piped' = Piped
  BY <1>1 DEF Lives, Piped
<1>5. Front' = p \/ Front' = Shell
  BY <1>2 DEF Front, InFront
<1>6. CASE Front' = p
  BY <1>1, <1>3, <1>4, <1>6 DEF Control!Bring
<1>7. CASE Front' = Shell
  BY <1>1, <1>3, <1>4, <1>7, SameControl
<1> QED
  BY <1>5, <1>6, <1>7

LEMMA ContinuesControl ==
  ASSUME RInv, main.pid \in listed, Continue(main.pid),
         \/ main.at = "bg" /\ main' = At("bg_mark", main.pid)
         \/ main.at = "fg" /\ main' = At("fg_mark", main.pid)
  PROVE  Control!Continue(main.pid) \/ UNCHANGED Control!vars
<1> DEFINE p == main.pid
<1>1. state \in [Pids -> States] /\ p \in Pids
  BY DEF RInv, IInv, TypeOK
<1>2. /\ Front' = Front /\ Front \in {p, Shell} /\ Kept' = Kept /\ p \in Kept
      /\ kind' = kind /\ Piped' = Piped /\ terminal' = terminal
  BY DEF Continue, Front, InFront, Kept, Piped, job_list
<1>3. CASE state[p] = "stopped"
  <2>1. Lives[p] = "stopped" /\ Lives' = [Lives EXCEPT ![p] = "running"]
    BY <1>1, <1>3 DEF Continue, Lives
  <2> QED
    BY <1>2, <2>1 DEF Control!Continue
<1>4. CASE state[p] # "stopped"
  <2>1. Lives' = Lives
    BY <1>4 DEF Continue, Lives
  <2> QED
    BY <1>2, <2>1, SameControl
<1> QED
  BY <1>3, <1>4

LEMMA KillsControl ==
  ASSUME RInv, main.at = "kill", main.pid \in listed, SigKill(main.pid)
  PROVE  Control!End(main.pid) \/ UNCHANGED Control!vars
<1>1. main.pid \in Pids /\ main' = At("kill_remove", main.pid)
      /\ UNCHANGED <<kind, listed, terminal>>
  BY DEF RInv, IInv, TypeOK, SigKill, job_list
<1>2. Front' = Front /\ Kept' = Kept
  BY <1>1 DEF Front, InFront, Kept
<1>3. CASE state[main.pid] \in {"running", "stopped"}
  BY <1>1, <1>2, <1>3, EndsControl DEF SigKill
<1>4. CASE state[main.pid] \notin {"running", "stopped"}
  BY <1>1, <1>2, <1>4, SameControl DEF SigKill, Lives
<1> QED
  BY <1>3, <1>4

LEMMA RemovesControl ==
  ASSUME RInv, main.at = "kill_remove", remove_job
  PROVE  Control!Forget
<1>1. main.pid \in Pids /\ state[main.pid] \in {"exited", "reaped"}
  BY DEF RInv, IInv, TypeOK, Bookkeeping
<1>2. Lives[main.pid] = "ended"
  BY <1>1 DEF Lives
<1>3. Kept' = Kept \ (Kept \cap {main.pid})
  BY DEF remove_job, Kept
<1>4. Lives' = Lives /\ Piped' = Piped /\ Front' = Front /\ terminal' = terminal
  BY DEF remove_job, Lives, Piped, Front, InFront, processes
<1>5. Kept \cap {main.pid} \in SUBSET Kept
  OBVIOUS
<1> QED
  BY <1>2, <1>3, <1>4, <1>5 DEF Control!Forget

LEMMA CommandsControl ==
  ASSUME RInv, bg_command \/ fg_command \/ MarkRunning \/ kill_command
  PROVE  [Control!Next]_(Control!vars)
<1>1. CASE UNCHANGED <<processes, job_list, terminal, signals, main>>
  BY <1>1, MovesControl DEF processes, job_list
<1>2. ASSUME NEW place \in {"bg", "fg", "kill"}, Find(place)
      PROVE  [Control!Next]_(Control!vars)
  BY <1>2, FindsControl DEF Control!Next
<1>3. CASE /\ main.pid \in listed /\ Continue(main.pid)
           /\ \/ main.at = "bg" /\ main' = At("bg_mark", main.pid)
              \/ main.at = "fg" /\ main' = At("fg_mark", main.pid)
  BY <1>3, ContinuesControl DEF Control!Next, RInv, IInv, TypeOK
<1>4. CASE main.at \in {"bg_print", "kill"} /\ Stay /\ main' = Prompt
  BY <1>4, SameControl DEF Stay, Lives, Kept, Front, InFront, processes, job_list
<1>5. CASE MarkRunning
  <2>1. CASE /\ main' = IF main.at = "bg_mark" THEN At("bg_print", main.pid)
                                               ELSE At("fg_give", main.pid)
             /\ UNCHANGED <<processes, listed, terminal>>
    BY <1>5, <2>1, MovesControl DEF MarkRunning, InFront, processes
  <2> QED
    BY <1>1, <1>5, <2>1 DEF MarkRunning, Use
<1>6. CASE /\ main.at = "fg_give" /\ main' = At("fg_wait", main.pid)
           /\ GiveTerminal(main.pid) /\ UNCHANGED <<processes, job_list>>
  <2>1. main.pid \in Pids
    BY <1>6 DEF RInv, IInv, TypeOK
  <2> QED
    BY <1>6, <2>1, LendsControl DEF InFront, processes, job_list, Control!Next
<1>7. CASE main.at = "fg_wait" /\ main' = At("wait", main.pid) /\ Stay
  BY <1>7, MovesControl DEF Stay, InFront, processes, job_list
<1>8. CASE main.at = "kill" /\ main.pid \in listed /\ SigKill(main.pid)
  BY <1>8, KillsControl DEF Control!Next, RInv, IInv, TypeOK
<1>9. CASE main.at = "kill_remove" /\ remove_job
  BY <1>9, RemovesControl DEF Control!Next
<1>10. CASE bg_command
  BY <1>1, <1>2, <1>3, <1>4, <1>10 DEF bg_command, Use
<1>11. CASE fg_command
  BY <1>1, <1>2, <1>3, <1>6, <1>7, <1>11 DEF fg_command, Use
<1>12. CASE kill_command
  BY <1>1, <1>2, <1>4, <1>8, <1>9, <1>12 DEF kill_command, Use, Terminate
<1> QED
  BY <1>5, <1>10, <1>11, <1>12

LEMMA StepsControl == RInv /\ [Next]_vars => [Control!Next]_(Control!vars)
<1> SUFFICES ASSUME RInv, [Next]_vars PROVE [Control!Next]_(Control!vars)
  OBVIOUS
<1>1. CASE UNCHANGED vars
  BY <1>1, MovesControl DEF vars, processes, job_list
<1>2. ASSUME NEW p \in Pids, ChildExecs(p) PROVE Control!Next
  BY <1>2, ExecsControl DEF Control!Next
<1>3. ASSUME NEW p \in Pids, ChildExits(p) PROVE Control!Next
  <2>1. Kept' = Kept /\ Front' = Front
    BY <1>3 DEF ChildExits, Kept, Front, job_list
  <2>2. /\ state' = [state EXCEPT ![p] = "exited"] /\ state[p] \in {"forked", "running"}
        /\ UNCHANGED <<kind, terminal>>
    BY <1>3 DEF ChildExits
  <2>3. Control!End(p)
    BY <2>1, <2>2, EndsControl
  <2> QED
    BY <2>3 DEF Control!Next
<1>4. CASE CtrlZ \/ handle_sigtstp
  <2>1. CASE UNCHANGED <<processes, job_list, terminal, main>>
    BY <2>1, MovesControl DEF processes, job_list
  <2>2. CASE Stops(InGroup(terminal)) /\ UNCHANGED <<listed, terminal, main>>
    BY <2>2, StopsControl DEF Control!Next
  <2> QED
    BY <1>4, <2>1, <2>2 DEF CtrlZ, handle_sigtstp, job_list
<1>5. CASE handle_sigchld
  BY <1>5, ReapsControl DEF Control!Next
<1>6. ASSUME NEW p \in Pids, RunForeground(p) \/ RunBackground(p) PROVE Control!Next
  BY <1>6, StartsControl DEF Control!Next
<1>7. ASSUME NEW p \in Pids, RunPipeline(p) PROVE Control!Next
  BY <1>7, PipesControl DEF Control!Next
<1>8. CASE Give
  <2>1. main.at = "give" /\ main.pid \in Pids /\ main' = At("wait", main.pid)
    BY <1>8 DEF Give, RInv, IInv, TypeOK
  <2> QED
    BY <1>8, <2>1, LendsControl DEF Give, InFront, processes, job_list, Control!Next
<1>9. CASE Wait \/ WaitAny
  BY <1>9, WaitsControl
<1>10. CASE Take
  BY <1>10, TakesControl DEF Control!Next
<1>11. CASE add_job
  BY <1>11, AddsControl
<1>12. CASE bg_command \/ fg_command \/ MarkRunning \/ kill_command
  BY <1>12, CommandsControl
<1>13. CASE WaitForPipeline
  BY <1>13, MovesControl DEF WaitForPipeline, InFront, processes, job_list
<1> QED
  BY <1>1, <1>2, <1>3, <1>4, <1>5, <1>6, <1>7, <1>8, <1>9, <1>10, <1>11, <1>12, <1>13
  DEF Next, Main

(* The job control of the shell implements Commands, for any number of     *)
(* children and wherever the handlers interrupt main: what is in front is  *)
(* left only once it has stopped or ended, Control-Z stops nothing else,   *)
(* and a job is forgotten only when it has ended.                          *)
THEOREM ShellKeepsControl == Spec => KeepsControl
<1>1. Init => Control!Init
  <2> SUFFICES ASSUME Init PROVE Control!Init
    OBVIOUS
  <2>1. Lives = [p \in Pids |-> "unborn"] /\ Piped = {}
    BY DEF Init, Lives, Piped
  <2>2. Kept = {} /\ Front = Shell /\ terminal = Shell
    BY DEF Init, Kept, Front, InFront
  <2> QED
    BY <2>1, <2>2 DEF Control!Init
<1>2. Init => RInv
  BY InitInvariant DEF Init, RInv, Departures
<1>3. RInv /\ [Next]_vars => RInv'
  BY NextInvariant, DeparturesInvariant DEF RInv
<1> QED
  BY <1>1, <1>2, <1>3, StepsControl, PTL DEF Spec, KeepsControl, Control!Spec

(***************************************************************************)
(* A job that main has found may be freed before main looks at it again.   *)
(***************************************************************************)
Commanding == {"bg", "bg_mark", "bg_print", "fg", "fg_mark", "fg_give", "fg_wait",
               "kill", "kill_remove"}

Found ==
    /\ main.at \in Commanding => main.pid \in listed \/ state[main.pid] = "reaped"
    /\ fault => main.at \in Commanding /\ main.pid \notin listed

FInv == IInv /\ Found

LEMMA FoundInvariant == FInv /\ [Next]_vars => Found'
<1> SUFFICES ASSUME FInv, [Next]_vars PROVE Found'
  OBVIOUS
<1> USE DEF FInv, Found, IInv, TypeOK, Commanding
<1>1. CASE UNCHANGED vars
  BY <1>1 DEF vars, processes, job_list
<1>2. CASE Next
  <2>1. ~fault
    BY <1>2 DEF Next
  <2>2. ASSUME NEW p \in Pids, ChildExecs(p) \/ ChildExits(p) PROVE Found'
    BY <2>1, <2>2 DEF ChildExecs, ChildExits, job_list
  <2>3. CASE CtrlZ \/ handle_sigtstp
    <3>1. CASE UNCHANGED <<processes, listed, main, fault>>
      BY <3>1 DEF processes
    <3>2. CASE Stops(InGroup(terminal)) /\ UNCHANGED <<listed, main, fault>>
      BY <2>1, <3>2 DEF Stops, InGroup
    <3> QED
      BY <2>3, <3>1, <3>2 DEF CtrlZ, handle_sigtstp, job_list
  <2>4. CASE handle_sigchld
    BY <2>1, <2>4 DEF handle_sigchld
  <2>5. CASE main'.at \notin Commanding /\ UNCHANGED fault
    BY <2>1, <2>5
  <2>6. CASE \E p \in Pids : RunForeground(p) \/ RunBackground(p) \/ RunPipeline(p)
    BY <2>5, <2>6 DEF RunForeground, RunBackground, RunPipeline, Fork
  <2>7. CASE Give \/ Wait \/ Take \/ add_job \/ WaitForPipeline
    BY <2>5, <2>7 DEF Give, Wait, Take, add_job, WaitForPipeline
  <2>8. CASE WaitAny
    BY <2>5, <2>8 DEF WaitAny
  <2>9. CASE \E place \in {"bg", "fg", "kill"} : Find(place)
    BY <2>1, <2>9 DEF Find, job_list
  <2>10. CASE /\ main.at \in Commanding /\ main.pid \notin listed /\ fault' = TRUE
              /\ UNCHANGED <<processes, job_list, terminal, signals, main>>
    BY <2>10 DEF job_list, processes
  <2>11. CASE /\ main.pid \in listed /\ main'.at \in Commanding /\ main'.pid = main.pid
              /\ UNCHANGED <<listed, fault>>
    BY <2>1, <2>11
  <2>12. CASE bg_command
    <3>1. CASE Find("bg")
      BY <2>9, <3>1
    <3>2. CASE main.at = "bg" /\ Use(Continue(main.pid) /\ main' = At("bg_mark", main.pid))
      <4>1. CASE /\ main.pid \in listed /\ UNCHANGED fault
                 /\ Continue(main.pid) /\ main' = At("bg_mark", main.pid)
        BY <2>11, <4>1 DEF Continue, job_list
      <4> QED
        BY <2>10, <3>2, <4>1 DEF Use
    <3>3. CASE main.at = "bg_print" /\ Use(Stay /\ main' = Prompt)
      <4>1. CASE main' = Prompt /\ UNCHANGED fault
        BY <2>5, <4>1
      <4> QED
        BY <2>10, <3>3, <4>1 DEF Use
    <3> QED
      BY <2>12, <3>1, <3>2, <3>3 DEF bg_command
  <2>13. CASE fg_command
    <3>1. CASE Find("fg")
      BY <2>9, <3>1
    <3>2. CASE main.at = "fg" /\ Use(Continue(main.pid) /\ main' = At("fg_mark", main.pid))
      <4>1. CASE /\ main.pid \in listed /\ UNCHANGED fault
                 /\ Continue(main.pid) /\ main' = At("fg_mark", main.pid)
        BY <2>11, <4>1 DEF Continue, job_list
      <4> QED
        BY <2>10, <3>2, <4>1 DEF Use
    <3>3. CASE /\ main.at = "fg_give"
               /\ Use(/\ GiveTerminal(main.pid)
                      /\ main' = At("fg_wait", main.pid)
                      /\ UNCHANGED <<processes, job_list, signals>>)
      <4>1. CASE /\ main.pid \in listed /\ UNCHANGED <<fault, job_list>>
                 /\ main' = At("fg_wait", main.pid)
        BY <2>11, <4>1 DEF job_list
      <4> QED
        BY <2>10, <3>3, <4>1 DEF Use
    <3>4. CASE main.at = "fg_wait" /\ Use(Stay /\ main' = At("wait", main.pid))
      <4>1. CASE main' = At("wait", main.pid) /\ UNCHANGED fault
        BY <2>5, <4>1
      <4> QED
        BY <2>10, <3>4, <4>1 DEF Use
    <3> QED
      BY <2>13, <3>1, <3>2, <3>3, <3>4 DEF fg_command
  <2>14. CASE MarkRunning
    <3>1. CASE /\ main.pid \in listed /\ UNCHANGED <<listed, fault>>
               /\ main' = At("bg_print", main.pid) \/ main' = At("fg_give", main.pid)
      BY <2>11, <3>1
    <3> QED
      BY <2>10, <2>14, <3>1 DEF MarkRunning, Use
  <2>15. CASE kill_command
    <3>1. CASE Find("kill")
      BY <2>9, <3>1
    <3>2. CASE main.at = "kill" /\ Use(Terminate \/ SigKill(main.pid))
      <4>1. CASE main.pid \in listed /\ UNCHANGED fault /\ SigKill(main.pid)
        BY <2>11, <4>1 DEF SigKill, job_list
      <4>2. CASE main' = Prompt /\ UNCHANGED fault
        BY <2>5, <4>2
      <4> QED
        BY <2>10, <3>2, <4>1, <4>2 DEF Use, Terminate
    <3>3. CASE main.at = "kill_remove" /\ Use(remove_job)
      <4>1. CASE main' = Prompt /\ UNCHANGED fault
        BY <2>5, <4>1
      <4> QED
        BY <2>10, <3>3, <4>1 DEF Use, remove_job
    <3> QED
      BY <2>15, <3>1, <3>2, <3>3 DEF kill_command
  <2> QED
    BY <1>2, <2>2, <2>3, <2>4, <2>6, <2>7, <2>8, <2>12, <2>13, <2>14, <2>15 DEF Next, Main
<1> QED
  BY <1>1, <1>2

(* bg, fg and kill go on with a job that was freed only if its process has *)
(* ended since they found it, never because of a stop.                     *)
THEOREM FreedJobsHaveEnded == Spec => [](fault => state[main.pid] = "reaped")
<1>1. Init => FInv
  BY InitInvariant DEF Init, FInv, Found, Commanding
<1>2. FInv /\ [Next]_vars => FInv'
  BY NextInvariant, FoundInvariant DEF FInv
<1>3. FInv => (fault => state[main.pid] = "reaped")
  BY DEF FInv, Found
<1> QED
  BY <1>1, <1>2, <1>3, PTL DEF Spec

=============================================================================
