-------------------------------- MODULE Jobs --------------------------------
(***************************************************************************)
(* The job control of the shell: src/hw3/src/shell.c, job_control.c and    *)
(* the job commands of parser.c.                                           *)
(*                                                                         *)
(* The shell's main loop, its two signal handlers and its children run     *)
(* interleaved.  A handler is one step, for main does not go on before it  *)
(* returns, and a child that changes its state while it runs might as well *)
(* have done so before or after.  When a child's change of state meets     *)
(* both a wait of main and the handler's, either may be told of it.        *)
(*                                                                         *)
(* A job is known by its pid, and the list is a set: its order only gives  *)
(* the jobs their numbers.  A job that main has found may be freed by the  *)
(* handler before main looks at it again; what main then reads or writes   *)
(* is undefined, and nothing is said of what follows.                      *)
(*                                                                         *)
(* A command is one process with the default action for SIGTSTP, pids are  *)
(* not used again, and a pipeline has two commands or more.  The end of    *)
(* the shell is not modelled.                                              *)
(***************************************************************************)
EXTENDS Naturals

CONSTANTS Pids,    \* the pids of the children that can be forked
          Shell    \* the shell's own pid, and process group

ASSUME ShellAssumption == Shell \notin Pids

VARIABLES
    state,     \* of each process; "forked" if it has yet to take the terminal
    kind,      \* how it was started
    report,    \* the stopped children of which no wait has told the shell
    listed,    \* the jobs in job_list
    marked,    \* those of them whose field `stopped' is 1
    terminal,  \* the foreground process group
    sigchld,   \* SIGCHLD is pending
    sigtstp,   \* SIGTSTP is pending
    main,      \* where the main loop is, the child or job it is busy with,
               \* and how many children of its pipeline are to be waited for
    fault      \* main has used a job that was freed

processes == <<state, kind, report>>
job_list == <<listed, marked>>
signals == <<sigchld, sigtstp>>
vars == <<processes, job_list, terminal, signals, main, fault>>

States == {"unborn", "forked", "running", "stopped", "exited", "reaped"}
Kinds == {"none", "foreground", "background", "pipe"}
Places == {"prompt", "give", "wait", "take", "add", "pipe", "wait_all",
           "bg", "bg_mark", "bg_print", "fg", "fg_mark", "fg_give", "fg_wait",
          "kill", "kill_remove"}

At(place, pid) == [at |-> place, pid |-> pid, left |-> 0]
Prompt == At("prompt", Shell)

Init ==
    /\ state = [p \in Pids |-> "unborn"]
    /\ kind = [p \in Pids |-> "none"]
    /\ report = {}
    /\ listed = {}
    /\ marked = {}
    /\ terminal = Shell
    /\ sigchld = FALSE
    /\ sigtstp = FALSE
    /\ main = Prompt
    /\ fault = FALSE

-----------------------------------------------------------------------------
(* The children.                                                           *)

In(s) == {p \in Pids : state[p] = s}

Stops(S) ==
    /\ state' = [p \in Pids |-> IF p \in S THEN "stopped" ELSE state[p]]
    /\ report' = report \cup S
    /\ sigchld' = (sigchld \/ S # {})
    /\ UNCHANGED kind

(* A foreground child takes the terminal itself before it is exec'ed.      *)
ChildExecs(p) ==
    /\ state[p] = "forked"
    /\ state' = [state EXCEPT ![p] = "running"]
    /\ terminal' = p
    /\ UNCHANGED <<kind, report, job_list, signals, main, fault>>

ChildExits(p) ==
    /\ state[p] \in {"forked", "running"}
    /\ state' = [state EXCEPT ![p] = "exited"]
    /\ sigchld' = TRUE
    /\ UNCHANGED <<kind, report, job_list, terminal, sigtstp, main, fault>>

(* The commands of a pipeline stay in the process group of the shell.      *)
InGroup(g) == {p \in In("running") : p = g \/ (g = Shell /\ kind[p] = "pipe")}

(* Control-Z.                                                              *)
CtrlZ ==
    /\ Stops(InGroup(terminal))
    /\ sigtstp' = (sigtstp \/ terminal = Shell)
    /\ UNCHANGED <<job_list, terminal, main, fault>>

-----------------------------------------------------------------------------
(* The signal handlers.                                                    *)

(* Variant: one child is waited for, not all that can be.                  *)
ReapsOne ==
    /\ sigchld
    /\ sigchld' = FALSE
    /\ \E p \in In("exited") \cup report :
          /\ state' = IF state[p] = "exited" THEN [state EXCEPT ![p] = "reaped"] ELSE state
          /\ listed' = listed \ (In("exited") \cap {p})
          /\ marked' = (marked \cup (report \cap listed \cap {p})) \ (In("exited") \cap {p})
          /\ report' = report \ {p}
    /\ UNCHANGED <<kind, terminal, sigtstp, main, fault>>

(* Variant: a job that stops is removed like one that ends.                *)
RemovesStopped ==
    /\ sigchld
    /\ sigchld' = FALSE
    /\ state' = [p \in Pids |-> IF state[p] = "exited" THEN "reaped" ELSE state[p]]
    /\ listed' = listed \ (In("exited") \cup report)
    /\ marked' = marked \ (In("exited") \cup report)
    /\ report' = {}
    /\ UNCHANGED <<kind, terminal, sigtstp, main, fault>>

(* Variant: the job of a stopped child is marked without being looked for. *)
MarksUnlisted ==
    /\ sigchld
    /\ sigchld' = FALSE
    /\ state' = [p \in Pids |-> IF state[p] = "exited" THEN "reaped" ELSE state[p]]
    /\ listed' = listed \ In("exited")
    /\ marked' = (marked \cup report) \ In("exited")
    /\ report' = {}
    /\ UNCHANGED <<kind, terminal, sigtstp, main, fault>>

handle_sigchld ==
    /\ sigchld
    /\ sigchld' = FALSE
    /\ state' = [p \in Pids |-> IF state[p] = "exited" THEN "reaped" ELSE state[p]]
    /\ listed' = listed \ In("exited")
    /\ marked' = (marked \cup (report \cap listed)) \ In("exited")
    /\ report' = {}
    /\ UNCHANGED <<kind, terminal, sigtstp, main, fault>>

handle_sigtstp ==
    /\ sigtstp
    /\ sigtstp' = FALSE
    /\ IF terminal = Shell
       THEN UNCHANGED <<processes, job_list, sigchld>>
       ELSE /\ Stops(InGroup(terminal))
            /\ marked' = marked \cup (listed \cap {terminal})
            /\ UNCHANGED listed
    /\ UNCHANGED <<terminal, main, fault>>

-----------------------------------------------------------------------------
(* The main loop: commands that are run.                                   *)

Fork(p, k) ==
    /\ state[p] = "unborn"
    /\ kind' = [kind EXCEPT ![p] = k]
    /\ state' = [state EXCEPT ![p] = IF k = "foreground" THEN "forked" ELSE "running"]
    /\ UNCHANGED <<report, job_list, terminal, signals, fault>>

RunForeground(p) == main = Prompt /\ Fork(p, "foreground") /\ main' = At("give", p)
RunBackground(p) == main = Prompt /\ Fork(p, "background") /\ main' = At("add", p)

(* tcsetpgrp fails if the group is gone.                                   *)
GiveTerminal(p) == terminal' = IF state[p] = "reaped" THEN terminal ELSE p

Give ==
    /\ main.at = "give"
    /\ GiveTerminal(main.pid)
    /\ main' = At("wait", main.pid)
    /\ UNCHANGED <<processes, job_list, signals, fault>>

(* Variant: a wait that fails is tried again.                              *)
WaitAgain ==
    /\ main.at = "wait"
    /\ \/ /\ state[main.pid] = "exited"
          /\ state' = [state EXCEPT ![main.pid] = "reaped"]
          /\ UNCHANGED report
       \/ /\ main.pid \in report
          /\ report' = report \ {main.pid}
          /\ UNCHANGED state
    /\ main' = [main EXCEPT !.at = "take"]
    /\ UNCHANGED <<kind, job_list, terminal, signals, fault>>

(* Variant: the wait does not block.                                       *)
WaitNoHang ==
    /\ main.at = "wait"
    /\ main' = [main EXCEPT !.at = "take"]
    /\ UNCHANGED <<processes, job_list, terminal, signals, fault>>

(* waitpid(pid, NULL, WUNTRACED), which fails if the child has been reaped *)
(* by the handler.                                                         *)
Wait ==
    /\ main.at = "wait"
    /\ \/ state[main.pid] = "reaped" /\ UNCHANGED <<state, report>>
       \/ /\ state[main.pid] = "exited"
          /\ state' = [state EXCEPT ![main.pid] = "reaped"]
          /\ UNCHANGED report
       \/ /\ main.pid \in report
          /\ report' = report \ {main.pid}
          /\ UNCHANGED state
    /\ main' = [main EXCEPT !.at = "take"]
    /\ UNCHANGED <<kind, job_list, terminal, signals, fault>>

(* Variant: the terminal is left to the child.                             *)
TakeNothing ==
    /\ main.at = "take"
    /\ main' = Prompt
    /\ UNCHANGED <<processes, job_list, terminal, signals, fault>>

Take ==
    /\ main.at = "take"
    /\ terminal' = Shell
    /\ main' = Prompt
    /\ UNCHANGED <<processes, job_list, signals, fault>>

add_job ==
    /\ main.at = "add"
    /\ listed' = listed \cup {main.pid}
    /\ main' = Prompt
    /\ UNCHANGED <<processes, marked, terminal, signals, fault>>

(* execute_pipe forks the commands one by one, and then waits as often.    *)
RunPipeline(p) ==
    /\ (main = Prompt /\ In("unborn") # {p}) \/ main.at = "pipe"
    /\ Fork(p, "pipe")
    /\ main' = [At("pipe", Shell) EXCEPT !.left = main.left + 1]

WaitForPipeline ==
    /\ main.at = "pipe" /\ main.left >= 2
    /\ main' = [main EXCEPT !.at = "wait_all"]
    /\ UNCHANGED <<processes, job_list, terminal, signals, fault>>

(* wait(NULL) takes whichever child has ended, and fails if there is none. *)
WaitAny ==
    /\ main.at = "wait_all"
    /\ \/ \E p \in In("exited") : state' = [state EXCEPT ![p] = "reaped"]
       \/ Pids = In("unborn") \cup In("reaped") /\ UNCHANGED state
    /\ main' = IF main.left = 1 THEN Prompt ELSE [main EXCEPT !.left = @ - 1]
    /\ UNCHANGED <<kind, report, job_list, terminal, signals, fault>>

-----------------------------------------------------------------------------
(* The main loop: job commands.  Any job has a number.                     *)

Find(command) ==
    /\ main = Prompt
    /\ \E p \in listed : main' = At(command, p)
    /\ UNCHANGED <<processes, job_list, terminal, signals, fault>>

(* Main looks at the job it has found, which may have been freed.  Each    *)
(* command does so several times: for its pid, its mark, its name.         *)
Use(Step) ==
    \/ main.pid \in listed /\ Step /\ UNCHANGED fault
    \/ /\ main.pid \notin listed
       /\ fault' = TRUE
       /\ UNCHANGED <<processes, job_list, terminal, signals, main>>

(* kill(job->pid, SIGCONT).  The shell is told that a child continues, and *)
(* no longer that it has stopped.                                          *)
Continue(p) ==
    /\ state' = IF state[p] = "stopped" THEN [state EXCEPT ![p] = "running"] ELSE state
    /\ report' = report \ {p}
    /\ sigchld' = (sigchld \/ state[p] = "stopped")
    /\ UNCHANGED <<kind, job_list, terminal, sigtstp>>

Stay == UNCHANGED <<processes, job_list, terminal, signals>>

bg_command ==
    \/ Find("bg")
    \/ main.at = "bg" /\ Use(Continue(main.pid) /\ main' = At("bg_mark", main.pid))
    \/ main.at = "bg_print" /\ Use(Stay /\ main' = Prompt)

fg_command ==
    \/ Find("fg")
    \/ main.at = "fg" /\ Use(Continue(main.pid) /\ main' = At("fg_mark", main.pid))
    \/ /\ main.at = "fg_give"
       /\ Use(/\ GiveTerminal(main.pid)
              /\ main' = At("fg_wait", main.pid)
              /\ UNCHANGED <<processes, job_list, signals>>)
    \/ main.at = "fg_wait" /\ Use(Stay /\ main' = At("wait", main.pid))

(* Variant: only bg clears the mark.                                       *)
MarkOnlyInBg ==
    /\ main.at \in {"bg_mark", "fg_mark"}
    /\ Use(/\ marked' = IF main.at = "bg_mark" THEN marked \ {main.pid} ELSE marked
           /\ main' = IF main.at = "bg_mark" THEN At("bg_print", main.pid) ELSE At("fg_give", main.pid)
           /\ UNCHANGED <<processes, listed, terminal, signals>>)

(* job->stopped = 0, in bg_command and in fg_command.                      *)
MarkRunning ==
    /\ main.at \in {"bg_mark", "fg_mark"}
    /\ Use(/\ marked' = marked \ {main.pid}
           /\ main' = IF main.at = "bg_mark" THEN At("bg_print", main.pid) ELSE At("fg_give", main.pid)
           /\ UNCHANGED <<processes, listed, terminal, signals>>)

(* SIGTERM: a child that dies of it does so by exiting.                    *)
Terminate == Stay /\ main' = Prompt

SigKill(p) ==
    /\ IF state[p] \in {"running", "stopped"}
       THEN /\ state' = [state EXCEPT ![p] = "exited"]
            /\ sigchld' = TRUE
       ELSE UNCHANGED <<state, sigchld>>
    /\ report' = report \ {p}
    /\ main' = At("kill_remove", p)
    /\ UNCHANGED <<kind, job_list, terminal, sigtstp>>

remove_job ==
    /\ listed' = listed \ {main.pid}
    /\ marked' = marked \ {main.pid}
    /\ main' = Prompt
    /\ UNCHANGED <<processes, terminal, signals>>

kill_command ==
    \/ Find("kill")
    \/ main.at = "kill" /\ Use(Terminate \/ SigKill(main.pid))
    \/ main.at = "kill_remove" /\ Use(remove_job)

-----------------------------------------------------------------------------

Main ==
    \/ \E p \in Pids : RunForeground(p) \/ RunBackground(p) \/ RunPipeline(p)
    \/ WaitForPipeline
    \/ Give \/ Wait \/ Take
    \/ add_job
    \/ WaitAny
    \/ bg_command \/ fg_command \/ MarkRunning
    \/ kill_command

Next ==
    /\ ~fault
    /\ \/ \E p \in Pids : ChildExecs(p) \/ ChildExits(p)
       \/ CtrlZ
       \/ handle_sigchld
       \/ handle_sigtstp
       \/ Main

(* A pending SIGCHLD is delivered, main goes on when it can, and commands  *)
(* end if they are not stopped.  The user need not type anything.          *)
Fairness ==
    /\ WF_vars(~fault /\ handle_sigchld)
    /\ WF_vars(~fault /\ main # Prompt /\ Main)
    /\ \A p \in Pids : WF_vars(~fault /\ ChildExits(p))

Spec == Init /\ [][Next]_vars /\ Fairness

-----------------------------------------------------------------------------
(* Properties.                                                             *)

(* Every variable stays in its type.                                       *)
TypeOK ==
    /\ state \in [Pids -> States]
    /\ kind \in [Pids -> Kinds]
    /\ report \subseteq Pids
    /\ listed \subseteq Pids
    /\ marked \subseteq listed
    /\ terminal \in Pids \cup {Shell}
    /\ sigchld \in BOOLEAN
    /\ sigtstp \in BOOLEAN
    /\ main \in [at : Places, pid : Pids \cup {Shell}, left : Nat]
    /\ main.at \notin {"prompt", "pipe", "wait_all"} => main.pid \in Pids
    /\ fault \in BOOLEAN

(* Outside a foreground wait the terminal is the shell's, although the     *)
(* child takes it too, at a time of its own.                               *)
TerminalIsReturned ==
    main.at \notin {"give", "fg_wait", "wait", "take"} => terminal = Shell

(* A child that has ended or stopped, and of which no wait has told the    *)
(* shell, leaves a SIGCHLD pending, although signals do not queue: no      *)
(* zombie stays and no stop goes unnoticed.                                *)
NoReportIsLost ==
    In("exited") \cup report # {} => sigchld

(* A job that is shown as Stopped is not running: the mark that a handler  *)
(* sets in the middle of fg or bg is not left behind.                      *)
StoppedMarkIsTrue ==
    \A p \in marked :
        \/ state[p] \in {"stopped", "exited", "reaped"}
        \/ main.at \in {"bg_mark", "fg_mark"} /\ main.pid = p

(* A background command that lives is in the job list, so that fg, bg and  *)
(* kill can reach it; and a job is freed only when its process is gone.    *)
NoJobIsForgotten ==
    \A p \in Pids :
        kind[p] = "background" /\ state[p] \in {"running", "stopped"} =>
            p \in listed \/ main = At("add", p)

(* What the children that have not been reaped are to main.                *)
Bookkeeping ==
    /\ \A p \in report : state[p] = "stopped"
    /\ \A p \in In("forked") :
          kind[p] = "foreground" /\ main.at \in {"give", "wait"} /\ main.pid = p
    /\ \A p \in listed : state[p] \notin {"unborn", "forked"}
    /\ main.at = "add" => state[main.pid] \notin {"unborn", "forked"}
    /\ main.at = "kill_remove" => state[main.pid] \in {"exited", "reaped"}
    /\ main.at = "wait_all" => main.left # 0

(* The inductive invariant.                                                *)
IInv ==
    /\ TypeOK
    /\ Bookkeeping
    /\ TerminalIsReturned
    /\ NoReportIsLost
    /\ StoppedMarkIsTrue
    /\ NoJobIsForgotten

(* The shell's state as that of Commands: a child that has ended has done  *)
(* so whether or not it has been reaped, and one that is about to be added *)
(* is as good as listed.                                                   *)
Lives ==
    [p \in Pids |-> CASE state[p] = "forked" -> "running"
                     [] state[p] \in {"exited", "reaped"} -> "ended"
                     [] OTHER -> state[p]]

Piped == {p \in Pids : kind[p] = "pipe"}

Kept == listed \cup (IF main.at = "add" THEN {main.pid} ELSE {})

InFront == {"give", "wait", "take", "fg", "fg_mark", "fg_give", "fg_wait"}

Front == IF main.at \in InFront THEN main.pid ELSE Shell

Control == INSTANCE Commands WITH
    life <- Lives, pipes <- Piped, jobs <- Kept, front <- Front, holder <- terminal

(* The shell keeps what Commands promises, although a handler may reap the *)
(* command that main waits for, free a job in the middle of a command, or  *)
(* stop what main is about to give the terminal to.                        *)
KeepsControl == Control!Spec

(* The shell comes back to its prompt, whoever reaps the children, if they *)
(* end; unless one is stopped, or main uses a job that was freed.          *)
PromptReturns ==
    main # Prompt ~> main = Prompt \/ In("stopped") # {} \/ fault

(* The comment on execute_pipe's loop of waits says "Wait for all child    *)
(* processes": when it is over the pipeline has ended.                     *)
PipelineIsWaitedFor ==
    [][main.at = "wait_all" /\ main' = Prompt =>
          \A p \in Pids : kind[p] = "pipe" => state'[p] \in {"exited", "reaped"}]_vars

(* The comment on the wait in execute_command says "Wait for child to      *)
(* finish or stop", and test 4 of the Readme stops a command with          *)
(* Control-Z and goes on with "jobs", "bg 1" and "fg 1": a command that    *)
(* stops while main waits for it makes main go on, or at least is a job.   *)
StoppedCommandsComeBack ==
    \A p \in Pids :
        main = At("wait", p) /\ state[p] = "stopped"
            ~> main # At("wait", p) \/ state[p] # "stopped" \/ p \in listed

=============================================================================
