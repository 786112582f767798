------------------------------ MODULE Commands ------------------------------
(***************************************************************************)
(* What the shell of src/hw3 promises of the commands that it runs,        *)
(* whatever its signal handlers do in between.  One command at a time is   *)
(* in front; only that one is given the terminal, and when the shell turns *)
(* from it, it has stopped or ended and the terminal is the shell's again. *)
(* Control-Z stops what has the terminal and nothing else.  A job is       *)
(* forgotten only when it has ended, and only a job goes on once stopped;  *)
(* whether a command that is stopped in front becomes a job is left open.  *)
(***************************************************************************)
CONSTANTS Pids,    \* the commands that there can be
          Shell

VARIABLES
    life,     \* "unborn", "running", "stopped" or "ended"
    pipes,    \* the commands of pipelines
    jobs,     \* the commands that the user can name
    front,    \* the command that the shell turns to, or Shell
    holder    \* who has the terminal

vars == <<life, pipes, jobs, front, holder>>

Init ==
    /\ life = [p \in Pids |-> "unborn"]
    /\ pipes = {}
    /\ jobs = {}
    /\ front = Shell
    /\ holder = Shell

Starts(p) ==
    /\ front = Shell
    /\ life[p] = "unborn"
    /\ life' = [life EXCEPT ![p] = "running"]

Run(p) == Starts(p) /\ front' = p /\ UNCHANGED <<pipes, jobs, holder>>

RunInBackground(p) ==
    Starts(p) /\ jobs' = jobs \cup {p} /\ UNCHANGED <<pipes, front, holder>>

RunPipeline(p) ==
    Starts(p) /\ pipes' = pipes \cup {p} /\ UNCHANGED <<jobs, front, holder>>

Bring(p) ==
    /\ front = Shell
    /\ p \in jobs
    /\ front' = p
    /\ UNCHANGED <<life, pipes, jobs, holder>>

Lend ==
    /\ front # Shell
    /\ holder' = front
    /\ UNCHANGED <<life, pipes, jobs, front>>

TurnBack ==
    /\ front # Shell
    /\ life[front] \in {"stopped", "ended"}
    /\ jobs' = jobs \/ (life[front] = "stopped" /\ jobs' = jobs \cup {front})
    /\ front' = Shell
    /\ holder' = Shell
    /\ UNCHANGED <<life, pipes>>

Stop ==
    /\ \E S \in SUBSET (IF holder = Shell THEN pipes ELSE {holder}) :
          /\ \A p \in S : life[p] = "running"
          /\ life' = [p \in Pids |-> IF p \in S THEN "stopped" ELSE life[p]]
    /\ UNCHANGED <<pipes, jobs, front, holder>>

Continue(p) ==
    /\ p \in jobs
    /\ front \in {p, Shell}
    /\ life[p] = "stopped"
    /\ life' = [life EXCEPT ![p] = "running"]
    /\ UNCHANGED <<pipes, jobs, front, holder>>

End(p) ==
    /\ life[p] = "running" \/ (life[p] = "stopped" /\ p \in jobs)
    /\ life' = [life EXCEPT ![p] = "ended"]
    /\ UNCHANGED <<pipes, jobs, front, holder>>

Forget ==
    /\ \E S \in SUBSET jobs :
          /\ \A p \in S : life[p] = "ended"
          /\ jobs' = jobs \ S
    /\ UNCHANGED <<life, pipes, front, holder>>

Next ==
    \/ \E p \in Pids :
          \/ Run(p) \/ RunInBackground(p) \/ RunPipeline(p)
          \/ Bring(p) \/ Continue(p) \/ End(p)
    \/ Lend \/ TurnBack \/ Stop \/ Forget

Spec == Init /\ [][Next]_vars

=============================================================================
