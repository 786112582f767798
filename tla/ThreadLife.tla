----------------------------- MODULE ThreadLife -----------------------------
(***************************************************************************)
(* What the thread library of src/include/userthread.h promises: a thread  *)
(* lives from its creation until its start routine returns, and nothing    *)
(* but that ends it, unless main ends the library; a thread that has been  *)
(* made to wait for another gets the CPU no sooner than the other has      *)
(* finished, and at the first switch after that it can; a join that        *)
(* returns has seen the end of the thread that it joins.                   *)
(***************************************************************************)
CONSTANTS Ids,    \* the threads that there can be
          Main,   \* the program's main function
          None

VARIABLES
    life,    \* "unused", "alive" or "finished"
    waits,   \* the thread that each thread is to wait for, or None
    runs,    \* whose code is on the CPU
    joins    \* the thread whose end it awaits inside thread_join, or None

vars == <<life, waits, runs, joins>>

Init ==
    /\ life = [i \in Ids |-> "unused"]
    /\ waits = [i \in Ids |-> None]
    /\ runs = Main
    /\ joins = None

CanRun(i) == life[i] = "alive" /\ waits[i] = None

(* Only main and threads that can run make calls.                          *)
Able == runs # Main => CanRun(runs)

Create ==
    /\ Able
    /\ \E i \in Ids : life[i] = "unused" /\ life' = [life EXCEPT ![i] = "alive"]
    /\ UNCHANGED <<waits, runs, joins>>

(* It is not always the caller that is made to wait.                       *)
Join ==
    /\ Able
    /\ joins = None
    /\ \E t \in Ids :
          /\ life[t] = "alive"
          /\ joins' = t
          /\ \/ UNCHANGED waits
             \/ \E i \in Ids : life[i] = "alive" /\ waits' = [waits EXCEPT ![i] = t]
    /\ UNCHANGED <<life, runs>>

Return ==
    /\ Able
    /\ joins # None
    /\ life[joins] = "finished"
    /\ joins' = None
    /\ UNCHANGED <<life, waits, runs>>

Finish ==
    /\ runs # Main
    /\ CanRun(runs)
    /\ life' = [life EXCEPT ![runs] = "finished"]
    /\ UNCHANGED <<waits, runs, joins>>

(* A flow goes on where it was last saved, which need not be where it lost *)
(* the CPU.                                                                *)
Switch ==
    /\ waits' = [i \in Ids |->
          IF waits[i] # None /\ life[waits[i]] = "finished" THEN None ELSE waits[i]]
    /\ runs' \in {Main} \cup {i \in Ids : CanRun(i)'}
    /\ joins' \in Ids \cup {None}
    /\ UNCHANGED life

Terminate ==
    /\ runs = Main
    /\ life' = [i \in Ids |-> "unused"]
    /\ waits' = [i \in Ids |-> None]
    /\ UNCHANGED <<runs, joins>>

Next == Create \/ Join \/ Return \/ Finish \/ Switch \/ Terminate

Spec == Init /\ [][Next]_vars

=============================================================================
