------------------------------- MODULE Files --------------------------------
(***************************************************************************)
(* What the commands of src/hw7/src/commands.c and the redirections of     *)
(* src/hw7/src/parser.c do to the files of the disk, each at one instant:  *)
(* a file that does not exist comes into being with all of its data, and   *)
(* what is shown is what a file holds.  A command that is interrupted has  *)
(* either done that or nothing.  Nothing is promised once a full directory *)
(* has been written past its end.                                          *)
(***************************************************************************)
CONSTANTS Names, Data

Absent == "absent"

VARIABLES
    file,    \* what each name holds
    asked,   \* the files to be written by the commands now under way
    shown,   \* the last file shown and what of it, piece by piece, or <<>>
    spoilt

Init ==
    /\ file = [n \in Names |-> Absent]
    /\ asked = {}
    /\ shown = <<>>
    /\ spoilt = FALSE

(* Commands begin, and end or are cut off.                                 *)
Ask == UNCHANGED file /\ shown' \in {shown, <<>>}

Create(n, d) ==
    /\ <<n, d>> \in asked
    /\ file[n] = Absent
    /\ file' = [file EXCEPT ![n] = d]
    /\ UNCHANGED shown

Show(n) ==
    /\ file[n] # Absent
    /\ shown' = <<n, <<file[n]>>>>
    /\ UNCHANGED <<file, asked>>

Next ==
    \/ spoilt'
    \/ /\ UNCHANGED spoilt
       /\ Ask \/ (\E n \in Names : Show(n) \/ \E d \in Data : Create(n, d))

Spec == Init /\ [][Next]_<<file, asked, shown, spoilt>>

=============================================================================
