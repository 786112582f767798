------------------------------ MODULE MCFat16 -------------------------------
(***************************************************************************)
(* Fat16 for TLC: names that 8.3 can hold, one without a dot, in which     *)
(* find_file sees a trailing one, and one that is too long and is shown as *)
(* another.                                                                *)
(***************************************************************************)
EXTENDS Fat16, TLC

MCShown == ("a.txt" :> "a.txt") @@ ("longfile.txt" :> "longfile.txt")
           @@ ("longfile2.txt" :> "longfile.txt") @@ ("dir" :> "dir.")

=============================================================================
