---------------------------- MODULE MCDiskShell -----------------------------
(***************************************************************************)
(* DiskShell for TLC: a name that 8.3 can hold and one without a dot, in   *)
(* which find_file sees a trailing one.                                    *)
(***************************************************************************)
EXTENDS DiskShell, TLC

MCShown == ("a.txt" :> "a.txt") @@ ("dir" :> "dir.")
MCPlain == "a.txt" :> "a.txt"

=============================================================================
