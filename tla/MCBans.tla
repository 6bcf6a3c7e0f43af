------------------------------- MODULE MCBans -------------------------------
(* A small market for TLC.                                                 *)
EXTENDS MachineBans, TLC

\* Host "a" has the two cheapest offers.
MCHostOf == 1 :> "a" @@ 2 :> "a" @@ 3 :> "b"
=============================================================================
