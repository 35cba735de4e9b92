-------------------------------- MODULE Replica --------------------------------
(***************************************************************************)
(* What a backup promises, whatever way it is made: the database that a    *)
(* restore gives is the database as it was after some transaction, and     *)
(* that transaction only moves forward.                                    *)
(***************************************************************************)
EXTENDS Integers

VARIABLES
  commits,    \* number of transactions committed
  backup      \* the transactions a restore would give back

Init == commits = 0 /\ backup = {}

Commit == commits' = commits + 1 /\ UNCHANGED backup

Replicate ==
  /\ \E n \in 0..commits : backup \subseteq 1..n /\ backup' = 1..n
  /\ UNCHANGED commits

Next == Commit \/ Replicate

Spec == Init /\ [][Next]_<<commits, backup>>
=============================================================================
