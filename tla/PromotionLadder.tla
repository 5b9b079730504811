-------------------------- MODULE PromotionLadder --------------------------
(***************************************************************************)
(* What the manifest of a V2 run promises about its attempts: a ladder of  *)
(* challenges to a champion.  Attempts are numbered without gaps; at most  *)
(* one is on trial; it is judged once, and a verdict is final; the         *)
(* champion is the attempt accepted last.                                  *)
(***************************************************************************)
EXTENDS Integers, FiniteSets

CONSTANT MaxAttempt   \* bound: the last attempt number

VARIABLES status, champion

ladderVars == <<status, champion>>

Attempts  == 0..MaxAttempt
NoAttempt == -1

Init ==
  /\ status = [n \in Attempts |-> "none"]
  /\ champion = NoAttempt

Crown ==
  /\ champion = NoAttempt
  /\ status' = [status EXCEPT ![0] = "accepted"]
  /\ champion' = 0

\* The next number, of a run that has a champion.
IsNext(n) ==
  /\ champion # NoAttempt
  /\ \A m \in Attempts : status[m] = "none" <=> m >= n

Challenge(n) ==
  /\ IsNext(n)
  /\ \A m \in Attempts : status[m] # "pending"
  /\ status' = [status EXCEPT ![n] = "pending"]
  /\ UNCHANGED champion

\* A candidate that will not be judged.
Withdraw(n) ==
  /\ IsNext(n)
  /\ status' = [status EXCEPT ![n] = "interrupted"]
  /\ UNCHANGED champion

Promote(n) ==
  /\ status[n] = "pending" /\ n > champion
  /\ status' = [status EXCEPT ![n] = "accepted"]
  /\ champion' = n

Reject(n) ==
  /\ status[n] = "pending"
  /\ status' = [status EXCEPT ![n] = "rejected"]
  /\ UNCHANGED champion

Next ==
  \/ Crown
  \/ \E n \in Attempts :
       Challenge(n) \/ Withdraw(n) \/ Promote(n) \/ Reject(n)

Spec == Init /\ [][Next]_ladderVars
=============================================================================
