---------------------------- MODULE JobLifeCycle ----------------------------
(***************************************************************************)
(* What a row of background_jobs promises, whatever the job is: the         *)
(* abstract specification that the jobs of CaptionIngestion and of          *)
(* EvidenceReview implement.                                                *)
(*                                                                          *)
(* A row is committed as queued before anything can act on it.  From then   *)
(* on it only changes while somebody owns it: a request that has still to   *)
(* send its message, a message, or a task.  An owner may hand the row on,   *)
(* and may go only in the step that ends it, unless it is lost.  An ended   *)
(* row may run again, for a late owner or because it was queued again.      *)
(***************************************************************************)
EXTENDS Integers

CONSTANT Jobs

Active == {"queued", "running"}
Ended == {"succeeded", "failed", "cancelled"}

VARIABLES
    status,   \* [Jobs -> ...], "absent" where there is no row
    owned,    \* [Jobs -> BOOLEAN]: somebody is going to act on the row
    lost      \* how often a process was lost with what it owned

vars == <<status, owned, lost>>

Init ==
    /\ status = [j \in Jobs |-> "absent"]
    /\ owned = [j \in Jobs |-> FALSE]
    /\ lost = 0

\* One transaction commits the rows of S; whoever did it owns them.
Queue(S) ==
    /\ status' = [j \in Jobs |-> IF j \in S THEN "queued" ELSE status[j]]
    /\ owned' = [j \in Jobs |-> j \in S \/ owned[j]]
    /\ UNCHANGED lost

Start(j) ==
    /\ status' = [status EXCEPT ![j] = "running"]
    /\ owned[j]
    /\ UNCHANGED <<owned, lost>>

\* The row ends.  Another owner of it may be left.
End(j) ==
    /\ \E s \in Ended : status' = [status EXCEPT ![j] = s]
    /\ owned[j]
    /\ \E left \in BOOLEAN : owned' = [owned EXCEPT ![j] = left]
    /\ UNCHANGED lost

\* An owner finds the row cancelled and leaves it alone.
Drop(j) ==
    /\ status[j] \in Ended
    /\ UNCHANGED <<status, lost>>
    /\ owned[j]
    /\ owned' = [owned EXCEPT ![j] = FALSE]

\* A process is gone, and what it owned may have no other owner.
Lose(S) ==
    /\ lost' = lost + 1
    /\ UNCHANGED status
    /\ \A j \in S : owned[j]
    /\ owned' = [j \in Jobs |-> j \notin S /\ owned[j]]

Next ==
    \/ \E j \in Jobs : Start(j) \/ End(j) \/ Drop(j)
    \/ \E S \in SUBSET Jobs : Queue(S) \/ Lose(S)

Spec == Init /\ [][Next]_vars

-----------------------------------------------------------------------------
TypeOK ==
    /\ status \in [Jobs -> {"absent"} \cup Active \cup Ended]
    /\ owned \in [Jobs -> BOOLEAN]
    /\ lost \in Nat

\* No row is left queued or running with nobody to move it, until a process is lost.
ActiveIsOwned == lost = 0 => \A j \in Jobs : status[j] \in Active => owned[j]
=============================================================================
