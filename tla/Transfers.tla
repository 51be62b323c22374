------------------------------ MODULE Transfers ------------------------------
(***************************************************************************)
(* What the download manager promises of each download: it is asked for,   *)
(* can be stopped and asked for again, and a file is handed to the browser *)
(* only while it is asked for, whole, and once for each time it was asked  *)
(* for.  How it is fetched, in pieces and with what interruptions, is      *)
(* Downloads, which is shown to implement this.                            *)
(***************************************************************************)
EXTENDS Naturals

CONSTANTS Ids, Size

VARIABLES
    wanted,   \* downloads that are queued or under way
    files     \* what the browser was last given for each: the pieces in their order

Whole == [i \in 1..Size |-> i]

Init == wanted = {} /\ files = [id \in Ids |-> <<>>]

Want(S) == wanted' = wanted \cup S /\ UNCHANGED files
Stop(S) == wanted' = wanted \ S /\ UNCHANGED files

Deliver(id) ==
    /\ id \in wanted /\ wanted' = wanted \ {id}
    /\ files' = [files EXCEPT ![id] = Whole]

Next ==
    \/ \E S \in SUBSET Ids : Want(S) \/ Stop(S)
    \/ \E id \in Ids : Deliver(id)

Spec == Init /\ [][Next]_<<wanted, files>>
=============================================================================
