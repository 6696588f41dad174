----------------------------- MODULE DurableQueue -----------------------------
(***************************************************************************)
(* What both queues that outlive the process promise: EmbyNotify's changed *)
(* paths and ObsoleteExports' codes.  An item may be owed some work; it    *)
(* stays in the queue until nothing is owed for it, whatever fails, and a  *)
(* crash is a step that changes nothing.                                   *)
(***************************************************************************)
CONSTANT Items

VARIABLES
    queue,   \* what a restart finds
    owed,    \* items whose work is still to be done
    given    \* items ever given up on, by a limit or by the user

queueVars == <<queue, owed, given>>

Init == queue = {} /\ owed = {} /\ given = {}

(* Work comes up for items, which are queued with it or were before.       *)
Owe(S) ==
    /\ queue' = queue \cup S /\ owed' = owed \cup S
    /\ UNCHANGED given
(* Items are queued for which there turns out to be nothing to do.         *)
Enter(S) ==
    /\ queue' = queue \cup S
    /\ UNCHANGED <<owed, given>>
(* Work is done, or no longer needed.                                      *)
Settle(S) ==
    /\ owed' = owed \ S
    /\ UNCHANGED <<queue, given>>
Leave(S) ==
    /\ S \cap owed = {}
    /\ queue' = queue \ S
    /\ UNCHANGED <<owed, given>>
(* Items are given up, for new ones to be queued if there are any, which   *)
(* are not given up at once; others for which nothing is owed may go too.  *)
GiveUp(S, new, done) ==
    /\ S \cap new = {} /\ done \cap owed = {}
    /\ queue' = (queue \cup new) \ (S \cup done) /\ owed' = (owed \cup new) \ S
    /\ given' = given \cup S

Next ==
    \E S \in SUBSET Items :
        \/ Owe(S) \/ Enter(S) \/ Settle(S) \/ Leave(S)
        \/ \E new, done \in SUBSET Items : GiveUp(S, new, done)
Spec == Init /\ [][Next]_queueVars
===============================================================================
