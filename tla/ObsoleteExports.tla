--------------------------- MODULE ObsoleteExports ---------------------------
(***************************************************************************)
(* The clean-up of exported folders whose code left the library            *)
(* (services/obsolete_exports.py and its caller in pan_poller.py).         *)
(*                                                                         *)
(* Scans mark codes, on threads of their own; the maintenance loop drains  *)
(* the queue on a worker thread: for every code it asks the database,      *)
(* removes the folder and queues a notice for Emby, and only at the end    *)
(* replaces and saves the queue.  The poller exports meanwhile.            *)
(***************************************************************************)
EXTENDS Naturals, FiniteSets

CONSTANTS
    Codes, NoCode,
    MaxRestarts   \* bound: restarts of the process

ASSUME ConstantsAssumption ==
    /\ NoCode \notin Codes
    /\ MaxRestarts \in Nat

VARIABLES
    works,     \* codes with a Work in the database
    exports,   \* codes with exported files on disk
    codes,     \* _codes
    saved,     \* the state file
    pc, pending, current, kept,   \* the drain and its locals
    skipped,   \* history: codes with a file the last drain could not unlink
    owed,      \* history: codes marked that no drain has dealt with since
    interim,   \* history: codes marked since the drain began
    lost,      \* history: codes of which a drain discarded such a mark
    restarts

drain == <<pc, pending, current, kept>>
marks == <<owed, interim, lost>>
vars == <<works, exports, codes, saved, drain, skipped, marks, restarts>>

-----------------------------------------------------------------------------
(* The Work of a code is deleted or renumbered, a scan or import brings it *)
(* back.  A scan that merges the volumes of a directory marks, at its end, *)
(* the former codes of the files that have no Work.                        *)
LoseWork(c) ==
    /\ c \in works
    /\ works' = works \ {c}
    /\ UNCHANGED <<exports, codes, saved, drain, skipped, marks, restarts>>
GainWork(c) ==
    /\ c \notin works
    /\ works' = works \cup {c}
    /\ UNCHANGED <<exports, codes, saved, drain, skipped, marks, restarts>>

(* A code that is queued already stays where it is.                        *)
Mark(c) ==
    /\ c \notin works
    /\ codes' = codes \cup {c}
    /\ saved' = codes'
    /\ owed' = owed \cup {c}
    /\ interim' = IF pc = "idle" THEN {} ELSE interim \cup {c}
    /\ UNCHANGED <<works, exports, drain, skipped, lost, restarts>>

(* A completed download of the work is exported.                           *)
Export(c) ==
    /\ c \in works
    /\ exports' = exports \cup {c}
    /\ UNCHANGED <<works, codes, saved, drain, skipped, marks, restarts>>

-----------------------------------------------------------------------------
DrainStarts ==
    /\ pc = "idle" /\ codes # {}
    /\ pending' = codes /\ kept' = {}
    /\ pc' = "next" /\ skipped' = {}
    /\ UNCHANGED <<works, exports, codes, saved, current, marks, restarts>>

(* A code that has a Work again is dropped, one whose check raises kept.   *)
Check(c) ==
    /\ pc = "next" /\ c \in pending
    /\ pending' = pending \ {c}
    /\ \/ /\ c \in works
          /\ owed' = owed \ {c}
          /\ UNCHANGED <<pc, current, kept>>
       \/ /\ c \notin works
          /\ pc' = "remove" /\ current' = c
          /\ UNCHANGED <<kept, owed>>
       \/ /\ kept' = kept \cup {c}
          /\ UNCHANGED <<pc, current, owed>>
    /\ UNCHANGED <<works, exports, codes, saved, skipped, interim, lost, restarts>>

Keep == /\ kept' = kept \cup {current}
        /\ pc' = "next"
(* Mutant: a removal that raises still takes the code off the queue.       *)
RemoveForgotten ==
    /\ pc = "remove"
    /\ pc' = "next"
    /\ UNCHANGED <<works, exports, codes, saved, pending, current, kept, skipped,
                   marks, restarts>>
(* The generated files go, or an error that is not swallowed keeps the     *)
(* code; a file that cannot be unlinked is passed over in silence.         *)
Remove ==
    /\ pc = "remove"
    /\ \/ /\ exports' = exports \ {current}
          /\ pc' = IF current \in exports THEN "notify" ELSE "next"
          /\ owed' = owed \ {current}
          /\ UNCHANGED <<kept, skipped>>
       \/ /\ Keep
          /\ UNCHANGED <<exports, skipped, owed>>
       \/ /\ current \in exports
          /\ skipped' = skipped \cup {current}
          /\ owed' = owed \ {current}
          /\ pc' \in {"next", "notify"}
          /\ UNCHANGED <<exports, kept>>
    /\ UNCHANGED <<works, codes, saved, pending, current, interim, lost, restarts>>

(* The notice of what was removed is queued for Emby, or raises.           *)
Notify ==
    /\ pc = "notify"
    /\ \/ pc' = "next" /\ UNCHANGED kept
       \/ Keep
    /\ UNCHANGED <<works, exports, codes, saved, pending, current, skipped, marks,
                   restarts>>

(* The queue becomes what was kept, whatever was marked meanwhile.         *)
DrainEnds ==
    /\ pc = "next" /\ pending = {}
    /\ codes' = kept /\ saved' = kept
    /\ pc' = "idle" /\ current' = NoCode /\ kept' = {}
    /\ owed' = owed \ (interim \ kept) /\ interim' = {}
    /\ lost' = lost \cup ((owed \cap interim) \ kept)
    /\ UNCHANGED <<works, exports, pending, skipped, restarts>>

(* Mutant: the queue is loaded from the codes the drain kept.              *)
RestartKept ==
    /\ restarts < MaxRestarts
    /\ restarts' = restarts + 1
    /\ codes' = kept /\ saved' = kept
    /\ pc' = "idle" /\ pending' = {} /\ current' = NoCode /\ kept' = {}
    /\ skipped' = {} /\ interim' = {}
    /\ UNCHANGED <<works, exports, owed, lost>>
Restart ==
    /\ restarts < MaxRestarts
    /\ restarts' = restarts + 1
    /\ codes' = saved
    /\ pc' = "idle" /\ pending' = {} /\ current' = NoCode /\ kept' = {}
    /\ skipped' = {} /\ interim' = {}
    /\ UNCHANGED <<works, exports, saved, owed, lost>>

-----------------------------------------------------------------------------
Init ==
    /\ works = Codes /\ exports = Codes
    /\ codes = {} /\ saved = {}
    /\ pc = "idle" /\ pending = {} /\ current = NoCode /\ kept = {}
    /\ skipped = {} /\ owed = {} /\ interim = {} /\ lost = {}
    /\ restarts = 0

Drain == DrainStarts \/ (\E c \in Codes : Check(c)) \/ Remove \/ Notify \/ DrainEnds
Next ==
    \/ \E c \in Codes : LoseWork(c) \/ GainWork(c) \/ Mark(c) \/ Export(c)
    \/ Drain
    \/ Restart
Spec == Init /\ [][Next]_vars

(* The maintenance loop runs; a database check and a removal that are      *)
(* repeated for ever succeed at last.                                      *)
Fairness ==
    /\ WF_vars(Drain)
    /\ \A c \in Codes :
         /\ SF_vars(Check(c) /\ c \notin works /\ pc' = "remove")
         /\ SF_vars(Remove /\ current = c /\ c \notin exports')
FairSpec == Spec /\ Fairness

-----------------------------------------------------------------------------
TypeOK ==
    /\ works \subseteq Codes /\ exports \subseteq Codes
    /\ codes \subseteq Codes /\ saved \subseteq Codes
    /\ pc \in {"idle", "next", "remove", "notify"}
    /\ pending \subseteq Codes /\ kept \subseteq Codes
    /\ current \in Codes \cup {NoCode}
    /\ pc \in {"remove", "notify"} => current \in Codes \ pending
    /\ skipped \subseteq Codes /\ owed \subseteq Codes
    /\ interim \subseteq Codes /\ lost \subseteq Codes
    /\ restarts \in 0..MaxRestarts

(* What is owed for a marked code is that a drain deals with it: finds     *)
(* that it has a Work, removes its export or cannot unlink a file of it.   *)
(* Until then the state file holds the code, over failed checks, removals  *)
(* and notices, works that come and go and a restart; what is marked while *)
(* a drain runs may be discarded at its end (obsolete_exports.py:115).     *)
DQ == INSTANCE DurableQueue WITH
    Items <- Codes, queue <- saved, given <- lost
ImplementsQueue == DQ!Spec

(* A code leaves the queue only when a drain has dealt with it since it    *)
(* was marked last ("Removal/notify failures keep the code for the next    *)
(* drain attempt", obsolete_exports.py:77-79).                             *)
LeavesWhenClean == [][\A c \in codes \ codes' : c \notin owed]_vars

(* The export of a marked code is removed at last, unless the code is found *)
(* to have a Work, one of its files cannot be unlinked, or the code is      *)
(* marked again while a drain runs.                                         *)
ObsoleteRemoved ==
    \A c \in Codes :
        c \in owed \ interim ~>
            c \notin exports \/ c \in works \/ c \in skipped \/ c \in interim
=============================================================================
