------------------------- MODULE LibraryScan_proofs -------------------------
(***************************************************************************)
(* For any number of tasks, files, failures and restarts, with cancels at  *)
(* any moment: one thread scans a library and scans no committed file      *)
(* again, a scan that reports success has seen every file, no obsolete     *)
(* code is lost and an answered cancel stops the loop, except where a      *)
(* cancel and the task's own thread write over each other.                 *)
(*                                                                         *)
(* IInv is the invariant of the threads; CodesFine, Complete and Stopping  *)
(* are inductive relative to it, one for each of the other results.        *)
(***************************************************************************)
EXTENDS LibraryScan, TLAPS, WellFoundedInduction

(* The thread of an unfinished task knows the items it has loaded, and has *)
(* neither the file at hand nor one it is yet to come to among the others. *)
Fine(t) ==
    /\ w[t].pc = "off" => w[t] = Off
    /\ w[t].pc # "off" => Active(t)
    /\ w[t].pc = "loaded" => items[t] \subseteq w[t].done
    /\ items[t] \cap w[t].todo \subseteq w[t].done
    /\ w[t].pc = "file" => w[t].current \in Files \ (items[t] \cup w[t].todo)
    /\ w[t].pc # "file" => w[t].current = NoFile
ThreadsFine == \A t \in Tasks : Fine(t)

(* The check of a new task and its insertion are one transaction.          *)
OneActive == \A t, u \in Tasks : Active(t) /\ Active(u) => t = u

(* A request only cancels a task that exists.                              *)
CancelExists == cancel # NoCancel => cancel.task \in Tasks /\ Exists(cancel.task)

IInv == TypeOK /\ ThreadsFine /\ OneActive /\ CancelExists

RowsOK == task \in [Tasks -> Row] /\ checkpoint \in [Tasks -> {"none", "queued"} \cup Final]
StoreOK == items \in [Tasks -> SUBSET Files] /\ codes \in [Tasks -> SUBSET Files]
ThreadsOK == w \in [Tasks -> Worker]
RequestOK == cancel \in [task : Tasks \cup {0}, status : Statuses]
RestOK ==
    /\ marked \subseteq Files /\ fresh \subseteq Files /\ found \subseteq Files
    /\ accepted \subseteq Tasks /\ unheard \subseteq Tasks
    /\ view \in [Tasks -> [Files -> {"unseen", "seen", "changed"}]]
    /\ changes \in 0..MaxChanges /\ failures \in 0..MaxFailures
    /\ crashes \in 0..MaxCrashes

LEMMA Parts == TypeOK <=> RowsOK /\ StoreOK /\ ThreadsOK /\ RequestOK /\ RestOK
  BY DEF TypeOK, RowsOK, StoreOK, ThreadsOK, RequestOK, RestOK

LEMMA PartsNext ==
    ASSUME RowsOK', StoreOK', ThreadsOK', RequestOK', RestOK',
           ThreadsFine', OneActive', CancelExists'
    PROVE  IInv'
<1>1. TypeOK'
  BY DEF TypeOK, RowsOK, StoreOK, ThreadsOK, RequestOK, RestOK
<1> QED
  BY <1>1 DEF IInv

-----------------------------------------------------------------------------
LEMMA NewestUnused == Unused # {} => Newest \in Unused
<1> SUFFICES ASSUME Unused # {} PROVE Newest \in Unused
  OBVIOUS
<1>1. Unused \subseteq Nat
  BY ConstantsAssumption DEF Unused, Tasks
<1>2. PICK t \in Unused : \A u \in Unused : <<u, t>> \notin OpToRel(<, Nat)
  BY <1>1, NatLessThanWellFounded, WFMin
<1>3. \A u \in Unused : ~(u < t)
  BY <1>1, <1>2 DEF OpToRel
<1>4. \A u \in Unused : t <= u
  BY <1>1, <1>3
<1> QED
  BY <1>4 DEF Newest

LEMMA OffFits == Off \in Worker
  BY DEF Off, Worker, NoTask, Row, Statuses, Final

LEMMA QueuedFits == Queued \in Row /\ Queued.status # "none" /\ ~Queued.finished
  BY DEF Queued, Row, Statuses, Final

(* Progress changes neither which tasks are unfinished nor the types.      *)
LEMMA ProgressFits ==
    ASSUME TypeOK, NEW t \in Tasks, Active(t), task' = Progress(t)
    PROVE  /\ task' \in [Tasks -> Row]
           /\ \A u \in Tasks : Active(u)' = Active(u) /\ Exists(u)' = Exists(u)
<1>1. /\ w[t].copy \in Row /\ task \in [Tasks -> Row]
  BY DEF TypeOK, Worker
<1>2. /\ w[t].copy.asked \in BOOLEAN
  BY <1>1 DEF Row
<1>3. PICK s \in Statuses : /\ s # "none"
                            /\ task' = [task EXCEPT ![t].asked = w[t].copy.asked,
                                                    ![t].status = s]
  <2>1. task[t].status \in Statuses /\ task[t].status # "none"
    BY <1>1 DEF Row, Active, Exists
  <2>2. CASE w[t].copy.status = "queued"
    BY <1>1, <2>2 DEF Progress, Statuses, Row
  <2>3. CASE w[t].copy.status # "queued"
    BY <1>1, <2>1, <2>3 DEF Progress, Row
  <2> QED
    BY <2>2, <2>3
<1>4. task' \in [Tasks -> Row]
  <2> DEFINE r == [task[t] EXCEPT !.asked = w[t].copy.asked, !.status = s]
  <2>1. r \in Row
    BY <1>1, <1>2 DEF Row
  <2>2. task' = [task EXCEPT ![t] = r]
    BY <1>1, <1>3
  <2> QED
    BY <1>1, <2>1, <2>2
<1>5. \A u \in Tasks : u # t => task'[u] = task[u]
  BY <1>1, <1>3
<1>6. task'[t].finished = task[t].finished /\ task'[t].status # "none"
  BY <1>1, <1>3 DEF Row
<1> QED
  BY <1>4, <1>5, <1>6 DEF Active, Exists

-----------------------------------------------------------------------------
(* Rows, items and requests may change without any thread moving.          *)
LEMMA Admitted ==
    ASSUME TypeOK, ThreadsFine, OneActive, CancelExists, Admit,
           task' = [task EXCEPT ![Newest] = Queued],
           items' \in [Tasks -> SUBSET Files],
           \A t \in Tasks \ {Newest} : items'[t] = items[t],
           UNCHANGED <<w, cancel>>
    PROVE  /\ task' \in [Tasks -> Row]
           /\ ThreadsFine' /\ OneActive' /\ CancelExists'
<1>1. Newest \in Tasks /\ ~Exists(Newest) /\ \A t \in Tasks : ~Active(t)
  BY NewestUnused DEF Admit, Unused
<1>2. task \in [Tasks -> Row]
  BY DEF TypeOK
<1>3. task' \in [Tasks -> Row]
  BY <1>2, QueuedFits
<1>4. /\ task'[Newest] = Queued
      /\ \A t \in Tasks : t # Newest => task'[t] = task[t]
  BY <1>1, <1>2
<1>5. \A t \in Tasks : Exists(t) => Exists(t)'
  BY <1>4, QueuedFits DEF Exists
<1>6. \A t \in Tasks : Active(t)' => t = Newest
  BY <1>1, <1>4 DEF Active, Exists
<1>7. \A t \in Tasks : w[t] = Off
  BY <1>1 DEF ThreadsFine, Fine
<1>8. ThreadsFine'
  <2> SUFFICES ASSUME NEW t \in Tasks PROVE Fine(t)'
    BY DEF ThreadsFine
  <2>1. w'[t] = Off
    BY <1>7
  <2>2. CASE t = Newest
    BY <2>1, <2>2, ConstantsAssumption DEF Fine, Off
  <2>3. CASE t # Newest
    BY <2>1, <2>3, <1>7 DEF Fine, Off, ThreadsFine
  <2> QED
    BY <2>2, <2>3
<1> QED
  BY <1>3, <1>5, <1>6, <1>8 DEF OneActive, CancelExists

(* One thread of an unfinished task moves on.                              *)
LEMMA ThreadMoved ==
    ASSUME TypeOK, ThreadsFine, NEW t \in Tasks, NEW k \in Worker,
           w' = [w EXCEPT ![t] = k],
           \A u \in Tasks : Active(u)' = Active(u),
           \A u \in Tasks \ {t} : items'[u] = items[u],
           k.pc # "off", Active(t),
           k.pc = "loaded" => items'[t] \subseteq k.done,
           items'[t] \cap k.todo \subseteq k.done,
           k.pc = "file" => k.current \in Files \ (items'[t] \cup k.todo),
           k.pc # "file" => k.current = NoFile
    PROVE  ThreadsOK' /\ ThreadsFine'
<1>1. ThreadsOK' /\ w'[t] = k /\ \A u \in Tasks : u # t => w'[u] = w[u]
  BY DEF TypeOK, ThreadsOK
<1>2. ASSUME NEW u \in Tasks
      PROVE  Fine(u)'
  <2>1. CASE u = t
    BY <1>1, <2>1 DEF Fine
  <2>2. CASE u # t
    BY <1>1, <2>2 DEF ThreadsFine, Fine
  <2> QED
    BY <2>1, <2>2
<1> QED
  BY <1>1, <1>2 DEF ThreadsFine

LEMMA TasksKept ==
    ASSUME OneActive, CancelExists, UNCHANGED cancel,
           \A u \in Tasks : Active(u)' = Active(u) /\ Exists(u)' = Exists(u)
    PROVE  OneActive' /\ CancelExists'
  BY DEF OneActive, CancelExists

LEMMA SameTasks ==
    ASSUME UNCHANGED task
    PROVE  \A u \in Tasks : Active(u)' = Active(u) /\ Exists(u)' = Exists(u)
  BY DEF Active, Exists

-----------------------------------------------------------------------------
LEMMA RequestsKeep ==
    ASSUME IInv, QueueScan \/ \E t \in Tasks : Retry(t)
    PROVE  IInv'
<1> USE DEF IInv
<1>1. CASE QueueScan
  <2>1. /\ Admit /\ task' = [task EXCEPT ![Newest] = Queued]
        /\ checkpoint' = [checkpoint EXCEPT ![Newest] = "queued"]
        /\ UNCHANGED <<items, codes, w, cancel, marked, fresh, history, bounds>>
    BY <1>1 DEF QueueScan
  <2>2. RowsOK' /\ ThreadsFine' /\ OneActive' /\ CancelExists'
    BY <2>1, Admitted, Parts DEF RowsOK, StoreOK
  <2>3. StoreOK' /\ ThreadsOK' /\ RequestOK' /\ RestOK'
    BY <2>1, Parts
    DEF StoreOK, ThreadsOK, RequestOK, RestOK, history, bounds
  <2> QED
    BY <2>2, <2>3, PartsNext
<1>2. ASSUME NEW t \in Tasks, Retry(t)
      PROVE  IInv'
  <2>1. /\ Admit /\ task' = [task EXCEPT ![Newest] = Queued]
        /\ checkpoint' = [checkpoint EXCEPT ![Newest] = "queued"]
        /\ items' = [items EXCEPT ![Newest] = items[t]]
        /\ codes' = [codes EXCEPT ![Newest] = codes[t]]
        /\ view' = [view EXCEPT ![Newest] =
             [f \in Files |-> IF f \in items[t] THEN view[t][f] ELSE "unseen"]]
        /\ UNCHANGED <<w, cancel, marked, fresh, found, accepted, unheard, bounds>>
    BY <1>2 DEF Retry, Inherit
  <2>2. StoreOK' /\ \A u \in Tasks \ {Newest} : items'[u] = items[u]
    BY <2>1, Parts DEF StoreOK
  <2>3. RowsOK' /\ ThreadsFine' /\ OneActive' /\ CancelExists'
    BY <2>1, <2>2, Admitted, Parts DEF RowsOK, StoreOK
  <2>4. view' \in [Tasks -> [Files -> {"unseen", "seen", "changed"}]]
    <3> DEFINE v == [f \in Files |-> IF f \in items[t] THEN view[t][f] ELSE "unseen"]
    <3>1. v \in [Files -> {"unseen", "seen", "changed"}]
      BY Parts DEF RestOK
    <3> QED
      BY <2>1, <3>1, Parts DEF RestOK
  <2>5. ThreadsOK' /\ RequestOK' /\ RestOK'
    BY <2>1, <2>4, Parts DEF ThreadsOK, RequestOK, RestOK, bounds
  <2> QED
    BY <2>2, <2>3, <2>5, PartsNext
<1> QED
  BY <1>1, <1>2

LEMMA CancelsKeep ==
    ASSUME IInv, CancelWrite \/ \E t \in Tasks : CancelRead(t)
    PROVE  IInv'
<1> USE DEF IInv
<1>1. ASSUME NEW t \in Tasks, CancelRead(t)
      PROVE  IInv'
  <2>1. /\ cancel' = [task |-> t, status |-> task[t].status] /\ Active(t)
        /\ UNCHANGED <<db, w, marked, fresh, history, bounds>>
    BY <1>1 DEF CancelRead
  <2>2. RequestOK' /\ CancelExists'
    BY <2>1, Parts DEF RowsOK, Row, RequestOK, CancelExists, Active, Exists, db
  <2>3. RowsOK' /\ StoreOK' /\ ThreadsOK' /\ RestOK'
    BY <2>1, Parts DEF RowsOK, StoreOK, ThreadsOK, RestOK, db, history, bounds
  <2>4. ThreadsFine' /\ OneActive'
    BY <2>1 DEF db, ThreadsFine, Fine, OneActive, Active, Exists
  <2> QED
    BY <2>2, <2>3, <2>4, PartsNext
<1>2. CASE CancelWrite
  <2> DEFINE t == cancel.task
             s == IF cancel.status = "cancel_requested" THEN task[t].status
                  ELSE "cancel_requested"
             r == [task[t] EXCEPT !.asked = TRUE, !.status = s]
  <2>1. t \in Tasks /\ Exists(t)
    BY <1>2 DEF CancelWrite, CancelExists
  <2>2. /\ task' = [task EXCEPT ![t].asked = TRUE, ![t].status = s]
        /\ accepted' \subseteq accepted \cup {t} /\ unheard' \subseteq unheard
        /\ cancel' = NoCancel
        /\ UNCHANGED <<checkpoint, items, codes, w, marked, fresh, found, view, bounds>>
    BY <1>2, <2>1 DEF CancelWrite
  <2>3. task \in [Tasks -> Row] /\ task[t] \in Row
    BY <2>1, Parts DEF RowsOK
  <2>4. /\ r \in Row /\ r.finished = task[t].finished /\ r.status # "none"
    BY <2>1, <2>3 DEF Row, Exists, Statuses
  <2>5. task' = [task EXCEPT ![t] = r]
    BY <2>1, <2>2, <2>3
  <2>6. /\ task' \in [Tasks -> Row]
        /\ task'[t] = r /\ \A u \in Tasks : u # t => task'[u] = task[u]
    BY <2>1, <2>3, <2>4, <2>5
  <2>7. \A u \in Tasks : Active(u)' = Active(u) /\ Exists(u)' = Exists(u)
    BY <2>1, <2>4, <2>6 DEF Active, Exists
  <2>8. RowsOK' /\ StoreOK' /\ ThreadsOK' /\ RequestOK' /\ RestOK'
    BY <2>1, <2>2, <2>6, Parts
    DEF RowsOK, StoreOK, ThreadsOK, RequestOK, RestOK, bounds, NoCancel, Statuses
  <2>9. ThreadsFine' /\ OneActive' /\ CancelExists'
    BY <2>2, <2>7 DEF ThreadsFine, Fine, OneActive, CancelExists
  <2> QED
    BY <2>8, <2>9, PartsNext
<1> QED
  BY <1>1, <1>2

-----------------------------------------------------------------------------
(* A move of the thread of t that leaves the task rows alone.              *)
LEMMA MoveKeeps ==
    ASSUME IInv, NEW t \in Tasks, NEW k \in Worker,
           w' = [w EXCEPT ![t] = k],
           UNCHANGED <<task, checkpoint, cancel>>,
           StoreOK', RestOK',
           \A u \in Tasks \ {t} : items'[u] = items[u],
           k.pc # "off", Active(t),
           k.pc = "loaded" => items'[t] \subseteq k.done,
           items'[t] \cap k.todo \subseteq k.done,
           k.pc = "file" => k.current \in Files \ (items'[t] \cup k.todo),
           k.pc # "file" => k.current = NoFile
    PROVE  IInv'
<1>1. RowsOK' /\ RequestOK'
  BY Parts DEF IInv, RowsOK, RequestOK
<1>2. OneActive' /\ CancelExists' /\ \A u \in Tasks : Active(u)' = Active(u)
  BY SameTasks, TasksKept DEF IInv
<1>3. ThreadsOK' /\ ThreadsFine'
  BY <1>2, ThreadMoved DEF IInv
<1> QED
  BY <1>1, <1>2, <1>3, PartsNext

LEMMA RunningFine ==
    ASSUME IInv, NEW t \in Tasks
    PROVE  w[t] \in Worker /\ Fine(t) /\ task[t] \in Row
           /\ items[t] \subseteq Files /\ codes[t] \subseteq Files
  BY DEF IInv, TypeOK, ThreadsFine

(* What the history says of a file, and what is handed to the clean-up.    *)
LEMMA SeeFits ==
    ASSUME IInv, NEW t \in Tasks, NEW f \in Files, See(t, f),
           UNCHANGED <<db, cancel, marked, fresh, found, accepted, unheard, bounds>>
    PROVE  StoreOK' /\ RestOK'
<1>1. view' \in [Tasks -> [Files -> {"unseen", "seen", "changed"}]]
  BY DEF IInv, TypeOK, See
<1> QED
  BY <1>1, Parts DEF IInv, db, bounds, StoreOK, RestOK

LEMMA QuietFits ==
    ASSUME IInv, UNCHANGED <<db, marked, fresh, history, bounds>>
    PROVE  StoreOK' /\ RestOK'
  BY Parts DEF IInv, StoreOK, RestOK, db, history, bounds

LEMMA LoadKeeps ==
    ASSUME IInv, NEW t \in Tasks, Load(t)
    PROVE  IInv'
<1> DEFINE k == [Off EXCEPT !.pc = "loaded", !.copy = task[t],
                            !.done = items[t], !.codes = codes[t]]
<1>1. /\ w' = [w EXCEPT ![t] = k] /\ Active(t)
      /\ UNCHANGED <<db, cancel, marked, fresh, history, bounds>>
  BY DEF Load, Recoverable
<1>2. /\ k \in Worker
      /\ k.pc = "loaded" /\ k.done = items[t] /\ k.todo = {} /\ k.current = NoFile
  BY RunningFine DEF Worker, Off
<1>3. StoreOK' /\ RestOK' /\ UNCHANGED <<task, checkpoint, cancel, items>>
  BY <1>1, QuietFits DEF db
<1> HIDE DEF k
<1> QED
  BY <1>1, <1>2, <1>3, MoveKeeps

LEMMA DiscoverKeeps ==
    ASSUME IInv, NEW t \in Tasks, Discover(t)
    PROVE  IInv'
<1>1. PICK listed \in SUBSET Files :
        w' = [w EXCEPT ![t].pc = "scanning", ![t].todo = listed,
                       ![t].errors = (listed # Files),
                       ![t].copy.status = IF @ = "queued" THEN "running" ELSE @]
  BY DEF Discover
<1> DEFINE s == IF w[t].copy.status = "queued" THEN "running" ELSE w[t].copy.status
           c == [w[t].copy EXCEPT !.status = s]
           e == (listed # Files)
           k == [w[t] EXCEPT !.pc = "scanning", !.todo = listed, !.errors = e, !.copy = c]
<1>2. /\ w[t].pc = "loaded" /\ task' = Progress(t)
      /\ UNCHANGED <<checkpoint, items, codes, cancel, marked, fresh, found, accepted, view,
                     bounds>>
      /\ unheard' \subseteq unheard \cup accepted
  BY DEF Discover
<1>3. /\ w[t] \in Worker /\ Active(t) /\ items[t] \subseteq w[t].done
      /\ w[t].current = NoFile
  BY <1>2, RunningFine DEF Fine
<1>4. c \in Row
  BY <1>3 DEF Worker, Row, Statuses
<1>5. e \in BOOLEAN
  OBVIOUS
<1>6. k \in Worker
  BY <1>3, <1>4, <1>5 DEF Worker
<1>7. w' = [w EXCEPT ![t] = k]
  BY <1>1, <1>3 DEF IInv, TypeOK, Worker
<1>8. /\ k.pc = "scanning" /\ k.todo = listed /\ k.done = w[t].done
      /\ k.current = w[t].current
  BY <1>3 DEF Worker
<1> HIDE DEF k
<1>9. RowsOK' /\ \A u \in Tasks : Active(u)' = Active(u) /\ Exists(u)' = Exists(u)
  BY <1>2, <1>3, ProgressFits, Parts DEF IInv, RowsOK
<1>10. ThreadsOK' /\ ThreadsFine'
  BY <1>2, <1>3, <1>6, <1>7, <1>8, <1>9, RunningFine, ThreadMoved DEF IInv
<1>11. OneActive' /\ CancelExists'
  BY <1>2, <1>9, TasksKept DEF IInv
<1>12. StoreOK' /\ RequestOK' /\ RestOK'
  BY <1>2, Parts DEF IInv, StoreOK, RequestOK, RestOK, bounds
<1> QED
  BY <1>9, <1>10, <1>11, <1>12, PartsNext

LEMMA ReportKeeps ==
    ASSUME IInv, NEW t \in Tasks, ReportProgress(t)
    PROVE  IInv'
<1>1. /\ w[t].pc = "picked" /\ task' = Progress(t)
      /\ UNCHANGED <<checkpoint, items, codes, w, cancel, marked, fresh, history, bounds>>
  BY DEF ReportProgress
<1>2. Active(t)
  BY <1>1, RunningFine DEF Fine
<1>3. RowsOK' /\ \A u \in Tasks : Active(u)' = Active(u) /\ Exists(u)' = Exists(u)
  BY <1>1, <1>2, ProgressFits, Parts DEF IInv, RowsOK
<1>4. OneActive' /\ CancelExists' /\ ThreadsFine'
  BY <1>1, <1>3, TasksKept DEF IInv, ThreadsFine, Fine
<1>5. StoreOK' /\ ThreadsOK' /\ RequestOK' /\ RestOK'
  BY <1>1, Parts DEF IInv, StoreOK, ThreadsOK, RequestOK, RestOK, history, bounds
<1> QED
  BY <1>3, <1>4, <1>5, PartsNext

(* The steps of a thread that commit nothing.                              *)
LEMMA QuietStepsKeep ==
    ASSUME IInv, NEW t \in Tasks, CheckCancel(t) \/ Decide(t) \/ FileFails(t)
    PROVE  IInv'
<1>1. /\ w[t].pc \notin {"off", "loaded"}
      /\ UNCHANGED <<db, cancel, marked, fresh, history, bounds>>
  BY DEF CheckCancel, Decide, FileFails
<1>2. /\ StoreOK' /\ RestOK' /\ UNCHANGED <<task, checkpoint, cancel, items>>
      /\ w[t] \in Worker /\ Fine(t) /\ Active(t)
  BY <1>1, QuietFits, RunningFine DEF db, Fine
<1>3. ASSUME NEW k \in Worker, w' = [w EXCEPT ![t] = k],
             k.pc \notin {"off", "loaded", "file"},
             k.current = NoFile, k.done = w[t].done, k.todo = w[t].todo
      PROVE  IInv'
  BY <1>1, <1>2, <1>3, MoveKeeps DEF Fine
<1>4. CASE CheckCancel(t)
  <2> DEFINE p == IF w[t].todo = {} \/ CancelRequested(t) THEN "marking" ELSE "picked"
             k == [w[t] EXCEPT !.pc = p]
  <2>1. w' = [w EXCEPT ![t] = k]
    BY <1>2, <1>4 DEF CheckCancel, IInv, TypeOK
  <2>2. k \in Worker /\ p \in {"marking", "picked"}
    BY <1>2 DEF Worker
  <2> QED
    BY <1>2, <1>3, <1>4, <2>1, <2>2 DEF Fine, CheckCancel, Worker
<1>5. CASE Decide(t)
  <2> DEFINE b == CancelRequested(t)
             k == [w[t] EXCEPT !.pc = "finishing", !.cancelled = b]
  <2>1. w' = [w EXCEPT ![t] = k]
    BY <1>2, <1>5 DEF Decide, IInv, TypeOK
  <2>2. b \in BOOLEAN
    BY RunningFine DEF CancelRequested, Row
  <2>3. k \in Worker
    BY <1>2, <2>2 DEF Worker
  <2> QED
    BY <1>2, <1>3, <1>5, <2>1, <2>3 DEF Fine, Decide, Worker
<1>6. CASE FileFails(t)
  <2> DEFINE k == [w[t] EXCEPT !.pc = "scanning", !.current = NoFile, !.errors = TRUE]
  <2>1. w' = [w EXCEPT ![t] = k]
    BY <1>2, <1>6 DEF FileFails, IInv, TypeOK
  <2>2. k \in Worker
    BY <1>2 DEF Worker
  <2> QED
    BY <1>2, <1>3, <2>1, <2>2 DEF Worker
<1> QED
  BY <1>4, <1>5, <1>6

LEMMA MarkKeeps ==
    ASSUME IInv, NEW t \in Tasks, MarkCodes(t)
    PROVE  IInv'
<1> DEFINE k == [w[t] EXCEPT !.pc = "deciding"]
<1>1. /\ w[t].pc = "marking" /\ marked' = marked \cup w[t].codes
      /\ w' = [w EXCEPT ![t].pc = "deciding"]
      /\ UNCHANGED <<db, cancel, fresh, history, bounds>>
  BY DEF MarkCodes
<1>2. w[t] \in Worker /\ Fine(t) /\ Active(t)
  BY <1>1, RunningFine DEF Fine
<1>3. w[t].codes \subseteq Files
  BY <1>2 DEF Worker
<1>4. StoreOK' /\ RestOK' /\ UNCHANGED <<task, checkpoint, cancel, items>>
  BY <1>1, <1>3, Parts DEF IInv, StoreOK, RestOK, db, history, bounds
<1>5. k \in Worker /\ w' = [w EXCEPT ![t] = k]
  BY <1>1, <1>2 DEF IInv, TypeOK, Worker
<1>6. k.pc = "deciding" /\ k.current = NoFile /\ k.done = w[t].done /\ k.todo = w[t].todo
  BY <1>1, <1>2 DEF Worker, Fine
<1> HIDE DEF k
<1> QED
  BY <1>2, <1>4, <1>5, <1>6, MoveKeeps DEF Fine

LEMMA TurnsKeep ==
    ASSUME IInv, NEW t \in Tasks, NEW f \in Files, SkipFile(t, f) \/ StartFile(t, f)
    PROVE  IInv'
<1>1. /\ w[t].pc = "picked" /\ f \in w[t].todo /\ See(t, f)
      /\ UNCHANGED <<db, cancel, marked, fresh, found, accepted, unheard, bounds>>
  BY DEF SkipFile, StartFile
<1>2. w[t] \in Worker /\ Fine(t) /\ Active(t)
  BY <1>1, RunningFine DEF Fine
<1>3. StoreOK' /\ RestOK' /\ UNCHANGED <<task, checkpoint, cancel, items>>
  BY <1>1, SeeFits DEF db
<1>4. CASE SkipFile(t, f)
  <2> DEFINE k == [w[t] EXCEPT !.pc = "scanning", !.todo = w[t].todo \ {f}]
  <2>1. k \in Worker /\ w' = [w EXCEPT ![t] = k]
    BY <1>2, <1>4 DEF SkipFile, IInv, TypeOK, Worker
  <2>2. /\ k.pc = "scanning" /\ k.current = NoFile /\ k.done = w[t].done
        /\ k.todo = w[t].todo \ {f}
    BY <1>1, <1>2 DEF Worker, Fine
  <2> HIDE DEF k
  <2> QED
    BY <1>2, <1>3, <2>1, <2>2, MoveKeeps DEF Fine
<1>5. CASE StartFile(t, f)
  <2> DEFINE k == [w[t] EXCEPT !.pc = "file", !.todo = w[t].todo \ {f}, !.current = f]
  <2>1. k \in Worker /\ w' = [w EXCEPT ![t] = k]
    BY <1>2, <1>5 DEF StartFile, IInv, TypeOK, Worker
  <2>2. /\ k.pc = "file" /\ k.current = f /\ k.done = w[t].done
        /\ k.todo = w[t].todo \ {f}
    BY <1>1, <1>2 DEF Worker
  <2>3. f \notin items[t]
    BY <1>1, <1>2, <1>5 DEF StartFile, Skipped, Fine
  <2> HIDE DEF k
  <2> QED
    BY <1>2, <1>3, <2>1, <2>2, <2>3, MoveKeeps DEF Fine
<1> QED
  BY <1>4, <1>5

LEMMA ScannedKeeps ==
    ASSUME IInv, NEW t \in Tasks, FileScanned(t)
    PROVE  IInv'
<1> DEFINE f == w[t].current
<1>1. PICK obsolete \in SUBSET {f} :
        /\ codes' = [codes EXCEPT ![t] = @ \cup obsolete]
        /\ found' = found \cup obsolete
        /\ w' = [w EXCEPT ![t].pc = "scanning", ![t].current = NoFile,
                          ![t].codes = @ \cup obsolete]
  BY DEF FileScanned
<1> DEFINE k == [w[t] EXCEPT !.pc = "scanning", !.current = NoFile,
                             !.codes = w[t].codes \cup obsolete]
<1>2. /\ w[t].pc = "file" /\ items' = [items EXCEPT ![t] = @ \cup {f}]
      /\ fresh' = IF view[t][f] = "changed" THEN fresh ELSE fresh \cup {f}
      /\ UNCHANGED <<task, checkpoint, cancel, marked, accepted, unheard, view, bounds>>
  BY DEF FileScanned
<1>3. w[t] \in Worker /\ Fine(t) /\ Active(t)
  BY <1>2, RunningFine DEF Fine
<1>4. f \in Files /\ f \notin w[t].todo /\ obsolete \subseteq Files
  BY <1>2, <1>3 DEF Fine
<1>5. k \in Worker
  BY <1>3, <1>4 DEF Worker
<1>6. w' = [w EXCEPT ![t] = k]
  BY <1>1, <1>3 DEF IInv, TypeOK, Worker
<1>7. k.pc = "scanning" /\ k.current = NoFile /\ k.done = w[t].done /\ k.todo = w[t].todo
  BY <1>3 DEF Worker
<1>8. /\ items' \in [Tasks -> SUBSET Files] /\ items'[t] = items[t] \cup {f}
      /\ \A u \in Tasks : u # t => items'[u] = items[u]
  BY <1>2, <1>4 DEF IInv, TypeOK
<1>9. codes' \in [Tasks -> SUBSET Files]
  BY <1>1, <1>4 DEF IInv, TypeOK
<1>10. StoreOK' /\ RestOK'
  BY <1>1, <1>2, <1>4, <1>8, <1>9, Parts DEF IInv, StoreOK, RestOK, bounds
<1> HIDE DEF k, f
<1> QED
  BY <1>2, <1>3, <1>4, <1>5, <1>6, <1>7, <1>8, <1>10, MoveKeeps DEF Fine

-----------------------------------------------------------------------------
(* The end of a task: its thread is gone and it is unfinished no more.     *)
LEMMA Ended ==
    ASSUME IInv, NEW t \in Tasks, NEW s \in Final, NEW b \in BOOLEAN, Ends(t, s, b),
           Active(t), StoreOK', RestOK', UNCHANGED cancel,
           \A u \in Tasks \ {t} : items'[u] = items[u]
    PROVE  IInv'
<1> DEFINE r == [status |-> s, asked |-> b, finished |-> TRUE]
<1>1. r \in Row /\ r.status # "none" /\ r.finished
  BY DEF Row, Statuses, Final
<1>2. /\ task' = [task EXCEPT ![t] = r]
      /\ checkpoint' = [checkpoint EXCEPT ![t] = s]
      /\ w' = [w EXCEPT ![t] = Off]
  BY DEF Ends
<1> HIDE DEF r
<1>3. RowsOK' /\ ThreadsOK' /\ RequestOK'
  BY <1>1, <1>2, OffFits, Parts DEF IInv, RowsOK, ThreadsOK, RequestOK
<1>4. /\ task'[t] = r /\ \A u \in Tasks : u # t => task'[u] = task[u]
      /\ w'[t] = Off /\ \A u \in Tasks : u # t => w'[u] = w[u]
  BY <1>2 DEF IInv, TypeOK
<1>5. OneActive' /\ CancelExists'
  BY <1>1, <1>4 DEF IInv, OneActive, CancelExists, Active, Exists
<1>6. ASSUME NEW u \in Tasks
      PROVE  Fine(u)'
  <2>1. CASE u = t
    BY <1>4, <2>1 DEF Fine, Off
  <2>2. CASE u # t
    BY <1>4, <2>2, RunningFine DEF Fine, Active, Exists
  <2> QED
    BY <2>1, <2>2
<1> QED
  BY <1>3, <1>5, <1>6, PartsNext DEF ThreadsFine

LEMMA FinishKeeps ==
    ASSUME IInv, NEW t \in Tasks, Finish(t)
    PROVE  IInv'
<1> DEFINE kept(S) == IF Outcome(t) = "succeeded" THEN {} ELSE S
           b == w[t].copy.asked
<1>1. /\ w[t].pc = "finishing" /\ Ends(t, Outcome(t), b)
      /\ items' = [items EXCEPT ![t] = kept(@)]
      /\ codes' = [codes EXCEPT ![t] = kept(@)]
      /\ accepted' \subseteq accepted /\ unheard' \subseteq unheard
      /\ UNCHANGED <<cancel, marked, fresh, found, view, bounds>>
  BY DEF Finish, Ends
<1>2. Outcome(t) \in Final
  BY DEF Outcome, Final
<1>3. w[t] \in Worker /\ Active(t)
  BY <1>1, RunningFine DEF Fine
<1>4. b \in BOOLEAN
  BY <1>3 DEF Worker, Row
<1>5. StoreOK' /\ RestOK' /\ \A u \in Tasks \ {t} : items'[u] = items[u]
  BY <1>1, Parts DEF IInv, StoreOK, RestOK, bounds
<1> QED
  BY <1>1, <1>2, <1>3, <1>4, <1>5, Ended

LEMMA FailKeeps ==
    ASSUME IInv, NEW t \in Tasks, Fail(t)
    PROVE  IInv'
<1> DEFINE b == task[t].asked
<1>1. /\ w[t].pc # "off" /\ failures < MaxFailures /\ failures' = failures + 1
      /\ Ends(t, "failed", b)
      /\ accepted' \subseteq accepted /\ unheard' \subseteq unheard
      /\ UNCHANGED <<items, codes, cancel, marked, fresh, found, view, changes, crashes>>
  BY DEF Fail, Ends
<1>2. Active(t) /\ b \in BOOLEAN /\ "failed" \in Final
  BY <1>1, RunningFine DEF Fine, Row, Final
<1>3. StoreOK' /\ RestOK'
  BY <1>1, Parts, ConstantsAssumption DEF IInv, StoreOK, RestOK
<1> QED
  BY <1>1, <1>2, <1>3, Ended

LEMMA OutsideKeeps ==
    ASSUME IInv, Crash \/ \E f \in Files : FileChanges(f)
    PROVE  IInv'
<1>1. CASE Crash
  <2>1. /\ w' = [t \in Tasks |-> Off] /\ cancel' = NoCancel
        /\ crashes < MaxCrashes /\ crashes' = crashes + 1
        /\ UNCHANGED <<db, marked, fresh, history, changes, failures>>
    BY <1>1 DEF Crash
  <2>2. RowsOK' /\ StoreOK' /\ ThreadsOK' /\ RestOK'
    BY <2>1, OffFits, Parts, ConstantsAssumption
    DEF IInv, RowsOK, StoreOK, ThreadsOK, RestOK, db, history
  <2>3. RequestOK' /\ CancelExists'
    BY <2>1 DEF RequestOK, CancelExists, NoCancel, Statuses
  <2>4. ThreadsFine' /\ OneActive'
    BY <2>1 DEF IInv, ThreadsFine, Fine, Off, OneActive, Active, Exists, db
  <2> QED
    BY <2>2, <2>3, <2>4, PartsNext
<1>2. ASSUME NEW f \in Files, FileChanges(f)
      PROVE  IInv'
  <2>1. /\ changes < MaxChanges /\ changes' = changes + 1
        /\ fresh' = fresh \ {f}
        /\ UNCHANGED <<db, w, cancel, marked, found, accepted, unheard, failures, crashes>>
    BY <1>2 DEF FileChanges
  <2>2. view' \in [Tasks -> [Files -> {"unseen", "seen", "changed"}]]
    BY <1>2 DEF FileChanges, IInv, TypeOK
  <2>3. RestOK'
    BY <2>1, <2>2, Parts, ConstantsAssumption DEF IInv, RestOK
  <2>4. RowsOK' /\ StoreOK' /\ ThreadsOK' /\ RequestOK'
    BY <2>1, Parts DEF IInv, RowsOK, StoreOK, ThreadsOK, RequestOK, db
  <2>5. ThreadsFine' /\ OneActive' /\ CancelExists'
    BY <2>1, SameTasks, TasksKept DEF IInv, ThreadsFine, Fine, db
  <2> QED
    BY <2>3, <2>4, <2>5, PartsNext
<1> QED
  BY <1>1, <1>2

-----------------------------------------------------------------------------
LEMMA Initially == Init => IInv
<1> SUFFICES ASSUME Init PROVE IInv
  OBVIOUS
<1>1. NoTask \in Row
  BY DEF NoTask, Row, Statuses, Final
<1>2. RowsOK /\ StoreOK /\ ThreadsOK /\ RequestOK /\ RestOK
  BY <1>1, OffFits, ConstantsAssumption
  DEF Init, RowsOK, StoreOK, ThreadsOK, RequestOK, RestOK, NoCancel, Statuses
<1>3. ThreadsFine /\ OneActive /\ CancelExists
  BY DEF Init, ThreadsFine, Fine, Off, OneActive, Active, Exists, NoTask, CancelExists
<1> QED
  BY <1>2, <1>3, Parts DEF IInv

LEMMA Inductive == IInv /\ [Next]_vars => IInv'
<1> SUFFICES ASSUME IInv, [Next]_vars PROVE IInv'
  OBVIOUS
<1>1. ASSUME NEW t \in Tasks, Advance(t)
      PROVE  IInv'
  BY <1>1, LoadKeeps, DiscoverKeeps, TurnsKeep, ScannedKeeps, QuietStepsKeep, MarkKeeps,
     FinishKeeps
  DEF Advance, Scan
<1>2. CASE UNCHANGED vars
  <2>1. RowsOK' /\ StoreOK' /\ ThreadsOK' /\ RequestOK' /\ RestOK'
    BY <1>2, Parts
    DEF IInv, vars, db, history, bounds, RowsOK, StoreOK, ThreadsOK, RequestOK, RestOK
  <2>2. ThreadsFine' /\ OneActive' /\ CancelExists'
    BY <1>2, SameTasks, TasksKept DEF IInv, ThreadsFine, Fine, vars, db
  <2> QED
    BY <2>1, <2>2, PartsNext
<1> QED
  BY <1>1, <1>2, RequestsKeep, CancelsKeep, ReportKeeps, FailKeeps, OutsideKeeps DEF Next

(* The task rows, the threads and the requests keep their types, whatever  *)
(* fails, restarts or is cancelled.                                        *)
THEOREM TypeCorrect == Spec => []TypeOK
<1>1. IInv => TypeOK
  BY DEF IInv
<1> QED
  BY <1>1, Initially, Inductive, PTL DEF Spec

(* At most one thread scans the library, because a task with a thread is   *)
(* unfinished and a task is only admitted when all others are finished.    *)
THEOREM OneWorkerOnly == Spec => []OneWorker
<1>1. IInv => OneWorker
  BY DEF IInv, ThreadsFine, Fine, OneActive, OneWorker
<1> QED
  BY <1>1, Initially, Inductive, PTL DEF Spec

(* A thread never works on a file its task, or the one it continues, has   *)
(* committed: it has loaded those items, and adds the ones it commits.     *)
THEOREM NoFileTwice == Spec => []NothingScannedTwice
<1>1. IInv => NothingScannedTwice
  BY ConstantsAssumption DEF IInv, TypeOK, ThreadsFine, Fine, NothingScannedTwice
<1> QED
  BY <1>1, Initially, Inductive, PTL DEF Spec
-----------------------------------------------------------------------------
(* Codes: a thread knows the codes its task has committed and hands them   *)
(* on before it decides how the task ends.                                 *)

Open(t) == Active(t) \/ Retryable(t) \/ LeftCancelled(t)
ThreadKnows(t) ==
    /\ w[t].pc # "off" => codes[t] \subseteq w[t].codes
    /\ w[t].pc \in {"deciding", "finishing"} => codes[t] \subseteq marked
CodesFine == (\A t \in Tasks : ThreadKnows(t)) /\ CodesKept

LEMMA CodesStay ==
    ASSUME CodesKept, found' = found, marked \subseteq marked',
           \A t \in Tasks : Open(t) =>
               \/ codes[t] \subseteq marked'
               \/ codes[t] \subseteq codes'[t] /\ Open(t)'
    PROVE  CodesKept'
  BY DEF CodesKept, Open

LEMMA OthersUntouched ==
    ASSUME TypeOK, NEW t \in Tasks, task' = Progress(t)
    PROVE  \A u \in Tasks \ {t} : task'[u] = task[u]
  BY DEF TypeOK, Progress

(* Unfinished tasks stay so, finished ones are not touched.                *)
LEMMA StillOpen ==
    ASSUME NEW t \in Tasks, Active(t), Active(t)',
           \A u \in Tasks \ {t} : task'[u] = task[u]
    PROVE  \A u \in Tasks : Open(u) => Open(u)'
  BY DEF Open, Active, Exists, Retryable, LeftCancelled

(* A thread moves and the store of codes stays as it is.                   *)
LEMMA MoveKnows ==
    ASSUME IInv, CodesFine, NEW t \in Tasks, \A u \in Tasks \ {t} : w'[u] = w[u],
           codes[t] \subseteq w'[t].codes,
           w'[t].pc \in {"deciding", "finishing"} => codes[t] \subseteq marked',
           marked \subseteq marked', UNCHANGED <<codes, found>>,
           \A u \in Tasks : Open(u) => Open(u)'
    PROVE  CodesFine'
<1>1. CodesKept'
  BY CodesStay DEF CodesFine
<1>2. ASSUME NEW u \in Tasks
      PROVE  ThreadKnows(u)'
  <2>1. ThreadKnows(u)
    BY DEF CodesFine
  <2> QED
    BY <2>1 DEF ThreadKnows
<1> QED
  BY <1>1, <1>2 DEF CodesFine

(* An end takes the thread and leaves the task open or its codes marked.   *)
LEMMA EndKnows ==
    ASSUME IInv, CodesFine, NEW t \in Tasks, NEW s \in Final, NEW b, Ends(t, s, b),
           s # "succeeded" \/ codes[t] \subseteq marked,
           s # "succeeded" => codes'[t] = codes[t],
           \A u \in Tasks \ {t} : codes'[u] = codes[u],
           UNCHANGED <<found, marked>>
    PROVE  CodesFine'
<1>1. /\ task'[t] = [status |-> s, asked |-> b, finished |-> TRUE]
      /\ \A u \in Tasks \ {t} : task'[u] = task[u] /\ w'[u] = w[u]
      /\ w'[t] = Off
  BY DEF Ends, IInv, TypeOK
<1>2. CodesKept'
  <2>1. s # "succeeded" => Open(t)'
    BY <1>1 DEF Open, Retryable, Final
  <2>2. \A u \in Tasks \ {t} : Open(u) => Open(u)'
    BY <1>1 DEF Open, Active, Exists, Retryable, LeftCancelled
  <2> QED
    BY <2>1, <2>2, CodesStay DEF CodesFine
<1>3. ASSUME NEW u \in Tasks
      PROVE  ThreadKnows(u)'
  <2>1. CASE u = t
    BY <1>1, <2>1 DEF ThreadKnows, Off
  <2>2. CASE u # t
    BY <1>1, <2>2 DEF CodesFine, ThreadKnows
  <2> QED
    BY <2>1, <2>2
<1> QED
  BY <1>2, <1>3 DEF CodesFine

LEMMA AdmittedKnows ==
    ASSUME IInv, CodesFine, Admit, task' = [task EXCEPT ![Newest] = Queued],
           \A u \in Tasks \ {Newest} : codes'[u] = codes[u],
           UNCHANGED <<w, found, marked>>
    PROVE  CodesFine'
<1>1. /\ Newest \in Tasks /\ ~Open(Newest) /\ \A t \in Tasks : ~Active(t)
      /\ \A u \in Tasks \ {Newest} : task'[u] = task[u]
  BY NewestUnused
  DEF Admit, Unused, Open, Active, Exists, Retryable, LeftCancelled
<1>2. CodesKept'
  <2>1. \A u \in Tasks \ {Newest} : Open(u) => Open(u)'
    BY <1>1 DEF Open, Active, Exists, Retryable, LeftCancelled
  <2> QED
    BY <1>1, <2>1, CodesStay DEF CodesFine
<1>3. \A u \in Tasks : w'[u].pc = "off"
  BY <1>1 DEF IInv, ThreadsFine, Fine
<1> QED
  BY <1>2, <1>3 DEF CodesFine, ThreadKnows

LEMMA CodesInitially == Init => CodesFine
  BY DEF Init, Off, CodesFine, ThreadKnows, CodesKept

LEMMA CodesInductive ==
    ASSUME IInv, CodesFine, [Next]_vars
    PROVE  CodesFine'
<1>1. ASSUME UNCHANGED task
      PROVE  \A u \in Tasks : Open(u) => Open(u)'
  BY <1>1 DEF Open, Active, Exists, Retryable, LeftCancelled
<1>2. \A t \in Tasks : ThreadKnows(t) /\ w[t] \in Worker /\ Fine(t)
  BY DEF CodesFine, IInv, ThreadsFine, TypeOK
<1>3. CASE QueueScan \/ \E t \in Tasks : Retry(t)
  BY <1>3, AdmittedKnows DEF QueueScan, Retry, Inherit, IInv, TypeOK, history
<1>4. ASSUME NEW t \in Tasks, CancelRead(t)
      PROVE  CodesFine'
  BY <1>4 DEF CancelRead, CodesFine, ThreadKnows, CodesKept, Active, Exists, Retryable,
              LeftCancelled, db, history
<1>5. CASE CancelWrite
  <2>1. PICK t \in Tasks : t = cancel.task /\ Exists(t)
    BY <1>5 DEF CancelWrite, IInv, CancelExists
  <2>2. /\ \A u \in Tasks \ {t} : task'[u] = task[u]
        /\ task'[t].finished = task[t].finished
        /\ task'[t].status \in {task[t].status, "cancel_requested"}
        /\ UNCHANGED <<w, codes, marked, found>>
    BY <1>5, <2>1 DEF CancelWrite, IInv, TypeOK, Row
  <2>3. \A u \in Tasks : Open(u) => Open(u)'
    BY <2>1, <2>2 DEF Open, Active, Exists, Retryable, LeftCancelled
  <2>4. CodesKept'
    BY <2>2, <2>3, CodesStay DEF CodesFine
  <2> QED
    BY <2>2, <2>4 DEF CodesFine, ThreadKnows
<1>6. ASSUME NEW t \in Tasks, Load(t)
      PROVE  CodesFine'
  <2> DEFINE k == [Off EXCEPT !.pc = "loaded", !.copy = task[t],
                              !.done = items[t], !.codes = codes[t]]
  <2>1. /\ w' = [w EXCEPT ![t] = k] /\ k.pc = "loaded" /\ k.codes = codes[t]
        /\ UNCHANGED <<task, codes, marked, found>>
    BY <1>6 DEF Load, Off, db, history
  <2> HIDE DEF k
  <2>2. w'[t] = k /\ \A u \in Tasks \ {t} : w'[u] = w[u]
    BY <2>1 DEF IInv, TypeOK
  <2> QED
    BY <1>1, <2>1, <2>2, MoveKnows
<1>7. ASSUME NEW t \in Tasks, Discover(t) \/ ReportProgress(t)
      PROVE  CodesFine'
  <2>1. /\ w[t].pc \in {"loaded", "picked"} /\ task' = Progress(t)
        /\ UNCHANGED <<codes, marked, found>>
    BY <1>7 DEF Discover, ReportProgress, history
  <2>2. Active(t) /\ w[t].pc # "off"
    BY <1>2, <2>1 DEF Fine
  <2>3. \A u \in Tasks : Open(u) => Open(u)'
    BY <2>1, <2>2, ProgressFits, OthersUntouched, StillOpen DEF IInv
  <2>4. ASSUME NEW k, w'[t] = k, k.codes = w[t].codes,
               k.pc \in {"scanning", "picked"},
               \A u \in Tasks \ {t} : w'[u] = w[u]
        PROVE  CodesFine'
    BY <1>2, <2>1, <2>2, <2>3, <2>4, MoveKnows DEF ThreadKnows
  <2>5. CASE Discover(t)
    <3>1. PICK listed \in SUBSET Files :
            w' = [w EXCEPT ![t].pc = "scanning", ![t].todo = listed,
                           ![t].errors = (listed # Files),
                           ![t].copy.status = IF @ = "queued" THEN "running" ELSE @]
      BY <2>5 DEF Discover
    <3> DEFINE st == IF w[t].copy.status = "queued" THEN "running" ELSE w[t].copy.status
               c == [w[t].copy EXCEPT !.status = st]
               e == (listed # Files)
               k == [w[t] EXCEPT !.pc = "scanning", !.todo = listed, !.errors = e,
                                 !.copy = c]
    <3>2. w[t] \in Worker /\ w \in [Tasks -> Worker]
      BY DEF IInv, TypeOK
    <3>3. w' = [w EXCEPT ![t] = k]
      BY <3>1, <3>2 DEF Worker
    <3>4. k.codes = w[t].codes /\ k.pc = "scanning"
      BY <3>2 DEF Worker
    <3> HIDE DEF k
    <3> QED
      BY <2>4, <3>2, <3>3, <3>4
  <2>6. CASE ReportProgress(t)
    BY <2>4, <2>6 DEF ReportProgress
  <2> QED
    BY <1>7, <2>5, <2>6
<1>8. ASSUME NEW t \in Tasks,
             CheckCancel(t) \/ Decide(t) \/ FileFails(t)
             \/ \E f \in Files : SkipFile(t, f) \/ StartFile(t, f)
      PROVE  CodesFine'
  <2>1. /\ w[t].pc # "off" /\ w[t].pc # "finishing"
        /\ UNCHANGED <<task, codes, marked, found>>
    BY <1>8 DEF CheckCancel, Decide, FileFails, SkipFile, StartFile, db, history
  <2>2. /\ \A u \in Tasks \ {t} : w'[u] = w[u]
        /\ w'[t].codes = w[t].codes
        /\ w'[t].pc \in {"deciding", "finishing"} => w[t].pc = "deciding"
    <3>1. CASE CheckCancel(t)
      BY <1>2, <3>1 DEF CheckCancel, IInv, TypeOK, Worker
    <3>2. CASE Decide(t)
      BY <1>2, <3>2 DEF Decide, IInv, TypeOK, Worker
    <3>3. CASE FileFails(t)
      BY <1>2, <3>3 DEF FileFails, IInv, TypeOK, Worker
    <3>4. ASSUME NEW f \in Files, SkipFile(t, f)
          PROVE  /\ \A u \in Tasks \ {t} : w'[u] = w[u]
                 /\ w'[t].codes = w[t].codes
                 /\ w'[t].pc \in {"deciding", "finishing"} => w[t].pc = "deciding"
      BY <1>2, <3>4 DEF SkipFile, IInv, TypeOK, Worker
    <3>5. ASSUME NEW f \in Files, StartFile(t, f)
          PROVE  /\ \A u \in Tasks \ {t} : w'[u] = w[u]
                 /\ w'[t].codes = w[t].codes
                 /\ w'[t].pc \in {"deciding", "finishing"} => w[t].pc = "deciding"
      BY <1>2, <3>5 DEF StartFile, IInv, TypeOK, Worker
    <3> QED
      BY <1>8, <3>1, <3>2, <3>3, <3>4, <3>5
  <2> QED
    BY <1>1, <1>2, <2>1, <2>2, MoveKnows DEF ThreadKnows
<1>9. ASSUME NEW t \in Tasks, MarkCodes(t)
      PROVE  CodesFine'
  <2>1. /\ w[t].pc = "marking" /\ marked' = marked \cup w[t].codes
        /\ UNCHANGED <<task, codes, found>>
    BY <1>9 DEF MarkCodes, db, history
  <2>2. /\ \A u \in Tasks \ {t} : w'[u] = w[u]
        /\ w'[t].codes = w[t].codes
    BY <1>2, <1>9 DEF MarkCodes, IInv, TypeOK, Worker
  <2> QED
    BY <1>1, <1>2, <2>1, <2>2, MoveKnows DEF ThreadKnows
<1>10. ASSUME NEW t \in Tasks, FileScanned(t)
       PROVE  CodesFine'
  <2>1. PICK obsolete \in SUBSET {w[t].current} :
          /\ codes' = [codes EXCEPT ![t] = @ \cup obsolete]
          /\ found' = found \cup obsolete
          /\ w' = [w EXCEPT ![t].pc = "scanning", ![t].current = NoFile,
                            ![t].codes = @ \cup obsolete]
    BY <1>10 DEF FileScanned
  <2>2. w[t].pc = "file" /\ Active(t) /\ UNCHANGED <<task, marked>>
    BY <1>2, <1>10 DEF FileScanned, Fine
  <2>3. /\ codes'[t] = codes[t] \cup obsolete
        /\ \A u \in Tasks \ {t} : codes'[u] = codes[u] /\ w'[u] = w[u]
        /\ w'[t].codes = w[t].codes \cup obsolete /\ w'[t].pc = "scanning"
    BY <1>2, <2>1 DEF IInv, TypeOK, Worker
  <2>4. \A u \in Tasks : ThreadKnows(u)'
    BY <1>2, <2>2, <2>3 DEF ThreadKnows
  <2>5. CodesKept'
    <3> SUFFICES ASSUME NEW f \in found', f \notin marked'
                 PROVE  \E u \in Tasks : f \in codes'[u] /\ Open(u)'
      BY DEF CodesKept, Open
    <3>1. CASE f \in obsolete
      BY <2>2, <2>3, <3>1 DEF Open, Active, Exists
    <3>2. CASE f \in found
      <4>1. PICK u \in Tasks : f \in codes[u] /\ Open(u)
        BY <2>2, <3>2 DEF CodesFine, CodesKept, Open
      <4>2. f \in codes'[u] /\ Open(u)'
        BY <1>1, <2>2, <2>3, <4>1
      <4> QED
        BY <4>2
    <3> QED
      BY <2>1, <3>1, <3>2
  <2> QED
    BY <2>4, <2>5 DEF CodesFine
<1>11. ASSUME NEW t \in Tasks, Finish(t)
       PROVE  CodesFine'
  <2>1. /\ w[t].pc = "finishing" /\ Ends(t, Outcome(t), w[t].copy.asked)
        /\ codes' = [codes EXCEPT ![t] = IF Outcome(t) = "succeeded" THEN {} ELSE @]
        /\ UNCHANGED <<marked, found>>
    BY <1>11 DEF Finish
  <2>2. codes[t] \subseteq marked
    BY <1>2, <2>1 DEF ThreadKnows
  <2>3. /\ Outcome(t) # "succeeded" => codes'[t] = codes[t]
        /\ \A u \in Tasks \ {t} : codes'[u] = codes[u]
    BY <2>1 DEF IInv, TypeOK
  <2>4. Outcome(t) \in Final
    BY DEF Outcome, Final
  <2> QED
    BY <2>1, <2>2, <2>3, <2>4, EndKnows
<1>12. ASSUME NEW t \in Tasks, Fail(t)
       PROVE  CodesFine'
  <2>1. /\ Ends(t, "failed", task[t].asked) /\ "failed" \in Final
        /\ UNCHANGED <<codes, marked, found>>
    BY <1>12 DEF Fail, Final
  <2> QED
    BY <2>1, EndKnows
<1>13. CASE Crash
  <2>1. /\ \A u \in Tasks : w'[u].pc = "off"
        /\ UNCHANGED <<task, codes, marked, found>>
    BY <1>13 DEF Crash, Off, db, history
  <2>2. CodesKept'
    BY <1>1, <2>1, CodesStay DEF CodesFine
  <2> QED
    BY <2>1, <2>2 DEF CodesFine, ThreadKnows
<1>14. CASE (\E f \in Files : FileChanges(f)) \/ UNCHANGED vars
  <2>1. UNCHANGED <<task, codes, w, marked, found>>
    BY <1>14 DEF FileChanges, vars, db, history
  <2> QED
    BY <2>1 DEF CodesFine, ThreadKnows, CodesKept, Active, Exists, Retryable,
                LeftCancelled
<1> QED
  BY <1>3, <1>4, <1>5, <1>6, <1>7, <1>8, <1>9, <1>10, <1>11, <1>12, <1>13, <1>14
  DEF Next, Advance, Scan

(* A code that a committed file made obsolete reaches the clean-up or is   *)
(* still held by a run or a retry to come, whatever fails, restarts or is   *)
(* cancelled; the exception is a task whose end a cancel was written over. *)
THEOREM CodesAreKept == Spec => []CodesKept
<1>1. CodesFine => CodesKept
  BY DEF CodesFine
<1>2. IInv /\ CodesFine /\ [Next]_vars => CodesFine'
  BY CodesInductive
<1> QED
  BY <1>1, <1>2, Initially, Inductive, CodesInitially, PTL DEF Spec
-----------------------------------------------------------------------------
(* Completeness: what a thread has dealt with, and what a task committed,  *)
(* is up to date or has changed since the scan, or the one it continues,   *)
(* came to it.                                                             *)

Current(t, f) == /\ view[t][f] # "unseen"
                 /\ f \in fresh \/ view[t][f] = "changed"
ItemsCurrent == \A t \in Tasks : \A f \in items[t] : Current(t, f)
Working(t) == w[t].pc \in {"scanning", "picked", "file", "marking", "deciding", "finishing"}
Accounts(t) ==
    /\ w[t].pc # "off" => w[t].done \subseteq items[t]
    /\ w[t].pc = "file" => view[t][w[t].current] # "unseen"
    /\ Working(t) /\ ~w[t].errors =>
         \A f \in Files : f \in w[t].todo \/ f = w[t].current \/ Current(t, f)
    /\ w[t].pc \in {"marking", "deciding"} => w[t].todo = {} \/ CancelRequested(t)
    /\ w[t].pc = "finishing" => w[t].todo = {} \/ w[t].cancelled
Complete == ItemsCurrent /\ \A t \in Tasks : Accounts(t)

(* What only changes for one task or makes more of the files current.      *)
LEMMA AccountsStay ==
    ASSUME Complete, NEW t \in Tasks, UNCHANGED items,
           \A u \in Tasks \ {t} : /\ w'[u] = w[u]
                                  /\ CancelRequested(u) => CancelRequested(u)',
           \A u \in Tasks : \A f \in Files : Current(u, f) => Current(u, f)',
           \A u \in Tasks : \A f \in Files : view[u][f] # "unseen" => view'[u][f] # "unseen",
           IInv, Accounts(t)'
    PROVE  Complete'
<1>1. ItemsCurrent'
  BY DEF Complete, ItemsCurrent, IInv, TypeOK
<1>2. ASSUME NEW u \in Tasks \ {t}
      PROVE  Accounts(u)'
  <2>1. /\ Accounts(u) /\ Fine(u) /\ w'[u] = w[u]
        /\ CancelRequested(u) => CancelRequested(u)'
    BY DEF Complete, IInv, ThreadsFine
  <2>2. w[u].pc = "file" => w[u].current \in Files
    BY <2>1 DEF Fine
  <2> QED
    BY <2>1, <2>2 DEF Accounts, Working
<1> QED
  BY <1>1, <1>2 DEF Complete

LEMMA SameCurrent ==
    ASSUME UNCHANGED <<view, fresh>>
    PROVE  /\ \A u \in Tasks : \A f \in Files : Current(u, f) => Current(u, f)'
           /\ \A u \in Tasks : \A f \in Files :
                view[u][f] # "unseen" => view'[u][f] # "unseen"
  BY DEF Current

LEMMA SameRequested ==
    ASSUME NEW t \in Tasks, \A u \in Tasks \ {t} : task'[u] = task[u]
    PROVE  \A u \in Tasks \ {t} : CancelRequested(u) => CancelRequested(u)'
  BY DEF CancelRequested

LEMMA AdmittedAccounts ==
    ASSUME IInv, Complete, Admit, ItemsCurrent', UNCHANGED w
    PROVE  Complete'
<1>1. \A t \in Tasks : w'[t].pc = "off"
  BY DEF Admit, IInv, ThreadsFine, Fine
<1> QED
  BY <1>1 DEF Complete, Accounts, Working

LEMMA EndAccounts ==
    ASSUME IInv, Complete, NEW t \in Tasks, NEW s, NEW b, Ends(t, s, b),
           items'[t] \subseteq items[t], \A u \in Tasks \ {t} : items'[u] = items[u],
           UNCHANGED <<view, fresh>>
    PROVE  Complete'
<1>1. /\ \A u \in Tasks \ {t} : task'[u] = task[u] /\ w'[u] = w[u]
      /\ w'[t] = Off
  BY DEF Ends, IInv, TypeOK
<1>2. ItemsCurrent'
  BY DEF Complete, ItemsCurrent, Current
<1>3. ASSUME NEW u \in Tasks
      PROVE  Accounts(u)'
  <2>1. CASE u = t
    BY <1>1, <2>1 DEF Accounts, Working, Off
  <2>2. CASE u # t
    BY <1>1, <2>2 DEF Complete, Accounts, Working, Current, CancelRequested
  <2> QED
    BY <2>1, <2>2
<1> QED
  BY <1>2, <1>3 DEF Complete

LEMMA CompleteInitially == Init => Complete
  BY DEF Init, Off, Complete, ItemsCurrent, Accounts, Working

LEMMA RequestsAccount ==
    ASSUME IInv, Complete,
           QueueScan \/ CancelWrite \/ \E t \in Tasks : Retry(t) \/ CancelRead(t)
    PROVE  Complete'
<1>1. CASE QueueScan
  <2>1. ItemsCurrent'
    BY <1>1 DEF QueueScan, Complete, ItemsCurrent, Current, history
  <2> QED
    BY <1>1, <2>1, AdmittedAccounts DEF QueueScan
<1>2. ASSUME NEW t \in Tasks, Retry(t)
      PROVE  Complete'
  <2>1. /\ Admit /\ items' = [items EXCEPT ![Newest] = items[t]]
        /\ view' = [view EXCEPT ![Newest] =
             [f \in Files |-> IF f \in items[t] THEN view[t][f] ELSE "unseen"]]
        /\ UNCHANGED <<w, fresh>> /\ Newest \in Tasks
    BY <1>2, NewestUnused DEF Retry, Inherit, Admit, Unused
  <2>2. ASSUME NEW u \in Tasks, NEW f \in items'[u]
        PROVE  Current(u, f)'
    <3>1. items[t] \subseteq Files /\ \A g \in items[t] : Current(t, g)
      BY DEF IInv, TypeOK, Complete, ItemsCurrent
    <3>2. CASE u = Newest
      <4>1. f \in items[t] /\ view'[u][f] = view[t][f]
        BY <2>1, <2>2, <3>1, <3>2 DEF IInv, TypeOK
      <4> QED
        BY <2>1, <3>1, <4>1 DEF Current
    <3>3. CASE u # Newest
      <4>1. f \in items[u] /\ view'[u] = view[u]
        BY <2>1, <2>2, <3>3 DEF IInv, TypeOK
      <4> QED
        BY <2>1, <4>1 DEF Complete, ItemsCurrent, Current
    <3> QED
      BY <3>2, <3>3
  <2> QED
    BY <2>1, <2>2, AdmittedAccounts DEF ItemsCurrent
<1>3. ASSUME NEW t \in Tasks, CancelRead(t)
      PROVE  Complete'
  BY <1>3 DEF CancelRead, Complete, ItemsCurrent, Accounts, Working, Current,
              CancelRequested, db, history
<1>4. CASE CancelWrite
  <2>1. PICK t \in Tasks : t = cancel.task
    BY <1>4 DEF CancelWrite, IInv, CancelExists
  <2>2. /\ \A u \in Tasks \ {t} : task'[u] = task[u]
        /\ task'[t].asked /\ UNCHANGED <<w, items, view, fresh>>
    BY <1>4, <2>1 DEF CancelWrite, IInv, TypeOK, Row
  <2>3. Accounts(t)'
    BY <2>2 DEF Complete, Accounts, Working, Current, CancelRequested
  <2> QED
    BY <2>2, <2>3, SameCurrent, SameRequested, AccountsStay
<1> QED
  BY <1>1, <1>2, <1>3, <1>4
(* A thread that moves on without its task or anybody's files changing.    *)
LEMMA ThreadAccounts ==
    ASSUME IInv, Complete, NEW t \in Tasks, UNCHANGED <<items, view, fresh>>,
           \A u \in Tasks \ {t} : w'[u] = w[u] /\ task'[u] = task[u],
           Accounts(t)'
    PROVE  Complete'
<1>1. \A u \in Tasks \ {t} : CancelRequested(u) => CancelRequested(u)'
  BY SameRequested
<1> QED
  BY <1>1, SameCurrent, AccountsStay

LEMMA LoadAccounts ==
    ASSUME IInv, Complete, NEW t \in Tasks, Load(t)
    PROVE  Complete'
<1> DEFINE k == [Off EXCEPT !.pc = "loaded", !.copy = task[t],
                            !.done = items[t], !.codes = codes[t]]
<1>1. /\ w' = [w EXCEPT ![t] = k] /\ k.pc = "loaded" /\ k.done = items[t]
      /\ UNCHANGED <<task, items, view, fresh>>
  BY DEF Load, Off, db, history
<1> HIDE DEF k
<1>2. w'[t] = k /\ \A u \in Tasks \ {t} : w'[u] = w[u] /\ task'[u] = task[u]
  BY <1>1 DEF IInv, TypeOK
<1>3. Accounts(t)'
  BY <1>1, <1>2 DEF Accounts, Working
<1> QED
  BY <1>1, <1>2, <1>3, ThreadAccounts

LEMMA ProgressAccounts ==
    ASSUME IInv, Complete, NEW t \in Tasks, Discover(t) \/ ReportProgress(t)
    PROVE  Complete'
<1>1. /\ w[t].pc \in {"loaded", "picked"} /\ task' = Progress(t)
      /\ UNCHANGED <<items, view, fresh>>
  BY DEF Discover, ReportProgress, history
<1>2. /\ Active(t) /\ w[t] \in Worker /\ w \in [Tasks -> Worker]
      /\ w[t].done \subseteq items[t]
  BY <1>1, RunningFine DEF Fine, IInv, TypeOK, Complete, Accounts
<1>3. \A u \in Tasks \ {t} : task'[u] = task[u]
  BY <1>1 DEF Progress, IInv, TypeOK
<1>4. CASE Discover(t)
  <2>1. PICK listed \in SUBSET Files :
          w' = [w EXCEPT ![t].pc = "scanning", ![t].todo = listed,
                         ![t].errors = (listed # Files),
                         ![t].copy.status = IF @ = "queued" THEN "running" ELSE @]
    BY <1>4 DEF Discover
  <2>2. /\ \A u \in Tasks \ {t} : w'[u] = w[u]
        /\ w'[t].pc = "scanning" /\ w'[t].todo = listed /\ w'[t].done = w[t].done
        /\ w'[t].errors = (listed # Files)
    BY <1>2, <2>1 DEF Worker
  <2>3. Accounts(t)'
    BY <1>1, <1>2, <2>2 DEF Accounts, Working
  <2> QED
    BY <1>1, <1>3, <2>2, <2>3, ThreadAccounts
<1>5. CASE ReportProgress(t)
  <2>1. UNCHANGED w
    BY <1>5 DEF ReportProgress
  <2>2. Accounts(t)'
    BY <1>1, <1>5, <2>1 DEF ReportProgress, Complete, Accounts, Working, Current
  <2> QED
    BY <1>1, <1>3, <2>1, <2>2, ThreadAccounts
<1> QED
  BY <1>4, <1>5

LEMMA QuietAccounts ==
    ASSUME IInv, Complete, NEW t \in Tasks,
           CheckCancel(t) \/ FileFails(t) \/ MarkCodes(t) \/ Decide(t)
    PROVE  Complete'
<1>1. /\ w[t] \in Worker /\ w \in [Tasks -> Worker] /\ Accounts(t)
  BY DEF IInv, TypeOK, Complete
<1>2. UNCHANGED <<task, items, view, fresh>>
  BY DEF CheckCancel, FileFails, MarkCodes, Decide, db, history
<1>3. /\ \A u \in Tasks \ {t} : w'[u] = w[u] /\ task'[u] = task[u]
      /\ Accounts(t)'
  <2>1. CASE CheckCancel(t)
    <3>1. /\ w' = [w EXCEPT ![t].pc = w'[t].pc]
          /\ w'[t].pc \in {"marking", "picked"}
          /\ w'[t].pc = "marking" => w[t].todo = {} \/ CancelRequested(t)
          /\ w[t].pc = "scanning" /\ w[t].current = NoFile
      BY <1>1, <2>1, RunningFine DEF CheckCancel, Worker, Fine
    <3>2. /\ w'[t].todo = w[t].todo /\ w'[t].current = w[t].current
          /\ w'[t].done = w[t].done /\ w'[t].errors = w[t].errors
          /\ \A u \in Tasks \ {t} : w'[u] = w[u]
      BY <1>1, <3>1 DEF Worker
    <3> QED
      BY <1>1, <1>2, <3>1, <3>2 DEF Accounts, Working, Current, CancelRequested
  <2>2. CASE FileFails(t)
    <3>1. /\ w'[t].pc = "scanning" /\ w'[t].errors
          /\ w'[t].done = w[t].done /\ w[t].pc = "file"
          /\ \A u \in Tasks \ {t} : w'[u] = w[u]
      BY <1>1, <2>2 DEF FileFails, Worker
    <3> QED
      BY <1>1, <1>2, <3>1 DEF Accounts
  <2>3. CASE MarkCodes(t)
    <3>1. /\ w'[t].todo = w[t].todo /\ w'[t].current = w[t].current
          /\ w'[t].done = w[t].done /\ w'[t].errors = w[t].errors
          /\ w[t].pc = "marking" /\ w'[t].pc = "deciding"
          /\ \A u \in Tasks \ {t} : w'[u] = w[u]
      BY <1>1, <2>3 DEF MarkCodes, Worker
    <3> QED
      BY <1>1, <1>2, <3>1 DEF Accounts, Working, Current, CancelRequested
  <2>4. CASE Decide(t)
    <3>1. CancelRequested(t) \in BOOLEAN
      BY DEF CancelRequested, IInv, TypeOK, Row
    <3>2. /\ w'[t].todo = w[t].todo /\ w'[t].current = w[t].current
          /\ w'[t].done = w[t].done /\ w'[t].errors = w[t].errors
          /\ w'[t].cancelled = CancelRequested(t)
          /\ w[t].pc = "deciding" /\ w'[t].pc = "finishing"
          /\ \A u \in Tasks \ {t} : w'[u] = w[u]
      BY <1>1, <2>4 DEF Decide, Worker
    <3> QED
      BY <1>1, <1>2, <3>1, <3>2 DEF Accounts, Working, Current
  <2> QED
    BY <1>2, <2>1, <2>2, <2>3, <2>4
<1> QED
  BY <1>2, <1>3, ThreadAccounts
LEMMA SeeAccounts ==
    ASSUME IInv, Complete, NEW t \in Tasks, NEW f \in Files,
           SkipFile(t, f) \/ StartFile(t, f)
    PROVE  Complete'
<1>1. /\ w[t] \in Worker /\ w \in [Tasks -> Worker] /\ Accounts(t)
      /\ items[t] \subseteq Files /\ Fine(t)
      /\ view \in [Tasks -> [Files -> {"unseen", "seen", "changed"}]]
  BY DEF IInv, TypeOK, Complete, ThreadsFine
<1>2. /\ w[t].pc = "picked" /\ f \in w[t].todo /\ w[t].current = NoFile
      /\ UNCHANGED <<task, items, fresh>> /\ See(t, f)
  BY <1>1 DEF SkipFile, StartFile, Fine, db
<1>3. \A g \in Files : g \in w[t].done => g \in items[t] /\ Current(t, g)
  BY <1>1, <1>2 DEF Accounts, Complete, ItemsCurrent
<1>4. f \in items[t] => f \in w[t].done
  BY <1>1, <1>2 DEF Fine
<1>5. /\ \A u \in Tasks, g \in Files : (u # t \/ g # f) => view'[u][g] = view[u][g]
      /\ f \in w[t].done => view'[t][f] = view[t][f]
      /\ f \notin w[t].done => view'[t][f] = "seen"
  BY <1>1, <1>2 DEF See
<1>6. view'[t][f] # "unseen"
  BY <1>3, <1>5 DEF Current
<1>7. \A g \in Files : g # f /\ Current(t, g) => Current(t, g)'
  BY <1>2, <1>5 DEF Current
<1>8. ItemsCurrent'
  <2> SUFFICES ASSUME NEW u \in Tasks, NEW g \in items[u]
               PROVE  Current(u, g)'
    BY <1>2 DEF ItemsCurrent
  <2>1. g \in Files /\ Current(u, g)
    BY DEF IInv, TypeOK, Complete, ItemsCurrent
  <2>2. view'[u][g] = view[u][g]
    BY <1>4, <1>5, <2>1
  <2> QED
    BY <1>2, <2>1, <2>2 DEF Current
<1>9. ASSUME NEW u \in Tasks \ {t}, w'[u] = w[u]
      PROVE  Accounts(u)'
  <2>1. Accounts(u) /\ Fine(u) /\ view'[u] = view[u]
    BY <1>1, <1>2 DEF Complete, IInv, ThreadsFine, See
  <2> QED
    BY <1>2, <1>9, <2>1 DEF Accounts, Working, Current, CancelRequested
<1>10. (\A u \in Tasks \ {t} : w'[u] = w[u]) /\ Accounts(t)'
  <2>1. CASE SkipFile(t, f)
    <3>1. /\ w'[t].pc = "scanning" /\ w'[t].todo = w[t].todo \ {f}
          /\ w'[t].current = NoFile
          /\ w'[t].done = w[t].done /\ w'[t].errors = w[t].errors
          /\ \A u \in Tasks \ {t} : w'[u] = w[u]
      BY <1>1, <1>2, <2>1 DEF SkipFile, Worker
    <3>2. Current(t, f)'
      <4>1. CASE f \in w[t].done
        BY <1>2, <1>3, <1>5, <4>1 DEF Current
      <4>2. CASE f \notin w[t].done
        BY <1>2, <1>5, <2>1, <4>2 DEF SkipFile, Skipped, Current
      <4> QED
        BY <4>1, <4>2
    <3>3. w'[t].errors \/ \A g \in Files : g \in w'[t].todo \/ g = w'[t].current \/ Current(t, g)'
      <4> SUFFICES ASSUME ~w'[t].errors, NEW g \in Files,
                          g \notin w'[t].todo, g # w'[t].current
                   PROVE  Current(t, g)'
        OBVIOUS
      <4>1. CASE g = f
        BY <3>2, <4>1
      <4>2. CASE g # f
        <5>1. Current(t, g)
          BY <1>1, <1>2, <3>1, <4>2 DEF Accounts, Working
        <5> QED
          BY <1>7, <4>2, <5>1
      <4> QED
        BY <4>1, <4>2
    <3> QED
      BY <1>1, <1>2, <3>1, <3>3 DEF Accounts, Working
  <2>2. CASE StartFile(t, f)
    <3>1. /\ w'[t].pc = "file" /\ w'[t].todo = w[t].todo \ {f}
          /\ w'[t].current = f
          /\ w'[t].done = w[t].done /\ w'[t].errors = w[t].errors
          /\ \A u \in Tasks \ {t} : w'[u] = w[u]
      BY <1>1, <1>2, <2>2 DEF StartFile, Worker
    <3>2. w'[t].errors \/ \A g \in Files : g \in w'[t].todo \/ g = w'[t].current \/ Current(t, g)'
      <4> SUFFICES ASSUME ~w'[t].errors, NEW g \in Files,
                          g \notin w'[t].todo, g # w'[t].current
                   PROVE  Current(t, g)'
        OBVIOUS
      <4>1. g # f /\ Current(t, g)
        BY <1>1, <1>2, <3>1, ConstantsAssumption DEF Accounts, Working
      <4> QED
        BY <1>7, <4>1
    <3> QED
      BY <1>1, <1>2, <1>6, <3>1, <3>2 DEF Accounts, Working
  <2> QED
    BY <2>1, <2>2
<1> QED
  BY <1>8, <1>9, <1>10 DEF Complete

LEMMA ScannedAccounts ==
    ASSUME IInv, Complete, NEW t \in Tasks, FileScanned(t)
    PROVE  Complete'
<1>1. /\ w[t] \in Worker /\ w \in [Tasks -> Worker] /\ Accounts(t)
      /\ items \in [Tasks -> SUBSET Files] /\ Fine(t)
      /\ view \in [Tasks -> [Files -> {"unseen", "seen", "changed"}]]
  BY DEF IInv, TypeOK, Complete, ThreadsFine
<1>2. PICK f \in Files : f = w[t].current
  BY <1>1 DEF FileScanned, Fine
<1>3. /\ w[t].pc = "file" /\ items' = [items EXCEPT ![t] = @ \cup {f}]
      /\ fresh' = IF view[t][f] = "changed" THEN fresh ELSE fresh \cup {f}
      /\ UNCHANGED <<task, view>>
  BY <1>2 DEF FileScanned
<1>4. PICK obsolete \in SUBSET {f} :
        w' = [w EXCEPT ![t].pc = "scanning", ![t].current = NoFile,
                       ![t].codes = @ \cup obsolete]
  BY <1>2 DEF FileScanned
<1>5. /\ w'[t].pc = "scanning" /\ w'[t].todo = w[t].todo /\ w'[t].current = NoFile
      /\ w'[t].done = w[t].done /\ w'[t].errors = w[t].errors
      /\ \A u \in Tasks \ {t} : w'[u] = w[u]
  BY <1>1, <1>4 DEF Worker
<1>6. /\ items'[t] = items[t] \cup {f}
      /\ \A u \in Tasks \ {t} : items'[u] = items[u]
  BY <1>1, <1>3
<1>7. \A u \in Tasks, g \in Files : Current(u, g) => Current(u, g)'
  BY <1>3 DEF Current
<1>8. Current(t, f)'
  BY <1>1, <1>2, <1>3 DEF Accounts, Current
<1>9. ItemsCurrent'
  <2> SUFFICES ASSUME NEW u \in Tasks, NEW g \in items'[u]
               PROVE  Current(u, g)'
    BY DEF ItemsCurrent
  <2>1. CASE u = t /\ g = f
    BY <1>8, <2>1
  <2>2. CASE g \in items[u]
    BY <1>1, <1>7, <2>2 DEF Complete, ItemsCurrent
  <2> QED
    BY <1>6, <2>1, <2>2
<1>10. Accounts(t)'
  <2>1. w'[t].errors \/ \A g \in Files : g \in w'[t].todo \/ g = w'[t].current \/ Current(t, g)'
    <3> SUFFICES ASSUME ~w'[t].errors, NEW g \in Files,
                        g \notin w'[t].todo, g # w'[t].current
                 PROVE  Current(t, g)'
      OBVIOUS
    <3>1. CASE g = f
      BY <1>8, <3>1
    <3>2. CASE g # f
      BY <1>1, <1>2, <1>3, <1>5, <1>7, <3>2 DEF Accounts, Working
    <3> QED
      BY <3>1, <3>2
  <2> QED
    BY <1>1, <1>3, <1>5, <1>6, <2>1 DEF Accounts, Working
<1>11. ASSUME NEW u \in Tasks \ {t}
       PROVE  Accounts(u)'
  <2>1. /\ Accounts(u) /\ w'[u] = w[u] /\ items'[u] = items[u] /\ view' = view
        /\ task' = task
    BY <1>3, <1>5, <1>6 DEF Complete
  <2> QED
    BY <1>7, <2>1 DEF Accounts, Working, CancelRequested
<1> QED
  BY <1>9, <1>10, <1>11 DEF Complete

LEMMA ChangeAccounts ==
    ASSUME IInv, Complete, NEW f \in Files, FileChanges(f)
    PROVE  Complete'
<1>1. /\ fresh' = fresh \ {f} /\ UNCHANGED <<task, items, w>>
      /\ view' = [t \in Tasks |-> [view[t] EXCEPT ![f] =
                    IF @ = "unseen" THEN @ ELSE "changed"]]
  BY DEF FileChanges, db
<1>2. view \in [Tasks -> [Files -> {"unseen", "seen", "changed"}]]
  BY DEF IInv, TypeOK
<1>3. \A u \in Tasks, g \in Files : g # f => view'[u][g] = view[u][g]
  BY <1>1, <1>2
<1>4. \A u \in Tasks : view'[u][f] = IF view[u][f] = "unseen" THEN "unseen" ELSE "changed"
  BY <1>1, <1>2
<1>5. \A u \in Tasks, g \in Files : Current(u, g) => Current(u, g)'
  BY <1>1, <1>3, <1>4 DEF Current
<1>6. \A u \in Tasks, g \in Files : view[u][g] # "unseen" => view'[u][g] # "unseen"
  BY <1>3, <1>4
<1>7. ItemsCurrent'
  BY <1>1, <1>5 DEF Complete, ItemsCurrent, IInv, TypeOK
<1>8. ASSUME NEW u \in Tasks
      PROVE  Accounts(u)'
  <2>1. Accounts(u) /\ (w[u].pc = "file" => w[u].current \in Files)
    BY DEF Complete, IInv, ThreadsFine, Fine
  <2> QED
    BY <1>1, <1>5, <1>6, <2>1 DEF Accounts, Working, CancelRequested
<1> QED
  BY <1>7, <1>8 DEF Complete

LEMMA CompleteInductive == IInv /\ Complete /\ [Next]_vars => Complete'
<1> SUFFICES ASSUME IInv, Complete, [Next]_vars
             PROVE  Complete'
  OBVIOUS
<1>1. ASSUME NEW t \in Tasks, Finish(t)
      PROVE  Complete'
  <2>1. /\ Ends(t, Outcome(t), w[t].copy.asked)
        /\ items' = [items EXCEPT ![t] = IF Outcome(t) = "succeeded" THEN {} ELSE @]
        /\ UNCHANGED <<view, fresh>>
    BY <1>1 DEF Finish, history
  <2>2. items'[t] \subseteq items[t] /\ \A u \in Tasks \ {t} : items'[u] = items[u]
    BY <2>1 DEF IInv, TypeOK
  <2> QED
    BY <2>1, <2>2, EndAccounts
<1>2. ASSUME NEW t \in Tasks, Fail(t)
      PROVE  Complete'
  <2>1. Ends(t, "failed", task[t].asked) /\ UNCHANGED <<items, view, fresh>>
    BY <1>2 DEF Fail, history
  <2> QED
    BY <2>1, EndAccounts
<1>3. CASE Crash
  <2>1. /\ \A u \in Tasks : w'[u].pc = "off"
        /\ UNCHANGED <<items, view, fresh>>
    BY <1>3 DEF Crash, Off, db, history
  <2> QED
    BY <2>1 DEF Complete, ItemsCurrent, Accounts, Working, Current
<1>4. CASE UNCHANGED vars
  BY <1>4 DEF vars, db, history, Complete, ItemsCurrent, Accounts, Working, Current,
              CancelRequested
<1> QED
  BY <1>1, <1>2, <1>3, <1>4, RequestsAccount, LoadAccounts, ProgressAccounts,
     QuietAccounts, SeeAccounts, ScannedAccounts, ChangeAccounts
  DEF Next, Advance, Scan

(* A task comes to succeed only when its thread ends it, free of errors    *)
(* and of a cancellation, with nothing left to do.                         *)
LEMMA SuccessOnlyEnds ==
    ASSUME IInv, NEW t \in Tasks, [Next]_vars, Succeeds(t)
    PROVE  Finish(t) /\ ~w[t].cancelled /\ ~w[t].errors
<1>1. task \in [Tasks -> Row] /\ task[t].status # "succeeded"
      /\ task'[t].status = "succeeded"
  BY DEF IInv, TypeOK, Succeeds
<1>2. ASSUME QueueScan \/ \E u \in Tasks : Retry(u)
      PROVE  FALSE
  <2>1. task' = [task EXCEPT ![Newest] = Queued]
    BY <1>2 DEF QueueScan, Retry
  <2> QED
    BY <1>1, <2>1 DEF Queued
<1>3. ASSUME CancelWrite
      PROVE  FALSE
  BY <1>1, <1>3 DEF CancelWrite, Row
<1>4. ASSUME NEW u \in Tasks, Discover(u) \/ ReportProgress(u)
      PROVE  FALSE
  <2>1. task' = Progress(u)
    BY <1>4 DEF Discover, ReportProgress
  <2> QED
    BY <1>1, <2>1 DEF Progress, Row
<1>5. ASSUME NEW u \in Tasks, Fail(u)
      PROVE  FALSE
  BY <1>1, <1>5 DEF Fail, Ends
<1>6. ASSUME NEW u \in Tasks, Finish(u)
      PROVE  u = t /\ ~w[t].cancelled /\ ~w[t].errors
  <2>1. task' = [task EXCEPT ![u] = [status |-> Outcome(u), asked |-> w[u].copy.asked,
                                     finished |-> TRUE]]
    BY <1>6 DEF Finish, Ends
  <2>2. u = t
    BY <1>1, <2>1
  <2>3. Outcome(t) = "succeeded"
    BY <1>1, <2>1, <2>2
  <2> QED
    BY <2>2, <2>3 DEF Outcome
<1>7. ASSUME NEW u \in Tasks, Advance(u), ~Discover(u), ~Finish(u)
      PROVE  UNCHANGED task
  BY <1>7 DEF Advance, Scan, Load, SkipFile, StartFile, FileScanned, FileFails, CheckCancel,
              MarkCodes, Decide, db
<1>8. ASSUME (\E u \in Tasks : CancelRead(u)) \/ (\E f \in Files : FileChanges(f)) \/ Crash
             \/ UNCHANGED vars
      PROVE  UNCHANGED task
  BY <1>8 DEF CancelRead, FileChanges, Crash, vars, db
<1>9. ~ UNCHANGED task
  BY <1>1
<1> QED
  BY <1>2, <1>3, <1>4, <1>5, <1>6, <1>7, <1>8, <1>9 DEF Next

(* When a scan reports success, every file's row is up to date, unless the *)
(* file changed after the scan, or the one it continues, came to it:       *)
(* through failures, restarts and retries that skip what is committed.     *)
THEOREM SuccessIsFull == Spec => SuccessIsComplete
<1>1. ASSUME IInv, Complete, [Next]_vars
      PROVE  \A t \in Tasks : Succeeds(t) => \A f \in Files \ fresh : view[t][f] = "changed"
  <2> SUFFICES ASSUME NEW t \in Tasks, Succeeds(t), NEW f \in Files \ fresh
               PROVE  view[t][f] = "changed"
    OBVIOUS
  <2>1. Finish(t) /\ ~w[t].cancelled /\ ~w[t].errors
    BY <1>1, SuccessOnlyEnds
  <2>2. w[t].pc = "finishing" /\ w[t].current = NoFile
    BY <1>1, <2>1 DEF Finish, IInv, ThreadsFine, Fine
  <2>3. w[t].todo = {} /\ Current(t, f)
    BY <1>1, <2>1, <2>2, ConstantsAssumption DEF Complete, Accounts, Working
  <2> QED
    BY <2>3 DEF Current
<1>2. IInv /\ Complete /\ [Next]_vars
        => [\A t \in Tasks : Succeeds(t) =>
              \A f \in Files \ fresh : view[t][f] = "changed"]_vars
  BY <1>1
<1> QED
  BY <1>2, Initially, Inductive, CompleteInitially, CompleteInductive, PTL
  DEF Spec, SuccessIsComplete

-----------------------------------------------------------------------------
(* Cancellation: a thread writes over the status of its row only in its    *)
(* first progress, from a copy that still says "queued"; an answered       *)
(* request that this does not hit stays in the row until the task ends.    *)

FreshCopy(t) == w[t].pc # "off" /\ w[t].copy.status = "queued" => w[t].pc = "loaded"
Asked(t) == task[t].status = "cancel_requested" \/ t \in unheard
Heeded(t) ==
    /\ t \in accepted => Active(t) /\ Asked(t)
    /\ Active(t) /\ task[t].status = "cancel_requested" => t \in accepted
RequestIn ==
    cancel # NoCancel /\ cancel.status = "cancel_requested" =>
        task[cancel.task].finished \/ cancel.task \in accepted
Stopping == (\A t \in Tasks : FreshCopy(t) /\ Heeded(t)) /\ RequestIn

LEMMA StoppingInitially == Init => Stopping
  BY DEF Init, Off, NoTask, NoCancel, Stopping, FreshCopy, RequestIn, Heeded, Active, Exists

(* What one task and its thread do concerns no other.                      *)
LEMMA StoppingStays ==
    ASSUME IInv, Stopping, NEW t \in Tasks, UNCHANGED cancel,
           \A u \in Tasks \ {t} :
               /\ w'[u] = w[u] /\ task'[u] = task[u]
               /\ u \in accepted' <=> u \in accepted
               /\ u \in unheard' <=> u \in unheard,
           FreshCopy(t)', Heeded(t)',
           cancel # NoCancel /\ cancel.task = t /\ cancel.status = "cancel_requested"
             => task'[t].finished \/ t \in accepted'
    PROVE  Stopping'
<1>1. ASSUME NEW u \in Tasks
      PROVE  FreshCopy(u)' /\ Heeded(u)'
  <2>1. CASE u = t
    BY <2>1
  <2>2. CASE u # t
    BY <2>2 DEF Stopping, FreshCopy, Heeded, Asked, Active, Exists
  <2> QED
    BY <2>1, <2>2
<1>2. RequestIn'
  BY DEF Stopping, RequestIn, IInv, CancelExists
<1> QED
  BY <1>1, <1>2 DEF Stopping

LEMMA RequestsStop ==
    ASSUME IInv, Stopping,
           QueueScan \/ CancelWrite \/ \E t \in Tasks : Retry(t) \/ CancelRead(t)
    PROVE  Stopping'
<1>1. ASSUME QueueScan \/ \E t \in Tasks : Retry(t)
      PROVE  Stopping'
  <2>1. /\ Admit /\ task' = [task EXCEPT ![Newest] = Queued]
        /\ UNCHANGED <<w, cancel, accepted, unheard>>
    BY <1>1 DEF QueueScan, Retry, history
  <2>2. PICK n \in Tasks : n = Newest /\ ~Exists(n)
    BY <2>1, NewestUnused DEF Admit, Unused
  <2>3. /\ task'[n] = Queued
        /\ \A u \in Tasks \ {n} : w'[u] = w[u] /\ task'[u] = task[u]
    BY <2>1, <2>2 DEF IInv, TypeOK
  <2>4. w'[n].pc = "off" /\ n \notin accepted'
    BY <2>1, <2>2 DEF IInv, ThreadsFine, Fine, Stopping, Heeded, Active
  <2>5. FreshCopy(n)'
    BY <2>4 DEF FreshCopy
  <2>6. Heeded(n)'
    BY <2>3, <2>4 DEF Heeded, Queued
  <2>7. cancel # NoCancel => cancel.task # n
    BY <2>2 DEF IInv, CancelExists
  <2> QED
    BY <2>1, <2>3, <2>5, <2>6, <2>7, StoppingStays
<1>2. ASSUME NEW t \in Tasks, CancelRead(t)
      PROVE  Stopping'
  <2>1. /\ cancel' = [task |-> t, status |-> task[t].status]
        /\ Active(t) /\ UNCHANGED <<task, w, accepted, unheard>>
    BY <1>2 DEF CancelRead, db, history
  <2>2. RequestIn'
    BY <2>1 DEF Stopping, Heeded, RequestIn
  <2> QED
    BY <2>1, <2>2 DEF Stopping, FreshCopy, Heeded, Asked, Active, Exists
<1>3. CASE CancelWrite
  <2>1. PICK t \in Tasks : t = cancel.task /\ Exists(t) /\ cancel # NoCancel
    BY <1>3 DEF CancelWrite, IInv, CancelExists
  <2>2. /\ \A u \in Tasks \ {t} : task'[u] = task[u]
        /\ task'[t].finished = task[t].finished
        /\ task'[t].status = IF cancel.status = "cancel_requested" THEN task[t].status
                             ELSE "cancel_requested"
        /\ accepted' = IF task[t].finished THEN accepted ELSE accepted \cup {t}
        /\ unheard' = IF cancel.status = "cancel_requested" THEN unheard
                      ELSE unheard \ {t}
        /\ cancel' = NoCancel /\ UNCHANGED w
    BY <1>3, <2>1 DEF CancelWrite, IInv, TypeOK, Row
  <2>3. Exists(t)'
    BY <2>1, <2>2 DEF Exists
  <2>4. Heeded(t)'
    <3>1. CASE task[t].finished
      BY <2>2, <3>1 DEF Stopping, Heeded, Active
    <3>2. CASE ~task[t].finished
      <4>1. Active(t)' /\ t \in accepted'
        BY <2>2, <2>3, <3>2 DEF Active
      <4>2. CASE cancel.status # "cancel_requested"
        BY <2>2, <4>1, <4>2 DEF Heeded, Asked
      <4>3. CASE cancel.status = "cancel_requested"
        <5>1. t \in accepted /\ Asked(t)
          BY <2>1, <3>2, <4>3 DEF Stopping, RequestIn, Heeded
        <5> QED
          BY <2>2, <4>1, <4>3, <5>1 DEF Heeded, Asked
      <4> QED
        BY <4>2, <4>3
    <3> QED
      BY <3>1, <3>2
  <2>5. ASSUME NEW u \in Tasks \ {t}
        PROVE  Heeded(u)'
    BY <2>2 DEF Stopping, Heeded, Asked, Active, Exists
  <2>6. \A u \in Tasks : FreshCopy(u)'
    BY <2>2 DEF Stopping, FreshCopy
  <2>7. RequestIn'
    BY <2>2 DEF RequestIn
  <2> QED
    BY <2>4, <2>5, <2>6, <2>7 DEF Stopping
<1> QED
  BY <1>1, <1>2, <1>3

LEMMA StepsStop ==
    ASSUME IInv, Stopping, NEW t \in Tasks,
           Load(t) \/ Discover(t) \/ ReportProgress(t) \/ Finish(t) \/ Fail(t)
    PROVE  Stopping'
<1>1. /\ w[t] \in Worker /\ w \in [Tasks -> Worker] /\ task \in [Tasks -> Row]
      /\ Fine(t) /\ FreshCopy(t) /\ Heeded(t) /\ RequestIn
  BY DEF IInv, TypeOK, ThreadsFine, Stopping
<1>2. CASE Load(t)
  <2> DEFINE k == [Off EXCEPT !.pc = "loaded", !.copy = task[t],
                              !.done = items[t], !.codes = codes[t]]
  <2>1. /\ w' = [w EXCEPT ![t] = k] /\ k.pc = "loaded"
        /\ UNCHANGED <<task, cancel, accepted, unheard>>
    BY <1>2 DEF Load, Off, db, history
  <2> HIDE DEF k
  <2>2. w'[t] = k /\ \A u \in Tasks \ {t} : w'[u] = w[u] /\ task'[u] = task[u]
    BY <1>1, <2>1
  <2>3. FreshCopy(t)' /\ Heeded(t)'
    BY <1>1, <2>1, <2>2 DEF FreshCopy, Heeded, Asked, Active, Exists
  <2> QED
    BY <1>1, <2>1, <2>2, <2>3, StoppingStays DEF RequestIn
<1>3. CASE Discover(t)
  <2>1. /\ task' = Progress(t) /\ UNCHANGED <<cancel, accepted>> /\ w[t].pc = "loaded"
        /\ unheard' = IF w[t].copy.status = "queued"
                      THEN unheard \cup ({t} \cap accepted) ELSE unheard
    BY <1>3 DEF Discover
  <2>2. /\ \A u \in Tasks \ {t} : task'[u] = task[u]
        /\ task'[t].finished = task[t].finished
        /\ task'[t].status = IF w[t].copy.status = "queued" THEN "running"
                             ELSE task[t].status
    BY <1>1, <2>1 DEF Progress, Row
  <2>3. PICK listed \in SUBSET Files :
          w' = [w EXCEPT ![t].pc = "scanning", ![t].todo = listed,
                         ![t].errors = (listed # Files),
                         ![t].copy.status = IF @ = "queued" THEN "running" ELSE @]
    BY <1>3 DEF Discover
  <2>4. /\ \A u \in Tasks \ {t} : w'[u] = w[u]
        /\ w'[t].copy.status # "queued"
    BY <1>1, <2>3 DEF Worker, Row
  <2>5. FreshCopy(t)'
    BY <2>4 DEF FreshCopy
  <2>6. Active(t) /\ Active(t)'
    BY <1>1, <2>1, <2>2 DEF Fine, Active, Exists
  <2>7. Heeded(t)'
    BY <1>1, <2>1, <2>2, <2>6 DEF Heeded, Asked
  <2> QED
    BY <1>1, <2>1, <2>2, <2>4, <2>5, <2>7, StoppingStays DEF RequestIn
<1>4. CASE ReportProgress(t)
  <2>1. /\ task' = Progress(t) /\ UNCHANGED <<w, cancel, accepted, unheard>>
        /\ w[t].copy.status # "queued"
    BY <1>1, <1>4 DEF ReportProgress, FreshCopy, history
  <2>2. /\ \A u \in Tasks \ {t} : task'[u] = task[u]
        /\ task'[t].finished = task[t].finished
        /\ task'[t].status = task[t].status
    BY <1>1, <2>1 DEF Progress, Row
  <2>3. FreshCopy(t)' /\ Heeded(t)'
    BY <1>1, <2>1, <2>2 DEF FreshCopy, Heeded, Asked, Active, Exists
  <2> QED
    BY <1>1, <2>1, <2>2, <2>3, StoppingStays DEF RequestIn
<1>5. ASSUME NEW s, NEW b, Ends(t, s, b), UNCHANGED cancel
      PROVE  Stopping'
  <2>1. /\ \A u \in Tasks \ {t} : w'[u] = w[u] /\ task'[u] = task[u]
        /\ task'[t].finished /\ w'[t] = Off
        /\ accepted' = accepted \ {t} /\ unheard' = unheard \ {t}
    BY <1>1, <1>5 DEF Ends
  <2>2. FreshCopy(t)' /\ Heeded(t)'
    BY <2>1 DEF FreshCopy, Heeded, Active, Off
  <2> QED
    BY <1>5, <2>1, <2>2, StoppingStays
<1>6. CASE Finish(t)
  BY <1>5, <1>6 DEF Finish
<1>7. CASE Fail(t)
  BY <1>5, <1>7 DEF Fail
<1> QED
  BY <1>2, <1>3, <1>4, <1>6, <1>7

(* The steps of a thread between the files leave the rows alone.           *)
LEMMA MovesStop ==
    ASSUME IInv, Stopping, NEW t \in Tasks,
           CheckCancel(t) \/ FileScanned(t) \/ FileFails(t) \/ MarkCodes(t) \/ Decide(t)
           \/ \E f \in Files : SkipFile(t, f) \/ StartFile(t, f)
    PROVE  Stopping'
<1>1. /\ w[t] \in Worker /\ w \in [Tasks -> Worker]
      /\ FreshCopy(t) /\ Heeded(t) /\ RequestIn
  BY DEF IInv, TypeOK, Stopping
<1>2. /\ w[t].pc \notin {"off", "loaded"}
      /\ UNCHANGED <<task, cancel, accepted, unheard>>
  BY DEF CheckCancel, FileScanned, FileFails, MarkCodes, Decide, SkipFile, StartFile,
         db, history
<1>3. (\A u \in Tasks \ {t} : w'[u] = w[u]) /\ w'[t].copy = w[t].copy
  <2>1. CASE CheckCancel(t)
    BY <1>1, <2>1 DEF CheckCancel, Worker
  <2>2. CASE FileScanned(t)
    <3>1. PICK obsolete \in SUBSET {w[t].current} :
            w' = [w EXCEPT ![t].pc = "scanning", ![t].current = NoFile,
                           ![t].codes = @ \cup obsolete]
      BY <2>2 DEF FileScanned
    <3> QED
      BY <1>1, <3>1 DEF Worker
  <2>3. CASE FileFails(t)
    BY <1>1, <2>3 DEF FileFails, Worker
  <2>4. CASE MarkCodes(t)
    BY <1>1, <2>4 DEF MarkCodes, Worker
  <2>5. CASE Decide(t)
    BY <1>1, <2>5 DEF Decide, Worker
  <2>6. CASE \E f \in Files : SkipFile(t, f) \/ StartFile(t, f)
    <3>1. PICK f \in Files : SkipFile(t, f) \/ StartFile(t, f)
      BY <2>6
    <3>2. CASE SkipFile(t, f)
      BY <1>1, <3>2 DEF SkipFile, Worker
    <3>3. CASE StartFile(t, f)
      BY <1>1, <3>3 DEF StartFile, Worker
    <3> QED
      BY <3>1, <3>2, <3>3
  <2> QED
    BY <2>1, <2>2, <2>3, <2>4, <2>5, <2>6
<1>4. FreshCopy(t)' /\ Heeded(t)'
  BY <1>1, <1>2, <1>3 DEF FreshCopy, Heeded, Asked, Active, Exists
<1> QED
  BY <1>1, <1>2, <1>3, <1>4, StoppingStays DEF RequestIn

LEMMA StoppingInductive == IInv /\ Stopping /\ [Next]_vars => Stopping'
<1> SUFFICES ASSUME IInv, Stopping, [Next]_vars
             PROVE  Stopping'
  OBVIOUS
<1>1. CASE Crash
  BY <1>1 DEF Crash, Off, NoCancel, db, history, Stopping, FreshCopy, RequestIn, Heeded,
              Asked, Active, Exists
<1>2. CASE (\E f \in Files : FileChanges(f)) \/ UNCHANGED vars
  <2>1. UNCHANGED <<task, w, cancel, accepted, unheard>>
    BY <1>2 DEF FileChanges, vars, db, history
  <2> QED
    BY <2>1 DEF Stopping, FreshCopy, RequestIn, Heeded, Asked, Active, Exists
<1> QED
  BY <1>1, <1>2, RequestsStop, StepsStop, MovesStop DEF Next, Advance, Scan

(* The loop comes to no further file once a cancel request was answered,   *)
(* whenever the request read and wrote the row, unless the first progress  *)
(* of the scan wrote over it.                                              *)
THEOREM CancelIsHeard == Spec => CancelHeard
<1>1. ASSUME IInv, Stopping, [Next]_vars, NEW t \in accepted \ unheard, w'[t].pc = "picked"
      PROVE  w[t].pc = "picked"
  <2>1. /\ t \in Tasks /\ w[t] \in Worker /\ w \in [Tasks -> Worker] /\ Fine(t)
        /\ task[t].status = "cancel_requested"
    BY <1>1 DEF IInv, TypeOK, ThreadsFine, Stopping, Heeded, Asked
  <2>2. ASSUME CheckCancel(t), w[t].pc # "picked"
        PROVE  FALSE
    <3>1. ~CancelRequested(t) /\ Active(t)
      BY <1>1, <2>1, <2>2 DEF CheckCancel, Fine
    <3> QED
      BY <2>1, <3>1 DEF CancelRequested
  <2>3. ASSUME NEW u \in Tasks, Advance(u) \/ Fail(u), ~(u = t /\ CheckCancel(t))
        PROVE  w'[t].pc # "picked" \/ w'[t] = w[t]
    <3>1. w'[t] = w[t] \/ u = t
      BY <2>1, <2>3 DEF Advance, Scan, Load, Discover, SkipFile, StartFile, FileScanned,
           FileFails, CheckCancel, MarkCodes, Decide, Finish, Fail, Ends
    <3>2. CASE u = t
      <4>1. CASE Load(t)
        BY <2>1, <4>1 DEF Load, Off
      <4>2. CASE Discover(t)
        BY <2>1, <4>2 DEF Discover, Worker
      <4>3. CASE FileScanned(t)
        <5>1. PICK obsolete \in SUBSET {w[t].current} :
                w' = [w EXCEPT ![t].pc = "scanning", ![t].current = NoFile,
                               ![t].codes = @ \cup obsolete]
          BY <4>3 DEF FileScanned
        <5> QED
          BY <2>1, <5>1 DEF Worker
      <4>4. CASE FileFails(t)
        BY <2>1, <4>4 DEF FileFails, Worker
      <4>5. CASE MarkCodes(t)
        BY <2>1, <4>5 DEF MarkCodes, Worker
      <4>6. CASE Decide(t)
        BY <2>1, <4>6 DEF Decide, Worker
      <4>7. ASSUME NEW f \in Files, SkipFile(t, f)
            PROVE  w'[t].pc # "picked"
        BY <2>1, <4>7 DEF SkipFile, Worker
      <4>8. ASSUME NEW f \in Files, StartFile(t, f)
            PROVE  w'[t].pc # "picked"
        BY <2>1, <4>8 DEF StartFile, Worker
      <4>9. CASE Finish(t) \/ Fail(t)
        <5>1. w' = [w EXCEPT ![t] = Off]
          BY <4>9 DEF Finish, Fail, Ends
        <5> QED
          BY <2>1, <5>1 DEF Off
      <4> QED
        BY <2>3, <3>2, <4>1, <4>2, <4>3, <4>4, <4>5, <4>6, <4>7, <4>8, <4>9
        DEF Advance, Scan
    <3> QED
      BY <3>1, <3>2
  <2>4. CASE Crash
    BY <1>1, <2>1, <2>4 DEF Crash, Off
  <2>5. CASE UNCHANGED w
    BY <1>1, <2>5
  <2> QED
    BY <1>1, <2>1, <2>2, <2>3, <2>4, <2>5
    DEF Next, vars, QueueScan, Retry, CancelRead, CancelWrite, ReportProgress, FileChanges
<1>2. ASSUME IInv, Stopping, [Next]_vars
      PROVE  [\A t \in accepted \ unheard : w'[t].pc = "picked" => w[t].pc = "picked"]_vars
  BY <1>1, <1>2
<1>3. IInv /\ Stopping /\ [Next]_vars => Stopping'
  BY StoppingInductive
<1> QED
  BY <1>2, <1>3, Initially, Inductive, StoppingInitially, PTL DEF Spec, CancelHeard
=============================================================================
