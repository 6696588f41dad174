----------------------------- MODULE LibraryScan -----------------------------
(***************************************************************************)
(* The background scans of one library (api.py, services/library_jobs.py,  *)
(* resumable_jobs.py, scanner.py and the task rows of db/repository.py).   *)
(*                                                                         *)
(* Every scan runs in a thread with a database session of its own, which   *)
(* keeps the task row it loaded (expire_on_commit=False): w[t].copy is that *)
(* row, and progress is written from it.  The session commits after every  *)
(* file; requests of the web application run in other threads and commit   *)
(* between any two steps.                                                  *)
(***************************************************************************)
EXTENDS Naturals, FiniteSets

CONSTANTS
    Files, NoFile,
    OnlyNew,     \* ScanRequest.only_new
    MaxTasks,    \* bound: scans queued
    MaxChanges,  \* bound: changes of files on disk
    MaxFailures, \* bound: scans that end with an exception
    MaxCrashes   \* bound: restarts of the process

ASSUME ConstantsAssumption ==
    /\ NoFile \notin Files
    /\ OnlyNew \in BOOLEAN
    /\ MaxTasks \in Nat /\ MaxChanges \in Nat
    /\ MaxFailures \in Nat /\ MaxCrashes \in Nat

VARIABLES
    task,      \* task_runs: status, summary.cancel_requested, finished_at
    checkpoint,\* job_checkpoints.status of the task
    items,     \* library_scan_items: files a task has committed
    codes,     \* the ones among them whose item names an obsolete code
    w,         \* the scanning threads
    cancel,    \* a cancel request between its read and its write
    marked,    \* the obsolete-export queue, by the file that named the code
    fresh,     \* files whose asset row is up to date
    found,     \* history: files whose scan made a code obsolete
    accepted,  \* history: unfinished tasks whose cancel request was answered
    unheard,   \* history: those whose cancel the first progress overwrote
    view,      \* history: what the scan, or the one it continues, saw
    changes, failures, crashes

db == <<task, checkpoint, items, codes>>
history == <<found, accepted, unheard, view>>
bounds == <<changes, failures, crashes>>
vars == <<db, w, cancel, marked, fresh, history, bounds>>

Tasks == 1..MaxTasks
Final == {"succeeded", "partial", "cancelled", "failed"}
Statuses == {"none", "queued", "running", "cancel_requested"} \cup Final
Row == [status : Statuses, asked : BOOLEAN, finished : BOOLEAN]
Worker == [pc : {"off", "loaded", "scanning", "picked", "file", "marking",
                 "deciding", "finishing"},
           copy : Row, done : SUBSET Files, todo : SUBSET Files,
           current : Files \cup {NoFile}, codes : SUBSET Files,
           errors : BOOLEAN, cancelled : BOOLEAN]

NoTask == [status |-> "none", asked |-> FALSE, finished |-> FALSE]
Off == [pc |-> "off", copy |-> NoTask, done |-> {}, todo |-> {},
        current |-> NoFile, codes |-> {}, errors |-> FALSE, cancelled |-> FALSE]
NoCancel == [task |-> 0, status |-> "none"]

Exists(t) == task[t].status # "none"
Active(t) == Exists(t) /\ ~task[t].finished
Unused == {t \in Tasks : ~Exists(t)}
Newest == CHOOSE t \in Unused : \A u \in Unused : t <= u

-----------------------------------------------------------------------------
(* Requests                                                                *)

Queued == [status |-> "queued", asked |-> FALSE, finished |-> FALSE]

(* BEGIN IMMEDIATE makes the check and the insertion one transaction.      *)
(* Mutant: without it another request is admitted in between.              *)
AdmitUnchecked == Unused # {}
Admit == Unused # {} /\ \A t \in Tasks : ~Active(t)

QueueScan ==
    /\ Admit
    /\ task' = [task EXCEPT ![Newest] = Queued]
    /\ checkpoint' = [checkpoint EXCEPT ![Newest] = "queued"]
    /\ UNCHANGED <<items, codes, w, cancel, marked, fresh, history, bounds>>

Inherit(n, t) ==
    /\ items' = [items EXCEPT ![n] = items[t]]
    /\ codes' = [codes EXCEPT ![n] = codes[t]]

Retryable(t) == task[t].finished /\ task[t].status \in {"failed", "partial", "cancelled"}
Retry(t) ==
    /\ Retryable(t) /\ Admit
    /\ task' = [task EXCEPT ![Newest] = Queued]
    /\ checkpoint' = [checkpoint EXCEPT ![Newest] = "queued"]
    /\ Inherit(Newest, t)
    /\ view' = [view EXCEPT ![Newest] =
                  [f \in Files |-> IF f \in items[t] THEN view[t][f] ELSE "unseen"]]
    /\ UNCHANGED <<w, cancel, marked, fresh, found, accepted, unheard, bounds>>

(* The request reads the row in one transaction and writes it in another,  *)
(* whatever became of the row in between; it writes what it has changed.   *)
CancelRead(t) ==
    /\ cancel = NoCancel /\ Active(t)
    /\ cancel' = [task |-> t, status |-> task[t].status]
    /\ UNCHANGED <<db, w, marked, fresh, history, bounds>>
CancelWrite ==
    LET t == cancel.task IN
    /\ cancel # NoCancel
    /\ task' = [task EXCEPT ![t].asked = TRUE,
                  ![t].status = IF cancel.status = "cancel_requested" THEN @
                                ELSE "cancel_requested"]
    /\ accepted' = IF task[t].finished THEN accepted ELSE accepted \cup {t}
    /\ unheard' = IF cancel.status = "cancel_requested" THEN unheard ELSE unheard \ {t}
    /\ cancel' = NoCancel
    /\ UNCHANGED <<checkpoint, items, codes, w, marked, fresh, found, view, bounds>>

-----------------------------------------------------------------------------
(* The worker                                                              *)

(* Started with the task, or by the start of the process for every task    *)
(* left unfinished: mark_interrupted closes none that has its checkpoint.  *)
(* Mutant: a task whose cancellation was asked for is not recovered.       *)
RecoverableRunning(t) == Active(t) /\ task[t].status # "cancel_requested"
Recoverable(t) == Active(t) /\ checkpoint[t] = "queued"

(* Mutant: the committed items are not read.                               *)
LoadForgetful(t) ==
    /\ w[t].pc = "off" /\ Recoverable(t)
    /\ w' = [w EXCEPT ![t] = [Off EXCEPT !.pc = "loaded", !.copy = task[t],
                                        !.codes = codes[t]]]
    /\ UNCHANGED <<db, cancel, marked, fresh, history, bounds>>
(* Mutant: only the codes of this run are handed on.                       *)
LoadWithoutCodes(t) ==
    /\ w[t].pc = "off" /\ Recoverable(t)
    /\ w' = [w EXCEPT ![t] = [Off EXCEPT !.pc = "loaded", !.copy = task[t],
                                        !.done = items[t]]]
    /\ UNCHANGED <<db, cancel, marked, fresh, history, bounds>>
Load(t) ==
    /\ w[t].pc = "off" /\ Recoverable(t)
    /\ w' = [w EXCEPT ![t] = [Off EXCEPT !.pc = "loaded", !.copy = task[t],
                                        !.done = items[t], !.codes = codes[t]]]
    /\ UNCHANGED <<db, cancel, marked, fresh, history, bounds>>

(* update_task_progress writes what changed in the session's copy: always  *)
(* the summary, the status only when the copy did not say "running" yet.   *)
(* Mutant: the status of a cancelled task is overwritten too.              *)
ProgressRunning(t) ==
    [task EXCEPT ![t].asked = w[t].copy.asked,
                 ![t].status = IF w[t].copy.status = "running" THEN @ ELSE "running"]
Progress(t) ==
    [task EXCEPT ![t].asked = w[t].copy.asked,
                 ![t].status = IF w[t].copy.status = "queued" THEN "running" ELSE @]

(* The first progress is committed and the directories are listed; the     *)
(* ones that cannot be listed are errors.                                  *)
Discover(t) ==
    /\ w[t].pc = "loaded"
    /\ task' = Progress(t)
    /\ unheard' = IF w[t].copy.status = "queued" THEN unheard \cup ({t} \cap accepted)
                  ELSE unheard
    /\ \E listed \in SUBSET Files :
         w' = [w EXCEPT ![t].pc = "scanning", ![t].todo = listed,
                        ![t].errors = (listed # Files),
                        ![t].copy.status = IF @ = "queued" THEN "running" ELSE @]
    /\ UNCHANGED <<checkpoint, items, codes, cancel, marked, fresh, found, accepted, view,
                   bounds>>

CancelRequested(t) == task[t].status = "cancel_requested" \/ task[t].asked

(* Before every file the loop asks for a cancellation; what it reads may   *)
(* change before the file is begun.                                        *)
CheckCancel(t) ==
    /\ w[t].pc = "scanning"
    /\ w' = [w EXCEPT ![t].pc = IF w[t].todo = {} \/ CancelRequested(t) THEN "marking"
                                ELSE "picked"]
    /\ UNCHANGED <<db, cancel, marked, fresh, history, bounds>>

(* Progress is reported for some of the files.                             *)
ReportProgress(t) ==
    /\ w[t].pc = "picked"
    /\ task' = Progress(t)
    /\ UNCHANGED <<checkpoint, items, codes, w, cancel, marked, fresh, history, bounds>>

See(t, f) == view' = [view EXCEPT ![t][f] = IF f \in w[t].done THEN @ ELSE "seen"]
Skipped(t, f) == f \in w[t].done \/ (OnlyNew /\ f \in fresh)
SkipFile(t, f) ==
    /\ w[t].pc = "picked" /\ f \in w[t].todo
    /\ Skipped(t, f)
    /\ w' = [w EXCEPT ![t].pc = "scanning", ![t].todo = @ \ {f}]
    /\ See(t, f)
    /\ UNCHANGED <<db, cancel, marked, fresh, found, accepted, unheard, bounds>>
StartFile(t, f) ==
    /\ w[t].pc = "picked" /\ f \in w[t].todo
    /\ ~Skipped(t, f)
    /\ w' = [w EXCEPT ![t].pc = "file", ![t].todo = @ \ {f}, ![t].current = f]
    /\ See(t, f)
    /\ UNCHANGED <<db, cancel, marked, fresh, found, accepted, unheard, bounds>>

(* The asset, and the item with the code it made obsolete, in one commit.  *)
(* The row describes the file as it was when it was read.                  *)
FileScanned(t) ==
    LET f == w[t].current IN
    /\ w[t].pc = "file"
    /\ \E obsolete \in SUBSET {f} :
         /\ codes' = [codes EXCEPT ![t] = @ \cup obsolete]
         /\ found' = found \cup obsolete
         /\ w' = [w EXCEPT ![t].pc = "scanning", ![t].current = NoFile,
                           ![t].codes = @ \cup obsolete]
    /\ items' = [items EXCEPT ![t] = @ \cup {f}]
    /\ fresh' = IF view[t][f] = "changed" THEN fresh ELSE fresh \cup {f}
    /\ UNCHANGED <<task, checkpoint, cancel, marked, accepted, unheard, view, bounds>>

(* Mutant: a file that could not be scanned gets an item all the same.     *)
FileFailsItem(t) ==
    /\ w[t].pc = "file"
    /\ items' = [items EXCEPT ![t] = @ \cup {w[t].current}]
    /\ w' = [w EXCEPT ![t].pc = "scanning", ![t].current = NoFile, ![t].errors = TRUE]
    /\ UNCHANGED <<task, checkpoint, codes, cancel, marked, fresh, history, bounds>>
FileFails(t) ==
    /\ w[t].pc = "file"
    /\ w' = [w EXCEPT ![t].pc = "scanning", ![t].current = NoFile, ![t].errors = TRUE]
    /\ UNCHANGED <<db, cancel, marked, fresh, history, bounds>>

MarkCodes(t) ==
    /\ w[t].pc = "marking"
    /\ marked' = marked \cup w[t].codes
    /\ w' = [w EXCEPT ![t].pc = "deciding"]
    /\ UNCHANGED <<db, cancel, fresh, history, bounds>>

Decide(t) ==
    /\ w[t].pc = "deciding"
    /\ w' = [w EXCEPT ![t].pc = "finishing", ![t].cancelled = CancelRequested(t)]
    /\ UNCHANGED <<db, cancel, marked, fresh, history, bounds>>

Ends(t, status, asked) ==
    /\ task' = [task EXCEPT ![t] = [status |-> status, asked |-> asked, finished |-> TRUE]]
    /\ checkpoint' = [checkpoint EXCEPT ![t] = status]
    /\ w' = [w EXCEPT ![t] = Off]
    /\ accepted' = accepted \ {t} /\ unheard' = unheard \ {t}
Outcome(t) ==
    IF w[t].cancelled THEN "cancelled" ELSE IF w[t].errors THEN "partial" ELSE "succeeded"
Finish(t) ==
    /\ w[t].pc = "finishing"
    /\ Ends(t, Outcome(t), w[t].copy.asked)
    /\ LET kept(S) == IF Outcome(t) = "succeeded" THEN {} ELSE S
       IN /\ items' = [items EXCEPT ![t] = kept(@)]
          /\ codes' = [codes EXCEPT ![t] = kept(@)]
    /\ UNCHANGED <<cancel, marked, fresh, found, view, bounds>>

(* An exception that is no error of one file: the session is rolled back   *)
(* and another one closes the task.                                        *)
Fail(t) ==
    /\ w[t].pc # "off" /\ failures < MaxFailures
    /\ failures' = failures + 1
    /\ Ends(t, "failed", task[t].asked)
    /\ UNCHANGED <<items, codes, cancel, marked, fresh, found, view, changes, crashes>>

-----------------------------------------------------------------------------
(* The disk and the process                                                *)

FileChanges(f) ==
    /\ changes < MaxChanges
    /\ changes' = changes + 1
    /\ fresh' = fresh \ {f}
    /\ view' = [t \in Tasks |-> [view[t] EXCEPT ![f] = IF @ = "unseen" THEN @ ELSE "changed"]]
    /\ UNCHANGED <<db, w, cancel, marked, found, accepted, unheard, failures, crashes>>

(* A shutdown that stops the workers at their next check loses no more.    *)
Crash ==
    /\ crashes < MaxCrashes
    /\ crashes' = crashes + 1
    /\ w' = [t \in Tasks |-> Off] /\ cancel' = NoCancel
    /\ UNCHANGED <<db, marked, fresh, history, changes, failures>>

-----------------------------------------------------------------------------
Init ==
    /\ task = [t \in Tasks |-> NoTask] /\ checkpoint = [t \in Tasks |-> "none"]
    /\ items = [t \in Tasks |-> {}] /\ codes = [t \in Tasks |-> {}]
    /\ w = [t \in Tasks |-> Off] /\ cancel = NoCancel
    /\ marked = {} /\ fresh = {} /\ found = {} /\ accepted = {} /\ unheard = {}
    /\ view = [t \in Tasks |-> [f \in Files |-> "unseen"]]
    /\ changes = 0 /\ failures = 0 /\ crashes = 0

Scan(t) == \E f \in Files : SkipFile(t, f) \/ StartFile(t, f)
Advance(t) ==
    \/ Load(t) \/ Discover(t) \/ Scan(t) \/ FileScanned(t) \/ FileFails(t)
    \/ CheckCancel(t) \/ MarkCodes(t) \/ Decide(t) \/ Finish(t)
Next ==
    \/ QueueScan
    \/ \E t \in Tasks : Retry(t) \/ CancelRead(t) \/ Advance(t) \/ ReportProgress(t) \/ Fail(t)
    \/ CancelWrite
    \/ \E f \in Files : FileChanges(f)
    \/ Crash

Spec == Init /\ [][Next]_vars

(* The threads run and requests return.                                    *)
FairSpec == Spec /\ WF_vars(CancelWrite) /\ \A t \in Tasks : WF_vars(Advance(t))

-----------------------------------------------------------------------------
TypeOK ==
    /\ task \in [Tasks -> Row]
    /\ checkpoint \in [Tasks -> {"none", "queued"} \cup Final]
    /\ items \in [Tasks -> SUBSET Files] /\ codes \in [Tasks -> SUBSET Files]
    /\ w \in [Tasks -> Worker]
    /\ cancel \in [task : Tasks \cup {0}, status : Statuses]
    /\ marked \subseteq Files /\ fresh \subseteq Files /\ found \subseteq Files
    /\ accepted \subseteq Tasks /\ unheard \subseteq Tasks
    /\ view \in [Tasks -> [Files -> {"unseen", "seen", "changed"}]]
    /\ changes \in 0..MaxChanges /\ failures \in 0..MaxFailures
    /\ crashes \in 0..MaxCrashes

(* At most one thread scans the library, whatever is retried, cancelled or *)
(* recovered after a restart (active_library_task, recovery in lifespan).  *)
OneWorker == \A t, u \in Tasks : w[t].pc # "off" /\ w[u].pc # "off" => t = u

(* A file whose item is committed is not scanned again by the task, after  *)
(* a restart, nor by the retry that inherits its items.                    *)
NothingScannedTwice == \A t \in Tasks : w[t].current \notin items[t]

(* A cancel written over the end of its task: finished, and for ever       *)
(* "cancel_requested", so that nothing offers to retry it.                 *)
LeftCancelled(t) == task[t].finished /\ task[t].status = "cancel_requested"

(* A code that a committed file made obsolete is handed to the clean-up, or *)
(* its item is still there for the run, its recovery or a retry (or for    *)
(* nobody, when a cancel was written over the end of its task).            *)
CodesKept ==
    \A f \in found :
        \/ f \in marked
        \/ \E t \in Tasks :
              f \in codes[t] /\ (Active(t) \/ Retryable(t) \/ LeftCancelled(t))

(* When a scan reports success, every file's row is up to date, unless the *)
(* file changed after the scan, or the one it continues, came to it.       *)
Succeeds(t) == task[t].status # "succeeded" /\ task'[t].status = "succeeded"
SuccessIsComplete ==
    [][\A t \in Tasks : Succeeds(t) =>
         \A f \in Files \ fresh : view[t][f] = "changed"]_vars

(* The loop comes to no further file once a cancel request was answered    *)
(* (the file it had already come to may still be scanned).                 *)
CancelStops ==
    [][\A t \in accepted : w'[t].pc = "picked" => w[t].pc = "picked"]_vars

(* The same of every cancel but those that the first progress of the scan  *)
(* (update_task_progress) wrote over, from the row it had loaded before.   *)
CancelHeard ==
    [][\A t \in accepted \ unheard : w'[t].pc = "picked" => w[t].pc = "picked"]_vars

(* Every scan ends, also when the process restarts in between.             *)
ScanEnds == \A t \in Tasks : Exists(t) ~> task[t].finished
=============================================================================
