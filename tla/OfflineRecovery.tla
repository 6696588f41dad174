--------------------------- MODULE OfflineRecovery ---------------------------
(***************************************************************************)
(* Magnet failover of the cloud offline downloads of one catalogue work    *)
(* (services/offline_control.py, offline_recovery.py, pan_offline_enqueue, *)
(* the 115 half of pan_poller.py and the task rows of db/repository.py).   *)
(*                                                                         *)
(* One asyncio loop runs the poller and every HTTP request.  A database    *)
(* session never awaits, so a session is one action; a call to the 115     *)
(* service is an await, so the request leaves in one action, takes effect  *)
(* in a second and is answered in a third, and everything else may run in  *)
(* between.  call[a] holds what actor a carries across its await: the      *)
(* values it read before it, which the row may no longer hold after it.    *)
(***************************************************************************)
EXTENDS Naturals, Sequences, FiniteSets

CONSTANTS
    Hashes,       \* info hashes of the magnets known for the work
    NoHash,       \* next_hash is None
    Clients,      \* requests the web application can have in flight
    Poller,       \* the poller task
    MaxAttempts,  \* MAX_MAGNET_ATTEMPTS
    ListLimit,    \* rows advance_pending looks at, newest first
    LostReplies,  \* TRUE: an error may hide that the request took effect
    MaxRows,      \* bound: task rows created
    MaxRequests,  \* bound: cancel and next requests
    MaxEnqueues,  \* bound: submissions by the user
    MaxCrashes    \* bound: restarts of the process

ASSUME HashesAssumption == NoHash \notin Hashes
ASSUME ActorsAssumption == Poller \notin Clients
ASSUME BoundsAssumption ==
    /\ MaxAttempts \in Nat \ {0}
    /\ ListLimit \in Nat \ {0}
    /\ LostReplies \in BOOLEAN
    /\ MaxRows \in Nat /\ MaxRequests \in Nat /\ MaxEnqueues \in Nat
    /\ MaxCrashes \in Nat

VARIABLES
    row,       \* the pan_offline_tasks table with its recovery_json
    remote,    \* the task list of the 115 account
    call,      \* the awaiting coroutine of every actor
    seen,      \* by_hash: the listing the poll wave works from
    todo,      \* rows the poll wave still has to apply
    finished,  \* completions the poll wave still has to run
    behind,    \* history: rows rewritten since an actor read them, with that actor
    overtaken, \* history: rows it has written over nevertheless
    unrecorded,\* history: magnets at the service that no row names any more,
               \* or that a submission has not written down yet
    requests, enqueues, crashes

vars == <<row, remote, call, seen, todo, finished, behind, overtaken, unrecorded,
          requests, enqueues, crashes>>
bounds == <<requests, enqueues, crashes>>
overlaps == <<behind, overtaken>>
wave == <<seen, todo, finished>>

Rows == 1..MaxRows          \* in the order of created_at
Actors == Clients \cup {Poller}
OptHash == Hashes \cup {NoHash}
Statuses == {"none", "running", "failed", "done", "cancelled"}
Steps == {"", "cancel", "switch", "submit"}
RemoteStates == {"absent", "running", "failed", "finished"}

RowType == [status: Statuses, hash: OptHash, attempts: Seq(Hashes),
            action: Steps, next: OptHash, exhausted: BOOLEAN]
CallType == [pc: {"idle", "removing", "removed", "submitting", "submitted",
                  "refused", "listed", "applying", "completing"},
             row: 0..MaxRows, action: Steps \cup {"enqueue"},
             hash: OptHash, next: OptHash]

NoTask == [status |-> "none", hash |-> NoHash, attempts |-> <<>>,
           action |-> "", next |-> NoHash, exhausted |-> FALSE]
Idle == [pc |-> "idle", row |-> 0, action |-> "", hash |-> NoHash,
         next |-> NoHash]
PollerAt(label) == [Idle EXCEPT !.pc = label]
NothingSeen == [h \in Hashes |-> "absent"]

(* The session that applies a listing does not await: nothing else runs in *)
(* it, and it commits as a whole.                                          *)
Applying == call[Poller].pc = "applying"
At(a, label) == call[a].pc = label /\ ~Applying

Created(r) == row[r].status # "none"
(* Mutant: a cancelled or finished row accepts cancel and next.            *)
CancellableAlways(r) == row[r].status # "none"
Cancellable(r) == row[r].status \in {"running", "failed"}
Pending(r) == Cancellable(r) /\ row[r].action # ""
Attempted(t) == {t.attempts[i] : i \in 1..Len(t.attempts)}

-----------------------------------------------------------------------------
(* Checkpoint transitions (offline_recovery.py)                            *)

SeedRecovery(h) ==
    [status |-> "running", hash |-> h, attempts |-> <<h>>,
     action |-> "", next |-> NoHash, exhausted |-> FALSE]

BeginCancel(t) == [t EXCEPT !.action = "cancel", !.next = NoHash]

(* The ranking only orders the candidates, so any of them may come first.  *)
BusyHashes(r) ==
    {row[q].hash : q \in {p \in Rows \ {r} : row[p].status \in {"running", "done"}}}
(* Mutants: the cap is not applied; tried magnets are offered again.       *)
CandidatesUncapped(r) == Hashes \ (Attempted(row[r]) \cup BusyHashes(r))
CandidatesRepeated(r) ==
    IF Len(row[r].attempts) >= MaxAttempts THEN {}
    ELSE Hashes \ BusyHashes(r)
Candidates(r) ==
    IF Len(row[r].attempts) >= MaxAttempts THEN {}
    ELSE Hashes \ (Attempted(row[r]) \cup BusyHashes(r))

Exhaust(t) == [t EXCEPT !.status = "failed", !.exhausted = TRUE,
                        !.action = "", !.next = NoHash]
(* Mutant: the switch goes straight to its submission.                     *)
QueueSubmit(t, h) == [t EXCEPT !.action = "submit", !.next = h,
                               !.exhausted = FALSE]
QueueSwitch(t, h) == [t EXCEPT !.action = "switch", !.next = h,
                               !.exhausted = FALSE]
(* The rows a switch of t, which is row r, may leave behind.               *)
BeginSwitch(r, t) ==
    IF Candidates(r) = {} THEN {Exhaust(t)}
    ELSE {QueueSwitch(t, h) : h \in Candidates(r)}

(* Mutant: the row still names the magnet it left.                         *)
AfterSubmitOldHash(t, h) ==
    [t EXCEPT !.status = "running", !.action = "",
              !.attempts = Append(t.attempts, h), !.next = NoHash]
AfterSubmit(t, h) ==
    [t EXCEPT !.status = "running", !.hash = h, !.action = "",
              !.attempts = Append(t.attempts, h), !.next = NoHash]
SubmitFailed(t) == [t EXCEPT !.status = "failed", !.action = ""]
MissingNext(t) == [SubmitFailed(t) EXCEPT !.exhausted = TRUE]
Cancelled(t) == [t EXCEPT !.status = "cancelled", !.action = ""]

-----------------------------------------------------------------------------
(* No lock keeps two actors from one row: the sessions after an await      *)
(* reload it but go on with what was read before.  A session of a that     *)
(* writes row r leaves every other actor with r in hand behind, and        *)
(* overtakes whoever wrote r since a read it: a removal or a refused       *)
(* submission that is answered late, a switch recorded over a cancel, a    *)
(* completion over a cancelled row.  The properties of a row hold until    *)
(* one of its sessions is late, and again once the user submits it anew.   *)

InHand(a) == {call[a].row} \cup IF a = Poller THEN finished ELSE {}
Others(a, r) == {<<b, r>> : b \in {o \in Actors \ {a} : r \in InHand(o)}}
Rewrites(a, r) ==
    /\ behind' = (behind \cup Others(a, r)) \ {<<a, r>>}
    /\ overtaken' = IF <<a, r>> \in behind THEN overtaken \cup {r} ELSE overtaken

(***************************************************************************)
(* The first session of advance() on row r, whose content is t: it returns *)
(* when nothing is pending, sends a removal for cancel and switch, and for *)
(* submit sends the queued magnet or gives up when none is queued.         *)
(***************************************************************************)
Sent(r, t, label) == [pc |-> label, row |-> r, action |-> t.action,
                      hash |-> t.hash, next |-> t.next]
Advance(a, r, t) ==
    \/ /\ t.action \in {"cancel", "switch"}
       /\ row' = [row EXCEPT ![r] = t]
       /\ call' = [call EXCEPT ![a] = Sent(r, t, "removing")]
    \/ /\ t.action = "submit" /\ t.next # NoHash
       /\ row' = [row EXCEPT ![r] = t]
       /\ call' = [call EXCEPT ![a] = Sent(r, t, "submitting")]
    \/ /\ t.action = "submit" /\ t.next = NoHash
       /\ row' = [row EXCEPT ![r] = MissingNext(t)]
       /\ call' = [call EXCEPT ![a] = Idle]
    \/ /\ t.action = ""
       /\ row' = [row EXCEPT ![r] = t]
       /\ call' = [call EXCEPT ![a] = Idle]

-----------------------------------------------------------------------------
(* Requests of the web application                                         *)

(* The queued magnet that row r forgets when it becomes t, if an earlier   *)
(* submission, whose answer was lost or that is still under way, had       *)
(* reached the service.                                                    *)
Forgotten(r, t) ==
    {h \in {row[r].next} \ {t.next, NoHash} : remote[h] # "absent"}

RequestCancel(a, r) ==
    /\ At(a, "idle") /\ requests < MaxRequests
    /\ Cancellable(r)
    /\ requests' = requests + 1
    /\ Advance(a, r, BeginCancel(row[r]))
    /\ Rewrites(a, r)
    /\ unrecorded' = unrecorded \cup Forgotten(r, BeginCancel(row[r]))
    /\ UNCHANGED <<remote, wave, enqueues, crashes>>

RequestNext(a, r) ==
    /\ At(a, "idle") /\ requests < MaxRequests
    /\ Cancellable(r) /\ row[r].action = ""
    /\ requests' = requests + 1
    /\ \E t \in BeginSwitch(r, row[r]) :
         /\ Advance(a, r, t)
         /\ unrecorded' = unrecorded \cup Forgotten(r, t)
    /\ Rewrites(a, r)
    /\ UNCHANGED <<remote, wave, enqueues, crashes>>

(* find_pan_offline_by_hash: a row of the work with that hash, or none.    *)
RowsWith(h) == {r \in Rows : Created(r) /\ row[r].hash = h}
Unused == {r \in Rows : ~Created(r)}
Enqueuing == {a \in Actors : call[a].action = "enqueue"}

(* A running row with the magnet is returned as it is; otherwise the read  *)
(* session is committed and the magnet is submitted.                       *)
RequestEnqueue(a, h) ==
    /\ At(a, "idle") /\ enqueues < MaxEnqueues
    /\ Cardinality(Enqueuing) < Cardinality(Unused)
    /\ \/ RowsWith(h) = {}
       \/ \E r \in RowsWith(h) : row[r].status # "running"
    /\ enqueues' = enqueues + 1
    /\ call' = [call EXCEPT ![a] = [pc |-> "submitting", row |-> 0,
                                    action |-> "enqueue", hash |-> NoHash,
                                    next |-> h]]
    /\ UNCHANGED <<row, remote, wave, overlaps, unrecorded, requests, crashes>>

-----------------------------------------------------------------------------
(* The awaits of a call and what it does when they are answered            *)

Reply(a, label) == call' = [call EXCEPT ![a].pc = label]
Return(a) == call' = [call EXCEPT ![a] = Idle]
Late(a) == <<a, call[a].row>> \in behind

Removes(h) == /\ remote' = [remote EXCEPT ![h] = "absent"]
              /\ unrecorded' = unrecorded \ {h}
(* del_task takes effect at the service and is answered.                   *)
RemovalDone(a) ==
    /\ At(a, "removing")
    /\ Removes(call[a].hash)
    /\ Reply(a, "removed")
    /\ UNCHANGED <<row, wave, overlaps, bounds>>

(* Mutant: a failed removal is taken for a successful one.                 *)
RemovalIgnored(a) ==
    /\ At(a, "removing")
    /\ Reply(a, "removed")
    /\ UNCHANGED <<row, remote, wave, overlaps, unrecorded, bounds>>

(* It fails, or its answer is lost: the exception leaves advance() and the *)
(* row keeps its pending action.                                           *)
RemovalRaised(a) ==
    /\ At(a, "removing")
    /\ \/ UNCHANGED <<remote, unrecorded>>
       \/ LostReplies /\ Removes(call[a].hash)
    /\ Return(a)
    /\ behind' = behind \ {<<a, call[a].row>>}
    /\ UNCHANGED <<row, wave, overtaken, bounds>>

(* The second session reloads the row but goes on with the action read in  *)
(* the first; a switch runs advance() again.                               *)
AfterRemoval(a) ==
    LET r == call[a].row IN
    /\ At(a, "removed")
    /\ \/ /\ call[a].action = "cancel"
          /\ row' = [row EXCEPT ![r] = Cancelled(@)]
          /\ Return(a)
       \/ /\ call[a].action = "switch"
          /\ Advance(a, r, [row[r] EXCEPT !.action = "submit"])
    /\ Rewrites(a, r)
    /\ UNCHANGED <<remote, wave, unrecorded, bounds>>

Starts(h) == remote' = [remote EXCEPT ![h] = "running"]
Unrecord(a, h) ==
    unrecorded' = IF call[a].action = "enqueue" \/ Late(a) THEN unrecorded \cup {h}
                  ELSE unrecorded

(* A new download starts, a history without files is cleared and started   *)
(* again, or a running or complete one is adopted.                         *)
SubmitAccepted(a) ==
    LET h == call[a].next IN
    /\ At(a, "submitting")
    /\ \/ remote[h] # "running" /\ Starts(h)
       \/ remote[h] \in {"running", "finished"} /\ UNCHANGED remote
    /\ Unrecord(a, h)
    /\ Reply(a, "submitted")
    /\ UNCHANGED <<row, wave, overlaps, bounds>>

(* A conflict, an API error, or an HTTP error that hides a started task.   *)
SubmitRefused(a) ==
    LET h == call[a].next IN
    /\ At(a, "submitting")
    /\ \/ UNCHANGED <<remote, unrecorded>>
       \/ LostReplies /\ remote[h] = "absent" /\ Starts(h) /\ Unrecord(a, h)
    /\ Reply(a, "refused")
    /\ UNCHANGED <<row, wave, overlaps, bounds>>

(* What a row that was overtaken leaves may still be at the service.       *)
RecordSwitch(a) ==
    LET r == call[a].row
        h == call[a].next
    IN /\ At(a, "submitted") /\ call[a].action = "submit"
       /\ row' = [row EXCEPT ![r] = AfterSubmit(@, h)]
       /\ Return(a)
       /\ Rewrites(a, r)
       /\ unrecorded' =
            (unrecorded \cup IF r \in overtaken'
                             THEN {g \in {row[r].hash, row[r].next} \ {NoHash} :
                                    remote[g] # "absent"}
                             ELSE {}) \ {h}
       /\ UNCHANGED <<remote, wave, bounds>>

RecordRefusal(a) ==
    LET r == call[a].row IN
    /\ At(a, "refused")
    /\ row' = IF call[a].action = "enqueue" THEN row
              ELSE [row EXCEPT ![r] = SubmitFailed(@)]
    /\ Return(a)
    /\ IF call[a].action = "enqueue" THEN UNCHANGED overlaps ELSE Rewrites(a, r)
    /\ UNCHANGED <<remote, wave, unrecorded, bounds>>

(* An existing row of the magnet starts over with a fresh checkpoint.      *)
RecordEnqueue(a) ==
    LET h == call[a].next
        newest == {r \in Unused : \A q \in Unused : r <= q}
    IN /\ At(a, "submitted") /\ call[a].action = "enqueue"
       /\ \E r \in IF RowsWith(h) # {} THEN RowsWith(h) ELSE newest :
            /\ row' = [row EXCEPT ![r] = SeedRecovery(h)]
            /\ unrecorded' = (unrecorded \cup Forgotten(r, SeedRecovery(h))) \ {h}
            /\ behind' = behind \cup Others(a, r)
            /\ overtaken' = overtaken \ {r}
       /\ Return(a)
       /\ UNCHANGED <<remote, wave, bounds>>

-----------------------------------------------------------------------------
(* The poll wave (poll_once).  Without a running row it returns before it  *)
(* lists anything and before advance_pending.                              *)

PollList ==
    /\ call[Poller].pc = "idle"
    /\ \E r \in Rows : row[r].status = "running"
    /\ seen' = remote
    /\ call' = [call EXCEPT ![Poller] = PollerAt("listed")]
    /\ UNCHANGED <<row, remote, todo, finished, overlaps, unrecorded, bounds>>

(* get_task_list raises: the wave ends without applying or advancing.      *)
PollFailed ==
    /\ call[Poller].pc = "listed"
    /\ Return(Poller)
    /\ seen' = NothingSeen
    /\ UNCHANGED <<row, remote, todo, finished, overlaps, unrecorded, bounds>>

PollApply ==
    /\ call[Poller].pc = "listed"
    /\ todo' = {r \in Rows : row[r].status = "running"}
    /\ call' = [call EXCEPT ![Poller] = PollerAt("applying")]
    /\ UNCHANGED <<row, remote, seen, finished, overlaps, unrecorded, bounds>>

(* note_observation: a failed or stalled download queues a switch, unless  *)
(* one is pending, none is left or the user turned auto_switch off.        *)
Observed(r, t) ==
    IF t.action # "" \/ t.exhausted THEN {t} ELSE {t} \cup BeginSwitch(r, t)

ApplyRow(r) ==
    LET listed == seen[row[r].hash] IN
    /\ call[Poller].pc = "applying" /\ r \in todo
    /\ todo' = todo \ {r}
    /\ \/ /\ listed = "absent"
          /\ UNCHANGED <<row, finished>>
       \/ /\ listed = "running"
          /\ \E t \in Observed(r, row[r]) : row' = [row EXCEPT ![r] = t]
          /\ UNCHANGED finished
       \/ /\ listed = "failed"
          /\ \E t \in Observed(r, [row[r] EXCEPT !.status = "failed"]) :
               row' = [row EXCEPT ![r] = t]
          /\ UNCHANGED finished
       \/ /\ listed = "finished"
          /\ finished' = finished \cup {r}
          /\ UNCHANGED row
    /\ UNCHANGED <<remote, call, seen, overlaps, unrecorded, bounds>>

ApplyEnd ==
    /\ call[Poller].pc = "applying" /\ todo = {}
    /\ call' = [call EXCEPT ![Poller] = PollerAt("completing")]
    /\ seen' = NothingSeen
    /\ UNCHANGED <<row, remote, todo, finished, overlaps, unrecorded, bounds>>

(* _complete: after the awaits that export the result the row is done,     *)
(* whatever it has become meanwhile.                                       *)
Complete(r) ==
    /\ call[Poller].pc = "completing" /\ r \in finished
    /\ row' = [row EXCEPT ![r].status = "done"]
    /\ finished' = finished \ {r}
    /\ Rewrites(Poller, r)
    /\ UNCHANGED <<remote, call, seen, todo, unrecorded, bounds>>

(* Mutant: the oldest row of a full window is left out.                    *)
InWindowShort(r) == Cardinality({q \in Rows : Created(q) /\ q >= r}) < ListLimit
(* advance_pending: the newest pending row among the newest ListLimit.     *)
InWindow(r) == Cardinality({q \in Rows : Created(q) /\ q >= r}) <= ListLimit
PendingRows == {r \in Rows : Pending(r) /\ InWindow(r)}
AdvancePending ==
    /\ call[Poller].pc = "completing" /\ finished = {}
    /\ \/ \E r \in PendingRows :
            /\ \A q \in PendingRows : q <= r
            /\ Advance(Poller, r, row[r])
            /\ IF row' = row THEN UNCHANGED overlaps ELSE Rewrites(Poller, r)
       \/ /\ PendingRows = {}
          /\ Return(Poller)
          /\ UNCHANGED <<row, overlaps>>
    /\ UNCHANGED <<remote, wave, unrecorded, bounds>>

-----------------------------------------------------------------------------
(* The service and the process                                             *)

RemoteEnds(h) ==
    /\ remote[h] = "running" /\ ~Applying
    /\ \E s \in {"failed", "finished"} : remote' = [remote EXCEPT ![h] = s]
    /\ UNCHANGED <<row, call, wave, overlaps, unrecorded, bounds>>

Crash ==
    /\ crashes < MaxCrashes /\ ~Applying
    /\ crashes' = crashes + 1
    /\ call' = [a \in Actors |-> Idle]
    /\ seen' = NothingSeen /\ todo' = {} /\ finished' = {} /\ behind' = {}
    /\ UNCHANGED <<row, remote, overtaken, unrecorded, requests, enqueues>>

-----------------------------------------------------------------------------
Init ==
    /\ row = [r \in Rows |-> NoTask]
    /\ remote = NothingSeen
    /\ call = [a \in Actors |-> Idle]
    /\ seen = NothingSeen /\ todo = {} /\ finished = {}
    /\ behind = {} /\ overtaken = {} /\ unrecorded = {}
    /\ requests = 0 /\ enqueues = 0 /\ crashes = 0

UserRequest(a) ==
    \/ \E r \in Rows : RequestCancel(a, r) \/ RequestNext(a, r)
    \/ \E h \in Hashes : RequestEnqueue(a, h)
Resume(a) == AfterRemoval(a) \/ RecordSwitch(a) \/ RecordRefusal(a) \/ RecordEnqueue(a)
Answer(a) == RemovalDone(a) \/ RemovalRaised(a) \/ SubmitAccepted(a) \/ SubmitRefused(a)
PollStep ==
    PollList \/ PollFailed \/ PollApply \/ (\E r \in Rows : Complete(r)) \/ AdvancePending
ApplyStep == (\E r \in Rows : ApplyRow(r)) \/ ApplyEnd

Next ==
    \/ \E a \in Clients : UserRequest(a)
    \/ \E a \in Actors : Resume(a) \/ Answer(a)
    \/ PollStep \/ ApplyStep
    \/ \E h \in Hashes : RemoteEnds(h)
    \/ Crash

Spec == Init /\ [][Next]_vars

(* The loop runs what is ready and the service answers; a listing or a     *)
(* removal that is retried for ever succeeds at last.  Users and crashes   *)
(* are not fair.                                                           *)
Fairness ==
    /\ WF_vars(ApplyStep) /\ WF_vars(PollStep)
    /\ SF_vars(PollApply)
    /\ \A a \in Actors : /\ WF_vars(Resume(a))
                         /\ WF_vars(Answer(a))
                         /\ SF_vars(RemovalDone(a))
FairSpec == Spec /\ Fairness

-----------------------------------------------------------------------------
TypeOK ==
    /\ row \in [Rows -> RowType]
    /\ remote \in [Hashes -> RemoteStates]
    /\ call \in [Actors -> CallType]
    /\ seen \in [Hashes -> RemoteStates]
    /\ todo \subseteq Rows /\ finished \subseteq Rows
    /\ behind \subseteq Actors \X Rows /\ overtaken \subseteq Rows
    /\ unrecorded \subseteq Hashes
    /\ requests \in 0..MaxRequests /\ enqueues \in 0..MaxEnqueues
    /\ crashes \in 0..MaxCrashes

(* A row's hash is the last magnet tried, and a magnet it queues next has  *)
(* not been tried: no interleaving of calls makes failover come back to a  *)
(* magnet that is in the checkpoint (attempted_hashes, begin_switch).      *)
Consistent(t) ==
    /\ Len(t.attempts) > 0 /\ t.hash = t.attempts[Len(t.attempts)]
    /\ t.next \notin Attempted(t)
    /\ t.action = "switch" => t.next # NoHash
CheckpointConsistent == \A r \in Rows : Created(r) => Consistent(row[r])

(* A task tries at most MAX_MAGNET_ATTEMPTS magnets, each of them once,    *)
(* unless a switch was recorded over what another session had written.     *)
AttemptsCapped ==
    \A r \in Rows \ overtaken :
        LET tries == row[r].attempts IN
        /\ Len(tries) <= MaxAttempts
        /\ \A i, j \in 1..Len(tries) : i # j => tries[i] # tries[j]

(* Another row, or a submission that no row names, has the magnet h.       *)
HeldBeside(r, h) ==
    \/ h \in unrecorded
    \/ \E q \in Rows \ {r} : Created(q) /\ h \in {row[q].hash, row[q].next}

(* When a replacement is submitted the service no longer has the download  *)
(* the row is leaving ("never submitted until removal of its predecessor   *)
(* has succeeded", offline_recovery), unless a session on the row was late.*)
StartsReplacement(a) ==
    /\ call[a].pc # "submitting"
    /\ call'[a].pc = "submitting" /\ call'[a].action = "submit"
PredecessorRemoved ==
    [][\A a \in Actors : StartsReplacement(a) =>
         LET r == call'[a].row IN
         \/ remote[row[r].hash] = "absent" \/ HeldBeside(r, row[r].hash)
         \/ r \in overtaken']_vars

(* A cancelled row stays cancelled until the user submits its magnet       *)
(* again.  What revives it all the same is a session that read the row     *)
(* before the cancel and writes it after (_complete writes "done", a late  *)
(* answer to a switch "running"); no other call, wave or restart does.     *)
CancelSticks ==
    [][\A r \in Rows :
         row[r].status = "cancelled" =>
             \/ row'[r].status = "cancelled" \/ r \in overtaken'
             \/ \E a \in Actors : /\ call[a].pc = "submitted"
                                  /\ call[a].action = "enqueue"
                                  /\ call[a].next = row[r].hash]_vars

(* The service does not keep downloading for a row the user cancelled, if  *)
(* no session on the row was late.                                         *)
CancelledIsRemoved ==
    \A r \in Rows \ overtaken : row[r].status = "cancelled" =>
        remote[row[r].hash] = "absent" \/ HeldBeside(r, row[r].hash)

(* Every download at the service is the current or the queued magnet of    *)
(* some row, also after a restart between a submission and the session     *)
(* that records it or a reply that was lost.  The exceptions: an enqueue   *)
(* that never returned, a queued magnet whose submission had an error and  *)
(* that the user's cancel, next or new submission makes the row forget,    *)
(* and what a late session submits or writes over.                         *)
DownloadsAccounted ==
    \A h \in Hashes : remote[h] # "absent" =>
        \/ h \in unrecorded
        \/ \E r \in Rows : Created(r) /\ h \in {row[r].hash, row[r].next}

(* A recovery action of a running row is carried out or abandoned at last, *)
(* also when removals fail for a while and the process restarts.           *)
RunningActionResolves ==
    \A r \in Rows : row[r].status = "running" /\ row[r].action # ""
                    ~> row[r].action = "" \/ row[r].status # "running"

(* A recovery action of any row is carried out or abandoned at last.       *)
PendingActionResolves ==
    \A r \in Rows : Pending(r) ~> ~Pending(r)
=============================================================================
