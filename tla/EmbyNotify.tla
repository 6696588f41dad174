------------------------------ MODULE EmbyNotify ------------------------------
(***************************************************************************)
(* The durable queue of changed paths for the Emby media server            *)
(* (services/emby_notify.py).  Producers upsert paths, a loop waits for a  *)
(* quiet period and posts everything due in chunks.  The queue lives in    *)
(* memory, in the order of a dict, and is saved whole after every change.  *)
(*                                                                         *)
(* The loop is one coroutine: between two awaits nothing else runs, except *)
(* a producer on another thread (Threaded).                                *)
(***************************************************************************)
EXTENDS Naturals, Sequences, FiniteSets, Subsequences

CONSTANTS
    Paths,
    ChunkSize,    \* MAX_UPDATES_PER_CALL
    MaxQueued,    \* MAX_QUEUED_PATHS
    Threaded,     \* TRUE: a worker thread calls enqueue, as the drain of
                  \* obsolete exports does
    MayDisable,   \* TRUE: the user may switch the notifications off
    MaxChanges,   \* bound: paths enqueued
    MaxRetries,   \* bound: retry_now requests
    MaxRestarts   \* bound: crashes and clean stops

BoundsAssumption ==
    /\ ChunkSize \in Nat \ {0} /\ MaxQueued \in Nat \ {0}
    /\ Threaded \in BOOLEAN /\ MayDisable \in BOOLEAN
    /\ MaxChanges \in Nat /\ MaxRetries \in Nat /\ MaxRestarts \in Nat

VARIABLES
    queue,     \* _pending, in insertion order
    revision,  \* _revision
    saved,     \* the state file
    window,    \* the debounce window, from _first_at and _last_at
    wake,      \* the _wake event
    pc, batch, sent,  \* the loop, the updates it posts, how many are accepted
    stopping,  \* _stopping
    enabled,   \* MediaServerSettings.enabled
    asked,     \* history: changes of each path
    settled,   \* history: the last of them Emby was told of, or was dropped
    actual,    \* history: whether the last change created or deleted the path
    shown,     \* history: what Emby was last told about that
    excused,   \* history: paths dropped by the size limit or while disabled
    retries, restarts

loop == <<pc, batch, sent, stopping>>
history == <<asked, settled, actual, shown, excused>>
bounds == <<retries, restarts>>
vars == <<queue, revision, saved, window, wake, loop, enabled, history, bounds>>

Kinds == {"Created", "Modified", "Deleted"}
Changes == 0..MaxChanges
EntryType == [path : Paths, kind : Kinds, rev : Changes, waiting : BOOLEAN]
Update == [path : Paths, kind : Kinds, rev : Changes, upto : Changes]

Places(q, p) == {i \in 1..Len(q) : q[i].path = p}
Queued(q) == {q[i].path : i \in 1..Len(q)}
Due == Kept(queue, {i \in 1..Len(queue) : ~queue[i].waiting})

-----------------------------------------------------------------------------
(* Producers                                                               *)

(* Mutant: the newest kind always wins.                                    *)
MergedLast(old, kind) == kind
Merged(old, kind) == IF kind = "Modified" THEN old ELSE kind

(* A dict keeps the place of a key that is written again.                  *)
Upserted(p, kind) ==
    LET entry(k) == [path |-> p, kind |-> k, rev |-> revision + 1,
                     waiting |-> FALSE]
    IN IF Places(queue, p) # {}
       THEN [i \in 1..Len(queue) |->
               IF queue[i].path = p THEN entry(Merged(queue[i].kind, kind))
               ELSE queue[i]]
       ELSE Append(queue, entry(kind))

(* One path goes in at a time, so at most the oldest revision goes out.    *)
Evicted(q) ==
    IF Len(q) <= MaxQueued THEN {}
    ELSE {q[i].path : i \in {j \in 1..Len(q) :
                               \A k \in 1..Len(q) : q[j].rev <= q[k].rev}}
Without(q, S) == Kept(q, {i \in 1..Len(q) : q[i].path \notin S})

Drop(S, changes) ==
    /\ settled' = [p \in Paths |-> IF p \in S THEN changes[p] ELSE settled[p]]
    /\ excused' = excused \cup S

(* An on-loop producer cannot run between two statements of the loop.      *)
Enqueue(p, kind) ==
    LET q == Upserted(p, kind) IN
    /\ pc \in {"clearEmpty", "clearTimed"} => Threaded
    /\ revision < MaxChanges
    /\ revision' = revision + 1
    /\ queue' = Without(q, Evicted(q))
    /\ saved' = queue'
    /\ window' = IF window = "hard" THEN "hard" ELSE "open"
    /\ wake' = TRUE
    /\ asked' = [asked EXCEPT ![p] = @ + 1]
    /\ actual' = IF kind = "Modified" THEN actual ELSE [actual EXCEPT ![p] = kind]
    /\ Drop(Evicted(q), asked')
    /\ UNCHANGED <<loop, enabled, shown, bounds>>

(* Every path becomes due, on request or because the settings, which may   *)
(* turn the notifications on or off, were saved.                           *)
RetryNow ==
    /\ retries < MaxRetries /\ pc \notin {"clearEmpty", "clearTimed"}
    /\ retries' = retries + 1
    /\ enabled' \in IF MayDisable THEN BOOLEAN ELSE {enabled}
    /\ queue' = [i \in 1..Len(queue) |-> [queue[i] EXCEPT !.waiting = FALSE]]
    /\ saved' = queue'
    /\ wake' = (wake \/ queue # <<>>)
    /\ UNCHANGED <<revision, window, loop, history, restarts>>

-----------------------------------------------------------------------------
(* The loop                                                                *)

(* due_in: nothing to do, something due now, or a time to wait for.        *)
(* Mutant: nothing is due outside a debounce window.                       *)
DueNowDebounced == Due # <<>> /\ window \in {"quiet", "hard"}
DueNow == Due # <<>> /\ window # "open"

LoopCheck ==
    /\ pc = "check" /\ ~DueNow
    /\ pc' = IF queue = <<>> THEN "clearEmpty" ELSE "clearTimed"
    /\ UNCHANGED <<queue, revision, saved, window, wake, batch, sent, stopping,
                   enabled, history, bounds>>
LoopClear ==
    /\ pc \in {"clearEmpty", "clearTimed"}
    /\ wake' = FALSE
    /\ pc' = IF pc = "clearEmpty" THEN "parked" ELSE "timed"
    /\ UNCHANGED <<queue, revision, saved, window, batch, sent, stopping, enabled,
                   history, bounds>>
(* Without a timeout only the event ends the wait.                         *)
LoopWake ==
    /\ pc = "timed" \/ (pc = "parked" /\ wake)
    /\ pc' = "check"
    /\ UNCHANGED <<queue, revision, saved, window, wake, batch, sent, stopping,
                   enabled, history, bounds>>

(* Mutant: an accepted path leaves the queue though it changed meanwhile.  *)
UntouchedAlways(e) == \E i \in 1..Len(batch) : batch[i].path = e.path
(* The entry is the one that was sent: nobody enqueued its path since.     *)
Untouched(e) ==
    \E i \in 1..Len(batch) : batch[i].path = e.path /\ batch[i].rev = e.rev
Accepted(n) == {batch[i].path : i \in 1..n}

(* Mutant: a failed batch is dropped like an accepted one.                 *)
AfterFailureDropped(n) == Kept(queue, {i \in 1..Len(queue) : ~Untouched(queue[i])})
(* What the queue holds once n updates are accepted and the next fails:    *)
(* an accepted entry goes, the rest of the batch backs off.                *)
AfterFailure(n) ==
    LET stays(e) == ~Untouched(e) \/ e.path \notin Accepted(n)
        kept == Kept(queue, {i \in 1..Len(queue) : stays(queue[i])})
    IN [i \in 1..Len(kept) |->
          [kept[i] EXCEPT !.waiting = IF Untouched(kept[i]) THEN TRUE ELSE @]]
AfterSuccess == Kept(queue, {i \in 1..Len(queue) : ~Untouched(queue[i])})

LoopFlush ==
    \/ pc = "check" /\ DueNow
    \/ pc = "stop" /\ Due # <<>>
Batch == [i \in 1..Len(Due) |->
            [path |-> Due[i].path, kind |-> Due[i].kind, rev |-> Due[i].rev,
             upto |-> asked[Due[i].path]]]
FlushStarts ==
    /\ LoopFlush /\ enabled
    /\ window' = "none"
    /\ batch' = Batch /\ sent' = 0
    /\ pc' = "posting"
    /\ UNCHANGED <<queue, revision, saved, wake, stopping, enabled, history, bounds>>
(* Notifications are off: what is due counts as sent.                      *)
FlushDisabled ==
    /\ LoopFlush /\ ~enabled
    /\ window' = "none"
    /\ queue' = Kept(queue, {i \in 1..Len(queue) : queue[i].waiting})
    /\ saved' = queue'
    /\ pc' = IF stopping THEN "off" ELSE "check"
    /\ Drop({Due[i].path : i \in 1..Len(Due)}, asked)
    /\ UNCHANGED <<revision, wake, batch, sent, stopping, enabled, asked, actual,
                   shown, bounds>>

ChunkEnd == IF sent + ChunkSize < Len(batch) THEN sent + ChunkSize ELSE Len(batch)
Strong(u) == u.kind # "Modified"

(* The chunk takes effect at the server, which may still fail to answer.   *)
EmbyTakes ==
    LET chunk == {batch[i] : i \in (sent + 1)..ChunkEnd}
        told == {u.path : u \in chunk}
        upto(p) == (CHOOSE u \in chunk : u.path = p).upto
    IN /\ pc = "posting"
       /\ pc' = "taken"
       /\ settled' = [p \in Paths |->
            IF p \in told /\ upto(p) > settled[p] THEN upto(p) ELSE settled[p]]
       /\ shown' = [p \in Paths |->
            IF \E u \in chunk : u.path = p /\ Strong(u)
            THEN (CHOOSE u \in chunk : u.path = p).kind ELSE shown[p]]
       /\ UNCHANGED <<queue, revision, saved, window, wake, batch, sent, stopping,
                      enabled, asked, actual, excused, bounds>>

Finish(q) ==
    /\ queue' = q /\ saved' = q
    /\ batch' = <<>> /\ sent' = 0
    /\ pc' = IF stopping THEN "off" ELSE "check"
    /\ UNCHANGED <<revision, window, wake, stopping, enabled, history, bounds>>
ChunkAccepted ==
    /\ pc = "taken"
    /\ \/ /\ ChunkEnd < Len(batch)
          /\ sent' = ChunkEnd
          /\ pc' = "posting"
          /\ UNCHANGED <<queue, revision, saved, window, wake, batch, stopping,
                         enabled, history, bounds>>
       \/ /\ ChunkEnd = Len(batch)
          /\ Finish(AfterSuccess)
ChunkFails ==
    /\ pc \in {"posting", "taken"}
    /\ Finish(AfterFailure(sent))
(* An error that is not an HTTP error leaves the queue alone.              *)
FlushRaises ==
    /\ pc \in {"posting", "taken"}
    /\ Finish(queue)

-----------------------------------------------------------------------------
(* Time, and the life of the process                                       *)

(* The quiet period ends, or the longest wait since the first change does. *)
WindowPasses ==
    /\ \/ window = "open" /\ window' \in {"quiet", "hard"}
       \/ window = "quiet" /\ window' = "hard"
    /\ UNCHANGED <<queue, revision, saved, wake, loop, enabled, history, bounds>>
(* next_attempt is a time of day: it also passes for the entry on disk.    *)
BackoffPasses(p) ==
    /\ \E i \in Places(queue, p) : queue[i].waiting
    /\ LET due(q) == [i \in 1..Len(q) |->
                        IF q[i].path = p THEN [q[i] EXCEPT !.waiting = FALSE]
                        ELSE q[i]]
       IN queue' = due(queue) /\ saved' = due(saved)
    /\ UNCHANGED <<revision, window, wake, loop, enabled, history, bounds>>

(* stop() cancels the loop, also in the middle of a post, and flushes what *)
(* is due once more.                                                       *)
Stop ==
    /\ pc \notin {"stop", "off", "clearEmpty", "clearTimed"} /\ ~stopping
    /\ restarts < MaxRestarts
    /\ restarts' = restarts + 1
    /\ stopping' = TRUE /\ wake' = TRUE
    /\ batch' = <<>> /\ sent' = 0 /\ pc' = "stop"
    /\ UNCHANGED <<queue, revision, saved, window, enabled, history, retries>>
StopDone ==
    /\ pc = "stop" /\ Due = <<>>
    /\ pc' = "off" /\ saved' = queue
    /\ UNCHANGED <<queue, revision, window, wake, batch, sent, stopping, enabled,
                   history, bounds>>

Boot ==
    /\ queue' = saved
    /\ revision' = revision
    /\ window' = "none" /\ wake' = (saved # <<>>)
    /\ pc' = "check" /\ batch' = <<>> /\ sent' = 0 /\ stopping' = FALSE
    /\ UNCHANGED <<saved, enabled, history, retries>>
Start == pc = "off" /\ Boot /\ UNCHANGED restarts
Crash == restarts < MaxRestarts /\ restarts' = restarts + 1 /\ Boot

-----------------------------------------------------------------------------
Init ==
    /\ queue = <<>> /\ revision = 0 /\ saved = <<>>
    /\ window = "none" /\ wake = FALSE
    /\ pc = "check" /\ batch = <<>> /\ sent = 0 /\ stopping = FALSE
    /\ enabled = TRUE
    /\ asked = [p \in Paths |-> 0] /\ settled = [p \in Paths |-> 0]
    /\ actual = [p \in Paths |-> "Modified"] /\ shown = [p \in Paths |-> "Modified"]
    /\ excused = {} /\ retries = 0 /\ restarts = 0

Loop == LoopCheck \/ LoopClear \/ LoopWake \/ FlushStarts \/ FlushDisabled
Answer == EmbyTakes \/ ChunkAccepted \/ ChunkFails \/ FlushRaises
Time == WindowPasses \/ \E p \in Paths : BackoffPasses(p)
Life == Stop \/ StopDone \/ Start \/ Crash
Next ==
    \/ \E p \in Paths, kind \in Kinds : Enqueue(p, kind)
    \/ RetryNow
    \/ Loop \/ Answer \/ Time \/ Life

Spec == Init /\ [][Next]_vars

(* The loop runs, time passes, a stopped process is started again, and a   *)
(* server that is asked for the same chunk for ever accepts it at last.    *)
Fairness ==
    /\ WF_vars(Loop) /\ WF_vars(Answer) /\ WF_vars(WindowPasses)
    /\ \A p \in Paths : WF_vars(BackoffPasses(p))
    /\ WF_vars(StopDone) /\ WF_vars(Start)
    /\ \A n \in 0..Cardinality(Paths) :
         SF_vars(sent = n /\ EmbyTakes) /\ SF_vars(sent = n /\ ChunkAccepted)
FairSpec == Spec /\ Fairness

-----------------------------------------------------------------------------
TypeOK ==
    /\ queue \in Seq(EntryType) /\ saved \in Seq(EntryType)
    /\ \A p \in Paths : Cardinality(Places(queue, p)) <= 1
    /\ revision \in Changes
    /\ window \in {"none", "open", "quiet", "hard"} /\ wake \in BOOLEAN
    /\ pc \in {"check", "clearEmpty", "clearTimed", "parked", "timed", "posting",
              "taken", "stop", "off"}
    /\ batch \in Seq(Update) /\ sent \in Nat /\ stopping \in BOOLEAN
    /\ enabled \in BOOLEAN
    /\ asked \in [Paths -> Changes] /\ settled \in [Paths -> Changes]
    /\ actual \in [Paths -> Kinds] /\ shown \in [Paths -> Kinds]
    /\ excused \subseteq Paths
    /\ retries \in 0..MaxRetries /\ restarts \in 0..MaxRestarts

(* The queue keeps the promise of a durable queue: a path whose last change *)
(* Emby has not been told of is in the state file, whatever fails, arrives  *)
(* meanwhile or is restarted ("a path is only dropped after Emby accepted   *)
(* the batch and nobody re-enqueued it"), unless it is given up by the size *)
(* limit or with the notifications switched off.                            *)
Owing == {p \in Paths : settled[p] < asked[p]}
DQ == INSTANCE DurableQueue WITH
    Items <- Paths, queue <- Queued(saved), owed <- Owing, given <- excused
ImplementsQueue == DQ!Spec

(* Once Emby was told of every change of a path, it knows whether the path *)
(* was last created or deleted: merging and retries lose neither.          *)
EmbyInSync ==
    \A p \in Paths \ excused : settled[p] = asked[p] => shown[p] = actual[p]

(* Every change is announced to Emby at last, however often it fails.      *)
Announced == \A p \in Paths : settled[p] < asked[p] ~> settled[p] = asked[p]
=============================================================================
