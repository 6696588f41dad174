--------------------------- MODULE SubscriptionWatch ---------------------------
(***************************************************************************)
(* The watch over the works of followed actors and wish lists: drains of   *)
(* every work due for a check, kept in a state file so that a restart goes *)
(* on, and the submission of a magnet to 115, shared with the requests     *)
(* that add an offline task (services/subscription_watch.py,               *)
(* pan_offline_enqueue.py, seed_auto_offline.py, submit_offline_url in     *)
(* pan.py).                                                                *)
(*                                                                         *)
(* Stamps are relative: a work was last checked never, long enough ago     *)
(* ("due") or recently; skip is what the stamps say of a drain's cutoff.   *)
(* A work has one best magnet, and its offline task one row.               *)
(***************************************************************************)
EXTENDS Naturals, FiniteSets

CONSTANTS
    Works, NoWork,
    MaxEvents     \* bound: works followed or dismissed by the user, tasks added by
                  \* requests, failures, outages, crashes, tasks gone at 115

WatchAssumption ==
    /\ NoWork \notin Works
    /\ MaxEvents \in Nat

VARIABLES
    follows, dismissed, \* library prefs: the targets and those turned down
    drain,       \* state file: draining, and the works its cutoff excludes
    stamp,       \* state file: checked_at of each work
    tick,        \* the run of the watch
    enq,         \* the two calls of enqueue_work_offline
    offRow, rowCount,   \* pan_offline_tasks of each work: status, rows
    remote,      \* external: 115's task of each work's magnet
    panReady,    \* external: connected and a directory is set
    looked,      \* history: works checked and saved in this drain
    events

prefs == <<follows, dismissed>>
state == <<drain, stamp, looked>>
rows == <<offRow, rowCount>>
watchVars == <<prefs, state, tick, enq, rows, remote, panReady, events>>

Callers == {"watch", "request"}
NoTick == [pc |-> "idle", todo |-> {}, ready |-> FALSE, work |-> NoWork]
NoCall == [pc |-> "off", work |-> NoWork, creates |-> FALSE]

Event == events < MaxEvents /\ events' = events + 1
Smooth == UNCHANGED events

-----------------------------------------------------------------------------
(* The user                                                                *)

Follow(w) ==
    /\ Event /\ w \notin follows
    /\ follows' = follows \cup {w} /\ dismissed' = dismissed \ {w}
    /\ UNCHANGED <<state, tick, enq, rows, remote, panReady>>
Dismiss(w) ==
    /\ Event /\ w \in follows \ dismissed
    /\ dismissed' = dismissed \cup {w}
    /\ UNCHANGED <<follows, state, tick, enq, rows, remote, panReady>>

-----------------------------------------------------------------------------
(* A run of the watch                                                      *)

Targets == follows \ dismissed

(* A drain that was interrupted goes on with its own cutoff.               *)
TickBegins ==
    /\ tick.pc = "idle"
    /\ LET skip == IF drain.on THEN drain.skip \cap Targets
                   ELSE {w \in Targets : stamp[w] = "recent"}
       IN /\ drain' = [on |-> TRUE, skip |-> skip]
          /\ tick' = [pc |-> "next", todo |-> Targets \ skip, ready |-> panReady,
                      work |-> NoWork]
    /\ stamp' = [w \in Works |-> IF w \in Targets THEN stamp[w] ELSE "never"]
    /\ looked' = IF drain.on THEN looked \cap Targets ELSE {}
    /\ UNCHANGED <<prefs, enq, rows, remote, panReady, events>>

Look(w) ==
    /\ tick.pc = "next" /\ w \in tick.todo
    /\ tick' = [tick EXCEPT !.pc = "look", !.todo = @ \ {w}, !.work = w]
    /\ UNCHANGED <<prefs, state, enq, rows, remote, panReady, events>>

NeedsOffline(w) == offRow[w] \notin {"running", "done"}
(* A magnet that fits was known or has been found.                         *)
MagnetFound ==
    LET w == tick.work IN
    /\ tick.pc = "look"
    /\ IF NeedsOffline(w) /\ tick.ready /\ panReady
       THEN /\ tick' = [tick EXCEPT !.pc = "submitting"]
            /\ enq' = [enq EXCEPT !["watch"] = [NoCall EXCEPT !.pc = "lock", !.work = w]]
       ELSE tick' = [tick EXCEPT !.pc = "stamp"] /\ UNCHANGED enq
    /\ UNCHANGED <<prefs, state, rows, remote, panReady, events>>
(* The sites have none, or fail.                                           *)
NoMagnet ==
    /\ tick.pc = "look" /\ Event
    /\ tick' = [tick EXCEPT !.pc = "stamp"]
    /\ UNCHANGED <<prefs, state, enq, rows, remote, panReady>>

(* Mutant: the state is written at the end of the drain only.              *)
StampedLate ==
    /\ tick.pc = "stamp"
    /\ looked' = looked \cup {tick.work}
    /\ tick' = [tick EXCEPT !.pc = "next", !.work = NoWork]
    /\ UNCHANGED <<prefs, drain, stamp, enq, rows, remote, panReady, events>>
(* Whatever came of it, the work is stamped and the state saved.           *)
Stamped ==
    LET w == tick.work IN
    /\ tick.pc = "stamp"
    /\ stamp' = [stamp EXCEPT ![w] = "recent"]
    /\ drain' = [drain EXCEPT !.skip = @ \cup {w}]
    /\ looked' = looked \cup {w}
    /\ tick' = [tick EXCEPT !.pc = "next", !.work = NoWork]
    /\ UNCHANGED <<prefs, enq, rows, remote, panReady, events>>
TickEnds ==
    /\ tick.pc = "next" /\ tick.todo = {}
    /\ drain' = [drain EXCEPT !.on = FALSE]
    /\ tick' = NoTick
    /\ UNCHANGED <<prefs, stamp, looked, enq, rows, remote, panReady, events>>

-----------------------------------------------------------------------------
(* enqueue_work_offline and submit_offline_url                             *)

RequestAdds(w) ==
    /\ enq["request"].pc = "off" /\ Event
    /\ panReady /\ offRow[w] # "running"
    /\ enq' = [enq EXCEPT !["request"] = [NoCall EXCEPT !.pc = "lock", !.work = w]]
    /\ UNCHANGED <<prefs, state, tick, rows, remote, panReady>>

Locked == {"sent", "exists", "stale", "resent"}
(* Mutant: submissions of one magnet are not kept apart.                   *)
LockFree(p) == TRUE
LockHeld(p) == \A q \in Callers : enq[q].work = enq[p].work => enq[q].pc \notin Locked
Lock(p) ==
    /\ enq[p].pc = "lock" /\ LockHeld(p)
    /\ enq' = [enq EXCEPT ![p].pc = "sent"]
    /\ UNCHANGED <<prefs, state, tick, rows, remote, panReady, events>>

Leaves(p) ==
    /\ enq' = [enq EXCEPT ![p] = NoCall]
    /\ tick' = IF p = "watch" THEN [tick EXCEPT !.pc = "stamp"] ELSE tick

Inserts(w) == rowCount[w] = 0
(* 115 has the task: the row is written, by a request with a commit of its *)
(* own later; the database has one writer at a time.                       *)
RowWritten(p) ==
    LET w == enq[p].work IN
    IF \E q \in Callers : enq[q].pc = "commit"
    THEN Leaves(p) /\ UNCHANGED rows
    ELSE IF p = "watch"
    THEN /\ rowCount' = [rowCount EXCEPT ![w] = IF Inserts(w) THEN @ + 1 ELSE @]
         /\ offRow' = [offRow EXCEPT ![w] = "running"]
         /\ Leaves(p)
    ELSE /\ enq' = [enq EXCEPT ![p].pc = "commit", ![p].creates = Inserts(w)]
         /\ UNCHANGED <<tick, rows>>
Commit ==
    LET w == enq["request"].work IN
    /\ enq["request"].pc = "commit"
    /\ rowCount' = [rowCount EXCEPT ![w] = IF enq["request"].creates THEN @ + 1 ELSE @]
    /\ offRow' = [offRow EXCEPT ![w] = "running"]
    /\ Leaves("request")
    /\ UNCHANGED <<prefs, state, remote, panReady, events>>

(* enqueue_remote_urls: accepted, or there already.                        *)
Sent(p) ==
    LET w == enq[p].work IN
    /\ enq[p].pc = "sent"
    /\ IF remote[w] = "none"
       THEN remote' = [remote EXCEPT ![w] = "running"] /\ RowWritten(p)
       ELSE /\ enq' = [enq EXCEPT ![p].pc = "exists"]
            /\ UNCHANGED <<tick, rows, remote>>
    /\ UNCHANGED <<prefs, state, panReady, events>>
ReplyLost(p) ==
    LET w == enq[p].work IN
    /\ enq[p].pc \in {"sent", "resent"} /\ remote[w] = "none" /\ Event
    /\ remote' = [remote EXCEPT ![w] = "running"]
    /\ Leaves(p)
    /\ UNCHANGED <<prefs, state, rows, panReady>>
(* Not connected, no answer, a conflict with what is at 115.               *)
CallFails(p) ==
    /\ enq[p].pc \in Locked /\ Event
    /\ Leaves(p)
    /\ UNCHANGED <<prefs, state, rows, remote, panReady>>

(* Mutant: a task that still runs is not adopted.                          *)
AdoptableDone(w) == remote[w] = "done"
Adoptable(w) == remote[w] \in {"running", "done"}
(* 115's own list: the task is adopted, is history without files, or it is *)
(* a conflict.                                                             *)
Reconciled(p) ==
    LET w == enq[p].work IN
    /\ enq[p].pc = "exists"
    /\ IF Adoptable(w) THEN RowWritten(p)
       ELSE IF remote[w] = "gone"
       THEN enq' = [enq EXCEPT ![p].pc = "stale"] /\ UNCHANGED <<tick, rows>>
       ELSE Leaves(p) /\ UNCHANGED rows
    /\ UNCHANGED <<prefs, state, remote, panReady, events>>
HistoryCleared(p) ==
    /\ enq[p].pc = "stale"
    /\ remote' = [remote EXCEPT ![enq[p].work] = "none"]
    /\ enq' = [enq EXCEPT ![p].pc = "resent"]
    /\ UNCHANGED <<prefs, state, tick, rows, panReady, events>>
Resent(p) ==
    LET w == enq[p].work IN
    /\ enq[p].pc = "resent"
    /\ IF remote[w] = "none"
       THEN remote' = [remote EXCEPT ![w] = "running"] /\ RowWritten(p)
       ELSE Leaves(p) /\ UNCHANGED <<rows, remote>>
    /\ UNCHANGED <<prefs, state, panReady, events>>

-----------------------------------------------------------------------------
(* 115, time and the process                                               *)

(* A download ends; its files, or the record of it, go.                    *)
RemoteChanges(w) ==
    /\ \/ remote[w] = "running" /\ remote' = [remote EXCEPT ![w] = "done"] /\ Smooth
       \/ /\ remote[w] \in {"running", "done"} /\ Event
          /\ remote' = [remote EXCEPT ![w] = "gone"]
       \/ /\ remote[w] \in {"done", "gone"} /\ Event
          /\ remote' = [remote EXCEPT ![w] = "none"]
    /\ UNCHANGED <<prefs, state, tick, enq, rows, panReady>>
(* The poller (modelled in OfflineRecovery) follows.                       *)
RowFollows(w) ==
    /\ offRow[w] = "running" /\ remote[w] # "running"
    /\ offRow' = [offRow EXCEPT ![w] = IF remote[w] = "done" THEN "done" ELSE "failed"]
    /\ UNCHANGED <<prefs, state, tick, enq, rowCount, remote, panReady, events>>

PanDrops ==
    /\ panReady /\ Event
    /\ panReady' = FALSE
    /\ UNCHANGED <<prefs, state, tick, enq, rows, remote>>
PanReturns ==
    /\ ~panReady
    /\ panReady' = TRUE
    /\ UNCHANGED <<prefs, state, tick, enq, rows, remote, events>>
(* Enough time passes for the work to be due again.                        *)
Ages(w) ==
    /\ stamp[w] = "recent"
    /\ stamp' = [stamp EXCEPT ![w] = "due"]
    /\ UNCHANGED <<prefs, drain, looked, tick, enq, rows, remote, panReady, events>>
(* The process restarts, or the state file cannot be written.              *)
Interrupted ==
    /\ tick # NoTick \/ enq["request"] # NoCall
    /\ Event
    /\ tick' = NoTick
    /\ enq' = [p \in Callers |-> NoCall]
    /\ UNCHANGED <<prefs, state, rows, remote, panReady>>

-----------------------------------------------------------------------------
Init ==
    /\ follows = {} /\ dismissed = {}
    /\ drain = [on |-> FALSE, skip |-> {}] /\ stamp = [w \in Works |-> "never"]
    /\ tick = NoTick /\ enq = [p \in Callers |-> NoCall]
    /\ offRow = [w \in Works |-> "none"] /\ rowCount = [w \in Works |-> 0]
    /\ remote = [w \in Works |-> "none"] /\ panReady = TRUE
    /\ looked = {} /\ events = 0

CallSteps(p) == Lock(p) \/ Sent(p) \/ Reconciled(p) \/ HistoryCleared(p) \/ Resent(p)
TickSteps ==
    TickBegins \/ (\E w \in Works : Look(w)) \/ MagnetFound \/ Stamped \/ TickEnds
Next ==
    \/ TickSteps \/ NoMagnet \/ Commit
    \/ \E p \in Callers : CallSteps(p) \/ ReplyLost(p) \/ CallFails(p)
    \/ \E w \in Works :
         \/ Follow(w) \/ Dismiss(w) \/ RequestAdds(w)
         \/ RemoteChanges(w) \/ RowFollows(w) \/ Ages(w)
    \/ PanDrops \/ PanReturns \/ Interrupted
Spec == Init /\ [][Next]_watchVars

(* The loop and the calls go on, a lost connection comes back and time     *)
(* passes.                                                                 *)
Fairness ==
    /\ WF_watchVars(TickSteps) /\ WF_watchVars(PanReturns)
    /\ WF_watchVars(Commit) /\ \A p \in Callers : WF_watchVars(CallSteps(p))
    /\ \A w \in Works : WF_watchVars(Ages(w))
FairSpec == Spec /\ Fairness

-----------------------------------------------------------------------------
Call == [pc : {"off", "lock", "commit"} \cup Locked, work : Works \cup {NoWork},
         creates : BOOLEAN]
TypeOK ==
    /\ follows \subseteq Works /\ dismissed \subseteq Works
    /\ drain \in [on : BOOLEAN, skip : SUBSET Works]
    /\ stamp \in [Works -> {"never", "due", "recent"}]
    /\ tick \in [pc : {"idle", "next", "look", "submitting", "stamp"}, todo : SUBSET Works,
                 ready : BOOLEAN, work : Works \cup {NoWork}]
    /\ enq \in [Callers -> Call]
    /\ offRow \in [Works -> {"none", "running", "done", "failed"}]
    /\ rowCount \in [Works -> Nat]
    /\ remote \in [Works -> {"none", "running", "done", "gone"}]
    /\ panReady \in BOOLEAN /\ looked \subseteq Works
    /\ events \in 0..MaxEvents

(* A magnet of a work has one row, whoever submits it, however often, and  *)
(* whatever was lost (no constraint of the table says so).                 *)
OneRow == \A w \in Works : rowCount[w] <= 1

(* A work checked and saved in a drain is not checked again in it, also    *)
(* when the drain is resumed ("items it already checked are newer than     *)
(* that cutoff, so they are not redone").                                  *)
DrainOnce == [][\A w \in Works : Look(w) => w \notin looked]_watchVars

(* Clearing 115's stale history of a magnet never takes a download that    *)
(* another submission has started meanwhile.                               *)
NothingRunningCleared ==
    [][\A p \in Callers : HistoryCleared(p) => remote[enq[p].work] # "running"]_watchVars

(* A followed work gets its offline task at last, over crashes, lost       *)
(* replies, outages and tasks that went missing, unless it is dismissed.   *)
FollowedIsSubmitted ==
    \A w \in Works : w \in Targets ~> offRow[w] # "none" \/ w \notin Targets
=============================================================================
