-------------------------------- MODULE MCLive --------------------------------
(***************************************************************************)
(* Small instances, for TLC, of the fair specifications of OfflineRecovery *)
(* and EmbyNotify, which share no state: a behaviour is one of either,     *)
(* chosen in its first state.                                              *)
(***************************************************************************)
EXTENDS Naturals, Sequences, FiniteSets

CONSTANTS h1, h2, NoHash, client, poller, p1, p2

VARIABLES
    focus,
    queue, revision, saved, window, wake, pc, batch, sent, stopping, enabled,
    asked, settled, actual, shown, excused, retries, restarts,
    row, remote, call, seen, todo, finished, behind, overtaken, unrecorded,
    requests, enqueues, crashes

Offline == INSTANCE OfflineRecovery WITH
    Hashes <- {h1, h2}, Clients <- {client}, Poller <- poller,
    MaxAttempts <- 2, ListLimit <- 2, LostReplies <- FALSE,
    MaxRows <- 2, MaxRequests <- 0, MaxEnqueues <- 2, MaxCrashes <- 1
Notify == INSTANCE EmbyNotify WITH
    Paths <- {p1, p2}, ChunkSize <- 1, MaxQueued <- 2, Threaded <- FALSE,
    MayDisable <- FALSE, MaxChanges <- 2, MaxRetries <- 1, MaxRestarts <- 1

offlineVars ==
    <<row, remote, call, seen, todo, finished, behind, overtaken, unrecorded,
      requests, enqueues, crashes>>
notifyVars ==
    <<queue, revision, saved, window, wake, pc, batch, sent, stopping, enabled,
      asked, settled, actual, shown, excused, retries, restarts>>
all == <<focus, offlineVars, notifyVars>>

Init == focus \in {"offline", "notify"} /\ Offline!Init /\ Notify!Init
OfflineRuns == focus = "offline" /\ Offline!Next /\ UNCHANGED <<focus, notifyVars>>
NotifyRuns == focus = "notify" /\ Notify!Next /\ UNCHANGED <<focus, offlineVars>>
Next == OfflineRuns \/ NotifyRuns

(* The fairness of each of them.  Of two paths posted one by one at most   *)
(* one is accepted when another is sent.                                   *)
OfflineFairness ==
    /\ WF_offlineVars(focus = "offline" /\ Offline!ApplyStep)
    /\ WF_offlineVars(focus = "offline" /\ Offline!PollStep)
    /\ SF_offlineVars(focus = "offline" /\ Offline!PollApply)
    /\ \A a \in {client, poller} :
         /\ WF_offlineVars(focus = "offline" /\ Offline!Resume(a))
         /\ WF_offlineVars(focus = "offline" /\ Offline!Answer(a))
         /\ SF_offlineVars(focus = "offline" /\ Offline!RemovalDone(a))
NotifyFairness ==
    /\ WF_notifyVars(focus = "notify" /\ Notify!Loop)
    /\ WF_notifyVars(focus = "notify" /\ Notify!Answer)
    /\ WF_notifyVars(focus = "notify" /\ Notify!WindowPasses)
    /\ WF_notifyVars(focus = "notify" /\ Notify!StopDone)
    /\ WF_notifyVars(focus = "notify" /\ Notify!Start)
    /\ \A p \in {p1, p2} : WF_notifyVars(focus = "notify" /\ Notify!BackoffPasses(p))
    /\ \A n \in 0..1 :
         /\ SF_notifyVars(focus = "notify" /\ sent = n /\ Notify!EmbyTakes)
         /\ SF_notifyVars(focus = "notify" /\ sent = n /\ Notify!ChunkAccepted)
Spec == Init /\ [][Next]_all /\ OfflineFairness /\ NotifyFairness

-----------------------------------------------------------------------------
(* A task with a pending action or an unanswered magnet gets on at last    *)
(* (OfflineRecovery).                                                      *)
RunningActionResolves == focus = "offline" => Offline!RunningActionResolves
(* Every change is announced to Emby at last (EmbyNotify).                 *)
Announced == focus = "notify" => Notify!Announced
=============================================================================
