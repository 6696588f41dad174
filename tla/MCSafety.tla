------------------------------- MODULE MCSafety -------------------------------
(***************************************************************************)
(* Small instances, for TLC, of three services that share no state,        *)
(* without fairness: OfflineRecovery, whose constants are in the           *)
(* configuration, ProviderRegistry and EmbyNotify.  A behaviour is one of  *)
(* them, chosen in its first state, so that TLC visits the union of their  *)
(* states.                                                                 *)
(***************************************************************************)
EXTENDS OfflineRecovery, TLC

CONSTANTS v1, v2, s1, s2

VARIABLES
    focus,
    \* ProviderRegistry
    now, health, free, calling, asked, late, spent, ledger, day, made, searched, reboots,
    \* EmbyNotify
    queue, revision, saved, window, wake, pc, batch, sent, stopping, enabled,
    changed, settled, actual, shown, excused, retries, restarts

(* Two sources, of which one has no budget, and two searches; a wait is    *)
(* longer than the cooldown of the breaker.                                *)
Registry == INSTANCE ProviderRegistry WITH
    Providers <- {v1, v2}, Exempt <- {v2}, Searches <- {s1, s2}, Slots <- 2,
    Threshold <- 2, Cooldown <- 1, Waits <- {2}, DailyLimit <- 1,
    MaxTime <- 2, MaxSearches <- 2, MaxDays <- 1, MaxRestarts <- 1, call <- calling

(* The hashes stand for the paths as well: one symmetry set serves both.   *)
Notify == INSTANCE EmbyNotify WITH
    Paths <- Hashes, ChunkSize <- 1, MaxQueued <- 2, Threaded <- TRUE,
    MayDisable <- TRUE, MaxChanges <- 3, MaxRetries <- 1, MaxRestarts <- 1,
    asked <- changed

ASSUME InstancesAssumption == Registry!ProviderAssumption /\ Notify!BoundsAssumption

registryVars ==
    <<now, health, free, calling, asked, late, spent, ledger, day, made, searched,
      reboots>>
notifyVars ==
    <<queue, revision, saved, window, wake, pc, batch, sent, stopping, enabled,
      changed, settled, actual, shown, excused, retries, restarts>>
all == <<focus, vars, registryVars, notifyVars>>

SafetyInit ==
    /\ focus \in {"offline", "providers", "notify"}
    /\ Init /\ Registry!Init /\ Notify!Init
(* The user acts three times at most: with two submissions, which make two *)
(* rows, he requests one cancel or switch, and two of them with one.       *)
OfflineRuns ==
    /\ focus = "offline" /\ Next /\ requests' + enqueues' <= 3
    /\ UNCHANGED <<focus, registryVars, notifyVars>>
ProvidersRun ==
    focus = "providers" /\ Registry!Next /\ UNCHANGED <<focus, vars, notifyVars>>
NotifierRuns ==
    focus = "notify" /\ Notify!Next /\ UNCHANGED <<focus, vars, registryVars>>
SafetyNext == OfflineRuns \/ ProvidersRun \/ NotifierRuns
SafetySpec == SafetyInit /\ [][SafetyNext]_all

MCSymmetry == Permutations(Hashes)

-----------------------------------------------------------------------------
(* No queued call starts in the wait of its source, unless the source      *)
(* answered another call meanwhile (ProviderRegistry).                     *)
WaitsKept == Registry!WaitsKept
(* A restart hands out no fresh budget (ProviderRegistry).                 *)
BudgetKept == Registry!BudgetKept
(* Emby knows what last became of a path (EmbyNotify).                     *)
EmbyInSync == Notify!EmbyInSync
(* The state file is a durable queue of what Emby must be told.            *)
NotifierImplementsQueue == Notify!ImplementsQueue
=============================================================================
