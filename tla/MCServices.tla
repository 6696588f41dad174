------------------------------ MODULE MCServices ------------------------------
(***************************************************************************)
(* Small instances, for TLC, of the services that share no state and never *)
(* call each other: the walk of SubtitleBackfill, whose constants are in   *)
(* the configuration, the weekly dump of R18Dump, the watch of             *)
(* SubscriptionWatch, the organize run of Organize, the works of Catalogue *)
(* and, for liveness, one scan of LibraryScan.  A behaviour of this module *)
(* is a behaviour of one of them, chosen in its first state, so that TLC   *)
(* visits the union of their states and not the product.                   *)
(***************************************************************************)
EXTENDS SubtitleBackfill, Sequences, FiniteSets, TLC

CONSTANTS
    u1, u2, w1, w2, NoWork, f1, f2, NoFile, a1, a2, r1, r2, c1, NoCode, q1

VARIABLES
    focus,
    published, part, meta, file, cut, mixed, lookup, enriched, up, pc, job, excused,
    faults,
    follows, dismissed, drain, stamp, tick, enq, offRow, rowCount, remote, panReady,
    looked, events,
    mode, policy, disk, sourceDir, run, completed, journal, paths, before, users,
    moved, raced, unsaved, changes, failures,
    task, checkpoint, items, codes, w, cancel, marked, fresh, found, accepted, unheard, view,
    scanChanges, scanFailures, crashes,
    cat, asset, cand, request, torn, calls

(* Two dated URLs whose object is swapped once; the third version comes    *)
(* without a length, the fourth without a validator and with few videos.   *)
R18 == INSTANCE R18Dump WITH
    LastVersion <- 4, Urls <- {u1, u2}, UrlOf <- <<u1, u1, u2, u2>>,
    Size <- <<2, 3, 2, 3>>, Rows <- <<4, 2, 3, 1>>, Weak <- {4}, Unsized <- {3},
    MaxResume <- 2, MaxFaults <- 3
Watch == INSTANCE SubscriptionWatch WITH
    Works <- {w1, w2}, MaxEvents <- 3
(* Two files of one work, so that they share an NFO.                       *)
Org == INSTANCE Organize WITH
    Assets <- 2, WorkOf <- <<1, 1>>, MaxChanges <- 2, MaxFailures <- 1
Scan == INSTANCE LibraryScan WITH
    Files <- {f1, f2}, OnlyNew <- TRUE,
    MaxTasks <- 1, MaxChanges <- 1, MaxFailures <- 1, MaxCrashes <- 1,
    changes <- scanChanges, failures <- scanFailures

(* A file with the code of two records, of which the less authoritative    *)
(* one names performers, and a file without a code.                        *)
Works == INSTANCE Catalogue WITH
    Assets <- {a1, a2}, Remote <- {r1, r2}, Codes <- {c1},
    CodeOf <- a1 :> c1 @@ a2 :> NoCode @@ r1 :> c1 @@ r2 :> c1,
    Casting <- {a2, r1, r2}, Rank <- r1 :> 1 @@ r2 :> 2, Matching <- {a1} \X {r1, r2},
    Confirmed <- {}, Requests <- {q1}, MaxCalls <- 5

ASSUME ServicesAssumption ==
    /\ R18!DumpAssumption /\ BackfillAssumption /\ Watch!WatchAssumption
    /\ Org!OrganizeAssumption /\ Works!CatalogueAssumption

dumpVars ==
    <<published, part, meta, file, cut, mixed, lookup, enriched, up, pc, job, excused,
      faults>>
watchVars ==
    <<follows, dismissed, drain, stamp, tick, enq, offRow, rowCount, remote, panReady,
      looked, events>>
organizeVars ==
    <<mode, policy, disk, sourceDir, run, completed, journal, paths, before, users,
      moved, raced, unsaved, changes, failures>>
scanVars ==
    <<task, checkpoint, items, codes, w, cancel, marked, fresh, found, accepted, unheard, view,
      scanChanges, scanFailures, crashes>>
catalogueVars == <<cat, asset, cand, request, torn, calls>>
all == <<focus, dumpVars, backfillVars, watchVars, organizeVars, scanVars, catalogueVars>>

ServicesInit ==
    /\ focus \in {"dump", "backfill", "watch", "organize", "scan", "catalogue"}
    /\ Init /\ R18!Init /\ Watch!Init /\ Org!Init /\ Scan!Init
    /\ Works!Init
    /\ focus # "organize" =>
         mode = "move" /\ policy = "error" /\ ~Org!Exists(Org!Nfo(1))

DumpRuns ==
    /\ focus = "dump" /\ R18!Next
    /\ UNCHANGED <<focus, backfillVars, watchVars, organizeVars, scanVars,
                   catalogueVars>>
BackfillRuns ==
    /\ focus = "backfill" /\ Next
    /\ UNCHANGED <<focus, dumpVars, watchVars, organizeVars, scanVars,
                   catalogueVars>>
WatchRuns ==
    /\ focus = "watch" /\ Watch!Next
    /\ UNCHANGED <<focus, dumpVars, backfillVars, organizeVars, scanVars,
                   catalogueVars>>
OrganizeRuns ==
    /\ focus = "organize" /\ Org!Next
    /\ UNCHANGED <<focus, dumpVars, backfillVars, watchVars, scanVars,
                   catalogueVars>>
ScanRuns ==
    /\ focus = "scan" /\ Scan!Next
    /\ UNCHANGED <<focus, dumpVars, backfillVars, watchVars, organizeVars,
                   catalogueVars>>
CatalogueRuns ==
    /\ focus = "catalogue" /\ Works!Next
    /\ UNCHANGED <<focus, dumpVars, backfillVars, watchVars, organizeVars,
                   scanVars>>
ServicesNext ==
    \/ DumpRuns \/ BackfillRuns \/ WatchRuns \/ OrganizeRuns \/ ScanRuns
    \/ CatalogueRuns

(* The fairness of each of them.                                           *)
Fairness ==
    /\ WF_dumpVars(focus = "dump" /\ R18!Run)
    /\ WF_backfillVars(focus = "backfill" /\ Proceed)
    /\ WF_watchVars(focus = "watch" /\ Watch!TickSteps)
    /\ WF_watchVars(focus = "watch" /\ Watch!PanReturns)
    /\ WF_watchVars(focus = "watch" /\ Watch!Commit)
    /\ \A p \in {"watch", "request"} : WF_watchVars(focus = "watch" /\ Watch!CallSteps(p))
    /\ \A work \in {w1, w2} : WF_watchVars(focus = "watch" /\ Watch!Ages(work))
    /\ WF_scanVars(focus = "scan" /\ Scan!CancelWrite)
    /\ WF_scanVars(focus = "scan" /\ Scan!Advance(1))
ServicesSpec == ServicesInit /\ [][ServicesNext]_all /\ Fairness

-----------------------------------------------------------------------------
(* The properties of each under its name; those of SubtitleBackfill are    *)
(* its own definitions.                                                    *)

(* A finished dump holds the pieces of one version (R18Dump).              *)
NeverSpliced == R18!NeverSpliced
(* The last dump published is looked up at last (R18Dump).                 *)
LookupCatchesUp == focus = "dump" => R18!LookupCatchesUp

(* A drain looks at each work once (SubscriptionWatch).                    *)
DrainOnce == Watch!DrainOnce
(* No task that runs at 115 is cleared (SubscriptionWatch).                *)
NothingRunningCleared == Watch!NothingRunningCleared
(* A work that stays followed is submitted at last (SubscriptionWatch).    *)
FollowedIsSubmitted == focus = "watch" => Watch!FollowedIsSubmitted

(* An undo brings back the files and the rows (Organize).                  *)
RoundTrip == Org!RoundTrip
(* No file of the user's is lost (Organize).                               *)
UserFilesKept == Org!UserFilesKept

(* What was curated in a work is kept (Catalogue).                         *)
CuratedKept == Works!CuratedKept
(* An asset is identified when it has a work (Catalogue).                  *)
AssetStates == Works!AssetStates

(* A scan that was queued comes to an end (LibraryScan).                   *)
ScanEnds == focus = "scan" => Scan!ScanEnds
=============================================================================
