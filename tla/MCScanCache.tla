----------------------------- MODULE MCScanCache ------------------------------
(***************************************************************************)
(* Small instances, for TLC, of LibraryScan, whose constants are in the    *)
(* configuration, and of ResponseCache, which share no state: a behaviour  *)
(* is one of them, chosen in its first state.                              *)
(***************************************************************************)
EXTENDS LibraryScan, TLC

CONSTANTS works, list, tags

VARIABLES focus, replaced, redis, mem, backend, reader, writer, clock, faults, restarts

(* Two keys that edits of works drop, in a table that has room for one.    *)
(* The files stand for the readers as well: one symmetry set serves both.  *)
Cache == INSTANCE ResponseCache WITH
    Kinds <- {works}, Drops <- works :> <<list, tags>>,
    Ttl <- list :> 1 @@ tags :> 1, Size <- list :> 2 @@ tags :> 1,
    MaxEntries <- 2, MaxBytes <- 2, Readers <- Files, CommitFirst <- FALSE,
    MaxTime <- 2, MaxEdits <- 1, MaxFaults <- 1, MaxRestarts <- 1

ASSUME InstanceAssumption == Cache!CacheAssumption

cacheVars == <<replaced, redis, mem, backend, reader, writer, clock, faults, restarts>>
all == <<focus, vars, cacheVars>>

RecoveryInit ==
    /\ focus \in {"scan", "cache"} /\ Init /\ Cache!Init
    /\ focus = "scan" => backend = "memory"
ScanRuns == focus = "scan" /\ Next /\ UNCHANGED <<focus, cacheVars>>
CacheServes == focus = "cache" /\ Cache!Next /\ UNCHANGED <<focus, vars>>
RecoveryNext == ScanRuns \/ CacheServes
RecoverySpec == RecoveryInit /\ [][RecoveryNext]_all

MCSymmetry == Permutations(Files)

-----------------------------------------------------------------------------
(* An answer older than the database is excused, and not served for long   *)
(* (ResponseCache).                                                        *)
StaleIsExcused == Cache!StaleIsExcused
(* An edit shows in what is computed after its drop (ResponseCache); it    *)
(* does not hold unless the edit commits first.                            *)
EditsShow == Cache!EditsShow
=============================================================================
