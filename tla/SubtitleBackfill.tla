--------------------------- MODULE SubtitleBackfill ----------------------------
(***************************************************************************)
(* The subtitle backfill: a thread walks the directories of the STRM       *)
(* library in order and keeps a checkpoint, through stops, shutdowns,      *)
(* cancels, limits, upstream outages, exceptions and restarts              *)
(* (services/subtitle_backfill.py; its endpoints and lifespan in api.py).  *)
(***************************************************************************)
EXTENDS Naturals

CONSTANTS
    Dirs,        \* directories are 1..Dirs, in the order of their names
    MaxErrors,   \* MAX_CONSECUTIVE_ERRORS
    MaxRuns,     \* bound: threads ever launched
    MaxMishaps   \* bound: exceptions, shutdowns and kills

BackfillAssumption ==
    /\ Dirs \in Nat /\ MaxErrors \in Nat \ {0}
    /\ MaxRuns \in Nat /\ MaxMishaps \in Nat

VARIABLES
    backfill,    \* the checkpoint row: status, cursor, options
    walker,      \* the threads, one for each launch
    launched,    \* launches so far
    stopping,    \* _stop
    closing,     \* _shutting_down
    serving,     \* the process is up
    halted,      \* history: a user's stop was taken and nothing launched since
    cancels,     \* runs whose task was asked to cancel
    tried,       \* history: directories looked up, not in a dry run, this pass
    stranded,    \* history: a thread could not record how it ended
    mishaps

flags == <<stopping, closing, serving, halted>>
backfillVars == <<backfill, walker, launched, flags, cancels, tried, stranded, mishaps>>

Runs == 1..MaxRuns
NoLimit == Dirs + 1    \* a run looks up each directory once
NoWalker == [pc |-> "off", last |-> 0, limit |-> NoLimit, dry |-> FALSE,
             lookups |-> 0, errors |-> 0, result |-> "done"]
Running == \E r \in Runs : walker[r].pc # "off"

Mishap == mishaps < MaxMishaps /\ mishaps' = mishaps + 1

-----------------------------------------------------------------------------
(* Requests and the life of the process                                    *)

Launch ==
    /\ launched < MaxRuns
    /\ launched' = launched + 1
    /\ walker' = [walker EXCEPT ![launched + 1].pc = "load"]
    /\ stopping' = FALSE /\ closing' = FALSE /\ halted' = FALSE

(* Mutant: a second start is not refused.                                  *)
MayStartAlways == serving /\ ~closing
MayStart == serving /\ ~closing /\ ~Running
(* Mutant: a dry run's cursor is taken over by a real one.                 *)
KeepsAnyCursor(dry, restart) ==
    /\ ~restart /\ backfill.status \notin {"none", "done"}
KeepsCursor(dry, restart) ==
    /\ ~restart /\ backfill.status \notin {"none", "done"}
    /\ backfill.dry = dry
Start(dry, limit, restart) ==
    /\ MayStart
    /\ LET kept == KeepsCursor(dry, restart) IN
       /\ backfill' = [status |-> "running", last |-> IF kept THEN backfill.last ELSE 0,
                       dry |-> dry, limit |-> limit]
       /\ tried' = IF kept THEN tried ELSE {}
    /\ Launch
    /\ UNCHANGED <<serving, cancels, stranded, mishaps>>

(* The request then waits for the thread, for a minute at most.            *)
Stop ==
    /\ serving /\ ~closing
    /\ stopping' = TRUE
    /\ halted' = Running
    /\ UNCHANGED <<backfill, walker, launched, closing, serving, cancels, tried,
                   stranded, mishaps>>
CancelTask(r) ==
    /\ serving /\ ~closing /\ r = launched
    /\ cancels' = cancels \cup {r}
    /\ UNCHANGED <<backfill, walker, launched, flags, tried, stranded, mishaps>>

Shutdown ==
    /\ serving /\ ~closing /\ Mishap
    /\ closing' = TRUE /\ stopping' = TRUE
    /\ UNCHANGED <<backfill, walker, launched, serving, halted, cancels, tried, stranded>>
Exit ==
    /\ closing /\ serving /\ ~Running
    /\ serving' = FALSE
    /\ UNCHANGED <<backfill, walker, launched, stopping, closing, halted, cancels, tried,
                   stranded, mishaps>>
Kill ==
    /\ serving /\ Mishap
    /\ serving' = FALSE
    /\ walker' = [r \in Runs |-> NoWalker]
    /\ UNCHANGED <<backfill, launched, stopping, closing, halted, cancels, tried, stranded>>

(* Mutant: only a paused backfill is taken up again.                       *)
ResumesPaused == backfill.status = "paused"
Resumes == backfill.status = "running"
(* resume_if_running; a root that has vanished pauses the backfill.        *)
Boot ==
    /\ ~serving
    /\ serving' = TRUE
    /\ \/ Resumes /\ Launch /\ UNCHANGED backfill
       \/ /\ Resumes
          /\ backfill' = [backfill EXCEPT !.status = "paused"]
          /\ stopping' = FALSE /\ closing' = FALSE
          /\ UNCHANGED <<walker, launched, halted>>
       \/ /\ ~Resumes
          /\ stopping' = FALSE /\ closing' = FALSE
          /\ UNCHANGED <<backfill, walker, launched, halted>>
    /\ UNCHANGED <<cancels, tried, stranded, mishaps>>

-----------------------------------------------------------------------------
(* run_sync                                                                *)

Load(r) ==
    /\ walker[r].pc = "load"
    /\ walker' = [walker EXCEPT ![r].pc = "stop?", ![r].last = backfill.last,
                    ![r].limit = backfill.limit, ![r].dry = backfill.dry]
    /\ UNCHANGED <<backfill, launched, flags, cancels, tried, stranded, mishaps>>

Ends(r, result) ==
    walker' = [walker EXCEPT ![r].pc = "finish", ![r].result = result]
(* Mutant: the stop flag is looked at only when nothing else ended the run. *)
SeesStopLate(r) ==
    /\ walker[r].pc = "stop?"
    /\ IF walker[r].last = Dirs THEN Ends(r, IF closing THEN "running" ELSE "done")
       ELSE walker' = [walker EXCEPT ![r].pc = "cancelled?"]
    /\ UNCHANGED <<backfill, launched, flags, cancels, tried, stranded, mishaps>>
SeesStop(r) ==
    /\ walker[r].pc = "stop?"
    /\ IF walker[r].last = Dirs THEN Ends(r, "done")
       ELSE IF stopping THEN Ends(r, IF closing THEN "running" ELSE "paused")
       ELSE walker' = [walker EXCEPT ![r].pc = "cancelled?"]
    /\ UNCHANGED <<backfill, launched, flags, cancels, tried, stranded, mishaps>>
SeesCancel(r) ==
    /\ walker[r].pc = "cancelled?"
    /\ IF r \in cancels \/ walker[r].lookups >= walker[r].limit THEN Ends(r, "paused")
       ELSE walker' = [walker EXCEPT ![r].pc = "process"]
    /\ UNCHANGED <<backfill, launched, flags, cancels, tried, stranded, mishaps>>

(* "local": a subtitle is there, no code, or a known miss; "remote": an    *)
(* answer of the site; "error": it failed.                                 *)
Process(r) ==
    /\ walker[r].pc = "process"
    /\ \E outcome \in {"local", "remote", "error"} :
         walker' = [walker EXCEPT
             ![r].pc = "save", ![r].last = @ + 1,
             ![r].lookups = IF outcome = "local" THEN @ ELSE @ + 1,
             ![r].errors = IF outcome = "error" THEN @ + 1 ELSE 0]
    /\ tried' = IF walker[r].dry THEN tried ELSE tried \cup {walker[r].last + 1}
    /\ UNCHANGED <<backfill, launched, flags, cancels, stranded, mishaps>>
Save(r) ==
    /\ walker[r].pc = "save"
    /\ backfill' = [backfill EXCEPT !.status = "running", !.last = walker[r].last]
    /\ IF walker[r].errors >= MaxErrors THEN Ends(r, "paused")
       ELSE walker' = [walker EXCEPT ![r].pc = "stop?"]
    /\ UNCHANGED <<launched, flags, cancels, tried, stranded, mishaps>>
(* The listing, a lookup or a save raises.                                 *)
Raises(r) ==
    /\ walker[r].pc \in {"stop?", "cancelled?", "process", "save"} /\ Mishap
    /\ Ends(r, "failed")
    /\ UNCHANGED <<backfill, launched, flags, cancels, tried, stranded>>

Finish(r) ==
    /\ walker[r].pc = "finish"
    /\ backfill' = [backfill EXCEPT !.status = walker[r].result, !.last = walker[r].last]
    /\ walker' = [walker EXCEPT ![r] = NoWalker]
    /\ UNCHANGED <<launched, flags, cancels, tried, stranded, mishaps>>
(* The checkpoint cannot be read, or its last state not written.           *)
DiesUnrecorded(r) ==
    /\ walker[r].pc \in {"load", "finish"} /\ Mishap
    /\ walker' = [walker EXCEPT ![r] = NoWalker]
    /\ stranded' = TRUE
    /\ UNCHANGED <<backfill, launched, flags, cancels, tried>>

-----------------------------------------------------------------------------
Init ==
    /\ backfill = [status |-> "none", last |-> 0, dry |-> FALSE, limit |-> NoLimit]
    /\ walker = [r \in Runs |-> NoWalker] /\ launched = 0
    /\ stopping = FALSE /\ closing = FALSE /\ serving = TRUE /\ halted = FALSE
    /\ cancels = {} /\ tried = {} /\ stranded = FALSE /\ mishaps = 0

Walk(r) ==
    Load(r) \/ SeesStop(r) \/ SeesCancel(r) \/ Process(r) \/ Save(r) \/ Finish(r)
Proceed == Exit \/ Boot \/ \E r \in Runs : Walk(r)
Next ==
    \/ Proceed
    \/ \E dry, restart \in BOOLEAN, limit \in {1, NoLimit} : Start(dry, limit, restart)
    \/ Stop \/ Shutdown \/ Kill
    \/ \E r \in Runs : CancelTask(r) \/ Raises(r) \/ DiesUnrecorded(r)
Spec == Init /\ [][Next]_backfillVars

(* The thread runs, and a process that went down is started again.         *)
FairSpec == Spec /\ WF_backfillVars(Proceed)

-----------------------------------------------------------------------------
Statuses == {"none", "running", "paused", "done", "failed"}
TypeOK ==
    /\ backfill \in [status : Statuses, last : 0..Dirs, dry : BOOLEAN,
                     limit : {1, NoLimit}]
    /\ walker \in [Runs -> [pc : {"off", "load", "stop?", "cancelled?", "process",
                                  "save", "finish"},
                            last : 0..Dirs, limit : {1, NoLimit}, dry : BOOLEAN,
                            lookups : 0..Dirs, errors : 0..MaxErrors,
                            result : Statuses \ {"none"}]]
    /\ launched \in 0..MaxRuns
    /\ stopping \in BOOLEAN /\ closing \in BOOLEAN /\ serving \in BOOLEAN
    /\ halted \in BOOLEAN /\ cancels \subseteq Runs /\ tried \subseteq 1..Dirs
    /\ stranded \in BOOLEAN /\ mishaps \in 0..MaxMishaps

(* What the cursor has passed was really looked up in this pass, and a     *)
(* backfill that is done has passed everything: no stop, kill, dry run or  *)
(* restart makes a later one skip a directory.                             *)
CursorHonest ==
    /\ ~backfill.dry => 1..backfill.last \subseteq tried
    /\ backfill.status = "done" => backfill.last = Dirs

(* One thread walks the library, whatever is started after a stop that     *)
(* timed out or a restart.                                                 *)
OneBackfill == \A r, s \in Runs : walker[r].pc # "off" /\ walker[s].pc # "off" => r = s

(* After a stop, the thread comes to no further directory; a start that    *)
(* clears the flag has to wait for it.                                     *)
StopSticks ==
    [][halted => \A r \in Runs : walker'[r].pc = "cancelled?" =>
                                 walker[r].pc = "cancelled?"]_backfillVars

(* A running backfill comes to an end, over any restarts, unless its end   *)
(* could not be recorded.                                                  *)
BackfillEnds == backfill.status = "running" ~> backfill.status # "running" \/ stranded
=============================================================================
