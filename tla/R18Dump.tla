------------------------------- MODULE R18Dump -------------------------------
(***************************************************************************)
(* The weekly refresh of the r18.dev dump: download (or resume) the latest *)
(* object into a file, import it into a lookup database, enrich existing   *)
(* works (services/r18_dump_download.py, r18_dump_refresh.py, r18_dump.py  *)
(* and scripts/run_r18_dump_weekly.py, which stops the API meanwhile).     *)
(*                                                                         *)
(* A dump is a version of the object at a dated URL; its bytes are pieces. *)
(* The server only ever moves to a newer version, possibly at the same URL.*)
(***************************************************************************)
EXTENDS Naturals, FiniteSets

CONSTANTS
    LastVersion,  \* versions are 1..LastVersion
    Urls, UrlOf,  \* the dated URL of each version
    Size,         \* its pieces
    Rows,         \* its videos
    Weak,         \* versions served without a strong ETag or Last-Modified
    Unsized,      \* versions served without a Content-Length
    MaxResume,    \* MAX_RESUME_ATTEMPTS
    MaxFaults     \* bound: network errors, failures and crashes

Versions == 1..LastVersion
DumpAssumption ==
    /\ LastVersion \in Nat \ {0}
    /\ UrlOf \in [Versions -> Urls]
    /\ Size \in [Versions -> Nat \ {0}] /\ Rows \in [Versions -> Nat \ {0}]
    /\ Weak \subseteq Versions /\ Unsized \subseteq Versions
    /\ MaxResume \in Nat \ {0} /\ MaxFaults \in Nat

VARIABLES
    published,  \* external: the version /dumps/latest redirects to
    part,       \* the .part file of each URL
    meta,       \* its sidecar: validator and total
    file,       \* the finished file
    cut,        \* history: URLs whose partial file a crash left to a newer sidecar
    mixed,      \* history: URLs whose finished file was such a partial file
    lookup,     \* the version in the lookup database, 0 before the first
    enriched,   \* the version the catalogue was last enriched from
    up,         \* the API service runs
    pc, job,    \* the run and the locals of download_latest_dump
    excused,    \* history: versions a failure left downloaded and not used
    faults

disk == <<part, meta, file, cut, mixed>>
results == <<lookup, enriched, up>>
vars == <<published, disk, results, pc, job, excused, faults>>

None == 0      \* no validator, no version
Unknown == 0   \* no total
NoMeta == [validator |-> None, total |-> Unknown]
Empty == [of |-> {}, len |-> 0]
NoJob == [version |-> None, total |-> Unknown, clean |-> FALSE, failures |-> 0,
          unchanged |-> FALSE]

Validator(v) == IF v \in Weak THEN None ELSE v
Total(v) == IF v \in Unsized THEN Unknown ELSE Size[v]
Object(u) == CHOOSE v \in 1..published :
                 UrlOf[v] = u /\ \A w \in 1..published : UrlOf[w] = u => w <= v
Url == UrlOf[job.version]
Len == part[Url].len
Whole(content, v) == content = [of |-> {v}, len |-> Size[v]]

Fault == faults < MaxFaults /\ faults' = faults + 1
NoFault == UNCHANGED faults

Publish ==
    /\ published < LastVersion
    /\ published' = published + 1
    /\ UNCHANGED <<disk, results, pc, job, excused, faults>>

-----------------------------------------------------------------------------
(* The weekly run stops the service; however it ends, the service is       *)
(* started again.                                                          *)
RunStarts ==
    /\ pc = "idle"
    /\ up' = FALSE /\ pc' = "request" /\ job' = NoJob
    /\ UNCHANGED <<published, disk, lookup, enriched, excused, faults>>
RunEnds ==
    /\ pc = "finish"
    /\ up' = TRUE /\ pc' = "idle" /\ job' = NoJob
    /\ UNCHANGED <<published, disk, lookup, enriched, excused, faults>>

Fail == pc' = "finish" /\ UNCHANGED <<up, job>>

-----------------------------------------------------------------------------
(* download_latest_dump                                                    *)

(* Mutant: any sidecar of the same URL will do.                            *)
ResumableByUrl(v) ==
    LET u == UrlOf[v] IN part[u].len > 0 /\ meta[u] # NoMeta /\ v \notin Weak
Resumable(v) ==
    LET u == UrlOf[v] IN
    /\ part[u].len > 0
    /\ meta[u].validator = v /\ v \notin Weak
    /\ v \in Unsized \/ meta[u].total \in {Unknown, Size[v]}
(* A file of the right size, or of any size if none was announced.         *)
OnDisk(v) ==
    LET u == UrlOf[v] IN
    file[u].len > 0 /\ (v \in Unsized \/ file[u].len = Size[v])

Answered(v) == [NoJob EXCEPT !.version = v, !.total = Total(v)]
(* The dump is on disk already.                                            *)
Unchanged ==
    LET v == published IN
    /\ pc = "request" /\ OnDisk(v)
    /\ part' = [part EXCEPT ![UrlOf[v]] = Empty]
    /\ meta' = [meta EXCEPT ![UrlOf[v]] = NoMeta]
    /\ job' = [Answered(v) EXCEPT !.unchanged = TRUE]
    /\ pc' = "import"
    /\ excused' = IF Whole(file[UrlOf[v]], v) THEN excused ELSE excused \cup {v}
    /\ cut' = cut \ {UrlOf[v]}
    /\ UNCHANGED <<published, file, mixed, results, faults>>
ResumeFromDisk ==
    LET v == published IN
    /\ pc = "request" /\ ~OnDisk(v) /\ Resumable(v)
    /\ job' = Answered(v)
    /\ pc' = "loop"
    /\ UNCHANGED <<published, disk, results, excused, faults>>
(* The sidecar is saved first, and only if there is a validator.           *)
Fresh ==
    LET v == published IN
    /\ pc = "request" /\ ~OnDisk(v) /\ ~Resumable(v)
    /\ meta' = IF v \in Weak THEN meta
               ELSE [meta EXCEPT ![UrlOf[v]] =
                       [validator |-> v, total |-> Total(v)]]
    /\ job' = Answered(v)
    /\ pc' = "truncate"
    /\ UNCHANGED <<published, part, file, cut, mixed, results, excused, faults>>
Truncate ==
    /\ pc = "truncate"
    /\ part' = [part EXCEPT ![Url] = Empty]
    /\ cut' = cut \ {Url}
    /\ pc' = "stream"
    /\ UNCHANGED <<published, meta, file, mixed, results, job, excused, faults>>
(* Cloudflare, an HTTP error, no connection.                               *)
RequestFails ==
    /\ pc = "request" /\ Fault /\ Fail
    /\ UNCHANGED <<published, disk, lookup, enriched, excused>>

(* One response is one version to its end.                                 *)
Chunk ==
    /\ pc \in {"stream", "range"}
    /\ Len < Size[job.version]
    /\ part' = [part EXCEPT ![Url] = [of |-> @.of \cup {job.version}, len |-> @.len + 1]]
    /\ job' = [job EXCEPT !.failures = 0]
    /\ UNCHANGED <<published, meta, file, cut, mixed, results, pc, excused, faults>>
(* The end of the body, which without a length may come early unnoticed.   *)
StreamEnds ==
    /\ pc \in {"stream", "range"}
    /\ \/ Len = Size[job.version] /\ NoFault
       \/ Len < Size[job.version] /\ job.version \in Unsized /\ Fault
    /\ job' = [job EXCEPT !.clean = TRUE]
    /\ pc' = IF /\ pc = "stream" /\ job.total = Unknown
                /\ job.version \notin Weak /\ Len > 0
             THEN "probe" ELSE "loop"
    /\ UNCHANGED <<published, disk, results, excused>>
StreamBreaks ==
    /\ pc \in {"stream", "range"}
    /\ Fault
    /\ job' = [job EXCEPT !.clean = FALSE]
    /\ pc' = "loop"
    /\ UNCHANGED <<published, disk, results, excused>>

(* If-Range: the server honours the range only for the version asked for.  *)
Current == Object(Url) = job.version
Probe ==
    /\ pc = "probe"
    /\ \/ /\ Current /\ Len = Size[job.version]
          /\ job' = [job EXCEPT !.total = Len]
       \/ /\ Current /\ Len < Size[job.version]
          /\ job' = [job EXCEPT !.total = Size[job.version], !.clean = FALSE]
       \/ UNCHANGED job
    /\ pc' = "loop"
    /\ UNCHANGED <<published, disk, results, excused, faults>>

Incomplete ==
    IF job.total = Unknown THEN ~job.clean ELSE Len < job.total
Retry == pc = "loop" /\ Incomplete
MayRetry == Retry /\ job.version \notin Weak /\ job.failures < MaxResume
GiveUp ==
    /\ Retry /\ ~MayRetry
    /\ Fail
    /\ UNCHANGED <<published, disk, lookup, enriched, excused, faults>>
RangeError ==
    /\ MayRetry /\ Fault
    /\ \/ /\ job' = [job EXCEPT !.failures = @ + 1]
          /\ UNCHANGED <<pc, up>>
       \/ Fail
    /\ UNCHANGED <<published, disk, lookup, enriched, excused>>
(* A 200 instead of a 206: the object was swapped.                         *)
RangeChanged ==
    /\ MayRetry /\ ~Current
    /\ Fail
    /\ UNCHANGED <<published, disk, lookup, enriched, excused, faults>>
(* A 206, with the total or a star.                                        *)
RangeServed ==
    /\ MayRetry /\ Current /\ Len < Size[job.version]
    /\ \E total \in {Size[job.version]} \cup
                    (IF job.version \in Unsized THEN {job.total} ELSE {}) :
         /\ job' = [job EXCEPT !.failures = @ + 1, !.total = total]
         /\ meta' = IF total = Unknown THEN meta
                    ELSE [meta EXCEPT ![Url] = [validator |-> job.version,
                                                total |-> total]]
    /\ pc' = "range"
    /\ UNCHANGED <<published, part, file, cut, mixed, results, excused, faults>>
(* Mutant: every 416 is an error.                                          *)
RangeAtEndFails ==
    /\ MayRetry /\ Current /\ Len >= Size[job.version]
    /\ Fail
    /\ UNCHANGED <<published, disk, lookup, enriched, excused, faults>>
(* A 416 at the very end of the object.                                    *)
RangeAtEnd ==
    /\ MayRetry /\ Current /\ Len >= Size[job.version]
    /\ \/ /\ Len = Size[job.version]
          /\ pc' = "replace"
          /\ job' = [job EXCEPT !.total = Len]
          /\ UNCHANGED up
       \/ /\ Len > Size[job.version]
          /\ Fail
    /\ UNCHANGED <<published, disk, lookup, enriched, excused, faults>>
LoopEnds ==
    /\ pc = "loop" /\ ~Incomplete
    /\ pc' = "replace"
    /\ UNCHANGED <<published, disk, results, job, excused, faults>>

(* An empty file is not gzip data.                                         *)
Replace ==
    /\ pc = "replace"
    /\ \/ /\ Len = 0 /\ Fail
          /\ UNCHANGED <<part, file, cut, mixed>>
       \/ /\ Len > 0
          /\ file' = [file EXCEPT ![Url] = part[Url]]
          /\ part' = [part EXCEPT ![Url] = Empty]
          /\ cut' = cut \ {Url}
          /\ mixed' = IF Url \in cut THEN mixed \cup {Url} ELSE mixed \ {Url}
          /\ pc' = "unlink"
          /\ UNCHANGED <<up, job>>
    /\ UNCHANGED <<published, meta, lookup, enriched, excused, faults>>
Unlink ==
    /\ pc = "unlink"
    /\ meta' = [meta EXCEPT ![Url] = NoMeta]
    /\ pc' = "import"
    /\ UNCHANGED <<published, part, file, cut, mixed, results, job, excused, faults>>

-----------------------------------------------------------------------------
(* refresh_r18_dump, import_dump_to_sqlite, the end of the script          *)

SkipImport == job.unchanged /\ lookup # None
ImportSkipped ==
    /\ pc = "import" /\ SkipImport
    /\ pc' = "finish"
    /\ UNCHANGED <<published, disk, results, job, excused, faults>>

(* What the file holds can be read to its end.                             *)
Readable(v) == Whole(file[Url], v)
Valid(v) == Readable(v) /\ (lookup # None => 2 * Rows[v] >= Rows[lookup])
(* The new database replaces the live one only when it is complete.        *)
Import ==
    /\ pc = "import" /\ ~SkipImport
    /\ \E v \in Versions :
         /\ Valid(v)
         /\ lookup' = v
    /\ pc' = "enrich"
    /\ UNCHANGED <<published, disk, enriched, up, job, excused, faults>>
ImportRaises ==
    /\ pc = "import" /\ ~SkipImport
    /\ \/ Fault
       \/ (~\E v \in Versions : Valid(v)) /\ NoFault
    /\ Fail
    /\ excused' = excused \cup {job.version}
    /\ UNCHANGED <<published, disk, lookup, enriched>>
Enrich ==
    /\ pc = "enrich"
    /\ \/ enriched' = lookup /\ NoFault /\ UNCHANGED excused
       \/ /\ Fault /\ UNCHANGED enriched
          /\ excused' = excused \cup {job.version}
    /\ pc' = "finish"
    /\ UNCHANGED <<published, disk, lookup, up, job>>

(* The script dies: the service stays down and the disk as it is.  Between *)
(* the sidecar and the truncation that is the partial file of the download *)
(* before, next to the sidecar of this one.                                *)
Crash ==
    /\ pc # "idle" /\ Fault
    /\ pc' = "idle" /\ job' = NoJob
    /\ excused' = IF pc \in {"unlink", "import", "enrich"}
                  THEN excused \cup {job.version} ELSE excused
    /\ cut' = IF pc = "truncate" /\ job.version \notin Weak /\ Len > 0
              THEN cut \cup {Url} ELSE cut
    /\ UNCHANGED <<published, part, meta, file, mixed, results>>

-----------------------------------------------------------------------------
Init ==
    /\ published = 1
    /\ part = [u \in Urls |-> Empty] /\ meta = [u \in Urls |-> NoMeta]
    /\ file = [u \in Urls |-> Empty] /\ cut = {} /\ mixed = {}
    /\ lookup = None /\ enriched = None /\ up = TRUE
    /\ pc = "idle" /\ job = NoJob
    /\ excused = {} /\ faults = 0

Download ==
    \/ Unchanged \/ ResumeFromDisk \/ Fresh \/ Truncate \/ RequestFails
    \/ Chunk \/ StreamEnds \/ StreamBreaks \/ Probe
    \/ GiveUp \/ RangeError \/ RangeChanged \/ RangeServed \/ RangeAtEnd
    \/ LoopEnds \/ Replace \/ Unlink
Refresh == ImportSkipped \/ Import \/ ImportRaises \/ Enrich
Run == RunStarts \/ Download \/ Refresh \/ RunEnds
Next == Publish \/ Run \/ Crash
Spec == Init /\ [][Next]_vars

(* The cron job is started week after week and runs.                       *)
Fairness == WF_vars(Run)
FairSpec == Spec /\ Fairness

-----------------------------------------------------------------------------
Content == [of : SUBSET Versions, len : Nat]
TypeOK ==
    /\ published \in Versions
    /\ part \in [Urls -> Content] /\ file \in [Urls -> Content]
    /\ meta \in [Urls -> [validator : 0..LastVersion, total : Nat]]
    /\ cut \subseteq Urls /\ mixed \subseteq Urls
    /\ lookup \in 0..LastVersion /\ enriched \in 0..LastVersion
    /\ up \in BOOLEAN
    /\ pc \in {"idle", "request", "truncate", "stream", "probe", "loop", "range",
               "replace", "unlink", "import", "enrich", "finish"}
    /\ job \in [version : 0..LastVersion, total : Nat, clean : BOOLEAN,
                failures : 0..MaxResume, unchanged : BOOLEAN]
    /\ pc \in {"truncate", "stream", "probe", "loop", "range", "replace",
               "unlink", "import", "enrich"} => job.version # None
    /\ excused \subseteq Versions /\ faults \in 0..MaxFaults

(* "A swapped object is never spliced": a finished file holds pieces of    *)
(* one version, and all of them if its length was announced, whatever was  *)
(* interrupted, resumed or replaced on the server meanwhile.  The exception *)
(* is what a crash between the sidecar and the truncation makes of the old *)
(* partial file (r18_dump_download.py:193-195).                            *)
NeverSpliced ==
    \A u \in Urls \ mixed : file[u].len > 0 =>
        \E v \in Versions : /\ file[u].of = {v}
                            /\ v \notin Unsized => file[u].len = Size[v]

(* The newest dump reaches the lookup database and the catalogue at last,  *)
(* unless a run failed after its download or took a broken file for it.    *)
LookupCatchesUp ==
    \A v \in Versions :
        published = v ~> (lookup = v /\ enriched = v) \/ published # v \/ v \in excused
=============================================================================
