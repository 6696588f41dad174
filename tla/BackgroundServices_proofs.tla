----------------------- MODULE BackgroundServices_proofs ----------------------
(***************************************************************************)
(* Two services of the background.  The subtitle backfill                  *)
(* (SubtitleBackfill), for any number of directories, runs and mishaps:    *)
(* one thread at a time walks the library and its cursor passes nothing it *)
(* did not look up.  The watch over subscriptions (SubscriptionWatch), for *)
(* any number of works and events: a magnet has one row, a drain looks at  *)
(* a work once, and what runs at 115 is not cleared.                       *)
(***************************************************************************)
EXTENDS SubtitleBackfill, FiniteSets, TLAPS

CONSTANTS Works, NoWork, MaxEvents
VARIABLES follows, dismissed, drain, stamp, tick, enq, offRow, rowCount, remote, panReady,
          looked, events

Watch == INSTANCE SubscriptionWatch

-----------------------------------------------------------------------------
(* The subtitle backfill                                                   *)

Threads ==
    [pc : {"off", "load", "stop?", "cancelled?", "process", "save", "finish"},
     last : 0..Dirs, limit : {1, NoLimit}, dry : BOOLEAN, lookups : 0..Dirs,
     errors : 0..MaxErrors, result : Statuses \ {"none"}]
Checkpoints == [status : Statuses, last : 0..Dirs, dry : BOOLEAN, limit : {1, NoLimit}]
Alive(r) == walker[r].pc # "off"
Loaded(r) == walker[r].pc \notin {"off", "load"}

NewWalker == [NoWalker EXCEPT !.pc = "load"]

(* Nothing walks in a process that is down.                                *)
DownIsQuiet == ~serving => ~Running

(* A thread starts from nothing and has a directory left where it needs    *)
(* one; it has counted what it passed and failed at less than the limit.   *)
LocalsSound ==
    \A r \in Runs :
        /\ walker[r].pc = "off" => walker[r] = NoWalker
        /\ r > launched => walker[r].pc = "off"
        /\ walker[r].pc = "load" => walker[r] = NewWalker
        /\ walker[r].pc \in {"cancelled?", "process"} => walker[r].last < Dirs
        /\ walker[r].pc \in {"stop?", "cancelled?", "process"} =>
             walker[r].errors < MaxErrors
        /\ walker[r].lookups <= walker[r].last
        /\ walker[r].pc = "finish" /\ walker[r].result = "done" => walker[r].last = Dirs

(* The thread goes by the options of the checkpoint, and what it has       *)
(* passed it looked up.                                                    *)
WalkHonest ==
    \A r \in Runs : Loaded(r) =>
        /\ walker[r].dry = backfill.dry
        /\ ~walker[r].dry => 1..walker[r].last \subseteq tried

(* A stop is forgotten only once nothing walks.                            *)
HaltedIsStopping == halted /\ Running => stopping

IInv ==
    /\ TypeOK /\ OneBackfill /\ DownIsQuiet /\ LocalsSound /\ WalkHonest
    /\ CursorHonest /\ HaltedIsStopping

-----------------------------------------------------------------------------
LEMMA Types ==
    TypeOK <=>
        /\ backfill \in Checkpoints /\ walker \in [Runs -> Threads]
        /\ launched \in 0..MaxRuns /\ stopping \in BOOLEAN /\ closing \in BOOLEAN
        /\ serving \in BOOLEAN /\ halted \in BOOLEAN /\ cancels \subseteq Runs
        /\ tried \subseteq 1..Dirs /\ stranded \in BOOLEAN /\ mishaps \in 0..MaxMishaps
  BY DEF TypeOK, Checkpoints, Threads

LEMMA TypesNext ==
    TypeOK' <=>
        /\ backfill' \in Checkpoints /\ walker' \in [Runs -> Threads]
        /\ launched' \in 0..MaxRuns /\ stopping' \in BOOLEAN /\ closing' \in BOOLEAN
        /\ serving' \in BOOLEAN /\ halted' \in BOOLEAN /\ cancels' \subseteq Runs
        /\ tried' \subseteq 1..Dirs /\ stranded' \in BOOLEAN
        /\ mishaps' \in 0..MaxMishaps
  BY DEF TypeOK, Checkpoints, Threads

LEMMA NewThread ==
    ASSUME BackfillAssumption
    PROVE  /\ NoWalker \in Threads /\ NewWalker \in Threads
           /\ NoWalker.pc = "off" /\ NoWalker.last = 0 /\ NoWalker.lookups = 0
           /\ NewWalker.pc = "load" /\ NewWalker.last = 0 /\ NewWalker.lookups = 0
<1>1. 0 \in 0..Dirs /\ 0 \in 0..MaxErrors
  BY DEF BackfillAssumption
<1>2. "done" \in Statuses \ {"none"}
  BY DEF Statuses
<1> QED
  BY <1>1, <1>2 DEF NoWalker, NewWalker, Threads

LEMMA Initially == ASSUME BackfillAssumption PROVE Init => IInv
<1> SUFFICES ASSUME Init PROVE IInv
  OBVIOUS
<1>1. TypeOK
  <2>1. backfill \in Checkpoints
    BY DEF Init, Checkpoints, Statuses, NoLimit, BackfillAssumption
  <2>2. walker \in [Runs -> Threads]
    BY NewThread DEF Init
  <2>3. launched \in 0..MaxRuns /\ mishaps \in 0..MaxMishaps
    BY DEF Init, BackfillAssumption
  <2> QED
    BY <2>1, <2>2, <2>3, Types DEF Init
<1>2. \A r \in Runs : walker[r] = NoWalker
  BY DEF Init
<1>3. LocalsSound
  BY <1>2, NewThread DEF LocalsSound
<1>4. CursorHonest
  BY DEF Init, CursorHonest
<1> QED
  BY <1>1, <1>2, <1>3, <1>4, NewThread
  DEF Init, IInv, OneBackfill, DownIsQuiet, WalkHonest, HaltedIsStopping, Loaded, Running

(* A launch, when no thread is alive.                                      *)
LEMMA LaunchPreserves ==
    ASSUME BackfillAssumption, IInv, ~Running, Launch, backfill' \in Checkpoints,
           tried' \subseteq 1..Dirs, CursorHonest', serving' = TRUE,
           UNCHANGED <<cancels, stranded, mishaps>>
    PROVE  IInv'
<1>1. /\ walker \in [Runs -> Threads] /\ launched \in 0..MaxRuns
      /\ cancels \subseteq Runs /\ stranded \in BOOLEAN /\ mishaps \in 0..MaxMishaps
  BY Types DEF IInv
<1>2. launched + 1 \in Runs /\ \A r \in Runs : walker[r] = NoWalker
  BY <1>1 DEF BackfillAssumption, IInv, LocalsSound, Running, Launch, Runs
<1>3. \A r \in Runs :
        walker'[r] = IF r = launched + 1 THEN NewWalker ELSE NoWalker
  BY <1>1, <1>2 DEF Launch, NewWalker
<1>4. TypeOK'
  <2>1. walker' \in [Runs -> Threads]
    BY <1>1, <1>2, <1>3, NewThread DEF Launch
  <2>2. launched' \in 0..MaxRuns
    BY <1>1 DEF Launch, BackfillAssumption
  <2> QED
    BY <1>1, <2>1, <2>2, TypesNext DEF Launch
<1>5. OneBackfill' /\ DownIsQuiet' /\ WalkHonest' /\ HaltedIsStopping'
  BY <1>3, NewThread
  DEF OneBackfill, DownIsQuiet, WalkHonest, HaltedIsStopping, Loaded, Launch
<1>6. LocalsSound'
  BY <1>1, <1>2, <1>3, NewThread DEF BackfillAssumption, LocalsSound, Launch, Runs
<1> QED
  BY <1>4, <1>5, <1>6 DEF IInv

LEMMA StartPreserves ==
    ASSUME BackfillAssumption, IInv,
           NEW dry \in BOOLEAN, NEW restart \in BOOLEAN, NEW limit \in {1, NoLimit},
           Start(dry, limit, restart)
    PROVE  IInv'
<1>1. /\ ~Running /\ Launch /\ serving' = TRUE
      /\ UNCHANGED <<cancels, stranded, mishaps>>
  BY Types DEF Start, MayStart, IInv
<1>2. backfill \in Checkpoints /\ tried \subseteq 1..Dirs /\ CursorHonest
  BY Types DEF IInv
<1>3. /\ backfill' = [status |-> "running",
                      last |-> IF KeepsCursor(dry, restart) THEN backfill.last ELSE 0,
                      dry |-> dry, limit |-> limit]
      /\ tried' = IF KeepsCursor(dry, restart) THEN tried ELSE {}
  BY DEF Start
<1>4. backfill' \in Checkpoints /\ tried' \subseteq 1..Dirs
  BY <1>2, <1>3 DEF Checkpoints, Statuses, BackfillAssumption
<1>5. CursorHonest'
  BY <1>2, <1>3 DEF CursorHonest, KeepsCursor
<1> QED
  BY <1>1, <1>4, <1>5, LaunchPreserves

(* The requests and the process, between one launch and the next.          *)
LEMMA ControlPreserves ==
    ASSUME BackfillAssumption, IInv,
           Stop \/ Shutdown \/ Exit \/ Kill \/ Boot \/ \E r \in Runs : CancelTask(r)
    PROVE  IInv'
<1> USE DEF IInv
<1>1. CASE Stop
  BY <1>1 DEF Stop, TypeOK, OneBackfill, DownIsQuiet, LocalsSound, WalkHonest, Loaded,
              CursorHonest, HaltedIsStopping, Running, Runs
<1>2. CASE Shutdown
  BY <1>2 DEF Shutdown, Mishap, TypeOK, OneBackfill, DownIsQuiet, LocalsSound, WalkHonest,
              Loaded, CursorHonest, HaltedIsStopping, Running, Runs, BackfillAssumption
<1>3. CASE Exit
  BY <1>3 DEF Exit, TypeOK, OneBackfill, DownIsQuiet, LocalsSound, WalkHonest, Loaded,
              CursorHonest, HaltedIsStopping, Running, Runs
<1>4. CASE Kill
  <2>1. \A r \in Runs : walker'[r] = NoWalker
    BY <1>4 DEF Kill
  <2>2. TypeOK'
    <3>1. walker' \in [Runs -> Threads]
      BY <1>4, NewThread DEF Kill
    <3>2. mishaps' \in 0..MaxMishaps
      BY <1>4, Types DEF Kill, Mishap, BackfillAssumption
    <3> QED
      BY <1>4, <3>1, <3>2, Types, TypesNext DEF Kill
  <2>3. OneBackfill' /\ DownIsQuiet' /\ WalkHonest' /\ CursorHonest' /\ HaltedIsStopping'
    BY <1>4, <2>1 DEF Kill, OneBackfill, DownIsQuiet, WalkHonest, Loaded, CursorHonest,
                      HaltedIsStopping, Running, NoWalker
  <2>4. LocalsSound'
    BY <2>1, NewThread DEF LocalsSound
  <2> QED
    BY <2>2, <2>3, <2>4
<1>5. CASE Boot
  <2>1. ~Running
    BY <1>5 DEF Boot, DownIsQuiet
  <2>2. CASE Resumes /\ Launch /\ UNCHANGED backfill
    <3>1. CursorHonest'
      BY <1>5, <2>2 DEF Boot, CursorHonest
    <3> QED
      BY <1>5, <2>1, <2>2, <3>1, Types, LaunchPreserves DEF Boot
  <2>3. CASE /\ backfill' \in {backfill, [backfill EXCEPT !.status = "paused"]}
             /\ stopping' = FALSE /\ closing' = FALSE
             /\ UNCHANGED <<walker, launched, halted>>
    BY <1>5, <2>1, <2>3, ZenonT(30)
    DEF Boot, TypeOK, OneBackfill, DownIsQuiet, LocalsSound, WalkHonest, Loaded,
        CursorHonest, HaltedIsStopping, Running, Runs, Statuses
  <2> QED
    BY <1>5, <2>2, <2>3 DEF Boot
<1>6. ASSUME NEW r \in Runs, CancelTask(r)
      PROVE  IInv'
  BY <1>6 DEF CancelTask, TypeOK, OneBackfill, DownIsQuiet, LocalsSound, WalkHonest,
              Loaded, CursorHonest, HaltedIsStopping, Running, Runs, flags
<1> QED
  BY <1>1, <1>2, <1>3, <1>4, <1>5, <1>6

(* One step of the only thread; mem is what it knows afterwards.           *)
LEMMA ThreadPreserves ==
    ASSUME BackfillAssumption, IInv, NEW r \in Runs, Alive(r), NEW mem \in Threads,
           walker' = [walker EXCEPT ![r] = mem],
           UNCHANGED <<launched, flags, cancels>>,
           backfill' \in Checkpoints, tried' \subseteq 1..Dirs, CursorHonest',
           stranded' \in BOOLEAN, mishaps' \in 0..MaxMishaps,
           mem.pc = "off" => mem = NoWalker,
           mem.pc # "load",
           mem.pc \in {"cancelled?", "process"} => mem.last < Dirs,
           mem.pc \in {"stop?", "cancelled?", "process"} => mem.errors < MaxErrors,
           mem.lookups <= mem.last,
           mem.pc = "finish" /\ mem.result = "done" => mem.last = Dirs,
           mem.pc # "off" => mem.dry = backfill'.dry,
           mem.pc # "off" /\ ~mem.dry => 1..mem.last \subseteq tried'
    PROVE  IInv'
<1>1. TypeOK'
  BY Types, TypesNext DEF IInv, flags
<1>2. r <= launched /\ serving
  BY Types DEF IInv, LocalsSound, DownIsQuiet, Running, Alive, Runs, BackfillAssumption
<1>3. \A s \in Runs : walker'[s] = IF s = r THEN mem ELSE NoWalker
  BY Types DEF IInv, OneBackfill, LocalsSound, Alive
<1>4. OneBackfill' /\ DownIsQuiet' /\ WalkHonest' /\ HaltedIsStopping'
  BY <1>2, <1>3 DEF IInv, OneBackfill, DownIsQuiet, WalkHonest, HaltedIsStopping, Loaded,
                    NoWalker, Running, Alive, flags
<1>5. LocalsSound'
  BY <1>2, <1>3, Types, NewThread DEF IInv, LocalsSound, Runs, BackfillAssumption
<1> QED
  BY <1>1, <1>4, <1>5 DEF IInv

(* What a thread knows while it walks.                                     *)
LEMMA WalkFacts ==
    ASSUME BackfillAssumption, IInv, NEW r \in Runs
    PROVE  /\ walker \in [Runs -> Threads] /\ walker[r] \in Threads
           /\ backfill \in Checkpoints /\ tried \subseteq 1..Dirs /\ CursorHonest
           /\ stranded \in BOOLEAN /\ mishaps \in 0..MaxMishaps
           /\ walker[r].last \in 0..Dirs /\ walker[r].lookups \in 0..Dirs
           /\ walker[r].errors \in 0..MaxErrors
           /\ walker[r].lookups <= walker[r].last
           /\ Loaded(r) => /\ walker[r].dry = backfill.dry
                           /\ ~walker[r].dry => 1..walker[r].last \subseteq tried
<1>1. walker \in [Runs -> Threads] /\ walker[r] \in Threads
  BY Types DEF IInv
<1>2. /\ walker[r].last \in 0..Dirs /\ walker[r].lookups \in 0..Dirs
      /\ walker[r].errors \in 0..MaxErrors
  BY <1>1 DEF Threads
<1> QED
  BY <1>1, <1>2, Types DEF IInv, LocalsSound, WalkHonest

LEMMA LoadPreserves ==
    ASSUME BackfillAssumption, IInv, NEW r \in Runs, Load(r) PROVE IInv'
<1> DEFINE mem == [NoWalker EXCEPT !.pc = "stop?", !.last = backfill.last,
                                   !.limit = backfill.limit, !.dry = backfill.dry]
<1>1. walker[r] = NewWalker
  BY DEF Load, IInv, LocalsSound
<1>2. walker' = [walker EXCEPT ![r] = [walker[r] EXCEPT
          !.pc = "stop?", !.last = backfill.last, !.limit = backfill.limit,
          !.dry = backfill.dry]]
  BY WalkFacts DEF Load
<1>3. walker' = [walker EXCEPT ![r] = mem]
  BY <1>1, <1>2 DEF NoWalker, NewWalker
<1>4. backfill \in Checkpoints /\ CursorHonest
  BY WalkFacts
<1>5. /\ mem \in Threads /\ mem.pc = "stop?" /\ mem.last = backfill.last
      /\ mem.dry = backfill.dry /\ mem.lookups = 0 /\ mem.errors = 0
  BY <1>4, NewThread DEF NoWalker, Threads, Checkpoints
<1>6. mem.lookups <= mem.last /\ mem.errors < MaxErrors
  <2>1. backfill.last \in 0..Dirs
    BY <1>4 DEF Checkpoints
  <2> QED
    BY <1>5, <2>1 DEF BackfillAssumption
<1>7. ~mem.dry => 1..mem.last \subseteq tried
  BY <1>4, <1>5 DEF CursorHonest
<1>8. Alive(r) /\ UNCHANGED <<backfill, launched, flags, cancels, tried, stranded, mishaps>>
  BY DEF Load, Alive
<1>9. CursorHonest'
  BY <1>4, <1>8 DEF CursorHonest
<1> HIDE DEF mem
<1> QED
  BY <1>3, <1>5, <1>6, <1>7, <1>8, <1>9, WalkFacts, ThreadPreserves

(* The steps that leave the cursor where it is.                            *)
LEMMA EndPreserves ==
    ASSUME BackfillAssumption, IInv, NEW r \in Runs,
           SeesStop(r) \/ SeesCancel(r) \/ Raises(r)
    PROVE  IInv'
<1>1. Alive(r) /\ Loaded(r)
  BY DEF SeesStop, SeesCancel, Raises, Alive, Loaded
<1>2. /\ UNCHANGED <<backfill, launched, flags, cancels, tried, stranded>>
      /\ mishaps' \in 0..MaxMishaps
  BY WalkFacts DEF SeesStop, SeesCancel, Raises, Mishap, BackfillAssumption
<1>3. CursorHonest'
  BY <1>2, WalkFacts DEF CursorHonest
<1>4. ASSUME NEW result \in Statuses \ {"none"}, Ends(r, result),
             result = "done" => walker[r].last = Dirs
      PROVE  IInv'
  <2> DEFINE mem == [walker[r] EXCEPT !.pc = "finish", !.result = result]
  <2>1. walker' = [walker EXCEPT ![r] = mem]
    BY <1>4, WalkFacts DEF Ends
  <2>2. /\ mem \in Threads /\ mem.pc = "finish" /\ mem.result = result
        /\ mem.last = walker[r].last /\ mem.dry = walker[r].dry
        /\ mem.lookups = walker[r].lookups
    BY WalkFacts DEF Threads
  <2> HIDE DEF mem
  <2> QED
    BY <1>1, <1>2, <1>3, <1>4, <2>1, <2>2, WalkFacts, ThreadPreserves
<1>5. ASSUME NEW at \in {"cancelled?", "process"}, walker' = [walker EXCEPT ![r].pc = at],
             walker[r].last < Dirs, walker[r].errors < MaxErrors
      PROVE  IInv'
  <2> DEFINE mem == [walker[r] EXCEPT !.pc = at]
  <2>1. walker' = [walker EXCEPT ![r] = mem]
    BY <1>5, WalkFacts
  <2>2. /\ mem \in Threads /\ mem.pc = at /\ mem.errors = walker[r].errors
        /\ mem.last = walker[r].last /\ mem.dry = walker[r].dry
        /\ mem.lookups = walker[r].lookups
    BY WalkFacts DEF Threads
  <2> HIDE DEF mem
  <2> QED
    BY <1>1, <1>2, <1>3, <1>5, <2>1, <2>2, WalkFacts, ThreadPreserves
<1>6. walker[r].pc \in {"stop?", "cancelled?"} => walker[r].errors < MaxErrors
  BY DEF IInv, LocalsSound
<1>7. CASE SeesStop(r)
  <2>1. walker[r].pc = "stop?"
    BY <1>7 DEF SeesStop
  <2>2. CASE walker[r].last = Dirs \/ stopping
    BY <1>4, <1>7, <2>2 DEF SeesStop, Statuses
  <2>3. CASE walker[r].last # Dirs /\ ~stopping
    <3>1. walker[r].last < Dirs
      BY <2>3, WalkFacts DEF BackfillAssumption
    <3> QED
      BY <1>5, <1>6, <1>7, <2>1, <2>3, <3>1 DEF SeesStop
  <2> QED
    BY <2>2, <2>3
<1>8. CASE SeesCancel(r)
  <2>1. walker[r].pc = "cancelled?" /\ walker[r].last < Dirs
    BY <1>8 DEF SeesCancel, IInv, LocalsSound
  <2> QED
    BY <1>4, <1>5, <1>6, <1>8, <2>1 DEF SeesCancel, Statuses
<1>9. CASE Raises(r)
  BY <1>4, <1>9 DEF Raises, Statuses
<1> QED
  BY <1>7, <1>8, <1>9

LEMMA ProcessPreserves ==
    ASSUME BackfillAssumption, IInv, NEW r \in Runs, Process(r) PROVE IInv'
<1>1. /\ walker[r].pc = "process" /\ walker[r].last < Dirs
      /\ walker[r].errors < MaxErrors /\ Alive(r) /\ Loaded(r)
  BY DEF Process, IInv, LocalsSound, Alive, Loaded
<1>2. PICK outcome \in {"local", "remote", "error"} :
        walker' = [walker EXCEPT
            ![r].pc = "save", ![r].last = @ + 1,
            ![r].lookups = IF outcome = "local" THEN @ ELSE @ + 1,
            ![r].errors = IF outcome = "error" THEN @ + 1 ELSE 0]
  BY DEF Process
<1> DEFINE mem == [walker[r] EXCEPT
                      !.pc = "save", !.last = @ + 1,
                      !.lookups = IF outcome = "local" THEN @ ELSE @ + 1,
                      !.errors = IF outcome = "error" THEN @ + 1 ELSE 0]
<1>3. walker' = [walker EXCEPT ![r] = mem]
  BY <1>2, WalkFacts
<1>4. /\ mem.pc = "save" /\ mem.last = walker[r].last + 1 /\ mem.dry = walker[r].dry
      /\ mem.lookups <= walker[r].lookups + 1
  BY WalkFacts DEF Threads
<1>5. mem \in Threads
  <2>1. /\ walker[r].last + 1 \in 0..Dirs /\ walker[r].lookups + 1 \in 0..Dirs
        /\ walker[r].errors + 1 \in 0..MaxErrors /\ 0 \in 0..MaxErrors
    BY <1>1, WalkFacts DEF BackfillAssumption
  <2> QED
    BY <2>1, WalkFacts, ZenonT(30) DEF Threads
<1>6. tried' = IF walker[r].dry THEN tried ELSE tried \cup {walker[r].last + 1}
  BY DEF Process
<1>7. tried' \subseteq 1..Dirs
  BY <1>1, <1>6, WalkFacts DEF BackfillAssumption
<1>8. CursorHonest'
  BY <1>6, WalkFacts DEF Process, CursorHonest
<1>9. ~mem.dry => 1..mem.last \subseteq tried'
  BY <1>1, <1>4, <1>6, WalkFacts
<1>10. mem.lookups <= mem.last
  BY <1>4, <1>5, WalkFacts DEF Threads
<1> HIDE DEF mem
<1> QED
  BY <1>1, <1>3, <1>4, <1>5, <1>7, <1>8, <1>9, <1>10, WalkFacts, ThreadPreserves DEF Process

LEMMA SavePreserves ==
    ASSUME BackfillAssumption, IInv, NEW r \in Runs, Save(r) PROVE IInv'
<1>1. Alive(r) /\ Loaded(r)
  BY DEF Save, Alive, Loaded
<1>2. backfill' = [backfill EXCEPT !.status = "running", !.last = walker[r].last]
  BY DEF Save
<1>3. /\ backfill' \in Checkpoints /\ backfill'.dry = backfill.dry
      /\ backfill'.last = walker[r].last /\ backfill'.status = "running"
  BY <1>2, WalkFacts DEF Checkpoints, Statuses
<1>4. CursorHonest' /\ tried' = tried
  BY <1>1, <1>3, WalkFacts DEF CursorHonest, Save
<1>5. CASE walker[r].errors >= MaxErrors
  <2> DEFINE mem == [walker[r] EXCEPT !.pc = "finish", !.result = "paused"]
  <2>1. walker' = [walker EXCEPT ![r] = mem]
    BY <1>5, WalkFacts DEF Save, Ends
  <2>2. /\ mem \in Threads /\ mem.pc = "finish" /\ mem.result = "paused"
        /\ mem.last = walker[r].last /\ mem.dry = walker[r].dry
        /\ mem.lookups = walker[r].lookups
    BY WalkFacts DEF Threads, Statuses
  <2> HIDE DEF mem
  <2> QED
    BY <1>1, <1>3, <1>4, <2>1, <2>2, WalkFacts, ThreadPreserves DEF Save
<1>6. CASE ~(walker[r].errors >= MaxErrors)
  <2> DEFINE mem == [walker[r] EXCEPT !.pc = "stop?"]
  <2>1. walker' = [walker EXCEPT ![r] = mem]
    BY <1>6, WalkFacts DEF Save
  <2>2. /\ mem \in Threads /\ mem.pc = "stop?" /\ mem.errors = walker[r].errors
        /\ mem.last = walker[r].last /\ mem.dry = walker[r].dry
        /\ mem.lookups = walker[r].lookups
    BY WalkFacts DEF Threads
  <2>3. walker[r].errors < MaxErrors
    BY <1>6, WalkFacts DEF BackfillAssumption
  <2> HIDE DEF mem
  <2> QED
    BY <1>1, <1>3, <1>4, <2>1, <2>2, <2>3, WalkFacts, ThreadPreserves DEF Save
<1> QED
  BY <1>5, <1>6

(* The thread ends, with a record of how or without one.                   *)
LEMMA EndedPreserves ==
    ASSUME BackfillAssumption, IInv, NEW r \in Runs, Finish(r) \/ DiesUnrecorded(r)
    PROVE  IInv'
<1>1. Alive(r) /\ walker' = [walker EXCEPT ![r] = NoWalker]
  BY DEF Finish, DiesUnrecorded, Alive
<1>2. /\ NoWalker \in Threads /\ NoWalker.pc = "off"
      /\ NoWalker.lookups <= NoWalker.last
  BY NewThread
<1>3. CASE Finish(r)
  <2>1. backfill' = [backfill EXCEPT !.status = walker[r].result, !.last = walker[r].last]
    BY <1>3 DEF Finish
  <2>2. /\ backfill' \in Checkpoints /\ backfill'.dry = backfill.dry
        /\ backfill'.last = walker[r].last /\ backfill'.status = walker[r].result
    BY <2>1, WalkFacts DEF Checkpoints, Threads
  <2>3. walker[r].result = "done" => walker[r].last = Dirs
    BY <1>3 DEF Finish, IInv, LocalsSound
  <2>4. CursorHonest'
    BY <1>3, <2>2, <2>3, WalkFacts DEF Finish, CursorHonest, Loaded
  <2> QED
    BY <1>1, <1>2, <1>3, <2>2, <2>4, WalkFacts, ThreadPreserves DEF Finish
<1>4. CASE DiesUnrecorded(r)
  <2>1. mishaps' \in 0..MaxMishaps
    BY <1>4, WalkFacts DEF DiesUnrecorded, Mishap, BackfillAssumption
  <2>2. CursorHonest'
    BY <1>4, WalkFacts DEF DiesUnrecorded, CursorHonest
  <2> QED
    BY <1>1, <1>2, <1>4, <2>1, <2>2, WalkFacts, ThreadPreserves DEF DiesUnrecorded
<1> QED
  BY <1>3, <1>4

LEMMA WalkPreserves ==
    ASSUME BackfillAssumption, IInv, NEW r \in Runs,
           Walk(r) \/ Raises(r) \/ DiesUnrecorded(r)
    PROVE  IInv'
  BY LoadPreserves, EndPreserves, ProcessPreserves, SavePreserves, EndedPreserves DEF Walk

LEMMA Inductive ==
    ASSUME BackfillAssumption PROVE IInv /\ [Next]_backfillVars => IInv'
<1> SUFFICES ASSUME IInv, [Next]_backfillVars PROVE IInv'
  OBVIOUS
<1>1. CASE UNCHANGED backfillVars
  BY <1>1 DEF backfillVars, flags, IInv, TypeOK, OneBackfill, DownIsQuiet, LocalsSound,
              WalkHonest, Loaded, CursorHonest, HaltedIsStopping, Running
<1>2. CASE Next
  BY <1>2, StartPreserves, ControlPreserves, WalkPreserves DEF Next, Proceed
<1> QED
  BY <1>1, <1>2

-----------------------------------------------------------------------------
LEMMA Invariance == ASSUME BackfillAssumption PROVE Spec => []IInv
  BY Initially, Inductive, PTL DEF Spec

(* The checkpoint, the threads and the flags keep their types, whatever is *)
(* started, stopped, killed or raised.                                     *)
THEOREM TypeCorrect == ASSUME BackfillAssumption PROVE Spec => []TypeOK
<1>1. IInv => TypeOK
  BY DEF IInv
<1> QED
  BY <1>1, Invariance, PTL

(* No start, resume or restart gives the library a second thread.          *)
THEOREM OneThread == ASSUME BackfillAssumption PROVE Spec => []OneBackfill
<1>1. IInv => OneBackfill
  BY DEF IInv
<1> QED
  BY <1>1, Invariance, PTL

(* The cursor passes nothing that was not looked up in this pass, and only *)
(* a finished walk is called done.                                         *)
THEOREM CursorStaysHonest == ASSUME BackfillAssumption PROVE Spec => []CursorHonest
<1>1. IInv => CursorHonest
  BY DEF IInv
<1> QED
  BY <1>1, Invariance, PTL

(* A thread that was told to stop comes to no further directory, unless    *)
(* another one is launched.                                                *)
THEOREM StopIsKept == ASSUME BackfillAssumption PROVE Spec => StopSticks
<1>1. ASSUME IInv, [Next]_backfillVars
      PROVE  [halted => \A r \in Runs : walker'[r].pc = "cancelled?" =>
                                        walker[r].pc = "cancelled?"]_backfillVars
  <2> SUFFICES ASSUME Next, halted, NEW r \in Runs, walker'[r].pc = "cancelled?",
                      walker[r].pc # "cancelled?"
               PROVE  FALSE
    BY <1>1
  <2> USE <1>1 DEF IInv
  <2>1. walker \in [Runs -> [pc : {"off", "load", "stop?", "cancelled?", "process",
                                   "save", "finish"},
                             last : 0..Dirs, limit : {1, NoLimit}, dry : BOOLEAN,
                             lookups : 0..Dirs, errors : 0..MaxErrors,
                             result : Statuses \ {"none"}]]
    BY DEF TypeOK
  <2>2. ASSUME NEW s \in Runs, SeesStop(s)
        PROVE  FALSE
    <3>1. s = r
      BY <2>1, <2>2 DEF SeesStop, Ends
    <3>2. Running
      BY <2>2 DEF SeesStop, Running
    <3>3. stopping
      BY <3>2 DEF HaltedIsStopping
    <3> QED
      BY <2>1, <2>2, <3>1, <3>3 DEF SeesStop, Ends
  <2>3. ASSUME NEW s \in Runs,
               \/ Load(s) \/ SeesCancel(s) \/ Process(s) \/ Save(s) \/ Finish(s)
               \/ Raises(s) \/ DiesUnrecorded(s)
        PROVE  FALSE
    BY <2>1, <2>3 DEF Load, SeesCancel, Process, Save, Finish, Raises, DiesUnrecorded, Ends,
                      NoWalker
  <2>4. ASSUME Launch
        PROVE  FALSE
    BY <2>1, <2>4 DEF Launch, Runs
  <2>5. ~(Stop \/ Shutdown \/ Exit \/ Kill \/ \E s \in Runs : CancelTask(s))
    <3>1. walker' # walker
      OBVIOUS
    <3>2. ASSUME Kill PROVE FALSE
      <4>1. walker'[r] = NoWalker
        BY <3>2 DEF Kill
      <4> QED
        BY <4>1, NewThread
    <3> QED
      BY <3>1, <3>2 DEF Stop, Shutdown, Exit, CancelTask
  <2>6. ~Boot
    BY <2>4 DEF Boot
  <2> QED
    BY <2>2, <2>3, <2>4, <2>5, <2>6 DEF Next, Proceed, Walk, Start
<1> QED
  BY <1>1, Invariance, PTL DEF Spec, StopSticks

-----------------------------------------------------------------------------
(* The watch over subscriptions                                            *)

(* A call knows its work; the watch commits at once, and a request that is *)
(* going to insert a row still has none to find.                           *)
CallsSound ==
    /\ \A p \in Watch!Callers : enq[p].pc # "off" => enq[p].work \in Works
    /\ enq["watch"].pc # "commit"
    /\ enq["request"].pc = "commit" /\ enq["request"].creates =>
         rowCount[enq["request"].work] = 0

(* Submissions of one magnet are kept apart.                               *)
OneHolder ==
    \A p, q \in Watch!Callers :
        enq[p].pc \in Watch!Locked /\ enq[q].pc \in Watch!Locked
        /\ enq[p].work = enq[q].work => p = q

(* What is about to be cleared is history.                                 *)
StaleIsHistory ==
    \A p \in Watch!Callers : enq[p].pc = "stale" => remote[enq[p].work] # "running"

(* The work at hand is not to be looked at again, and neither is one that  *)
(* was; the state file knows the latter.                                   *)
DrainSound ==
    /\ tick.pc # "idle" => drain.on
    /\ tick.pc \in {"look", "submitting", "stamp"} => tick.work \in Works \ tick.todo
    /\ looked \cap tick.todo = {}
    /\ drain.on => looked \subseteq drain.skip
    /\ (enq["watch"].pc # "off") = (tick.pc = "submitting")

WatchInv ==
    /\ Watch!TypeOK /\ Watch!OneRow /\ CallsSound /\ OneHolder /\ StaleIsHistory
    /\ DrainSound

-----------------------------------------------------------------------------
LEMMA WatchInitially == ASSUME Watch!WatchAssumption PROVE Watch!Init => WatchInv
  BY DEF Watch!WatchAssumption, Watch!Init, WatchInv, Watch!TypeOK, Watch!OneRow,
         CallsSound, OneHolder, StaleIsHistory, DrainSound, Watch!NoTick, Watch!NoCall,
         Watch!Call, Watch!Callers, Watch!Locked

(* The user, time, the cloud and the poller.                               *)
LEMMA OutsidePreserves ==
    ASSUME Watch!WatchAssumption, WatchInv, NEW w \in Works,
           \/ Watch!Follow(w)
           \/ Watch!Dismiss(w)
           \/ Watch!RemoteChanges(w)
           \/ Watch!RowFollows(w)
           \/ Watch!Ages(w)
    PROVE  WatchInv'
<1> USE DEF Watch!WatchAssumption, WatchInv
<1>1. CASE Watch!Follow(w) \/ Watch!Dismiss(w) \/ Watch!Ages(w)
  <2>1. Watch!TypeOK'
    BY <1>1
    DEF Watch!Follow, Watch!Dismiss, Watch!Ages, Watch!TypeOK, Watch!Event, Watch!state,
        Watch!rows, Watch!prefs
  <2>2. UNCHANGED <<drain, looked, tick, enq, Watch!rows, remote>>
    BY <1>1 DEF Watch!Follow, Watch!Dismiss, Watch!Ages, Watch!state
  <2> QED
    BY <2>1, <2>2
    DEF Watch!OneRow, CallsSound, OneHolder, StaleIsHistory, DrainSound, Watch!rows
<1>2. CASE Watch!RemoteChanges(w)
  <2>1. Watch!TypeOK'
    BY <1>2
    DEF Watch!RemoteChanges, Watch!TypeOK, Watch!Event, Watch!Smooth, Watch!state,
        Watch!rows, Watch!prefs
  <2>2. \A v \in Works : remote'[v] = "running" => remote[v] = "running"
    BY <1>2 DEF Watch!RemoteChanges, Watch!TypeOK
  <2>3. UNCHANGED enq
    BY <1>2 DEF Watch!RemoteChanges
  <2>4. StaleIsHistory'
    BY <2>2, <2>3 DEF StaleIsHistory, CallsSound
  <2> QED
    BY <1>2, <2>1, <2>4
    DEF Watch!RemoteChanges, Watch!OneRow, CallsSound, OneHolder, DrainSound, Watch!rows,
        Watch!state
<1>3. CASE Watch!RowFollows(w)
  <2>1. Watch!TypeOK'
    BY <1>3 DEF Watch!RowFollows, Watch!TypeOK, Watch!state, Watch!prefs
  <2> QED
    BY <1>3, <2>1
    DEF Watch!RowFollows, Watch!OneRow, CallsSound, OneHolder, StaleIsHistory, DrainSound,
        Watch!state
<1> QED
  BY <1>1, <1>2, <1>3

(* The run of the watch, which leaves rows and remote tasks alone.         *)
LEMMA TickPreserves ==
    ASSUME Watch!WatchAssumption, WatchInv, Watch!TickSteps \/ Watch!NoMagnet
    PROVE  WatchInv'
<1> USE DEF Watch!WatchAssumption, WatchInv
<1>1. CASE Watch!TickBegins
  <2>1. Watch!TypeOK'
    BY <1>1 DEF Watch!TickBegins, Watch!TypeOK, Watch!Targets, Watch!prefs, Watch!rows
  <2>2. DrainSound'
    BY <1>1 DEF Watch!TickBegins, Watch!TypeOK, DrainSound, Watch!Targets
  <2> QED
    BY <1>1, <2>1, <2>2
    DEF Watch!TickBegins, Watch!OneRow, CallsSound, OneHolder, StaleIsHistory, Watch!rows
<1>2. ASSUME NEW w \in Works, Watch!Look(w)
      PROVE  WatchInv'
  BY <1>2
  DEF Watch!Look, Watch!TypeOK, DrainSound, Watch!OneRow, CallsSound, OneHolder,
      StaleIsHistory, Watch!rows, Watch!state, Watch!prefs
<1>3. CASE Watch!MagnetFound
  <2>1. CASE UNCHANGED enq /\ tick' = [tick EXCEPT !.pc = "stamp"]
    BY <1>3, <2>1
    DEF Watch!MagnetFound, Watch!TypeOK, DrainSound, Watch!OneRow, CallsSound, OneHolder,
        StaleIsHistory, Watch!rows, Watch!state, Watch!prefs
  <2>2. CASE /\ tick' = [tick EXCEPT !.pc = "submitting"]
             /\ enq' = [enq EXCEPT !["watch"] = [Watch!NoCall EXCEPT !.pc = "lock",
                                                               !.work = tick.work]]
    <3>1. tick.work \in Works /\ tick.pc = "look"
      BY <1>3 DEF Watch!MagnetFound, DrainSound
    <3>2. Watch!TypeOK'
      BY <1>3, <2>2, <3>1
      DEF Watch!MagnetFound, Watch!TypeOK, Watch!NoCall, Watch!Call, Watch!Callers,
          Watch!rows, Watch!state, Watch!prefs
    <3>3. /\ enq'["request"] = enq["request"]
          /\ enq'["watch"].pc = "lock" /\ enq'["watch"].work = tick.work
      BY <2>2 DEF Watch!TypeOK, Watch!NoCall, Watch!Callers
    <3> QED
      BY <1>3, <2>2, <3>1, <3>2, <3>3
      DEF Watch!MagnetFound, Watch!TypeOK, DrainSound, Watch!OneRow, CallsSound, OneHolder,
          StaleIsHistory, Watch!rows, Watch!state, Watch!Callers, Watch!Locked
  <2> QED
    BY <1>3, <2>1, <2>2 DEF Watch!MagnetFound
<1>4. CASE Watch!NoMagnet
  BY <1>4
  DEF Watch!NoMagnet, Watch!Event, Watch!TypeOK, DrainSound, Watch!OneRow, CallsSound,
      OneHolder, StaleIsHistory, Watch!rows, Watch!state, Watch!prefs
<1>5. CASE Watch!Stamped
  <2>1. tick.work \in Works \ tick.todo
    BY <1>5 DEF Watch!Stamped, DrainSound
  <2>2. Watch!TypeOK'
    BY <1>5, <2>1 DEF Watch!Stamped, Watch!TypeOK, Watch!rows, Watch!prefs
  <2>3. DrainSound'
    BY <1>5, <2>1 DEF Watch!Stamped, Watch!TypeOK, DrainSound
  <2> QED
    BY <1>5, <2>2, <2>3
    DEF Watch!Stamped, Watch!OneRow, CallsSound, OneHolder, StaleIsHistory, Watch!rows
<1>6. CASE Watch!TickEnds
  BY <1>6
  DEF Watch!TickEnds, Watch!NoTick, Watch!TypeOK, DrainSound, Watch!OneRow, CallsSound,
      OneHolder, StaleIsHistory, Watch!rows, Watch!prefs
<1> QED
  BY <1>1, <1>2, <1>3, <1>4, <1>5, <1>6 DEF Watch!TickSteps

(* One step of a call; call is what is left of it.                         *)
LEMMA CallPreserves ==
    ASSUME Watch!WatchAssumption, WatchInv, NEW p \in Watch!Callers, NEW call \in Watch!Call,
           enq[p].pc # "off", enq' = [enq EXCEPT ![p] = call],
           tick' = IF p = "watch" /\ call.pc = "off" THEN [tick EXCEPT !.pc = "stamp"]
                   ELSE tick,
           UNCHANGED <<Watch!prefs, Watch!state, panReady>>, events' \in 0..MaxEvents,
           offRow' \in [Works -> {"none", "running", "done", "failed"}],
           rowCount' \in [Works -> Nat],
           remote' \in [Works -> {"none", "running", "done", "gone"}],
           Watch!OneRow', StaleIsHistory',
           call.pc # "off" => call.work = enq[p].work,
           call.pc \in Watch!Locked => enq[p].pc \in Watch!Locked \/ Watch!LockHeld(p),
           call.pc = "commit" => p = "request" /\ (call.creates => rowCount'[call.work] = 0),
           rowCount' = rowCount \/ enq'["request"].pc # "commit"
    PROVE  WatchInv'
<1> USE DEF WatchInv
<1>1. \A q \in Watch!Callers : enq'[q] = IF q = p THEN call ELSE enq[q]
  BY DEF Watch!TypeOK
<1>2. Watch!TypeOK'
  BY <1>1 DEF Watch!TypeOK, Watch!prefs, Watch!state
<1>3. CallsSound'
  BY <1>1 DEF CallsSound, Watch!TypeOK, Watch!Callers
<1>4. OneHolder'
  BY <1>1 DEF OneHolder, Watch!LockHeld, Watch!Locked
<1>5. DrainSound'
  BY <1>1 DEF DrainSound, Watch!TypeOK, Watch!state, Watch!Callers
<1> QED
  BY <1>2, <1>3, <1>4, <1>5

(* What a call knows while it is on its way.                               *)
LEMMA CallFacts ==
    ASSUME Watch!WatchAssumption, WatchInv, NEW p \in Watch!Callers, enq[p].pc # "off"
    PROVE  /\ enq[p] \in Watch!Call /\ enq[p].work \in Works
           /\ Watch!NoCall \in Watch!Call /\ DOMAIN enq = Watch!Callers
           /\ enq["watch"] \in Watch!Call /\ enq["request"] \in Watch!Call
  BY DEF WatchInv, Watch!TypeOK, CallsSound, Watch!NoCall, Watch!Call, Watch!Callers

LEMMA RowWrittenPreserves ==
    ASSUME Watch!WatchAssumption, WatchInv, NEW p \in Watch!Callers,
           enq[p].pc \in Watch!Locked, Watch!RowWritten(p),
           UNCHANGED <<Watch!prefs, Watch!state, panReady, events>>,
           remote' \in [Works -> {"none", "running", "done", "gone"}],
           \A v \in Works \ {enq[p].work} : remote'[v] = remote[v]
    PROVE  WatchInv'
<1> DEFINE w == enq[p].work
<1>1. enq[p].pc # "off"
  BY DEF Watch!Locked
<1>2. enq[p] \in Watch!Call /\ w \in Works /\ Watch!NoCall \in Watch!Call
  BY <1>1, CallFacts
<1> HIDE DEF w
<1> USE DEF WatchInv
<1>3. ASSUME NEW call \in Watch!Call, call.pc \in {"off", "commit"},
             enq' = [enq EXCEPT ![p] = call]
      PROVE  StaleIsHistory'
  BY <1>1, <1>3 DEF StaleIsHistory, OneHolder, Watch!Locked, Watch!TypeOK, CallsSound
<1>4. CASE Watch!Leaves(p) /\ UNCHANGED Watch!rows
  BY <1>1, <1>2, <1>3, <1>4, CallPreserves
  DEF Watch!Leaves, Watch!NoCall, Watch!TypeOK, Watch!OneRow, Watch!rows
<1>5. CASE ~(\E q \in Watch!Callers : enq[q].pc = "commit") /\ p = "watch"
  <2>1. /\ rowCount' = [rowCount EXCEPT ![w] = IF Watch!Inserts(w) THEN @ + 1 ELSE @]
        /\ offRow' = [offRow EXCEPT ![w] = "running"]
        /\ Watch!Leaves(p)
    BY <1>5 DEF Watch!RowWritten, w
  <2>2. Watch!OneRow' /\ rowCount' \in [Works -> Nat]
        /\ offRow' \in [Works -> {"none", "running", "done", "failed"}]
    BY <1>2, <2>1 DEF Watch!OneRow, Watch!TypeOK, Watch!Inserts
  <2>3. enq'["request"].pc # "commit"
    BY <1>5, <2>1 DEF Watch!Leaves, Watch!TypeOK, Watch!Callers
  <2>4. /\ enq' = [enq EXCEPT ![p] = Watch!NoCall] /\ tick' = [tick EXCEPT !.pc = "stamp"]
        /\ Watch!NoCall.pc = "off" /\ events' \in 0..MaxEvents
    BY <1>5, <2>1 DEF Watch!Leaves, Watch!NoCall, Watch!TypeOK
  <2>5. StaleIsHistory'
    BY <1>2, <1>3, <2>4
  <2> QED
    BY <1>1, <1>2, <1>5, <2>2, <2>3, <2>4, <2>5, CallPreserves DEF Watch!Locked
<1>6. CASE ~(\E q \in Watch!Callers : enq[q].pc = "commit") /\ p # "watch"
  <2> DEFINE call == [enq[p] EXCEPT !.pc = "commit", !.creates = Watch!Inserts(w)]
  <2>1. enq' = [enq EXCEPT ![p] = call] /\ UNCHANGED <<tick, Watch!rows>>
    BY <1>2, <1>6 DEF Watch!RowWritten, w, Watch!TypeOK
  <2>2. call \in Watch!Call /\ call.work = w /\ call.pc = "commit"
        /\ (call.creates => rowCount[w] = 0)
    BY <1>2 DEF Watch!Call, Watch!Inserts, w
  <2>3. p = "request"
    BY <1>6 DEF Watch!Callers
  <2> QED
    BY <1>1, <1>2, <1>3, <2>1, <2>2, <2>3, CallPreserves
    DEF w, Watch!TypeOK, Watch!OneRow, Watch!rows, Watch!Locked
<1> QED
  BY <1>4, <1>5, <1>6 DEF Watch!RowWritten

LEMMA CallStepPreserves ==
    ASSUME Watch!WatchAssumption, WatchInv, NEW p \in Watch!Callers,
           Watch!CallSteps(p) \/ Watch!ReplyLost(p) \/ Watch!CallFails(p)
    PROVE  WatchInv'
<1> USE DEF WatchInv
<1> DEFINE w == enq[p].work
<1>1. enq[p].pc # "off"
  BY DEF Watch!CallSteps, Watch!Lock, Watch!Sent, Watch!Reconciled, Watch!HistoryCleared,
         Watch!Resent, Watch!ReplyLost, Watch!CallFails, Watch!Locked
<1>2. /\ enq[p] \in Watch!Call /\ w \in Works /\ Watch!NoCall \in Watch!Call
      /\ DOMAIN enq = Watch!Callers
  BY <1>1, CallFacts
(* A step to another place in the call, which the other call does not mind. *)
<1>3. ASSUME NEW at \in {"sent", "exists", "stale", "resent"},
             enq' = [enq EXCEPT ![p].pc = at],
             enq[p].pc \in Watch!Locked \/ Watch!LockHeld(p),
             at = "stale" => remote[w] # "running",
             UNCHANGED <<Watch!prefs, Watch!state, tick, Watch!rows, panReady, events>>,
             remote' \in [Works -> {"none", "running", "done", "gone"}],
             \A v \in Works : remote'[v] # "running" \/ remote'[v] = remote[v]
      PROVE  WatchInv'
  <2> DEFINE call == [enq[p] EXCEPT !.pc = at]
  <2>1. call \in Watch!Call /\ call.pc = at /\ call.work = w
    BY <1>2 DEF Watch!Call, Watch!Locked
  <2>2. enq' = [enq EXCEPT ![p] = call]
    BY <1>2, <1>3
  <2>3. StaleIsHistory'
    BY <1>2, <1>3, <2>1, <2>2 DEF StaleIsHistory, CallsSound
  <2>4. /\ Watch!OneRow' /\ rowCount' = rowCount /\ rowCount' \in [Works -> Nat]
        /\ offRow' \in [Works -> {"none", "running", "done", "failed"}]
        /\ events' \in 0..MaxEvents /\ tick' = tick
    BY <1>3 DEF Watch!TypeOK, Watch!OneRow, Watch!rows
  <2>5. call.pc # "off" /\ call.pc # "commit"
    BY <1>3, <2>1
  <2>6. /\ call.pc \in Watch!Locked => enq[p].pc \in Watch!Locked \/ Watch!LockHeld(p)
        /\ tick' = IF p = "watch" /\ call.pc = "off" THEN [tick EXCEPT !.pc = "stamp"]
                   ELSE tick
        /\ call.work = enq[p].work
    BY <1>3, <2>1, <2>4, <2>5
  <2>7. /\ UNCHANGED <<Watch!prefs, Watch!state, panReady>>
        /\ remote' \in [Works -> {"none", "running", "done", "gone"}]
    BY <1>3
  <2> HIDE DEF call, WatchInv
  <2> QED
    BY <1>1, <2>1, <2>2, <2>3, <2>4, <2>5, <2>6, <2>7, CallPreserves
(* A call that ends without a row.                                         *)
<1>4. ASSUME Watch!Leaves(p), UNCHANGED <<Watch!prefs, Watch!state, Watch!rows, panReady>>,
             events' \in 0..MaxEvents, enq[p].pc \in Watch!Locked,
             remote' \in [Works -> {"none", "running", "done", "gone"}],
             \A v \in Works \ {w} : remote'[v] = remote[v]
      PROVE  WatchInv'
  <2>1. StaleIsHistory'
    BY <1>2, <1>4
    DEF Watch!Leaves, StaleIsHistory, OneHolder, CallsSound, Watch!Locked, Watch!NoCall
  <2> QED
    BY <1>1, <1>2, <1>4, <2>1, CallPreserves
    DEF Watch!Leaves, Watch!NoCall, Watch!TypeOK, Watch!OneRow, Watch!rows, Watch!Locked
<1>5. CASE Watch!Lock(p)
  BY <1>3, <1>5 DEF Watch!Lock, Watch!TypeOK
<1>6. CASE Watch!Sent(p)
  <2>1. enq[p].pc \in Watch!Locked
    BY <1>6 DEF Watch!Sent, Watch!Locked
  <2>2. CASE remote[w] = "none"
    BY <1>2, <1>6, <2>1, <2>2, RowWrittenPreserves DEF Watch!Sent, Watch!TypeOK
  <2>3. CASE remote[w] # "none"
    BY <1>3, <1>6, <2>1, <2>3 DEF Watch!Sent, Watch!TypeOK
  <2> QED
    BY <2>2, <2>3
<1>7. CASE Watch!Reconciled(p)
  <2>1. enq[p].pc \in Watch!Locked
    BY <1>7 DEF Watch!Reconciled, Watch!Locked
  <2>2. CASE Watch!Adoptable(w)
    BY <1>2, <1>7, <2>1, <2>2, RowWrittenPreserves DEF Watch!Reconciled, Watch!TypeOK
  <2>3. CASE ~Watch!Adoptable(w) /\ remote[w] = "gone"
    BY <1>3, <1>7, <2>1, <2>3 DEF Watch!Reconciled, Watch!TypeOK
  <2>4. CASE ~Watch!Adoptable(w) /\ remote[w] # "gone"
    BY <1>4, <1>7, <2>1, <2>4 DEF Watch!Reconciled, Watch!TypeOK
  <2> QED
    BY <2>2, <2>3, <2>4
<1>8. CASE Watch!HistoryCleared(p)
  BY <1>2, <1>3, <1>8 DEF Watch!HistoryCleared, Watch!TypeOK, Watch!Locked
<1>9. CASE Watch!Resent(p)
  <2>1. enq[p].pc \in Watch!Locked
    BY <1>9 DEF Watch!Resent, Watch!Locked
  <2>2. CASE remote[w] = "none"
    BY <1>2, <1>9, <2>1, <2>2, RowWrittenPreserves DEF Watch!Resent, Watch!TypeOK
  <2>3. CASE remote[w] # "none"
    BY <1>4, <1>9, <2>1, <2>3 DEF Watch!Resent, Watch!TypeOK
  <2> QED
    BY <2>2, <2>3
<1>10. CASE Watch!ReplyLost(p) \/ Watch!CallFails(p)
  <2>1. events' \in 0..MaxEvents
    BY <1>10
    DEF Watch!ReplyLost, Watch!CallFails, Watch!Event, Watch!TypeOK, Watch!WatchAssumption
  <2> QED
    BY <1>2, <1>4, <1>10, <2>1
    DEF Watch!ReplyLost, Watch!CallFails, Watch!TypeOK, Watch!Locked
<1> QED
  BY <1>5, <1>6, <1>7, <1>8, <1>9, <1>10 DEF Watch!CallSteps

LEMMA RequestPreserves ==
    ASSUME Watch!WatchAssumption, WatchInv,
           Watch!Commit \/ \E w \in Works : Watch!RequestAdds(w)
    PROVE  WatchInv'
<1> USE DEF WatchInv
<1>1. CASE Watch!Commit
  <2> DEFINE w == enq["request"].work
  <2>1. /\ "request" \in Watch!Callers /\ enq["request"].pc # "off" /\ w \in Works
        /\ Watch!NoCall \in Watch!Call /\ DOMAIN enq = Watch!Callers
    BY <1>1, CallFacts DEF Watch!Commit, Watch!Callers
  <2>2. Watch!OneRow' /\ rowCount' \in [Works -> Nat]
        /\ offRow' \in [Works -> {"none", "running", "done", "failed"}]
    BY <1>1, <2>1 DEF Watch!Commit, Watch!OneRow, Watch!TypeOK, CallsSound
  <2>3. StaleIsHistory' /\ enq'["request"].pc = "off"
    BY <1>1, <2>1 DEF Watch!Commit, Watch!Leaves, StaleIsHistory, Watch!NoCall
  <2> QED
    BY <1>1, <2>1, <2>2, <2>3, CallPreserves
    DEF Watch!Commit, Watch!Leaves, Watch!NoCall, Watch!TypeOK, Watch!Locked
<1>2. ASSUME NEW w \in Works, Watch!RequestAdds(w)
      PROVE  WatchInv'
  <2> DEFINE call == [Watch!NoCall EXCEPT !.pc = "lock", !.work = w]
  <2>1. call \in Watch!Call /\ call.pc = "lock" /\ call.work = w
    BY DEF Watch!NoCall, Watch!Call
  <2>2. /\ enq' = [enq EXCEPT !["request"] = call] /\ enq["request"].pc = "off"
        /\ UNCHANGED <<Watch!prefs, Watch!state, tick, Watch!rows, remote, panReady>>
    BY <1>2 DEF Watch!RequestAdds
  <2> HIDE DEF call
  <2>3. \A q \in Watch!Callers : enq'[q] = IF q = "request" THEN call ELSE enq[q]
    BY <2>2 DEF Watch!TypeOK
  <2>4. Watch!TypeOK'
    <3>1. enq' \in [Watch!Callers -> Watch!Call]
      BY <2>1, <2>2 DEF Watch!TypeOK
    <3>2. events' \in 0..MaxEvents
      <4>1. Watch!Event /\ events \in 0..MaxEvents
        BY <1>2 DEF Watch!RequestAdds, Watch!TypeOK
      <4> QED
        BY <4>1 DEF Watch!Event, Watch!WatchAssumption
    <3> QED
      BY <2>2, <3>1, <3>2 DEF Watch!TypeOK, Watch!rows, Watch!state, Watch!prefs
  <2>5. CallsSound' /\ OneHolder' /\ StaleIsHistory'
    BY <2>1, <2>2, <2>3
    DEF CallsSound, OneHolder, StaleIsHistory, Watch!rows, Watch!Callers, Watch!Locked
  <2>6. Watch!OneRow' /\ DrainSound'
    BY <2>2, <2>3 DEF Watch!OneRow, DrainSound, Watch!rows, Watch!state, Watch!Callers
  <2> QED
    BY <2>4, <2>5, <2>6
<1> QED
  BY <1>1, <1>2

LEMMA InterruptionPreserves ==
    ASSUME Watch!WatchAssumption, WatchInv, Watch!Interrupted
    PROVE  WatchInv'
<1>1. \A p \in Watch!Callers : enq'[p] = Watch!NoCall
  BY DEF Watch!Interrupted
<1>2. Watch!TypeOK'
  BY DEF Watch!WatchAssumption, WatchInv, Watch!Interrupted, Watch!Event, Watch!TypeOK,
         Watch!NoCall, Watch!NoTick, Watch!Call, Watch!rows, Watch!state, Watch!prefs
<1> QED
  BY <1>1, <1>2
  DEF WatchInv, Watch!Interrupted, Watch!NoCall, Watch!NoTick, Watch!OneRow, CallsSound,
      OneHolder, StaleIsHistory, DrainSound, Watch!rows, Watch!state, Watch!Callers,
      Watch!Locked

LEMMA WatchInductive ==
    ASSUME Watch!WatchAssumption
    PROVE  WatchInv /\ [Watch!Next]_Watch!watchVars => WatchInv'
<1> SUFFICES ASSUME WatchInv, [Watch!Next]_Watch!watchVars PROVE WatchInv'
  OBVIOUS
<1>1. CASE UNCHANGED Watch!watchVars
  BY <1>1
  DEF Watch!watchVars, Watch!prefs, Watch!state, Watch!rows, WatchInv, Watch!TypeOK,
      Watch!OneRow, CallsSound, OneHolder, StaleIsHistory, DrainSound
<1>2. CASE Watch!TickSteps \/ Watch!NoMagnet
  BY <1>2, TickPreserves
<1>3. CASE Watch!Commit \/ \E w \in Works : Watch!RequestAdds(w)
  BY <1>3, RequestPreserves
<1>4. CASE \E p \in Watch!Callers :
             Watch!CallSteps(p) \/ Watch!ReplyLost(p) \/ Watch!CallFails(p)
  BY <1>4, CallStepPreserves
<1>5. CASE \E w \in Works : \/ Watch!Follow(w) \/ Watch!Dismiss(w) \/ Watch!RemoteChanges(w)
                            \/ Watch!RowFollows(w) \/ Watch!Ages(w)
  BY <1>5, OutsidePreserves
<1>6. CASE Watch!PanDrops \/ Watch!PanReturns
  <2>1. Watch!TypeOK'
    <3>1. events' \in 0..MaxEvents
      BY <1>6
      DEF Watch!PanDrops, Watch!PanReturns, Watch!Event, WatchInv, Watch!TypeOK,
          Watch!WatchAssumption
    <3> QED
      BY <1>6, <3>1
      DEF Watch!PanDrops, Watch!PanReturns, WatchInv, Watch!TypeOK, Watch!prefs,
          Watch!state, Watch!rows
  <2> QED
    BY <1>6, <2>1
    DEF Watch!PanDrops, Watch!PanReturns, WatchInv, Watch!OneRow, CallsSound, OneHolder,
        StaleIsHistory, DrainSound, Watch!prefs, Watch!state, Watch!rows
<1>7. CASE Watch!Interrupted
  BY <1>7, InterruptionPreserves
<1> QED
  BY <1>1, <1>2, <1>3, <1>4, <1>5, <1>6, <1>7 DEF Watch!Next

-----------------------------------------------------------------------------
LEMMA WatchInvariance == ASSUME Watch!WatchAssumption PROVE Watch!Spec => []WatchInv
  BY WatchInitially, WatchInductive, PTL DEF Watch!Spec

(* The preferences, the state file, the calls and the rows keep their      *)
(* types.                                                                  *)
THEOREM WatchTypeCorrect == ASSUME Watch!WatchAssumption PROVE Watch!Spec => []Watch!TypeOK
<1>1. WatchInv => Watch!TypeOK
  BY DEF WatchInv
<1> QED
  BY <1>1, WatchInvariance, PTL

(* However often a magnet is submitted, and whatever is lost on the way,   *)
(* its work has one row: the look for a row and its insertion are not      *)
(* parted by another writer.                                               *)
THEOREM OneRowOnly == ASSUME Watch!WatchAssumption PROVE Watch!Spec => []Watch!OneRow
<1>1. WatchInv => Watch!OneRow
  BY DEF WatchInv
<1> QED
  BY <1>1, WatchInvariance, PTL

(* A drain looks at no work again, over any restarts.                      *)
THEOREM DrainsOnce == ASSUME Watch!WatchAssumption PROVE Watch!Spec => Watch!DrainOnce
<1>1. WatchInv => [\A w \in Works : Watch!Look(w) => w \notin looked]_Watch!watchVars
  BY DEF WatchInv, DrainSound, Watch!Look
<1> QED
  BY <1>1, WatchInvariance, PTL DEF Watch!DrainOnce

(* What a submission clears at 115 does not run there.                     *)
THEOREM NothingRunningIsCleared ==
    ASSUME Watch!WatchAssumption
    PROVE  Watch!Spec => Watch!NothingRunningCleared
<1>1. WatchInv => [\A p \in Watch!Callers : Watch!HistoryCleared(p) =>
                       remote[enq[p].work] # "running"]_Watch!watchVars
  BY DEF WatchInv, StaleIsHistory, Watch!HistoryCleared
<1> QED
  BY <1>1, WatchInvariance, PTL DEF Watch!NothingRunningCleared
=============================================================================
