----------------------------- MODULE ResponseCache -----------------------------
(***************************************************************************)
(* The cache of lists and cards that the API answers from                  *)
(* (svc/response_cache.py, api.py): a Redis server that outlives the       *)
(* process, or a bounded table of the process once Redis has failed.       *)
(* Readers on request threads compute what they do not find and store it   *)
(* for a time to live.  An edit drops the keys it concerns in its handler; *)
(* its transaction commits when the handler has returned                   *)
(* (api.py: repository, db/repository.py: Database.session).               *)
(* Time is a clock in units a computation does not exceed.                 *)
(***************************************************************************)
EXTENDS Naturals, Sequences, SequencesExt, Subsequences

CONSTANTS
    Kinds,       \* what is edited: the works, the collections
    Drops,       \* for each kind the keys its edits drop, in their order
    Ttl,         \* for each key the time to live it is stored with
    Size,        \* for each key the bytes of its entry
    MaxEntries,  \* _MemoryBackend(max_entries)
    MaxBytes,    \* _MemoryBackend(max_bytes)
    Readers,     \* the request threads
    CommitFirst, \* TRUE: an edit commits before it drops, unlike the code
    MaxTime,     \* how far the clock runs
    MaxEdits,    \* how many edits and silent changes of a kind commit
    MaxFaults,   \* how often Redis fails to answer
    MaxRestarts  \* how often the process restarts

Keys == UNION {ToSet(Drops[kind]) : kind \in Kinds}

CacheAssumption ==
    /\ Drops \in [Kinds -> Seq(Keys)] /\ CommitFirst \in BOOLEAN
    /\ \A k \in Keys : \E kind \in Kinds : \A other \in Kinds :
         k \in ToSet(Drops[other]) <=> other = kind
    /\ Ttl \in [Keys -> Nat \ {0}] /\ Size \in [Keys -> Nat]
    /\ {MaxEntries, MaxBytes, MaxTime, MaxEdits, MaxFaults, MaxRestarts} \subseteq Nat

VARIABLES
    replaced, \* for each kind the times its edits committed at
    redis,    \* the entries Redis holds
    mem,      \* the entries of the process, the least recently used first
    backend,  \* which of them is in use
    reader,   \* what each request thread does
    writer,   \* for each kind how far its edit is
    clock, faults, restarts

stores == <<redis, mem, backend, faults>>
cacheVars == <<replaced, stores, reader, writer, clock, restarts>>

KindOf(k) == CHOOSE kind \in Kinds : k \in ToSet(Drops[kind])
Version(kind) == Len(replaced[kind])
(* Why an entry may be older than the database: it was computed while the  *)
(* key was dropped, computed before the edit that dropped it committed,    *)
(* found in Redis by a new process, or changed by what drops nothing.      *)
Whys == {"none", "spanned", "early", "inherited", "silent"}
Entry ==
    [key : Keys, value : 0..MaxEdits, until : Nat, why : Whys]

Idle == [pc |-> "idle"]
Computing(k, why) == [pc |-> "computing", key |-> k, why |-> why]

TypeOK ==
    /\ \A kind \in Kinds : Version(kind) <= MaxEdits /\ ToSet(replaced[kind]) \subseteq 0..MaxTime
    /\ redis \subseteq Entry /\ ToSet(mem) \subseteq Entry
    /\ \A d, e \in redis : d.key = e.key => d = e
    /\ \A i, j \in DOMAIN mem : mem[i].key = mem[j].key => i = j
    /\ backend \in {"redis", "memory"} /\ DOMAIN reader = Readers
    /\ writer \in [Kinds -> UNION {[pc : {"idle", "dropping", "dropped"},
                                    left : {SubSeq(Drops[kind], i, Len(Drops[kind])) :
                                            i \in 1..(Len(Drops[kind]) + 1)}] : kind \in Kinds}]
    /\ clock \in 0..MaxTime /\ faults \in 0..MaxFaults /\ restarts \in 0..MaxRestarts

Init ==
    /\ replaced = [kind \in Kinds |-> <<>>] /\ redis = {} /\ mem = <<>>
    /\ backend \in {"redis", "memory"}
    /\ reader = [r \in Readers |-> Idle]
    /\ writer = [kind \in Kinds |-> [pc |-> "idle", left |-> <<>>]]
    /\ clock = 0 /\ faults = 0 /\ restarts = 0

-----------------------------------------------------------------------------
(* The two stores.                                                         *)

Lives(e) == clock < e.until
Without(m, k) == Kept(m, {i \in 1..Len(m) : m[i].key # k})
Living(m) == Kept(m, {i \in 1..Len(m) : Lives(m[i])})
Bytes(m) == FoldLeft(LAMBDA sum, e : sum + Size[e.key], 0, m)

(* What a reader may be answered with.                                     *)
Visible ==
    {e \in (IF backend = "redis" THEN redis ELSE ToSet(mem)) : Lives(e)}
Found(k) == \E e \in Visible : e.key = k

(* Without the n least recently used entries, as few as make room.         *)
Evict(m, k) ==
    LET Rest(n) == SubSeq(m, n + 1, Len(m))
        Fits(n) == n = Len(m) \/ (/\ Len(Rest(n)) < MaxEntries
                                  /\ Bytes(Rest(n)) + Size[k] <= MaxBytes)
    IN  Rest(CHOOSE n \in 0..Len(m) : Fits(n) /\ \A i \in 0..(n - 1) : ~Fits(i))

MemoryGet(m, k) ==
    LET entry == Kept(m, {i \in 1..Len(m) : m[i].key = k /\ Lives(m[i])})
    IN  Without(m, k) \o entry

MemorySet(m, e) ==
    IF Size[e.key] > MaxBytes \/ MaxEntries = 0
    THEN Without(m, e.key)
    ELSE Append(Evict(Living(Without(m, e.key)), e.key), e)

(* Mutant: Redis stays in use after a failure.                             *)
FailsQuietly(onRedis, onMemory) ==
    /\ backend = "redis" /\ faults < MaxFaults
    /\ redis' \in {redis, onRedis}
    /\ mem' = onMemory /\ backend' = backend /\ faults' = faults + 1
(* Redis fails to answer, having done its part or not; the operation is    *)
(* repeated on a table of the process, which replaces Redis for good.      *)
Fails(onRedis, onMemory) ==
    /\ backend = "redis" /\ faults < MaxFaults
    /\ redis' \in {redis, onRedis}
    /\ mem' = onMemory /\ backend' = "memory" /\ faults' = faults + 1

Operates(onRedis, onMemory, onFresh) ==
    \/ /\ backend = "redis" /\ redis' = onRedis /\ UNCHANGED <<mem, backend, faults>>
    \/ /\ backend = "memory" /\ mem' = onMemory /\ UNCHANGED <<redis, backend, faults>>
    \/ Fails(onRedis, onFresh)

-----------------------------------------------------------------------------
(* A request looks for its key ...                                         *)
Hit(r, k) ==
    /\ reader[r].pc = "idle" /\ Found(k)
    /\ backend = "memory" /\ mem' = MemoryGet(mem, k)
    /\ UNCHANGED <<replaced, redis, backend, reader, writer, clock, faults, restarts>>

Missed(k) ==
    \/ ~Found(k) /\ Operates(redis, MemoryGet(mem, k), <<>>)
    \/ Found(k) /\ Fails(redis, <<>>)

(* ... and computes its answer when it is not there, or when it was asked  *)
(* not to look.                                                            *)
Begin(r, k) ==
    /\ reader[r].pc = "idle"
    /\ Missed(k) \/ UNCHANGED stores
    /\ LET edit == writer[KindOf(k)]
           dropped == edit.pc # "idle" /\ k \notin ToSet(edit.left)
       IN  reader' = [reader EXCEPT ![r] = Computing(k, IF dropped THEN "early" ELSE "none")]
    /\ UNCHANGED <<replaced, writer, clock, restarts>>

Read(r) ==
    /\ reader[r].pc = "computing"
    /\ reader' = [reader EXCEPT
           ![r] = [pc |-> "read", key |-> @.key, why |-> @.why, at |-> clock,
                   value |-> Version(KindOf(@.key))]]
    /\ UNCHANGED <<replaced, stores, writer, clock, restarts>>

Store(r) ==
    /\ reader[r].pc = "read"
    /\ LET k == reader[r].key
           e == [key |-> k, value |-> reader[r].value, until |-> clock + Ttl[k],
                 why |-> reader[r].why]
       IN  Operates({d \in redis : d.key # k} \cup {e}, MemorySet(mem, e),
                    MemorySet(<<>>, e))
    /\ reader' = [reader EXCEPT ![r] = Idle]
    /\ UNCHANGED <<replaced, writer, clock, restarts>>

-----------------------------------------------------------------------------
(* An edit changes rows in its session, drops the keys one after the other *)
(* and commits, or fails and is rolled back.                               *)
Committed(kind) == [replaced EXCEPT ![kind] = Append(@, clock)]

Edit(kind) ==
    /\ writer[kind].pc = "idle" /\ Version(kind) < MaxEdits
    /\ writer' = [writer EXCEPT ![kind] = [pc |-> "dropping", left |-> Drops[kind]]]
    /\ replaced' = IF CommitFirst THEN Committed(kind) ELSE replaced
    /\ UNCHANGED <<stores, reader, clock, restarts>>

Drop(kind) ==
    /\ writer[kind].pc = "dropping" /\ writer[kind].left # <<>>
    /\ LET k == Head(writer[kind].left)
           left == Tail(writer[kind].left)
       IN  /\ Operates({e \in redis : e.key # k}, Without(mem, k), <<>>)
           /\ reader' = [r \in Readers |->
                 IF reader[r].pc # "idle" /\ reader[r].key = k
                 THEN [reader[r] EXCEPT !.why = "spanned"] ELSE reader[r]]
           /\ writer' = [writer EXCEPT
                 ![kind] = [pc |-> IF left # <<>> THEN "dropping"
                                   ELSE IF CommitFirst THEN "idle" ELSE "dropped",
                            left |-> left]]
    /\ UNCHANGED <<replaced, clock, restarts>>

EndEdit(kind) ==
    /\ writer[kind].pc = "dropped"
    /\ writer' = [writer EXCEPT ![kind].pc = "idle"]
    /\ \/ UNCHANGED replaced
       \/ Version(kind) < MaxEdits /\ replaced' = Committed(kind)
    /\ UNCHANGED <<stores, reader, clock, restarts>>

(* A scan or an identification job changes works and drops nothing.        *)
Silenced(e, kind) ==
    IF KindOf(e.key) = kind THEN [e EXCEPT !.why = "silent"] ELSE e

Silent(kind) ==
    /\ Version(kind) < MaxEdits /\ replaced' = Committed(kind)
    /\ redis' = {Silenced(e, kind) : e \in redis}
    /\ mem' = [i \in DOMAIN mem |-> Silenced(mem[i], kind)]
    /\ reader' = [r \in Readers |->
          IF reader[r].pc = "read" THEN Silenced(reader[r], kind) ELSE reader[r]]
    /\ UNCHANGED <<backend, faults, writer, clock, restarts>>

-----------------------------------------------------------------------------
(* The process ends, with what it was doing, and starts with Redis if that *)
(* answers.                                                                *)
Restart ==
    /\ restarts < MaxRestarts /\ restarts' = restarts + 1
    /\ mem' = <<>> /\ backend' \in {"redis", "memory"}
    /\ redis' = {IF e.value = Version(KindOf(e.key)) THEN e
                 ELSE [e EXCEPT !.why = "inherited"] : e \in redis}
    /\ reader' = [r \in Readers |-> Idle]
    /\ writer' = [kind \in Kinds |-> [pc |-> "idle", left |-> <<>>]]
    /\ UNCHANGED <<replaced, clock, faults>>

(* Redis forgets what has expired; the process looks when it next stores.  *)
Tick ==
    /\ clock < MaxTime /\ clock' = clock + 1
    /\ \A r \in Readers : reader[r].pc = "read" => reader[r].at = clock
    /\ redis' = {e \in redis : clock + 1 < e.until}
    /\ UNCHANGED <<replaced, mem, backend, reader, writer, faults, restarts>>

Next ==
    \/ \E r \in Readers :
         Read(r) \/ Store(r) \/ \E k \in Keys : Hit(r, k) \/ Begin(r, k)
    \/ \E kind \in Kinds : Edit(kind) \/ Drop(kind) \/ EndEdit(kind) \/ Silent(kind)
    \/ Restart \/ Tick

Spec == Init /\ [][Next]_cacheVars

-----------------------------------------------------------------------------
Stale(e) == e.value # Version(KindOf(e.key))

(* An answer that is older than the database was computed while an edit    *)
(* was under way, left in Redis by a process that could not drop it, or    *)
(* changed by what drops nothing; and whatever Redis, restarts and edits   *)
(* do, it is served no longer than its time to live and one computation    *)
(* after the change.                                                       *)
StaleIsExcused ==
    \A e \in Visible : Stale(e) =>
        /\ e.why # "none"
        /\ clock <= replaced[KindOf(e.key)][e.value + 1] + Ttl[e.key]

(* Once an edit has ended, no answer is there that was looked up and       *)
(* computed after it had dropped the key and that does not show it ("Drop  *)
(* short-lived library list caches after catalog mutations",               *)
(* api.py:_invalidate_library_caches).                                     *)
EditsShow ==
    \A e \in Visible :
        Stale(e) /\ writer[KindOf(e.key)].pc = "idle" => e.why # "early"
=============================================================================
