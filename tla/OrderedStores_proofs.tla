------------------------- MODULE OrderedStores_proofs -------------------------
(***************************************************************************)
(* Proofs about the two stores whose entries have an order: the queue of   *)
(* EmbyNotify and the table of ResponseCache, both Python dicts of bounded *)
(* size.  What an entry means is the same for every order of the others;   *)
(* the first part says what a filter leaves of a sequence, so that the     *)
(* rest can speak of sets of entries.                                      *)
(***************************************************************************)
EXTENDS EmbyNotify, TLAPS, WellFoundedInduction, FiniteSetTheorems, SequenceTheorems

CONSTANTS Concerns, Drops, Ttl, Size, MaxEntries, MaxBytes, Readers, CommitFirst,
          MaxTime, MaxEdits, MaxFaults, MaxReboots
VARIABLES replaced, redis, mem, backend, reader, writer, clock, faults, reboots

Cache == INSTANCE ResponseCache WITH
    Kinds <- Concerns, MaxRestarts <- MaxReboots, restarts <- reboots

-----------------------------------------------------------------------------
(* Subsequences                                                            *)

(* A nonempty set of naturals has a least element: the induction that the  *)
(* proofs about recursion rest on is the absence of a least counterexample.*)
LEMMA LeastElement ==
    ASSUME NEW S \in SUBSET Nat, S # {}
    PROVE  \E m \in S : \A k \in S : m <= k
<1>1. PICK m \in S : \A k \in S : <<k, m>> \notin OpToRel(<, Nat)
  BY NatLessThanWellFounded, WFMin
<1>2. \A k \in S : ~(k < m)
  BY <1>1 DEF OpToRel
<1>3. \A k \in S : m <= k
  BY <1>2
<1> QED
  BY <1>3

(* One step of the recursion of Kept, and the function it makes of it.     *)
KeptUpto(q, S, f, n) ==
    IF n = 0 THEN <<>> ELSE IF n \in S THEN Append(f[n - 1], q[n]) ELSE f[n - 1]
LEMMA KeptExists ==
    ASSUME NEW q, NEW S, NEW m \in Nat
    PROVE  \E f : f = [n \in 0..m |-> KeptUpto(q, S, f, n)]
<1> DEFINE Bad == {k \in Nat : ~ \E f : f = [n \in 0..k |-> KeptUpto(q, S, f, n)]}
<1> SUFFICES Bad = {}
  BY Zenon
<1> SUFFICES ASSUME Bad # {} PROVE FALSE
  OBVIOUS
<1>1. PICK k \in Bad : \A j \in Bad : k <= j
  <2>1. Bad \subseteq Nat
    OBVIOUS
  <2> HIDE DEF Bad
  <2> QED
    BY <2>1, LeastElement
<1>2. k # 0
  <2> SUFFICES ASSUME k = 0 PROVE FALSE
    OBVIOUS
  <2> DEFINE f == [n \in 0..0 |-> <<>>]
  <2>1. f = [n \in 0..0 |-> KeptUpto(q, S, f, n)]
    BY DEF KeptUpto
  <2> HIDE DEF f
  <2> QED
    BY <2>1
<1>3. k - 1 \in Nat /\ k - 1 \notin Bad
  BY <1>1, <1>2
<1>4. PICK f : f = [n \in 0..(k - 1) |-> KeptUpto(q, S, f, n)]
  BY <1>3
<1> DEFINE g == [n \in 0..k |-> IF n = k THEN KeptUpto(q, S, f, k) ELSE f[n]]
<1>5. g = [n \in 0..k |-> KeptUpto(q, S, g, n)]
  <2> SUFFICES ASSUME NEW n \in 0..k PROVE g[n] = KeptUpto(q, S, g, n)
    OBVIOUS
  <2>1. n # 0 => g[n - 1] = f[n - 1]
    OBVIOUS
  <2>2. ASSUME n # k PROVE f[n] = KeptUpto(q, S, f, n)
    <3>1. n \in 0..(k - 1)
      BY <1>1, <2>2
    <3> QED
      BY <3>1, <1>4, Zenon
  <2> QED
    BY <2>1, <2>2 DEF KeptUpto
<1> HIDE DEF g
<1> QED
  BY <1>5, <1>1

LEMMA KeptRuns ==
    ASSUME NEW q, NEW S, Len(q) \in Nat
    PROVE  \E f : /\ f = [n \in 0..Len(q) |-> KeptUpto(q, S, f, n)]
                  /\ Kept(q, S) = f[Len(q)]
<1>1. PICK f : f = [n \in 0..Len(q) |-> KeptUpto(q, S, f, n)]
  BY KeptExists
<1> DEFINE upto[n \in 0..Len(q)] ==
             IF n = 0 THEN <<>>
             ELSE IF n \in S THEN Append(upto[n - 1], q[n]) ELSE upto[n - 1]
<1>2. upto = [n \in 0..Len(q) |->
               IF n = 0 THEN <<>>
               ELSE IF n \in S THEN Append(upto[n - 1], q[n]) ELSE upto[n - 1]]
  BY <1>1, Zenon DEF KeptUpto
<1>3. Kept(q, S) = upto[Len(q)]
  BY Zenon DEF Kept
<1> HIDE DEF upto
<1> QED
  BY <1>2, <1>3, Zenon DEF KeptUpto

(* k is what q has at the positions h, which are those of S up to n.       *)
Picks(q, X, S, n, k, h) ==
    /\ k \in Seq(X) /\ h \in [1..Len(k) -> S \cap (1..n)]
    /\ \A i \in 1..Len(k) : k[i] = q[h[i]]
    /\ \A i, j \in 1..Len(k) : i < j => h[i] < h[j]
    /\ \A m \in S \cap (1..n) : \E i \in 1..Len(k) : h[i] = m

LEMMA PicksOne ==
    ASSUME NEW X, NEW q \in Seq(X), NEW S, NEW n \in 1..Len(q),
           NEW k, NEW h, Picks(q, X, S, n - 1, k, h)
    PROVE  \E g : Picks(q, X, S, n, IF n \in S THEN Append(k, q[n]) ELSE k, g)
<1>1. CASE n \notin S
  <2>1. S \cap (1..n) = S \cap (1..(n - 1))
    BY <1>1
  <2> QED
    BY <1>1, <2>1 DEF Picks
<1>2. CASE n \in S
  <2> DEFINE l == Append(k, q[n])
             g == [i \in 1..(Len(k) + 1) |-> IF i = Len(k) + 1 THEN n ELSE h[i]]
  <2>0. k \in Seq(X) /\ q[n] \in X /\ Len(k) \in Nat
    BY DEF Picks
  <2>1. /\ l \in Seq(X) /\ Len(l) = Len(k) + 1 /\ l[Len(k) + 1] = q[n]
        /\ \A i \in 1..Len(k) : l[i] = k[i]
    BY <2>0
  <2>2. \A i \in 1..Len(k) : h[i] \in S \cap (1..(n - 1))
    BY DEF Picks
  <2> HIDE DEF l
  <2>3. g \in [1..Len(l) -> S \cap (1..n)]
    BY <1>2, <2>0, <2>1, <2>2
  <2>4. \A i \in 1..Len(l) : l[i] = q[g[i]]
    BY <2>0, <2>1 DEF Picks
  <2>5. \A i, j \in 1..Len(l) : i < j => g[i] < g[j]
    <3> SUFFICES ASSUME NEW i \in 1..Len(l), NEW j \in 1..Len(l), i < j
                 PROVE  g[i] < g[j]
      OBVIOUS
    <3>1. i \in 1..Len(k) /\ g[i] = h[i]
      BY <2>0, <2>1
    <3>2. CASE j = Len(k) + 1
      BY <2>0, <2>2, <3>1, <3>2
    <3>3. CASE j # Len(k) + 1
      <4>1. j \in 1..Len(k) /\ g[j] = h[j]
        BY <2>0, <2>1, <3>3
      <4> QED
        BY <3>1, <4>1 DEF Picks
    <3> QED
      BY <3>2, <3>3
  <2>6. \A m \in S \cap (1..n) : \E i \in 1..Len(l) : g[i] = m
    <3> SUFFICES ASSUME NEW m \in S \cap (1..n)
                 PROVE  \E i \in 1..Len(l) : g[i] = m
      OBVIOUS
    <3>1. CASE m = n
      BY <2>0, <2>1, <3>1
    <3>2. CASE m # n
      <4>1. m \in S \cap (1..(n - 1))
        BY <3>2
      <4>2. PICK i \in 1..Len(k) : h[i] = m
        BY <4>1 DEF Picks
      <4> QED
        BY <2>0, <2>1, <4>2
    <3> QED
      BY <3>1, <3>2
  <2>7. Picks(q, X, S, n, l, g)
    <3> HIDE DEF g
    <3> QED
      BY <2>1, <2>3, <2>4, <2>5, <2>6 DEF Picks
  <2> QED
    BY <1>2, <2>7 DEF l
<1> QED
  BY <1>1, <1>2

(* What Kept keeps.                                                        *)
LEMMA KeptPicks ==
    ASSUME NEW X, NEW q \in Seq(X), NEW S
    PROVE  \E h : Picks(q, X, S, Len(q), Kept(q, S), h)
<1>1. Len(q) \in Nat
  OBVIOUS
<1>2. PICK f : /\ f = [n \in 0..Len(q) |-> KeptUpto(q, S, f, n)]
               /\ Kept(q, S) = f[Len(q)]
  BY <1>1, KeptRuns
<1>3. \A n \in 0..Len(q) : f[n] = KeptUpto(q, S, f, n)
  <2> SUFFICES ASSUME NEW n \in 0..Len(q) PROVE f[n] = KeptUpto(q, S, f, n)
    OBVIOUS
  <2> QED
    BY <1>2, Zenon
<1> DEFINE Bad == {n \in 0..Len(q) : ~ \E h : Picks(q, X, S, n, f[n], h)}
<1>4. Bad = {}
  <2> SUFFICES ASSUME Bad # {} PROVE FALSE
    OBVIOUS
  <2>1. PICK n \in Bad : \A m \in Bad : n <= m
    <3>1. Bad \subseteq Nat
      BY <1>1
    <3> HIDE DEF Bad
    <3> QED
      BY <3>1, LeastElement
  <2>2. n # 0
    <3> SUFFICES ASSUME n = 0 PROVE FALSE
      OBVIOUS
    <3>1. f[0] = <<>>
      BY <1>1, <1>3 DEF KeptUpto
    <3> DEFINE h == [i \in 1..0 |-> 0]
    <3>2. Picks(q, X, S, 0, <<>>, h)
      BY DEF Picks
    <3> HIDE DEF h
    <3> QED
      BY <3>1, <3>2
  <2>3. n - 1 \in 0..Len(q) /\ n - 1 \notin Bad /\ n \in 1..Len(q)
    BY <1>1, <2>1, <2>2
  <2>4. PICK h : Picks(q, X, S, n - 1, f[n - 1], h)
    BY <2>3
  <2>5. f[n] = IF n \in S THEN Append(f[n - 1], q[n]) ELSE f[n - 1]
    BY <1>3, <2>2, <2>3 DEF KeptUpto
  <2>6. \E g : Picks(q, X, S, n, f[n], g)
    <3> HIDE DEF Bad
    <3>1. \E g : Picks(q, X, S, n, IF n \in S THEN Append(f[n - 1], q[n]) ELSE f[n - 1], g)
      BY <2>3, <2>4, PicksOne
    <3> QED
      BY <2>5, <3>1, Zenon
  <2> QED
    BY <2>1, <2>6
<1> QED
  BY <1>1, <1>2, <1>4
(* Kept takes each of the positions once.                                  *)
LEMMA KeptOnce ==
    ASSUME NEW X, NEW q \in Seq(X), NEW S \in SUBSET (1..Len(q))
    PROVE  LET k == Kept(q, S)
           IN  /\ k \in Seq(X)
               /\ \E h \in [1..Len(k) -> S] :
                    /\ \A i \in 1..Len(k) : k[i] = q[h[i]]
                    /\ \A i, j \in 1..Len(k) : h[i] = h[j] => i = j
                    /\ \A m \in S : \E i \in 1..Len(k) : h[i] = m
<1> DEFINE k == Kept(q, S)
<1>1. PICK h : Picks(q, X, S, Len(q), k, h)
  BY KeptPicks
<1> HIDE DEF k
<1>2. S \cap (1..Len(q)) = S
  OBVIOUS
<1>3. /\ k \in Seq(X) /\ h \in [1..Len(k) -> S]
      /\ \A i \in 1..Len(k) : k[i] = q[h[i]]
      /\ \A i, j \in 1..Len(k) : i < j => h[i] < h[j]
      /\ \A m \in S : \E i \in 1..Len(k) : h[i] = m
  BY <1>1, <1>2 DEF Picks
<1>4. ASSUME NEW i \in 1..Len(k), NEW j \in 1..Len(k), h[i] = h[j] PROVE i = j
  <2>1. Len(q) \in Nat /\ 1..Len(q) \subseteq Nat /\ i \in Nat /\ j \in Nat
    BY <1>3
  <2>2. h[i] \in 1..Len(q)
    BY <1>3
  <2>3. h[i] \in Nat
    BY <2>1, <2>2
  <2>4. ~(h[i] < h[j]) /\ ~(h[j] < h[i])
    BY <1>4, <2>3
  <2>5. ~(i < j) /\ ~(j < i)
    BY <1>3, <2>4
  <2> QED
    BY <2>1, <2>5
<1> QED
  BY <1>3, <1>4 DEF k

-----------------------------------------------------------------------------
(* The invariants of EmbyNotify                                            *)

Entries(q) == {q[i] : i \in 1..Len(q)}
Distinct(q) == \A i, j \in 1..Len(q) : q[i].path = q[j].path => i = j

(* The queue is on disk, and a batch is in hand only while it is posted.   *)
QueueShape ==
    /\ queue \in Seq(EntryType) /\ saved = queue /\ Distinct(queue)
BatchShape ==
    /\ batch \in Seq(Update) /\ Distinct(batch) /\ sent \in 0..Len(batch)
    /\ pc \notin {"posting", "taken"} => batch = <<>>
RestShape ==
    /\ revision \in Changes
    /\ window \in {"none", "open", "quiet", "hard"} /\ wake \in BOOLEAN
    /\ pc \in {"check", "clearEmpty", "clearTimed", "parked", "timed", "posting",
              "taken", "stop", "off"}
    /\ stopping \in BOOLEAN /\ enabled \in BOOLEAN
    /\ asked \in [Paths -> Changes] /\ settled \in [Paths -> Changes]
    /\ actual \in [Paths -> Kinds] /\ shown \in [Paths -> Kinds]
    /\ excused \subseteq Paths
    /\ retries \in 0..MaxRetries /\ restarts \in 0..MaxRestarts
Shape == QueueShape /\ BatchShape /\ RestShape

(* Revisions and changes are counted together: the entry that was sent has *)
(* been told of all changes of its path.                                   *)
Counted ==
    /\ \A p \in Paths : settled[p] <= asked[p] /\ asked[p] <= revision
    /\ \A e \in Entries(queue) : e.rev <= revision
    /\ \A b \in Entries(batch) : b.rev <= revision /\ b.upto <= asked[b.path]
Matched ==
    \A e \in Entries(queue), b \in Entries(batch) :
        e.path = b.path /\ e.rev = b.rev => b.upto = asked[b.path]
Done == IF pc = "taken" THEN ChunkEnd ELSE sent
Told == \A i \in 1..Done : settled[batch[i].path] >= batch[i].upto
Durable == Shape /\ Counted /\ Matched /\ Told

(* The queue has the kind Emby must hear of, and nothing of a path of      *)
(* which it has heard.                                                     *)
QueueTells(p) ==
    /\ \A e \in Entries(queue) : e.path = p /\ Strong(e) => e.kind = actual[p]
    /\ (\A e \in Entries(queue) : e.path = p => ~Strong(e)) => shown[p] = actual[p]
BatchTells(p) ==
    \A b \in Entries(batch) : b.path = p =>
        /\ settled[p] <= b.upto
        /\ Strong(b) => \E e \in Entries(queue) : e.path = p /\ Strong(e)
        /\ b.upto = asked[p] /\ Strong(b) => b.kind = actual[p]
        /\ b.upto = asked[p] /\ ~Strong(b) => shown[p] = actual[p]
Tells == \A p \in Paths \ excused : QueueTells(p) /\ BatchTells(p)
Synced == Durable /\ Tells /\ EmbyInSync

-----------------------------------------------------------------------------
(* Sequences of entries as sets of entries                                 *)

LEMMA EntriesOf ==
    ASSUME NEW X, NEW q \in Seq(X)
    PROVE  /\ Entries(q) \subseteq X
           /\ \A i \in 1..Len(q) : q[i] \in Entries(q)
           /\ \A e \in Entries(q) : \E i \in 1..Len(q) : q[i] = e
BY DEF Entries

LEMMA NoEntries == Entries(<<>>) = {} /\ Distinct(<<>>)
BY DEF Entries, Distinct

LEMMA DistinctEntries ==
    ASSUME NEW X, NEW q \in Seq(X), Distinct(q),
           NEW d \in Entries(q), NEW e \in Entries(q), d.path = e.path
    PROVE  d = e
BY DEF Distinct, Entries

LEMMA KeptEntries ==
    ASSUME NEW X, NEW q \in Seq(X), NEW S \in SUBSET (1..Len(q))
    PROVE  /\ Kept(q, S) \in Seq(X)
           /\ Entries(Kept(q, S)) = {q[i] : i \in S}
           /\ Distinct(q) => Distinct(Kept(q, S))
<1> DEFINE k == Kept(q, S)
<1>1. k \in Seq(X)
  BY KeptOnce
<1>2. PICK h \in [1..Len(k) -> S] :
        /\ \A i \in 1..Len(k) : k[i] = q[h[i]]
        /\ \A i, j \in 1..Len(k) : h[i] = h[j] => i = j
        /\ \A m \in S : \E i \in 1..Len(k) : h[i] = m
  BY KeptOnce
<1> HIDE DEF k
<1>3. Entries(k) = {q[i] : i \in S}
  <2>1. ASSUME NEW e \in Entries(k) PROVE e \in {q[i] : i \in S}
    <3>1. PICK i \in 1..Len(k) : e = k[i]
      BY DEF Entries
    <3>2. h[i] \in S /\ e = q[h[i]]
      BY <1>2, <3>1
    <3> QED
      BY <3>2
  <2>2. ASSUME NEW m \in S PROVE q[m] \in Entries(k)
    <3>1. PICK i \in 1..Len(k) : h[i] = m
      BY <1>2
    <3>2. k[i] = q[m]
      BY <1>2, <3>1
    <3> QED
      BY <3>2 DEF Entries
  <2> QED
    BY <2>1, <2>2
<1>4. ASSUME Distinct(q) PROVE Distinct(k)
  <2> SUFFICES ASSUME NEW i \in 1..Len(k), NEW j \in 1..Len(k), k[i].path = k[j].path
               PROVE  i = j
    BY DEF Distinct
  <2>1. h[i] \in S /\ h[j] \in S /\ k[i] = q[h[i]] /\ k[j] = q[h[j]]
    BY <1>2
  <2>2. h[i] = h[j]
    <3>1. h[i] \in 1..Len(q) /\ h[j] \in 1..Len(q) /\ q[h[i]].path = q[h[j]].path
      BY <2>1
    <3> QED
      BY <3>1, <1>4 DEF Distinct
  <2> QED
    BY <1>2, <2>2
<1> QED
  BY <1>1, <1>3, <1>4 DEF k

(* What a test leaves of a queue.                                          *)
LEMMA QueueKept ==
    ASSUME NEW q \in Seq(EntryType), Distinct(q), NEW T \in SUBSET Entries(q)
    PROVE  LET k == Kept(q, {i \in 1..Len(q) : q[i] \in T})
           IN  k \in Seq(EntryType) /\ Distinct(k) /\ Entries(k) = T
<1> DEFINE S == {i \in 1..Len(q) : q[i] \in T}
<1>1. S \in SUBSET (1..Len(q))
  OBVIOUS
<1>2. {q[i] : i \in S} = T
  BY DEF Entries
<1> HIDE DEF S
<1>3. Kept(q, S) \in Seq(EntryType) /\ Distinct(Kept(q, S)) /\ Entries(Kept(q, S)) = T
  BY <1>1, <1>2, KeptEntries
<1> QED
  BY <1>3 DEF S

(* Entries that are rewritten in their places.                             *)
LEMMA QueueMapped ==
    ASSUME NEW q \in Seq(EntryType), Distinct(q),
           NEW k, k = [i \in 1..Len(q) |-> k[i]],
           \A i \in 1..Len(q) : k[i] \in EntryType /\ k[i].path = q[i].path
    PROVE  k \in Seq(EntryType) /\ Distinct(k) /\ Entries(k) = {k[i] : i \in 1..Len(q)}
           /\ Len(k) = Len(q)
<1>1. Len(q) \in Nat
  OBVIOUS
<1>2. k \in [1..Len(q) -> EntryType]
  <2> SUFFICES [i \in 1..Len(q) |-> k[i]] \in [1..Len(q) -> EntryType]
    BY Zenon
  <2> QED
    OBVIOUS
<1>3. k \in Seq(EntryType) /\ Len(k) = Len(q)
  BY <1>1, <1>2
<1> QED
  BY <1>3 DEF Distinct, Entries

-----------------------------------------------------------------------------
(* The transitions of the queue                                            *)

Names(e) == <<e.path, e.kind, e.rev>>
(* r has the entries of q but those of T, with their kinds and revisions.  *)
Less(q, T, r) ==
    /\ r \in Seq(EntryType) /\ Distinct(r)
    /\ \A e \in Entries(r) : \E d \in Entries(q) \ T : Names(d) = Names(e)
    /\ \A d \in Entries(q) \ T : \E e \in Entries(r) : Names(d) = Names(e)

LEMMA KeptLess ==
    ASSUME NEW q \in Seq(EntryType), Distinct(q), NEW T \in SUBSET Entries(q)
    PROVE  Less(q, Entries(q) \ T, Kept(q, {i \in 1..Len(q) : q[i] \in T}))
<1>1. Entries(q) \ (Entries(q) \ T) = T
  OBVIOUS
<1> QED
  BY <1>1, QueueKept DEF Less

(* Every entry that is due, or none of them.                               *)
LEMMA SelfLess ==
    ASSUME NEW q \in Seq(EntryType), Distinct(q) PROVE Less(q, {}, q)
BY DEF Less

(* A path that is queued again keeps its kind if it is only modified.      *)
NewEntry(p, kind, e) ==
    /\ e.path = p /\ e.rev = revision + 1 /\ ~e.waiting
    /\ \/ \E d \in Entries(queue) : d.path = p /\ e.kind = Merged(d.kind, kind)
       \/ (\A d \in Entries(queue) : d.path # p) /\ e.kind = kind
LEMMA UpsertedEntries ==
    ASSUME QueueShape, NEW p \in Paths, NEW kind \in Kinds, revision + 1 \in Changes
    PROVE  /\ Upserted(p, kind) \in Seq(EntryType) /\ Distinct(Upserted(p, kind))
           /\ \E e \in EntryType :
                /\ NewEntry(p, kind, e)
                /\ Entries(Upserted(p, kind)) = {d \in Entries(queue) : d.path # p} \cup {e}
<1> DEFINE entry(k) == [path |-> p, kind |-> k, rev |-> revision + 1, waiting |-> FALSE]
           u == Upserted(p, kind)
<1>0. queue \in Seq(EntryType) /\ Distinct(queue) /\ Len(queue) \in Nat
  BY DEF QueueShape
<1>1. \A k \in Kinds : entry(k) \in EntryType
  BY DEF EntryType
<1>2. \A k \in Kinds : Merged(k, kind) \in Kinds
  BY DEF Merged
<1>3. CASE Places(queue, p) # {}
  <2>1. PICK j \in 1..Len(queue) : queue[j].path = p
    BY <1>3 DEF Places
  <2>2. u = [i \in 1..Len(queue) |->
               IF queue[i].path = p THEN entry(Merged(queue[i].kind, kind)) ELSE queue[i]]
    BY <1>3 DEF Upserted
  <2>3. \A i \in 1..Len(queue) : queue[i] \in EntryType /\ queue[i].kind \in Kinds
    <3>1. \A i \in 1..Len(queue) : queue[i] \in EntryType
      BY <1>0
    <3>2. \A d \in EntryType : d.kind \in Kinds
      BY DEF EntryType
    <3> QED
      BY <3>1, <3>2
  <2>4. \A i \in 1..Len(queue) : u[i] \in EntryType /\ u[i].path = queue[i].path
    BY <1>1, <1>2, <2>2, <2>3
  <2>5. u = [i \in 1..Len(queue) |-> u[i]]
    BY <2>2
  <2> DEFINE e == entry(Merged(queue[j].kind, kind))
  <2>6. e \in EntryType /\ u[j] = e
    BY <1>1, <1>2, <2>1, <2>2, <2>3
  <2>7. NewEntry(p, kind, e)
    BY <2>1 DEF NewEntry, Entries
  <2>8. \A i \in 1..Len(queue) : i # j => u[i] = queue[i] /\ queue[i].path # p
    BY <1>0, <2>1, <2>2 DEF Distinct
  <2> HIDE DEF u, e
  <2>9. /\ u \in Seq(EntryType) /\ Distinct(u)
        /\ Entries(u) = {u[i] : i \in 1..Len(queue)}
    BY <1>0, <2>4, <2>5, QueueMapped
  <2>10. Entries(u) = {d \in Entries(queue) : d.path # p} \cup {e}
    <3>1. ASSUME NEW d \in Entries(u) PROVE d \in {c \in Entries(queue) : c.path # p} \cup {e}
      <4>1. PICK i \in 1..Len(queue) : d = u[i]
        BY <2>9
      <4> QED
        BY <4>1, <2>6, <2>8 DEF Entries
    <3>2. ASSUME NEW d \in Entries(queue), d.path # p PROVE d \in Entries(u)
      <4>1. PICK i \in 1..Len(queue) : d = queue[i]
        BY DEF Entries
      <4>2. i # j
        BY <2>1, <3>2, <4>1
      <4> QED
        BY <2>8, <2>9, <4>1, <4>2
    <3>3. e \in Entries(u)
      BY <2>6, <2>9
    <3> QED
      BY <3>1, <3>2, <3>3
  <2> QED
    BY <2>6, <2>7, <2>9, <2>10 DEF u
<1>4. CASE Places(queue, p) = {}
  <2> DEFINE e == entry(kind)
  <2>1. u = Append(queue, e)
    BY <1>4 DEF Upserted
  <2>2. e \in EntryType
    BY <1>1
  <2>3. \A d \in Entries(queue) : d.path # p
    BY <1>4 DEF Places, Entries
  <2>4. NewEntry(p, kind, e)
    BY <2>3 DEF NewEntry
  <2>p. e.path = p
    OBVIOUS
  <2> HIDE DEF u, e
  <2>5. /\ u \in Seq(EntryType) /\ Len(u) = Len(queue) + 1
        /\ u[Len(queue) + 1] = e /\ \A i \in 1..Len(queue) : u[i] = queue[i]
    BY <1>0, <2>1, <2>2
  <2>6. Distinct(u)
    <3> SUFFICES ASSUME NEW i \in 1..Len(u), NEW j \in 1..Len(u), u[i].path = u[j].path
                 PROVE  i = j
      BY DEF Distinct
    <3>1. \A k \in 1..Len(queue) : u[k].path # p
      BY <2>3, <2>5 DEF Entries
    <3>2. i \in 1..Len(queue) \/ i = Len(queue) + 1
      BY <1>0, <2>5
    <3>3. j \in 1..Len(queue) \/ j = Len(queue) + 1
      BY <1>0, <2>5
    <3> QED
      BY <1>0, <2>5, <2>p, <3>1, <3>2, <3>3 DEF Distinct
  <2>7. Entries(u) = {d \in Entries(queue) : d.path # p} \cup {e}
    <3>1. {d \in Entries(queue) : d.path # p} = Entries(queue)
      BY <2>3
    <3>2. 1..Len(u) = 1..Len(queue) \cup {Len(queue) + 1}
      BY <1>0, <2>5
    <3>3. Entries(u) = Entries(queue) \cup {e}
      <4>1. ASSUME NEW d \in Entries(u) PROVE d \in Entries(queue) \cup {e}
        BY <2>5, <3>2 DEF Entries
      <4>2. ASSUME NEW d \in Entries(queue) PROVE d \in Entries(u)
        BY <2>5, <3>2 DEF Entries
      <4>3. e \in Entries(u)
        BY <2>5, <3>2 DEF Entries
      <4> QED
        BY <4>1, <4>2, <4>3
    <3> QED
      BY <3>1, <3>3
  <2> QED
    BY <2>2, <2>4, <2>5, <2>6, <2>7 DEF u
<1> QED
  BY <1>3, <1>4
-----------------------------------------------------------------------------
(* Steps that take entries out of the queue, or rewrite them in it         *)

(* The entries T leave, of which the paths in G are given up; of the rest  *)
(* Emby has been told.  Every step but an enqueue, the start of a flush    *)
(* and a post is one of these, with T = {} if it leaves the queue alone.   *)
Loses(T, G) ==
    /\ T \subseteq Entries(queue) /\ Less(queue, T, queue') /\ saved' = queue'
    /\ \A e \in T : e.path \in G \/ settled[e.path] = asked[e.path]
    /\ G \subseteq {e.path : e \in T}
    /\ excused' = excused \cup G
    /\ settled' = [p \in Paths |-> IF p \in G THEN asked[p] ELSE settled[p]]
    /\ UNCHANGED <<revision, asked, actual, shown>>
    /\ \/ batch' = <<>> /\ sent' = 0 /\ pc' \notin {"posting", "taken"}
       \/ T = {} /\ G = {} /\ UNCHANGED <<batch, sent, pc>>
    /\ RestShape'

LEMMA ShapeFacts ==
    ASSUME Shape
    PROVE  /\ queue \in Seq(EntryType) /\ Distinct(queue) /\ saved = queue
           /\ Entries(queue) \subseteq EntryType
           /\ batch \in Seq(Update) /\ Distinct(batch)
           /\ Len(batch) \in Nat /\ sent \in Nat /\ sent <= Len(batch)
           /\ Entries(batch) \subseteq Update
           /\ \A e \in EntryType : e.path \in Paths /\ e.kind \in Kinds /\ e.rev \in Nat
           /\ \A b \in Update : /\ b.path \in Paths /\ b.kind \in Kinds
                                /\ b.rev \in Nat /\ b.upto \in Nat
           /\ revision \in Nat
           /\ \A p \in Paths : asked[p] \in Nat /\ settled[p] \in Nat
<1>1. Changes \subseteq Nat
  BY DEF Changes
<1>2. Entries(queue) \subseteq EntryType
  BY DEF Shape, QueueShape, Entries
<1>3. Entries(batch) \subseteq Update
  BY DEF Shape, BatchShape, Entries
<1>4. \A e \in EntryType : e.path \in Paths /\ e.kind \in Kinds /\ e.rev \in Nat
  BY <1>1 DEF EntryType
<1>5. \A b \in Update : /\ b.path \in Paths /\ b.kind \in Kinds
                        /\ b.rev \in Nat /\ b.upto \in Nat
  BY <1>1 DEF Update
<1>6. /\ batch \in Seq(Update) /\ Distinct(batch)
      /\ Len(batch) \in Nat /\ sent \in Nat /\ sent <= Len(batch)
  BY DEF Shape, BatchShape
<1>7. revision \in Nat /\ \A p \in Paths : asked[p] \in Nat /\ settled[p] \in Nat
  BY <1>1 DEF Shape, RestShape
<1> QED
  BY <1>2, <1>3, <1>4, <1>5, <1>6, <1>7 DEF Shape, QueueShape

LEMMA LosesDurable ==
    ASSUME Durable, NEW T, NEW G, Loses(T, G)
    PROVE  Durable'
<1>0. Shape /\ Counted /\ Matched /\ Told
  BY DEF Durable
<1>f. /\ queue \in Seq(EntryType) /\ Distinct(queue) /\ saved = queue
      /\ Entries(queue) \subseteq EntryType
      /\ batch \in Seq(Update) /\ Distinct(batch)
      /\ Len(batch) \in Nat /\ sent \in Nat /\ sent <= Len(batch)
      /\ Entries(batch) \subseteq Update
      /\ \A e \in EntryType : e.path \in Paths /\ e.kind \in Kinds /\ e.rev \in Nat
      /\ \A b \in Update : /\ b.path \in Paths /\ b.kind \in Kinds
                           /\ b.rev \in Nat /\ b.upto \in Nat
      /\ revision \in Nat
      /\ \A p \in Paths : asked[p] \in Nat /\ settled[p] \in Nat
  BY <1>0, ShapeFacts
<1>1. /\ Less(queue, T, queue') /\ saved' = queue' /\ RestShape'
      /\ revision' = revision /\ asked' = asked
      /\ \A p \in Paths : settled'[p] = IF p \in G THEN asked[p] ELSE settled[p]
  BY DEF Loses
<1>2. \A e \in Entries(queue') : \E d \in Entries(queue) :
        d.path = e.path /\ d.rev = e.rev /\ d.kind = e.kind
  BY <1>1 DEF Less, Names
<1>3. \A p \in Paths : settled[p] <= settled'[p] /\ settled'[p] <= asked'[p]
  BY <1>0, <1>1, <1>f DEF Counted
<1>4. \/ batch' = <<>> /\ sent' = 0 /\ pc' \notin {"posting", "taken"}
      \/ UNCHANGED <<batch, sent, pc>>
  BY DEF Loses
<1>5. Shape'
  <2>1. QueueShape'
    BY <1>1 DEF QueueShape, Less
  <2>2. BatchShape'
    <3>1. CASE batch' = <<>> /\ sent' = 0 /\ pc' \notin {"posting", "taken"}
      BY <3>1, NoEntries DEF BatchShape, Distinct
    <3>2. CASE UNCHANGED <<batch, sent, pc>>
      BY <1>0, <3>2 DEF BatchShape, Shape, Distinct
    <3> QED
      BY <1>4, <3>1, <3>2
  <2> QED
    BY <1>1, <2>1, <2>2 DEF Shape
<1>6. Entries(batch') \subseteq Entries(batch)
  BY <1>4, NoEntries
<1>7. Counted'
  <2>1. \A e \in Entries(queue') : e.rev <= revision'
    BY <1>0, <1>1, <1>2 DEF Counted
  <2>2. \A b \in Entries(batch') : b.rev <= revision' /\ b.upto <= asked'[b.path]
    BY <1>0, <1>1, <1>6 DEF Counted
  <2>3. \A p \in Paths : settled'[p] <= asked'[p] /\ asked'[p] <= revision'
    BY <1>0, <1>1, <1>3 DEF Counted
  <2> QED
    BY <2>1, <2>2, <2>3 DEF Counted, Entries
<1>8. Matched'
  <2> SUFFICES ASSUME NEW e \in Entries(queue'), NEW b \in Entries(batch'),
                      e.path = b.path, e.rev = b.rev
               PROVE  b.upto = asked'[b.path]
    BY DEF Matched, Entries
  <2>1. PICK d \in Entries(queue) : d.path = e.path /\ d.rev = e.rev
    BY <1>2
  <2> QED
    BY <1>0, <1>1, <1>6, <2>1 DEF Matched
<1>9. Told'
  <2>1. CASE batch' = <<>> /\ sent' = 0 /\ pc' \notin {"posting", "taken"}
    BY <2>1 DEF Told, Done
  <2>2. CASE G = {} /\ UNCHANGED <<batch, sent, pc>>
    <3>0. settled' = [p \in Paths |-> settled[p]] /\ settled \in [Paths -> Changes]
      BY <1>0, <2>2 DEF Loses, Shape, RestShape
    <3>s. settled' = settled
      BY <3>0
    <3> SUFFICES ASSUME NEW i \in 1..Done' PROVE settled'[batch'[i].path] >= batch'[i].upto
      BY DEF Told
    <3>1. Done' = Done /\ batch' = batch
      BY <2>2 DEF Done, ChunkEnd
    <3>2. i \in 1..Done /\ settled[batch[i].path] >= batch[i].upto
      BY <1>0, <3>1 DEF Told
    <3> QED
      BY <3>1, <3>2, <3>s
  <2> QED
    BY <2>1, <2>2 DEF Loses
<1> QED
  BY <1>5, <1>7, <1>8, <1>9 DEF Durable
LEMMA LosesTells ==
    ASSUME Durable, Tells, EmbyInSync, NEW T, NEW G, Loses(T, G)
    PROVE  Tells' /\ EmbyInSync'
<1>0. Shape
  BY DEF Durable
<1>f. Entries(queue) \subseteq EntryType /\ \A e \in EntryType : e.path \in Paths
  BY <1>0, ShapeFacts
<1>1. ASSUME NEW p \in Paths \ excused'
      PROVE  /\ p \in Paths \ excused /\ p \notin G
             /\ settled'[p] = settled[p] /\ asked' = asked
             /\ actual' = actual /\ shown' = shown
  BY DEF Loses
<1>2. /\ T \subseteq Entries(queue)
      /\ \A e \in Entries(queue') : \E d \in Entries(queue) \ T :
           d.path = e.path /\ d.kind = e.kind
      /\ \A d \in Entries(queue) \ T : \E e \in Entries(queue') :
           d.path = e.path /\ d.kind = e.kind
  BY DEF Loses, Less, Names
<1>3. EmbyInSync'
  <2> SUFFICES ASSUME NEW p \in Paths \ excused', settled'[p] = asked'[p]
               PROVE  shown'[p] = actual'[p]
    BY DEF EmbyInSync
  <2> QED
    BY <1>1 DEF EmbyInSync
<1>4. ASSUME NEW p \in Paths \ excused' PROVE QueueTells(p)'
  <2>0. QueueTells(p)
    BY <1>1 DEF Tells
  <2>1. ASSUME NEW e \in Entries(queue'), e.path = p, Strong(e) PROVE e.kind = actual'[p]
    <3>1. PICK d \in Entries(queue) : d.path = e.path /\ d.kind = e.kind
      BY <1>2
    <3>2. Strong(d)
      BY <2>1, <3>1 DEF Strong
    <3> QED
      BY <1>1, <2>0, <2>1, <3>1, <3>2 DEF QueueTells
  <2>2. ASSUME \A e \in Entries(queue') : e.path = p => ~Strong(e)
        PROVE  shown'[p] = actual'[p]
    <3>1. CASE \E d \in T : d.path = p
      <4>1. settled[p] = asked[p]
        BY <1>1, <3>1 DEF Loses
      <4> QED
        BY <1>1, <4>1 DEF EmbyInSync
    <3>2. CASE \A d \in T : d.path # p
      <4>1. ASSUME NEW d \in Entries(queue), d.path = p PROVE ~Strong(d)
        <5>1. PICK e \in Entries(queue') : d.path = e.path /\ d.kind = e.kind
          BY <1>2, <3>2, <4>1
        <5> QED
          BY <2>2, <4>1, <5>1 DEF Strong
      <4> QED
        BY <1>1, <2>0, <4>1 DEF QueueTells
    <3> QED
      BY <3>1, <3>2
  <2> QED
    BY <2>1, <2>2 DEF QueueTells, Entries, Strong
<1>5. ASSUME NEW p \in Paths \ excused' PROVE BatchTells(p)'
  <2>0. BatchTells(p)
    BY <1>1 DEF Tells
  <2>1. CASE batch' = <<>>
    BY <2>1 DEF BatchTells, Entries
  <2>2. CASE T = {} /\ UNCHANGED <<batch, sent, pc>>
    <3> SUFFICES ASSUME NEW b \in Entries(batch'), b.path = p
                 PROVE  /\ settled'[p] <= b.upto
                        /\ Strong(b) => \E e \in Entries(queue') : e.path = p /\ Strong(e)
                        /\ b.upto = asked'[p] /\ Strong(b) => b.kind = actual'[p]
                        /\ b.upto = asked'[p] /\ ~Strong(b) => shown'[p] = actual'[p]
      BY DEF BatchTells, Entries, Strong
    <3>1. b \in Entries(batch)
      BY <2>2
    <3>2. ASSUME Strong(b) PROVE \E e \in Entries(queue') : e.path = p /\ Strong(e)
      <4>1. PICK d \in Entries(queue) : d.path = p /\ Strong(d)
        BY <2>0, <3>1, <3>2 DEF BatchTells
      <4> QED
        BY <1>2, <2>2, <4>1 DEF Strong
    <3>3. /\ settled[p] <= b.upto
          /\ b.upto = asked[p] /\ Strong(b) => b.kind = actual[p]
          /\ b.upto = asked[p] /\ ~Strong(b) => shown[p] = actual[p]
      BY <2>0, <3>1 DEF BatchTells
    <3> QED
      BY <1>1, <3>2, <3>3
  <2> QED
    BY <2>1, <2>2 DEF Loses
<1>6. Tells'
  BY <1>4, <1>5 DEF Tells
<1> QED
  BY <1>3, <1>6
LEMMA LessMapped ==
    ASSUME NEW q \in Seq(EntryType), NEW T, NEW r, Less(q, T, r),
           NEW k, k = [i \in 1..Len(r) |-> k[i]],
           \A i \in 1..Len(r) : k[i] \in EntryType /\ Names(k[i]) = Names(r[i])
    PROVE  Less(q, T, k)
<1>1. r \in Seq(EntryType) /\ Distinct(r)
  BY DEF Less
<1>2. \A i \in 1..Len(r) : k[i] \in EntryType /\ k[i].path = r[i].path
  BY DEF Names
<1>m. k = [i \in 1..Len(r) |-> k[i]]
  OBVIOUS
<1>3. k \in Seq(EntryType) /\ Distinct(k) /\ Entries(k) = {k[i] : i \in 1..Len(r)}
  BY <1>1, <1>2, <1>m, QueueMapped, Zenon
<1>4. ASSUME NEW e \in Entries(k) PROVE \E d \in Entries(q) \ T : Names(d) = Names(e)
  <2>1. PICK i \in 1..Len(r) : e = k[i]
    BY <1>3
  <2>2. r[i] \in Entries(r) /\ Names(e) = Names(r[i])
    BY <2>1 DEF Entries
  <2> QED
    BY <2>2 DEF Less
<1>5. ASSUME NEW d \in Entries(q) \ T PROVE \E e \in Entries(k) : Names(d) = Names(e)
  <2>1. PICK c \in Entries(r) : Names(d) = Names(c)
    BY DEF Less
  <2>2. PICK i \in 1..Len(r) : c = r[i]
    BY DEF Entries
  <2> QED
    BY <1>3, <2>1, <2>2
<1> QED
  BY <1>3, <1>4, <1>5 DEF Less

LEMMA StillLoses ==
    ASSUME Shape, Less(queue, {}, queue'), saved' = queue', RestShape',
           UNCHANGED <<revision, asked, settled, actual, shown, excused>>,
           \/ batch' = <<>> /\ sent' = 0 /\ pc' \notin {"posting", "taken"}
           \/ UNCHANGED <<batch, sent, pc>>
    PROVE  Loses({}, {})
<1>1. settled' = [p \in Paths |-> settled[p]]
  BY DEF Shape, RestShape
<1>2. settled' = [p \in Paths |-> IF p \in {} THEN asked[p] ELSE settled[p]]
  BY <1>1
<1> QED
  BY <1>2 DEF Loses

(* The steps that leave the queue alone.                                   *)
LEMMA IdleLoses ==
    ASSUME BoundsAssumption, Shape,
           LoopCheck \/ LoopClear \/ LoopWake \/ WindowPasses \/ Stop \/ StopDone
             \/ Start \/ Crash
    PROVE  Loses({}, {})
<1>0. queue \in Seq(EntryType) /\ Distinct(queue) /\ saved = queue
  BY ShapeFacts
<1>1. Less(queue, {}, queue)
  BY <1>0, SelfLess
<1>2. RestShape
  BY DEF Shape
<1>e. pc \notin {"posting", "taken"} => batch = <<>> /\ sent = 0
  <2>1. pc \notin {"posting", "taken"} => batch = <<>>
    BY DEF Shape, BatchShape
  <2>2. Len(<<>>) = 0 /\ sent \in 0..Len(batch)
    BY DEF Shape, BatchShape
  <2> QED
    BY <2>1, <2>2
<1> DEFINE Same == /\ queue' = queue /\ saved' = queue'
                   /\ UNCHANGED <<revision, asked, settled, actual, shown, excused>>
                   /\ RestShape'
           Rests == batch' = <<>> /\ sent' = 0 /\ pc' \notin {"posting", "taken"}
<1>3. CASE LoopCheck
  <2>1. Same
    BY <1>0, <1>2, <1>3 DEF LoopCheck, RestShape, history, bounds
  <2>2. Rests
    BY <1>3, <1>e DEF LoopCheck
  <2> QED
    BY <1>1, <2>1, <2>2, StillLoses
<1>4. CASE LoopClear
  <2>1. Same
    BY <1>0, <1>2, <1>4 DEF LoopClear, RestShape, history, bounds
  <2>2. Rests
    BY <1>4, <1>e DEF LoopClear
  <2> QED
    BY <1>1, <2>1, <2>2, StillLoses
<1>5. CASE LoopWake
  <2>1. Same
    BY <1>0, <1>2, <1>5 DEF LoopWake, RestShape, history, bounds
  <2>2. Rests
    BY <1>5, <1>e DEF LoopWake
  <2> QED
    BY <1>1, <2>1, <2>2, StillLoses
<1>6. CASE WindowPasses
  <2>1. Same
    BY <1>0, <1>2, <1>6 DEF WindowPasses, RestShape, history, bounds, loop
  <2>2. UNCHANGED <<batch, sent, pc>>
    BY <1>6 DEF WindowPasses, loop
  <2> QED
    BY <1>1, <2>1, <2>2, StillLoses
<1>7. CASE Stop
  <2>0. restarts' \in 0..MaxRestarts
    BY <1>2, <1>7 DEF Stop, RestShape, BoundsAssumption
  <2>1. Same
    BY <1>0, <1>2, <1>7, <2>0 DEF Stop, RestShape, history
  <2>2. Rests
    BY <1>7 DEF Stop
  <2> QED
    BY <1>1, <2>1, <2>2, StillLoses
<1>8. CASE StopDone
  <2>1. Same
    BY <1>0, <1>2, <1>8 DEF StopDone, RestShape, history, bounds
  <2>2. Rests
    BY <1>8, <1>e DEF StopDone
  <2> QED
    BY <1>1, <2>1, <2>2, StillLoses
<1>9. CASE Start \/ Crash
  <2>0. restarts' \in 0..MaxRestarts
    BY <1>2, <1>9 DEF Start, Crash, Boot, RestShape, BoundsAssumption
  <2>1. Same
    BY <1>0, <1>2, <1>9, <2>0 DEF Start, Crash, Boot, RestShape, history
  <2>2. Rests
    BY <1>9 DEF Start, Crash, Boot
  <2> QED
    BY <1>1, <2>1, <2>2, StillLoses
<1> QED
  BY <1>3, <1>4, <1>5, <1>6, <1>7, <1>8, <1>9
(* Entries that become due keep their kinds and revisions.                 *)
LEMMA DueLoses ==
    ASSUME Shape, BoundsAssumption, RetryNow \/ \E p \in Paths : BackoffPasses(p)
    PROVE  Loses({}, {})
<1>0. /\ queue \in Seq(EntryType) /\ Distinct(queue) /\ saved = queue
      /\ \A i \in 1..Len(queue) : queue[i] \in EntryType
  <2>1. queue \in Seq(EntryType) /\ Distinct(queue) /\ saved = queue
    BY ShapeFacts
  <2> QED
    BY <2>1
<1>1. Less(queue, {}, queue)
  BY <1>0, SelfLess
<1>2. RestShape
  BY DEF Shape
<1>3. \A e \in EntryType : /\ [e EXCEPT !.waiting = FALSE] \in EntryType
                           /\ Names([e EXCEPT !.waiting = FALSE]) = Names(e)
  BY DEF EntryType, Names
<1>4. CASE RetryNow
  <2> DEFINE k == [i \in 1..Len(queue) |-> [queue[i] EXCEPT !.waiting = FALSE]]
  <2>1. \A i \in 1..Len(queue) : k[i] \in EntryType /\ Names(k[i]) = Names(queue[i])
    BY <1>0, <1>3
  <2>2. k = [i \in 1..Len(queue) |-> k[i]]
    OBVIOUS
  <2>3. queue' = k /\ saved' = queue'
    BY <1>4 DEF RetryNow
  <2> HIDE DEF k
  <2>4. Less(queue, {}, k)
    BY <1>0, <1>1, <2>1, <2>2, LessMapped
  <2>5. retries' \in 0..MaxRetries
    BY <1>2, <1>4 DEF RetryNow, RestShape, BoundsAssumption
  <2>6. /\ UNCHANGED <<revision, asked, settled, actual, shown, excused>> /\ RestShape'
        /\ UNCHANGED <<batch, sent, pc>>
    BY <1>2, <1>4, <2>5 DEF RetryNow, RestShape, history, loop
  <2>7. Less(queue, {}, queue')
    BY <2>3, <2>4
  <2> QED
    BY <2>3, <2>6, <2>7, StillLoses
<1>5. ASSUME NEW p \in Paths, BackoffPasses(p) PROVE Loses({}, {})
  <2> DEFINE k == [i \in 1..Len(queue) |->
                     IF queue[i].path = p THEN [queue[i] EXCEPT !.waiting = FALSE]
                     ELSE queue[i]]
  <2>1. \A i \in 1..Len(queue) : k[i] \in EntryType /\ Names(k[i]) = Names(queue[i])
    BY <1>0, <1>3
  <2>2. k = [i \in 1..Len(queue) |-> k[i]]
    OBVIOUS
  <2>3. queue' = k /\ saved' = queue'
    BY <1>0, <1>5 DEF BackoffPasses
  <2> HIDE DEF k
  <2>4. Less(queue, {}, k)
    BY <1>0, <1>1, <2>1, <2>2, LessMapped
  <2>6. /\ UNCHANGED <<revision, asked, settled, actual, shown, excused>> /\ RestShape'
        /\ UNCHANGED <<batch, sent, pc>>
    BY <1>2, <1>5 DEF BackoffPasses, RestShape, history, loop, bounds
  <2>7. Less(queue, {}, queue')
    BY <2>3, <2>4
  <2> QED
    BY <2>3, <2>6, <2>7, StillLoses
<1> QED
  BY <1>4, <1>5

(* An entry that was sent and accepted is one of which Emby has been told. *)
LEMMA AcceptedIsTold ==
    ASSUME Durable, NEW e \in Entries(queue), Untouched(e),
           NEW n \in Nat, Done \in Nat, n <= Done, Done <= Len(batch),
           e.path \in Accepted(n)
    PROVE  settled[e.path] = asked[e.path]
<1>0. Shape /\ Counted /\ Matched /\ Told
  BY DEF Durable
<1>f. /\ Distinct(batch) /\ Len(batch) \in Nat
      /\ e.path \in Paths /\ asked[e.path] \in Nat /\ settled[e.path] \in Nat
  BY <1>0, ShapeFacts
<1>1. PICK i \in 1..Len(batch) : batch[i].path = e.path /\ batch[i].rev = e.rev
  BY DEF Untouched
<1>2. PICK j \in 1..n : batch[j].path = e.path
  BY DEF Accepted
<1>4. j \in 1..Done /\ j \in 1..Len(batch)
  BY <1>f
<1>5. j = i
  BY <1>1, <1>2, <1>4, <1>f DEF Distinct
<1>6. batch[i] \in Entries(batch) /\ batch[i].upto = asked[e.path]
  BY <1>0, <1>1 DEF Entries, Matched
<1>7. settled[e.path] >= asked[e.path]
  BY <1>0, <1>1, <1>4, <1>5, <1>6 DEF Told
<1>8. settled[e.path] <= asked[e.path]
  BY <1>0, <1>f DEF Counted
<1> QED
  BY <1>7, <1>8, <1>f

LEMMA DoneIsSent ==
    ASSUME BoundsAssumption, Shape
    PROVE  Done \in Nat /\ sent \in Nat /\ sent <= Done /\ Done <= Len(batch)
           /\ ChunkEnd \in Nat
<1>1. Len(batch) \in Nat /\ sent \in Nat /\ sent <= Len(batch) /\ ChunkSize \in Nat
  BY ShapeFacts DEF BoundsAssumption
<1> QED
  BY <1>1 DEF Done, ChunkEnd

LEMMA FinishLoses ==
    ASSUME Shape, NEW T, NEW q, T \subseteq Entries(queue), Less(queue, T, q), Finish(q),
           \A e \in T : settled[e.path] = asked[e.path]
    PROVE  Loses(T, {})
<1>1. /\ settled' = settled /\ asked' = asked /\ excused' = excused
      /\ settled' = [p \in Paths |-> settled[p]]
  BY DEF Finish, history, Shape, RestShape
<1>2. settled' = [p \in Paths |-> IF p \in {} THEN asked[p] ELSE settled[p]]
  BY <1>1
<1>3. RestShape'
  BY DEF Finish, history, bounds, Shape, RestShape
<1>4. queue' = q /\ saved' = q /\ UNCHANGED <<revision, asked, actual, shown>>
  BY DEF Finish, history
<1>5. batch' = <<>> /\ sent' = 0 /\ pc' \notin {"posting", "taken"}
  BY DEF Finish
<1> QED
  BY <1>1, <1>2, <1>3, <1>4, <1>5 DEF Loses
(* An answer: what was accepted leaves, what changed meanwhile stays.      *)
LEMMA AnswerLoses ==
    ASSUME BoundsAssumption, Durable, ChunkAccepted \/ ChunkFails \/ FlushRaises
    PROVE  \/ \E T : Loses(T, {})
           \/ /\ pc = "taken" /\ pc' = "posting" /\ sent' = ChunkEnd
              /\ UNCHANGED <<queue, revision, saved, batch, asked, settled, actual,
                             shown, excused>>
              /\ RestShape'
<1>0. Shape /\ queue \in Seq(EntryType) /\ Distinct(queue) /\ Len(batch) \in Nat
  BY ShapeFacts DEF Durable
<1>d. Done \in Nat /\ sent \in Nat /\ sent <= Done /\ Done <= Len(batch) /\ ChunkEnd \in Nat
  BY <1>0, DoneIsSent
<1>1. CASE ChunkAccepted /\ ChunkEnd < Len(batch)
  <2>1. /\ pc = "taken" /\ pc' = "posting" /\ sent' = ChunkEnd
        /\ UNCHANGED <<queue, revision, saved, batch, asked, settled, actual,
                       shown, excused>>
    BY <1>1, <1>0, <1>d DEF ChunkAccepted, history
  <2>2. RestShape'
    BY <1>1, <1>0, <1>d DEF ChunkAccepted, history, bounds, Shape, RestShape
  <2> QED
    BY <2>1, <2>2
<1>2. CASE ChunkAccepted /\ ~(ChunkEnd < Len(batch))
  <2> DEFINE U == {e \in Entries(queue) : ~Untouched(e)}
             T == Entries(queue) \ U
  <2>1. ChunkEnd = Len(batch) /\ Finish(AfterSuccess) /\ Done = Len(batch)
    BY <1>2 DEF ChunkAccepted, Done
  <2>2. {i \in 1..Len(queue) : queue[i] \in U} = {i \in 1..Len(queue) : ~Untouched(queue[i])}
    BY DEF Entries
  <2>3. Less(queue, T, AfterSuccess)
    <3>1. U \in SUBSET Entries(queue)
      OBVIOUS
    <3>2. Less(queue, T, Kept(queue, {i \in 1..Len(queue) : queue[i] \in U}))
      <4> HIDE DEF U
      <4> QED
        BY <1>0, <3>1, KeptLess
    <3> QED
      BY <2>2, <3>2 DEF AfterSuccess
  <2>4. ASSUME NEW e \in T PROVE settled[e.path] = asked[e.path]
    <3>1. e \in Entries(queue) /\ Untouched(e)
      OBVIOUS
    <3>2. e.path \in Accepted(Len(batch))
      BY <3>1 DEF Untouched, Accepted
    <3>3. Len(batch) <= Done
      BY <2>1, <1>0
    <3> QED
      BY <1>0, <1>d, <3>1, <3>2, <3>3, AcceptedIsTold
  <2>5. T \subseteq Entries(queue)
    OBVIOUS
  <2> HIDE DEF T
  <2> QED
    BY <1>0, <2>1, <2>3, <2>4, <2>5, FinishLoses
<1>3. CASE ChunkFails
  <2> DEFINE stays(e) == ~Untouched(e) \/ e.path \notin Accepted(sent)
             U == {e \in Entries(queue) : stays(e)}
             T == Entries(queue) \ U
             kept == Kept(queue, {i \in 1..Len(queue) : stays(queue[i])})
             k == [i \in 1..Len(kept) |->
                    [kept[i] EXCEPT !.waiting = IF Untouched(kept[i]) THEN TRUE ELSE @]]
  <2>1. Finish(k)
    BY <1>3 DEF ChunkFails, AfterFailure
  <2>2. {i \in 1..Len(queue) : queue[i] \in U} = {i \in 1..Len(queue) : stays(queue[i])}
    BY DEF Entries
  <2>3. Less(queue, T, kept)
    <3>1. U \in SUBSET Entries(queue)
      OBVIOUS
    <3>2. Less(queue, T, Kept(queue, {i \in 1..Len(queue) : queue[i] \in U}))
      <4> HIDE DEF U
      <4> QED
        BY <1>0, <3>1, KeptLess
    <3> QED
      BY <2>2, <3>2
  <2>4. ASSUME NEW e \in T PROVE settled[e.path] = asked[e.path]
    <3>1. e \in Entries(queue) /\ Untouched(e) /\ e.path \in Accepted(sent)
      OBVIOUS
    <3> QED
      BY <1>d, <3>1, AcceptedIsTold
  <2>5. T \subseteq Entries(queue)
    OBVIOUS
  <2>6. kept \in Seq(EntryType)
    BY <2>3 DEF Less
  <2>7. \A i \in 1..Len(kept) : k[i] \in EntryType /\ Names(k[i]) = Names(kept[i])
    <3> SUFFICES ASSUME NEW i \in 1..Len(kept)
                 PROVE  k[i] \in EntryType /\ Names(k[i]) = Names(kept[i])
      OBVIOUS
    <3> DEFINE c == kept[i]
    <3>1. c \in EntryType
      BY <2>6
    <3>2. k[i] = [c EXCEPT !.waiting = IF Untouched(c) THEN TRUE ELSE @]
      OBVIOUS
    <3> HIDE DEF c, k, kept
    <3>3. k[i] \in EntryType /\ Names(k[i]) = Names(c)
      BY <3>1, <3>2 DEF EntryType, Names
    <3> QED
      BY <3>3 DEF c
  <2>8. k = [i \in 1..Len(kept) |-> k[i]]
    OBVIOUS
  <2> HIDE DEF T, kept, k
  <2>9. Less(queue, T, k)
    BY <1>0, <2>3, <2>7, <2>8, LessMapped
  <2> QED
    BY <1>0, <2>1, <2>4, <2>5, <2>9, FinishLoses
<1>4. CASE FlushRaises
  <2>1. Finish(queue) /\ Less(queue, {}, queue)
    BY <1>0, <1>4, SelfLess DEF FlushRaises
  <2>2. Loses({}, {})
    BY <1>0, <2>1, FinishLoses
  <2> QED
    BY <2>2
<1> QED
  BY <1>1, <1>2, <1>3, <1>4

(* With the notifications switched off what is due is given up.            *)
LEMMA DisabledLoses ==
    ASSUME Shape, FlushDisabled
    PROVE  LET T == {e \in Entries(queue) : ~e.waiting}
           IN  Loses(T, {e.path : e \in T})
<1> DEFINE T == {e \in Entries(queue) : ~e.waiting}
           U == {e \in Entries(queue) : e.waiting}
           G == {e.path : e \in T}
<1>0. /\ queue \in Seq(EntryType) /\ Distinct(queue) /\ saved = queue
      /\ Entries(queue) \subseteq EntryType
      /\ \A e \in EntryType : e.path \in Paths
  BY ShapeFacts
<1>1. {Due[i].path : i \in 1..Len(Due)} = G
  <2>1. {i \in 1..Len(queue) : queue[i] \in T} = {i \in 1..Len(queue) : ~queue[i].waiting}
    BY DEF Entries
  <2>2. T \in SUBSET Entries(queue)
    OBVIOUS
  <2>3. Entries(Due) = T
    <3>1. Entries(Kept(queue, {i \in 1..Len(queue) : queue[i] \in T})) = T
      <4> HIDE DEF T
      <4> QED
        BY <1>0, <2>2, QueueKept
    <3> QED
      BY <2>1, <3>1 DEF Due
  <2>4. {Due[i].path : i \in 1..Len(Due)} = {e.path : e \in Entries(Due)}
    BY DEF Entries
  <2> QED
    BY <2>3, <2>4
<1>2. Less(queue, T, queue')
  <2>1. {i \in 1..Len(queue) : queue[i] \in U} = {i \in 1..Len(queue) : queue[i].waiting}
    BY DEF Entries
  <2>2. U \in SUBSET Entries(queue)
    OBVIOUS
  <2>3. Less(queue, Entries(queue) \ U, Kept(queue, {i \in 1..Len(queue) : queue[i] \in U}))
    <3> HIDE DEF U
    <3> QED
      BY <1>0, <2>2, KeptLess
  <2>4. Entries(queue) \ U = T
    OBVIOUS
  <2> QED
    BY <2>1, <2>3, <2>4 DEF FlushDisabled
<1>3. G \subseteq Paths
  BY <1>0
<1>4. /\ settled' = [p \in Paths |-> IF p \in G THEN asked[p] ELSE settled[p]]
      /\ excused' = excused \cup G
  <2> HIDE DEF G
  <2> QED
    BY <1>1 DEF FlushDisabled, Drop
<1>5. batch' = <<>> /\ sent' = 0 /\ pc' \notin {"posting", "taken"}
  <2>1. pc \notin {"posting", "taken"}
    BY DEF FlushDisabled, LoopFlush
  <2>2. batch = <<>> /\ sent \in 0..Len(batch)
    BY <2>1 DEF Shape, BatchShape
  <2>3. Len(<<>>) = 0
    OBVIOUS
  <2>4. sent = 0
    BY <2>2, <2>3
  <2> QED
    BY <2>2, <2>4 DEF FlushDisabled
<1>6. RestShape'
  <2> HIDE DEF G
  <2>1. settled' \in [Paths -> Changes] /\ excused' \subseteq Paths
    BY <1>3, <1>4 DEF Shape, RestShape
  <2> QED
    BY <2>1 DEF FlushDisabled, bounds, Shape, RestShape
<1>7. T \subseteq Entries(queue) /\ \A e \in T : e.path \in G
  OBVIOUS
<1>8. saved' = queue' /\ UNCHANGED <<revision, asked, actual, shown>>
  BY DEF FlushDisabled
<1> HIDE DEF T
<1>9. Loses(T, G)
  BY <1>2, <1>4, <1>5, <1>6, <1>7, <1>8 DEF Loses
<1> QED
  BY <1>9 DEF T
-----------------------------------------------------------------------------
(* The start of a flush, the post of a chunk                               *)

LEMMA BatchIsDue ==
    ASSUME Shape
    PROVE  /\ Batch \in Seq(Update) /\ Distinct(Batch)
           /\ \A b \in Entries(Batch) :
                /\ b.upto = asked[b.path]
                /\ \E e \in Entries(queue) :
                     e.path = b.path /\ e.kind = b.kind /\ e.rev = b.rev
<1>0. queue \in Seq(EntryType) /\ Distinct(queue)
  BY ShapeFacts
<1>1. Due \in Seq(EntryType) /\ Distinct(Due) /\ Entries(Due) \subseteq Entries(queue)
  <2> DEFINE T == {e \in Entries(queue) : ~e.waiting}
  <2>1. {i \in 1..Len(queue) : queue[i] \in T} = {i \in 1..Len(queue) : ~queue[i].waiting}
    BY DEF Entries
  <2>2. T \in SUBSET Entries(queue)
    OBVIOUS
  <2>3. LET k == Kept(queue, {i \in 1..Len(queue) : queue[i] \in T})
        IN  k \in Seq(EntryType) /\ Distinct(k) /\ Entries(k) = T
    <3> HIDE DEF T
    <3> QED
      BY <1>0, <2>2, QueueKept
  <2> QED
    BY <2>1, <2>3 DEF Due
<1>2. Len(Due) \in Nat /\ \A i \in 1..Len(Due) : Due[i] \in EntryType
  BY <1>1
<1>3. asked \in [Paths -> Changes]
  BY DEF Shape, RestShape
<1> DEFINE u(e) == [path |-> e.path, kind |-> e.kind, rev |-> e.rev, upto |-> asked[e.path]]
<1>4. \A e \in EntryType : u(e) \in Update
  BY <1>3 DEF EntryType, Update
<1>5. Batch = [i \in 1..Len(Due) |-> u(Due[i])]
  BY DEF Batch
<1>6. \A i \in 1..Len(Due) : Batch[i] = u(Due[i]) /\ Batch[i] \in Update
  BY <1>2, <1>4, <1>5
<1>7. Batch \in Seq(Update) /\ Len(Batch) = Len(Due)
  <2>1. Batch \in [1..Len(Due) -> Update]
    BY <1>5, <1>6
  <2> QED
    BY <1>2, <2>1, <1>5
<1>8. Distinct(Batch)
  <2>1. ASSUME NEW i \in 1..Len(Due) PROVE Batch[i].path = Due[i].path
    <3>1. Batch[i] = u(Due[i])
      BY <1>6
    <3>2. u(Due[i]).path = Due[i].path
      OBVIOUS
    <3> HIDE DEF u
    <3> QED
      BY <3>1, <3>2
  <2>2. \A i, j \in 1..Len(Due) : Due[i].path = Due[j].path => i = j
    BY <1>1 DEF Distinct
  <2>3. \A i, j \in 1..Len(Due) : Batch[i].path = Batch[j].path => i = j
    BY <2>1, <2>2
  <2> QED
    BY <1>7, <2>3 DEF Distinct
<1>9. ASSUME NEW b \in Entries(Batch)
      PROVE  /\ b.upto = asked[b.path]
             /\ \E e \in Entries(queue) :
                  e.path = b.path /\ e.kind = b.kind /\ e.rev = b.rev
  <2>0. PICK i \in 1..Len(Due) : b = Batch[i]
    BY <1>7 DEF Entries
  <2>1. b = u(Due[i])
    BY <1>6, <2>0
  <2>2. Due[i] \in Entries(queue)
    BY <1>1 DEF Entries
  <2> QED
    BY <2>1, <2>2
<1> QED
  BY <1>7, <1>8, <1>9

LEMMA FlushStartsDurable ==
    ASSUME Durable, FlushStarts
    PROVE  Durable'
<1>0. Shape /\ Counted /\ Matched /\ Told
  BY DEF Durable
<1>f. /\ queue \in Seq(EntryType) /\ Distinct(queue) /\ saved = queue
      /\ Entries(queue) \subseteq EntryType
      /\ \A e \in EntryType : e.path \in Paths /\ e.kind \in Kinds /\ e.rev \in Nat
      /\ \A p \in Paths : asked[p] \in Nat /\ settled[p] \in Nat
  BY <1>0, ShapeFacts
<1>1. /\ batch' = Batch /\ sent' = 0 /\ pc' = "posting"
      /\ UNCHANGED <<queue, revision, saved, asked, settled, actual, shown, excused>>
  BY DEF FlushStarts, history
<1>2. /\ Batch \in Seq(Update) /\ Distinct(Batch)
      /\ \A b \in Entries(Batch) :
           /\ b.upto = asked[b.path]
           /\ \E e \in Entries(queue) :
                e.path = b.path /\ e.kind = b.kind /\ e.rev = b.rev
  BY <1>0, BatchIsDue
<1>3. Shape'
  <2>1. QueueShape'
    BY <1>1, <1>f DEF QueueShape, Distinct
  <2>2. BatchShape'
    <3>1. batch' \in Seq(Update) /\ Distinct(batch)' /\ Len(batch') \in Nat
      BY <1>1, <1>2 DEF Distinct
    <3> QED
      BY <1>1, <3>1 DEF BatchShape
  <2>3. RestShape'
    BY <1>0 DEF FlushStarts, history, bounds, Shape, RestShape
  <2> QED
    BY <2>1, <2>2, <2>3 DEF Shape
<1>4. Counted'
  <2>1. ASSUME NEW b \in Entries(Batch) PROVE b.rev <= revision /\ b.upto <= asked[b.path]
    <3>1. PICK e \in Entries(queue) : e.path = b.path /\ e.rev = b.rev
      BY <1>2
    <3>2. b.upto = asked[b.path] /\ b.path \in Paths
      BY <1>2, <1>f, <3>1
    <3> QED
      BY <1>0, <1>f, <3>1, <3>2 DEF Counted
  <2>2. Entries(batch)' = Entries(Batch) /\ Entries(queue)' = Entries(queue)
    BY <1>1 DEF Entries
  <2> QED
    BY <1>0, <1>1, <2>1, <2>2 DEF Counted
<1>5. Matched'
  <2>2. Entries(batch)' = Entries(Batch) /\ Entries(queue)' = Entries(queue)
    BY <1>1 DEF Entries
  <2> QED
    BY <1>1, <1>2, <2>2 DEF Matched
<1>6. Told'
  BY <1>1 DEF Told, Done
<1> QED
  BY <1>3, <1>4, <1>5, <1>6 DEF Durable

LEMMA FlushStartsTells ==
    ASSUME Durable, Tells, EmbyInSync, FlushStarts
    PROVE  Tells' /\ EmbyInSync'
<1>0. Shape /\ Counted
  BY DEF Durable
<1>1. /\ batch' = Batch
      /\ UNCHANGED <<queue, asked, settled, actual, shown, excused>>
  BY DEF FlushStarts, history
<1>2. \A b \in Entries(Batch) :
           /\ b.upto = asked[b.path]
           /\ \E e \in Entries(queue) :
                e.path = b.path /\ e.kind = b.kind /\ e.rev = b.rev
  BY <1>0, BatchIsDue
<1>3. Entries(batch)' = Entries(Batch) /\ Entries(queue)' = Entries(queue)
  BY <1>1 DEF Entries
<1>4. ASSUME NEW p \in Paths \ excused PROVE QueueTells(p)' /\ BatchTells(p)'
  <2>0. QueueTells(p) /\ settled[p] <= asked[p]
    BY <1>0 DEF Tells, Counted
  <2>1. ASSUME NEW b \in Entries(Batch), b.path = p
        PROVE  /\ settled[p] <= b.upto
               /\ Strong(b) => \E e \in Entries(queue) : e.path = p /\ Strong(e)
               /\ Strong(b) => b.kind = actual[p]
               /\ ~Strong(b) => shown[p] = actual[p]
    <3>1. PICK e \in Entries(queue) : e.path = p /\ e.kind = b.kind
      BY <1>2, <2>1
    <3>2. Strong(e) = Strong(b)
      BY <3>1 DEF Strong
    <3>3. settled[p] <= b.upto
      BY <1>2, <2>0, <2>1
    <3>4. CASE Strong(b)
      BY <2>0, <3>1, <3>2, <3>3, <3>4 DEF QueueTells
    <3>5. CASE ~Strong(b)
      <4>1. \A d \in Entries(queue) : d.path = p => d = e
        <5>1. queue \in Seq(EntryType) /\ Distinct(queue)
          BY <1>0, ShapeFacts
        <5> QED
          BY <3>1, <5>1, DistinctEntries
      <4>2. shown[p] = actual[p]
        BY <2>0, <3>2, <3>5, <4>1 DEF QueueTells
      <4> QED
        BY <3>3, <3>5, <4>2
    <3> QED
      BY <3>4, <3>5
  <2>2. QueueTells(p)'
    BY <1>1, <1>3, <2>0 DEF QueueTells, Strong
  <2>3. BatchTells(p)'
    BY <1>1, <1>3, <2>1 DEF BatchTells, Strong
  <2> QED
    BY <2>2, <2>3
<1>5. Tells'
  BY <1>1, <1>4 DEF Tells
<1>6. EmbyInSync'
  BY <1>1 DEF EmbyInSync
<1> QED
  BY <1>5, <1>6
(* A chunk that takes effect: what Emby hears of each path of it.          *)
Chunk == {batch[i] : i \in (sent + 1)..ChunkEnd}
LEMMA TakenFacts ==
    ASSUME BoundsAssumption, Shape, EmbyTakes
    PROVE  /\ Chunk \subseteq Entries(batch)
           /\ pc = "posting" /\ pc' = "taken"
           /\ UNCHANGED <<queue, revision, saved, batch, sent, asked, actual, excused>>
           /\ \A u \in Chunk : settled'[u.path] =
                IF u.upto > settled[u.path] THEN u.upto ELSE settled[u.path]
           /\ \A p \in Paths : (\A u \in Chunk : u.path # p) =>
                settled'[p] = settled[p] /\ shown'[p] = shown[p]
           /\ \A u \in Chunk : shown'[u.path] =
                IF Strong(u) THEN u.kind ELSE shown[u.path]
           /\ RestShape'
<1> DEFINE told == {u.path : u \in Chunk}
           upto(p) == (CHOOSE u \in Chunk : u.path = p).upto
<1>0. /\ batch \in Seq(Update) /\ Distinct(batch)
      /\ Len(batch) \in Nat /\ sent \in Nat /\ sent <= Len(batch)
      /\ Entries(batch) \subseteq Update
      /\ \A b \in Update : b.path \in Paths /\ b.kind \in Kinds
      /\ ChunkEnd \in Nat /\ ChunkEnd <= Len(batch)
  <2>1. ChunkEnd \in Nat /\ ChunkEnd <= Len(batch)
    BY ShapeFacts DEF ChunkEnd, BoundsAssumption
  <2> QED
    BY <2>1, ShapeFacts
<1>1. Chunk \subseteq Entries(batch)
  BY <1>0 DEF Chunk, Entries
<1>2. ASSUME NEW u \in Chunk PROVE (CHOOSE v \in Chunk : v.path = u.path) = u
  <2> DEFINE c == CHOOSE v \in Chunk : v.path = u.path
  <2>1. c \in Chunk /\ c.path = u.path
    OBVIOUS
  <2> HIDE DEF c
  <2>2. c \in Entries(batch) /\ u \in Entries(batch)
    BY <1>1, <2>1
  <2>3. c = u
    BY <1>0, <2>1, <2>2, DistinctEntries
  <2> QED
    BY <2>3 DEF c
<1>3. /\ pc = "posting" /\ pc' = "taken"
      /\ settled' = [p \in Paths |->
            IF p \in told /\ upto(p) > settled[p] THEN upto(p) ELSE settled[p]]
      /\ shown' = [p \in Paths |->
            IF \E u \in Chunk : u.path = p /\ Strong(u)
            THEN (CHOOSE u \in Chunk : u.path = p).kind ELSE shown[p]]
      /\ UNCHANGED <<queue, revision, saved, window, wake, batch, sent, stopping,
                     enabled, asked, actual, excused, bounds>>
  BY DEF EmbyTakes, Chunk
<1> HIDE DEF Chunk
<1>4. ASSUME NEW u \in Chunk
      PROVE  /\ settled'[u.path] =
                  IF u.upto > settled[u.path] THEN u.upto ELSE settled[u.path]
             /\ shown'[u.path] = IF Strong(u) THEN u.kind ELSE shown[u.path]
  <2>1. u.path \in Paths /\ u.path \in told /\ upto(u.path) = u.upto
    BY <1>0, <1>1, <1>2
  <2>2. (\E v \in Chunk : v.path = u.path /\ Strong(v)) <=> Strong(u)
    <3>1. ASSUME NEW v \in Chunk, v.path = u.path PROVE v = u
      <4>1. v \in Entries(batch) /\ u \in Entries(batch)
        BY <1>1
      <4> QED
        BY <1>0, <3>1, <4>1, DistinctEntries
    <3> QED
      BY <3>1
  <2>3. settled'[u.path] = IF u.upto > settled[u.path] THEN u.upto ELSE settled[u.path]
    <3> HIDE DEF told, upto
    <3>1. settled'[u.path] =
            IF u.path \in told /\ upto(u.path) > settled[u.path] THEN upto(u.path)
            ELSE settled[u.path]
      BY <1>3, <2>1
    <3> QED
      BY <2>1, <3>1
  <2>4. shown'[u.path] = IF Strong(u) THEN u.kind ELSE shown[u.path]
    BY <1>2, <1>3, <2>1, <2>2
  <2> QED
    BY <2>3, <2>4
<1>5. ASSUME NEW p \in Paths, \A u \in Chunk : u.path # p
      PROVE  settled'[p] = settled[p] /\ shown'[p] = shown[p]
  BY <1>3, <1>5
<1>6. RestShape'
  <2>0. settled \in [Paths -> Changes] /\ shown \in [Paths -> Kinds]
    BY DEF Shape, RestShape
  <2>1. ASSUME NEW p \in Paths PROVE settled'[p] \in Changes /\ shown'[p] \in Kinds
    <3>1. CASE \A u \in Chunk : u.path # p
      BY <1>5, <2>0, <3>1
    <3>2. CASE \E u \in Chunk : u.path = p
      <4>1. PICK u \in Chunk : u.path = p
        BY <3>2
      <4>2. u.upto \in Changes /\ u.kind \in Kinds
        <5>1. u \in Update
          BY <1>0, <1>1
        <5> QED
          BY <5>1 DEF Update
      <4> QED
        BY <1>4, <2>0, <4>1, <4>2
    <3> QED
      BY <3>1, <3>2
  <2>2. settled' \in [Paths -> Changes] /\ shown' \in [Paths -> Kinds]
    <3>1. settled' = [p \in Paths |-> settled'[p]] /\ shown' = [p \in Paths |-> shown'[p]]
      BY <1>3
    <3> QED
      BY <2>1, <3>1
  <2> QED
    BY <1>3, <2>2 DEF Shape, RestShape, bounds
<1> QED
  BY <1>1, <1>3, <1>4, <1>5, <1>6
LEMMA TakesDurable ==
    ASSUME BoundsAssumption, Durable, EmbyTakes
    PROVE  Durable'
<1>0. Shape /\ Counted /\ Matched /\ Told
  BY DEF Durable
<1>f. /\ queue \in Seq(EntryType) /\ Distinct(queue) /\ saved = queue
      /\ batch \in Seq(Update) /\ Distinct(batch)
      /\ Len(batch) \in Nat /\ sent \in Nat /\ sent <= Len(batch)
      /\ Entries(batch) \subseteq Update
      /\ \A b \in Update : b.path \in Paths /\ b.upto \in Nat
      /\ \A p \in Paths : asked[p] \in Nat /\ settled[p] \in Nat
  BY <1>0, ShapeFacts
<1>1. /\ Chunk \subseteq Entries(batch)
      /\ pc = "posting" /\ pc' = "taken"
      /\ UNCHANGED <<queue, revision, saved, batch, sent, asked, actual, excused>>
      /\ \A u \in Chunk : settled'[u.path] =
           IF u.upto > settled[u.path] THEN u.upto ELSE settled[u.path]
      /\ \A p \in Paths : (\A u \in Chunk : u.path # p) => settled'[p] = settled[p]
      /\ RestShape'
  BY <1>0, TakenFacts
<1>2. ASSUME NEW p \in Paths
      PROVE  settled[p] <= settled'[p] /\ settled'[p] <= asked[p] /\ settled'[p] \in Nat
  <2>0. settled[p] <= asked[p]
    BY <1>0 DEF Counted
  <2>1. CASE \A u \in Chunk : u.path # p
    BY <1>1, <1>f, <2>0, <2>1
  <2>2. CASE \E u \in Chunk : u.path = p
    <3>1. PICK u \in Chunk : u.path = p
      BY <2>2
    <3>2. u.upto \in Nat /\ u.upto <= asked[p]
      BY <1>0, <1>1, <1>f, <3>1 DEF Counted
    <3>3. settled'[p] = IF u.upto > settled[p] THEN u.upto ELSE settled[p]
      BY <1>1, <3>1
    <3> QED
      BY <1>f, <2>0, <3>2, <3>3
  <2> QED
    BY <2>1, <2>2
<1>3. Shape'
  <2>1. QueueShape'
    BY <1>1, <1>f DEF QueueShape, Distinct
  <2>2. BatchShape'
    BY <1>0, <1>1 DEF Shape, BatchShape, Distinct
  <2> QED
    BY <1>1, <2>1, <2>2 DEF Shape
<1>4. Counted'
  BY <1>0, <1>1, <1>2 DEF Counted, Entries
<1>5. Matched'
  BY <1>0, <1>1 DEF Matched, Entries
<1>6. Told'
  <2>d. Done = sent /\ Done' = ChunkEnd /\ ChunkEnd \in Nat /\ ChunkEnd <= Len(batch)
    BY <1>1, <1>f DEF Done, ChunkEnd, BoundsAssumption
  <2> SUFFICES ASSUME NEW i \in 1..Done' PROVE settled'[batch[i].path] >= batch[i].upto
    BY <1>1 DEF Told
  <2>0. i \in 1..Len(batch) /\ batch[i] \in Update
    BY <1>f, <2>d
  <2>1. CASE i <= sent
    <3>1. settled[batch[i].path] >= batch[i].upto
      BY <1>0, <1>f, <2>d, <2>1 DEF Told
    <3> QED
      BY <1>2, <1>f, <2>0, <3>1
  <2>2. CASE ~(i <= sent)
    <3>1. i \in (sent + 1)..ChunkEnd
      BY <2>2, <2>d, <1>f
    <3>2. batch[i] \in Chunk
      BY <3>1 DEF Chunk
    <3> QED
      BY <1>1, <1>f, <2>0, <3>2
  <2> QED
    BY <2>1, <2>2
<1> QED
  BY <1>3, <1>4, <1>5, <1>6 DEF Durable

LEMMA TakesTells ==
    ASSUME BoundsAssumption, Durable, Tells, EmbyInSync, EmbyTakes
    PROVE  Tells' /\ EmbyInSync'
<1>0. Shape /\ Counted
  BY DEF Durable
<1>f. /\ batch \in Seq(Update) /\ Distinct(batch)
      /\ Entries(batch) \subseteq Update
      /\ \A b \in Update : b.path \in Paths /\ b.upto \in Nat
      /\ \A p \in Paths : asked[p] \in Nat /\ settled[p] \in Nat
  BY <1>0, ShapeFacts
<1>1. /\ Chunk \subseteq Entries(batch)
      /\ UNCHANGED <<queue, batch, asked, actual, excused>>
      /\ \A u \in Chunk : settled'[u.path] =
           IF u.upto > settled[u.path] THEN u.upto ELSE settled[u.path]
      /\ \A p \in Paths : (\A u \in Chunk : u.path # p) =>
           settled'[p] = settled[p] /\ shown'[p] = shown[p]
      /\ \A u \in Chunk : shown'[u.path] =
           IF Strong(u) THEN u.kind ELSE shown[u.path]
  BY <1>0, TakenFacts
<1>2. ASSUME NEW p \in Paths \ excused, \A u \in Chunk : u.path # p
      PROVE  /\ QueueTells(p)' /\ BatchTells(p)'
             /\ settled'[p] = asked'[p] => shown'[p] = actual'[p]
  <2>1. QueueTells(p) /\ BatchTells(p) /\ (settled[p] = asked[p] => shown[p] = actual[p])
    BY DEF Tells, EmbyInSync
  <2>2. settled'[p] = settled[p] /\ shown'[p] = shown[p]
    BY <1>1, <1>2
  <2>3. QueueTells(p)'
    BY <1>1, <2>1, <2>2 DEF QueueTells, Entries, Strong
  <2>4. BatchTells(p)'
    BY <1>1, <2>1, <2>2 DEF BatchTells, Entries, Strong
  <2> QED
    BY <1>1, <2>1, <2>2, <2>3, <2>4
<1>3. ASSUME NEW p \in Paths \ excused, NEW u \in Chunk, u.path = p
      PROVE  /\ QueueTells(p)' /\ BatchTells(p)'
             /\ settled'[p] = asked'[p] => shown'[p] = actual'[p]
  <2>1. QueueTells(p) /\ BatchTells(p) /\ (settled[p] = asked[p] => shown[p] = actual[p])
    BY DEF Tells, EmbyInSync
  <2>2. u \in Entries(batch) /\ u.upto \in Nat /\ asked[p] \in Nat /\ settled[p] \in Nat
    BY <1>1, <1>f
  <2>3. settled'[p] = IF u.upto > settled[p] THEN u.upto ELSE settled[p]
    BY <1>1, <1>3
  <2>4. shown'[p] = IF Strong(u) THEN u.kind ELSE shown[p]
    BY <1>1, <1>3
  <2>5. /\ settled[p] <= u.upto /\ u.upto <= asked[p]
        /\ Strong(u) => \E e \in Entries(queue) : e.path = p /\ Strong(e)
        /\ u.upto = asked[p] /\ Strong(u) => u.kind = actual[p]
        /\ u.upto = asked[p] /\ ~Strong(u) => shown[p] = actual[p]
    BY <1>0, <1>3, <2>1, <2>2 DEF BatchTells, Counted
  <2>6. settled'[p] = u.upto
    BY <2>2, <2>3, <2>5
  <2>7. settled'[p] = asked'[p] => shown'[p] = actual'[p]
    BY <1>1, <2>4, <2>5, <2>6
  <2>8. QueueTells(p)'
    <3>1. (\A e \in Entries(queue) : e.path = p => ~Strong(e)) => shown'[p] = actual[p]
      BY <2>1, <2>4, <2>5 DEF QueueTells
    <3> QED
      BY <1>1, <2>1, <3>1 DEF QueueTells, Entries, Strong
  <2>9. BatchTells(p)'
    <3>1. \A b \in Entries(batch) : b.path = p => b = u
      BY <1>3, <1>f, <2>2, DistinctEntries
    <3>2. /\ settled'[p] <= u.upto
          /\ Strong(u) => \E e \in Entries(queue) : e.path = p /\ Strong(e)
          /\ u.upto = asked'[p] /\ Strong(u) => u.kind = actual'[p]
          /\ u.upto = asked'[p] /\ ~Strong(u) => shown'[p] = actual'[p]
      BY <1>1, <2>2, <2>4, <2>5, <2>6
    <3>3. Entries(batch)' = Entries(batch) /\ Entries(queue)' = Entries(queue)
      BY <1>1 DEF Entries
    <3> QED
      BY <3>1, <3>2, <3>3 DEF BatchTells, Strong
  <2> QED
    BY <2>7, <2>8, <2>9
<1>4. Tells'
  BY <1>1, <1>2, <1>3 DEF Tells
<1>5. EmbyInSync'
  BY <1>1, <1>2, <1>3 DEF EmbyInSync
<1> QED
  BY <1>4, <1>5

(* The next chunk of a batch.                                              *)
NextChunk ==
    /\ pc = "taken" /\ pc' = "posting" /\ sent' = ChunkEnd
    /\ UNCHANGED <<queue, revision, saved, batch, asked, settled, actual, shown,
                   excused>>
    /\ RestShape'
LEMMA NextChunkSteps ==
    ASSUME BoundsAssumption, Durable, NextChunk
    PROVE  Durable' /\ (Tells /\ EmbyInSync => Tells' /\ EmbyInSync')
<1>0. Shape /\ Counted /\ Matched /\ Told
  BY DEF Durable
<1>1. Done' = Done
  BY DEF NextChunk, Done
<1>2. ChunkEnd \in 0..Len(batch)
  BY <1>0, ShapeFacts DEF ChunkEnd, BoundsAssumption
<1>3. Shape'
  BY <1>0, <1>2 DEF NextChunk, Shape, QueueShape, BatchShape, Distinct
<1>4. Counted' /\ Matched' /\ Told'
  BY <1>0, <1>1 DEF NextChunk, Counted, Matched, Told, Entries
<1>5. ASSUME Tells, EmbyInSync PROVE Tells' /\ EmbyInSync'
  BY <1>5 DEF NextChunk, Tells, QueueTells, BatchTells, Entries, Strong, EmbyInSync
<1> QED
  BY <1>3, <1>4, <1>5 DEF Durable
-----------------------------------------------------------------------------
(* An enqueue                                                              *)

(* The paths T are evicted to make room for e, which is not among them.    *)
Enters(p, kind, T, e) ==
    /\ e \in EntryType /\ NewEntry(p, kind, e) /\ T \subseteq Paths /\ p \notin T
    /\ queue' \in Seq(EntryType) /\ Distinct(queue') /\ saved' = queue'
    /\ Entries(queue') =
         {d \in Entries(queue) : d.path # p /\ d.path \notin T}
           \cup (IF p \in T THEN {} ELSE {e})
    /\ revision' = revision + 1
    /\ asked' = [asked EXCEPT ![p] = @ + 1]
    /\ actual' = IF kind = "Modified" THEN actual ELSE [actual EXCEPT ![p] = kind]
    /\ \A x \in Paths : settled'[x] = IF x \in T THEN asked'[x] ELSE settled[x]
    /\ excused' = excused \cup T
    /\ UNCHANGED <<shown, batch, sent, pc>>
    /\ RestShape'
LEMMA EnqueueEnters ==
    ASSUME BoundsAssumption, Shape, Counted,
           NEW p \in Paths, NEW kind \in Kinds, Enqueue(p, kind)
    PROVE  \E T, e : Enters(p, kind, T, e)
<1> DEFINE q == Upserted(p, kind)
           T == Evicted(q)
           K == {d \in Entries(q) : d.path \notin T}
<1>0. revision \in Nat /\ revision < MaxChanges /\ revision + 1 \in Changes
  BY ShapeFacts DEF Enqueue, BoundsAssumption, Changes
<1>1. /\ q \in Seq(EntryType) /\ Distinct(q)
      /\ \E e \in EntryType :
           /\ NewEntry(p, kind, e)
           /\ Entries(q) = {d \in Entries(queue) : d.path # p} \cup {e}
  <2>1. QueueShape
    BY DEF Shape
  <2> QED
    BY <1>0, <2>1, UpsertedEntries
<1>2. PICK e \in EntryType : /\ NewEntry(p, kind, e)
                             /\ Entries(q) = {d \in Entries(queue) : d.path # p} \cup {e}
  BY <1>1
<1>3. /\ queue' = Without(q, T) /\ saved' = queue'
      /\ revision' = revision + 1
      /\ asked' = [asked EXCEPT ![p] = @ + 1]
      /\ actual' = IF kind = "Modified" THEN actual ELSE [actual EXCEPT ![p] = kind]
      /\ settled' = [x \in Paths |-> IF x \in T THEN asked'[x] ELSE settled[x]]
      /\ excused' = excused \cup T
      /\ UNCHANGED <<shown, batch, sent, pc, stopping, enabled, retries, restarts>>
      /\ window' \in {"hard", "open"} /\ wake' = TRUE
  BY DEF Enqueue, Drop, loop, bounds
<1> HIDE DEF q
<1>4. T \subseteq Paths
  <2>1. \A i \in 1..Len(q) : q[i] \in EntryType
    BY <1>1
  <2>2. \A d \in EntryType : d.path \in Paths
    BY DEF EntryType
  <2> QED
    BY <2>1, <2>2 DEF Evicted
<1>12. p \notin T
  <2> SUFFICES ASSUME p \in T PROVE FALSE
    OBVIOUS
  <2>0. ~(Len(q) <= MaxQueued)
    BY DEF Evicted
  <2>6. \E j \in 1..Len(q) : /\ q[j].path = p
                              /\ \A k \in 1..Len(q) : q[j].rev <= q[k].rev
    BY <2>0 DEF Evicted
  <2>7. PICK j \in 1..Len(q) : /\ q[j].path = p
                               /\ \A k \in 1..Len(q) : q[j].rev <= q[k].rev
    BY <2>6
  <2>1. PICK k \in 1..Len(q) : k # j
    <3>1. Len(q) \in Nat /\ Len(q) > 1
      BY <1>1, <2>0 DEF BoundsAssumption
    <3>2. 1 \in 1..Len(q) /\ 2 \in 1..Len(q)
      BY <3>1
    <3> QED
      BY <3>2
  <2>2. q[k] \in Entries(q) /\ q[j] \in Entries(q) /\ q[k].path # p
    BY <1>1, <2>1, <2>7 DEF Entries, Distinct
  <2>3. q[k] \in Entries(queue) /\ q[j] = e
    BY <1>2, <2>2, <2>7 DEF NewEntry
  <2>4. q[k].rev \in Nat /\ q[k].rev <= revision
    BY <2>3, ShapeFacts DEF Counted
  <2>5. q[j].rev = revision + 1
    BY <1>2, <2>3 DEF NewEntry
  <2> QED
    BY <1>0, <2>4, <2>5, <2>7
<1> HIDE DEF T
<1>5. queue' \in Seq(EntryType) /\ Distinct(queue') /\ Entries(queue') = K
  <2>1. {i \in 1..Len(q) : q[i] \in K} = {i \in 1..Len(q) : q[i].path \notin T}
    BY DEF Entries
  <2>2. K \in SUBSET Entries(q)
    OBVIOUS
  <2>3. LET k == Kept(q, {i \in 1..Len(q) : q[i] \in K})
        IN  k \in Seq(EntryType) /\ Distinct(k) /\ Entries(k) = K
    <3> HIDE DEF K
    <3> QED
      BY <1>1, <2>2, QueueKept
  <2> QED
    BY <1>3, <2>1, <2>3 DEF Without
<1>6. K = {d \in Entries(queue) : d.path # p /\ d.path \notin T}
            \cup (IF p \in T THEN {} ELSE {e})
  BY <1>2 DEF NewEntry
<1>7. asked[p] \in Nat /\ asked[p] + 1 \in Changes
  <2>1. asked[p] \in Nat /\ asked[p] <= revision
    BY ShapeFacts DEF Counted
  <2> QED
    BY <1>0, <2>1 DEF Changes, BoundsAssumption
<1>8. asked \in [Paths -> Changes] /\ asked' \in [Paths -> Changes]
  BY <1>3, <1>7 DEF Shape, RestShape
<1>9. settled' \in [Paths -> Changes]
  BY <1>3, <1>8 DEF Shape, RestShape
<1>10. RestShape'
  BY <1>0, <1>3, <1>4, <1>8, <1>9 DEF Shape, RestShape, Kinds
<1>11. Enters(p, kind, T, e)
  BY <1>2, <1>3, <1>4, <1>5, <1>6, <1>10, <1>12 DEF Enters
<1> QED
  BY <1>11

LEMMA EnqueueDurable ==
    ASSUME BoundsAssumption, Durable, NEW p \in Paths, NEW kind \in Kinds,
           NEW T, NEW e, Enters(p, kind, T, e)
    PROVE  Durable'
<1>0. Shape /\ Counted /\ Matched /\ Told
  BY DEF Durable
<1>f. /\ Entries(queue) \subseteq EntryType
      /\ batch \in Seq(Update) /\ Distinct(batch)
      /\ Len(batch) \in Nat /\ sent \in Nat /\ sent <= Len(batch)
      /\ Entries(batch) \subseteq Update
      /\ \A d \in EntryType : d.path \in Paths /\ d.kind \in Kinds /\ d.rev \in Nat
      /\ \A b \in Update : /\ b.path \in Paths /\ b.kind \in Kinds
                           /\ b.rev \in Nat /\ b.upto \in Nat
      /\ revision \in Nat
      /\ \A x \in Paths : asked[x] \in Nat /\ settled[x] \in Nat
  BY <1>0, ShapeFacts
<1>1. /\ queue' \in Seq(EntryType) /\ Distinct(queue') /\ saved' = queue'
      /\ \A d \in Entries(queue') :
           d = e \/ (d \in Entries(queue) /\ d.path # p)
      /\ revision' = revision + 1
      /\ UNCHANGED <<batch, sent, pc>> /\ RestShape'
      /\ e.path = p /\ e.rev = revision + 1
  BY DEF Enters, NewEntry
<1>2. /\ asked'[p] = asked[p] + 1
      /\ \A x \in Paths : x # p => asked'[x] = asked[x]
  BY <1>0 DEF Enters, Shape, RestShape
<1>3. \A x \in Paths : /\ asked[x] <= asked'[x] /\ asked'[x] <= revision'
                       /\ settled[x] <= settled'[x] /\ settled'[x] <= asked'[x]
  <2> TAKE x \in Paths
  <2>1. settled[x] <= asked[x] /\ asked[x] <= revision
    BY <1>0 DEF Counted
  <2>2. asked'[x] \in {asked[x], asked[x] + 1}
    BY <1>2
  <2>3. settled'[x] \in {asked'[x], settled[x]}
    BY DEF Enters
  <2> QED
    BY <1>1, <1>f, <2>1, <2>2, <2>3
<1>4. Shape'
  <2>1. QueueShape'
    BY <1>1 DEF QueueShape
  <2>2. BatchShape'
    BY <1>0, <1>1 DEF Shape, BatchShape, Distinct
  <2> QED
    BY <1>1, <2>1, <2>2 DEF Shape
<1>5. Entries(batch)' = Entries(batch)
  BY <1>1 DEF Entries
<1>6. Counted'
  <2>1. ASSUME NEW d \in Entries(queue') PROVE d.rev <= revision'
    <3>1. CASE d = e
      BY <1>1, <1>f, <3>1
    <3>2. CASE d \in Entries(queue)
      <4>1. d.rev \in Nat /\ d.rev <= revision
        BY <1>0, <1>f, <3>2 DEF Counted
      <4> QED
        BY <1>1, <1>f, <4>1
    <3> QED
      BY <1>1, <3>1, <3>2
  <2>2. ASSUME NEW b \in Entries(batch) PROVE b.rev <= revision' /\ b.upto <= asked'[b.path]
    <3>1. b.rev \in Nat /\ b.upto \in Nat /\ b.path \in Paths
          /\ b.rev <= revision /\ b.upto <= asked[b.path]
      BY <1>0, <1>f DEF Counted
    <3>2. asked'[b.path] \in {asked[b.path], asked[b.path] + 1} /\ asked[b.path] \in Nat
      BY <1>2, <1>f, <3>1
    <3> QED
      BY <1>1, <1>f, <3>1, <3>2
  <2> QED
    BY <1>3, <1>5, <2>1, <2>2 DEF Counted, Entries
<1>7. Matched'
  <2> SUFFICES ASSUME NEW d \in Entries(queue'), NEW b \in Entries(batch),
                      d.path = b.path, d.rev = b.rev
               PROVE  b.upto = asked'[b.path]
    BY <1>5 DEF Matched, Entries
  <2>1. b.rev <= revision /\ b.rev \in Nat /\ b.path \in Paths
    BY <1>0, <1>f DEF Counted
  <2>2. d # e
    BY <1>1, <1>f, <2>1
  <2>3. d \in Entries(queue) /\ d.path # p
    BY <1>1, <2>2
  <2>4. b.upto = asked[b.path]
    BY <1>0, <2>3 DEF Matched
  <2> QED
    BY <1>2, <2>1, <2>3, <2>4
<1>8. Told'
  <2>1. Done' = Done
    BY <1>1 DEF Done, ChunkEnd
  <2>2. ASSUME NEW i \in 1..Done, i \in 1..Len(batch)
        PROVE  settled'[batch[i].path] >= batch[i].upto
    <3>1. batch[i] \in Update
      BY <1>f, <2>2
    <3>2. batch[i].path \in Paths /\ batch[i].upto \in Nat
      BY <1>f, <3>1
    <3>3. settled[batch[i].path] >= batch[i].upto
      BY <1>0 DEF Told
    <3>4. settled[batch[i].path] <= settled'[batch[i].path]
      BY <1>3, <3>2
    <3>5. settled'[batch[i].path] \in Nat
      BY <1>1, <3>2 DEF RestShape, Changes
    <3> QED
      BY <1>f, <3>2, <3>3, <3>4, <3>5
  <2>3. Done \in Nat /\ Done <= Len(batch)
    BY <1>0, DoneIsSent
  <2>4. \A i \in 1..Done : i \in 1..Len(batch)
    BY <1>f, <2>3
  <2> QED
    BY <1>1, <2>1, <2>2, <2>4 DEF Told
<1> QED
  BY <1>4, <1>6, <1>7, <1>8 DEF Durable
LEMMA EnqueueTells ==
    ASSUME Durable, Tells, EmbyInSync, NEW p \in Paths, NEW kind \in Kinds,
           NEW T, NEW e, Enters(p, kind, T, e)
    PROVE  Tells' /\ EmbyInSync'
<1>0. Shape /\ Counted
  BY DEF Durable
<1>f. /\ Entries(queue) \subseteq EntryType /\ Entries(batch) \subseteq Update
      /\ \A b \in Update : b.path \in Paths /\ b.upto \in Nat
      /\ \A d \in EntryType : d.path \in Paths /\ d.kind \in Kinds
      /\ \A x \in Paths : asked[x] \in Nat /\ settled[x] \in Nat
      /\ queue \in Seq(EntryType) /\ Distinct(queue)
  BY <1>0, ShapeFacts
<1>1. /\ Entries(queue') =
           {d \in Entries(queue) : d.path # p /\ d.path \notin T}
             \cup (IF p \in T THEN {} ELSE {e})
      /\ excused' = excused \cup T
      /\ UNCHANGED <<shown, batch, sent, pc>>
      /\ e.path = p /\ e \in EntryType
      /\ \/ \E d \in Entries(queue) : d.path = p /\ e.kind = Merged(d.kind, kind)
         \/ (\A d \in Entries(queue) : d.path # p) /\ e.kind = kind
  BY DEF Enters, NewEntry
<1>2. /\ asked'[p] = asked[p] + 1
      /\ \A x \in Paths : x # p => asked'[x] = asked[x] /\ actual'[x] = actual[x]
      /\ actual'[p] = IF kind = "Modified" THEN actual[p] ELSE kind
  BY <1>0 DEF Enters, Shape, RestShape
<1>3. \A x \in Paths \ T : settled'[x] = settled[x]
  BY DEF Enters
<1>4. Entries(batch)' = Entries(batch)
  BY <1>1 DEF Entries
<1>5. ASSUME NEW x \in Paths \ excused', x # p
      PROVE  QueueTells(x)' /\ BatchTells(x)' /\ (settled'[x] = asked'[x] => shown'[x] = actual'[x])
  <2>0. x \in Paths \ excused /\ x \notin T /\ QueueTells(x) /\ BatchTells(x)
        /\ (settled[x] = asked[x] => shown[x] = actual[x])
    BY <1>1 DEF Tells, EmbyInSync
  <2>1. \A d : d.path = x => (d \in Entries(queue') <=> d \in Entries(queue))
    BY <1>1, <1>5, <2>0
  <2>2. settled'[x] = settled[x] /\ asked'[x] = asked[x] /\ actual'[x] = actual[x]
    BY <1>2, <1>3, <1>5, <2>0
  <2>3. QueueTells(x)'
    <3>1. Entries(queue)' = Entries(queue')
      BY DEF Entries
    <3> QED
      BY <1>1, <2>0, <2>1, <2>2, <3>1 DEF QueueTells, Strong
  <2>4. BatchTells(x)'
    <3>1. Entries(queue)' = Entries(queue')
      BY DEF Entries
    <3> QED
      BY <1>1, <1>4, <2>0, <2>1, <2>2, <3>1 DEF BatchTells, Strong
  <2> QED
    BY <1>1, <2>0, <2>2, <2>3, <2>4
<1>6. ASSUME p \notin excused'
      PROVE  QueueTells(p)' /\ BatchTells(p)' /\ (settled'[p] = asked'[p] => shown'[p] = actual'[p])
  <2>0. p \in Paths \ excused /\ p \notin T /\ QueueTells(p) /\ BatchTells(p)
    BY <1>1, <1>6 DEF Tells
  <2>1. e \in Entries(queue') /\ \A d \in Entries(queue') : d.path = p => d = e
    BY <1>1, <2>0
  <2>2. /\ Strong(e) => e.kind = actual'[p]
        /\ (\E d \in Entries(queue) : d.path = p /\ Strong(d)) => Strong(e)
        /\ ~Strong(e) => shown[p] = actual'[p]
    <3>1. CASE \E d \in Entries(queue) : d.path = p /\ e.kind = Merged(d.kind, kind)
      <4>1. PICK d \in Entries(queue) : d.path = p /\ e.kind = Merged(d.kind, kind)
        BY <3>1
      <4>2. \A c \in Entries(queue) : c.path = p => c = d
        BY <1>f, <4>1, DistinctEntries
      <4>3. (Strong(d) => d.kind = actual[p]) /\ (~Strong(d) => shown[p] = actual[p])
        BY <2>0, <4>1, <4>2 DEF QueueTells
      <4>4. CASE kind = "Modified"
        BY <1>2, <4>1, <4>2, <4>3, <4>4 DEF Merged, Strong
      <4>5. CASE kind # "Modified"
        BY <1>2, <4>1, <4>5 DEF Merged, Strong
      <4> QED
        BY <4>4, <4>5
    <3>2. CASE (\A d \in Entries(queue) : d.path # p) /\ e.kind = kind
      <4>1. shown[p] = actual[p]
        BY <2>0, <3>2 DEF QueueTells
      <4> QED
        BY <1>2, <3>2, <4>1 DEF Strong
    <3> QED
      BY <1>1, <3>1, <3>2
  <2>3. QueueTells(p)'
    <3>1. Entries(queue)' = Entries(queue')
      BY DEF Entries
    <3>2. ASSUME \A d \in Entries(queue') : d.path = p => ~Strong(d)
          PROVE  shown'[p] = actual'[p]
      BY <1>1, <2>1, <2>2, <3>2
    <3>3. \A d \in Entries(queue') : d.path = p /\ Strong(d) => d.kind = actual'[p]
      BY <2>1, <2>2
    <3> QED
      BY <3>1, <3>2, <3>3 DEF QueueTells, Strong
  <2>4. settled[p] <= asked[p] /\ asked[p] \in Nat /\ settled[p] \in Nat
    BY <1>0, <1>f DEF Counted
  <2>5. BatchTells(p)'
    <3> SUFFICES ASSUME NEW b \in Entries(batch), b.path = p
                 PROVE  /\ settled'[p] <= b.upto
                        /\ Strong(b) => \E d \in Entries(queue') : d.path = p /\ Strong(d)
                        /\ b.upto # asked'[p]
      BY <1>4 DEF BatchTells, Entries, Strong
    <3>1. b.upto <= asked[p] /\ b.upto \in Nat
      BY <1>0, <1>f DEF Counted
    <3>2. b.upto # asked'[p]
      BY <1>2, <2>4, <3>1
    <3>3. settled'[p] <= b.upto
      BY <1>3, <2>0 DEF BatchTells
    <3>4. Strong(b) => Strong(e)
      BY <2>0, <2>2 DEF BatchTells
    <3> QED
      BY <1>1, <2>1, <3>2, <3>3, <3>4
  <2>6. settled'[p] # asked'[p]
    BY <1>2, <1>3, <2>0, <2>4
  <2> QED
    BY <2>3, <2>5, <2>6
<1>7. Tells'
  BY <1>5, <1>6 DEF Tells
<1>8. EmbyInSync'
  BY <1>5, <1>6 DEF EmbyInSync
<1> QED
  BY <1>7, <1>8
-----------------------------------------------------------------------------
(* NotifierInitially the queue is empty and nothing has changed.                   *)
LEMMA NotifierInitially == ASSUME BoundsAssumption PROVE Init => Synced
<1> SUFFICES ASSUME Init PROVE Synced
  OBVIOUS
<1>1. /\ queue = <<>> /\ saved = <<>> /\ batch = <<>> /\ sent = 0 /\ pc = "check"
      /\ revision = 0 /\ excused = {}
      /\ \A p \in Paths : asked[p] = 0 /\ settled[p] = 0 /\ shown[p] = actual[p]
  BY DEF Init
<1>2. Entries(queue) = {} /\ Entries(batch) = {} /\ Distinct(queue) /\ Distinct(batch)
  BY <1>1, NoEntries
<1>3. RestShape
  <2>1. 0 \in Changes /\ "Modified" \in Kinds
        /\ retries \in 0..MaxRetries /\ restarts \in 0..MaxRestarts
    BY DEF Init, BoundsAssumption, Changes, Kinds
  <2>2. /\ asked \in [Paths -> Changes] /\ settled \in [Paths -> Changes]
        /\ actual \in [Paths -> Kinds] /\ shown \in [Paths -> Kinds]
    BY <2>1 DEF Init
  <2> QED
    BY <2>1, <2>2 DEF Init, RestShape
<1>4. Shape
  <2>1. Len(<<>>) = 0 /\ <<>> \in Seq(EntryType) /\ <<>> \in Seq(Update)
    OBVIOUS
  <2> QED
    BY <1>1, <1>2, <1>3, <2>1 DEF Shape, QueueShape, BatchShape
<1>5. Counted /\ Matched /\ Told
  BY <1>1, <1>2 DEF Counted, Matched, Told, Done
<1>6. Tells /\ EmbyInSync
  BY <1>1, <1>2 DEF Tells, QueueTells, BatchTells, EmbyInSync
<1> QED
  BY <1>4, <1>5, <1>6 DEF Synced, Durable

(* What a step is, in the terms of the lemmas above.                       *)
LEMMA Cases ==
    ASSUME BoundsAssumption, Durable, Next
    PROVE  \/ \E p \in Paths, kind \in Kinds : \E T, e : Enters(p, kind, T, e)
           \/ \E T : Loses(T, {})
           \/ FlushDisabled /\ \E T : Loses(T, {e.path : e \in T})
           \/ FlushStarts \/ EmbyTakes \/ NextChunk
<1>0. Shape /\ Counted
  BY DEF Durable
<1>1. ASSUME NEW p \in Paths, NEW kind \in Kinds, Enqueue(p, kind)
      PROVE  \E T, e : Enters(p, kind, T, e)
  BY <1>0, <1>1, EnqueueEnters
<1>2. CASE RetryNow \/ \E p \in Paths : BackoffPasses(p)
  BY <1>0, <1>2, DueLoses
<1>3. CASE LoopCheck \/ LoopClear \/ LoopWake \/ WindowPasses \/ Stop \/ StopDone
             \/ Start \/ Crash
  BY <1>0, <1>3, IdleLoses
<1>4. CASE FlushDisabled
  BY <1>0, <1>4, DisabledLoses
<1>5. CASE ChunkAccepted \/ ChunkFails \/ FlushRaises
  BY <1>5, AnswerLoses DEF NextChunk
<1> QED
  BY <1>1, <1>2, <1>3, <1>4, <1>5 DEF Next, Loop, Answer, Time, Life

LEMMA DurableStep ==
    ASSUME BoundsAssumption, Durable, [Next]_vars PROVE Durable'
<1>1. CASE UNCHANGED vars
  BY <1>1 DEF vars, loop, history, bounds, Durable, Shape, QueueShape, BatchShape,
     RestShape, Counted, Matched, Told, Done, ChunkEnd, Entries, Distinct
<1>2. CASE Next
  BY <1>2, Cases, EnqueueDurable, LosesDurable, FlushStartsDurable, TakesDurable,
     NextChunkSteps
<1> QED
  BY <1>1, <1>2

LEMMA SyncedStep ==
    ASSUME BoundsAssumption, Synced, [Next]_vars PROVE Synced'
<1>0. Durable /\ Tells /\ EmbyInSync
  BY DEF Synced
<1>1. Durable'
  BY <1>0, DurableStep
<1>2. CASE UNCHANGED vars
  <2>1. Tells' /\ EmbyInSync'
    BY <1>0, <1>2 DEF vars, loop, history, Tells, QueueTells, BatchTells, Entries,
       Strong, EmbyInSync
  <2> QED
    BY <1>1, <2>1 DEF Synced
<1>3. CASE Next
  <2>1. Tells' /\ EmbyInSync'
    BY <1>0, <1>3, Cases, EnqueueTells, LosesTells, FlushStartsTells, TakesTells,
       NextChunkSteps
  <2> QED
    BY <1>1, <2>1 DEF Synced
<1> QED
  BY <1>2, <1>3

LEMMA OnePlace ==
    ASSUME NEW q, Distinct(q), NEW p PROVE Cardinality(Places(q, p)) <= 1
<1>1. CASE Places(q, p) = {}
  BY <1>1, FS_EmptySet
<1>2. ASSUME NEW i \in Places(q, p) PROVE Places(q, p) = {i}
  BY DEF Places, Distinct
<1> QED
  BY <1>1, <1>2, FS_Singleton

(* The queue holds one entry per path, in memory and on disk alike.        *)
THEOREM NotifierTypeCorrect == ASSUME BoundsAssumption PROVE Spec => []TypeOK
<1>1. Synced => TypeOK
  <2> SUFFICES ASSUME Synced PROVE TypeOK
    OBVIOUS
  <2>1. Shape
    BY DEF Synced, Durable
  <2>2. queue \in Seq(EntryType) /\ saved \in Seq(EntryType) /\ Distinct(queue)
    BY <2>1 DEF Shape, QueueShape
  <2>3. batch \in Seq(Update) /\ sent \in Nat
    BY <2>1, ShapeFacts
  <2>4. \A p \in Paths : Cardinality(Places(queue, p)) <= 1
    BY <2>2, OnePlace
  <2> QED
    BY <2>1, <2>2, <2>3, <2>4 DEF Shape, RestShape, TypeOK
<1> QED
  BY <1>1, NotifierInitially, SyncedStep, PTL DEF Spec

(* Emby that was told of every change of a path knows whether the path was *)
(* last created or deleted: merging, chunks, failures, restarts and the    *)
(* changes that arrive while a batch is posted lose neither.               *)
THEOREM EmbyKnows == ASSUME BoundsAssumption PROVE Spec => []EmbyInSync
<1>1. Synced => EmbyInSync
  BY DEF Synced
<1> QED
  BY <1>1, NotifierInitially, SyncedStep, PTL DEF Spec
-----------------------------------------------------------------------------
(* The refinement, one lemma for each kind of abstract step                *)

OnDisk == {e.path : e \in Entries(queue)}
LEMMA OnDiskQueued == ASSUME QueueShape PROVE Queued(saved) = OnDisk
BY DEF QueueShape, Queued, OnDisk, Entries

LEMMA RefinementGivesUp ==
    ASSUME \E S \in SUBSET Paths, new \in SUBSET Paths :
             /\ S \cap new = {}
             /\ Queued(saved)' = (Queued(saved) \cup new) \ S
             /\ Owing' = (Owing \cup new) \ S
             /\ excused' = excused \cup S
    PROVE  DQ!Next
<1>1. PICK S \in SUBSET Paths, new \in SUBSET Paths :
        /\ S \cap new = {}
        /\ Queued(saved)' = (Queued(saved) \cup new) \ S
        /\ Owing' = (Owing \cup new) \ S
        /\ excused' = excused \cup S
  OBVIOUS
<1>2. {} \in SUBSET Paths /\ DQ!GiveUp(S, new, {})
  BY <1>1 DEF DQ!GiveUp
<1> QED
  BY <1>2 DEF DQ!Next
LEMMA RefinementLeaves ==
    ASSUME \E S \in SUBSET Paths :
             /\ S \cap Owing = {} /\ Queued(saved)' = Queued(saved) \ S
             /\ Owing' = Owing /\ excused' = excused
    PROVE  DQ!Next
  BY DEF DQ!Next, DQ!Leave
LEMMA RefinementSettles ==
    ASSUME \E S \in SUBSET Paths :
             /\ Queued(saved)' = Queued(saved)
             /\ Owing' = Owing \ S /\ excused' = excused
    PROVE  DQ!Next
  BY DEF DQ!Next, DQ!Settle

(* The paths of the queue a step leaves.                                   *)
LEMMA LosesOnDisk ==
    ASSUME Shape, NEW T, NEW G, Loses(T, G)
    PROVE  OnDisk' = OnDisk \ {e.path : e \in T} /\ {e.path : e \in T} \subseteq Paths
<1>0. /\ queue \in Seq(EntryType) /\ Distinct(queue) /\ Entries(queue) \subseteq EntryType
      /\ \A e \in EntryType : e.path \in Paths
  BY ShapeFacts
<1>1. /\ T \subseteq Entries(queue)
      /\ \A e \in Entries(queue') : \E d \in Entries(queue) \ T : d.path = e.path
      /\ \A d \in Entries(queue) \ T : \E e \in Entries(queue') : d.path = e.path
  BY DEF Loses, Less, Names
<1>2. OnDisk' = {e.path : e \in Entries(queue')}
  BY DEF OnDisk, Entries
<1>3. ASSUME NEW e \in Entries(queue') PROVE e.path \in OnDisk \ {d.path : d \in T}
  <2>1. PICK d \in Entries(queue) \ T : d.path = e.path
    BY <1>1
  <2>2. \A c \in T : c.path # d.path
    <3> SUFFICES ASSUME NEW c \in T, c.path = d.path PROVE FALSE
      OBVIOUS
    <3>1. c \in Entries(queue) /\ d \in Entries(queue)
      BY <1>1
    <3>2. c = d
      BY <1>0, <3>1, DistinctEntries
    <3> QED
      BY <3>2
  <2> QED
    BY <2>1, <2>2 DEF OnDisk
<1>4. ASSUME NEW d \in Entries(queue), d.path \notin {c.path : c \in T}
      PROVE  d.path \in {e.path : e \in Entries(queue')}
  BY <1>1, <1>4
<1> QED
  BY <1>0, <1>1, <1>2, <1>3, <1>4 DEF OnDisk

LEMMA StepRefines ==
    ASSUME BoundsAssumption, Durable, [Next]_vars
    PROVE  [DQ!Next]_(DQ!queueVars)
<1> SUFFICES DQ!Next \/ (Queued(saved)' = Queued(saved) /\ Owing' = Owing /\ excused' = excused)
  BY DEF DQ!queueVars
<1>0. Shape /\ Counted /\ QueueShape /\ Durable'
  BY DurableStep DEF Durable, Shape
<1>1. Queued(saved) = OnDisk /\ Queued(saved)' = OnDisk'
  <2>1. Queued(saved) = OnDisk
    BY <1>0, OnDiskQueued
  <2>2. QueueShape'
    BY <1>0 DEF Durable, Shape
  <2>3. Queued(saved)' = OnDisk'
    BY <2>2 DEF QueueShape, Queued, OnDisk, Entries
  <2> QED
    BY <2>1, <2>3
<1>f. /\ Entries(queue) \subseteq EntryType
      /\ \A e \in EntryType : e.path \in Paths
      /\ \A p \in Paths : asked[p] \in Nat /\ settled[p] \in Nat /\ settled[p] <= asked[p]
  BY <1>0, ShapeFacts DEF Counted
<1>2. CASE UNCHANGED vars
  <2>1. OnDisk' = OnDisk /\ Owing' = Owing /\ excused' = excused
    BY <1>2 DEF vars, history, OnDisk, Entries, Owing
  <2> QED
    BY <1>1, <2>1
<1>3. ASSUME NEW p \in Paths, NEW kind \in Kinds, NEW T, NEW e, Enters(p, kind, T, e)
      PROVE  DQ!Next
  <2>1. /\ T \in SUBSET Paths /\ {p} \in SUBSET Paths /\ T \cap {p} = {}
        /\ excused' = excused \cup T
    BY <1>3 DEF Enters
  <2>2. OnDisk' = (OnDisk \cup {p}) \ T
    <3>1. /\ Entries(queue)' = {d \in Entries(queue) : d.path # p /\ d.path \notin T}
                                 \cup (IF p \in T THEN {} ELSE {e})
          /\ e.path = p
      BY <1>3 DEF Enters, NewEntry, Entries
    <3>2. OnDisk' = {d.path : d \in Entries(queue)'}
      BY DEF OnDisk
    <3>3. \A x \in OnDisk' : x \in (OnDisk \cup {p}) \ T
      BY <3>1, <3>2 DEF OnDisk
    <3>4. \A x \in (OnDisk \cup {p}) \ T : x \in OnDisk'
      BY <3>1, <3>2 DEF OnDisk
    <3> QED
      BY <3>3, <3>4
  <2>3. Owing' = (Owing \cup {p}) \ T
    <3>1. asked'[p] = asked[p] + 1 /\ \A x \in Paths : x # p => asked'[x] = asked[x]
      BY <1>0, <1>3 DEF Enters, Shape, RestShape
    <3>2. \A x \in Paths : settled'[x] = IF x \in T THEN asked'[x] ELSE settled[x]
      BY <1>3 DEF Enters
    <3>3. \A x \in Paths : settled'[x] < asked'[x] <=> (x \notin T /\ (x = p \/ settled[x] < asked[x]))
      <4> TAKE x \in Paths
      <4>1. asked'[x] \in Nat /\ asked[x] \in Nat /\ settled[x] \in Nat /\ settled[x] <= asked[x]
        BY <1>f, <3>1
      <4> QED
        BY <3>1, <3>2, <4>1
    <3> QED
      BY <3>3 DEF Owing
  <2> QED
    BY <1>1, <2>1, <2>2, <2>3, RefinementGivesUp
<1>4. ASSUME NEW T, Loses(T, {})
      PROVE  DQ!Next
  <2> DEFINE S == {e.path : e \in T}
  <2>1. OnDisk' = OnDisk \ S /\ S \in SUBSET Paths
    BY <1>0, <1>4, LosesOnDisk
  <2>2. \A p \in Paths : settled'[p] = settled[p] /\ asked'[p] = asked[p]
    BY <1>4 DEF Loses
  <2>3. Owing' = Owing /\ excused' = excused
    BY <1>4, <2>2 DEF Loses, Owing
  <2>4. S \cap Owing = {}
    <3>1. \A e \in T : settled[e.path] = asked[e.path] /\ e.path \in Paths
      BY <1>4, <2>1 DEF Loses
    <3> QED
      BY <1>f, <3>1 DEF Owing
  <2> HIDE DEF S
  <2> QED
    BY <1>1, <2>1, <2>3, <2>4, RefinementLeaves
<1>5. ASSUME NEW T, Loses(T, {e.path : e \in T})
      PROVE  DQ!Next
  <2> DEFINE G == {e.path : e \in T}
  <2>1. OnDisk' = OnDisk \ G /\ G \in SUBSET Paths
    BY <1>0, <1>5, LosesOnDisk
  <2>2. /\ \A p \in Paths : settled'[p] = IF p \in G THEN asked[p] ELSE settled[p]
        /\ asked' = asked /\ excused' = excused \cup G
    BY <1>5 DEF Loses
  <2> HIDE DEF G
  <2>3. Owing' = Owing \ G
    <3>1. \A p \in Paths : settled'[p] < asked'[p] <=> (p \notin G /\ settled[p] < asked[p])
      BY <1>f, <2>2
    <3> QED
      BY <3>1 DEF Owing
  <2>4. /\ OnDisk' = (OnDisk \cup {}) \ G /\ Owing' = (Owing \cup {}) \ G
        /\ {} \in SUBSET Paths /\ G \cap {} = {}
    BY <2>1, <2>3
  <2> QED
    BY <1>1, <2>1, <2>2, <2>4, RefinementGivesUp
<1>6. CASE FlushStarts \/ NextChunk
  <2>1. UNCHANGED <<queue, asked, settled, excused>>
    BY <1>6 DEF FlushStarts, NextChunk, history
  <2>2. OnDisk' = OnDisk /\ Owing' = Owing /\ excused' = excused
    BY <2>1 DEF OnDisk, Entries, Owing
  <2> QED
    BY <1>1, <2>2
<1>7. CASE EmbyTakes
  <2>1. UNCHANGED <<queue, asked, excused>>
    BY <1>7 DEF EmbyTakes
  <2> DEFINE S == {p \in Paths : settled'[p] >= asked[p]}
  <2>2. \A p \in Paths : settled[p] <= settled'[p] /\ settled'[p] \in Nat
    <3>1. /\ \A u \in Chunk : settled'[u.path] =
               IF u.upto > settled[u.path] THEN u.upto ELSE settled[u.path]
          /\ \A p \in Paths : (\A u \in Chunk : u.path # p) => settled'[p] = settled[p]
          /\ Chunk \subseteq Entries(batch)
      BY <1>0, <1>7, TakenFacts
    <3>2. \A u \in Chunk : u.upto \in Nat
      BY <1>0, <3>1, ShapeFacts
    <3> QED
      BY <1>f, <3>1, <3>2
  <2>3. Owing' = Owing \ S
    BY <1>f, <2>1, <2>2 DEF Owing
  <2>4. OnDisk' = OnDisk /\ S \in SUBSET Paths
    BY <2>1 DEF OnDisk, Entries
  <2> HIDE DEF S
  <2> QED
    BY <1>1, <2>1, <2>3, <2>4, RefinementSettles
<1> QED
  BY <1>2, <1>3, <1>4, <1>5, <1>6, <1>7, Cases

(* The notifier is a durable queue: while Emby has not been told of the    *)
(* last change of a path, the path is in the state file, whatever fails,   *)
(* arrives meanwhile or is restarted.                                      *)
THEOREM NotifierIsDurable == ASSUME BoundsAssumption PROVE Spec => ImplementsQueue
<1>1. Init => DQ!Init
  <2> SUFFICES ASSUME Init PROVE DQ!Init
    OBVIOUS
  <2>1. Len(<<>>) = 0
    OBVIOUS
  <2>2. Queued(saved) = {} /\ Owing = {} /\ excused = {}
    BY <2>1 DEF Init, Queued, Owing
  <2> QED
    BY <2>2 DEF DQ!Init
<1>2. Init => Durable
  BY NotifierInitially DEF Synced
<1> QED
  BY <1>1, <1>2, DurableStep, StepRefines, PTL DEF Spec, ImplementsQueue, DQ!Spec
-----------------------------------------------------------------------------
(* The invariants of ResponseCache                                         *)

(* What a request answers from, and whether an edit that has yet to commit *)
(* has dropped a key.                                                      *)
Live == IF backend = "redis" THEN redis ELSE Entries(mem)
Under(k) ==
    /\ writer[Cache!KindOf(k)].pc # "idle"
    /\ k \notin Entries(writer[Cache!KindOf(k)].left)

OneEach(m) == \A i, j \in 1..Len(m) : m[i].key = m[j].key => i = j
ComputingType == [pc : {"computing"}, key : Cache!Keys, why : Cache!Whys]
ReadType == [pc : {"read"}, key : Cache!Keys, why : Cache!Whys, at : 0..MaxTime,
             value : 0..MaxEdits]
ReaderType == {Cache!Idle} \cup ComputingType \cup ReadType
Rests(d) == {SubSeq(d, i, Len(d)) : i \in 1..(Len(d) + 1)}

StoreShape ==
    /\ redis \subseteq Cache!Entry /\ mem \in Seq(Cache!Entry) /\ OneEach(mem)
    /\ \A d, e \in redis : d.key = e.key => d = e
    /\ backend \in {"redis", "memory"} /\ faults \in 0..MaxFaults
ReplacedShape ==
    /\ replaced \in [Concerns -> Seq(0..MaxTime)]
    /\ \A kind \in Concerns : Cache!Version(kind) <= MaxEdits
WriterShape ==
    /\ DOMAIN writer = Concerns /\ writer = [kind \in Concerns |-> writer[kind]]
    /\ \A kind \in Concerns :
         /\ writer[kind] \in [pc : {"idle", "dropping", "dropped"},
                              left : Rests(Drops[kind])]
         /\ writer[kind].pc = "dropped" => writer[kind].left = <<>>
CacheShape ==
    /\ StoreShape /\ ReplacedShape /\ WriterShape
    /\ reader \in [Readers -> ReaderType]
    /\ clock \in 0..MaxTime /\ reboots \in 0..MaxReboots

(* A value that has been replaced is kept for its time to live, counted    *)
(* from when it was computed, which took at most one unit.                 *)
Replacement(x) == replaced[Cache!KindOf(x.key)][x.value + 1]
Known(x) == x.value <= Cache!Version(Cache!KindOf(x.key))
EntryTimely(e) ==
    /\ Known(e) /\ e.until <= clock + Ttl[e.key]
    /\ Cache!Stale(e) => e.until <= Replacement(e) + Ttl[e.key] + 1
ReadTimely(x) ==
    /\ Known(x) /\ x.at <= clock /\ clock <= x.at + 1
    /\ Cache!Stale(x) => x.at <= Replacement(x)
StoresTimely == \A e \in redis \cup Entries(mem) : EntryTimely(e)
ReadersTimely == \A r \in Readers : reader[r].pc = "read" => ReadTimely(reader[r])

(* What is stale, or will be when an edit commits, says so.                *)
StoresMarked == \A e \in Live : Cache!Stale(e) \/ Under(e.key) => e.why # "none"
ReadersMarked ==
    \A r \in Readers : reader[r].pc # "idle" =>
        /\ Under(reader[r].key) => reader[r].why # "none"
        /\ reader[r].pc = "read" /\ Cache!Stale(reader[r]) => reader[r].why # "none"
Timely == CacheShape /\ StoresTimely /\ ReadersTimely
Marked == Timely /\ StoresMarked /\ ReadersMarked

LEMMA CacheKept == ASSUME NEW q, NEW S PROVE Cache!Kept(q, S) = Kept(q, S)
BY Zenon DEF Cache!Kept, Kept
LEMMA CacheToSet ==
    ASSUME NEW X, NEW s \in Seq(X) PROVE Cache!ToSet(s) = Entries(s)
BY DEF Cache!ToSet, Entries
-----------------------------------------------------------------------------
(* The table of the process                                                *)

LEMMA KeptKeys ==
    ASSUME NEW X, NEW m \in Seq(X), OneEach(m), NEW S \in SUBSET (1..Len(m))
    PROVE  OneEach(Kept(m, S))
<1> DEFINE k == Kept(m, S)
<1>1. PICK h \in [1..Len(k) -> S] :
        /\ \A i \in 1..Len(k) : k[i] = m[h[i]]
        /\ \A i, j \in 1..Len(k) : h[i] = h[j] => i = j
  BY KeptOnce
<1> HIDE DEF k
<1>2. ASSUME NEW i \in 1..Len(k), NEW j \in 1..Len(k), k[i].key = k[j].key PROVE i = j
  <2>1. h[i] \in 1..Len(m) /\ h[j] \in 1..Len(m) /\ m[h[i]].key = m[h[j]].key
    BY <1>1, <1>2
  <2>2. h[i] = h[j]
    BY <2>1 DEF OneEach
  <2> QED
    BY <1>1, <2>2
<1> QED
  BY <1>2 DEF OneEach, k

LEMMA TableKept ==
    ASSUME NEW m \in Seq(Cache!Entry), OneEach(m), NEW T \in SUBSET Entries(m)
    PROVE  LET k == Kept(m, {i \in 1..Len(m) : m[i] \in T})
           IN  k \in Seq(Cache!Entry) /\ OneEach(k) /\ Entries(k) = T
<1> DEFINE S == {i \in 1..Len(m) : m[i] \in T}
<1>1. S \in SUBSET (1..Len(m)) /\ {m[i] : i \in S} = T
  BY DEF Entries
<1> HIDE DEF S
<1>2. /\ Kept(m, S) \in Seq(Cache!Entry) /\ Entries(Kept(m, S)) = T
      /\ OneEach(Kept(m, S))
  BY <1>1, KeptEntries, KeptKeys
<1> QED
  BY <1>2 DEF S

LEMMA WithoutKey ==
    ASSUME NEW m \in Seq(Cache!Entry), OneEach(m), NEW k
    PROVE  /\ Cache!Without(m, k) \in Seq(Cache!Entry) /\ OneEach(Cache!Without(m, k))
           /\ Entries(Cache!Without(m, k)) = {e \in Entries(m) : e.key # k}
<1> DEFINE T == {e \in Entries(m) : e.key # k}
<1>1. {i \in 1..Len(m) : m[i] \in T} = {i \in 1..Len(m) : m[i].key # k}
  BY DEF Entries
<1>2. T \in SUBSET Entries(m)
  OBVIOUS
<1>3. LET l == Kept(m, {i \in 1..Len(m) : m[i] \in T})
      IN  l \in Seq(Cache!Entry) /\ OneEach(l) /\ Entries(l) = T
  <2> HIDE DEF T
  <2> QED
    BY <1>2, TableKept
<1> QED
  BY <1>1, <1>3, CacheKept DEF Cache!Without

LEMMA LivingKeys ==
    ASSUME NEW m \in Seq(Cache!Entry), OneEach(m)
    PROVE  /\ Cache!Living(m) \in Seq(Cache!Entry) /\ OneEach(Cache!Living(m))
           /\ Entries(Cache!Living(m)) \subseteq Entries(m)
<1> DEFINE T == {e \in Entries(m) : Cache!Lives(e)}
<1>1. {i \in 1..Len(m) : m[i] \in T} = {i \in 1..Len(m) : Cache!Lives(m[i])}
  BY DEF Entries
<1>2. T \in SUBSET Entries(m)
  OBVIOUS
<1>3. LET l == Kept(m, {i \in 1..Len(m) : m[i] \in T})
      IN  l \in Seq(Cache!Entry) /\ OneEach(l) /\ Entries(l) = T
  <2> HIDE DEF T
  <2> QED
    BY <1>2, TableKept
<1> QED
  BY <1>1, <1>2, <1>3, CacheKept DEF Cache!Living

(* Evicting the least recently used leaves the end of the table.           *)
LEMMA RestOfTable ==
    ASSUME NEW m \in Seq(Cache!Entry), OneEach(m), NEW n \in 0..Len(m)
    PROVE  LET r == SubSeq(m, n + 1, Len(m))
           IN  r \in Seq(Cache!Entry) /\ OneEach(r) /\ Entries(r) \subseteq Entries(m)
<1> DEFINE r == SubSeq(m, n + 1, Len(m))
<1>0. Len(m) \in Nat /\ n \in Nat /\ n <= Len(m)
  OBVIOUS
<1>1. /\ r \in Seq(Cache!Entry) /\ Len(r) = Len(m) - n
      /\ \A i \in 1..Len(r) : r[i] = m[n + i]
  BY <1>0
<1> HIDE DEF r
<1>2. \A i \in 1..Len(r) : n + i \in 1..Len(m) /\ r[i] = m[n + i]
  BY <1>0, <1>1
<1>3. OneEach(r)
  <2> SUFFICES ASSUME NEW i \in 1..Len(r), NEW j \in 1..Len(r), r[i].key = r[j].key
               PROVE  i = j
    BY DEF OneEach
  <2>1. n + i = n + j
    BY <1>2 DEF OneEach
  <2> QED
    BY <1>0, <2>1
<1>4. Entries(r) \subseteq Entries(m)
  BY <1>2 DEF Entries
<1> QED
  BY <1>1, <1>3, <1>4 DEF r

LEMMA EvictedTable ==
    ASSUME NEW m \in Seq(Cache!Entry), OneEach(m), NEW k
    PROVE  /\ Cache!Evict(m, k) \in Seq(Cache!Entry) /\ OneEach(Cache!Evict(m, k))
           /\ Entries(Cache!Evict(m, k)) \subseteq Entries(m)
<1> DEFINE Rest(n) == SubSeq(m, n + 1, Len(m))
           Fits(n) == n = Len(m) \/ (/\ Len(Rest(n)) < MaxEntries
                                     /\ Cache!Bytes(Rest(n)) + Size[k] <= MaxBytes)
           least(n) == Fits(n) /\ \A i \in 0..(n - 1) : ~Fits(i)
           S == {n \in 0..Len(m) : Fits(n)}
<1>0. Len(m) \in Nat
  OBVIOUS
<1>1. Cache!Evict(m, k) = Rest(CHOOSE n \in 0..Len(m) : least(n))
  BY DEF Cache!Evict
<1>2. PICK n \in S : \A i \in S : n <= i
  <2>1. S \in SUBSET Nat /\ Len(m) \in S
    BY <1>0
  <2> HIDE DEF S
  <2> QED
    BY <2>1, LeastElement
<1>3. n \in 0..Len(m) /\ Fits(n)
  OBVIOUS
<1>4. \A i \in 0..(n - 1) : ~Fits(i)
  <2> SUFFICES ASSUME NEW i \in 0..(n - 1), i \in S PROVE FALSE
    <3>1. \A i \in 0..(n - 1) : i \in 0..Len(m)
      BY <1>0, <1>3
    <3> HIDE DEF Fits
    <3> QED
      BY <3>1
  <2>1. n <= i
    BY <1>2
  <2> QED
    BY <1>0, <1>3, <2>1
<1>5. (CHOOSE l \in 0..Len(m) : least(l)) \in 0..Len(m)
  <2>1. least(n)
    BY <1>3, <1>4
  <2> HIDE DEF least
  <2> QED
    BY <1>3, <2>1
<1>6. \A l \in 0..Len(m) : Rest(l) \in Seq(Cache!Entry) /\ OneEach(Rest(l))
                           /\ Entries(Rest(l)) \subseteq Entries(m)
  BY RestOfTable
<1> HIDE DEF least, Rest
<1> QED
  BY <1>1, <1>5, <1>6
(* A hit moves its entry to the end, and removes it if it has expired.     *)
LEMMA TableGet ==
    ASSUME NEW m \in Seq(Cache!Entry), OneEach(m), NEW k
    PROVE  /\ Cache!MemoryGet(m, k) \in Seq(Cache!Entry) /\ OneEach(Cache!MemoryGet(m, k))
           /\ Entries(Cache!MemoryGet(m, k)) \subseteq Entries(m)
<1> DEFINE w == Cache!Without(m, k)
           T == {e \in Entries(m) : e.key = k /\ Cache!Lives(e)}
           l == Kept(m, {i \in 1..Len(m) : m[i].key = k /\ Cache!Lives(m[i])})
           g == w \o l
<1>1. w \in Seq(Cache!Entry) /\ OneEach(w) /\ Entries(w) = {e \in Entries(m) : e.key # k}
  BY WithoutKey
<1>2. l \in Seq(Cache!Entry) /\ OneEach(l) /\ Entries(l) = T
  <2>1. {i \in 1..Len(m) : m[i] \in T} = {i \in 1..Len(m) : m[i].key = k /\ Cache!Lives(m[i])}
    BY DEF Entries
  <2>2. T \in SUBSET Entries(m)
    OBVIOUS
  <2>3. LET x == Kept(m, {i \in 1..Len(m) : m[i] \in T})
        IN  x \in Seq(Cache!Entry) /\ OneEach(x) /\ Entries(x) = T
    <3> HIDE DEF T
    <3> QED
      BY <2>2, TableKept
  <2> QED
    BY <2>1, <2>3
<1>3. Cache!MemoryGet(m, k) = g
  BY CacheKept DEF Cache!MemoryGet
<1> HIDE DEF w, l
<1>4. Len(w) \in Nat /\ Len(l) \in Nat
  BY <1>1, <1>2
<1>5. /\ g \in Seq(Cache!Entry) /\ Len(g) = Len(w) + Len(l)
      /\ \A i \in 1..Len(w) : g[i] = w[i]
      /\ \A i \in 1..(Len(w) + Len(l)) : i > Len(w) => g[i] = l[i - Len(w)]
  BY <1>1, <1>2
<1> HIDE DEF g
<1>6. \A i \in 1..Len(w) : w[i] \in Entries(m) /\ w[i].key # k
  BY <1>1 DEF Entries
<1>7. \A i \in 1..Len(l) : l[i] \in Entries(m) /\ l[i].key = k
  BY <1>2 DEF Entries
<1>8. ASSUME NEW i \in 1..Len(g)
      PROVE  \/ i \in 1..Len(w) /\ g[i] = w[i]
             \/ i - Len(w) \in 1..Len(l) /\ g[i] = l[i - Len(w)]
  BY <1>4, <1>5
<1>9. Entries(g) \subseteq Entries(m)
  <2>1. ASSUME NEW i \in 1..Len(g) PROVE g[i] \in Entries(m)
    <3>1. CASE i \in 1..Len(w) /\ g[i] = w[i]
      BY <1>6, <3>1
    <3>2. CASE i - Len(w) \in 1..Len(l) /\ g[i] = l[i - Len(w)]
      BY <1>7, <3>2
    <3> QED
      BY <1>8, <3>1, <3>2
  <2>2. \A e \in Entries(g) : \E i \in 1..Len(g) : e = g[i]
    BY DEF Entries
  <2> QED
    BY <2>1, <2>2
<1>10. OneEach(g)
  <2> SUFFICES ASSUME NEW i \in 1..Len(g), NEW j \in 1..Len(g), g[i].key = g[j].key
               PROVE  i = j
    BY DEF OneEach
  <2>1. CASE i \in 1..Len(w) /\ g[i] = w[i] /\ j \in 1..Len(w) /\ g[j] = w[j]
    BY <1>1, <2>1 DEF OneEach
  <2>2. CASE /\ i - Len(w) \in 1..Len(l) /\ g[i] = l[i - Len(w)]
             /\ j - Len(w) \in 1..Len(l) /\ g[j] = l[j - Len(w)]
    <3>1. i - Len(w) = j - Len(w)
      BY <1>2, <2>2 DEF OneEach
    <3>2. i \in Nat /\ j \in Nat
      BY <1>5, <1>4
    <3> QED
      BY <1>4, <3>1, <3>2
  <2> QED
    BY <1>6, <1>7, <1>8, <2>1, <2>2
<1> QED
  BY <1>3, <1>5, <1>9, <1>10

LEMMA TableAppend ==
    ASSUME NEW m \in Seq(Cache!Entry), OneEach(m), NEW e \in Cache!Entry,
           \A d \in Entries(m) : d.key # e.key
    PROVE  /\ Append(m, e) \in Seq(Cache!Entry) /\ OneEach(Append(m, e))
           /\ Entries(Append(m, e)) = Entries(m) \cup {e}
<1> DEFINE a == Append(m, e)
<1>1. Len(m) \in Nat
  OBVIOUS
<1>2. /\ a \in Seq(Cache!Entry) /\ Len(a) = Len(m) + 1 /\ a[Len(m) + 1] = e
      /\ \A i \in 1..Len(m) : a[i] = m[i]
  OBVIOUS
<1> HIDE DEF a
<1>3. 1..Len(a) = 1..Len(m) \cup {Len(m) + 1}
  BY <1>1, <1>2
<1>4. \A i \in 1..Len(m) : a[i].key # e.key
  BY <1>2 DEF Entries
<1>5. OneEach(a)
  BY <1>1, <1>2, <1>3, <1>4 DEF OneEach
<1>6. Entries(a) = Entries(m) \cup {e}
  <2>1. \A x \in Entries(a) : x \in Entries(m) \cup {e}
    BY <1>2, <1>3 DEF Entries
  <2>2. \A x \in Entries(m) \cup {e} : x \in Entries(a)
    BY <1>2, <1>3 DEF Entries
  <2> QED
    BY <2>1, <2>2
<1> QED
  BY <1>2, <1>5, <1>6 DEF a

LEMMA TableSet ==
    ASSUME NEW m \in Seq(Cache!Entry), OneEach(m), NEW e \in Cache!Entry
    PROVE  /\ Cache!MemorySet(m, e) \in Seq(Cache!Entry) /\ OneEach(Cache!MemorySet(m, e))
           /\ Entries(Cache!MemorySet(m, e)) \subseteq Entries(m) \cup {e}
<1> DEFINE w == Cache!Without(m, e.key)
           v == Cache!Evict(Cache!Living(w), e.key)
<1>1. w \in Seq(Cache!Entry) /\ OneEach(w) /\ Entries(w) = {d \in Entries(m) : d.key # e.key}
  BY WithoutKey
<1>2. /\ Cache!Living(w) \in Seq(Cache!Entry) /\ OneEach(Cache!Living(w))
      /\ Entries(Cache!Living(w)) \subseteq Entries(w)
  BY <1>1, LivingKeys
<1>3. v \in Seq(Cache!Entry) /\ OneEach(v) /\ Entries(v) \subseteq Entries(w)
  BY <1>2, EvictedTable
<1>4. Cache!MemorySet(m, e) \in {w, Append(v, e)}
  BY DEF Cache!MemorySet
<1> HIDE DEF w, v
<1>5. \A d \in Entries(v) : d.key # e.key
  BY <1>1, <1>3
<1>6. /\ Append(v, e) \in Seq(Cache!Entry) /\ OneEach(Append(v, e))
      /\ Entries(Append(v, e)) = Entries(v) \cup {e}
  BY <1>3, <1>5, TableAppend
<1> QED
  BY <1>1, <1>3, <1>4, <1>6
-----------------------------------------------------------------------------
(* What the steps of the cache do to its stores                            *)

LEMMA KeyFacts ==
    ASSUME Cache!CacheAssumption
    PROVE  /\ \A k \in Cache!Keys : /\ Cache!KindOf(k) \in Concerns
                                    /\ Ttl[k] \in Nat \ {0} /\ Size[k] \in Nat
           /\ \A kind \in Concerns : /\ Drops[kind] \in Seq(Cache!Keys)
                                     /\ \A k \in Entries(Drops[kind]) : Cache!KindOf(k) = kind
           /\ \A k \in Cache!Keys : k \in Entries(Drops[Cache!KindOf(k)])
           /\ {MaxEntries, MaxBytes, MaxTime, MaxEdits, MaxFaults, MaxReboots} \subseteq Nat
<1>0. /\ Drops \in [Concerns -> Seq(Cache!Keys)]
      /\ \A k \in Cache!Keys : \E kind \in Concerns : \A other \in Concerns :
           k \in Cache!ToSet(Drops[other]) <=> other = kind
      /\ Ttl \in [Cache!Keys -> Nat \ {0}] /\ Size \in [Cache!Keys -> Nat]
      /\ {MaxEntries, MaxBytes, MaxTime, MaxEdits, MaxFaults, MaxReboots} \subseteq Nat
  BY DEF Cache!CacheAssumption
<1>1. \A kind \in Concerns : Cache!ToSet(Drops[kind]) = Entries(Drops[kind])
  BY <1>0, CacheToSet
<1>2. \A k \in Cache!Keys : \A kind \in Concerns :
        k \in Entries(Drops[kind]) => Cache!KindOf(k) = kind
  BY <1>0, <1>1 DEF Cache!KindOf
<1>3. ASSUME NEW k \in Cache!Keys
      PROVE  Cache!KindOf(k) \in Concerns /\ k \in Entries(Drops[Cache!KindOf(k)])
  <2>1. PICK kind \in Concerns : k \in Entries(Drops[kind])
    BY <1>0, <1>1
  <2>2. Cache!KindOf(k) = kind
    BY <1>2, <2>1
  <2> QED
    BY <2>1, <2>2
<1>4. \A kind \in Concerns : \A k \in Entries(Drops[kind]) : k \in Cache!Keys
  BY <1>0 DEF Entries
<1> QED
  BY <1>0, <1>2, <1>3, <1>4

LEMMA CacheFacts ==
    ASSUME Cache!CacheAssumption, CacheShape
    PROVE  /\ redis \subseteq Cache!Entry /\ mem \in Seq(Cache!Entry) /\ OneEach(mem)
           /\ Entries(mem) \subseteq Cache!Entry
           /\ Cache!ToSet(mem) = Entries(mem) /\ Live \subseteq redis \cup Entries(mem)
           /\ \A e \in Cache!Entry : /\ e.key \in Cache!Keys /\ e.value \in Nat
                                     /\ e.value <= MaxEdits /\ e.until \in Nat
                                     /\ e.why \in Cache!Whys
           /\ clock \in Nat /\ clock <= MaxTime
           /\ \A kind \in Concerns :
                /\ replaced[kind] \in Seq(0..MaxTime) /\ Cache!Version(kind) \in Nat
                /\ Cache!Version(kind) <= MaxEdits
                /\ writer[kind].left \in Seq(Cache!Keys)
                /\ Cache!ToSet(writer[kind].left) = Entries(writer[kind].left)
<1>1. /\ redis \subseteq Cache!Entry /\ mem \in Seq(Cache!Entry) /\ OneEach(mem)
  BY DEF CacheShape, StoreShape
<1>2. Entries(mem) \subseteq Cache!Entry /\ Cache!ToSet(mem) = Entries(mem)
  BY <1>1, CacheToSet DEF Entries
<1>3. {MaxTime, MaxEdits} \subseteq Nat
  BY KeyFacts
<1>4. \A e \in Cache!Entry : /\ e.key \in Cache!Keys /\ e.value \in Nat
                             /\ e.value <= MaxEdits /\ e.until \in Nat
                             /\ e.why \in Cache!Whys
  BY <1>3 DEF Cache!Entry
<1>5. clock \in Nat /\ clock <= MaxTime
  BY <1>3 DEF CacheShape
<1>6. ASSUME NEW kind \in Concerns
      PROVE  /\ replaced[kind] \in Seq(0..MaxTime) /\ Cache!Version(kind) \in Nat
             /\ Cache!Version(kind) <= MaxEdits
  BY DEF CacheShape, ReplacedShape, Cache!Version
<1>7. ASSUME NEW kind \in Concerns
      PROVE  /\ writer[kind].left \in Seq(Cache!Keys)
             /\ Cache!ToSet(writer[kind].left) = Entries(writer[kind].left)
  <2>1. Drops[kind] \in Seq(Cache!Keys)
    BY KeyFacts
  <2>2. PICK i \in 1..(Len(Drops[kind]) + 1) :
          writer[kind].left = SubSeq(Drops[kind], i, Len(Drops[kind]))
    BY DEF CacheShape, WriterShape, Rests
  <2>3. writer[kind].left \in Seq(Cache!Keys)
    BY <2>1, <2>2
  <2> QED
    BY <2>3, CacheToSet
<1> QED
  BY <1>1, <1>2, <1>4, <1>5, <1>6, <1>7 DEF Live
(* Entries may go, and those in N may be added.                            *)
Updates(N) ==
    /\ StoreShape' /\ redis' \subseteq redis \cup N
    /\ Entries(mem)' \subseteq Entries(mem) \cup N
    /\ Live' \subseteq Live \cup N

LEMMA SameStores ==
    ASSUME CacheShape, UNCHANGED Cache!stores PROVE Updates({})
BY DEF CacheShape, StoreShape, Cache!stores, Updates, Live, Entries, OneEach

(* An operation takes place in one store, or fails and empties the other.  *)
LEMMA OperationUpdates ==
    ASSUME Cache!CacheAssumption, CacheShape,
           NEW onRedis, NEW onMemory, NEW onFresh, NEW N \in SUBSET Cache!Entry,
           Cache!Operates(onRedis, onMemory, onFresh),
           onRedis \subseteq redis \cup N, \A d, e \in onRedis : d.key = e.key => d = e,
           onMemory \in Seq(Cache!Entry), OneEach(onMemory),
           Entries(onMemory) \subseteq Entries(mem) \cup N,
           onFresh \in Seq(Cache!Entry), OneEach(onFresh), Entries(onFresh) \subseteq N
    PROVE  /\ Updates(N)
           /\ Live' \subseteq onRedis \/ Live' \subseteq Entries(onMemory)
                \/ Live' \subseteq Entries(onFresh)
<1>0. /\ redis \subseteq Cache!Entry /\ mem \in Seq(Cache!Entry) /\ OneEach(mem)
      /\ \A d, e \in redis : d.key = e.key => d = e
      /\ backend \in {"redis", "memory"} /\ faults \in 0..MaxFaults /\ MaxFaults \in Nat
  BY KeyFacts DEF CacheShape, StoreShape
<1>1. CASE backend = "redis" /\ redis' = onRedis /\ UNCHANGED <<mem, backend, faults>>
  BY <1>0, <1>1 DEF Updates, StoreShape, Live, Entries, OneEach
<1>2. CASE backend = "memory" /\ mem' = onMemory /\ UNCHANGED <<redis, backend, faults>>
  BY <1>0, <1>2 DEF Updates, StoreShape, Live, Entries, OneEach
<1>3. CASE Cache!Fails(onRedis, onFresh)
  <2>1. /\ backend = "redis" /\ redis' \in {redis, onRedis}
        /\ mem' = onFresh /\ backend' = "memory" /\ faults' \in 0..MaxFaults
    BY <1>0, <1>3 DEF Cache!Fails
  <2>2. Live' = Entries(onFresh) /\ Entries(mem)' = Entries(onFresh)
    BY <2>1 DEF Live, Entries
  <2>3. StoreShape'
    BY <1>0, <2>1 DEF StoreShape, OneEach
  <2> QED
    BY <2>1, <2>2, <2>3 DEF Updates
<1> QED
  BY <1>1, <1>2, <1>3 DEF Cache!Operates

LEMMA EmptyTable ==
    <<>> \in Seq(Cache!Entry) /\ OneEach(<<>>) /\ Entries(<<>>) = {}
BY DEF OneEach, Entries

LEMMA LookUpdates ==
    ASSUME Cache!CacheAssumption, CacheShape, NEW k,
           \/ Cache!Missed(k) \/ UNCHANGED Cache!stores
           \/ mem' = Cache!MemoryGet(mem, k) /\ backend = "memory"
                /\ UNCHANGED <<redis, backend, faults>>
    PROVE  Updates({})
<1>0. /\ redis \subseteq Cache!Entry /\ mem \in Seq(Cache!Entry) /\ OneEach(mem)
      /\ \A d, e \in redis : d.key = e.key => d = e
      /\ {} \in SUBSET Cache!Entry
  BY DEF CacheShape, StoreShape
<1> DEFINE g == Cache!MemoryGet(mem, k)
<1>1. g \in Seq(Cache!Entry) /\ OneEach(g) /\ Entries(g) \subseteq Entries(mem)
  BY <1>0, TableGet
<1> HIDE DEF g
<1>2. \A onMemory : Cache!Operates(redis, onMemory, <<>>) /\ onMemory \in Seq(Cache!Entry)
        /\ OneEach(onMemory) /\ Entries(onMemory) \subseteq Entries(mem) => Updates({})
  <2> TAKE onMemory
  <2> HAVE Cache!Operates(redis, onMemory, <<>>) /\ onMemory \in Seq(Cache!Entry)
        /\ OneEach(onMemory) /\ Entries(onMemory) \subseteq Entries(mem)
  <2>1. redis \subseteq redis \cup {} /\ Entries(onMemory) \subseteq Entries(mem) \cup {}
        /\ Entries(<<>>) \subseteq {}
    BY EmptyTable
  <2> QED
    BY <1>0, <2>1, EmptyTable, OperationUpdates
<1>3. CASE UNCHANGED Cache!stores
  BY <1>3, SameStores
<1>4. CASE Cache!Operates(redis, g, <<>>)
  BY <1>1, <1>2, <1>4
<1>5. CASE Cache!Fails(redis, <<>>)
  <2>1. Cache!Operates(redis, mem, <<>>)
    BY <1>5 DEF Cache!Operates
  <2> QED
    BY <1>0, <1>2, <2>1
<1>6. CASE mem' = g /\ backend = "memory" /\ UNCHANGED <<redis, backend, faults>>
  <2>1. Cache!Operates(redis, g, <<>>)
    BY <1>6 DEF Cache!Operates
  <2> QED
    BY <1>4, <2>1
<1> QED
  BY <1>3, <1>4, <1>5, <1>6 DEF Cache!Missed, g

LEMMA StoreUpdates ==
    ASSUME Cache!CacheAssumption, CacheShape, NEW e \in Cache!Entry,
           Cache!Operates({d \in redis : d.key # e.key} \cup {e}, Cache!MemorySet(mem, e),
                          Cache!MemorySet(<<>>, e))
    PROVE  Updates({e})
<1> DEFINE onRedis == {d \in redis : d.key # e.key} \cup {e}
           onMemory == Cache!MemorySet(mem, e)
           onFresh == Cache!MemorySet(<<>>, e)
<1>1. mem \in Seq(Cache!Entry) /\ OneEach(mem) /\ \A d, x \in redis : d.key = x.key => d = x
  BY DEF CacheShape, StoreShape
<1>2. /\ onMemory \in Seq(Cache!Entry) /\ OneEach(onMemory)
      /\ Entries(onMemory) \subseteq Entries(mem) \cup {e}
  BY <1>1, TableSet
<1>3. /\ onFresh \in Seq(Cache!Entry) /\ OneEach(onFresh)
      /\ Entries(onFresh) \subseteq {e}
  BY EmptyTable, TableSet
<1>4. onRedis \subseteq redis \cup {e} /\ \A d, x \in onRedis : d.key = x.key => d = x
  BY <1>1
<1>5. {e} \in SUBSET Cache!Entry /\ Cache!Operates(onRedis, onMemory, onFresh)
  OBVIOUS
<1> HIDE DEF onRedis, onMemory, onFresh
<1> QED
  BY <1>2, <1>3, <1>4, <1>5, OperationUpdates

LEMMA DropUpdates ==
    ASSUME Cache!CacheAssumption, CacheShape, NEW k,
           Cache!Operates({e \in redis : e.key # k}, Cache!Without(mem, k), <<>>)
    PROVE  Updates({}) /\ \A e \in Live' : e.key # k
<1> DEFINE onRedis == {e \in redis : e.key # k}
           onMemory == Cache!Without(mem, k)
<1>1. mem \in Seq(Cache!Entry) /\ OneEach(mem) /\ \A d, x \in redis : d.key = x.key => d = x
  BY DEF CacheShape, StoreShape
<1>2. /\ onMemory \in Seq(Cache!Entry) /\ OneEach(onMemory)
      /\ Entries(onMemory) = {e \in Entries(mem) : e.key # k}
  BY <1>1, WithoutKey
<1>3. onRedis \subseteq redis \cup {} /\ \A d, x \in onRedis : d.key = x.key => d = x
  BY <1>1
<1>4. {} \in SUBSET Cache!Entry /\ Cache!Operates(onRedis, onMemory, <<>>)
      /\ \A e \in onRedis : e.key # k
  OBVIOUS
<1> HIDE DEF onRedis, onMemory
<1>5. Entries(onMemory) \subseteq Entries(mem) \cup {} /\ Entries(<<>>) \subseteq {}
  BY <1>2, EmptyTable
<1>6. /\ Updates({})
      /\ Live' \subseteq onRedis \/ Live' \subseteq Entries(onMemory) \/ Live' \subseteq Entries(<<>>)
  BY <1>2, <1>3, <1>4, <1>5, EmptyTable, OperationUpdates
<1> QED
  BY <1>2, <1>4, <1>5, <1>6
-----------------------------------------------------------------------------
(* Commits, readers and writers                                            *)

SameOrCommitted ==
    \/ UNCHANGED replaced
    \/ \E kind \in Concerns : /\ Cache!Version(kind) < MaxEdits
                              /\ replaced' = Cache!Committed(kind)

LEMMA CommitFacts ==
    ASSUME Cache!CacheAssumption, CacheShape, NEW kind \in Concerns,
           Cache!Version(kind) < MaxEdits, replaced' = Cache!Committed(kind)
    PROVE  /\ ReplacedShape'
           /\ Cache!Version(kind)' = Cache!Version(kind) + 1
           /\ \A i \in 1..Cache!Version(kind) : replaced'[kind][i] = replaced[kind][i]
           /\ replaced'[kind][Cache!Version(kind) + 1] = clock
           /\ \A other \in Concerns : other # kind => replaced'[other] = replaced[other]
<1>1. /\ replaced \in [Concerns -> Seq(0..MaxTime)] /\ clock \in 0..MaxTime
      /\ Len(replaced[kind]) \in Nat /\ MaxEdits \in Nat
      /\ \A other \in Concerns : Len(replaced[other]) <= MaxEdits
  BY KeyFacts DEF CacheShape, ReplacedShape, Cache!Version
<1>2. /\ replaced'[kind] = Append(replaced[kind], clock)
      /\ \A other \in Concerns : other # kind => replaced'[other] = replaced[other]
      /\ DOMAIN replaced' = Concerns /\ replaced' = [x \in Concerns |-> replaced'[x]]
  BY <1>1 DEF Cache!Committed
<1>3. /\ replaced'[kind] \in Seq(0..MaxTime)
      /\ Len(replaced'[kind]) = Len(replaced[kind]) + 1
      /\ \A i \in 1..Len(replaced[kind]) : replaced'[kind][i] = replaced[kind][i]
      /\ replaced'[kind][Len(replaced[kind]) + 1] = clock
  BY <1>1, <1>2
<1>4. Len(replaced'[kind]) <= MaxEdits
  BY <1>1, <1>3 DEF Cache!Version
<1>5. ReplacedShape'
  <2>1. \A x \in Concerns : replaced'[x] \in Seq(0..MaxTime) /\ Len(replaced'[x]) <= MaxEdits
    BY <1>1, <1>2, <1>3, <1>4
  <2>2. replaced' \in [Concerns -> Seq(0..MaxTime)]
    BY <1>2, <2>1
  <2> QED
    BY <2>1, <2>2 DEF ReplacedShape, Cache!Version
<1> QED
  BY <1>2, <1>3, <1>5 DEF Cache!Version

LEMMA SameReplaced ==
    ASSUME replaced' = replaced, NEW x
    PROVE  /\ Known(x)' = Known(x) /\ Cache!Stale(x)' = Cache!Stale(x)
           /\ Replacement(x)' = Replacement(x)
BY DEF Known, Cache!Stale, Replacement, Cache!Version

(* A value gets stale when its kind is committed.                          *)
LEMMA GetsStale ==
    ASSUME Cache!CacheAssumption, CacheShape, SameOrCommitted,
           NEW x, x.key \in Cache!Keys, x.value \in Nat, Known(x)
    PROVE  /\ Known(x)'
           /\ Cache!Stale(x) => Cache!Stale(x)' /\ Replacement(x)' = Replacement(x)
           /\ ~Cache!Stale(x) /\ Cache!Stale(x)' =>
                Replacement(x)' = clock /\ replaced' = Cache!Committed(Cache!KindOf(x.key))
           /\ ReplacedShape'
<1> DEFINE own == Cache!KindOf(x.key)
           v == Cache!Version(own)
<1>1. own \in Concerns /\ v \in Nat /\ x.value <= v
  BY KeyFacts, CacheFacts DEF Known
<1>2. CASE UNCHANGED replaced
  <2>1. ReplacedShape'
    BY <1>2 DEF CacheShape, ReplacedShape, Cache!Version
  <2> QED
    BY <1>2, <2>1, SameReplaced
<1>3. ASSUME NEW kind \in Concerns, Cache!Version(kind) < MaxEdits,
             replaced' = Cache!Committed(kind), kind # own
      PROVE  /\ Known(x)' = Known(x) /\ Cache!Stale(x)' = Cache!Stale(x)
             /\ Replacement(x)' = Replacement(x) /\ ReplacedShape'
  <2>1. replaced'[own] = replaced[own] /\ ReplacedShape'
    BY <1>1, <1>3, CommitFacts
  <2> QED
    BY <2>1 DEF Known, Cache!Stale, Replacement, Cache!Version
<1>4. ASSUME Cache!Version(own) < MaxEdits, replaced' = Cache!Committed(own)
      PROVE  /\ Known(x)' /\ Cache!Stale(x)' /\ ReplacedShape'
             /\ Replacement(x)' = IF Cache!Stale(x) THEN Replacement(x) ELSE clock
  <2>1. /\ ReplacedShape' /\ Cache!Version(own)' = v + 1
        /\ \A i \in 1..v : replaced'[own][i] = replaced[own][i]
        /\ replaced'[own][v + 1] = clock
    BY <1>1, <1>4, CommitFacts
  <2>2. Known(x)' /\ Cache!Stale(x)'
    <3>1. x.value <= v + 1 /\ x.value # v + 1
      BY <1>1
    <3> QED
      BY <2>1, <3>1 DEF Known, Cache!Stale
  <2>3. Replacement(x)' = replaced'[own][x.value + 1]
    BY DEF Replacement
  <2>4. CASE Cache!Stale(x)
    <3>1. x.value + 1 \in 1..v
      BY <1>1, <2>4 DEF Cache!Stale
    <3> QED
      BY <2>1, <2>2, <2>3, <2>4, <3>1 DEF Replacement
  <2>5. CASE ~Cache!Stale(x)
    <3>1. x.value = v
      BY <2>5 DEF Cache!Stale
    <3> QED
      BY <2>1, <2>2, <2>3, <2>5, <3>1
  <2> QED
    BY <2>4, <2>5
<1> QED
  BY <1>2, <1>3, <1>4 DEF SameOrCommitted

LEMMA ReaderFacts ==
    ASSUME Cache!CacheAssumption, NEW x \in ReaderType
    PROVE  /\ x.pc \in {"idle", "computing", "read"}
           /\ x.pc # "idle" =>
                /\ x.key \in Cache!Keys /\ x.why \in Cache!Whys
                /\ \A w \in Cache!Whys :
                     /\ [x EXCEPT !.why = w] \in ReaderType
                     /\ [x EXCEPT !.why = w].pc = x.pc
                     /\ [x EXCEPT !.why = w].key = x.key
                     /\ [x EXCEPT !.why = w].why = w
           /\ x.pc = "read" =>
                /\ x.value \in Nat /\ x.value <= MaxEdits
                /\ x.at \in Nat /\ x.at <= MaxTime
                /\ \A w \in Cache!Whys : /\ [x EXCEPT !.why = w].value = x.value
                                         /\ [x EXCEPT !.why = w].at = x.at
<1>0. MaxTime \in Nat /\ MaxEdits \in Nat
  BY KeyFacts
<1>1. CASE x = Cache!Idle
  BY <1>1 DEF Cache!Idle
<1>2. CASE x \in ComputingType
  BY <1>2 DEF ComputingType, ReaderType
<1>3. CASE x \in ReadType
  BY <1>0, <1>3 DEF ReadType, ReaderType
<1> QED
  BY <1>1, <1>2, <1>3 DEF ReaderType
LEMMA StoresCarry ==
    ASSUME Cache!CacheAssumption, Timely, SameOrCommitted, clock' = clock,
           \A e \in redis' \cup Entries(mem') : \E d \in redis \cup Entries(mem) :
             e.key = d.key /\ e.value = d.value /\ e.until = d.until
    PROVE  StoresTimely'
<1>0. CacheShape /\ \A e \in redis \cup Entries(mem) : EntryTimely(e)
  BY DEF Timely, StoresTimely
<1> SUFFICES ASSUME NEW e \in redis' \cup Entries(mem') PROVE EntryTimely(e)'
  BY DEF StoresTimely, Entries
<1>1. PICK d \in redis \cup Entries(mem) :
        e.key = d.key /\ e.value = d.value /\ e.until = d.until
  OBVIOUS
<1>2. /\ d.key \in Cache!Keys /\ d.value \in Nat /\ d.until \in Nat /\ clock \in Nat
      /\ Ttl[d.key] \in Nat /\ EntryTimely(d)
  BY <1>0, CacheFacts, KeyFacts
<1>3. /\ Known(d)'
      /\ Cache!Stale(d) => Cache!Stale(d)' /\ Replacement(d)' = Replacement(d)
      /\ ~Cache!Stale(d) /\ Cache!Stale(d)' => Replacement(d)' = clock
  BY <1>0, <1>2, GetsStale DEF EntryTimely
<1>4. /\ Known(e)' = Known(d)' /\ Cache!Stale(e)' = Cache!Stale(d)'
      /\ Replacement(e)' = Replacement(d)'
  BY <1>1 DEF Known, Cache!Stale, Replacement, Cache!Version
<1>5. Cache!Stale(d)' => e.until <= Replacement(d)' + Ttl[d.key] + 1
  <2>1. CASE Cache!Stale(d)
    BY <1>1, <1>2, <1>3, <2>1 DEF EntryTimely
  <2>2. CASE ~Cache!Stale(d)
    BY <1>1, <1>2, <1>3, <2>2 DEF EntryTimely
  <2> QED
    BY <2>1, <2>2
<1> QED
  BY <1>1, <1>2, <1>3, <1>4, <1>5 DEF EntryTimely

(* Readers that have read their value keep it.                             *)
Carries ==
    /\ reader' \in [Readers -> ReaderType]
    /\ \A r \in Readers : reader'[r].pc = "read" =>
         /\ reader[r].pc = "read" /\ reader'[r].key = reader[r].key
         /\ reader'[r].value = reader[r].value /\ reader'[r].at = reader[r].at
LEMMA ReadersCarry ==
    ASSUME Cache!CacheAssumption, Timely, SameOrCommitted, clock' = clock, Carries
    PROVE  ReadersTimely'
<1>0. CacheShape /\ reader \in [Readers -> ReaderType]
  BY DEF Timely, CacheShape
<1> SUFFICES ASSUME NEW r \in Readers, reader'[r].pc = "read" PROVE ReadTimely(reader[r])'
  BY DEF ReadersTimely
<1>1. PICK d \in ReaderType : d = reader[r]
  BY <1>0
<1>2. PICK e \in ReaderType : e = reader'[r]
  BY DEF Carries
<1>3. /\ d.pc = "read" /\ e.pc = "read"
      /\ e.key = d.key /\ e.value = d.value /\ e.at = d.at
  BY <1>1, <1>2 DEF Carries
<1>4. ReadTimely(d)
  BY <1>1, <1>3 DEF Timely, ReadersTimely
<1>5. d.key \in Cache!Keys /\ d.value \in Nat /\ d.at \in Nat /\ clock \in Nat
  BY <1>0, <1>3, ReaderFacts, CacheFacts
<1>6. /\ Known(d)'
      /\ Cache!Stale(d) => Cache!Stale(d)' /\ Replacement(d)' = Replacement(d)
      /\ ~Cache!Stale(d) /\ Cache!Stale(d)' => Replacement(d)' = clock
  BY <1>0, <1>4, <1>5, GetsStale DEF ReadTimely
<1>7. Cache!Stale(d)' => d.at <= Replacement(d)'
  <2>1. CASE Cache!Stale(d)
    BY <1>4, <1>6, <2>1 DEF ReadTimely
  <2>2. CASE ~Cache!Stale(d)
    BY <1>4, <1>6, <2>2 DEF ReadTimely
  <2> QED
    BY <2>1, <2>2
<1>8. ReadTimely(d)'
  BY <1>4, <1>6, <1>7 DEF ReadTimely
<1>9. ReadTimely(e)' = ReadTimely(d)'
  BY <1>3 DEF ReadTimely, Known, Cache!Stale, Replacement, Cache!Version
<1> QED
  BY <1>2, <1>8, <1>9 DEF ReadTimely, Known, Cache!Stale, Replacement, Cache!Version

(* Where the readers and the writers stand.                                *)
LEMMA StartedDrop ==
    ASSUME Cache!CacheAssumption, NEW kind \in Concerns
    PROVE  Drops[kind] \in Rests(Drops[kind]) /\ <<>> \in Rests(Drops[kind])
<1> DEFINE d == Drops[kind]
<1>0. d \in Seq(Cache!Keys)
  BY KeyFacts
<1> HIDE DEF d
<1>1. Len(d) \in Nat /\ SubSeq(d, 1, Len(d)) = d
  BY <1>0, SubSeqFull
<1>2. SubSeq(d, Len(d) + 1, Len(d)) = <<>>
  BY <1>1, SubSeqEmpty
<1>3. 1 \in 1..(Len(d) + 1) /\ Len(d) + 1 \in 1..(Len(d) + 1)
  BY <1>1
<1>4. d \in Rests(d) /\ <<>> \in Rests(d)
  BY <1>1, <1>2, <1>3 DEF Rests
<1> QED
  BY <1>4 DEF d

LEMMA RestOfDrop ==
    ASSUME NEW X, NEW d \in Seq(X), NEW left \in Rests(d), left # <<>>
    PROVE  Tail(left) \in Rests(d)
<1>1. PICK i \in 1..(Len(d) + 1) : left = SubSeq(d, i, Len(d))
  BY DEF Rests
<1>2. Len(d) \in Nat
  OBVIOUS
<1>3. i # Len(d) + 1
  <2>1. SubSeq(d, Len(d) + 1, Len(d)) = <<>>
    BY <1>2, SubSeqEmpty
  <2> QED
    BY <1>1, <2>1
<1>4. i \in 1..Len(d) /\ Len(d) \in i..Len(d) /\ i + 1 \in 1..(Len(d) + 1)
  BY <1>2, <1>3
<1>5. Tail(left) = SubSeq(d, i + 1, Len(d))
  BY <1>1, <1>4, HeadTailOfSubSeq
<1> QED
  BY <1>4, <1>5 DEF Rests
-----------------------------------------------------------------------------
(* No step loses count of the time                                         *)

StoresRemain ==
    /\ StoreShape'
    /\ \A e \in redis' \cup Entries(mem') : \E d \in redis \cup Entries(mem) :
         e.key = d.key /\ e.value = d.value /\ e.until = d.until

LEMMA UpdatesRemain == ASSUME Updates({}) PROVE StoresRemain
BY DEF Updates, StoresRemain, Entries

LEMMA CommitShape ==
    ASSUME Cache!CacheAssumption, CacheShape, SameOrCommitted PROVE ReplacedShape'
<1>1. CASE UNCHANGED replaced
  BY <1>1 DEF CacheShape, ReplacedShape, Cache!Version
<1> QED
  BY <1>1, CommitFacts DEF SameOrCommitted

LEMMA SameWriters == ASSUME CacheShape, writer' = writer PROVE WriterShape'
BY DEF CacheShape, WriterShape

LEMMA TimelyRemains ==
    ASSUME Cache!CacheAssumption, Timely, SameOrCommitted, clock' = clock,
           reboots' \in 0..MaxReboots, StoresRemain, Carries, WriterShape'
    PROVE  Timely'
<1>1. StoresTimely'
  BY StoresCarry DEF StoresRemain
<1>2. ReadersTimely'
  BY ReadersCarry
<1>3. CacheShape'
  BY CommitShape DEF Timely, CacheShape, StoresRemain, Carries
<1> QED
  BY <1>1, <1>2, <1>3 DEF Timely

LEMMA SameReaders ==
    ASSUME CacheShape, reader' = reader PROVE Carries
BY DEF CacheShape, Carries

(* One reader goes elsewhere than to its value.                            *)
LEMMA OneReader ==
    ASSUME CacheShape, NEW r \in Readers, NEW x \in ReaderType, x.pc # "read",
           reader' = [reader EXCEPT ![r] = x]
    PROVE  Carries
<1>1. reader \in [Readers -> ReaderType]
  BY DEF CacheShape
<1>2. \A s \in Readers : reader'[s] = IF s = r THEN x ELSE reader[s]
  BY <1>1
<1> QED
  BY <1>1, <1>2 DEF Carries

LEMMA IdleType ==
    /\ Cache!Idle \in ReaderType /\ Cache!Idle.pc = "idle"
    /\ \A k \in Cache!Keys, why \in Cache!Whys :
         /\ Cache!Computing(k, why) \in ReaderType
         /\ Cache!Computing(k, why).pc = "computing"
         /\ Cache!Computing(k, why).key = k /\ Cache!Computing(k, why).why = why
BY DEF Cache!Idle, Cache!Computing, ReaderType, ComputingType

LEMMA HitTimely ==
    ASSUME Cache!CacheAssumption, Timely, NEW r \in Readers, NEW k \in Cache!Keys,
           Cache!Hit(r, k)
    PROVE  Timely' /\ Updates({})
<1>1. CacheShape
  BY DEF Timely
<1>2. /\ mem' = Cache!MemoryGet(mem, k) /\ backend = "memory"
      /\ UNCHANGED <<replaced, redis, backend, reader, writer, clock, faults, reboots>>
  BY DEF Cache!Hit
<1>3. Updates({})
  BY <1>1, <1>2, LookUpdates
<1>4. SameOrCommitted /\ clock' = clock /\ reboots' \in 0..MaxReboots
  BY <1>1, <1>2 DEF SameOrCommitted, CacheShape
<1>5. Carries /\ WriterShape' /\ StoresRemain
  BY <1>1, <1>2, <1>3, SameReaders, SameWriters, UpdatesRemain
<1> QED
  BY <1>3, <1>4, <1>5, TimelyRemains

LEMMA BeginSteps ==
    ASSUME Cache!CacheAssumption, CacheShape, NEW r \in Readers, NEW k \in Cache!Keys,
           Cache!Begin(r, k)
    PROVE  /\ Updates({})
           /\ UNCHANGED <<replaced, writer, clock, reboots>>
           /\ reader' = [reader EXCEPT
                 ![r] = Cache!Computing(k, IF Under(k) THEN "early" ELSE "none")]
<1>1. Updates({})
  <2>1. Cache!Missed(k) \/ UNCHANGED Cache!stores
    BY DEF Cache!Begin
  <2> QED
    BY <2>1, LookUpdates
<1>2. Cache!ToSet(writer[Cache!KindOf(k)].left) = Entries(writer[Cache!KindOf(k)].left)
  BY KeyFacts, CacheFacts
<1> QED
  BY <1>1, <1>2 DEF Cache!Begin, Under

LEMMA BeginTimely ==
    ASSUME Cache!CacheAssumption, Timely, NEW r \in Readers, NEW k \in Cache!Keys,
           Cache!Begin(r, k)
    PROVE  Timely'
<1>1. CacheShape
  BY DEF Timely
<1> DEFINE why == IF Under(k) THEN "early" ELSE "none"
<1>2. why \in Cache!Whys
  BY DEF Cache!Whys
<1>3. /\ Updates({}) /\ UNCHANGED <<replaced, writer, clock, reboots>>
      /\ reader' = [reader EXCEPT ![r] = Cache!Computing(k, why)]
  BY <1>1, BeginSteps
<1> HIDE DEF why
<1>4. Carries
  BY <1>1, <1>2, <1>3, IdleType, OneReader
<1>5. SameOrCommitted /\ clock' = clock /\ reboots' \in 0..MaxReboots
  BY <1>1, <1>3 DEF SameOrCommitted, CacheShape
<1>6. WriterShape' /\ StoresRemain
  BY <1>1, <1>3, SameWriters, UpdatesRemain
<1> QED
  BY <1>4, <1>5, <1>6, TimelyRemains
LEMMA ReadSteps ==
    ASSUME Cache!CacheAssumption, CacheShape, NEW r \in Readers, Cache!Read(r)
    PROVE  /\ UNCHANGED <<replaced, Cache!stores, writer, clock, reboots>>
           /\ reader[r].pc = "computing" /\ reader' \in [Readers -> ReaderType]
           /\ \A s \in Readers : s # r => reader'[s] = reader[s]
           /\ reader'[r].pc = "read" /\ reader'[r].key = reader[r].key
           /\ reader'[r].why = reader[r].why /\ reader'[r].at = clock
           /\ reader'[r].value = Cache!Version(Cache!KindOf(reader[r].key))
<1>1. reader \in [Readers -> ReaderType] /\ reader[r].pc = "computing" /\ clock \in 0..MaxTime
  BY DEF CacheShape, Cache!Read
<1> DEFINE k == reader[r].key
           x == [pc |-> "read", key |-> k, why |-> reader[r].why, at |-> clock,
                 value |-> Cache!Version(Cache!KindOf(k))]
<1>2. k \in Cache!Keys /\ reader[r].why \in Cache!Whys
  BY <1>1, ReaderFacts
<1>3. Cache!Version(Cache!KindOf(k)) \in 0..MaxEdits
  <2>1. Cache!Version(Cache!KindOf(k)) \in Nat /\ Cache!Version(Cache!KindOf(k)) <= MaxEdits
    BY <1>2, KeyFacts, CacheFacts
  <2>2. MaxEdits \in Nat
    BY KeyFacts
  <2> QED
    BY <2>1, <2>2
<1>4. x \in ReaderType
  BY <1>1, <1>2, <1>3 DEF ReaderType, ReadType
<1>5. reader' = [reader EXCEPT ![r] = x]
  BY DEF Cache!Read
<1>6. \A s \in Readers : reader'[s] = IF s = r THEN x ELSE reader[s]
  BY <1>1, <1>5
<1>7. reader' \in [Readers -> ReaderType]
  BY <1>1, <1>4, <1>5
<1>8. UNCHANGED <<replaced, Cache!stores, writer, clock, reboots>>
  BY DEF Cache!Read
<1> QED
  BY <1>1, <1>6, <1>7, <1>8

LEMMA ReadIsTimely ==
    ASSUME Cache!CacheAssumption, Timely, NEW r \in Readers, Cache!Read(r)
    PROVE  Timely'
<1>1. CacheShape
  BY DEF Timely
<1>2. /\ UNCHANGED <<replaced, Cache!stores, writer, clock, reboots>>
      /\ reader[r].pc = "computing" /\ reader' \in [Readers -> ReaderType]
      /\ \A s \in Readers : s # r => reader'[s] = reader[s]
      /\ reader'[r].pc = "read" /\ reader'[r].key = reader[r].key
      /\ reader'[r].at = clock
      /\ reader'[r].value = Cache!Version(Cache!KindOf(reader[r].key))
  BY <1>1, ReadSteps
<1>3. Updates({}) /\ StoresRemain /\ SameOrCommitted
  BY <1>1, <1>2, SameStores, UpdatesRemain DEF SameOrCommitted
<1>4. StoresTimely'
  BY <1>2, <1>3, StoresCarry DEF StoresRemain
<1>5. CacheShape'
  BY <1>1, <1>2, <1>3, SameWriters, CommitShape DEF CacheShape, StoresRemain
<1>6. ASSUME NEW s \in Readers, reader'[s].pc = "read" PROVE ReadTimely(reader[s])'
  <2>1. CASE s = r
    <3>1. Cache!Version(Cache!KindOf(reader[r].key)) \in Nat /\ clock \in Nat
      <4>1. reader[r] \in ReaderType /\ reader[r].pc # "idle"
        BY <1>1, <1>2 DEF CacheShape
      <4> QED
        BY <1>1, <4>1, ReaderFacts, KeyFacts, CacheFacts
    <3> QED
      BY <1>2, <2>1, <3>1 DEF ReadTimely, Known, Cache!Stale, Cache!Version
  <2>2. CASE s # r
    <3>1. ReadTimely(reader[s]) /\ reader'[s] = reader[s]
      BY <1>2, <1>6, <2>2 DEF Timely, ReadersTimely
    <3> QED
      BY <1>2, <3>1 DEF ReadTimely, Known, Cache!Stale, Cache!Version, Replacement
  <2> QED
    BY <2>1, <2>2
<1> QED
  BY <1>4, <1>5, <1>6 DEF Timely, ReadersTimely

Reply(r) ==
    [key |-> reader[r].key, value |-> reader[r].value,
     until |-> clock + Ttl[reader[r].key], why |-> reader[r].why]

LEMMA StoreSteps ==
    ASSUME Cache!CacheAssumption, Timely, NEW r \in Readers, Cache!Store(r)
    PROVE  /\ UNCHANGED <<replaced, writer, clock, reboots>>
           /\ reader[r].pc = "read" /\ reader' = [reader EXCEPT ![r] = Cache!Idle]
           /\ Reply(r) \in Cache!Entry /\ EntryTimely(Reply(r)) /\ Updates({Reply(r)})
<1>1. CacheShape /\ reader[r].pc = "read"
  BY DEF Timely, Cache!Store
<1>2. PICK x \in ReaderType : x = reader[r]
  BY <1>1 DEF CacheShape
<1>3. /\ x.pc = "read" /\ x.key \in Cache!Keys /\ x.why \in Cache!Whys /\ x.value \in Nat
      /\ x.value <= MaxEdits /\ x.at \in Nat
  BY <1>1, <1>2, ReaderFacts
<1>4. ReadTimely(x)
  BY <1>1, <1>2 DEF Timely, ReadersTimely
<1>5. Ttl[x.key] \in Nat /\ clock \in Nat /\ MaxEdits \in Nat
  BY <1>1, <1>3, KeyFacts, CacheFacts
<1>6. Reply(r) \in Cache!Entry
  BY <1>2, <1>3, <1>5 DEF Reply, Cache!Entry
<1>7. EntryTimely(Reply(r))
  <2> DEFINE a == Reply(r)
  <2>1. a.key = x.key /\ a.value = x.value /\ a.until = clock + Ttl[x.key]
    BY <1>2 DEF Reply
  <2> HIDE DEF a
  <2>2. /\ Known(a) = Known(x) /\ Cache!Stale(a) = Cache!Stale(x)
        /\ Replacement(a) = Replacement(x)
    BY <2>1 DEF Known, Cache!Stale, Replacement
  <2>3. ASSUME Cache!Stale(x) PROVE a.until <= Replacement(x) + Ttl[x.key] + 1
    <3>1. Replacement(x) \in Nat
      <4>1. Cache!KindOf(x.key) \in Concerns
        BY <1>3, KeyFacts
      <4>0. /\ replaced[Cache!KindOf(x.key)] \in Seq(0..MaxTime)
            /\ Cache!Version(Cache!KindOf(x.key)) \in Nat
        BY <1>1, <4>1, CacheFacts
      <4>5. x.value + 1 \in 1..Cache!Version(Cache!KindOf(x.key))
        BY <1>3, <1>4, <2>3, <4>0 DEF ReadTimely, Known, Cache!Stale
      <4>6. MaxTime \in Nat
        BY KeyFacts
      <4>2. /\ replaced[Cache!KindOf(x.key)] \in Seq(0..MaxTime) /\ MaxTime \in Nat
            /\ x.value + 1 \in 1..Len(replaced[Cache!KindOf(x.key)])
        BY <4>0, <4>5, <4>6 DEF Cache!Version
      <4>3. replaced[Cache!KindOf(x.key)][x.value + 1] \in 0..MaxTime
        BY <4>2
      <4> QED
        BY <4>2, <4>3 DEF Replacement
    <3> QED
      BY <1>3, <1>4, <1>5, <2>1, <2>3, <3>1 DEF ReadTimely
  <2>4. EntryTimely(a)
    BY <1>4, <1>5, <2>1, <2>2, <2>3 DEF EntryTimely, ReadTimely
  <2> QED
    BY <2>4 DEF a
<1>8. Updates({Reply(r)})
  <2>1. Cache!Operates({d \in redis : d.key # Reply(r).key} \cup {Reply(r)},
                       Cache!MemorySet(mem, Reply(r)), Cache!MemorySet(<<>>, Reply(r)))
    BY DEF Cache!Store, Reply
  <2> QED
    BY <1>1, <1>6, <2>1, StoreUpdates
<1>9. /\ UNCHANGED <<replaced, writer, clock, reboots>>
      /\ reader' = [reader EXCEPT ![r] = Cache!Idle]
  BY DEF Cache!Store
<1> QED
  BY <1>1, <1>6, <1>7, <1>8, <1>9

LEMMA StoreTimely ==
    ASSUME Cache!CacheAssumption, Timely, NEW r \in Readers, Cache!Store(r)
    PROVE  Timely'
<1>1. CacheShape
  BY DEF Timely
<1>2. /\ UNCHANGED <<replaced, writer, clock, reboots>>
      /\ reader' = [reader EXCEPT ![r] = Cache!Idle]
      /\ EntryTimely(Reply(r)) /\ Updates({Reply(r)})
  BY StoreSteps
<1>3. Carries
  BY <1>1, <1>2, IdleType, OneReader
<1>4. SameOrCommitted
  BY <1>2 DEF SameOrCommitted
<1>5. ReadersTimely'
  BY <1>2, <1>3, <1>4, ReadersCarry
<1>6. StoresTimely'
  <2> SUFFICES ASSUME NEW e \in redis' \cup Entries(mem') PROVE EntryTimely(e)'
    BY DEF StoresTimely, Entries
  <2>1. EntryTimely(e)
    <3>1. e \in redis \cup Entries(mem) \cup {Reply(r)}
      BY <1>2 DEF Updates, Entries
    <3> QED
      BY <1>2, <3>1 DEF Timely, StoresTimely
  <2> QED
    BY <1>2, <2>1 DEF EntryTimely, Known, Cache!Stale, Replacement, Cache!Version
<1>7. CacheShape'
  BY <1>1, <1>2, <1>3, <1>4, SameWriters, CommitShape DEF CacheShape, Updates, Carries
<1> QED
  BY <1>5, <1>6, <1>7 DEF Timely
LEMMA EditSteps ==
    ASSUME Cache!CacheAssumption, CacheShape, NEW kind \in Concerns, Cache!Edit(kind)
    PROVE  /\ UNCHANGED <<Cache!stores, reader, clock, reboots>>
           /\ WriterShape' /\ writer'[kind].left = Drops[kind]
           /\ \A other \in Concerns : other # kind => writer'[other] = writer[other]
           /\ replaced' = IF CommitFirst THEN Cache!Committed(kind) ELSE replaced
           /\ SameOrCommitted
<1>1. /\ writer' = [writer EXCEPT ![kind] = [pc |-> "dropping", left |-> Drops[kind]]]
      /\ UNCHANGED <<Cache!stores, reader, clock, reboots>>
      /\ replaced' = IF CommitFirst THEN Cache!Committed(kind) ELSE replaced
      /\ Cache!Version(kind) < MaxEdits
  BY DEF Cache!Edit
<1>2. DOMAIN writer = Concerns /\ writer = [other \in Concerns |-> writer[other]]
  BY DEF CacheShape, WriterShape
<1>3. /\ writer'[kind] = [pc |-> "dropping", left |-> Drops[kind]] /\ DOMAIN writer' = Concerns
      /\ writer' = [other \in Concerns |-> writer'[other]]
      /\ \A other \in Concerns : other # kind => writer'[other] = writer[other]
  BY <1>1, <1>2
<1>4. WriterShape'
  BY <1>3, StartedDrop DEF CacheShape, WriterShape
<1>5. SameOrCommitted
  BY <1>1 DEF SameOrCommitted
<1> QED
  BY <1>1, <1>3, <1>4, <1>5

LEMMA EditTimely ==
    ASSUME Cache!CacheAssumption, Timely, NEW kind \in Concerns, Cache!Edit(kind)
    PROVE  Timely'
<1>1. CacheShape
  BY DEF Timely
<1>2. /\ UNCHANGED <<Cache!stores, reader, clock, reboots>>
      /\ WriterShape' /\ SameOrCommitted
  BY <1>1, EditSteps
<1>3. StoresRemain /\ Carries /\ clock' = clock /\ reboots' \in 0..MaxReboots
  BY <1>1, <1>2, SameStores, UpdatesRemain, SameReaders DEF CacheShape
<1> QED
  BY <1>2, <1>3, TimelyRemains

(* A reader of a key that is dropped has been spanned.                     *)
SpannedBy(k, r) ==
    IF reader[r].pc # "idle" /\ reader[r].key = k
    THEN [reader[r] EXCEPT !.why = "spanned"] ELSE reader[r]

LEMMA DropSteps ==
    ASSUME Cache!CacheAssumption, CacheShape, NEW kind \in Concerns, Cache!Drop(kind)
    PROVE  /\ UNCHANGED <<replaced, clock, reboots>> /\ Updates({}) /\ WriterShape'
           /\ writer[kind].pc = "dropping"
           /\ \A other \in Concerns : other # kind => writer'[other] = writer[other]
           /\ \E k \in Cache!Keys :
                /\ \A e \in Live' : e.key # k
                /\ Entries(writer[kind].left) \subseteq {k} \cup Entries(writer'[kind].left)
                /\ reader' = [r \in Readers |-> SpannedBy(k, r)]
<1> DEFINE k == Head(writer[kind].left)
           left == Tail(writer[kind].left)
           phase == IF left # <<>> THEN "dropping" ELSE IF CommitFirst THEN "idle" ELSE "dropped"
<1>1. /\ writer[kind].pc = "dropping" /\ writer[kind].left # <<>>
      /\ Cache!Operates({e \in redis : e.key # k}, Cache!Without(mem, k), <<>>)
      /\ reader' = [r \in Readers |-> SpannedBy(k, r)]
      /\ writer' = [writer EXCEPT ![kind] = [pc |-> phase, left |-> left]]
      /\ UNCHANGED <<replaced, clock, reboots>>
  BY DEF Cache!Drop, SpannedBy
<1>2. /\ DOMAIN writer = Concerns /\ writer[kind].left \in Rests(Drops[kind])
      /\ writer = [other \in Concerns |-> writer[other]]
      /\ writer[kind].left \in Seq(Cache!Keys) /\ Drops[kind] \in Seq(Cache!Keys)
  BY KeyFacts, CacheFacts DEF CacheShape, WriterShape
<1>3. left \in Rests(Drops[kind])
  BY <1>1, <1>2, RestOfDrop
<1>4. k \in Cache!Keys /\ Entries(writer[kind].left) \subseteq {k} \cup Entries(left)
  <2>1. /\ k \in Cache!Keys /\ left \in Seq(Cache!Keys)
        /\ Len(left) = Len(writer[kind].left) - 1 /\ Len(writer[kind].left) \in Nat
        /\ \A i \in 1..Len(left) : left[i] = writer[kind].left[i + 1]
        /\ k = writer[kind].left[1]
    BY <1>1, <1>2
  <2>2. ASSUME NEW i \in 1..Len(writer[kind].left)
        PROVE  writer[kind].left[i] \in {k} \cup Entries(left)
    <3>1. CASE i = 1
      BY <2>1, <3>1
    <3>2. CASE i # 1
      <4>1. i - 1 \in 1..Len(left) /\ (i - 1) + 1 = i
        BY <2>1, <3>2
      <4>2. left[i - 1] = writer[kind].left[i]
        BY <2>1, <4>1
      <4>3. Len(left) \in Nat
        BY <2>1
      <4> QED
        BY <4>1, <4>2, <4>3 DEF Entries
    <3> QED
      BY <3>1, <3>2
  <2> QED
    BY <2>1, <2>2 DEF Entries
<1>5. Updates({}) /\ \A e \in Live' : e.key # k
  BY <1>1, DropUpdates
<1>6. phase \in {"idle", "dropping", "dropped"} /\ (phase = "dropped" => left = <<>>)
  OBVIOUS
<1> HIDE DEF phase, left, k
<1>7. /\ writer'[kind] = [pc |-> phase, left |-> left] /\ DOMAIN writer' = Concerns
      /\ writer' = [other \in Concerns |-> writer'[other]]
      /\ \A other \in Concerns : other # kind => writer'[other] = writer[other]
  BY <1>1, <1>2
<1>8. WriterShape'
  BY <1>3, <1>6, <1>7 DEF CacheShape, WriterShape
<1> QED
  BY <1>1, <1>4, <1>5, <1>7, <1>8

LEMMA SpannedReaders ==
    ASSUME Cache!CacheAssumption, CacheShape, NEW k, NEW r \in Readers
    PROVE  /\ SpannedBy(k, r) \in ReaderType /\ SpannedBy(k, r).pc = reader[r].pc
           /\ reader[r].pc # "idle" =>
                /\ SpannedBy(k, r).key = reader[r].key
                /\ SpannedBy(k, r).why \in {reader[r].why, "spanned"}
                /\ reader[r].key = k => SpannedBy(k, r).why = "spanned"
           /\ reader[r].pc = "read" =>
                SpannedBy(k, r).value = reader[r].value /\ SpannedBy(k, r).at = reader[r].at
<1>1. PICK x \in ReaderType : x = reader[r]
  BY DEF CacheShape
<1>2. "spanned" \in Cache!Whys
  BY DEF Cache!Whys
<1>3. CASE x.pc # "idle" /\ x.key = k
  <2>1. SpannedBy(k, r) = [x EXCEPT !.why = "spanned"]
    BY <1>1, <1>3 DEF SpannedBy
  <2> QED
    BY <1>1, <1>2, <1>3, <2>1, ReaderFacts
<1>4. CASE ~(x.pc # "idle" /\ x.key = k)
  <2>1. SpannedBy(k, r) = x
    BY <1>1, <1>4 DEF SpannedBy
  <2> QED
    BY <1>1, <1>4, <2>1
<1> QED
  BY <1>3, <1>4

LEMMA DropTimely ==
    ASSUME Cache!CacheAssumption, Timely, NEW kind \in Concerns, Cache!Drop(kind)
    PROVE  Timely'
<1>1. CacheShape
  BY DEF Timely
<1>2. UNCHANGED <<replaced, clock, reboots>> /\ Updates({}) /\ WriterShape'
  BY <1>1, DropSteps
<1>3. PICK k \in Cache!Keys : reader' = [r \in Readers |-> SpannedBy(k, r)]
  BY <1>1, DropSteps
<1>4. Carries
  BY <1>1, <1>3, SpannedReaders DEF Carries
<1>5. /\ StoresRemain /\ clock' = clock /\ reboots' \in 0..MaxReboots
      /\ SameOrCommitted
  BY <1>1, <1>2, UpdatesRemain DEF CacheShape, SameOrCommitted
<1> QED
  BY <1>2, <1>4, <1>5, TimelyRemains
LEMMA EndEditSteps ==
    ASSUME Cache!CacheAssumption, CacheShape, NEW kind \in Concerns, Cache!EndEdit(kind)
    PROVE  /\ UNCHANGED <<Cache!stores, reader, clock, reboots>>
           /\ writer[kind].pc = "dropped" /\ writer[kind].left = <<>>
           /\ writer'[kind].pc = "idle" /\ WriterShape'
           /\ \A other \in Concerns : other # kind => writer'[other] = writer[other]
           /\ UNCHANGED replaced \/ replaced' = Cache!Committed(kind)
           /\ SameOrCommitted
<1>1. /\ writer[kind].pc = "dropped"
      /\ writer' = [writer EXCEPT ![kind].pc = "idle"]
      /\ UNCHANGED <<Cache!stores, reader, clock, reboots>>
      /\ \/ UNCHANGED replaced
         \/ Cache!Version(kind) < MaxEdits /\ replaced' = Cache!Committed(kind)
  BY DEF Cache!EndEdit
<1>2. PICK w \in [pc : {"idle", "dropping", "dropped"}, left : Rests(Drops[kind])] :
        w = writer[kind] /\ (w.pc = "dropped" => w.left = <<>>)
  BY DEF CacheShape, WriterShape
<1>3. DOMAIN writer = Concerns /\ writer = [other \in Concerns |-> writer[other]]
  BY DEF CacheShape, WriterShape
<1>4. /\ writer'[kind] = [w EXCEPT !.pc = "idle"] /\ DOMAIN writer' = Concerns
      /\ writer' = [other \in Concerns |-> writer'[other]]
      /\ \A other \in Concerns : other # kind => writer'[other] = writer[other]
  BY <1>1, <1>2, <1>3
<1>5. /\ [w EXCEPT !.pc = "idle"].pc = "idle"
      /\ [w EXCEPT !.pc = "idle"] \in [pc : {"idle", "dropping", "dropped"},
                                       left : Rests(Drops[kind])]
  BY <1>2
<1>6. WriterShape'
  BY <1>4, <1>5 DEF CacheShape, WriterShape
<1>7. SameOrCommitted
  BY <1>1 DEF SameOrCommitted
<1> QED
  BY <1>1, <1>2, <1>4, <1>5, <1>6, <1>7

LEMMA EndEditTimely ==
    ASSUME Cache!CacheAssumption, Timely, NEW kind \in Concerns, Cache!EndEdit(kind)
    PROVE  Timely'
<1>1. CacheShape
  BY DEF Timely
<1>2. /\ UNCHANGED <<Cache!stores, reader, clock, reboots>>
      /\ WriterShape' /\ SameOrCommitted
  BY <1>1, EndEditSteps
<1>3. StoresRemain /\ Carries /\ clock' = clock /\ reboots' \in 0..MaxReboots
  BY <1>1, <1>2, SameStores, UpdatesRemain, SameReaders DEF CacheShape
<1> QED
  BY <1>2, <1>3, TimelyRemains

LEMMA SilencedEntry ==
    ASSUME NEW e \in Cache!Entry, NEW kind
    PROVE  /\ Cache!Silenced(e, kind) \in Cache!Entry
           /\ Cache!Silenced(e, kind).key = e.key /\ Cache!Silenced(e, kind).value = e.value
           /\ Cache!Silenced(e, kind).until = e.until
           /\ Cache!Silenced(e, kind).why
                = IF Cache!KindOf(e.key) = kind THEN "silent" ELSE e.why
BY DEF Cache!Silenced, Cache!Entry, Cache!Whys

LEMMA SilencedReader ==
    ASSUME Cache!CacheAssumption, NEW x \in ReaderType, x.pc = "read", NEW kind
    PROVE  /\ Cache!Silenced(x, kind) \in ReaderType /\ Cache!Silenced(x, kind).pc = "read"
           /\ Cache!Silenced(x, kind).key = x.key /\ Cache!Silenced(x, kind).value = x.value
           /\ Cache!Silenced(x, kind).at = x.at
           /\ Cache!Silenced(x, kind).why
                = IF Cache!KindOf(x.key) = kind THEN "silent" ELSE x.why
<1>1. "silent" \in Cache!Whys
  BY DEF Cache!Whys
<1>2. CASE Cache!KindOf(x.key) = kind
  <2>1. Cache!Silenced(x, kind) = [x EXCEPT !.why = "silent"]
    BY <1>2 DEF Cache!Silenced
  <2> QED
    BY <1>1, <1>2, <2>1, ReaderFacts
<1>3. CASE Cache!KindOf(x.key) # kind
  BY <1>3 DEF Cache!Silenced
<1> QED
  BY <1>2, <1>3

LEMMA SilentSteps ==
    ASSUME Cache!CacheAssumption, CacheShape, NEW kind \in Concerns, Cache!Silent(kind)
    PROVE  /\ UNCHANGED <<writer, clock, reboots>>
           /\ Cache!Version(kind) < MaxEdits /\ replaced' = Cache!Committed(kind)
           /\ StoresRemain
           /\ \A e \in Live' : \E d \in Live : e = Cache!Silenced(d, kind)
           /\ reader' = [r \in Readers |-> IF reader[r].pc = "read"
                                           THEN Cache!Silenced(reader[r], kind) ELSE reader[r]]
<1>1. /\ UNCHANGED <<backend, faults, writer, clock, reboots>>
      /\ Cache!Version(kind) < MaxEdits /\ replaced' = Cache!Committed(kind)
      /\ redis' = {Cache!Silenced(e, kind) : e \in redis}
      /\ mem' = [i \in DOMAIN mem |-> Cache!Silenced(mem[i], kind)]
      /\ reader' = [r \in Readers |-> IF reader[r].pc = "read"
                                      THEN Cache!Silenced(reader[r], kind) ELSE reader[r]]
  BY DEF Cache!Silent
<1>2. /\ redis \subseteq Cache!Entry /\ mem \in Seq(Cache!Entry) /\ OneEach(mem)
      /\ \A d, e \in redis : d.key = e.key => d = e
      /\ backend \in {"redis", "memory"} /\ faults \in 0..MaxFaults
  BY DEF CacheShape, StoreShape
<1>3. /\ Len(mem) \in Nat /\ DOMAIN mem = 1..Len(mem)
      /\ \A i \in 1..Len(mem) : mem[i] \in Cache!Entry
  BY <1>2
<1>4. /\ mem' \in Seq(Cache!Entry) /\ Len(mem') = Len(mem)
      /\ \A i \in 1..Len(mem) : mem'[i] = Cache!Silenced(mem[i], kind)
  <2>1. \A i \in 1..Len(mem) : Cache!Silenced(mem[i], kind) \in Cache!Entry
    BY <1>3, SilencedEntry
  <2>2. mem' = [i \in 1..Len(mem) |-> Cache!Silenced(mem[i], kind)]
    BY <1>1, <1>3
  <2>3. mem' \in [1..Len(mem) -> Cache!Entry]
    BY <2>1, <2>2
  <2> QED
    BY <1>3, <2>2, <2>3
<1>5. OneEach(mem')
  <2> SUFFICES ASSUME NEW i \in 1..Len(mem), NEW j \in 1..Len(mem), mem'[i].key = mem'[j].key
               PROVE  i = j
    BY <1>4 DEF OneEach
  <2>1. mem[i].key = mem[j].key
    BY <1>3, <1>4, SilencedEntry
  <2> QED
    BY <1>2, <2>1 DEF OneEach
<1>6. redis' \subseteq Cache!Entry /\ \A d, e \in redis' : d.key = e.key => d = e
  <2>1. ASSUME NEW d \in redis', NEW e \in redis', d.key = e.key PROVE d = e
    <3>1. PICK c \in redis : d = Cache!Silenced(c, kind)
      BY <1>1
    <3>2. PICK f \in redis : e = Cache!Silenced(f, kind)
      BY <1>1
    <3>3. c.key = f.key
      BY <1>2, <2>1, <3>1, <3>2, SilencedEntry
    <3> QED
      BY <1>2, <3>1, <3>2, <3>3
  <2> QED
    BY <1>1, <1>2, <2>1, SilencedEntry
<1>7. StoreShape'
  <2>1. OneEach(mem)'
    BY <1>5 DEF OneEach
  <2> QED
    BY <1>1, <1>2, <1>4, <1>6, <2>1 DEF StoreShape
<1>8. \A e \in Entries(mem') : \E d \in Entries(mem) : e = Cache!Silenced(d, kind)
  BY <1>4 DEF Entries
<1>9. \A e \in redis' \cup Entries(mem') : \E d \in redis \cup Entries(mem) :
        e.key = d.key /\ e.value = d.value /\ e.until = d.until
  <2> TAKE e \in redis' \cup Entries(mem')
  <2>1. PICK d \in redis \cup Entries(mem) : e = Cache!Silenced(d, kind)
    BY <1>1, <1>8
  <2>2. d \in Cache!Entry
    BY <1>2, <1>3 DEF Entries
  <2> QED
    BY <2>1, <2>2, SilencedEntry
<1>10. \A e \in Live' : \E d \in Live : e = Cache!Silenced(d, kind)
  BY <1>1, <1>8 DEF Live, Entries
<1> QED
  BY <1>1, <1>7, <1>9, <1>10 DEF StoresRemain

LEMMA SilentTimely ==
    ASSUME Cache!CacheAssumption, Timely, NEW kind \in Concerns, Cache!Silent(kind)
    PROVE  Timely'
<1>1. CacheShape /\ reader \in [Readers -> ReaderType]
  BY DEF Timely, CacheShape
<1>2. /\ UNCHANGED <<writer, clock, reboots>>
      /\ Cache!Version(kind) < MaxEdits /\ replaced' = Cache!Committed(kind)
      /\ StoresRemain
      /\ reader' = [r \in Readers |-> IF reader[r].pc = "read"
                                      THEN Cache!Silenced(reader[r], kind) ELSE reader[r]]
  BY <1>1, SilentSteps
<1>3. Carries
  <2>1. ASSUME NEW r \in Readers
        PROVE  /\ reader'[r] \in ReaderType
               /\ reader'[r].pc = "read" =>
                    /\ reader[r].pc = "read" /\ reader'[r].key = reader[r].key
                    /\ reader'[r].value = reader[r].value /\ reader'[r].at = reader[r].at
    <3>1. reader[r] \in ReaderType
      BY <1>1
    <3>2. CASE reader[r].pc = "read"
      <4>1. reader'[r] = Cache!Silenced(reader[r], kind)
        BY <1>2, <3>2
      <4> QED
        BY <3>1, <3>2, <4>1, SilencedReader
    <3>3. CASE reader[r].pc # "read"
      <4>1. reader'[r] = reader[r]
        BY <1>2, <3>3
      <4> QED
        BY <3>1, <3>3, <4>1
    <3> QED
      BY <3>2, <3>3
  <2>2. reader' = [r \in Readers |-> reader'[r]]
    BY <1>2
  <2>3. reader' \in [Readers -> ReaderType]
    BY <2>1, <2>2
  <2> QED
    BY <2>1, <2>3 DEF Carries
<1>4. /\ SameOrCommitted /\ clock' = clock /\ reboots' \in 0..MaxReboots /\ WriterShape'
  BY <1>1, <1>2, SameWriters DEF SameOrCommitted, CacheShape
<1> QED
  BY <1>2, <1>3, <1>4, TimelyRemains
LEMMA RestartSteps ==
    ASSUME Cache!CacheAssumption, CacheShape, Cache!Restart
    PROVE  /\ UNCHANGED <<replaced, clock>> /\ reboots' \in 0..MaxReboots
           /\ reader' = [r \in Readers |-> Cache!Idle] /\ StoresRemain /\ WriterShape'
           /\ \A kind \in Concerns : writer'[kind].pc = "idle"
           /\ \A e \in Live' : Cache!Stale(e) => e.why # "none"
<1>1. /\ reboots < MaxReboots /\ reboots' = reboots + 1
      /\ mem' = <<>> /\ backend' \in {"redis", "memory"}
      /\ redis' = {IF e.value = Cache!Version(Cache!KindOf(e.key)) THEN e
                   ELSE [e EXCEPT !.why = "inherited"] : e \in redis}
      /\ reader' = [r \in Readers |-> Cache!Idle]
      /\ writer' = [kind \in Concerns |-> [pc |-> "idle", left |-> <<>>]]
      /\ UNCHANGED <<replaced, clock, faults>>
  BY DEF Cache!Restart
<1>2. /\ redis \subseteq Cache!Entry /\ \A d, e \in redis : d.key = e.key => d = e
      /\ faults \in 0..MaxFaults /\ reboots \in 0..MaxReboots /\ MaxReboots \in Nat
  BY KeyFacts DEF CacheShape, StoreShape
<1>3. reboots' \in 0..MaxReboots
  BY <1>1, <1>2
<1>4. WriterShape'
  BY <1>1, StartedDrop DEF WriterShape
<1> DEFINE New(e) == IF e.value = Cache!Version(Cache!KindOf(e.key)) THEN e
                     ELSE [e EXCEPT !.why = "inherited"]
<1>5. ASSUME NEW e \in redis
      PROVE  /\ New(e) \in Cache!Entry /\ New(e).key = e.key /\ New(e).value = e.value
             /\ New(e).until = e.until /\ (Cache!Stale(New(e)) => New(e).why # "none")
  <2>1. e \in Cache!Entry
    BY <1>2
  <2>2. CASE e.value = Cache!Version(Cache!KindOf(e.key))
    BY <2>1, <2>2 DEF Cache!Stale
  <2>3. CASE e.value # Cache!Version(Cache!KindOf(e.key))
    <3>1. New(e) = [e EXCEPT !.why = "inherited"]
      BY <2>3
    <3> HIDE DEF New
    <3> QED
      BY <2>1, <3>1 DEF Cache!Entry, Cache!Whys
  <2> QED
    BY <2>2, <2>3
<1>6. redis' = {New(e) : e \in redis}
  BY <1>1
<1> HIDE DEF New
<1>7. redis' \subseteq Cache!Entry /\ \A d, e \in redis' : d.key = e.key => d = e
  <2>1. ASSUME NEW d \in redis', NEW e \in redis', d.key = e.key PROVE d = e
    <3>1. PICK c \in redis : d = New(c)
      BY <1>6
    <3>2. PICK f \in redis : e = New(f)
      BY <1>6
    <3> QED
      BY <1>2, <1>5, <2>1, <3>1, <3>2
  <2> QED
    BY <1>5, <1>6, <2>1
<1>8. mem' \in Seq(Cache!Entry) /\ OneEach(mem') /\ Entries(mem') = {}
  BY <1>1, EmptyTable
<1>9. StoreShape'
  <2>1. OneEach(mem)'
    BY <1>8 DEF OneEach
  <2> QED
    BY <1>1, <1>2, <1>7, <1>8, <2>1 DEF StoreShape
<1>10. StoresRemain
  BY <1>5, <1>6, <1>8, <1>9 DEF StoresRemain
<1>11. \A e \in Live' : Cache!Stale(e) => e.why # "none"
  BY <1>5, <1>6, <1>8 DEF Live, Entries
<1>12. \A kind \in Concerns : writer'[kind].pc = "idle"
  BY <1>1
<1> QED
  BY <1>1, <1>3, <1>4, <1>10, <1>11, <1>12

LEMMA RestartTimely ==
    ASSUME Cache!CacheAssumption, Timely, Cache!Restart PROVE Timely'
<1>1. CacheShape
  BY DEF Timely
<1>2. /\ UNCHANGED <<replaced, clock>> /\ reboots' \in 0..MaxReboots
      /\ reader' = [r \in Readers |-> Cache!Idle] /\ StoresRemain /\ WriterShape'
  BY <1>1, RestartSteps
<1>3. Carries
  BY <1>2, IdleType DEF Carries
<1>4. SameOrCommitted
  BY <1>2 DEF SameOrCommitted
<1> QED
  BY <1>2, <1>3, <1>4, TimelyRemains

LEMMA TickTimely ==
    ASSUME Cache!CacheAssumption, Timely, Cache!Tick PROVE Timely' /\ Updates({})
<1>1. CacheShape
  BY DEF Timely
<1>2. /\ clock < MaxTime /\ clock' = clock + 1
      /\ \A r \in Readers : reader[r].pc = "read" => reader[r].at = clock
      /\ redis' \subseteq redis
      /\ UNCHANGED <<replaced, mem, backend, reader, writer, faults, reboots>>
  BY DEF Cache!Tick
<1>3. clock \in Nat /\ MaxTime \in Nat /\ clock' \in 0..MaxTime
  BY <1>1, <1>2, KeyFacts, CacheFacts
<1>4. Updates({})
  BY <1>1, <1>2 DEF Updates, CacheShape, StoreShape, Live, Entries, OneEach
<1>5. ReplacedShape' /\ WriterShape'
  BY <1>1, <1>2, CommitShape, SameWriters DEF SameOrCommitted
<1>6. CacheShape'
  BY <1>1, <1>2, <1>3, <1>4, <1>5 DEF CacheShape, Updates
<1>7. StoresTimely'
  <2> SUFFICES ASSUME NEW e \in redis' \cup Entries(mem') PROVE EntryTimely(e)'
    BY DEF StoresTimely, Entries
  <2>1. e \in redis \cup Entries(mem)
    BY <1>2
  <2>2. EntryTimely(e) /\ e.until \in Nat /\ Ttl[e.key] \in Nat
    BY <1>1, <2>1, CacheFacts, KeyFacts DEF Timely, StoresTimely
  <2> QED
    BY <1>2, <1>3, <2>2 DEF EntryTimely, Known, Cache!Stale, Replacement, Cache!Version
<1>8. ReadersTimely'
  <2> SUFFICES ASSUME NEW r \in Readers, reader'[r].pc = "read" PROVE ReadTimely(reader[r])'
    BY DEF ReadersTimely
  <2>1. reader[r].pc = "read" /\ reader[r].at = clock /\ ReadTimely(reader[r])
    BY <1>2 DEF Timely, ReadersTimely
  <2>2. /\ Known(reader[r])' = Known(reader[r])
        /\ Cache!Stale(reader[r])' = Cache!Stale(reader[r])
        /\ Replacement(reader[r])' = Replacement(reader[r])
        /\ reader'[r] = reader[r]
    BY <1>2 DEF Known, Cache!Stale, Replacement, Cache!Version
  <2> QED
    BY <1>2, <1>3, <2>1, <2>2 DEF ReadTimely
<1> QED
  BY <1>4, <1>6, <1>7, <1>8 DEF Timely

LEMMA TimelyStep ==
    ASSUME Cache!CacheAssumption, Timely, [Cache!Next]_Cache!cacheVars PROVE Timely'
<1>1. ASSUME NEW r \in Readers, Cache!Read(r) PROVE Timely'
  BY <1>1, ReadIsTimely
<1>2. ASSUME NEW r \in Readers, Cache!Store(r) PROVE Timely'
  BY <1>2, StoreTimely
<1>3. ASSUME NEW r \in Readers, NEW k \in Cache!Keys, Cache!Hit(r, k) PROVE Timely'
  BY <1>3, HitTimely
<1>4. ASSUME NEW r \in Readers, NEW k \in Cache!Keys, Cache!Begin(r, k) PROVE Timely'
  BY <1>4, BeginTimely
<1>5. ASSUME NEW kind \in Concerns, Cache!Edit(kind) PROVE Timely'
  BY <1>5, EditTimely
<1>6. ASSUME NEW kind \in Concerns, Cache!Drop(kind) PROVE Timely'
  BY <1>6, DropTimely
<1>7. ASSUME NEW kind \in Concerns, Cache!EndEdit(kind) PROVE Timely'
  BY <1>7, EndEditTimely
<1>8. ASSUME NEW kind \in Concerns, Cache!Silent(kind) PROVE Timely'
  BY <1>8, SilentTimely
<1>9. CASE Cache!Restart
  BY <1>9, RestartTimely
<1>10. CASE Cache!Tick
  BY <1>10, TickTimely
<1>11. CASE UNCHANGED Cache!cacheVars
  <2>1. UNCHANGED <<replaced, Cache!stores, reader, writer, clock, reboots>>
    BY <1>11 DEF Cache!cacheVars
  <2>2. CacheShape
    BY DEF Timely
  <2>3. /\ StoresRemain /\ Carries /\ WriterShape' /\ SameOrCommitted
        /\ clock' = clock /\ reboots' \in 0..MaxReboots
    BY <2>1, <2>2, SameStores, UpdatesRemain, SameReaders, SameWriters
    DEF SameOrCommitted, CacheShape
  <2> QED
    BY <2>3, TimelyRemains
<1> QED
  BY <1>1, <1>2, <1>3, <1>4, <1>5, <1>6, <1>7, <1>8, <1>9, <1>10, <1>11 DEF Cache!Next
-----------------------------------------------------------------------------
(* Edits that drop before they commit mark what they make stale            *)

(* Carried over by a step that neither commits nor starts to hide a key.   *)
LEMMA StoresMarkedRemain ==
    ASSUME StoresMarked, replaced' = replaced,
           \A e \in Live' : e \in Live /\ (Under(e.key)' => Under(e.key))
    PROVE  StoresMarked'
<1> SUFFICES ASSUME NEW e \in Live', Cache!Stale(e)' \/ Under(e.key)' PROVE e.why # "none"
  BY DEF StoresMarked
<1>1. Cache!Stale(e)' = Cache!Stale(e)
  BY SameReplaced
<1> QED
  BY <1>1 DEF StoresMarked

LEMMA SameUnder ==
    ASSUME writer' = writer, NEW k PROVE Under(k)' = Under(k)
BY DEF Under

LEMMA QuietMarked ==
    ASSUME Marked, UNCHANGED <<replaced, reader, writer>>, Updates({})
    PROVE  StoresMarked' /\ ReadersMarked'
<1>1. Live' \subseteq Live
  BY DEF Updates
<1>2. StoresMarked'
  BY <1>1, SameUnder, StoresMarkedRemain DEF Marked
<1>3. ReadersMarked'
  BY DEF Marked, ReadersMarked, Under, Cache!Stale, Cache!Version
<1> QED
  BY <1>2, <1>3

LEMMA BeginMarked ==
    ASSUME Cache!CacheAssumption, Marked, NEW r \in Readers, NEW k \in Cache!Keys,
           Cache!Begin(r, k)
    PROVE  StoresMarked' /\ ReadersMarked'
<1>1. CacheShape /\ reader \in [Readers -> ReaderType]
  BY DEF Marked, Timely, CacheShape
<1> DEFINE why == IF Under(k) THEN "early" ELSE "none"
<1>2. why \in Cache!Whys /\ (Under(k) => why # "none")
  BY DEF Cache!Whys
<1>3. /\ Updates({}) /\ UNCHANGED <<replaced, writer, clock, reboots>>
      /\ reader' = [reader EXCEPT ![r] = Cache!Computing(k, why)]
  BY <1>1, BeginSteps
<1> HIDE DEF why
<1>4. Live' \subseteq Live
  BY <1>3 DEF Updates
<1>5. StoresMarked'
  BY <1>3, <1>4, SameUnder, StoresMarkedRemain DEF Marked
<1>6. \A s \in Readers : reader'[s] = IF s = r THEN Cache!Computing(k, why) ELSE reader[s]
  BY <1>1, <1>3
<1>7. ReadersMarked'
  <2> SUFFICES ASSUME NEW s \in Readers, reader'[s].pc # "idle"
               PROVE  /\ Under(reader[s].key)' => reader'[s].why # "none"
                      /\ reader'[s].pc = "read" /\ Cache!Stale(reader[s])'
                           => reader'[s].why # "none"
    BY DEF ReadersMarked
  <2>1. CASE s = r
    <3>1. reader'[s].pc = "computing" /\ reader'[s].key = k /\ reader'[s].why = why
      BY <1>2, <1>6, <2>1, IdleType
    <3>2. Under(reader[s].key)' = Under(k)
      BY <1>3, <3>1 DEF Under
    <3> QED
      BY <1>2, <3>1, <3>2
  <2>2. CASE s # r
    <3>1. reader'[s] = reader[s] /\ reader[s].pc # "idle"
      BY <1>6, <2>2
    <3>2. Under(reader[s].key)' = Under(reader[s].key)
      BY <1>3, <3>1 DEF Under
    <3>3. Cache!Stale(reader[s])' = Cache!Stale(reader[s])
      BY <1>3, <3>1 DEF Cache!Stale, Cache!Version
    <3> QED
      BY <3>1, <3>2, <3>3 DEF Marked, ReadersMarked
  <2> QED
    BY <2>1, <2>2
<1> QED
  BY <1>5, <1>7

LEMMA ReadMarked ==
    ASSUME Cache!CacheAssumption, Marked, NEW r \in Readers, Cache!Read(r)
    PROVE  StoresMarked' /\ ReadersMarked'
<1>1. CacheShape
  BY DEF Marked, Timely
<1>2. /\ UNCHANGED <<replaced, Cache!stores, writer>>
      /\ reader[r].pc = "computing"
      /\ \A s \in Readers : s # r => reader'[s] = reader[s]
      /\ reader'[r].key = reader[r].key /\ reader'[r].why = reader[r].why
      /\ reader'[r].value = Cache!Version(Cache!KindOf(reader[r].key))
  BY <1>1, ReadSteps
<1>3. Live' \subseteq Live
  BY <1>1, <1>2, SameStores DEF Updates
<1>4. StoresMarked'
  BY <1>2, <1>3, SameUnder, StoresMarkedRemain DEF Marked
<1>5. ReadersMarked'
  <2> SUFFICES ASSUME NEW s \in Readers, reader'[s].pc # "idle"
               PROVE  /\ Under(reader[s].key)' => reader'[s].why # "none"
                      /\ reader'[s].pc = "read" /\ Cache!Stale(reader[s])'
                           => reader'[s].why # "none"
    BY DEF ReadersMarked
  <2>1. CASE s = r
    <3>1. Under(reader[s].key)' = Under(reader[r].key)
      BY <1>2, <2>1 DEF Under
    <3>2. ~Cache!Stale(reader[s])'
      BY <1>2, <2>1 DEF Cache!Stale, Cache!Version
    <3> QED
      BY <1>2, <2>1, <3>1, <3>2 DEF Marked, ReadersMarked
  <2>2. CASE s # r
    <3>1. reader'[s] = reader[s] /\ reader[s].pc # "idle"
      BY <1>2, <2>2
    <3>2. Under(reader[s].key)' = Under(reader[s].key)
      BY <1>2, <3>1 DEF Under
    <3>3. Cache!Stale(reader[s])' = Cache!Stale(reader[s])
      BY <1>2, <3>1 DEF Cache!Stale, Cache!Version
    <3> QED
      BY <3>1, <3>2, <3>3 DEF Marked, ReadersMarked
  <2> QED
    BY <2>1, <2>2
<1> QED
  BY <1>4, <1>5

LEMMA StoreMarked ==
    ASSUME Cache!CacheAssumption, Marked, NEW r \in Readers, Cache!Store(r)
    PROVE  StoresMarked' /\ ReadersMarked'
<1>1. CacheShape /\ reader \in [Readers -> ReaderType]
  BY DEF Marked, Timely, CacheShape
<1>2. /\ UNCHANGED <<replaced, writer, clock, reboots>>
      /\ reader[r].pc = "read" /\ reader' = [reader EXCEPT ![r] = Cache!Idle]
      /\ Updates({Reply(r)})
  BY StoreSteps DEF Marked
<1>3. Cache!Stale(Reply(r)) \/ Under(Reply(r).key) => Reply(r).why # "none"
  <2>1. Reply(r).key = reader[r].key /\ Reply(r).why = reader[r].why
        /\ Reply(r).value = reader[r].value
    BY DEF Reply
  <2>2. Cache!Stale(Reply(r)) = Cache!Stale(reader[r])
    BY <2>1 DEF Cache!Stale
  <2>3. Under(Reply(r).key) = Under(reader[r].key)
    BY <2>1
  <2> QED
    BY <1>2, <2>1, <2>2, <2>3 DEF Marked, ReadersMarked
<1>4. StoresMarked'
  <2> SUFFICES ASSUME NEW e \in Live', Cache!Stale(e)' \/ Under(e.key)' PROVE e.why # "none"
    BY DEF StoresMarked
  <2>1. Cache!Stale(e)' = Cache!Stale(e) /\ Under(e.key)' = Under(e.key)
    BY <1>2, SameReplaced, SameUnder
  <2>2. e \in Live \/ e = Reply(r)
    BY <1>2 DEF Updates
  <2> QED
    BY <1>3, <2>1, <2>2 DEF Marked, StoresMarked
<1>5. ReadersMarked'
  <2>1. \A s \in Readers : reader'[s] = IF s = r THEN Cache!Idle ELSE reader[s]
    BY <1>1, <1>2
  <2> SUFFICES ASSUME NEW s \in Readers, reader'[s].pc # "idle"
               PROVE  /\ Under(reader[s].key)' => reader'[s].why # "none"
                      /\ reader'[s].pc = "read" /\ Cache!Stale(reader[s])'
                           => reader'[s].why # "none"
    BY DEF ReadersMarked
  <2>2. reader'[s] = reader[s] /\ reader[s].pc # "idle"
    BY <2>1, IdleType
  <2>3. Under(reader[s].key)' = Under(reader[s].key)
    BY <1>2, <2>2 DEF Under
  <2>4. Cache!Stale(reader[s])' = Cache!Stale(reader[s])
    BY <1>2, <2>2 DEF Cache!Stale, Cache!Version
  <2> QED
    BY <2>2, <2>3, <2>4 DEF Marked, ReadersMarked
<1> QED
  BY <1>4, <1>5
LEMMA EditMarked ==
    ASSUME Cache!CacheAssumption, CommitFirst = FALSE, Marked,
           NEW kind \in Concerns, Cache!Edit(kind)
    PROVE  StoresMarked' /\ ReadersMarked'
<1>1. CacheShape /\ reader \in [Readers -> ReaderType]
  BY DEF Marked, Timely, CacheShape
<1>2. /\ UNCHANGED <<Cache!stores, reader>> /\ writer'[kind].left = Drops[kind]
      /\ \A other \in Concerns : other # kind => writer'[other] = writer[other]
      /\ replaced' = replaced
  BY <1>1, EditSteps
<1>3. Live' \subseteq Live
  BY <1>1, <1>2, SameStores DEF Updates
<1>4. ASSUME NEW k \in Cache!Keys, Under(k)' PROVE Under(k)
  <2>1. Cache!KindOf(k) \in Concerns /\ k \in Entries(Drops[Cache!KindOf(k)])
    BY KeyFacts
  <2>2. CASE Cache!KindOf(k) = kind
    BY <1>2, <1>4, <2>1, <2>2 DEF Under
  <2>3. CASE Cache!KindOf(k) # kind
    BY <1>2, <1>4, <2>1, <2>3 DEF Under
  <2> QED
    BY <2>2, <2>3
<1>5. StoresMarked'
  <2>1. \A e \in Live : e.key \in Cache!Keys
    BY <1>1, CacheFacts
  <2> QED
    BY <1>2, <1>3, <1>4, <2>1, StoresMarkedRemain DEF Marked
<1>6. ReadersMarked'
  <2> SUFFICES ASSUME NEW s \in Readers, reader[s].pc # "idle"
               PROVE  /\ Under(reader[s].key)' => reader[s].why # "none"
                      /\ reader[s].pc = "read" /\ Cache!Stale(reader[s])'
                           => reader[s].why # "none"
    BY <1>2 DEF ReadersMarked
  <2>1. Cache!Stale(reader[s])' = Cache!Stale(reader[s])
    BY <1>2 DEF Cache!Stale, Cache!Version
  <2>2. PICK k \in Cache!Keys : k = reader[s].key
    BY <1>1, ReaderFacts
  <2>3. Under(reader[s].key)' = Under(k)'
    BY <1>2, <2>2 DEF Under
  <2> QED
    BY <1>4, <2>1, <2>2, <2>3 DEF Marked, ReadersMarked
<1> QED
  BY <1>5, <1>6

LEMMA DropMarked ==
    ASSUME Cache!CacheAssumption, Marked, NEW kind \in Concerns, Cache!Drop(kind)
    PROVE  StoresMarked' /\ ReadersMarked'
<1>1. CacheShape /\ reader \in [Readers -> ReaderType]
  BY DEF Marked, Timely, CacheShape
<1>2. /\ UNCHANGED <<replaced, clock, reboots>> /\ Updates({})
      /\ writer[kind].pc = "dropping"
      /\ \A other \in Concerns : other # kind => writer'[other] = writer[other]
  BY <1>1, DropSteps
<1>3. PICK dropped \in Cache!Keys :
        /\ \A e \in Live' : e.key # dropped
        /\ Entries(writer[kind].left) \subseteq {dropped} \cup Entries(writer'[kind].left)
        /\ reader' = [r \in Readers |-> SpannedBy(dropped, r)]
  BY <1>1, DropSteps
<1>4. ASSUME NEW k \in Cache!Keys, k # dropped, Under(k)' PROVE Under(k)
  <2>1. Cache!KindOf(k) \in Concerns
    BY KeyFacts
  <2>2. CASE Cache!KindOf(k) = kind
    BY <1>2, <1>3, <1>4, <2>2 DEF Under
  <2>3. CASE Cache!KindOf(k) # kind
    BY <1>2, <1>4, <2>1, <2>3 DEF Under
  <2> QED
    BY <2>2, <2>3
<1>5. StoresMarked'
  <2>1. \A e \in Live' : e \in Live
    BY <1>2 DEF Updates
  <2>2. \A e \in Live : e.key \in Cache!Keys
    BY <1>1, CacheFacts
  <2> QED
    BY <1>2, <1>3, <1>4, <2>1, <2>2, StoresMarkedRemain DEF Marked
<1>6. ReadersMarked'
  <2> SUFFICES ASSUME NEW s \in Readers, reader'[s].pc # "idle"
               PROVE  /\ Under(reader[s].key)' => reader'[s].why # "none"
                      /\ reader'[s].pc = "read" /\ Cache!Stale(reader[s])'
                           => reader'[s].why # "none"
    BY DEF ReadersMarked
  <2>1. reader'[s] = SpannedBy(dropped, s)
    BY <1>3
  <2>2. /\ reader[s].pc = reader'[s].pc /\ reader'[s].key = reader[s].key
        /\ reader'[s].why \in {reader[s].why, "spanned"}
        /\ reader[s].key = dropped => reader'[s].why = "spanned"
        /\ reader[s].pc = "read" => reader'[s].value = reader[s].value
    BY <1>1, <2>1, SpannedReaders
  <2>3. PICK k \in Cache!Keys : k = reader[s].key
    BY <1>1, <2>2, ReaderFacts
  <2>4. Under(reader[s].key)' = Under(k)'
    BY <2>2, <2>3 DEF Under
  <2>5. reader[s].pc = "read" => Cache!Stale(reader[s])' = Cache!Stale(reader[s])
    BY <1>2, <2>2 DEF Cache!Stale, Cache!Version
  <2>6. CASE k = dropped
    BY <2>2, <2>3, <2>6
  <2>7. CASE k # dropped
    BY <1>4, <2>2, <2>3, <2>4, <2>5, <2>7 DEF Marked, ReadersMarked
  <2> QED
    BY <2>6, <2>7
<1> QED
  BY <1>5, <1>6

(* What a commit makes stale, if the rest stays as it is.                  *)
LEMMA StaleByCommit ==
    ASSUME Cache!CacheAssumption, CacheShape, NEW kind \in Concerns,
           UNCHANGED replaced \/ replaced' = Cache!Committed(kind),
           NEW x, x.key \in Cache!Keys, Cache!KindOf(x.key) # kind
    PROVE  Cache!Stale(x)' = Cache!Stale(x)
<1>1. replaced \in [Concerns -> Seq(0..MaxTime)] /\ Cache!KindOf(x.key) \in Concerns
  BY KeyFacts DEF CacheShape, ReplacedShape
<1>2. replaced'[Cache!KindOf(x.key)] = replaced[Cache!KindOf(x.key)]
  BY <1>1 DEF Cache!Committed
<1> QED
  BY <1>2 DEF Cache!Stale, Cache!Version

LEMMA EndEditMarked ==
    ASSUME Cache!CacheAssumption, Marked, NEW kind \in Concerns, Cache!EndEdit(kind)
    PROVE  StoresMarked' /\ ReadersMarked'
<1>1. CacheShape /\ reader \in [Readers -> ReaderType]
  BY DEF Marked, Timely, CacheShape
<1>2. /\ UNCHANGED <<Cache!stores, reader>>
      /\ writer[kind].pc = "dropped" /\ writer[kind].left = <<>> /\ writer'[kind].pc = "idle"
      /\ \A other \in Concerns : other # kind => writer'[other] = writer[other]
      /\ UNCHANGED replaced \/ replaced' = Cache!Committed(kind)
  BY <1>1, EndEditSteps
<1>3. Live' \subseteq Live
  BY <1>1, <1>2, SameStores DEF Updates
<1>4. ASSUME NEW x, x.key \in Cache!Keys, x.why = "none",
             Cache!Stale(x) \/ Under(x.key) => x.why # "none"
      PROVE  ~Cache!Stale(x)' /\ ~Under(x.key)'
  <2>1. CASE Cache!KindOf(x.key) = kind
    <3>1. Entries(writer[kind].left) = {}
      BY <1>2 DEF Entries
    <3>2. Under(x.key)
      BY <1>2, <2>1, <3>1 DEF Under
    <3> QED
      BY <1>4, <3>2
  <2>2. CASE Cache!KindOf(x.key) # kind
    <3>1. Cache!Stale(x)' = Cache!Stale(x)
      BY <1>1, <1>2, <1>4, <2>2, StaleByCommit
    <3>2. Under(x.key)' = Under(x.key)
      BY <1>2, <1>4, <2>2, KeyFacts DEF Under
    <3> QED
      BY <1>4, <3>1, <3>2
  <2> QED
    BY <2>1, <2>2
<1>5. StoresMarked'
  <2> SUFFICES ASSUME NEW e \in Live', e.why = "none"
               PROVE  ~Cache!Stale(e)' /\ ~Under(e.key)'
    BY DEF StoresMarked
  <2>1. e \in Live /\ e.key \in Cache!Keys
    BY <1>1, <1>3, CacheFacts
  <2> QED
    BY <1>4, <2>1 DEF Marked, StoresMarked
<1>6. ReadersMarked'
  <2> SUFFICES ASSUME NEW s \in Readers, reader[s].pc # "idle", reader[s].why = "none"
               PROVE  ~Under(reader[s].key)' /\ (reader[s].pc = "read" => ~Cache!Stale(reader[s])')
    BY <1>2 DEF ReadersMarked
  <2>1. PICK x \in ReaderType : x = reader[s]
    BY <1>1
  <2>2. /\ x.key \in Cache!Keys /\ x.why = "none" /\ ~Under(x.key)
        /\ x.pc = "read" => ~Cache!Stale(x)
    BY <2>1, ReaderFacts DEF Marked, ReadersMarked
  <2>3. Under(reader[s].key)' = Under(x.key)'
    BY <1>2, <2>1 DEF Under
  <2>4. Cache!Stale(reader[s])' = Cache!Stale(x)'
    BY <1>2, <2>1 DEF Cache!Stale, Cache!Version
  <2>5. ~Under(x.key)'
    <3>1. CASE Cache!KindOf(x.key) = kind
      BY <1>2, <3>1 DEF Under
    <3>2. CASE Cache!KindOf(x.key) # kind
      BY <1>2, <2>2, <3>2, KeyFacts DEF Under
    <3> QED
      BY <3>1, <3>2
  <2>6. x.pc = "read" => ~Cache!Stale(x)'
    BY <1>4, <2>2
  <2> QED
    BY <2>1, <2>3, <2>4, <2>5, <2>6
<1> QED
  BY <1>5, <1>6
LEMMA SilentMarked ==
    ASSUME Cache!CacheAssumption, Marked, NEW kind \in Concerns, Cache!Silent(kind)
    PROVE  StoresMarked' /\ ReadersMarked'
<1>1. CacheShape /\ reader \in [Readers -> ReaderType]
  BY DEF Marked, Timely, CacheShape
<1>2. /\ writer' = writer /\ replaced' = Cache!Committed(kind)
      /\ \A e \in Live' : \E d \in Live : e = Cache!Silenced(d, kind)
      /\ reader' = [r \in Readers |-> IF reader[r].pc = "read"
                                      THEN Cache!Silenced(reader[r], kind) ELSE reader[r]]
  BY <1>1, SilentSteps
<1>3. StoresMarked'
  <2> SUFFICES ASSUME NEW e \in Live', e.why = "none"
               PROVE  ~Cache!Stale(e)' /\ ~Under(e.key)'
    BY DEF StoresMarked
  <2>1. PICK d \in Live : e = Cache!Silenced(d, kind)
    BY <1>2
  <2>2. d \in Cache!Entry /\ d.key \in Cache!Keys
    BY <1>1, CacheFacts
  <2>3. /\ e.key = d.key /\ e.value = d.value /\ d.why = "none"
        /\ Cache!KindOf(d.key) # kind
    BY <2>1, <2>2, SilencedEntry
  <2>4. ~Cache!Stale(d) /\ ~Under(d.key)
    BY <2>3 DEF Marked, StoresMarked
  <2>5. Cache!Stale(d)' = Cache!Stale(d)
    BY <1>1, <1>2, <2>2, <2>3, StaleByCommit
  <2>6. Cache!Stale(e)' = Cache!Stale(d)' /\ Under(e.key)' = Under(d.key)
    BY <1>2, <2>3 DEF Cache!Stale, Under
  <2> QED
    BY <2>4, <2>5, <2>6
<1>4. ReadersMarked'
  <2> SUFFICES ASSUME NEW s \in Readers, reader'[s].pc # "idle", reader'[s].why = "none"
               PROVE  ~Under(reader[s].key)'
                      /\ (reader'[s].pc = "read" => ~Cache!Stale(reader[s])')
    BY DEF ReadersMarked
  <2>1. PICK x \in ReaderType : x = reader[s]
    BY <1>1
  <2>2. CASE x.pc = "read"
    <3>1. /\ x.key \in Cache!Keys /\ reader'[s] = Cache!Silenced(x, kind)
      BY <1>2, <2>1, <2>2, ReaderFacts
    <3>2. /\ reader'[s].key = x.key /\ reader'[s].value = x.value /\ x.why = "none"
          /\ Cache!KindOf(x.key) # kind
      BY <2>2, <3>1, SilencedReader
    <3>3. ~Cache!Stale(x) /\ ~Under(x.key)
      BY <2>1, <2>2, <3>2 DEF Marked, ReadersMarked
    <3>4. Cache!Stale(x)' = Cache!Stale(x)
      BY <1>1, <1>2, <3>1, <3>2, StaleByCommit
    <3>5. Cache!Stale(reader[s])' = Cache!Stale(x)' /\ Under(reader[s].key)' = Under(x.key)
      BY <1>2, <3>2 DEF Cache!Stale, Cache!Version, Under
    <3> QED
      BY <3>3, <3>4, <3>5
  <2>3. CASE x.pc # "read"
    <3>1. reader'[s] = reader[s] /\ reader[s].pc # "read"
      BY <1>2, <2>1, <2>3
    <3>2. ~Under(reader[s].key)
      BY <3>1 DEF Marked, ReadersMarked
    <3>3. Under(reader[s].key)' = Under(reader[s].key)
      BY <1>2, <3>1 DEF Under
    <3> QED
      BY <3>1, <3>2, <3>3
  <2> QED
    BY <2>2, <2>3
<1> QED
  BY <1>3, <1>4

LEMMA RestartMarked ==
    ASSUME Cache!CacheAssumption, Marked, Cache!Restart
    PROVE  StoresMarked' /\ ReadersMarked'
<1>1. CacheShape
  BY DEF Marked, Timely
<1>2. /\ \A kind \in Concerns : writer'[kind].pc = "idle"
      /\ reader' = [r \in Readers |-> Cache!Idle] /\ StoresRemain
      /\ \A e \in Live' : Cache!Stale(e) => e.why # "none"
      /\ replaced' = replaced
  BY <1>1, RestartSteps
<1>3. StoresMarked'
  <2> SUFFICES ASSUME NEW e \in Live', Cache!Stale(e)' \/ Under(e.key)' PROVE e.why # "none"
    BY DEF StoresMarked
  <2>1. e.key \in Cache!Keys
    <3>1. Live' \subseteq Cache!Entry
      BY <1>2 DEF StoresRemain, StoreShape, Live, Entries
    <3> QED
      BY <1>1, <3>1, CacheFacts
  <2>2. ~Under(e.key)'
    BY <1>2, <2>1, KeyFacts DEF Under
  <2>3. Cache!Stale(e)' = Cache!Stale(e)
    BY <1>2, SameReplaced
  <2> QED
    BY <1>2, <2>2, <2>3
<1>4. ReadersMarked'
  BY <1>2, IdleType DEF ReadersMarked
<1> QED
  BY <1>3, <1>4

LEMMA MarkedStep ==
    ASSUME Cache!CacheAssumption, CommitFirst = FALSE, Marked,
           [Cache!Next]_Cache!cacheVars
    PROVE  Marked'
<1>0. Timely
  BY DEF Marked
<1> SUFFICES StoresMarked' /\ ReadersMarked'
  BY <1>0, TimelyStep DEF Marked
<1>1. ASSUME NEW r \in Readers, Cache!Read(r) PROVE StoresMarked' /\ ReadersMarked'
  BY <1>1, ReadMarked
<1>2. ASSUME NEW r \in Readers, Cache!Store(r) PROVE StoresMarked' /\ ReadersMarked'
  BY <1>2, StoreMarked
<1>3. ASSUME NEW r \in Readers, NEW k \in Cache!Keys, Cache!Hit(r, k)
      PROVE  StoresMarked' /\ ReadersMarked'
  <2>1. Updates({}) /\ UNCHANGED <<replaced, reader, writer>>
    BY <1>0, <1>3, HitTimely DEF Cache!Hit
  <2> QED
    BY <2>1, QuietMarked
<1>4. ASSUME NEW r \in Readers, NEW k \in Cache!Keys, Cache!Begin(r, k)
      PROVE  StoresMarked' /\ ReadersMarked'
  BY <1>4, BeginMarked
<1>5. ASSUME NEW kind \in Concerns, Cache!Edit(kind) PROVE StoresMarked' /\ ReadersMarked'
  BY <1>5, EditMarked
<1>6. ASSUME NEW kind \in Concerns, Cache!Drop(kind) PROVE StoresMarked' /\ ReadersMarked'
  BY <1>6, DropMarked
<1>7. ASSUME NEW kind \in Concerns, Cache!EndEdit(kind) PROVE StoresMarked' /\ ReadersMarked'
  BY <1>7, EndEditMarked
<1>8. ASSUME NEW kind \in Concerns, Cache!Silent(kind) PROVE StoresMarked' /\ ReadersMarked'
  BY <1>8, SilentMarked
<1>9. CASE Cache!Restart
  BY <1>9, RestartMarked
<1>10. CASE Cache!Tick
  <2>1. Updates({}) /\ UNCHANGED <<replaced, reader, writer>>
    BY <1>0, <1>10, TickTimely DEF Cache!Tick
  <2> QED
    BY <2>1, QuietMarked
<1>11. CASE UNCHANGED Cache!cacheVars
  <2>1. Updates({}) /\ UNCHANGED <<replaced, reader, writer>>
    BY <1>0, <1>11, SameStores DEF Cache!cacheVars, Cache!stores, Timely
  <2> QED
    BY <2>1, QuietMarked
<1> QED
  BY <1>1, <1>2, <1>3, <1>4, <1>5, <1>6, <1>7, <1>8, <1>9, <1>10, <1>11 DEF Cache!Next

LEMMA CacheInitially ==
    ASSUME Cache!CacheAssumption, Cache!Init PROVE Marked
<1>1. /\ replaced = [kind \in Concerns |-> <<>>] /\ redis = {} /\ mem = <<>>
      /\ backend \in {"redis", "memory"}
      /\ reader = [r \in Readers |-> Cache!Idle]
      /\ writer = [kind \in Concerns |-> [pc |-> "idle", left |-> <<>>]]
      /\ clock = 0 /\ faults = 0 /\ reboots = 0
  BY DEF Cache!Init
<1>2. {MaxTime, MaxEdits, MaxFaults, MaxReboots} \subseteq Nat
  BY KeyFacts
<1>3. StoreShape /\ Entries(mem) = {} /\ Live = {}
  BY <1>1, <1>2, EmptyTable DEF StoreShape, Live
<1>4. ReplacedShape
  BY <1>1, <1>2 DEF ReplacedShape, Cache!Version
<1>5. WriterShape
  BY <1>1, StartedDrop DEF WriterShape
<1>6. CacheShape
  BY <1>1, <1>2, <1>3, <1>4, <1>5, IdleType DEF CacheShape
<1>7. StoresTimely /\ StoresMarked
  BY <1>1, <1>3 DEF StoresTimely, StoresMarked
<1>8. ReadersTimely /\ ReadersMarked
  BY <1>1, IdleType DEF ReadersTimely, ReadersMarked
<1> QED
  BY <1>6, <1>7, <1>8 DEF Timely, Marked

LEMMA ElementsOf ==
    ASSUME NEW X, NEW s \in Seq(X)
    PROVE  Entries(s) \subseteq X /\ \A i \in 1..Len(s) : s[i] \in X
BY DEF Entries

LEMMA CacheTypes ==
    ASSUME Cache!CacheAssumption, CacheShape PROVE Cache!TypeOK
<1>1. \A kind \in Concerns : /\ Cache!Version(kind) <= MaxEdits
                             /\ Cache!ToSet(replaced[kind]) \subseteq 0..MaxTime
  <2> TAKE kind \in Concerns
  <2>1. replaced[kind] \in Seq(0..MaxTime) /\ Cache!Version(kind) <= MaxEdits
    BY CacheFacts
  <2>2. Cache!ToSet(replaced[kind]) = Entries(replaced[kind])
    BY <2>1, CacheToSet
  <2>3. Entries(replaced[kind]) \subseteq 0..MaxTime
    BY <2>1, ElementsOf
  <2> QED
    BY <2>1, <2>2, <2>3
<1>2. /\ redis \subseteq Cache!Entry /\ Cache!ToSet(mem) \subseteq Cache!Entry
      /\ \A d, e \in redis : d.key = e.key => d = e
      /\ backend \in {"redis", "memory"} /\ faults \in 0..MaxFaults
  BY CacheFacts DEF CacheShape, StoreShape
<1>3. \A i, j \in DOMAIN mem : mem[i].key = mem[j].key => i = j
  <2>1. mem \in Seq(Cache!Entry) /\ OneEach(mem)
    BY CacheFacts
  <2> QED
    BY <2>1 DEF OneEach
<1>4. DOMAIN reader = Readers /\ clock \in 0..MaxTime /\ reboots \in 0..MaxReboots
  BY DEF CacheShape
<1>5. writer \in [Concerns -> UNION {[pc : {"idle", "dropping", "dropped"},
                                      left : {SubSeq(Drops[kind], i, Len(Drops[kind])) :
                                              i \in 1..(Len(Drops[kind]) + 1)}] :
                                     kind \in Concerns}]
  <2> DEFINE T(kind) == [pc : {"idle", "dropping", "dropped"}, left : Rests(Drops[kind])]
  <2>1. DOMAIN writer = Concerns /\ \A kind \in Concerns : writer[kind] \in T(kind)
    BY DEF CacheShape, WriterShape
  <2>2. writer = [kind \in Concerns |-> writer[kind]]
    BY DEF CacheShape, WriterShape
  <2> HIDE DEF T
  <2>3. writer \in [Concerns -> UNION {T(kind) : kind \in Concerns}]
    BY <2>1, <2>2
  <2> QED
    BY <2>3 DEF T, Rests
<1> QED
  BY <1>1, <1>2, <1>3, <1>4, <1>5 DEF Cache!TypeOK

(* The types hold: the two stores hold at most one entry of a key.         *)
THEOREM CacheTypeCorrect ==
    ASSUME Cache!CacheAssumption PROVE Cache!Spec => []Cache!TypeOK
<1>1. Cache!Init => Timely
  BY CacheInitially DEF Marked
<1>2. Timely /\ [Cache!Next]_Cache!cacheVars => Timely'
  BY TimelyStep
<1>3. Timely => Cache!TypeOK
  BY CacheTypes DEF Timely
<1> QED
  BY <1>1, <1>2, <1>3, PTL DEF Cache!Spec

LEMMA MarkedIsExcused ==
    ASSUME Cache!CacheAssumption, Marked PROVE Cache!StaleIsExcused
<1>1. CacheShape /\ StoresTimely /\ StoresMarked
  BY DEF Marked, Timely
<1> SUFFICES ASSUME NEW e \in Cache!Visible, Cache!Stale(e)
             PROVE  /\ e.why # "none"
                    /\ clock <= Replacement(e) + Ttl[e.key]
  BY DEF Cache!StaleIsExcused, Replacement
<1>2. e \in Live /\ clock < e.until
  <2>1. Cache!ToSet(mem) = Entries(mem)
    BY <1>1, CacheFacts
  <2> QED
    BY <2>1 DEF Cache!Visible, Cache!Lives, Live
<1>3. e \in redis \cup Entries(mem) /\ e \in Cache!Entry
  BY <1>1, <1>2, CacheFacts
<1>4. EntryTimely(e) /\ e.why # "none"
  BY <1>1, <1>2, <1>3 DEF StoresTimely, StoresMarked
<1>5. e.key \in Cache!Keys /\ e.until \in Nat /\ e.value \in Nat /\ clock \in Nat
  BY <1>1, <1>3, CacheFacts
<1>6. Ttl[e.key] \in Nat /\ Cache!KindOf(e.key) \in Concerns /\ MaxTime \in Nat
  BY <1>5, KeyFacts
<1>7. Replacement(e) \in Nat
  <2>1. /\ replaced[Cache!KindOf(e.key)] \in Seq(0..MaxTime)
        /\ Cache!Version(Cache!KindOf(e.key)) \in Nat
    BY <1>1, <1>6, CacheFacts
  <2>2. e.value + 1 \in 1..Cache!Version(Cache!KindOf(e.key))
    BY <1>4, <1>5, <2>1 DEF EntryTimely, Known, Cache!Stale
  <2>3. e.value + 1 \in 1..Len(replaced[Cache!KindOf(e.key)])
    BY <2>2 DEF Cache!Version
  <2>4. replaced[Cache!KindOf(e.key)][e.value + 1] \in 0..MaxTime
    BY <2>1, <2>3, ElementsOf
  <2> QED
    BY <1>6, <2>4 DEF Replacement
<1> QED
  BY <1>2, <1>4, <1>5, <1>6, <1>7 DEF EntryTimely

(* An answer older than the database was computed while an edit was under  *)
(* way, was left in Redis by an earlier process or was changed by what     *)
(* drops nothing, and it is served no longer than its time to live and one *)
(* computation after the change, whatever keys, kinds, readers, sizes and  *)
(* times to live there are (services/response_cache.py, api.py).           *)
THEOREM StaleAnswersExcused ==
    ASSUME Cache!CacheAssumption, CommitFirst = FALSE
    PROVE  Cache!Spec => []Cache!StaleIsExcused
<1>1. Cache!Init => Marked
  BY CacheInitially
<1>2. Marked /\ [Cache!Next]_Cache!cacheVars => Marked'
  BY MarkedStep
<1>3. Marked => Cache!StaleIsExcused
  BY MarkedIsExcused
<1> QED
  BY <1>1, <1>2, <1>3, PTL DEF Cache!Spec
=============================================================================
