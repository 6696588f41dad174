----------------------- MODULE MetadataSources_proofs ------------------------
(***************************************************************************)
(* The sources of metadata.  The registry (ProviderRegistry), for any      *)
(* sources, searches, slots, waits and restarts: the slots in use are      *)
(* counted right, no budget is overspent, and a source is left alone for   *)
(* as long as it asked unless it answers another call meanwhile.           *)
(* The r18.dev dump (R18Dump), for any number of versions, URLs, retries   *)
(* and faults: a finished dump is never spliced from two versions, unless  *)
(* a crash came between the sidecar and the truncation of its partial      *)
(* file.  The works their records are merged into (Catalogue), for any     *)
(* number of files, records, requests and operations: a file is shown with *)
(* the state and the work its record has, and what the user wrote or       *)
(* locked, and the best source of a cast, stay.                            *)
(***************************************************************************)
EXTENDS ProviderRegistry, Sequences, FiniteSets, FiniteSetTheorems, SequenceTheorems,
        WellFoundedInduction, TLAPS

Calls == Searches \X Providers
RunningCalls == {c \in Calls : call[c[1]][c[2]] = "running"}
(* A slot is free or held by one running call.                             *)
SlotsCounted ==
    IsFiniteSet(RunningCalls) /\ Cardinality(RunningCalls) + free = Slots
SInv == TypeOK /\ SlotsCounted

Used(q, p) == IF q.day = day THEN q.counts[p] ELSE 0
Bounded(q) ==
    /\ q.day <= day
    /\ \A p \in Providers : made[p] <= Used(q, p)
    /\ \A p \in Providers \ Exempt : q.counts[p] <= DailyLimit
(* What is charged, in memory and on disk, covers what was searched.       *)
BudgetInv == Bounded(spent) /\ Bounded(ledger)

(* What a source last asked for is over or covered by its cooldown, unless *)
(* it answered another call since.                                         *)
AskedInv ==
    \A p \in Providers : asked[p] <= now \/ asked[p] <= health[p].until \/ p \in late

-----------------------------------------------------------------------------
LEMMA Initially ==
    ASSUME ProviderAssumption, Init PROVE SInv /\ BudgetInv /\ AskedInv
<1>1. TypeOK
  BY DEF ProviderAssumption, Init, TypeOK, Counts, NoHealth, Zero, Idle
<1>2. \A s \in Searches, p \in Providers : call[s][p] = "idle"
  BY DEF Init, Idle
<1>3. RunningCalls = {}
  BY <1>2 DEF RunningCalls, Calls
<1>4. SlotsCounted
  BY <1>3, FS_EmptySet DEF SlotsCounted, Init, ProviderAssumption
<1>5. BudgetInv
  BY DEF ProviderAssumption, Init, BudgetInv, Bounded, Used, Zero
<1>6. AskedInv
  <2> SUFFICES ASSUME NEW p \in Providers PROVE asked[p] <= now
    BY Zenon DEF AskedInv
  <2> QED
    BY DEF Init, Zero
<1> QED
  BY <1>1, <1>4, <1>5, <1>6 DEF SInv

(* One call changes.                                                       *)
LEMMA CallMoved ==
    ASSUME TypeOK, NEW s \in Searches, NEW p \in Providers,
           NEW state \in {"idle", "queued", "running"},
           call' = [call EXCEPT ![s][p] = state]
    PROVE  /\ call' \in [Searches -> [Providers -> {"idle", "queued", "running"}]]
           /\ \A t \in Searches, q \in Providers :
                call'[t][q] = IF t = s /\ q = p THEN state ELSE call[t][q]
           /\ state = "running" => RunningCalls' = RunningCalls \cup {<<s, p>>}
           /\ state # "running" => RunningCalls' = RunningCalls \ {<<s, p>>}
<1>1. call \in [Searches -> [Providers -> {"idle", "queued", "running"}]]
  BY DEF TypeOK
<1>2. \A t \in Searches, q \in Providers :
        call'[t][q] = IF t = s /\ q = p THEN state ELSE call[t][q]
  BY <1>1
<1>3. call' \in [Searches -> [Providers -> {"idle", "queued", "running"}]]
  BY <1>1
<1>4. \A c \in Calls : /\ c[1] \in Searches /\ c[2] \in Providers
                       /\ c = <<s, p>> <=> c[1] = s /\ c[2] = p
  BY DEF Calls
<1>5. \A c \in Calls : call'[c[1]][c[2]] =
                         IF c = <<s, p>> THEN state ELSE call[c[1]][c[2]]
  BY <1>2, <1>4
<1>6. <<s, p>> \in Calls
  BY DEF Calls
<1>7. /\ state = "running" => RunningCalls' = RunningCalls \cup {<<s, p>>}
      /\ state # "running" => RunningCalls' = RunningCalls \ {<<s, p>>}
  BY <1>5, <1>6 DEF RunningCalls, Calls
<1> QED
  BY <1>2, <1>3, <1>7

LEMMA BeginKeeps ==
    ASSUME ProviderAssumption, TypeOK,
           NEW s \in Searches, NEW eligible, Begin(s, eligible)
    PROVE  /\ call' \in [Searches -> [Providers -> {"idle", "queued", "running"}]]
           /\ searched' \in 0..MaxSearches
           /\ \A t \in Searches, p \in Providers :
                call'[t][p] = "running" <=> call[t][p] = "running"
           /\ RunningCalls' = RunningCalls
<1>1. /\ call \in [Searches -> [Providers -> {"idle", "queued", "running"}]]
      /\ searched \in 0..MaxSearches
  BY DEF TypeOK
<1> DEFINE fresh == [p \in Providers |->
                       IF p \in eligible /\ ~Cooling(p) THEN "queued" ELSE "idle"]
<1>2. call' = [call EXCEPT ![s] = fresh] /\ call[s] = Idle /\ searched' = searched + 1
      /\ searched < MaxSearches
  BY DEF Begin
<1>3. /\ fresh \in [Providers -> {"idle", "queued", "running"}]
      /\ \A p \in Providers : fresh[p] # "running" /\ call[s][p] # "running"
  BY <1>2 DEF Idle
<1> HIDE DEF fresh
<1>4. call' \in [Searches -> [Providers -> {"idle", "queued", "running"}]]
  BY <1>1, <1>2, <1>3
<1>5. \A t \in Searches, p \in Providers :
        call'[t][p] = "running" <=> call[t][p] = "running"
  BY <1>1, <1>2, <1>3
<1>6. RunningCalls' = RunningCalls
  BY <1>5 DEF RunningCalls, Calls
<1>7. searched' \in 0..MaxSearches
  BY <1>1, <1>2 DEF ProviderAssumption
<1> QED
  BY <1>4, <1>5, <1>6, <1>7

(* A charge keeps the types of the counts.                                 *)
LEMMA ChargedTypes ==
    ASSUME TypeOK, NEW eligible
    PROVE  /\ Charged(eligible) \in Counts
           /\ Rolled \in [Providers -> Nat]
           /\ Charged(eligible).day = day
           /\ \A p \in Providers :
                Charged(eligible).counts[p] =
                  IF p \in Affordable(eligible) THEN Rolled[p] + 1 ELSE Rolled[p]
<1>1. Rolled \in [Providers -> Nat]
  BY DEF Rolled, TypeOK, Counts, Zero
<1>2. day \in 0..MaxDays
  BY DEF TypeOK
<1> QED
  BY <1>1, <1>2 DEF Charged, Counts

-----------------------------------------------------------------------------
(* Types and slots.                                                        *)
LEMMA ReturnsKeeps ==
    ASSUME SInv, NEW s \in Searches, NEW p \in Providers, Returns(s, p)
    PROVE  /\ call' \in [Searches -> [Providers -> {"idle", "queued", "running"}]]
           /\ free' \in 0..Slots /\ SlotsCounted'
<1>1. call' = [call EXCEPT ![s][p] = "idle"] /\ free' = free + 1 /\ call[s][p] = "running"
  BY DEF Returns
<1>2. /\ call' \in [Searches -> [Providers -> {"idle", "queued", "running"}]]
      /\ RunningCalls' = RunningCalls \ {<<s, p>>}
  BY <1>1, CallMoved, "idle" # "running" DEF SInv
<1>3. <<s, p>> \in RunningCalls
  BY <1>1 DEF RunningCalls, Calls
<1>4. /\ IsFiniteSet(RunningCalls')
      /\ Cardinality(RunningCalls') = Cardinality(RunningCalls) - 1
  BY <1>2, <1>3, FS_RemoveElement DEF SInv, SlotsCounted
<1>5. Cardinality(RunningCalls) \in Nat /\ Cardinality(RunningCalls') \in Nat
  BY <1>4, FS_CardinalityType DEF SInv, SlotsCounted
<1>6. free \in Nat /\ Slots = Cardinality(RunningCalls) + free
  BY DEF SInv, SlotsCounted, TypeOK
<1> QED
  BY <1>1, <1>2, <1>4, <1>5, <1>6 DEF SlotsCounted

LEMMA TakeKeeps ==
    ASSUME SInv, NEW s \in Searches, NEW p \in Providers, Take(s, p)
    PROVE  SInv'
<1>1. /\ call[s][p] = "queued" /\ free > 0 /\ free \in 0..Slots
      /\ UNCHANGED <<now, health, asked, late, quota, day, searched, reboots>>
  BY DEF Take, MayTake, SInv, TypeOK
<1>2. CASE call' = [call EXCEPT ![s][p] = "idle"] /\ free' = free
  <2>1. /\ call' \in [Searches -> [Providers -> {"idle", "queued", "running"}]]
        /\ RunningCalls' = RunningCalls \ {<<s, p>>}
    BY <1>2, CallMoved, "idle" # "running" DEF SInv
  <2>2. <<s, p>> \notin RunningCalls
    BY <1>1 DEF RunningCalls
  <2>3. RunningCalls' = RunningCalls
    BY <2>1, <2>2
  <2> QED
    BY <1>1, <1>2, <2>1, <2>3 DEF SInv, SlotsCounted, TypeOK, quota
<1>3. CASE call' = [call EXCEPT ![s][p] = "running"] /\ free' = free - 1
  <2>1. /\ call' \in [Searches -> [Providers -> {"idle", "queued", "running"}]]
        /\ RunningCalls' = RunningCalls \cup {<<s, p>>}
    BY <1>3, CallMoved DEF SInv
  <2>2. <<s, p>> \notin RunningCalls
    BY <1>1 DEF RunningCalls
  <2>3. /\ IsFiniteSet(RunningCalls')
        /\ Cardinality(RunningCalls') = Cardinality(RunningCalls) + 1
    BY <2>1, <2>2, FS_AddElement DEF SInv, SlotsCounted
  <2>4. Cardinality(RunningCalls) \in Nat
    BY FS_CardinalityType DEF SInv, SlotsCounted
  <2>5. free' \in 0..Slots /\ SlotsCounted'
    BY <1>1, <1>3, <2>3, <2>4 DEF SInv, SlotsCounted
  <2> QED
    BY <1>1, <2>1, <2>5 DEF SInv, TypeOK, quota
<1> QED
  BY <1>2, <1>3 DEF Take

LEMMA SlotsKept ==
    ASSUME ProviderAssumption, SInv, [Next]_providerVars PROVE SInv'
<1> USE DEF SInv
<1>1. CASE UNCHANGED providerVars
  BY <1>1 DEF providerVars, registry, quota, TypeOK, SlotsCounted, RunningCalls
<1>2. CASE \E s \in Searches : Searching(s)
  <2>1. PICK s \in Searches, eligible \in SUBSET Providers :
          Search(s, eligible) \/ Rescrape(s, eligible) \/ RescrapeRefused(s, eligible)
    BY <1>2 DEF Searching
  <2>2. CASE Search(s, eligible)
    BY <2>2, BeginKeeps DEF Search, TypeOK, SlotsCounted, quota
  <2>3. CASE Rescrape(s, eligible)
    <3>1. /\ spent' \in Counts /\ ledger' \in Counts
          /\ made' \in [Providers -> Nat]
      BY <2>3, ChargedTypes DEF Rescrape, TypeOK
    <3>2. /\ call' \in [Searches -> [Providers -> {"idle", "queued", "running"}]]
          /\ searched' \in 0..MaxSearches /\ RunningCalls' = RunningCalls
      BY <2>3, BeginKeeps DEF Rescrape
    <3> QED
      BY <2>3, <3>1, <3>2 DEF Rescrape, TypeOK, SlotsCounted
  <2>4. CASE RescrapeRefused(s, eligible)
    BY <2>4, ChargedTypes DEF RescrapeRefused, TypeOK, SlotsCounted, RunningCalls, registry
  <2> QED
    BY <2>1, <2>2, <2>3, <2>4
<1>3. CASE \E s \in Searches, p \in Providers : Call(s, p)
  <2>1. PICK s \in Searches, p \in Providers : Call(s, p)
    BY <1>3
  <2>2. CASE Take(s, p)
    BY <2>2, TakeKeeps
  <2>3. CASE Succeeds(s, p) \/ Fails(s, p) \/ RateLimited(s, p) \/ Errs(s, p)
    <3>1. Returns(s, p)
      BY <2>3 DEF Succeeds, Fails, RateLimited, Errs
    <3>2. /\ health \in [Providers -> [failures : Nat, until : Nat]]
          /\ asked \in [Providers -> Nat] /\ now \in Nat /\ Cooldown \in Nat
          /\ health[p].failures \in Nat /\ health[p].until \in Nat /\ asked[p] \in Nat
      BY DEF TypeOK, ProviderAssumption
    <3>3. /\ health' \in [Providers -> [failures : Nat, until : Nat]]
          /\ asked' \in [Providers -> Nat]
      <4>1. CASE Succeeds(s, p)
        BY <3>2, <4>1 DEF Succeeds, NoHealth
      <4>2. CASE Fails(s, p)
        <5> DEFINE end == IF health[p].failures + 1 >= Threshold THEN now + Cooldown
                          ELSE health[p].until
        <5>1. end \in Nat /\ health[p].failures + 1 \in Nat
          BY <3>2
        <5>2. /\ health' = [health EXCEPT ![p] = [failures |-> @.failures + 1,
                                                  until |-> end]]
              /\ asked' = asked
          BY <4>2 DEF Fails
        <5> HIDE DEF end
        <5> QED
          BY <3>2, <5>1, <5>2
      <4>3. CASE RateLimited(s, p)
        <5>1. PICK wait \in Waits \cup {Cooldown} :
                /\ health' = [health EXCEPT ![p] = [failures |-> @.failures + 1,
                                                    until |-> now + Later(1, wait)]]
                /\ asked' = IF wait \in Waits
                            THEN [asked EXCEPT ![p] = Later(@, now + wait)] ELSE asked
          BY <4>3 DEF RateLimited
        <5>2. wait \in Nat
          BY DEF ProviderAssumption
        <5>3. /\ now + Later(1, wait) \in Nat /\ health[p].failures + 1 \in Nat
              /\ Later(asked[p], now + wait) \in Nat
          BY <3>2, <5>2 DEF Later
        <5> QED
          BY <3>2, <5>1, <5>3
      <4>4. CASE Errs(s, p)
        BY <3>2, <4>4 DEF Errs
      <4> QED
        BY <2>3, <4>1, <4>2, <4>3, <4>4
    <3>4. late' \subseteq Providers
      BY <2>3 DEF Succeeds, Fails, RateLimited, Errs, AnswersLate, TypeOK
    <3> QED
      BY <3>1, <3>3, <3>4, ReturnsKeeps DEF Returns, TypeOK, quota
  <2> QED
    BY <2>1, <2>2, <2>3 DEF Call
<1>4. CASE ClearCooldown(Providers) \/ \E p \in Providers : ClearCooldown({p})
  <2>1. PICK cleared \in SUBSET Providers : ClearCooldown(cleared)
    BY <1>4
  <2>2. /\ health' \in [Providers -> [failures : Nat, until : Nat]]
        /\ asked' \in [Providers -> Nat] /\ late' \subseteq Providers
    BY <2>1 DEF ClearCooldown, TypeOK, NoHealth
  <2>3. UNCHANGED <<now, free, call, spent, ledger, made, day, searched, reboots>>
    BY <2>1 DEF ClearCooldown, quota
  <2>4. SlotsCounted'
    BY <2>3 DEF SlotsCounted, RunningCalls
  <2> QED
    BY <2>2, <2>3, <2>4 DEF TypeOK, Counts
<1>5. CASE Tick
  <2>1. now' \in 0..MaxTime
    BY <1>5 DEF Tick, TypeOK, ProviderAssumption
  <2>2. UNCHANGED <<health, free, call, asked, late, spent, ledger, made, day, searched,
                    reboots>>
    BY <1>5 DEF Tick, registry, quota
  <2>3. SlotsCounted'
    BY <2>2 DEF SlotsCounted, RunningCalls
  <2> QED
    BY <2>1, <2>2, <2>3 DEF TypeOK, Counts
<1>6. CASE Midnight
  <2>1. day' \in 0..MaxDays /\ made' \in [Providers -> Nat]
    BY <1>6 DEF Midnight, TypeOK, Zero, ProviderAssumption
  <2>2. UNCHANGED <<now, health, free, call, asked, late, spent, ledger, searched,
                    reboots>>
    BY <1>6 DEF Midnight, registry
  <2>3. SlotsCounted'
    BY <2>2 DEF SlotsCounted, RunningCalls
  <2> QED
    BY <2>1, <2>2, <2>3 DEF TypeOK, Counts
<1>7. CASE Restart
  <2>1. \A s \in Searches, p \in Providers : call'[s][p] = "idle"
    BY <1>7 DEF Restart, Idle
  <2>2. RunningCalls' = {}
    BY <2>1 DEF RunningCalls, Calls
  <2>3. SlotsCounted'
    BY <1>7, <2>2, FS_EmptySet DEF SlotsCounted, Restart, ProviderAssumption
  <2> QED
    BY <1>7, <2>3 DEF Restart, Loaded, TypeOK, Idle, NoHealth, Zero, ProviderAssumption
<1> QED
  BY <1>1, <1>2, <1>3, <1>4, <1>5, <1>6, <1>7 DEF Next

-----------------------------------------------------------------------------
(* The budget.                                                             *)
LEMMA BudgetUntouched ==
    ASSUME BudgetInv, UNCHANGED <<spent, ledger, made, day>> PROVE BudgetInv'
  BY DEF BudgetInv, Bounded, Used

LEMMA ChargedBounded ==
    ASSUME ProviderAssumption, TypeOK, BudgetInv, NEW eligible
    PROVE  /\ \A p \in Providers : /\ made[p] \in Nat /\ Rolled[p] \in Nat
                                   /\ made[p] <= Rolled[p]
           /\ \A p \in Providers \ Exempt : Charged(eligible).counts[p] <= DailyLimit
<1>1. \A p \in Providers : /\ made[p] \in Nat /\ Rolled[p] \in Nat
                           /\ spent.counts[p] \in Nat
  BY ChargedTypes DEF TypeOK, Counts
<1>2. \A p \in Providers : Rolled[p] = Used(spent, p)
  BY DEF Rolled, Used, Zero
<1>3. \A p \in Providers : made[p] <= Rolled[p]
  BY <1>2 DEF BudgetInv, Bounded
<1>4. ASSUME NEW p \in Providers \ Exempt
      PROVE  Rolled[p] <= DailyLimit
  <2>1. spent.counts[p] <= DailyLimit /\ DailyLimit \in Nat
    BY DEF BudgetInv, Bounded, ProviderAssumption
  <2>2. Rolled[p] \in {spent.counts[p], 0}
    BY <1>2 DEF Used
  <2> QED
    BY <2>1, <2>2
<1>5. ASSUME NEW p \in Providers \ Exempt
      PROVE  Charged(eligible).counts[p] <= DailyLimit
  <2>1. /\ Charged(eligible).counts[p] =
             IF p \in Affordable(eligible) THEN Rolled[p] + 1 ELSE Rolled[p]
        /\ Rolled[p] \in Nat /\ DailyLimit \in Nat
    BY <1>1, ChargedTypes DEF ProviderAssumption
  <2>2. p \in Affordable(eligible) => Rolled[p] < DailyLimit
    BY DEF Affordable
  <2> QED
    BY <1>4, <2>1, <2>2
<1> QED
  BY <1>1, <1>3, <1>5

LEMMA BudgetStays ==
    ASSUME ProviderAssumption, TypeOK, BudgetInv, [Next]_providerVars PROVE BudgetInv'
<1>1. CASE UNCHANGED <<spent, ledger, made, day>>
  BY <1>1, BudgetUntouched
<1>2. CASE \E s \in Searches : Searching(s)
  <2>1. PICK s \in Searches, eligible \in SUBSET Providers :
          Search(s, eligible) \/ Rescrape(s, eligible) \/ RescrapeRefused(s, eligible)
    BY <1>2 DEF Searching
  <2> DEFINE charge == Charged(eligible)
  <2>2. /\ charge.day = day /\ day \in Nat
        /\ \A p \in Providers :
             /\ made[p] \in Nat /\ Rolled[p] \in Nat /\ made[p] <= Rolled[p]
             /\ charge.counts[p] =
                  IF p \in Affordable(eligible) THEN Rolled[p] + 1 ELSE Rolled[p]
        /\ \A p \in Providers \ Exempt : charge.counts[p] <= DailyLimit
    <3>1. charge.day = day /\ day \in Nat
      BY ChargedTypes DEF TypeOK
    <3>2. \A p \in Providers :
            charge.counts[p] =
              IF p \in Affordable(eligible) THEN Rolled[p] + 1 ELSE Rolled[p]
      BY ChargedTypes
    <3>3. /\ \A p \in Providers : /\ made[p] \in Nat /\ Rolled[p] \in Nat
                                   /\ made[p] <= Rolled[p]
          /\ \A p \in Providers \ Exempt : charge.counts[p] <= DailyLimit
      BY ChargedBounded
    <3> QED
      BY <3>1, <3>2, <3>3
  <2> HIDE DEF charge
  <2>3. CASE Search(s, eligible)
    BY <2>3, BudgetUntouched DEF Search, quota
  <2>4. CASE Rescrape(s, eligible)
    <3>1. /\ spent' = charge /\ day' = day
          /\ ledger' = IF Affordable(eligible) = {} THEN ledger ELSE charge
          /\ \A p \in Providers :
               made'[p] = IF p \in Affordable(eligible) THEN made[p] + 1 ELSE made[p]
      BY <2>4 DEF Rescrape, charge
    <3>2. \A p \in Providers : made'[p] <= charge.counts[p]
      BY <2>2, <3>1
    <3>3. Bounded(spent)'
      BY <2>2, <3>1, <3>2 DEF Bounded, Used
    <3>4. CASE Affordable(eligible) = {}
      BY <3>1, <3>3, <3>4 DEF BudgetInv, Bounded, Used
    <3>5. CASE Affordable(eligible) # {}
      BY <3>1, <3>3, <3>5 DEF BudgetInv, Bounded, Used
    <3> QED
      BY <3>4, <3>5
  <2>5. CASE RescrapeRefused(s, eligible)
    <3>1. spent' = charge /\ UNCHANGED <<ledger, made, day>>
      BY <2>5 DEF RescrapeRefused, charge
    <3>2. \A p \in Providers : made[p] <= charge.counts[p]
      BY <2>2
    <3> QED
      BY <2>2, <3>1, <3>2 DEF BudgetInv, Bounded, Used
  <2> QED
    BY <2>1, <2>3, <2>4, <2>5
<1>3. CASE Midnight
  <2>1. /\ day' = day + 1 /\ UNCHANGED <<spent, ledger>>
        /\ \A p \in Providers : made'[p] = 0
    BY <1>3 DEF Midnight, Zero
  <2>2. day \in Nat /\ spent.day \in Nat /\ ledger.day \in Nat
    BY DEF TypeOK, Counts
  <2> QED
    BY <2>1, <2>2 DEF BudgetInv, Bounded, Used
<1>4. CASE Restart
  BY <1>4 DEF Restart, Loaded, BudgetInv, Bounded, Used
<1>5. CASE \/ \E s \in Searches, p \in Providers : Call(s, p)
           \/ ClearCooldown(Providers) \/ \E p \in Providers : ClearCooldown({p})
           \/ Tick
  BY <1>1, <1>5 DEF Call, Take, Succeeds, Fails, RateLimited, Errs, Returns,
                    ClearCooldown, Tick, quota
<1>6. CASE UNCHANGED providerVars
  BY <1>1, <1>6 DEF providerVars, quota
<1> QED
  BY <1>2, <1>3, <1>4, <1>5, <1>6 DEF Next

-----------------------------------------------------------------------------
(* The waits.                                                              *)
LEMMA AskedTypes ==
    ASSUME TypeOK
    PROVE  now \in Nat /\ \A p \in Providers : /\ asked[p] \in Nat
                                               /\ health[p].until \in Nat
                                               /\ health[p] \in [failures : Nat, until : Nat]
  BY DEF TypeOK

LEMMA AskedStays ==
    ASSUME ProviderAssumption, TypeOK, AskedInv, [Next]_providerVars
    PROVE  AskedInv'
<1>1. CASE UNCHANGED providerVars
  BY <1>1 DEF providerVars, registry, AskedInv
<1>2. CASE \E s \in Searches : Searching(s)
  BY <1>2 DEF Searching, Search, Rescrape, RescrapeRefused, registry, AskedInv
<1>3. CASE \E s \in Searches, p \in Providers : Call(s, p)
  <2>1. PICK s \in Searches, p \in Providers : Call(s, p)
    BY <1>3
  <2>2. CASE Take(s, p)
    BY <2>2 DEF Take, AskedInv
  <2>3. CASE Succeeds(s, p) \/ Fails(s, p) \/ RateLimited(s, p) \/ Errs(s, p)
    <3>1. now' = now
      BY <2>3 DEF Succeeds, Fails, RateLimited, Errs, Returns
    <3>2. \A q \in Providers \ {p} :
            asked'[q] = asked[q] /\ health'[q] = health[q] /\ (q \in late' <=> q \in late)
      BY <2>3 DEF Succeeds, Fails, RateLimited, Errs, AnswersLate, TypeOK
    <3>3. asked'[p] <= now' \/ asked'[p] <= health'[p].until \/ p \in late'
      <4>1. CASE Succeeds(s, p) \/ Fails(s, p)
        BY <3>1, <4>1, AskedTypes DEF Succeeds, Fails, AnswersLate
      <4>2. CASE Errs(s, p)
        BY <3>1, <4>2 DEF Errs, AskedInv
      <4>3. CASE RateLimited(s, p)
        <5>1. PICK wait \in Waits \cup {Cooldown} :
                /\ health' = [health EXCEPT ![p] = [failures |-> @.failures + 1,
                                                    until |-> now + Later(1, wait)]]
                /\ asked' = IF wait \in Waits
                            THEN [asked EXCEPT ![p] = Later(@, now + wait)] ELSE asked
                /\ IF wait \in Waits /\ asked[p] <= now + wait
                   THEN late' = late \ {p} ELSE AnswersLate(p)
          BY <4>3 DEF RateLimited
        <5>2. wait \in Nat /\ now \in Nat /\ asked[p] \in Nat
          BY AskedTypes DEF ProviderAssumption
        <5>3. health'[p].until = now + Later(1, wait)
          BY <5>1 DEF TypeOK
        <5>4. CASE wait \in Waits /\ asked[p] <= now + wait
          <6>1. asked'[p] = Later(asked[p], now + wait)
            BY <5>1, <5>4 DEF TypeOK
          <6> QED
            BY <5>2, <5>3, <5>4, <6>1 DEF Later
        <5>5. CASE AnswersLate(p)
          <6>1. asked[p] > now \/ asked[p] <= now
            BY <5>2
          <6>2. asked[p] <= now => asked'[p] <= now + wait
            BY <5>1, <5>2 DEF Later, TypeOK
          <6> QED
            BY <3>1, <5>2, <5>3, <5>5, <6>1, <6>2 DEF AnswersLate, Later
        <5> QED
          BY <5>1, <5>4, <5>5
      <4> QED
        BY <2>3, <4>1, <4>2, <4>3
    <3> QED
      BY <3>1, <3>2, <3>3 DEF AskedInv
  <2> QED
    BY <2>1, <2>2, <2>3 DEF Call
<1>4. CASE ClearCooldown(Providers) \/ \E p \in Providers : ClearCooldown({p})
  <2>1. PICK cleared \in SUBSET Providers : ClearCooldown(cleared)
    BY <1>4
  <2>2. /\ now' = now
        /\ \A p \in Providers :
             \/ asked'[p] = 0
             \/ /\ asked'[p] = asked[p] /\ health'[p] = health[p]
                /\ p \in late => p \in late'
    BY <2>1 DEF ClearCooldown
  <2> QED
    BY <2>2, AskedTypes DEF AskedInv
<1>5. CASE Tick
  <2>1. now' = now + 1 /\ UNCHANGED <<asked, late, health>>
    BY <1>5 DEF Tick, registry
  <2> QED
    BY <2>1, AskedTypes DEF AskedInv
<1>6. CASE Midnight
  BY <1>6 DEF Midnight, registry, AskedInv
<1>7. CASE Restart
  <2>1. now' = now /\ \A p \in Providers : asked'[p] = 0
    BY <1>7 DEF Restart, Zero
  <2> QED
    BY <2>1, AskedTypes DEF AskedInv
<1> QED
  BY <1>1, <1>2, <1>3, <1>4, <1>5, <1>6, <1>7 DEF Next

(* Only a call that takes its slot while its source does not cool down     *)
(* starts.                                                                 *)
LEMMA StartsLate ==
    ASSUME ProviderAssumption, TypeOK, AskedInv, Next,
           NEW s \in Searches, NEW p \in Providers,
           call[s][p] # "running", call'[s][p] = "running"
    PROVE  asked[p] <= now \/ p \in late
<1>1. CASE \E t \in Searches : Searching(t)
  <2>1. PICK t \in Searches, eligible \in SUBSET Providers :
          Search(t, eligible) \/ Rescrape(t, eligible) \/ RescrapeRefused(t, eligible)
    BY <1>1 DEF Searching
  <2>2. CASE Search(t, eligible) \/ Rescrape(t, eligible)
    BY <2>2, BeginKeeps DEF Search, Rescrape
  <2>3. CASE RescrapeRefused(t, eligible)
    BY <2>3 DEF RescrapeRefused, registry
  <2> QED
    BY <2>1, <2>2, <2>3
<1>2. CASE \E t \in Searches, q \in Providers : Call(t, q)
  <2>1. PICK t \in Searches, q \in Providers : Call(t, q)
    BY <1>2
  <2>2. CASE call' = [call EXCEPT ![t][q] = "idle"]
    BY <2>2, CallMoved, "idle" # "running"
  <2>3. CASE ~Cooling(q) /\ call' = [call EXCEPT ![t][q] = "running"]
    <3>1. t = s /\ q = p
      BY <2>3, CallMoved
    <3> QED
      BY <2>3, <3>1, AskedTypes DEF AskedInv, Cooling
  <2> QED
    BY <2>1, <2>2, <2>3 DEF Call, Take, Succeeds, Fails, RateLimited, Errs, Returns
<1>3. CASE Restart
  BY <1>3 DEF Restart, Idle
<1>4. CASE \/ ClearCooldown(Providers) \/ \E q \in Providers : ClearCooldown({q})
           \/ Tick \/ Midnight
  BY <1>4 DEF ClearCooldown, Tick, Midnight, registry
<1> QED
  BY <1>1, <1>2, <1>3, <1>4 DEF Next

-----------------------------------------------------------------------------
(* Registry and budget keep their types; the free slots and the running    *)
(* calls are always as many as the slots there are.                        *)
THEOREM TypeCorrect ==
    ASSUME ProviderAssumption PROVE Spec => [](TypeOK /\ SlotsCounted)
<1>1. Init => SInv
  BY Initially
<1>2. SInv /\ [Next]_providerVars => SInv'
  BY SlotsKept
<1> QED
  BY <1>1, <1>2, PTL DEF Spec, SInv

(* However often the process restarts and the day changes, a source is not *)
(* searched by force more often than its budget on any day.                *)
THEOREM BudgetIsKept == ASSUME ProviderAssumption PROVE Spec => []BudgetKept
<1>1. Init => SInv /\ BudgetInv
  BY Initially
<1>2. SInv /\ BudgetInv /\ [Next]_providerVars => SInv' /\ BudgetInv'
  BY SlotsKept, BudgetStays DEF SInv
<1>3. SInv /\ BudgetInv => BudgetKept
  <2> SUFFICES ASSUME SInv, BudgetInv, NEW p \in Providers \ Exempt
               PROVE  made[p] <= DailyLimit
    BY DEF BudgetKept
  <2>1. made[p] \in Nat /\ spent.counts[p] \in Nat /\ DailyLimit \in Nat
    BY DEF SInv, TypeOK, Counts, ProviderAssumption
  <2> QED
    BY <2>1 DEF BudgetInv, Bounded, Used
<1> QED
  BY <1>1, <1>2, <1>3, PTL DEF Spec

(* No call starts before the time until which its source asked to be left  *)
(* alone, unless the source answered a call that was then under way.       *)
THEOREM WaitsAreHonoured == ASSUME ProviderAssumption PROVE Spec => WaitsKept
<1>1. Init => SInv /\ AskedInv
  BY Initially
<1>2. SInv /\ AskedInv /\ [Next]_providerVars => SInv' /\ AskedInv'
  BY SlotsKept, AskedStays DEF SInv
<1>3. SInv /\ AskedInv /\ [Next]_providerVars =>
        [\A s \in Searches, p \in Providers :
           call[s][p] # "running" /\ call'[s][p] = "running"
             => asked[p] <= now \/ p \in late]_providerVars
  BY StartsLate DEF SInv
<1> QED
  BY <1>1, <1>2, <1>3, PTL DEF Spec, WaitsKept

-----------------------------------------------------------------------------
(* The dump                                                                *)

CONSTANTS
    LastVersion, Urls, UrlOf, Size, Rows, Weak, Unsized, MaxResume, MaxFaults
VARIABLES
    published, part, meta, file, cut, mixed, lookup, enriched, up, pc, job, excused, faults
Dump == INSTANCE R18Dump

Jobs == [version : 0..LastVersion, total : Nat, clean : BOOLEAN,
         failures : 0..MaxResume, unchanged : BOOLEAN]
Metas == [validator : 0..LastVersion, total : Nat]

Transfer == {"truncate", "stream", "probe", "loop", "range", "replace"}

(* A download keeps to the version it asked for, whose sidecar is written  *)
(* if it has a validator, and replaces the file with all of it.            *)
JobSound ==
    pc \in Transfer =>
        /\ job.version <= published
        /\ meta[Dump!Url].validator <= job.version
        /\ job.version \notin Weak => meta[Dump!Url].validator = job.version
        /\ job.version \notin Unsized => job.total = Size[job.version]
        /\ pc # "truncate" /\ Dump!Url \notin cut => part[Dump!Url].of \subseteq {job.version}
        /\ pc = "replace" /\ job.version \notin Unsized /\ Dump!Url \notin cut =>
             Dump!Len = Size[job.version]

(* A partial file of one version is not longer than it.                    *)
PartSound ==
    \A u \in Urls :
        /\ part[u].of = {} => part[u].len = 0
        /\ \A v \in Dump!Versions : part[u].of = {v} => part[u].len <= Size[v]

(* What a sidecar says of a partial file is true, or of a version that is  *)
(* not served any more, or the file is about to be truncated, or a crash   *)
(* came first.                                                             *)
MetaSound ==
    \A u \in Urls :
        /\ meta[u].validator \notin Weak /\ meta[u].validator <= published
        /\ \/ pc = "truncate" /\ u = Dump!Url /\ job.version \notin Weak
           \/ u \in cut
           \/ meta[u].validator = Dump!None \/ part[u].len = 0
           \/ part[u].of = {meta[u].validator}
           \/ meta[u].validator < published

DumpInv == Dump!TypeOK /\ Dump!NeverSpliced /\ JobSound /\ PartSound /\ MetaSound

-----------------------------------------------------------------------------
(* What the types say of the job and of its URL.                           *)
LEMMA DumpTypes ==
    ASSUME Dump!DumpAssumption, Dump!TypeOK
    PROVE  /\ published \in Dump!Versions /\ Dump!Versions \subseteq Nat \ {0}
           /\ part \in [Urls -> Dump!Content] /\ file \in [Urls -> Dump!Content]
           /\ meta \in [Urls -> Metas] /\ job \in Jobs
           /\ job.version \in 0..LastVersion /\ job.total \in Nat
           /\ job.failures \in 0..MaxResume
           /\ pc \in Transfer \cup {"unlink", "import", "enrich"} =>
                job.version \in Dump!Versions /\ Dump!Url \in Urls
           /\ \A v \in Dump!Versions : /\ UrlOf[v] \in Urls
                                       /\ Size[v] \in Nat \ {0}
           /\ \A u \in Urls : /\ part[u] \in Dump!Content /\ part[u].len \in Nat
                              /\ part[u].of \subseteq Dump!Versions
                              /\ meta[u] \in Metas
                              /\ meta[u].validator \in 0..LastVersion
<1>1. /\ published \in Dump!Versions
      /\ part \in [Urls -> Dump!Content] /\ file \in [Urls -> Dump!Content]
      /\ meta \in [Urls -> Metas] /\ job \in Jobs
  BY DEF Dump!TypeOK, Jobs, Metas
<1>2. /\ Dump!Versions \subseteq Nat \ {0}
      /\ \A v \in Dump!Versions : UrlOf[v] \in Urls /\ Size[v] \in Nat \ {0}
  BY DEF Dump!DumpAssumption, Dump!Versions
<1>3. /\ job.version \in 0..LastVersion /\ job.total \in Nat
      /\ job.failures \in 0..MaxResume
  BY <1>1 DEF Jobs
<1>4. \A u \in Urls : /\ part[u] \in Dump!Content /\ part[u].len \in Nat
                      /\ part[u].of \subseteq Dump!Versions
                      /\ meta[u] \in Metas /\ meta[u].validator \in 0..LastVersion
  BY <1>1 DEF Dump!Content, Metas
<1>5. ASSUME pc \in Transfer \cup {"unlink", "import", "enrich"}
      PROVE  job.version \in Dump!Versions
  BY <1>3, <1>5 DEF Dump!TypeOK, Dump!None, Dump!Versions, Transfer, Dump!DumpAssumption
<1> QED
  BY <1>1, <1>2, <1>3, <1>4, <1>5 DEF Dump!Url

LEMMA Empties ==
    ASSUME Dump!DumpAssumption
    PROVE  /\ Dump!Empty \in Dump!Content /\ Dump!Empty.of = {} /\ Dump!Empty.len = 0
           /\ Dump!NoMeta \in Metas /\ Dump!NoMeta.validator = Dump!None
           /\ Dump!NoJob \in Jobs
           /\ \A v \in Dump!Versions : Dump!Answered(v) \in Jobs
                                  /\ Dump!Answered(v).version = v
                                  /\ Dump!Answered(v).total = Dump!Total(v)
<1>1. Dump!Empty \in Dump!Content /\ Dump!Empty.of = {} /\ Dump!Empty.len = 0
  BY DEF Dump!Empty, Dump!Content
<1>2. Dump!NoMeta \in Metas /\ Dump!NoMeta.validator = Dump!None
  BY DEF Dump!NoMeta, Metas, Dump!None, Dump!Unknown, Dump!DumpAssumption
<1>3. Dump!NoJob \in Jobs
  BY DEF Dump!NoJob, Jobs, Dump!None, Dump!Unknown, Dump!DumpAssumption
<1>4. ASSUME NEW v \in Dump!Versions
      PROVE  /\ Dump!Answered(v) \in Jobs /\ Dump!Answered(v).version = v
             /\ Dump!Answered(v).total = Dump!Total(v)
  <2>1. Dump!Total(v) \in Nat /\ v \in 0..LastVersion
    BY DEF Dump!Total, Dump!Unknown, Dump!DumpAssumption, Dump!Versions
  <2> QED
    BY <1>3, <2>1 DEF Dump!Answered, Dump!NoJob, Jobs
<1> QED
  BY <1>1, <1>2, <1>3, <1>4

LEMMA NoneIsNotWeak ==
    ASSUME Dump!DumpAssumption, Dump!TypeOK
    PROVE  Dump!None \notin Weak /\ Dump!None <= published
  BY DEF Dump!DumpAssumption, Dump!TypeOK, Dump!Versions, Dump!None

LEMMA DumpTypesNext ==
    ASSUME published' \in Dump!Versions, part' \in [Urls -> Dump!Content],
           file' \in [Urls -> Dump!Content], meta' \in [Urls -> Metas],
           cut' \subseteq Urls, mixed' \subseteq Urls,
           lookup' \in 0..LastVersion, enriched' \in 0..LastVersion, up' \in BOOLEAN,
           pc' \in Transfer \cup {"idle", "request", "unlink", "import", "enrich", "finish"},
           job' \in Jobs,
           pc' \in Transfer \cup {"unlink", "import", "enrich"} => job'.version # Dump!None,
           excused' \subseteq Dump!Versions, faults' \in 0..MaxFaults
    PROVE  Dump!TypeOK'
  BY DEF Dump!TypeOK, Jobs, Metas, Transfer

LEMMA FaultCounted ==
    ASSUME Dump!DumpAssumption, Dump!TypeOK, Dump!Fault \/ Dump!NoFault
    PROVE  faults' \in 0..MaxFaults
  BY DEF Dump!Fault, Dump!NoFault, Dump!TypeOK, Dump!DumpAssumption

LEMMA DumpInitially == ASSUME Dump!DumpAssumption PROVE Dump!Init => DumpInv
<1> SUFFICES ASSUME Dump!Init PROVE DumpInv
  OBVIOUS
<1>1. 1 \in Dump!Versions /\ 0 \in 0..LastVersion /\ 0 \in 0..MaxFaults
  BY DEF Dump!DumpAssumption, Dump!Versions
<1>2. Dump!TypeOK
  BY <1>1, Empties DEF Dump!Init, Dump!TypeOK, Jobs, Metas, Dump!None
<1>3. \A u \in Urls : part[u] = Dump!Empty /\ file[u] = Dump!Empty /\ meta[u] = Dump!NoMeta
  BY DEF Dump!Init
<1>4. Dump!NeverSpliced /\ JobSound
  BY <1>3, Empties DEF Dump!Init, Dump!NeverSpliced, JobSound, Transfer
<1>5. PartSound
  BY <1>3, Empties, DumpTypes, <1>2 DEF PartSound
<1>6. MetaSound
  BY <1>3, Empties DEF Dump!Init, MetaSound, Dump!None, Dump!DumpAssumption,
                       Dump!Versions
<1> QED
  BY <1>2, <1>4, <1>5, <1>6 DEF DumpInv

-----------------------------------------------------------------------------
(* A step that leaves the files alone and does not enter or leave the      *)
(* moment between sidecar and truncation.                                  *)
LEMMA FilesAlone ==
    ASSUME DumpInv, Dump!TypeOK', JobSound', pc # "truncate",
           UNCHANGED <<published, part, meta, file, cut, mixed>>
    PROVE  DumpInv'
  BY DEF DumpInv, Dump!NeverSpliced, PartSound, MetaSound

(* A download in progress goes on with its version.                        *)
LEMMA SameVersion ==
    ASSUME DumpInv, pc \in Transfer \ {"truncate"}, pc' \in Transfer \ {"truncate", "replace"},
           UNCHANGED <<published, part, meta, cut>>, job'.version = job.version,
           job.version \notin Unsized => job'.total = job.total
    PROVE  JobSound'
  BY DEF DumpInv, JobSound, Dump!Url

LEMMA NoTransfer == ASSUME pc' \notin Transfer PROVE JobSound'
  BY DEF JobSound

(* While it is transferred, a version that is sized fits its partial file. *)
LEMMA NotTooLong ==
    ASSUME Dump!DumpAssumption, DumpInv, pc \in Transfer \ {"truncate"}
    PROVE  /\ Dump!Len \in Nat
           /\ Dump!Url \notin cut =>
                /\ Dump!Len <= Size[job.version]
                /\ part[Dump!Url].of \subseteq {job.version}
                /\ Dump!Len > 0 => part[Dump!Url].of = {job.version}
<1>1. /\ job.version \in Dump!Versions /\ Dump!Url \in Urls /\ Size[job.version] \in Nat
      /\ part[Dump!Url].len \in Nat
  BY DumpTypes DEF DumpInv
<1>2. Dump!Url \notin cut => part[Dump!Url].of \subseteq {job.version}
  BY DEF DumpInv, JobSound
<1> QED
  BY <1>1, <1>2 DEF DumpInv, PartSound, Dump!Len

(* The ends of a run, and its import.                                      *)
LEMMA RunPreserves ==
    ASSUME Dump!DumpAssumption, DumpInv,
           \/ Dump!RunStarts \/ Dump!RunEnds \/ Dump!RequestFails \/ Dump!GiveUp
           \/ Dump!RangeError \/ Dump!RangeChanged
           \/ Dump!Refresh
    PROVE  DumpInv'
<1> USE DEF DumpInv
<1>1. Dump!TypeOK
  OBVIOUS
<1>2. CASE Dump!RunStarts \/ Dump!RunEnds
  <2>1. Dump!TypeOK'
    BY <1>2, DumpTypes, Empties, DumpTypesNext
    DEF Dump!RunStarts, Dump!RunEnds, Dump!TypeOK, Dump!disk, Transfer
  <2>2. /\ pc' \notin Transfer /\ pc # "truncate"
        /\ UNCHANGED <<published, part, meta, file, cut, mixed>>
    BY <1>2 DEF Dump!RunStarts, Dump!RunEnds, Transfer, Dump!disk
  <2> QED
    BY <2>1, <2>2, NoTransfer, FilesAlone
<1>3. CASE Dump!RequestFails \/ Dump!GiveUp \/ Dump!RangeChanged
  <2>1. /\ pc' = "finish" /\ pc \in {"request", "loop"}
        /\ UNCHANGED <<published, part, meta, file, cut, mixed, lookup, enriched, up, job,
                       excused>>
        /\ Dump!Fault \/ Dump!NoFault
    BY <1>3 DEF Dump!RequestFails, Dump!GiveUp, Dump!RangeChanged, Dump!Retry,
                Dump!MayRetry, Dump!Fail, Dump!NoFault, Dump!disk
  <2>2. Dump!TypeOK'
    BY <2>1, DumpTypes, FaultCounted, DumpTypesNext DEF Dump!TypeOK, Transfer
  <2> QED
    BY <2>1, <2>2, NoTransfer, FilesAlone DEF Transfer
<1>4. CASE Dump!RangeError
  <2>1. /\ pc = "loop" /\ Dump!Fault /\ job.failures < MaxResume
        /\ UNCHANGED <<published, part, meta, file, cut, mixed, lookup, enriched, up, excused>>
        /\ \/ job' = [job EXCEPT !.failures = @ + 1] /\ pc' = "loop"
           \/ pc' = "finish" /\ job' = job
    BY <1>4 DEF Dump!RangeError, Dump!MayRetry, Dump!Retry, Dump!Fail, Dump!disk
  <2>2. /\ job' \in Jobs /\ job'.version = job.version /\ job'.total = job.total
        /\ job.version # Dump!None
    BY <2>1, DumpTypes DEF Jobs, Dump!DumpAssumption, Dump!TypeOK
  <2>3. Dump!TypeOK'
    BY <2>1, <2>2, DumpTypes, FaultCounted, DumpTypesNext DEF Dump!TypeOK, Transfer
  <2>4. JobSound'
    BY <2>1, <2>2, NoTransfer, SameVersion DEF Transfer
  <2> QED
    BY <2>1, <2>3, <2>4, FilesAlone
<1>5. CASE Dump!Refresh
  <2>1. /\ pc \in {"import", "enrich"} /\ pc' \in {"enrich", "finish"}
        /\ UNCHANGED <<published, part, meta, file, cut, mixed, up, job>>
        /\ Dump!Fault \/ Dump!NoFault
        /\ excused' \in {excused, excused \cup {job.version}}
        /\ lookup' \in {lookup} \cup Dump!Versions /\ enriched' \in {enriched, lookup}
    BY <1>5 DEF Dump!Refresh, Dump!ImportSkipped, Dump!Import, Dump!ImportRaises,
                Dump!Enrich, Dump!Fail, Dump!NoFault, Dump!disk,
                Dump!results
  <2>2. /\ job.version \in Dump!Versions /\ job.version # Dump!None
        /\ Dump!Versions \subseteq 0..LastVersion
    BY <2>1, DumpTypes DEF Dump!TypeOK, Dump!Versions
  <2>3. Dump!TypeOK'
    BY <2>1, <2>2, DumpTypes, FaultCounted, DumpTypesNext DEF Dump!TypeOK, Transfer
  <2> QED
    BY <2>1, <2>3, NoTransfer, FilesAlone DEF Transfer
<1> QED
  BY <1>2, <1>3, <1>4, <1>5

LEMMA CrashPreserves ==
    ASSUME Dump!DumpAssumption, DumpInv, Dump!Crash
    PROVE  DumpInv'
<1> USE DEF DumpInv
<1>1. /\ pc' = "idle" /\ job' = Dump!NoJob /\ Dump!Fault
      /\ UNCHANGED <<published, part, meta, file, mixed, lookup, enriched, up>>
      /\ \/ excused' = excused
         \/ pc \in {"unlink", "import", "enrich"} /\ excused' = excused \cup {job.version}
      /\ cut' = IF pc = "truncate" /\ job.version \notin Weak /\ Dump!Len > 0
                THEN cut \cup {Dump!Url} ELSE cut
  BY DEF Dump!Crash, Dump!results
<1>2. cut' \subseteq Urls
  BY <1>1, DumpTypes DEF Dump!TypeOK, Transfer
<1>3. Dump!TypeOK'
  BY <1>1, <1>2, DumpTypes, Empties, FaultCounted, DumpTypesNext DEF Dump!TypeOK, Transfer
<1>4. MetaSound'
  <2> SUFFICES ASSUME NEW u \in Urls
               PROVE  /\ meta'[u].validator \notin Weak /\ meta'[u].validator <= published'
                      /\ \/ u \in cut'
                         \/ meta'[u].validator = Dump!None \/ part'[u].len = 0
                         \/ part'[u].of = {meta'[u].validator}
                         \/ meta'[u].validator < published'
    BY DEF MetaSound
  <2>1. part[u].len \in Nat
    BY DumpTypes
  <2> QED
    BY <1>1, <2>1 DEF MetaSound, Dump!Len
<1> QED
  BY <1>1, <1>3, <1>4, NoTransfer DEF Dump!NeverSpliced, PartSound, Transfer

(* A newer version leaves what is said of the older ones true.             *)
LEMMA PublishPreserves ==
    ASSUME Dump!DumpAssumption, DumpInv, Dump!Publish
    PROVE  DumpInv'
<1> USE DEF DumpInv
<1>0. /\ published < LastVersion /\ published' = published + 1
      /\ UNCHANGED <<Dump!disk, Dump!results, pc, job, excused, faults>>
  BY DEF Dump!Publish
<1>1. published' \in Dump!Versions
  <2>1. published \in 1..LastVersion
    BY DumpTypes DEF Dump!Versions
  <2> QED
    BY <1>0, <2>1 DEF Dump!Versions, Dump!DumpAssumption
<1>2. Dump!TypeOK'
  BY <1>0, <1>1, DumpTypes, DumpTypesNext
  DEF Dump!TypeOK, Dump!disk, Dump!results, Transfer
<1>3. published \in Nat /\ job.version \in Nat
  BY DumpTypes DEF Dump!DumpAssumption
<1>4. JobSound'
  BY <1>0, <1>3 DEF JobSound, Dump!disk, Dump!Url, Dump!Len
<1>5. MetaSound'
  <2>1. \A u \in Urls : meta[u].validator \in Nat
    BY DumpTypes DEF Dump!DumpAssumption
  <2> QED
    BY <1>0, <1>3, <2>1 DEF MetaSound, Dump!disk, Dump!Url
<1> QED
  BY <1>0, <1>2, <1>4, <1>5 DEF Dump!NeverSpliced, PartSound, Dump!disk

-----------------------------------------------------------------------------
(* The request and what it finds on disk.                                  *)
LEMMA RequestPreserves ==
    ASSUME Dump!DumpAssumption, DumpInv, Dump!Unchanged \/ Dump!ResumeFromDisk \/ Dump!Fresh
    PROVE  DumpInv'
<1> USE DEF DumpInv
<1> DEFINE v == published
           u == UrlOf[v]
<1>1. /\ v \in Dump!Versions /\ u \in Urls /\ v # Dump!None
      /\ v \in Nat /\ v \in 0..LastVersion
      /\ Dump!Answered(v) \in Jobs /\ Dump!Answered(v).version = v
      /\ Dump!Answered(v).total = Dump!Total(v)
      /\ v \notin Unsized => Dump!Total(v) = Size[v]
      /\ Dump!Total(v) \in Nat
  <2>1. v \in Dump!Versions /\ u \in Urls /\ Size[v] \in Nat \ {0}
    BY DumpTypes
  <2>2. v # Dump!None /\ v \in Nat /\ v \in 0..LastVersion
    BY <2>1 DEF Dump!Versions, Dump!None, Dump!DumpAssumption
  <2>3. /\ v \notin Unsized => Dump!Total(v) = Size[v]
        /\ Dump!Total(v) \in Nat
    BY <2>1 DEF Dump!Total, Dump!Unknown
  <2> QED
    BY <2>1, <2>2, <2>3, Empties
<1>2. MetaSound /\ part \in [Urls -> Dump!Content] /\ meta \in [Urls -> Metas]
  BY DumpTypes
<1> HIDE DEF v, u
<1>3. CASE Dump!Unchanged
  <2>1. /\ part' = [part EXCEPT ![u] = Dump!Empty] /\ meta' = [meta EXCEPT ![u] = Dump!NoMeta]
        /\ pc' = "import" /\ pc = "request"
        /\ job' = [Dump!Answered(v) EXCEPT !.unchanged = TRUE]
        /\ excused' \in {excused, excused \cup {v}}
        /\ cut' = cut \ {u}
        /\ UNCHANGED <<published, file, mixed, Dump!results, faults>>
    BY <1>3 DEF Dump!Unchanged, v, u
  <2>2. job' \in Jobs /\ job'.version = v
    BY <1>1, <2>1 DEF Jobs
  <2>3. part' \in [Urls -> Dump!Content] /\ meta' \in [Urls -> Metas]
    BY <1>1, <1>2, <2>1, Empties
  <2>4. Dump!TypeOK'
    BY <1>1, <2>1, <2>2, <2>3, DumpTypes, DumpTypesNext
    DEF Dump!TypeOK, Dump!results, Transfer
  <2>5. PartSound'
    <3>1. \A w \in Dump!Versions : 0 <= Size[w]
      BY DumpTypes
    <3> QED
      BY <1>2, <2>1, <3>1, Empties DEF PartSound
  <2>6. MetaSound'
    <3>1. \A w \in Urls : /\ part'[w] \in {part[w], Dump!Empty}
                          /\ meta'[w] \in {meta[w], Dump!NoMeta}
                          /\ w \in cut /\ w \notin cut' => part'[w] = Dump!Empty
      BY <1>2, <2>1
    <3>2. /\ pc # "truncate" /\ published' = published
          /\ Dump!None \notin Weak /\ Dump!None <= published
          /\ Dump!Empty.len = 0 /\ Dump!NoMeta.validator = Dump!None
      BY <2>1, Empties, NoneIsNotWeak
    <3> SUFFICES ASSUME NEW w \in Urls
                 PROVE  /\ meta'[w].validator \notin Weak
                        /\ meta'[w].validator <= published'
                        /\ \/ w \in cut'
                           \/ meta'[w].validator = Dump!None \/ part'[w].len = 0
                           \/ part'[w].of = {meta'[w].validator}
                           \/ meta'[w].validator < published'
      BY DEF MetaSound
    <3>3. CASE meta'[w] = Dump!NoMeta
      BY <3>2, <3>3
    <3>4. CASE meta'[w] = meta[w] /\ part'[w] = Dump!Empty
      BY <1>2, <3>2, <3>4 DEF MetaSound
    <3>5. CASE meta'[w] = meta[w] /\ part'[w] = part[w] /\ part'[w] # Dump!Empty
      <4>1. /\ meta[w].validator \notin Weak /\ meta[w].validator <= published
            /\ \/ w \in cut \/ meta[w].validator = Dump!None \/ part[w].len = 0
               \/ part[w].of = {meta[w].validator} \/ meta[w].validator < published
        BY <1>2, <3>2 DEF MetaSound
      <4>2. w \in cut => w \in cut'
        BY <3>1, <3>5
      <4>3. part[w].len \in Nat /\ meta[w].validator \in Nat
        BY DumpTypes DEF Dump!DumpAssumption
      <4> QED
        BY <3>2, <3>5, <4>1, <4>2, <4>3
    <3> QED
      BY <3>1, <3>3, <3>4, <3>5
  <2> QED
    BY <2>1, <2>4, <2>5, <2>6, NoTransfer DEF Dump!NeverSpliced, Transfer
<1>4. CASE Dump!ResumeFromDisk
  <2>1. /\ Dump!Resumable(v) /\ pc' = "loop" /\ pc = "request" /\ job' = Dump!Answered(v)
        /\ UNCHANGED <<published, Dump!disk, Dump!results, excused, faults>>
    BY <1>4 DEF Dump!ResumeFromDisk, v
  <2>2. Dump!TypeOK'
    BY <1>1, <2>1, DumpTypes, DumpTypesNext
    DEF Dump!TypeOK, Dump!disk, Dump!results, Transfer
  <2>3. part[u].len > 0 /\ meta[u].validator = v /\ v \notin Weak
    BY <2>1 DEF Dump!Resumable, u
  <2>4. u \notin cut => part[u].of = {v}
    BY <1>1, <1>2, <2>1, <2>3, DumpTypes DEF MetaSound, v
  <2>5. Dump!Url' = u
    BY <1>1, <2>1 DEF Dump!Url, u
  <2>6. JobSound'
    BY <1>1, <2>1, <2>3, <2>4, <2>5 DEF JobSound, Dump!disk, v
  <2> QED
    BY <2>1, <2>2, <2>6, FilesAlone DEF Dump!disk
<1>5. CASE Dump!Fresh
  <2>1. /\ meta' = IF v \in Weak THEN meta
                  ELSE [meta EXCEPT ![u] = [validator |-> v, total |-> Dump!Total(v)]]
        /\ pc' = "truncate" /\ pc = "request" /\ job' = Dump!Answered(v)
        /\ UNCHANGED <<published, part, file, cut, mixed, Dump!results, excused, faults>>
    BY <1>5 DEF Dump!Fresh, v, u
  <2>2. /\ [validator |-> v, total |-> Dump!Total(v)] \in Metas
        /\ meta' \in [Urls -> Metas]
    BY <1>1, <1>2, <2>1 DEF Metas
  <2>3. Dump!TypeOK'
    BY <1>1, <2>1, <2>2, DumpTypes, DumpTypesNext
    DEF Dump!TypeOK, Dump!results, Transfer
  <2>4. Dump!Url' = u
    BY <1>1, <2>1 DEF Dump!Url, u
  <2>5. meta'[u].validator <= v /\ (v \notin Weak => meta'[u].validator = v)
    BY <1>1, <1>2, <2>1, DumpTypes DEF MetaSound, v
  <2>6. JobSound'
    BY <1>1, <2>1, <2>4, <2>5 DEF JobSound, v
  <2>7. MetaSound'
    BY <1>1, <1>2, <2>1, <2>4, <2>5 DEF MetaSound, v
  <2> QED
    BY <2>1, <2>3, <2>6, <2>7 DEF Dump!NeverSpliced, PartSound
<1> QED
  BY <1>3, <1>4, <1>5

LEMMA TruncatePreserves == ASSUME Dump!DumpAssumption, DumpInv, Dump!Truncate PROVE DumpInv'
<1> USE DEF DumpInv
<1>1. /\ pc = "truncate" /\ pc' = "stream" /\ part' = [part EXCEPT ![Dump!Url] = Dump!Empty]
      /\ cut' = cut \ {Dump!Url}
      /\ UNCHANGED <<published, meta, file, mixed, Dump!results, job, excused, faults>>
  BY DEF Dump!Truncate
<1>2. /\ Dump!Url \in Urls /\ part \in [Urls -> Dump!Content] /\ Dump!Empty \in Dump!Content
      /\ Dump!Empty.of = {} /\ Dump!Empty.len = 0 /\ job.version # Dump!None
  BY <1>1, DumpTypes, Empties DEF Transfer, Dump!TypeOK
<1>3. Dump!TypeOK'
  BY <1>1, <1>2, DumpTypes, DumpTypesNext DEF Dump!TypeOK, Dump!results, Transfer
<1>4. \A u \in Urls : part'[u] = IF u = Dump!Url THEN Dump!Empty ELSE part[u]
  BY <1>1, <1>2
<1>5. Dump!Url' = Dump!Url
  BY <1>1 DEF Dump!Url
<1>6. JobSound'
  BY <1>1, <1>2, <1>4, <1>5 DEF JobSound, Transfer
<1>7. PartSound'
  BY <1>2, <1>4, DumpTypes DEF PartSound
<1>8. MetaSound'
  BY <1>1, <1>2, <1>4, <1>5 DEF MetaSound
<1> QED
  BY <1>1, <1>3, <1>6, <1>7, <1>8 DEF Dump!NeverSpliced

(* A piece of the version asked for is appended.                           *)
LEMMA ChunkPreserves == ASSUME Dump!DumpAssumption, DumpInv, Dump!Chunk PROVE DumpInv'
<1> USE DEF DumpInv
<1> DEFINE v == job.version
           grown == [of |-> part[Dump!Url].of \cup {v}, len |-> part[Dump!Url].len + 1]
<1>1. /\ pc \in {"stream", "range"} /\ pc' = pc /\ Dump!Len < Size[v]
      /\ part' = [part EXCEPT ![Dump!Url] = grown] /\ job' = [job EXCEPT !.failures = 0]
      /\ UNCHANGED <<published, meta, file, cut, mixed, Dump!results, excused, faults>>
  BY DEF Dump!Chunk
<1>2. /\ v \in Dump!Versions /\ Dump!Url \in Urls /\ v \in Nat /\ Size[v] \in Nat
      /\ part \in [Urls -> Dump!Content]
      /\ part[Dump!Url].len \in Nat /\ part[Dump!Url].of \subseteq Dump!Versions
  BY <1>1, DumpTypes DEF Transfer, Dump!Versions
<1>3. /\ Dump!Url \notin cut => part[Dump!Url].of \subseteq {v}
      /\ v <= published /\ meta[Dump!Url].validator <= v
      /\ v \notin Weak => meta[Dump!Url].validator = v
  BY <1>1 DEF JobSound, Transfer
<1>4. /\ grown \in Dump!Content /\ (Dump!Url \notin cut => grown.of = {v})
      /\ v \in grown.of /\ grown.len = part[Dump!Url].len + 1
      /\ grown.len <= Size[v]
  BY <1>1, <1>2, <1>3 DEF Dump!Content, Dump!Len
<1>5. job' \in Jobs /\ job'.version = v /\ job'.total = job.total /\ v # Dump!None
  <2>1. 0 \in 0..MaxResume
    BY DEF Dump!DumpAssumption
  <2>2. job \in Jobs /\ job' = [job EXCEPT !.failures = 0]
    BY <1>1, DumpTypes
  <2>3. v # Dump!None
    BY <1>2 DEF Dump!None, Dump!Versions, Dump!DumpAssumption
  <2> QED
    BY <2>1, <2>2, <2>3 DEF Jobs
<1> HIDE DEF grown
<1>6. \A u \in Urls : part'[u] = IF u = Dump!Url THEN grown ELSE part[u]
  BY <1>1, <1>2
<1>7. Dump!TypeOK'
  <2>1. part' \in [Urls -> Dump!Content]
    BY <1>1, <1>2, <1>4
  <2> QED
    BY <1>1, <1>5, <2>1, DumpTypes, DumpTypesNext
    DEF Dump!TypeOK, Dump!results, Transfer
<1>8. Dump!Url' = Dump!Url
  BY <1>5 DEF Dump!Url
<1>9. JobSound'
  BY <1>1, <1>2, <1>3, <1>4, <1>5, <1>6, <1>8 DEF JobSound, Transfer
<1>10. PartSound'
  BY <1>4, <1>6 DEF PartSound
<1>11. MetaSound'
  <2>1. \A u \in Urls : meta[u].validator \in Nat
    BY DumpTypes DEF Dump!DumpAssumption
  <2>2. published \in Nat
    BY DumpTypes
  <2>3. meta[Dump!Url].validator # v => meta[Dump!Url].validator < published
    BY <1>2, <1>3, <2>1, <2>2
  <2> QED
    BY <1>1, <1>4, <1>6, <2>3 DEF MetaSound
<1> QED
  BY <1>1, <1>7, <1>9, <1>10, <1>11 DEF Dump!NeverSpliced

(* Ends and breaks of a response, the probe and the loop.                  *)
LEMMA LoopPreserves ==
    ASSUME Dump!DumpAssumption, DumpInv,
           \/ Dump!StreamEnds \/ Dump!StreamBreaks \/ Dump!Probe \/ Dump!LoopEnds
           \/ Dump!RangeAtEnd
    PROVE  DumpInv'
<1> USE DEF DumpInv
<1> DEFINE v == job.version
<1>1. /\ pc \in Transfer \ {"truncate"}
      /\ UNCHANGED <<published, part, meta, file, cut, mixed, lookup, enriched, up, excused>>
      /\ Dump!Fault \/ Dump!NoFault
  BY DEF Dump!StreamEnds, Dump!StreamBreaks, Dump!Probe, Dump!LoopEnds,
         Dump!RangeAtEnd, Dump!MayRetry, Dump!Retry, Dump!Fail,
         Transfer, Dump!disk, Dump!results, Dump!NoFault
<1>2. /\ v \in Dump!Versions /\ Size[v] \in Nat \ {0}
      /\ Dump!Len \in Nat /\ (Dump!Url \notin cut => Dump!Len <= Size[v])
      /\ v # Dump!None /\ job \in Jobs /\ job.total \in Nat
  BY <1>1, DumpTypes, NotTooLong DEF Dump!None, Dump!Versions
<1>3. v \notin Unsized => job.total = Size[v]
  BY <1>1 DEF JobSound
<1>4. ASSUME job' \in Jobs, job'.version = v, v \notin Unsized => job'.total = job.total,
             pc' \in Transfer \ {"truncate", "replace"}
      PROVE  DumpInv'
  <2>1. Dump!TypeOK'
    BY <1>1, <1>2, <1>4, DumpTypes, FaultCounted, DumpTypesNext DEF Dump!TypeOK
  <2> QED
    BY <1>1, <1>4, <2>1, SameVersion, FilesAlone
<1>5. ASSUME job' \in Jobs, job'.version = v, v \notin Unsized => job'.total = Size[v],
             v \notin Unsized /\ Dump!Url \notin cut => Dump!Len = Size[v], pc' = "replace"
      PROVE  DumpInv'
  <2>1. Dump!TypeOK'
    BY <1>1, <1>2, <1>5, DumpTypes, FaultCounted, DumpTypesNext
    DEF Dump!TypeOK, Transfer
  <2>2. JobSound'
    BY <1>1, <1>5 DEF JobSound, Dump!Url, Dump!Len, Transfer
  <2> QED
    BY <1>1, <2>1, <2>2, FilesAlone
<1>6. CASE Dump!StreamEnds \/ Dump!StreamBreaks
  <2>1. \E clean \in BOOLEAN : job' = [job EXCEPT !.clean = clean]
    BY <1>6 DEF Dump!StreamEnds, Dump!StreamBreaks
  <2>2. pc' \in {"probe", "loop"}
    BY <1>6 DEF Dump!StreamEnds, Dump!StreamBreaks
  <2> QED
    BY <1>2, <1>4, <2>1, <2>2 DEF Jobs, Transfer
<1>7. CASE Dump!Probe
  <2>1. /\ pc' = "loop"
        /\ \/ job' = [job EXCEPT !.total = Dump!Len] /\ Dump!Len = Size[v]
           \/ job' = [job EXCEPT !.total = Size[v], !.clean = FALSE]
           \/ job' = job
    BY <1>7 DEF Dump!Probe
  <2>2. job' \in Jobs /\ job'.version = v /\ job'.total \in {Size[v], job.total}
    BY <1>2, <2>1 DEF Jobs
  <2> QED
    BY <1>3, <1>4, <2>1, <2>2 DEF Transfer
<1>8. CASE Dump!LoopEnds
  <2>1. pc' = "replace" /\ job' = job /\ ~Dump!Incomplete
    BY <1>8 DEF Dump!LoopEnds
  <2>2. v \notin Unsized /\ Dump!Url \notin cut => Dump!Len = Size[v]
    BY <1>2, <1>3, <2>1 DEF Dump!Incomplete, Dump!Unknown
  <2>3. job' \in Jobs /\ job'.version = v /\ (v \notin Unsized => job'.total = Size[v])
    BY <1>2, <1>3, <2>1
  <2> QED
    BY <1>5, <2>1, <2>2, <2>3
<1>9. CASE Dump!RangeAtEnd
  <2>1. CASE Dump!Len = Size[v] /\ pc' = "replace" /\ job' = [job EXCEPT !.total = Dump!Len]
    BY <1>2, <1>5, <2>1 DEF Jobs
  <2>2. CASE Dump!Fail
    <3>1. pc' = "finish" /\ job' = job
      BY <2>2 DEF Dump!Fail
    <3>2. Dump!TypeOK'
      BY <1>1, <1>2, <3>1, DumpTypes, FaultCounted, DumpTypesNext
      DEF Dump!TypeOK, Transfer
    <3> QED
      BY <1>1, <3>1, <3>2, NoTransfer, FilesAlone DEF Transfer
  <2> QED
    BY <1>9, <2>1, <2>2 DEF Dump!RangeAtEnd
<1> QED
  BY <1>6, <1>7, <1>8, <1>9

LEMMA RangePreserves == ASSUME Dump!DumpAssumption, DumpInv, Dump!RangeServed PROVE DumpInv'
<1> USE DEF DumpInv
<1> DEFINE v == job.version
<1>1. PICK total \in {Size[v]} \cup (IF v \in Unsized THEN {job.total} ELSE {}) :
        /\ job' = [job EXCEPT !.failures = @ + 1, !.total = total]
        /\ meta' = IF total = Dump!Unknown THEN meta
                   ELSE [meta EXCEPT ![Dump!Url] = [validator |-> v, total |-> total]]
  BY DEF Dump!RangeServed
<1>2. /\ pc = "loop" /\ pc' = "range" /\ v \notin Weak /\ job.failures < MaxResume
      /\ UNCHANGED <<published, part, file, cut, mixed, Dump!results, excused, faults>>
  BY DEF Dump!RangeServed, Dump!MayRetry, Dump!Retry
<1>3. /\ v \in Dump!Versions /\ Dump!Url \in Urls /\ v # Dump!None
      /\ v \in 0..LastVersion /\ v \in Nat
      /\ Size[v] \in Nat /\ job \in Jobs /\ job.total \in Nat
      /\ job.failures \in 0..MaxResume /\ meta \in [Urls -> Metas]
  BY <1>2, DumpTypes DEF Transfer, Dump!None, Dump!Versions
<1>4. total \in Nat /\ (v \notin Unsized => total = Size[v])
  BY <1>3
<1>5. job' \in Jobs /\ job'.version = v /\ job'.total = total
  <2>1. job.failures + 1 \in 0..MaxResume
    BY <1>2, <1>3 DEF Dump!DumpAssumption
  <2> QED
    BY <1>1, <1>3, <1>4, <2>1 DEF Jobs
<1>6. meta[Dump!Url].validator = v
  BY <1>2 DEF JobSound, Transfer
<1>7. /\ meta' \in [Urls -> Metas]
      /\ \A u \in Urls : meta'[u].validator = meta[u].validator
  <2>1. [validator |-> v, total |-> total] \in Metas
    BY <1>3, <1>4 DEF Metas
  <2> QED
    BY <1>1, <1>3, <1>6, <2>1
<1>8. Dump!TypeOK'
  BY <1>2, <1>3, <1>5, <1>7, DumpTypes, DumpTypesNext
  DEF Dump!TypeOK, Dump!results, Transfer
<1>9. Dump!Url' = Dump!Url
  BY <1>5 DEF Dump!Url
<1>10. JobSound'
  BY <1>2, <1>3, <1>4, <1>5, <1>7, <1>9 DEF JobSound, Transfer
<1>11. MetaSound'
  BY <1>2, <1>7, <1>9 DEF MetaSound
<1> QED
  BY <1>2, <1>8, <1>10, <1>11 DEF Dump!NeverSpliced, PartSound

(* The finished file is the partial one, which is of one version and whole *)
(* if it was sized.                                                        *)
LEMMA ReplacePreserves ==
    ASSUME Dump!DumpAssumption, DumpInv, Dump!Replace \/ Dump!Unlink
    PROVE  DumpInv'
<1> USE DEF DumpInv
<1>1. CASE Dump!Unlink
  <2>1. /\ pc = "unlink" /\ pc' = "import" /\ meta' = [meta EXCEPT ![Dump!Url] = Dump!NoMeta]
        /\ UNCHANGED <<published, part, file, cut, mixed, Dump!results, job, excused, faults>>
    BY <1>1 DEF Dump!Unlink
  <2>2. Dump!Url \in Urls /\ meta \in [Urls -> Metas] /\ job.version # Dump!None
    BY <2>1, DumpTypes DEF Dump!TypeOK
  <2>3. meta' \in [Urls -> Metas]
    BY <2>1, <2>2, Empties
  <2>4. Dump!TypeOK'
    BY <2>1, <2>2, <2>3, DumpTypes, DumpTypesNext
    DEF Dump!TypeOK, Dump!results, Transfer
  <2>5. \A u \in Urls : meta'[u] \in {meta[u], Dump!NoMeta}
    BY <2>1, <2>2
  <2>6. MetaSound'
    <3>1. pc # "truncate" /\ UNCHANGED <<published, part, cut>>
      BY <2>1
    <3> QED
      BY <2>5, <3>1, Empties, NoneIsNotWeak DEF MetaSound
  <2> QED
    BY <2>1, <2>4, <2>6, NoTransfer DEF Dump!NeverSpliced, PartSound, Transfer
<1>2. CASE Dump!Replace
  <2>1. /\ pc = "replace" /\ UNCHANGED <<published, meta, lookup, enriched, excused, faults>>
        /\ UNCHANGED <<up, job>>
    BY <1>2 DEF Dump!Replace, Dump!Fail
  <2>2. /\ Dump!Url \in Urls /\ job.version \in Dump!Versions /\ job.version # Dump!None
        /\ part \in [Urls -> Dump!Content] /\ file \in [Urls -> Dump!Content]
        /\ Dump!Empty \in Dump!Content /\ Dump!Empty.of = {} /\ Dump!Empty.len = 0
    BY <2>1, DumpTypes, Empties DEF Transfer, Dump!TypeOK
  <2>3. CASE pc' = "finish" /\ UNCHANGED <<part, file, cut, mixed>>
    <3>1. Dump!TypeOK'
      BY <2>1, <2>2, <2>3, DumpTypes, DumpTypesNext DEF Dump!TypeOK, Transfer
    <3> QED
      BY <2>1, <2>3, <3>1, NoTransfer, FilesAlone DEF Transfer
  <2>4. CASE /\ Dump!Len > 0 /\ pc' = "unlink"
             /\ file' = [file EXCEPT ![Dump!Url] = part[Dump!Url]]
             /\ part' = [part EXCEPT ![Dump!Url] = Dump!Empty]
             /\ cut' = cut \ {Dump!Url}
             /\ mixed' = IF Dump!Url \in cut THEN mixed \cup {Dump!Url}
                         ELSE mixed \ {Dump!Url}
    <3>1. Dump!TypeOK'
      <4>1. part' \in [Urls -> Dump!Content] /\ file' \in [Urls -> Dump!Content]
        BY <2>2, <2>4
      <4>2. cut' \subseteq Urls /\ mixed' \subseteq Urls
        BY <2>2, <2>4 DEF Dump!TypeOK
      <4> QED
        BY <2>1, <2>2, <2>4, <4>1, <4>2, DumpTypes, DumpTypesNext DEF Dump!TypeOK, Transfer
    <3>2. Dump!Url \notin cut =>
            /\ part[Dump!Url].of = {job.version}
            /\ job.version \notin Unsized => part[Dump!Url].len = Size[job.version]
      BY <2>1, <2>4, NotTooLong DEF JobSound, Transfer, Dump!Len
    <3>3. Dump!NeverSpliced'
      BY <2>2, <2>4, <3>2 DEF Dump!NeverSpliced
    <3>4. PartSound'
      BY <2>2, <2>4, DumpTypes DEF PartSound
    <3>5. MetaSound'
      BY <2>1, <2>2, <2>4 DEF MetaSound
    <3> QED
      BY <2>4, <3>1, <3>3, <3>4, <3>5, NoTransfer DEF Transfer
  <2> QED
    BY <1>2, <2>3, <2>4 DEF Dump!Replace, Dump!Fail
<1> QED
  BY <1>1, <1>2

-----------------------------------------------------------------------------
LEMMA DumpInductive ==
    ASSUME Dump!DumpAssumption
    PROVE  DumpInv /\ [Dump!Next]_(Dump!vars) => DumpInv'
<1> SUFFICES ASSUME DumpInv, [Dump!Next]_(Dump!vars) PROVE DumpInv'
  OBVIOUS
<1>1. CASE UNCHANGED Dump!vars
  BY <1>1 DEF Dump!vars, Dump!disk, Dump!results, DumpInv, Dump!TypeOK,
              Dump!NeverSpliced, JobSound, PartSound,
              MetaSound, Dump!Url, Dump!Len
<1>2. CASE Dump!Download
  BY <1>2, RunPreserves, RequestPreserves, TruncatePreserves, ChunkPreserves, LoopPreserves,
     RangePreserves, ReplacePreserves DEF Dump!Download
<1>3. CASE Dump!Next
  BY <1>2, <1>3, PublishPreserves, RunPreserves, CrashPreserves DEF Dump!Next, Dump!Run
<1> QED
  BY <1>1, <1>3

LEMMA DumpInvariance ==
    ASSUME Dump!DumpAssumption
    PROVE  Dump!Spec => []DumpInv
  BY DumpInitially, DumpInductive, PTL DEF Dump!Spec

(* The files, their sidecars and the run keep their types.                 *)
THEOREM DumpTypeCorrect ==
    ASSUME Dump!DumpAssumption
    PROVE  Dump!Spec => []Dump!TypeOK
<1>1. DumpInv => Dump!TypeOK
  BY DEF DumpInv
<1> QED
  BY <1>1, DumpInvariance, PTL

(* Whatever is interrupted, resumed and replaced on the server, a finished *)
(* file holds pieces of one version, and all of them if it was sized,      *)
(* unless a crash left its partial file to the sidecar of a newer version. *)
THEOREM NothingSpliced ==
    ASSUME Dump!DumpAssumption
    PROVE  Dump!Spec => []Dump!NeverSpliced
<1>1. DumpInv => Dump!NeverSpliced
  BY DEF DumpInv
<1> QED
  BY <1>1, DumpInvariance, PTL

-----------------------------------------------------------------------------
(* The works                                                               *)

CONSTANTS
    Files, Remote, Codes, NoCode, CodeOf, Casting, Rank, Matching, Confirmed, Requests,
    MaxCalls
VARIABLES cat, asset, cand, request, torn, calls
Works == INSTANCE Catalogue WITH Assets <- Files

-----------------------------------------------------------------------------
(* One row of works                                                        *)

(* The cast of a provider is that of one of the work's snapshots.          *)
Attributed(row) ==
    row.cast \in Remote => row.cast \in row.snaps /\ row.cast \in Casting

(* What holds between a row and what any merge makes of it.                *)
Continues(row, next) ==
    /\ next \in Works!Rows /\ next.locks = row.locks /\ row.snaps \subseteq next.snaps
    /\ "title" \in row.locks => next.title = row.title
    /\ "cast" \in row.locks => next.cast = row.cast
    /\ row.cast # Works!NoOne => next.cast # Works!NoOne
    /\ Attributed(row) => Attributed(next)
(* What one record of a provider after the other does to a row.            *)
Keeps(row, next) ==
    /\ Continues(row, next)
    /\ Works!AllRanked /\ Works!Sourced(row) =>
         Works!Sourced(next) /\ Rank[next.cast] <= Rank[row.cast]

(* What CuratedKept asks for.                                              *)
Curates(row, next) ==
    /\ \A field \in row.locks : next[field] \in {row[field], Works!User}
    /\ row.cast # Works!NoOne => next.cast # Works!NoOne
    /\ Works!AllRanked /\ Works!Sourced(row) /\ Works!Ranked(next.cast) =>
         Rank[next.cast] <= Rank[row.cast]

LEMMA CatalogueFacts ==
    ASSUME Works!CatalogueAssumption
    PROVE  /\ \A r \in Works!Records : /\ CodeOf[r] \in Codes \cup {NoCode}
                                       /\ r # Works!NoOne /\ r # Works!User /\ r # NoCode
           /\ \A r \in Remote : Rank[r] \in Nat /\ r \in Works!Records /\ r \notin Files
           /\ \A a \in Files : a \in Works!Records
           /\ \A a \in Files : CodeOf[a] = NoCode => a \in Casting
           /\ NoCode \notin Codes /\ Works!NoOne # Works!User /\ MaxCalls \in Nat
BY DEF Works!CatalogueAssumption, Works!Records, Works!NoOne, Works!User

LEMMA RowFacts ==
    ASSUME NEW row \in Works!Rows
    PROVE  /\ row.code \in Codes \cup {NoCode} /\ row.title \in Works!Records \cup {Works!User}
           /\ row.cast \in Works!Records \cup {Works!User, Works!NoOne}
           /\ row.source \in Works!Records \cup {Works!User}
           /\ row.locks \subseteq Works!Lockable /\ row.snaps \subseteq Works!Records
BY DEF Works!Rows

LEMMA RowMade ==
    ASSUME NEW code \in Codes \cup {NoCode}, NEW title \in Works!Records \cup {Works!User},
           NEW cast \in Works!Records \cup {Works!User, Works!NoOne},
           NEW source \in Works!Records \cup {Works!User},
           NEW locks \in SUBSET Works!Lockable, NEW snaps \in SUBSET Works!Records
    PROVE  [code |-> code, title |-> title, cast |-> cast, source |-> source,
            locks |-> locks, snaps |-> snaps] \in Works!Rows
BY DEF Works!Rows
LEMMA FieldsOf ==
    ASSUME NEW row \in Works!Rows
    PROVE  row["title"] = row.title /\ row["cast"] = row.cast
BY DEF Works!Rows

LEMMA RowFields ==
    ASSUME NEW row \in Works!Rows
    PROVE  /\ \A t \in Works!Records \cup {Works!User} :
                LET new == [row EXCEPT !.title = t] IN
                /\ new \in Works!Rows /\ new.title = t /\ new.code = row.code
                /\ new.cast = row.cast /\ new.source = row.source
                /\ new.locks = row.locks /\ new.snaps = row.snaps
           /\ \A c \in Codes \cup {NoCode} :
                LET new == [row EXCEPT !.code = c] IN
                /\ new \in Works!Rows /\ new.code = c /\ new.title = row.title
                /\ new.cast = row.cast /\ new.source = row.source
                /\ new.locks = row.locks /\ new.snaps = row.snaps
           /\ \A l \in SUBSET Works!Lockable :
                LET new == [row EXCEPT !.locks = l] IN
                /\ new \in Works!Rows /\ new.locks = l /\ new.title = row.title
                /\ new.cast = row.cast /\ new.source = row.source
                /\ new.code = row.code /\ new.snaps = row.snaps
           /\ \A s \in SUBSET Works!Records :
                LET new == [row EXCEPT !.snaps = s] IN
                /\ new \in Works!Rows /\ new.snaps = s /\ new.title = row.title
                /\ new.cast = row.cast /\ new.source = row.source
                /\ new.code = row.code /\ new.locks = row.locks
BY DEF Works!Rows

LEMMA CastChanged ==
    ASSUME NEW row \in Works!Rows, NEW c \in Works!Records \cup {Works!User, Works!NoOne}
    PROVE  LET new == [row EXCEPT !.cast = c] IN
           /\ new \in Works!Rows /\ new.cast = c /\ new.code = row.code
           /\ new.title = row.title /\ new.source = row.source
           /\ new.locks = row.locks /\ new.snaps = row.snaps
BY DEF Works!Rows
(* What a merge makes of the cast and its source.                          *)
LEMMA MergedCastRow ==
    ASSUME Works!CatalogueAssumption, NEW row \in Works!Rows, NEW r \in Works!Records,
           NEW overwrite, NEW new, new = Works!MergedCast(row, r, overwrite)
    PROVE  /\ new \in Works!Rows /\ new.code = row.code /\ new.title = row.title
           /\ new.locks = row.locks /\ new.snaps = row.snaps
           /\ new.cast = row.cast \/ (new.cast = r /\ r \in Casting)
           /\ new.source \in {row.source, r}
           /\ r \in Casting /\ r \in Remote /\ Works!AllRanked /\ Works!Sourced(row) =>
                \/ new.cast = row.cast /\ new.source = row.source
                \/ new.cast = r /\ new.source = r /\ Rank[r] < Rank[row.source]
                \/ new.cast = r /\ new.source = row.source /\ Rank[r] = Rank[row.source]
<1> DEFINE filled == IF row.cast = Works!NoOne THEN r ELSE row.cast
<1>0. /\ row.cast \in Works!Records \cup {Works!User, Works!NoOne}
      /\ row.source \in Works!Records \cup {Works!User}
      /\ filled \in Works!Records \cup {Works!User, Works!NoOne}
      /\ filled \in {row.cast, r}
  BY RowFacts
<1>1. CASE r \notin Casting
  <2>1. new = row
    BY <1>1 DEF Works!MergedCast
  <2> QED
    BY <1>1, <2>1
<1>2. CASE r \in Casting /\ row.source = Works!User /\ ~overwrite
  <2>1. new = [row EXCEPT !.cast = filled]
    BY <1>2 DEF Works!MergedCast
  <2>2. ~Works!Sourced(row)
    BY <1>2, CatalogueFacts DEF Works!Sourced, Works!Ranked
  <2> HIDE DEF filled
  <2>3. /\ new \in Works!Rows /\ new.cast = filled /\ new.code = row.code
        /\ new.title = row.title /\ new.source = row.source
        /\ new.locks = row.locks /\ new.snaps = row.snaps
    BY <1>0, <2>1, CastChanged
  <2> QED
    BY <1>0, <1>2, <2>2, <2>3
<1>3. CASE r \in Casting /\ (row.source # Works!User \/ overwrite) /\ ~Works!Ranked(r)
  <2> DEFINE c == IF overwrite THEN r ELSE filled
             s == IF overwrite \/ row.source \in Files THEN r ELSE row.source
  <2>1. new = [row EXCEPT !.cast = c, !.source = s]
    BY <1>3 DEF Works!MergedCast
  <2> HIDE DEF filled
  <2>2. /\ c \in Works!Records \cup {Works!User, Works!NoOne}
        /\ s \in Works!Records \cup {Works!User}
        /\ c \in {row.cast, r} /\ s \in {row.source, r}
    BY <1>0
  <2> HIDE DEF c, s
  <2>3. /\ new \in Works!Rows /\ new.cast = c /\ new.code = row.code
        /\ new.title = row.title /\ new.source = s
        /\ new.locks = row.locks /\ new.snaps = row.snaps
    BY <2>1, <2>2 DEF Works!Rows
  <2> QED
    BY <1>3, <2>2, <2>3 DEF Works!AllRanked
<1>4. CASE /\ r \in Casting /\ (row.source # Works!User \/ overwrite) /\ Works!Ranked(r)
           /\ ~Works!Ranked(row.source) \/ Rank[r] < Rank[row.source]
  <2>1. new = [row EXCEPT !.cast = r, !.source = r]
    BY <1>4 DEF Works!MergedCast
  <2>2. /\ new \in Works!Rows /\ new.cast = r /\ new.code = row.code
        /\ new.title = row.title /\ new.source = r
        /\ new.locks = row.locks /\ new.snaps = row.snaps
    BY <2>1 DEF Works!Rows
  <2> QED
    BY <1>4, <2>2 DEF Works!Sourced
<1>5. CASE /\ r \in Casting /\ (row.source # Works!User \/ overwrite) /\ Works!Ranked(r)
           /\ Works!Ranked(row.source) /\ ~(Rank[r] < Rank[row.source])
           /\ Rank[r] = Rank[row.source]
  <2>1. new = [row EXCEPT !.cast = r]
    BY <1>5 DEF Works!MergedCast
  <2>2. /\ new \in Works!Rows /\ new.cast = r /\ new.code = row.code
        /\ new.title = row.title /\ new.source = row.source
        /\ new.locks = row.locks /\ new.snaps = row.snaps
    BY <2>1, CastChanged
  <2> QED
    BY <1>5, <2>2
<1>6. CASE /\ r \in Casting /\ (row.source # Works!User \/ overwrite) /\ Works!Ranked(r)
           /\ Works!Ranked(row.source) /\ ~(Rank[r] < Rank[row.source])
           /\ Rank[r] # Rank[row.source]
  <2>1. new = row
    BY <1>6 DEF Works!MergedCast
  <2> QED
    BY <2>1
<1> QED
  BY <1>1, <1>2, <1>3, <1>4, <1>5, <1>6

(* What a merge makes of a row, once the record is one of its snapshots.   *)
LEMMA MergedRow ==
    ASSUME Works!CatalogueAssumption, NEW row \in Works!Rows, NEW r \in Works!Records,
           NEW overwrite, NEW new, new = Works!Merged(row, r, overwrite)
    PROVE  /\ new \in Works!Rows /\ new.locks = row.locks /\ new.snaps = row.snaps
           /\ "title" \in row.locks => new.title = row.title
           /\ "cast" \in row.locks => new.cast = row.cast
           /\ new.cast = row.cast \/ (new.cast = r /\ r \in Casting)
           /\ r \in Remote /\ Works!AllRanked /\ Works!Sourced(row) =>
                \/ new.cast = row.cast /\ new.source = row.source
                \/ new.cast = r /\ new.source = r /\ Rank[r] < Rank[row.source]
                \/ new.cast = r /\ new.source = row.source /\ Rank[r] = Rank[row.source]
<1>a. PICK titled : titled = IF overwrite /\ Works!Unlocked(row, "title")
                           THEN [row EXCEPT !.title = r] ELSE row
  OBVIOUS
<1>b. PICK coded : coded = IF CodeOf[r] # NoCode /\ (overwrite \/ row.code = NoCode)
                         THEN [titled EXCEPT !.code = CodeOf[r]] ELSE titled
  OBVIOUS
<1>1. /\ titled \in Works!Rows /\ titled.cast = row.cast /\ titled.source = row.source
      /\ titled.locks = row.locks /\ titled.snaps = row.snaps
      /\ "title" \in row.locks => titled.title = row.title
  BY <1>a, RowFields DEF Works!Unlocked
<1>2. CodeOf[r] \in Codes \cup {NoCode}
  BY CatalogueFacts
<1>3. /\ coded \in Works!Rows /\ coded.cast = row.cast /\ coded.source = row.source
      /\ coded.locks = row.locks /\ coded.snaps = row.snaps
      /\ "title" \in row.locks => coded.title = row.title
  BY <1>b, <1>1, <1>2, RowFields
<1>4. new = IF Works!Unlocked(row, "cast") THEN Works!MergedCast(coded, r, overwrite) ELSE coded
  BY <1>a, <1>b DEF Works!Merged
<1>5. CASE "cast" \in row.locks
  <2>1. new = coded
    BY <1>4, <1>5 DEF Works!Unlocked
  <2> QED
    BY <1>3, <2>1
<1>6. CASE "cast" \notin row.locks
  <2>1. new = Works!MergedCast(coded, r, overwrite)
    BY <1>4, <1>6 DEF Works!Unlocked
  <2>2. /\ new \in Works!Rows /\ new.title = coded.title
        /\ new.locks = coded.locks /\ new.snaps = coded.snaps
        /\ new.cast = coded.cast \/ (new.cast = r /\ r \in Casting)
        /\ r \in Casting /\ r \in Remote /\ Works!AllRanked /\ Works!Sourced(coded) =>
             \/ new.cast = coded.cast /\ new.source = coded.source
             \/ new.cast = r /\ new.source = r /\ Rank[r] < Rank[coded.source]
             \/ new.cast = r /\ new.source = coded.source /\ Rank[r] = Rank[coded.source]
    <3>1. coded \in Works!Rows
      BY <1>3
    <3> QED
      BY <2>1, <3>1, MergedCastRow
  <2>3. Works!Sourced(coded) = Works!Sourced(row)
    BY <1>3 DEF Works!Sourced
  <2>4. r \notin Casting => new = coded
    BY <2>1 DEF Works!MergedCast
  <2>5. CASE r \in Casting
    <3>1. new.cast = row.cast \/ (new.cast = r /\ r \in Casting)
      BY <1>3, <2>2
    <3>2. r \in Remote /\ Works!AllRanked /\ Works!Sourced(row) =>
             \/ new.cast = row.cast /\ new.source = row.source
             \/ new.cast = r /\ new.source = r /\ Rank[r] < Rank[row.source]
             \/ new.cast = r /\ new.source = row.source /\ Rank[r] = Rank[row.source]
      BY <1>3, <2>2, <2>3, <2>5
    <3>3. new \in Works!Rows /\ new.locks = row.locks /\ new.snaps = row.snaps
      BY <1>3, <2>2
    <3>4. "title" \in row.locks => new.title = row.title
      BY <1>3, <2>2
    <3> QED
      BY <1>6, <3>1, <3>2, <3>3, <3>4
  <2>6. CASE r \notin Casting
    BY <1>3, <1>6, <2>4, <2>6
  <2> QED
    BY <2>5, <2>6
<1> QED
  BY <1>5, <1>6
LEMMA KeepsItself ==
    ASSUME Works!CatalogueAssumption, NEW row \in Works!Rows
    PROVE  Keeps(row, row)
<1>1. Works!Sourced(row) => Rank[row.cast] \in Nat
  BY CatalogueFacts DEF Works!Sourced, Works!Ranked
<1> QED
  BY <1>1 DEF Keeps, Continues

LEMMA KeepsOn ==
    ASSUME Works!CatalogueAssumption, NEW a \in Works!Rows, NEW b \in Works!Rows,
           NEW c \in Works!Rows, Keeps(a, b), Keeps(b, c)
    PROVE  Keeps(a, c)
<1>1. Continues(a, c)
  BY DEF Keeps, Continues
<1>2. ASSUME Works!AllRanked, Works!Sourced(a)
      PROVE  Works!Sourced(c) /\ Rank[c.cast] <= Rank[a.cast]
  <2>1. Works!Sourced(b) /\ Rank[b.cast] <= Rank[a.cast]
    BY <1>2 DEF Keeps
  <2>2. Works!Sourced(c) /\ Rank[c.cast] <= Rank[b.cast]
    BY <1>2, <2>1 DEF Keeps
  <2>3. Rank[a.cast] \in Nat /\ Rank[b.cast] \in Nat /\ Rank[c.cast] \in Nat
    BY <1>2, <2>1, <2>2, CatalogueFacts DEF Works!Sourced, Works!Ranked
  <2> QED
    BY <2>1, <2>2, <2>3
<1> QED
  BY <1>1, <1>2 DEF Keeps

LEMMA ContinuesCurates ==
    ASSUME Works!CatalogueAssumption, NEW row \in Works!Rows, NEW next, Continues(row, next),
           Keeps(row, next) \/ next.cast = row.cast \/ next.cast \notin Remote
    PROVE  Curates(row, next)
<1>1. next \in Works!Rows
  BY DEF Continues
<1>2. ASSUME NEW field \in row.locks PROVE next[field] \in {row[field], Works!User}
  <2>1. field \in {"title", "cast"}
    BY RowFacts DEF Works!Lockable
  <2> QED
    BY <1>1, <2>1, FieldsOf DEF Continues
<1>3. ASSUME Works!AllRanked, Works!Sourced(row), Works!Ranked(next.cast)
      PROVE  Rank[next.cast] <= Rank[row.cast]
  <2>1. next.cast \in Remote
    BY <1>3 DEF Works!Ranked
  <2>2. CASE Keeps(row, next)
    BY <1>3, <2>2 DEF Keeps
  <2>3. CASE next.cast = row.cast
    BY <2>1, <2>3, CatalogueFacts
  <2> QED
    BY <2>1, <2>2, <2>3
<1> QED
  BY <1>2, <1>3 DEF Curates, Continues

(* A merge of a record, and the snapshot that is stored with it.           *)
LEMMA MergedContinues ==
    ASSUME Works!CatalogueAssumption, NEW row \in Works!Rows, NEW r \in Works!Records,
           NEW overwrite, NEW new, new = Works!Merged(row, r, overwrite),
           NEW next, next = [new EXCEPT !.snaps = @ \cup {r}]
    PROVE  /\ Continues(row, next) /\ Curates(row, next)
           /\ r \in Remote => Keeps(row, next)
<1>1. /\ new \in Works!Rows /\ new.locks = row.locks /\ new.snaps = row.snaps
      /\ "title" \in row.locks => new.title = row.title
      /\ "cast" \in row.locks => new.cast = row.cast
      /\ new.cast = row.cast \/ (new.cast = r /\ r \in Casting)
  BY MergedRow
<1>2. r \in Remote /\ Works!AllRanked /\ Works!Sourced(row) =>
                \/ new.cast = row.cast /\ new.source = row.source
                \/ new.cast = r /\ new.source = r /\ Rank[r] < Rank[row.source]
                \/ new.cast = r /\ new.source = row.source /\ Rank[r] = Rank[row.source]
  BY MergedRow
<1>3. new.snaps \subseteq Works!Records
  BY <1>1, RowFacts
<1>4. new.snaps \cup {r} \in SUBSET Works!Records
  BY <1>3
<1>5. next = [new EXCEPT !.snaps = new.snaps \cup {r}]
  BY <1>1
<1>6. /\ next \in Works!Rows /\ next.snaps = row.snaps \cup {r} /\ next.title = new.title
      /\ next.cast = new.cast /\ next.source = new.source /\ next.locks = row.locks
  BY <1>1, <1>4, <1>5, RowFields
<1>7. r # Works!NoOne
  BY CatalogueFacts
<1>8. Continues(row, next)
  <2>1. row.cast # Works!NoOne => next.cast # Works!NoOne
    BY <1>1, <1>6, <1>7
  <2>2. ASSUME Attributed(row) PROVE Attributed(next)
    BY <1>1, <1>6, <2>2 DEF Attributed
  <2> QED
    BY <1>1, <1>6, <2>1, <2>2 DEF Continues
<1>9. ASSUME r \in Remote PROVE Keeps(row, next)
  <2>1. SUFFICES ASSUME Works!AllRanked, Works!Sourced(row)
                 PROVE  Works!Sourced(next) /\ Rank[next.cast] <= Rank[row.cast]
    BY <1>8 DEF Keeps
  <2>2. /\ row.cast \in Remote /\ row.source \in Remote /\ Rank[row.source] <= Rank[row.cast]
        /\ Rank[row.source] > 0 /\ Rank[row.cast] > 0
        /\ Rank[row.source] \in Nat /\ Rank[row.cast] \in Nat /\ Rank[r] \in Nat
    BY <1>9, <2>1, CatalogueFacts DEF Works!Sourced, Works!Ranked
  <2>3. CASE new.cast = row.cast /\ new.source = row.source
    BY <1>6, <2>1, <2>2, <2>3 DEF Works!Sourced
  <2>4. CASE new.cast = r /\ (new.source = r \/ Rank[r] = Rank[row.source])
                /\ new.source \in {r, row.source} /\ Rank[r] <= Rank[row.source]
                /\ new.cast # row.cast
    <3>1. Rank[r] > 0
      BY <1>1, <1>9, <2>1, <2>4 DEF Works!AllRanked, Works!Ranked
    <3> QED
      BY <1>6, <1>9, <2>2, <2>4, <3>1 DEF Works!Sourced, Works!Ranked
  <2>5. CASE new.cast = r /\ new.source = r /\ Rank[r] < Rank[row.source] /\ new.cast = row.cast
    BY <2>2, <2>5
  <2>6. CASE new.cast = row.cast /\ new.source = row.source
    BY <1>6, <2>1, <2>2, <2>6 DEF Works!Sourced
  <2> QED
    BY <1>2, <1>9, <2>1, <2>2, <2>3, <2>4, <2>5, <2>6
<1>10. new.cast = row.cast \/ new.cast \notin Remote \/ r \in Remote
  BY <1>1
<1> QED
  BY <1>6, <1>8, <1>9, <1>10, ContinuesCurates
LEMMA LocalContinues ==
    ASSUME Works!CatalogueAssumption, NEW row \in Works!Rows, NEW a \in Files,
           NEW new, new = Works!MergedLocal(row, a) \/ new = Works!ReplacedLocal(row, a),
           NEW next, next = [new EXCEPT !.snaps = @ \cup {a}]
    PROVE  Continues(row, next) /\ Curates(row, next) /\ new \in Works!Rows
<1>1. /\ a \in Works!Records /\ a \notin Remote /\ a # Works!NoOne /\ a # Works!User
      /\ CodeOf[a] \in Codes \cup {NoCode}
  BY CatalogueFacts
<1>2. Works!NoOne \notin Remote
  BY CatalogueFacts
<1>3. /\ new \in Works!Rows /\ new.locks = row.locks /\ new.snaps = row.snaps
      /\ "title" \in row.locks => new.title = row.title
      /\ "cast" \in row.locks => new.cast = row.cast
      /\ new.cast = row.cast \/ new.cast = a \/ (new.cast = Works!NoOne /\ row.cast = Works!NoOne)
  <2>1. CASE new = Works!MergedLocal(row, a)
    <3>1. CASE row.cast = Works!NoOne /\ Works!Unlocked(row, "cast")
      <4>1. new = [row EXCEPT !.cast = Works!Named(a)]
        BY <2>1, <3>1 DEF Works!MergedLocal
      <4>2. Works!Named(a) \in {a, Works!NoOne}
        BY DEF Works!Named
      <4> QED
        BY <1>1, <3>1, <4>1, <4>2, CastChanged DEF Works!Unlocked
    <3>2. CASE ~(row.cast = Works!NoOne /\ Works!Unlocked(row, "cast"))
      BY <2>1, <3>2 DEF Works!MergedLocal
    <3> QED
      BY <3>1, <3>2
  <2>2. CASE new = Works!ReplacedLocal(row, a)
    <3> DEFINE t == IF Works!Unlocked(row, "title") THEN a ELSE row.title
               c == IF Works!Unlocked(row, "cast") /\ a \in Casting THEN a ELSE row.cast
               s == IF Works!Unlocked(row, "cast") /\ a \in Casting THEN a ELSE row.source
    <3>1. new = [row EXCEPT !.title = t, !.code = CodeOf[a], !.cast = c, !.source = s]
      BY <2>2 DEF Works!ReplacedLocal, Works!Rows
    <3>2. /\ t \in Works!Records \cup {Works!User}
          /\ c \in Works!Records \cup {Works!User, Works!NoOne} /\ c \in {row.cast, a}
          /\ s \in Works!Records \cup {Works!User}
          /\ "title" \in row.locks => t = row.title
          /\ "cast" \in row.locks => c = row.cast
      BY <1>1, RowFacts DEF Works!Unlocked
    <3> HIDE DEF t, c, s
    <3>3. /\ new \in Works!Rows /\ new.locks = row.locks /\ new.snaps = row.snaps
          /\ new.title = t /\ new.cast = c
      BY <1>1, <3>1, <3>2 DEF Works!Rows
    <3> QED
      BY <3>2, <3>3
  <2> QED
    BY <2>1, <2>2
<1>4. new.snaps \cup {a} \in SUBSET Works!Records
  BY <1>1, <1>3, RowFacts
<1>5. next = [new EXCEPT !.snaps = new.snaps \cup {a}]
  BY <1>3
<1>6. /\ next \in Works!Rows /\ next.snaps = row.snaps \cup {a} /\ next.title = new.title
      /\ next.cast = new.cast /\ next.locks = row.locks
  BY <1>3, <1>4, <1>5, RowFields
<1>7. Continues(row, next)
  BY <1>1, <1>2, <1>3, <1>6 DEF Continues, Attributed
<1>8. next.cast = row.cast \/ next.cast \notin Remote
  BY <1>1, <1>2, <1>3, <1>6
<1> QED
  BY <1>3, <1>7, <1>8, ContinuesCurates

LEMMA EditedRow ==
    ASSUME Works!CatalogueAssumption, NEW row \in Works!Rows, NEW field \in Works!Lockable,
           NEW lock, NEW next, next = Works!Edited(row, field, lock)
    PROVE  /\ next \in Works!Rows /\ (Attributed(row) => Attributed(next))
           /\ Curates(row, next)
<1>1. Works!User \notin Remote /\ Works!User # Works!NoOne
  BY CatalogueFacts
<1>2. PICK new : new = IF field = "title" THEN [row EXCEPT !.title = Works!User]
                       ELSE [row EXCEPT !.cast = Works!User, !.source = Works!User]
  OBVIOUS
<1>3. PICK locks : locks = IF lock THEN new.locks \cup {field} ELSE new.locks
  OBVIOUS
<1>4. /\ new \in Works!Rows /\ new.locks = row.locks /\ new.snaps = row.snaps
      /\ new.title \in {row.title, Works!User} /\ new.cast \in {row.cast, Works!User}
      /\ new.cast = row.cast \/ new.cast = Works!User
  BY <1>2 DEF Works!Rows
<1>5. locks \in SUBSET Works!Lockable
  BY <1>3, <1>4, RowFacts
<1>6. next = [new EXCEPT !.locks = locks]
  BY <1>2, <1>3 DEF Works!Edited
<1>7. /\ next \in Works!Rows /\ next.title = new.title /\ next.cast = new.cast
      /\ next.snaps = row.snaps
  BY <1>4, <1>5, <1>6, RowFields
<1>8. ASSUME NEW f \in row.locks PROVE next[f] \in {row[f], Works!User}
  <2>1. f \in {"title", "cast"}
    BY RowFacts DEF Works!Lockable
  <2> QED
    BY <1>4, <1>7, <2>1, FieldsOf
<1>9. Works!Ranked(next.cast) => next.cast = row.cast
  BY <1>1, <1>4, <1>7 DEF Works!Ranked
<1>10. Works!Ranked(next.cast) => Rank[next.cast] \in Nat
  BY CatalogueFacts DEF Works!Ranked
<1>11. Attributed(row) => Attributed(next)
  BY <1>1, <1>4, <1>7 DEF Attributed
<1>12. Curates(row, next)
  BY <1>1, <1>4, <1>7, <1>8, <1>9, <1>10 DEF Curates
<1> QED
  BY <1>7, <1>11, <1>12

LEMMA RelockedRow ==
    ASSUME Works!CatalogueAssumption, NEW row \in Works!Rows, NEW locks \in SUBSET Works!Lockable,
           NEW next, next = [row EXCEPT !.locks = locks]
    PROVE  /\ next \in Works!Rows /\ (Attributed(row) => Attributed(next))
           /\ Curates(row, next)
<1>1. /\ next \in Works!Rows /\ next.title = row.title /\ next.cast = row.cast
      /\ next.snaps = row.snaps
  BY RowFields
<1>2. ASSUME NEW f \in row.locks PROVE next[f] \in {row[f], Works!User}
  <2>1. f \in {"title", "cast"}
    BY RowFacts DEF Works!Lockable
  <2> QED
    BY <1>1, <2>1, FieldsOf
<1>3. Works!Ranked(next.cast) => Rank[next.cast] \in Nat
  BY CatalogueFacts DEF Works!Ranked
<1> QED
  BY <1>1, <1>2, <1>3 DEF Curates, Attributed

LEMMA LeastElement ==
    ASSUME NEW S \in SUBSET Nat, S # {}
    PROVE  \E m \in S : \A k \in S : m <= k
<1>1. PICK m \in S : \A k \in S : <<k, m>> \notin OpToRel(<, Nat)
  BY NatLessThanWellFounded, WFMin
<1>2. \A k \in S : ~(k < m)
  BY <1>1 DEF OpToRel
<1> QED
  BY <1>2

LEMMA RepairedRow ==
    ASSUME Works!CatalogueAssumption, NEW row \in Works!Rows, NEW next,
           next = Works!Repaired(row)
    PROVE  /\ next \in Works!Rows /\ (Attributed(row) => Attributed(next))
           /\ Attributed(row) => Curates(row, next)
<1> DEFINE credits == {r \in row.snaps \cap Casting : Works!Ranked(r)}
           best == CHOOSE r \in credits : \A s \in credits : Rank[r] <= Rank[s]
<1>1. CASE credits = {} \/ ~Works!Unlocked(row, "cast")
  <2>1. next = row
    BY <1>1 DEF Works!Repaired
  <2>2. Curates(row, row)
    <3>1. Continues(row, row)
      BY DEF Continues
    <3> QED
      BY <3>1, ContinuesCurates
  <2> QED
    BY <2>1, <2>2
<1>2. CASE credits # {} /\ Works!Unlocked(row, "cast")
  <2>1. next = [row EXCEPT !.cast = best, !.source = best]
    BY <1>2 DEF Works!Repaired
  <2>2. \A r \in credits : r \in Remote /\ Rank[r] \in Nat
    BY CatalogueFacts DEF Works!Ranked
  <2>3. \E r \in credits : \A s \in credits : Rank[r] <= Rank[s]
    <3> DEFINE ranks == {Rank[r] : r \in credits}
    <3>1. ranks \in SUBSET Nat /\ ranks # {}
      BY <1>2, <2>2
    <3> HIDE DEF ranks
    <3>2. PICK n \in ranks : \A m \in ranks : n <= m
      BY <3>1, LeastElement
    <3>3. PICK r \in credits : n = Rank[r]
      BY DEF ranks
    <3>4. \A s \in credits : Rank[s] \in ranks
      BY DEF ranks
    <3> QED
      BY <3>2, <3>3, <3>4
  <2>4. best \in credits /\ \A s \in credits : Rank[best] <= Rank[s]
    BY <2>3
  <2> HIDE DEF best
  <2>5. /\ best \in Remote /\ best \in Works!Records /\ best \in row.snaps /\ best \in Casting
        /\ best # Works!NoOne
    BY <2>2, <2>4, CatalogueFacts
  <2>6. /\ next \in Works!Rows /\ next.cast = best /\ next.title = row.title
        /\ next.snaps = row.snaps /\ next.locks = row.locks
    BY <2>1, <2>5 DEF Works!Rows
  <2>7. Attributed(next)
    BY <2>5, <2>6 DEF Attributed
  <2>8. ASSUME NEW f \in row.locks PROVE next[f] \in {row[f], Works!User}
    <3>1. f = "title"
      BY <1>2, RowFacts DEF Works!Lockable, Works!Unlocked
    <3> QED
      BY <2>6, <3>1, FieldsOf
  <2>9. ASSUME Attributed(row), Works!Sourced(row)
        PROVE  Rank[next.cast] <= Rank[row.cast]
    <3>1. row.cast \in credits
      BY <2>9 DEF Attributed, Works!Sourced, Works!Ranked
    <3> HIDE DEF credits
    <3> QED
      BY <2>4, <2>6, <3>1
  <2> QED
    BY <2>5, <2>6, <2>7, <2>8, <2>9 DEF Curates
<1> QED
  BY <1>1, <1>2
(* A write of a copy of the row, itself changed only by merges.            *)
Written(row, mem, new, next) ==
    /\ next \in Works!Rows
    /\ Attributed(row) /\ Attributed(new) => Attributed(next)
    /\ mem = row /\ row.snaps \subseteq new.snaps => next = new
LEMMA WrittenRow ==
    ASSUME Works!CatalogueAssumption, NEW row \in Works!Rows, NEW mem \in Works!Rows,
           NEW new \in Works!Rows, NEW next, next = Works!WrittenBack(row, mem, new)
    PROVE  Written(row, mem, new, next)
<1> DEFINE same(columns) == \A k \in columns : new[k] = mem[k]
<1>1. next = [k \in DOMAIN row |->
        CASE k = "snaps" -> row.snaps \cup new.snaps
          [] k = "source" -> IF same({"title", "code", "source"}) THEN row[k] ELSE new[k]
          [] OTHER -> IF same({k}) THEN row[k] ELSE new[k]]
  BY DEF Works!WrittenBack
<1>2. DOMAIN row = {"code", "title", "cast", "source", "locks", "snaps"}
  BY DEF Works!Rows
<1> DEFINE sources == IF same({"title", "code", "source"}) THEN row.source ELSE new.source
           code == IF new.code = mem.code THEN row.code ELSE new.code
           title == IF new.title = mem.title THEN row.title ELSE new.title
           cast == IF new.cast = mem.cast THEN row.cast ELSE new.cast
           locks == IF new.locks = mem.locks THEN row.locks ELSE new.locks
<1>3. next = [code |-> code, title |-> title, cast |-> cast, source |-> sources,
              locks |-> locks, snaps |-> row.snaps \cup new.snaps]
  <2>1. /\ next["code"] = code /\ next["title"] = title /\ next["cast"] = cast
        /\ next["locks"] = locks
    BY <1>1, <1>2 DEF Works!Rows
  <2>2. next["source"] = sources
    BY <1>1, <1>2 DEF Works!Rows
  <2>3. next["snaps"] = row.snaps \cup new.snaps
    BY <1>1, <1>2
  <2>4. DOMAIN next = {"code", "title", "cast", "source", "locks", "snaps"}
    BY <1>1, <1>2
  <2>5. next = [k \in DOMAIN next |-> next[k]]
    BY <1>1
  <2> HIDE DEF sources, code, title, cast, locks
  <2> QED
    BY <2>1, <2>2, <2>3, <2>4, <2>5
<1>4. /\ code \in Codes \cup {NoCode} /\ title \in Works!Records \cup {Works!User}
      /\ cast \in Works!Records \cup {Works!User, Works!NoOne}
      /\ sources \in Works!Records \cup {Works!User}
      /\ locks \in SUBSET Works!Lockable /\ row.snaps \cup new.snaps \in SUBSET Works!Records
      /\ cast = row.cast \/ cast = new.cast
  BY RowFacts
<1>5. mem = row => /\ code = new.code /\ title = new.title /\ cast = new.cast
                   /\ sources = new.source /\ locks = new.locks
  BY DEF Works!Rows
<1> HIDE DEF sources, code, title, cast, locks
<1>6. next \in Works!Rows
  BY <1>3, <1>4, RowMade
<1>7. next.cast = cast /\ next.snaps = row.snaps \cup new.snaps
  BY <1>3
<1>8. Attributed(row) /\ Attributed(new) => Attributed(next)
  BY <1>4, <1>7 DEF Attributed
<1>9. ASSUME mem = row, row.snaps \subseteq new.snaps PROVE next = new
  <2>1. row.snaps \cup new.snaps = new.snaps
    BY <1>9
  <2>2. new = [code |-> new.code, title |-> new.title, cast |-> new.cast,
               source |-> new.source, locks |-> new.locks, snaps |-> new.snaps]
    BY DEF Works!Rows
  <2> QED
    BY <1>3, <1>5, <1>9, <2>1, <2>2
<1> QED
  BY <1>6, <1>8, <1>9 DEF Written

-----------------------------------------------------------------------------
(* The catalogue                                                           *)

Keys == Works!Records \cup Codes \cup {NoCode}
CatType == [works : Seq(Works!Rows), ids : [Keys -> Nat]]
(* Identities lead to works, and every cast is that of a snapshot.         *)
Sound(c) ==
    /\ c \in CatType /\ c.ids[NoCode] = 0
    /\ \A k \in Keys : c.ids[k] <= Len(c.works)
    /\ \A w \in 1..Len(c.works) : Attributed(c.works[w])

(* From c to d works are only added, and identities stay with their work.  *)
Extends(c, d) ==
    /\ Sound(d) /\ Len(c.works) <= Len(d.works)
    /\ \A k \in Keys : c.ids[k] # 0 => d.ids[k] = c.ids[k]

LEMMA CatMade ==
    ASSUME NEW works \in Seq(Works!Rows), NEW ids \in [Keys -> Nat],
           NEW c, c = [works |-> works, ids |-> ids]
    PROVE  c \in CatType /\ c.works = works /\ c.ids = ids
BY DEF CatType
LEMMA CatHas ==
    ASSUME NEW c \in CatType
    PROVE  /\ c.works \in Seq(Works!Rows) /\ c.ids \in [Keys -> Nat] /\ Len(c.works) \in Nat
           /\ \A w \in 1..Len(c.works) : c.works[w] \in Works!Rows
           /\ c = [works |-> c.works, ids |-> c.ids]
           /\ \A k \in Keys : c.ids[k] \in Nat
           /\ DOMAIN c.works = 1..Len(c.works)
BY DEF CatType

LEMMA ExtendsItself ==
    ASSUME NEW c, Sound(c)
    PROVE  Extends(c, c)
<1>1. c \in CatType
  BY DEF Sound
<1> QED
  BY <1>1, CatHas DEF Extends
LEMMA ExtendsOn ==
    ASSUME NEW a \in CatType, NEW b \in CatType, NEW c \in CatType, Extends(a, b), Extends(b, c)
    PROVE  Extends(a, c)
<1>1. Len(a.works) \in Nat /\ Len(b.works) \in Nat /\ Len(c.works) \in Nat
  BY CatHas
<1> QED
  BY <1>1 DEF Extends

LEMMA KeysOf ==
    ASSUME Works!CatalogueAssumption
    PROVE  /\ \A r \in Works!Records : /\ r \in Keys /\ CodeOf[r] \in Keys
                                       /\ r \in {r, CodeOf[r]} \ {NoCode}
           /\ NoCode \in Keys
BY CatalogueFacts DEF Keys

(* One row replaced.                                                       *)
Replaced(c, d, w, row) ==
    /\ d \in CatType /\ d.ids = c.ids /\ Len(d.works) = Len(c.works)
    /\ d.works[w] = row
    /\ \A v \in 1..Len(c.works) : v # w => d.works[v] = c.works[v]
(* A record stored for a work.                                             *)
Stored(c, d, w, r) ==
    /\ d \in CatType /\ Len(d.works) = Len(c.works) /\ d.ids[NoCode] = 0
    /\ \A k \in Keys : d.ids[k] <= Len(c.works)
    /\ d.works[w] = [c.works[w] EXCEPT !.snaps = @ \cup {r}]
    /\ \A v \in 1..Len(c.works) : v # w => d.works[v] = c.works[v]
    /\ \A k \in Keys : c.ids[k] # 0 => d.ids[k] = c.ids[k]
    /\ c.ids[r] = 0 => d.ids[r] = w
    /\ d.ids[r] # 0

LEMMA ReplacedIf ==
    ASSUME NEW c, NEW w, NEW row, NEW works, Len(works) = Len(c.works), works[w] = row,
           \A v \in 1..Len(c.works) : v # w => works[v] = c.works[v],
           NEW d \in CatType, d.works = works, d.ids = c.ids
    PROVE  Replaced(c, d, w, row)
BY DEF Replaced
LEMMA RowReplaced ==
    ASSUME NEW c \in CatType, NEW w \in 1..Len(c.works), NEW row \in Works!Rows,
           NEW d, d = [c EXCEPT !.works[w] = row]
    PROVE  Replaced(c, d, w, row)
<1> DEFINE works == [c.works EXCEPT ![w] = row]
<1>1. /\ c.works \in Seq(Works!Rows) /\ c.ids \in [Keys -> Nat] /\ Len(c.works) \in Nat
      /\ DOMAIN c.works = 1..Len(c.works) /\ c = [works |-> c.works, ids |-> c.ids]
  BY CatHas
<1>2. works \in Seq(Works!Rows) /\ Len(works) = Len(c.works)
  BY <1>1
<1>3. works[w] = row /\ \A v \in 1..Len(c.works) : v # w => works[v] = c.works[v]
  BY <1>1
<1>4. d = [works |-> works, ids |-> c.ids]
  BY <1>1
<1> HIDE DEF works
<1>5. d \in CatType /\ d.works = works /\ d.ids = c.ids
  BY <1>1, <1>2, <1>4, CatMade
<1> QED
  BY <1>2, <1>3, <1>5, ReplacedIf

(* The record a work was made or changed from.                             *)
LEMMA RecordedCat ==
    ASSUME Works!CatalogueAssumption, NEW c \in CatType, c.ids[NoCode] = 0,
           \A k \in Keys : c.ids[k] <= Len(c.works),
           NEW w \in 1..Len(c.works), NEW r \in Works!Records,
           NEW d, d = Works!Recorded(c, w, r)
    PROVE  Stored(c, d, w, r)
<1> DEFINE new == {r, CodeOf[r]} \ {NoCode}
           ids == [k \in Keys |-> IF k \in new /\ c.ids[k] = 0 THEN w ELSE c.ids[k]]
           row == [c.works[w] EXCEPT !.snaps = @ \cup {r}]
           b == [c EXCEPT !.ids = ids]
<1>1. /\ c.works \in Seq(Works!Rows) /\ c.ids \in [Keys -> Nat] /\ Len(c.works) \in Nat
      /\ DOMAIN c.works = 1..Len(c.works) /\ c = [works |-> c.works, ids |-> c.ids]
      /\ c.works[w] \in Works!Rows /\ \A k \in Keys : c.ids[k] \in Nat
  BY CatHas
<1>2. row \in Works!Rows
  <2>1. c.works[w].snaps \cup {r} \in SUBSET Works!Records
    BY <1>1, RowFacts
  <2> QED
    BY <1>1, <2>1, RowFields
<1>3. DOMAIN c.ids = Keys /\ ids \in [Keys -> Nat]
  BY <1>1
<1>4. r \in Keys /\ r \in new /\ NoCode \in Keys /\ NoCode \notin new
  BY KeysOf
<1>5. b = [works |-> c.works, ids |-> ids]
  <2> HIDE DEF ids, row
  <2> QED
    BY <1>1
<1>6. d = [b EXCEPT !.works[w] = row]
  <2>1. [k \in DOMAIN c.ids |-> IF k \in new /\ c.ids[k] = 0 THEN w ELSE c.ids[k]] = ids
    BY <1>3
  <2>2. d = [c EXCEPT !.ids = [k \in DOMAIN @ |->
                         IF k \in {r, CodeOf[r]} \ {NoCode} /\ @[k] = 0 THEN w ELSE @[k]],
              !.works[w].snaps = @ \cup {r}]
    BY DEF Works!Recorded
  <2>3. d = [c EXCEPT !.ids = ids, !.works[w].snaps = @ \cup {r}]
    BY <2>1, <2>2
  <2>4. [c EXCEPT !.ids = ids, !.works[w].snaps = @ \cup {r}]
          = [works |-> [c.works EXCEPT ![w] = row], ids |-> ids]
    <3>0. PICK e : e = [c EXCEPT !.ids = ids]
      OBVIOUS
    <3>1. e = [works |-> c.works, ids |-> ids]
      <4> HIDE DEF ids
      <4> QED
        BY <1>1, <3>0
    <3>2. [e EXCEPT !.works[w].snaps = c.works[w].snaps \cup {r}]
            = [works |-> [c.works EXCEPT ![w] = row], ids |-> ids]
      <4>a. PICK s : s = c.works[w].snaps \cup {r}
        OBVIOUS
      <4>1. e.works = c.works
        BY <3>1
      <4> HIDE DEF ids
      <4>b. PICK works : works = [c.works EXCEPT ![w] = [@ EXCEPT !.snaps = s]]
        OBVIOUS
      <4>2. [e EXCEPT !.works = works] = [works |-> works, ids |-> ids]
        BY <3>1
      <4> QED
        BY <4>a, <4>b, <4>1, <4>2 DEF row
    <3> HIDE DEF ids
    <3> QED
      BY <3>0, <3>2
  <2>5. [b EXCEPT !.works[w] = row] = [works |-> [c.works EXCEPT ![w] = row], ids |-> ids]
    <3> HIDE DEF ids, row, b
    <3> QED
      BY <1>5
  <2> HIDE DEF ids, row, b
  <2> QED
    BY <2>3, <2>4, <2>5
<1>7. b \in CatType /\ b.works = c.works /\ b.ids = ids
  <2> HIDE DEF ids, b
  <2> QED
    BY <1>1, <1>3, <1>5, CatMade
<1>8. /\ \A k \in Keys : c.ids[k] # 0 => ids[k] = c.ids[k]
      /\ \A k \in Keys : ids[k] <= Len(c.works)
      /\ ids[NoCode] = 0 /\ (c.ids[r] = 0 => ids[r] = w) /\ ids[r] # 0
  BY <1>1, <1>4
<1> HIDE DEF ids, row, b
<1>9. w \in 1..Len(b.works)
  BY <1>7
<1>10. Replaced(b, d, w, row)
  BY <1>2, <1>6, <1>7, <1>9, RowReplaced
<1> QED
  BY <1>7, <1>8, <1>10 DEF row, Stored, Replaced

LEMMA FromSound ==
    ASSUME NEW c, Sound(c)
    PROVE  /\ c \in CatType /\ c.ids[NoCode] = 0
           /\ \A k \in Keys : c.ids[k] <= Len(c.works)
           /\ \A w \in 1..Len(c.works) : Attributed(c.works[w]) /\ c.works[w] \in Works!Rows
           /\ Len(c.works) \in Nat /\ \A k \in Keys : c.ids[k] \in Nat
BY CatHas DEF Sound

(* A work merged with one more record, known or not.                       *)
LEMMA MergedCat ==
    ASSUME Works!CatalogueAssumption, NEW c, Sound(c),
           NEW w \in 1..Len(c.works), NEW r \in Works!Records, NEW row \in Works!Rows,
           NEW b, Replaced(c, b, w, row), NEW d, d = Works!Recorded(b, w, r),
           Continues(c.works[w], [row EXCEPT !.snaps = @ \cup {r}])
    PROVE  /\ Extends(c, d) /\ Len(d.works) = Len(c.works) /\ d.ids[r] # 0
           /\ d.works[w] = [row EXCEPT !.snaps = @ \cup {r}]
           /\ \A v \in 1..Len(c.works) : v # w => d.works[v] = c.works[v]
<1>1. /\ b \in CatType /\ b.ids = c.ids /\ Len(b.works) = Len(c.works)
      /\ b.works[w] = row
      /\ \A v \in 1..Len(c.works) : v # w => b.works[v] = c.works[v]
  BY DEF Replaced
<1>2. /\ b.ids[NoCode] = 0 /\ \A k \in Keys : b.ids[k] <= Len(b.works)
      /\ w \in 1..Len(b.works) /\ Len(c.works) \in Nat
  BY <1>1, FromSound
<1>3. Stored(b, d, w, r)
  BY <1>1, <1>2, RecordedCat
<1>4. /\ d \in CatType /\ Len(d.works) = Len(c.works) /\ d.ids[NoCode] = 0
      /\ \A k \in Keys : d.ids[k] <= Len(d.works)
      /\ d.works[w] = [row EXCEPT !.snaps = @ \cup {r}]
      /\ \A v \in 1..Len(c.works) : v # w => d.works[v] = c.works[v]
      /\ \A k \in Keys : c.ids[k] # 0 => d.ids[k] = c.ids[k]
      /\ d.ids[r] # 0
  BY <1>1, <1>3 DEF Stored
<1>5. ASSUME NEW v \in 1..Len(c.works) PROVE Attributed(d.works[v])
  <2>1. Attributed(c.works[v])
    BY FromSound
  <2>2. CASE v = w
    BY <1>4, <2>1, <2>2 DEF Continues
  <2>3. CASE v # w
    BY <1>4, <2>1, <2>3
  <2> QED
    BY <2>2, <2>3
<1>6. Sound(d)
  BY <1>4, <1>5 DEF Sound
<1> QED
  BY <1>2, <1>4, <1>6 DEF Extends

LEMMA AddedCat ==
    ASSUME Works!CatalogueAssumption, NEW c, Sound(c), NEW r \in Works!Records,
           NEW d, d = Works!Added(c, r)
    PROVE  /\ Extends(c, d) /\ Len(d.works) = Len(c.works) + 1 /\ d.ids[r] # 0
           /\ \A v \in 1..Len(c.works) : d.works[v] = c.works[v]
           /\ c.ids[r] = 0 => d.ids[r] = Len(c.works) + 1
<1>m. PICK minted : minted = Works!Created(r)
  OBVIOUS
<1>l. PICK longer : longer = Append(c.works, minted)
  OBVIOUS
<1>a. PICK b : b = [c EXCEPT !.works = longer]
  OBVIOUS
<1>b. PICK w : w = Len(c.works) + 1
  OBVIOUS
<1>1. /\ c.works \in Seq(Works!Rows) /\ c.ids \in [Keys -> Nat] /\ Len(c.works) \in Nat
      /\ c = [works |-> c.works, ids |-> c.ids]
      /\ \A k \in Keys : c.ids[k] \in Nat
  BY FromSound, CatHas
<1>2. minted \in Works!Rows /\ minted.snaps = {}
      /\ ((minted.cast = r /\ r \in Casting) \/ minted.cast = Works!NoOne)
  <2>1. CodeOf[r] \in Codes \cup {NoCode}
    BY CatalogueFacts
  <2>2. Works!Named(r) \in Works!Records \cup {Works!User, Works!NoOne}
        /\ ((Works!Named(r) = r /\ r \in Casting) \/ Works!Named(r) = Works!NoOne)
    BY DEF Works!Named
  <2>3. {} \in SUBSET Works!Lockable /\ {} \in SUBSET Works!Records
    OBVIOUS
  <2>4. minted = [code |-> CodeOf[r], title |-> r, cast |-> Works!Named(r), source |-> r,
                locks |-> {}, snaps |-> {}]
    BY <1>m DEF Works!Created
  <2>5. minted \in Works!Rows
    BY <2>1, <2>2, <2>3, <2>4 DEF Works!Rows
  <2> QED
    BY <2>2, <2>4, <2>5
<1>3. /\ longer \in Seq(Works!Rows) /\ Len(longer) = w /\ longer[w] = minted
      /\ \A v \in 1..Len(c.works) : longer[v] = c.works[v]
  BY <1>1, <1>2, <1>b, <1>l
<1>4. b = [works |-> longer, ids |-> c.ids]
  BY <1>1, <1>a
<1>5. b \in CatType /\ b.works = longer /\ b.ids = c.ids
  BY <1>1, <1>3, <1>4, CatMade
<1>6. d = Works!Recorded(b, w, r)
  BY <1>a, <1>b, <1>l, <1>m DEF Works!Added
<1>7. w \in 1..Len(b.works) /\ b.ids[NoCode] = 0 /\ \A k \in Keys : b.ids[k] <= Len(b.works)
  <2>1. c.ids[NoCode] = 0 /\ \A k \in Keys : c.ids[k] <= Len(c.works)
    BY FromSound
  <2> QED
    BY <1>1, <1>3, <1>5, <1>b, <2>1
<1>8. Stored(b, d, w, r)
  BY <1>5, <1>6, <1>7, RecordedCat
<1>9. /\ d \in CatType /\ Len(d.works) = w /\ d.ids[NoCode] = 0
      /\ \A k \in Keys : d.ids[k] <= Len(d.works)
      /\ d.works[w] = [minted EXCEPT !.snaps = @ \cup {r}]
      /\ \A v \in 1..w : v # w => d.works[v] = longer[v]
      /\ \A k \in Keys : c.ids[k] # 0 => d.ids[k] = c.ids[k]
      /\ c.ids[r] = 0 => d.ids[r] = w
      /\ d.ids[r] # 0
  BY <1>3, <1>5, <1>8 DEF Stored
<1>10. \A v \in 1..Len(c.works) : d.works[v] = c.works[v]
  BY <1>1, <1>3, <1>9, <1>b
<1>11. Attributed(d.works[w])
  <2>1. {r} \in SUBSET Works!Records /\ minted.snaps \cup {r} = {r}
    BY <1>2
  <2>2. d.works[w] = [minted EXCEPT !.snaps = {r}]
    BY <1>9, <2>1
  <2>3. d.works[w].snaps = {r} /\ d.works[w].cast = minted.cast
    BY <1>2, <2>1, <2>2, RowFields
  <2>4. Works!NoOne \notin Remote
    BY CatalogueFacts
  <2> QED
    BY <1>2, <2>3, <2>4 DEF Attributed
<1>12. Sound(d)
  <2>1. ASSUME NEW v \in 1..Len(d.works) PROVE Attributed(d.works[v])
    <3>1. CASE v = w
      BY <1>11, <3>1
    <3>2. CASE v # w
      <4>1. v \in 1..Len(c.works)
        BY <1>1, <1>9, <1>b, <3>2
      <4>2. Attributed(c.works[v])
        BY <4>1, FromSound
      <4> QED
        BY <1>10, <4>1, <4>2
    <3> QED
      BY <3>1, <3>2
  <2> QED
    BY <1>9, <2>1 DEF Sound
<1>13. Extends(c, d)
  BY <1>1, <1>9, <1>12, <1>b DEF Extends
<1> QED
  BY <1>9, <1>10, <1>13, <1>b
LEMMA ResolvedTo ==
    ASSUME Works!CatalogueAssumption, NEW c, Sound(c), NEW r \in Works!Records
    PROVE  Works!Resolve(c, r) \in 0..Len(c.works)
<1>1. r \in Keys /\ CodeOf[r] \in Keys
  BY KeysOf
<1>2. /\ c.ids[r] \in Nat /\ c.ids[r] <= Len(c.works) /\ Len(c.works) \in Nat
      /\ c.ids[CodeOf[r]] \in Nat /\ c.ids[CodeOf[r]] <= Len(c.works)
  BY <1>1, FromSound
<1> QED
  BY <1>2 DEF Works!Resolve

LEMMA Unchanged ==
    ASSUME Works!CatalogueAssumption, NEW row \in Works!Rows
    PROVE  Continues(row, row) /\ Curates(row, row) /\ Keeps(row, row)
<1>1. Keeps(row, row)
  BY KeepsItself
<1> QED
  BY <1>1, ContinuesCurates DEF Keeps

(* A record that is looked up, accepted or seeded.                         *)
LEMMA UpsertedCat ==
    ASSUME Works!CatalogueAssumption, NEW c, Sound(c), NEW r \in Works!Records, NEW overwrite,
           NEW d, d = Works!Upserted(c, r, overwrite)
    PROVE  /\ Extends(c, d) /\ d.ids[r] # 0
           /\ \A w \in 1..Len(c.works) :
                /\ Continues(c.works[w], d.works[w]) /\ Curates(c.works[w], d.works[w])
                /\ r \in Remote => Keeps(c.works[w], d.works[w])
<1> PICK h \in 0..Len(c.works) : h = Works!Resolve(c, r)
  BY ResolvedTo
<1>1. CASE h = 0
  <2>1. d = Works!Added(c, r)
    BY <1>1 DEF Works!Upserted
  <2>2. /\ Extends(c, d) /\ d.ids[r] # 0
        /\ \A w \in 1..Len(c.works) : d.works[w] = c.works[w]
    BY <2>1, AddedCat
  <2>3. \A w \in 1..Len(c.works) : c.works[w] \in Works!Rows
    BY FromSound
  <2> QED
    BY <2>2, <2>3, Unchanged
<1>2. CASE h # 0
  <2>1. h \in 1..Len(c.works) /\ c.works[h] \in Works!Rows /\ c \in CatType
    BY <1>2, FromSound
  <2>a. PICK row : row = Works!Merged(c.works[h], r, overwrite)
    OBVIOUS
  <2>b. PICK b : b = [c EXCEPT !.works[h] = row]
    OBVIOUS
  <2>c. PICK next : next = [row EXCEPT !.snaps = @ \cup {r}]
    OBVIOUS
  <2>2. d = Works!Recorded(b, h, r)
    BY <1>2, <2>a, <2>b DEF Works!Upserted
  <2>3. row \in Works!Rows
    BY <2>1, <2>a, MergedRow
  <2>4. /\ Continues(c.works[h], next) /\ Curates(c.works[h], next)
        /\ r \in Remote => Keeps(c.works[h], next)
    BY <2>1, <2>a, <2>c, MergedContinues
  <2>5. Replaced(c, b, h, row)
    BY <2>1, <2>3, <2>b, RowReplaced
  <2>6. /\ Extends(c, d) /\ d.ids[r] # 0 /\ d.works[h] = next
        /\ \A w \in 1..Len(c.works) : w # h => d.works[w] = c.works[w]
    BY <2>1, <2>2, <2>3, <2>4, <2>5, <2>c, MergedCat
  <2>7. ASSUME NEW w \in 1..Len(c.works)
        PROVE  /\ Continues(c.works[w], d.works[w]) /\ Curates(c.works[w], d.works[w])
               /\ r \in Remote => Keeps(c.works[w], d.works[w])
    <3>1. CASE w = h
      BY <2>4, <2>6, <3>1
    <3>2. CASE w # h
      <4>1. c.works[w] \in Works!Rows /\ d.works[w] = c.works[w]
        BY <2>6, <3>2, FromSound
      <4> QED
        BY <4>1, Unchanged
    <3> QED
      BY <3>1, <3>2
  <2> QED
    BY <2>6, <2>7
<1> QED
  BY <1>1, <1>2

(* A file that is catalogued under its own name.                           *)
LEMMA CataloguedCat ==
    ASSUME Works!CatalogueAssumption, NEW c, Sound(c), NEW a \in Files,
           NEW w \in 0..Len(c.works), NEW replace,
           NEW d, d = Works!Catalogued(c, w, a, replace)
    PROVE  /\ Extends(c, d) /\ Works!LocalWork(c, w, a) \in 1..Len(d.works)
           /\ \A v \in 1..Len(c.works) : Curates(c.works[v], d.works[v])
<1>0. a \in Works!Records /\ Len(c.works) \in Nat
  BY CatalogueFacts, FromSound
<1> PICK h \in 0..Len(c.works) : h = Works!LocalHome(c, w, a)
  BY <1>0, ResolvedTo DEF Works!LocalHome
<1>1. CASE h = 0
  <2>1. d = Works!Added(c, a)
    BY <1>1 DEF Works!Catalogued
  <2>2. /\ Extends(c, d) /\ Len(d.works) = Len(c.works) + 1
        /\ \A v \in 1..Len(c.works) : d.works[v] = c.works[v]
    BY <1>0, <2>1, AddedCat
  <2>3. \A v \in 1..Len(c.works) : c.works[v] \in Works!Rows
    BY FromSound
  <2>4. Works!LocalWork(c, w, a) = Len(c.works) + 1
    BY <1>1 DEF Works!LocalWork
  <2> QED
    BY <1>0, <2>2, <2>3, <2>4, Unchanged
<1>2. CASE h # 0
  <2>1. h \in 1..Len(c.works) /\ c.works[h] \in Works!Rows /\ c \in CatType
    BY <1>2, FromSound
  <2>a. PICK row : row = IF w # 0 /\ replace THEN Works!ReplacedLocal(c.works[h], a)
                         ELSE Works!MergedLocal(c.works[h], a)
    OBVIOUS
  <2>b. PICK b : b = [c EXCEPT !.works[h] = row]
    OBVIOUS
  <2>c. PICK next : next = [row EXCEPT !.snaps = @ \cup {a}]
    OBVIOUS
  <2>2. d = Works!Recorded(b, h, a)
    BY <1>2, <2>a, <2>b DEF Works!Catalogued
  <2>3. row = Works!MergedLocal(c.works[h], a) \/ row = Works!ReplacedLocal(c.works[h], a)
    BY <2>a
  <2>4. Continues(c.works[h], next) /\ Curates(c.works[h], next) /\ row \in Works!Rows
    BY <2>1, <2>3, <2>c, LocalContinues
  <2>5. Replaced(c, b, h, row)
    BY <2>1, <2>4, <2>b, RowReplaced
  <2>6. /\ Extends(c, d) /\ d.works[h] = next /\ Len(d.works) = Len(c.works)
        /\ \A v \in 1..Len(c.works) : v # h => d.works[v] = c.works[v]
    BY <1>0, <2>1, <2>2, <2>4, <2>5, <2>c, MergedCat
  <2>7. ASSUME NEW v \in 1..Len(c.works) PROVE Curates(c.works[v], d.works[v])
    <3>1. CASE v = h
      BY <2>4, <2>6, <3>1
    <3>2. CASE v # h
      <4>1. c.works[v] \in Works!Rows /\ d.works[v] = c.works[v]
        BY <2>6, <3>2, FromSound
      <4> QED
        BY <4>1, Unchanged
    <3> QED
      BY <3>1, <3>2
  <2>8. Works!LocalWork(c, w, a) = h
    BY <1>2 DEF Works!LocalWork
  <2> QED
    BY <2>1, <2>6, <2>7, <2>8
<1> QED
  BY <1>1, <1>2
-----------------------------------------------------------------------------
(* One record after the other                                              *)

LEMMA UptoInduction ==
    ASSUME NEW n \in Nat, NEW S, 0 \in S, \A i \in 1..n : i - 1 \in S => i \in S
    PROVE  \A i \in 0..n : i \in S
<1> DEFINE Bad == {i \in 0..n : i \notin S}
<1> SUFFICES ASSUME Bad # {} PROVE FALSE
  OBVIOUS
<1>1. Bad \in SUBSET Nat
  OBVIOUS
<1>2. PICK m \in Bad : \A k \in Bad : m <= k
  <2> HIDE DEF Bad
  <2> QED
    BY <1>1, LeastElement
<1>3. m \in 1..n /\ m - 1 \in 0..n /\ m - 1 \notin Bad
  BY <1>2
<1> QED
  BY <1>2, <1>3

(* A recursive function exists if its steps stay in a set.                 *)
Steps(f, n, u, F) == f = [i \in 0..n |-> IF i = 0 THEN u ELSE F[i][f[i - 1]]]
LEMMA StepsExist ==
    ASSUME NEW n \in Nat, NEW D, NEW u \in D, NEW F \in [1..n -> [D -> D]]
    PROVE  \E f \in [0..n -> D] : Steps(f, n, u, F)
<1> DEFINE P(m) == \E f \in [0..m -> D] :
                       f = [i \in 0..m |-> IF i = 0 THEN u ELSE F[i][f[i - 1]]]
           S == {m \in 0..n : P(m)}
<1>1. P(0)
  <2>1. [i \in 0..0 |-> u] \in [0..0 -> D]
    OBVIOUS
  <2>2. PICK f : f = [i \in 0..0 |-> u]
    OBVIOUS
  <2>3. f = [i \in 0..0 |-> IF i = 0 THEN u ELSE F[i][f[i - 1]]]
    BY <2>2
  <2> QED
    BY <2>1, <2>2, <2>3
<1>2. ASSUME NEW m \in 1..n, P(m - 1) PROVE P(m)
  <2>1. PICK f \in [0..(m - 1) -> D] :
           f = [i \in 0..(m - 1) |-> IF i = 0 THEN u ELSE F[i][f[i - 1]]]
    BY <1>2
  <2>2. PICK g : g = [i \in 0..m |-> IF i = m THEN F[m][f[m - 1]] ELSE f[i]]
    OBVIOUS
  <2>3. m - 1 \in 0..(m - 1) /\ f[m - 1] \in D
    OBVIOUS
  <2>4. F[m][f[m - 1]] \in D
    BY <2>3
  <2>5. g \in [0..m -> D]
    BY <2>2, <2>4
  <2>6. ASSUME NEW i \in 0..m PROVE g[i] = IF i = 0 THEN u ELSE F[i][g[i - 1]]
    <3>1. CASE i = m
      <4>1. g[i - 1] = f[m - 1] /\ g[i] = F[m][f[m - 1]] /\ i # 0
        BY <2>2, <2>3, <3>1
      <4> QED
        BY <3>1, <4>1
    <3>2. CASE i # m
      <4>1. i \in 0..(m - 1) /\ g[i] = f[i]
        BY <2>2, <3>2
      <4>2. f[i] = IF i = 0 THEN u ELSE F[i][f[i - 1]]
        BY <2>1, <4>1
      <4>3. i # 0 => i - 1 \in 0..m /\ i - 1 # m
        BY <3>2
      <4>4. i # 0 => g[i - 1] = f[i - 1]
        BY <2>2, <4>3
      <4> QED
        BY <4>1, <4>2, <4>4
    <3> QED
      BY <3>1, <3>2
  <2>7. g = [i \in 0..m |-> IF i = 0 THEN u ELSE F[i][g[i - 1]]]
    BY <2>2, <2>6
  <2> QED
    BY <2>5, <2>7
<1> HIDE DEF P
<1>3. 0 \in S /\ \A m \in 1..n : m - 1 \in S => m \in S
  BY <1>1, <1>2
<1> HIDE DEF S
<1>4. \A m \in 0..n : m \in S
  BY <1>3, UptoInduction
<1>5. n \in 0..n
  OBVIOUS
<1>6. P(n)
  BY <1>4, <1>5 DEF S
<1> QED
  BY <1>6 DEF P, Steps

LEMMA OrdersSeq ==
    ASSUME NEW S, NEW s \in Works!Orders(S)
    PROVE  s \in Seq(S)
<1>1. PICK n \in 0..Works!Cardinality(S) : s \in [1..n -> S]
  BY DEF Works!Orders
<1>2. n \in Nat
  BY <1>1
<1> QED
  BY <1>1, <1>2
(* One more record of the work that the best match leads to.               *)
JoinOf(d, a, top, w, r) ==
    IF r # top /\ <<a, r>> \in Matching /\ CodeOf[top] # NoCode /\ CodeOf[r] = CodeOf[top]
    THEN Works!Recorded([d EXCEPT !.works[w] = Works!Merged(@, r, FALSE)], w, r) ELSE d
Best(c, ranked) == Works!Upserted(c, ranked[1], TRUE)
JoinedUpto(c, a, ranked, f, i) ==
    IF i = 0 THEN Best(c, ranked)
    ELSE JoinOf(f[i - 1], a, ranked[1], Best(c, ranked).ids[ranked[1]], ranked[i])

(* What merges of providers' records make of b.                            *)
Grown(b) ==
    {d \in CatType : /\ Extends(b, d)
                     /\ \A v \in 1..Len(b.works) : Keeps(b.works[v], d.works[v])}

LEMMA JoinGrows ==
    ASSUME Works!CatalogueAssumption, NEW b, Sound(b), NEW w \in 1..Len(b.works),
           NEW a, NEW top, NEW r \in Remote, NEW d \in Grown(b)
    PROVE  JoinOf(d, a, top, w, r) \in Grown(b)
<1>1. /\ d \in CatType /\ Extends(b, d) /\ Sound(d) /\ Len(b.works) <= Len(d.works)
      /\ \A v \in 1..Len(b.works) : Keeps(b.works[v], d.works[v])
  BY DEF Grown, Extends
<1>2. Len(b.works) \in Nat /\ Len(d.works) \in Nat /\ b \in CatType
  BY <1>1, FromSound
<1>3. w \in 1..Len(d.works) /\ d.works[w] \in Works!Rows /\ r \in Works!Records
  BY <1>1, <1>2, FromSound, CatalogueFacts
<1>a. PICK row : row = Works!Merged(d.works[w], r, FALSE)
  OBVIOUS
<1>b. PICK e : e = [d EXCEPT !.works[w] = row]
  OBVIOUS
<1>c. PICK f : f = Works!Recorded(e, w, r)
  OBVIOUS
<1>d. PICK next : next = [row EXCEPT !.snaps = @ \cup {r}]
  OBVIOUS
<1>4. row \in Works!Rows /\ Continues(d.works[w], next) /\ Keeps(d.works[w], next)
  BY <1>3, <1>a, <1>d, MergedRow, MergedContinues
<1>5. Replaced(d, e, w, row)
  BY <1>1, <1>3, <1>4, <1>b, RowReplaced
<1>6. /\ Extends(d, f) /\ Len(f.works) = Len(d.works) /\ f.works[w] = next
      /\ \A v \in 1..Len(d.works) : v # w => f.works[v] = d.works[v]
  BY <1>1, <1>3, <1>4, <1>5, <1>c, <1>d, MergedCat
<1>7. Sound(f) /\ f \in CatType
  BY <1>6, FromSound DEF Extends
<1>8. Extends(b, f)
  BY <1>1, <1>2, <1>6, <1>7, ExtendsOn
<1>9. ASSUME NEW v \in 1..Len(b.works) PROVE Keeps(b.works[v], f.works[v])
  <2>1. v \in 1..Len(d.works) /\ v \in 1..Len(f.works)
    BY <1>1, <1>2, <1>6
  <2>2. /\ b.works[v] \in Works!Rows /\ d.works[v] \in Works!Rows /\ f.works[v] \in Works!Rows
        /\ Keeps(b.works[v], d.works[v])
    BY <1>1, <1>7, <2>1, FromSound
  <2>3. CASE v = w
    <3>1. Keeps(d.works[v], f.works[v])
      BY <1>4, <1>6, <2>3
    <3> QED
      BY <2>2, <3>1, KeepsOn
  <2>4. CASE v # w
    BY <1>6, <2>1, <2>2, <2>4
  <2> QED
    BY <2>3, <2>4
<1>10. f \in Grown(b)
  BY <1>7, <1>8, <1>9 DEF Grown
<1>11. JoinOf(d, a, top, w, r) = f \/ JoinOf(d, a, top, w, r) = d
  BY <1>a, <1>b, <1>c DEF JoinOf
<1> QED
  BY <1>10, <1>11

LEMMA JoinedRuns ==
    ASSUME Works!CatalogueAssumption, NEW c, NEW a, NEW ranked \in Seq(Remote),
           NEW b, b = Best(c, ranked), Sound(b),
           b.ids[ranked[1]] \in 1..Len(b.works)
    PROVE  Works!BatchMerged(c, a, ranked) \in Grown(b)
<1> PICK top : top = ranked[1]
  OBVIOUS
<1> PICK w : w = b.ids[top]
  OBVIOUS
<1>1. /\ Len(ranked) \in Nat /\ \A i \in 1..Len(ranked) : ranked[i] \in Remote
      /\ b \in CatType
  BY FromSound
<1>2. b \in Grown(b)
  <2>1. \A v \in 1..Len(b.works) : b.works[v] \in Works!Rows
    BY FromSound
  <2> QED
    BY <1>1, <2>1, ExtendsItself, Unchanged DEF Grown
<1>3. PICK F : F = [i \in 1..Len(ranked) |->
                      [d \in Grown(b) |-> JoinOf(d, a, top, w, ranked[i])]]
  OBVIOUS
<1>4. \A i \in 1..Len(ranked) : \A d \in Grown(b) :
         JoinOf(d, a, top, w, ranked[i]) \in Grown(b)
  BY <1>1, JoinGrows
<1>5. F \in [1..Len(ranked) -> [Grown(b) -> Grown(b)]]
  BY <1>3, <1>4
<1>6. PICK f \in [0..Len(ranked) -> Grown(b)] : Steps(f, Len(ranked), b, F)
  BY <1>1, <1>2, <1>5, StepsExist
<1>7. ASSUME NEW i \in 0..Len(ranked) PROVE f[i] = JoinedUpto(c, a, ranked, f, i)
  <2>1. f[i] = IF i = 0 THEN b ELSE F[i][f[i - 1]]
    BY <1>6 DEF Steps
  <2>2. ASSUME i # 0 PROVE F[i][f[i - 1]] = JoinOf(f[i - 1], a, top, w, ranked[i])
    <3>1. i \in 1..Len(ranked) /\ i - 1 \in 0..Len(ranked)
      BY <1>1, <2>2
    <3>2. f[i - 1] \in Grown(b)
      BY <3>1
    <3> QED
      BY <1>3, <3>1, <3>2
  <2> QED
    BY <2>1, <2>2 DEF JoinedUpto
<1>8. f = [i \in 0..Len(ranked) |-> JoinedUpto(c, a, ranked, f, i)]
  BY <1>7
<1> DEFINE joined[i \in 0..Len(ranked)] ==
             IF i = 0 THEN Works!Upserted(c, ranked[1], TRUE)
             ELSE IF ranked[i] # ranked[1] /\ <<a, ranked[i]>> \in Matching
                     /\ CodeOf[ranked[1]] # NoCode /\ CodeOf[ranked[i]] = CodeOf[ranked[1]]
                  THEN Works!Recorded(
                         [joined[i - 1] EXCEPT
                            !.works[Works!Upserted(c, ranked[1], TRUE).ids[ranked[1]]]
                              = Works!Merged(@, ranked[i], FALSE)],
                         Works!Upserted(c, ranked[1], TRUE).ids[ranked[1]], ranked[i])
                  ELSE joined[i - 1]
<1>9. joined = [i \in 0..Len(ranked) |-> JoinedUpto(c, a, ranked, joined, i)]
  BY <1>8, Zenon DEF JoinedUpto, JoinOf, Best
<1>10. Works!BatchMerged(c, a, ranked) = joined[Len(ranked)]
  BY Zenon DEF Works!BatchMerged
<1> HIDE DEF joined
<1>11. joined[0] \in Grown(b)
  BY <1>1, <1>2, <1>9 DEF JoinedUpto
<1>12. ASSUME NEW i \in 1..Len(ranked), joined[i - 1] \in Grown(b) PROVE joined[i] \in Grown(b)
  <2>1. joined[i] = JoinedUpto(c, a, ranked, joined, i)
    BY <1>1, <1>9
  <2>2. joined[i] = JoinOf(joined[i - 1], a, top, w, ranked[i])
    BY <2>1 DEF JoinedUpto
  <2> QED
    BY <1>4, <1>12, <2>2
<1> DEFINE S == {i \in 0..Len(ranked) : joined[i] \in Grown(b)}
<1>13. 0 \in S /\ \A i \in 1..Len(ranked) : i - 1 \in S => i \in S
  BY <1>1, <1>11, <1>12
<1> HIDE DEF S
<1>14. \A i \in 0..Len(ranked) : i \in S
  BY <1>1, <1>13, UptoInduction
<1> QED
  BY <1>1, <1>10, <1>14 DEF S
(* What all matches of a file make of the catalogue.                       *)
LEMMA BatchMergedCat ==
    ASSUME Works!CatalogueAssumption, NEW c, Sound(c), NEW a, NEW ranked \in Seq(Remote),
           ranked # <<>>, NEW d, d = Works!BatchMerged(c, a, ranked)
    PROVE  /\ Extends(c, d) /\ d.ids[ranked[1]] # 0
           /\ \A w \in 1..Len(c.works) : Curates(c.works[w], d.works[w])
<1>1. ranked[1] \in Remote /\ ranked[1] \in Works!Records /\ ranked[1] \in Keys
  BY CatalogueFacts, KeysOf
<1>a. PICK b : b = Best(c, ranked)
  OBVIOUS
<1>b. PICK top : top = ranked[1]
  OBVIOUS
<1>2. /\ Extends(c, b) /\ b.ids[top] # 0
      /\ \A w \in 1..Len(c.works) : Keeps(c.works[w], b.works[w])
  <2>1. b = Works!Upserted(c, top, TRUE) /\ top \in Works!Records /\ top \in Remote
    BY <1>1, <1>a, <1>b DEF Best
  <2> QED
    BY <2>1, UpsertedCat
<1>3. Sound(b) /\ b \in CatType /\ c \in CatType /\ Len(b.works) \in Nat /\ Len(c.works) \in Nat
      /\ Len(c.works) <= Len(b.works)
  BY <1>2, FromSound DEF Extends
<1>4. b.ids[top] \in Nat /\ b.ids[top] <= Len(b.works) /\ top \in Keys
  BY <1>1, <1>3, <1>b, FromSound
<1>5. b.ids[top] \in 1..Len(b.works)
  BY <1>2, <1>3, <1>4
<1>6. d \in Grown(b)
  BY <1>3, <1>5, <1>a, <1>b, JoinedRuns
<1>7. /\ Extends(b, d) /\ d \in CatType /\ Sound(d) /\ Len(b.works) <= Len(d.works)
      /\ \A v \in 1..Len(b.works) : Keeps(b.works[v], d.works[v])
      /\ \A k \in Keys : b.ids[k] # 0 => d.ids[k] = b.ids[k]
  BY <1>6 DEF Grown, Extends
<1>8. Extends(c, d)
  BY <1>2, <1>3, <1>7, ExtendsOn
<1>9. d.ids[top] # 0
  BY <1>2, <1>4, <1>7
<1>10. ASSUME NEW w \in 1..Len(c.works) PROVE Curates(c.works[w], d.works[w])
  <2>1. w \in 1..Len(b.works) /\ w \in 1..Len(d.works)
    BY <1>3, <1>7, FromSound
  <2>2. /\ c.works[w] \in Works!Rows /\ b.works[w] \in Works!Rows /\ d.works[w] \in Works!Rows
    BY <1>3, <1>7, <2>1, FromSound
  <2>3. Keeps(c.works[w], b.works[w]) /\ Keeps(b.works[w], d.works[w])
    BY <1>2, <1>7, <2>1
  <2>4. Keeps(c.works[w], d.works[w])
    BY <2>2, <2>3, KeepsOn
  <2> QED
    BY <2>2, <2>4, ContinuesCurates DEF Keeps
<1> QED
  BY <1>8, <1>9, <1>10, <1>b

(* What a refresh of work w of the catalogue c, held as mem, makes of it   *)
(* and of its own copy.                                                    *)
Fresh(c, w, mem) ==
    {s \in [cat : CatType, copy : Works!Rows] :
        /\ Extends(c, s.cat) /\ Attributed(s.copy)
        /\ \A v \in 1..Len(c.works) : v # w => Keeps(c.works[v], s.cat.works[v])
        /\ mem = c.works[w] => s.copy = s.cat.works[w] /\ Keeps(c.works[w], s.cat.works[w])}

LEMMA SoundReplaced ==
    ASSUME NEW c, Sound(c), NEW w \in 1..Len(c.works), NEW row \in Works!Rows, Attributed(row),
           NEW d, Replaced(c, d, w, row)
    PROVE  Extends(c, d) /\ Sound(d)
<1>1. /\ d \in CatType /\ d.ids = c.ids /\ Len(d.works) = Len(c.works) /\ d.works[w] = row
      /\ \A v \in 1..Len(c.works) : v # w => d.works[v] = c.works[v]
  BY DEF Replaced
<1>2. \A v \in 1..Len(d.works) : Attributed(d.works[v])
  BY <1>1, FromSound
<1>3. Sound(d)
  BY <1>1, <1>2, FromSound DEF Sound
<1> QED
  BY <1>1, <1>3, FromSound DEF Extends

LEMMA RefreshedStep ==
    ASSUME Works!CatalogueAssumption, NEW c, Sound(c), NEW w \in 1..Len(c.works),
           NEW mem \in Works!Rows, NEW r \in Remote, NEW s \in Fresh(c, w, mem)
    PROVE  Works!Refreshed(s, w, r) \in Fresh(c, w, mem)
<1>1. /\ s.cat \in CatType /\ s.copy \in Works!Rows /\ Extends(c, s.cat) /\ Attributed(s.copy)
      /\ \A v \in 1..Len(c.works) : v # w => Keeps(c.works[v], s.cat.works[v])
      /\ mem = c.works[w] => s.copy = s.cat.works[w] /\ Keeps(c.works[w], s.cat.works[w])
  BY DEF Fresh
<1>a. PICK old : old = s.cat
  OBVIOUS
<1>b. PICK copy : copy = s.copy
  OBVIOUS
<1>2. /\ Sound(old) /\ old \in CatType /\ Len(c.works) <= Len(old.works) /\ c \in CatType
      /\ Len(c.works) \in Nat /\ Len(old.works) \in Nat /\ w \in 1..Len(old.works)
      /\ copy \in Works!Rows /\ Attributed(copy)
  BY <1>1, <1>a, <1>b, FromSound DEF Extends
<1>c. PICK b : b = [old EXCEPT !.works[w] = copy]
  OBVIOUS
<1>3. Replaced(old, b, w, copy)
  BY <1>2, <1>c, RowReplaced
<1>4. Sound(b) /\ Extends(old, b)
  BY <1>2, <1>3, SoundReplaced
<1>5. /\ Len(b.works) = Len(old.works) /\ b.works[w] = copy /\ b \in CatType
      /\ \A v \in 1..Len(old.works) : v # w => b.works[v] = old.works[v]
  BY <1>3 DEF Replaced
<1>d. PICK seen : seen = Works!Upserted(b, r, TRUE)
  OBVIOUS
<1>6. /\ Extends(b, seen)
      /\ \A v \in 1..Len(b.works) :
           /\ Continues(b.works[v], seen.works[v]) /\ Keeps(b.works[v], seen.works[v])
  <2>1. r \in Works!Records
    BY CatalogueFacts
  <2> QED
    BY <1>4, <1>d, <2>1, UpsertedCat
<1>7. /\ Sound(seen) /\ seen \in CatType /\ Len(old.works) <= Len(seen.works)
      /\ Len(seen.works) \in Nat /\ w \in 1..Len(seen.works)
      /\ seen.works[w] \in Works!Rows /\ old.works[w] \in Works!Rows
  BY <1>2, <1>5, <1>6, FromSound DEF Extends
<1>e. PICK row : row = Works!WrittenBack(old.works[w], copy, seen.works[w])
  OBVIOUS
<1>f. PICK d : d = [seen EXCEPT !.works[w] = row]
  OBVIOUS
<1>8. /\ row \in Works!Rows /\ Attributed(row) /\ Attributed(seen.works[w])
      /\ copy = old.works[w] => row = seen.works[w]
  <2>1. Attributed(old.works[w]) /\ Attributed(seen.works[w])
    BY <1>2, <1>7, FromSound
  <2>2. /\ row \in Works!Rows /\ Attributed(row)
        /\ copy = old.works[w] /\ old.works[w].snaps \subseteq seen.works[w].snaps
             => row = seen.works[w]
    <3>1. Written(old.works[w], copy, seen.works[w], row)
      BY <1>2, <1>7, <1>e, WrittenRow
    <3> QED
      BY <2>1, <3>1 DEF Written
  <2>3. copy = old.works[w] => old.works[w].snaps \subseteq seen.works[w].snaps
    BY <1>2, <1>5, <1>6 DEF Continues
  <2> QED
    BY <2>1, <2>2, <2>3
<1>9. Replaced(seen, d, w, row)
  BY <1>7, <1>8, <1>f, RowReplaced
<1>10. Extends(seen, d) /\ Sound(d)
  BY <1>7, <1>8, <1>9, SoundReplaced
<1>11. /\ d \in CatType /\ d.works[w] = row
       /\ \A v \in 1..Len(seen.works) : v # w => d.works[v] = seen.works[v]
  BY <1>9 DEF Replaced
<1>12. Extends(c, d)
  <2>1. Extends(c, old)
    BY <1>1, <1>a
  <2>2. Extends(old, seen)
    BY <1>2, <1>4, <1>5, <1>6, <1>7, ExtendsOn
  <2>3. Extends(old, d)
    BY <1>2, <1>7, <1>10, <1>11, <2>2, ExtendsOn
  <2> QED
    BY <1>2, <1>11, <2>1, <2>3, ExtendsOn
<1>13. ASSUME NEW v \in 1..Len(c.works), v # w PROVE Keeps(c.works[v], d.works[v])
  <2>1. v \in 1..Len(old.works) /\ v \in 1..Len(b.works) /\ v \in 1..Len(seen.works)
    BY <1>2, <1>5, <1>7
  <2>2. d.works[v] = seen.works[v] /\ b.works[v] = old.works[v]
    BY <1>5, <1>11, <1>13, <2>1
  <2>3. Keeps(c.works[v], old.works[v]) /\ Keeps(old.works[v], seen.works[v])
    BY <1>1, <1>6, <1>13, <1>a, <2>1, <2>2
  <2>4. /\ c.works[v] \in Works!Rows /\ old.works[v] \in Works!Rows
        /\ seen.works[v] \in Works!Rows
    BY <1>2, <1>7, <2>1, FromSound
  <2> QED
    BY <2>2, <2>3, <2>4, KeepsOn
<1>14. ASSUME mem = c.works[w]
       PROVE  seen.works[w] = d.works[w] /\ Keeps(c.works[w], d.works[w])
  <2>1. copy = old.works[w] /\ Keeps(c.works[w], old.works[w])
    BY <1>1, <1>14, <1>a, <1>b
  <2>2. d.works[w] = seen.works[w]
    BY <1>8, <1>11, <2>1
  <2>3. Keeps(old.works[w], seen.works[w])
    BY <1>2, <1>5, <1>6, <2>1
  <2>4. c.works[w] \in Works!Rows
    BY FromSound
  <2> QED
    BY <1>7, <2>1, <2>2, <2>3, <2>4, KeepsOn
<1>15. Works!Refreshed(s, w, r) = [cat |-> d, copy |-> seen.works[w]]
  BY <1>a, <1>b, <1>c, <1>d, <1>e, <1>f DEF Works!Refreshed
<1>16. PICK next : next = [cat |-> d, copy |-> seen.works[w]]
  OBVIOUS
<1>17. /\ next \in [cat : CatType, copy : Works!Rows]
       /\ next.cat = d /\ next.copy = seen.works[w]
  BY <1>7, <1>11, <1>16
<1>18. next \in Fresh(c, w, mem)
  BY <1>8, <1>12, <1>13, <1>14, <1>17 DEF Fresh
<1> QED
  BY <1>15, <1>16, <1>18
RefreshedUpto(c, w, mem, ranked, f, i) ==
    IF i = 0 THEN [cat |-> c, copy |-> mem] ELSE Works!Refreshed(f[i - 1], w, ranked[i])

LEMMA RefreshRuns ==
    ASSUME Works!CatalogueAssumption, Sound(cat), NEW q, NEW ranked \in Seq(Remote),
           request[q].work \in 1..Len(cat.works), request[q].copy \in Works!Rows,
           Attributed(request[q].copy), Works!ApplyRefresh(q, ranked)
    PROVE  \E s \in Fresh(cat, request[q].work, request[q].copy) : cat' = s.cat
<1> DEFINE refreshed[i \in 0..Len(ranked)] ==
             IF i = 0 THEN [cat |-> cat, copy |-> request[q].copy]
             ELSE Works!Refreshed(refreshed[i - 1], request[q].work, ranked[i])
<1>1. cat' = refreshed[Len(ranked)].cat
  BY Zenon DEF Works!ApplyRefresh
<1>a. PICK c : c = cat
  OBVIOUS
<1>b. PICK w : w = request[q].work
  OBVIOUS
<1>c. PICK mem : mem = request[q].copy
  OBVIOUS
<1>d. PICK G : G = Fresh(c, w, mem)
  OBVIOUS
<1>2. /\ Sound(c) /\ c \in CatType /\ w \in 1..Len(c.works) /\ mem \in Works!Rows
      /\ Attributed(mem)
  BY <1>a, <1>b, <1>c, FromSound
<1>3. Len(ranked) \in Nat /\ \A i \in 1..Len(ranked) : ranked[i] \in Remote
  OBVIOUS
<1>e. PICK u : u = [cat |-> c, copy |-> mem]
  OBVIOUS
<1>4. u \in G
  <2>1. u \in [cat : CatType, copy : Works!Rows] /\ u.cat = c /\ u.copy = mem
    BY <1>2, <1>e
  <2>2. Extends(c, c) /\ \A v \in 1..Len(c.works) : Keeps(c.works[v], c.works[v])
    BY <1>2, FromSound, ExtendsItself, Unchanged
  <2> QED
    BY <1>2, <1>d, <2>1, <2>2 DEF Fresh
<1>5. \A i \in 1..Len(ranked) : \A s \in G : Works!Refreshed(s, w, ranked[i]) \in G
  BY <1>2, <1>3, <1>d, RefreshedStep
<1>6. PICK F : F = [i \in 1..Len(ranked) |-> [s \in G |-> Works!Refreshed(s, w, ranked[i])]]
  OBVIOUS
<1>7. F \in [1..Len(ranked) -> [G -> G]]
  BY <1>5, <1>6
<1>8. PICK f \in [0..Len(ranked) -> G] : Steps(f, Len(ranked), u, F)
  BY <1>3, <1>4, <1>7, StepsExist
<1>9. ASSUME NEW i \in 0..Len(ranked) PROVE f[i] = RefreshedUpto(c, w, mem, ranked, f, i)
  <2>1. f[i] = IF i = 0 THEN u ELSE F[i][f[i - 1]]
    BY <1>8 DEF Steps
  <2>2. ASSUME i # 0 PROVE F[i][f[i - 1]] = Works!Refreshed(f[i - 1], w, ranked[i])
    <3>1. i \in 1..Len(ranked) /\ i - 1 \in 0..Len(ranked)
      BY <1>3, <2>2
    <3>2. f[i - 1] \in G
      BY <3>1
    <3> QED
      BY <1>6, <3>1, <3>2
  <2> QED
    BY <1>e, <2>1, <2>2 DEF RefreshedUpto
<1>10. f = [i \in 0..Len(ranked) |-> RefreshedUpto(c, w, mem, ranked, f, i)]
  BY <1>9
<1>11. f = [i \in 0..Len(ranked) |->
              RefreshedUpto(cat, request[q].work, request[q].copy, ranked, f, i)]
  BY <1>10, <1>a, <1>b, <1>c
<1>12. refreshed = [i \in 0..Len(ranked) |->
              RefreshedUpto(cat, request[q].work, request[q].copy, ranked, refreshed, i)]
  BY <1>11, Zenon DEF RefreshedUpto
<1> HIDE DEF refreshed
<1>13. \A i \in 0..Len(ranked) : refreshed[i] = RefreshedUpto(c, w, mem, ranked, refreshed, i)
  <2>1. refreshed = [i \in 0..Len(ranked) |-> RefreshedUpto(c, w, mem, ranked, refreshed, i)]
    BY <1>12, <1>a, <1>b, <1>c
  <2> QED
    BY <2>1
<1>14. refreshed[0] \in G
  BY <1>3, <1>4, <1>e, <1>13 DEF RefreshedUpto
<1>15. ASSUME NEW i \in 1..Len(ranked), refreshed[i - 1] \in G PROVE refreshed[i] \in G
  <2>1. refreshed[i] = Works!Refreshed(refreshed[i - 1], w, ranked[i])
    BY <1>3, <1>13 DEF RefreshedUpto
  <2> QED
    BY <1>5, <1>15, <2>1
<1> DEFINE S == {i \in 0..Len(ranked) : refreshed[i] \in G}
<1>16. 0 \in S /\ \A i \in 1..Len(ranked) : i - 1 \in S => i \in S
  BY <1>3, <1>14, <1>15
<1> HIDE DEF S
<1>17. \A i \in 0..Len(ranked) : i \in S
  BY <1>3, <1>16, UptoInduction
<1>18. refreshed[Len(ranked)] \in G
  BY <1>3, <1>17 DEF S
<1> QED
  BY <1>1, <1>18, <1>a, <1>b, <1>c, <1>d
-----------------------------------------------------------------------------
(* The inductive invariant                                                 *)

States == {"absent", "new", "review", "error", "identified", "ignored"}
AssetRow(n) == [work : 0..n, state : States]
StateFits(x) ==
    x.state \in {"absent", "ignored"} \/ (x.state = "identified" <=> x.work # 0)
AssetsFit(rows, changed, n) ==
    /\ rows \in [Files -> AssetRow(n)]
    /\ \A a \in Files \ changed : StateFits(rows[a])
Marks == {"none", "pending", "accepted", "rejected"}
CandidatesFit(rows) == rows \in [Files -> [Works!Records -> Marks]]

Refreshes(x, n) ==
    /\ x \in [kind : {"refresh"}, work : 1..n, copy : Works!Rows, matches : SUBSET Remote]
    /\ Attributed(x.copy)
Identifies(x, n) ==
    /\ DOMAIN x = {"kind", "todo"} /\ x.kind = "identify"
    /\ DOMAIN x.todo \in (SUBSET Files) \ {{}}
    /\ \A a \in DOMAIN x.todo : x.todo[a] \in AssetRow(n)
RequestsFit(rows, n) ==
    /\ rows = [q \in Requests |-> rows[q]]
    /\ \A q \in Requests :
         rows[q] = Works!Idle \/ Refreshes(rows[q], n) \/ Identifies(rows[q], n)

CatalogueInv ==
    /\ Sound(cat) /\ AssetsFit(asset, torn, Len(cat.works)) /\ CandidatesFit(cand)
    /\ RequestsFit(request, Len(cat.works)) /\ torn \subseteq Files /\ calls \in 0..MaxCalls

(* What a step may do to the works.                                        *)
CuratedStep ==
    \A w \in 1..Len(cat.works) : Works!Overtaken(w) \/ Curates(cat.works[w], cat'.works[w])

LEMMA InvImplies ==
    ASSUME CatalogueInv
    PROVE  Works!TypeOK /\ Works!AssetStates
<1>1. /\ cat.works \in Seq(Works!Rows) /\ cat.ids \in [Keys -> Nat] /\ Len(cat.works) \in Nat
      /\ \A k \in Keys : cat.ids[k] <= Len(cat.works)
      /\ cat.ids[NoCode] = 0 /\ DOMAIN cat.works = 1..Len(cat.works)
  BY FromSound, CatHas DEF CatalogueInv
<1>2. cat.ids \in [Works!Records \cup Codes \cup {NoCode} -> 0..Len(cat.works)]
  BY <1>1 DEF Keys
<1>3. asset \in [Files -> Works!AssetRows]
  BY DEF CatalogueInv, AssetsFit, AssetRow, States, Works!AssetRows
<1>4. cand \in [Files -> [Works!Records -> {"none", "pending", "accepted", "rejected"}]]
  BY DEF CatalogueInv, CandidatesFit, Marks
<1>5. ASSUME NEW q \in Requests
      PROVE  \/ request[q] = Works!Idle
             \/ request[q] \in [kind : {"refresh"}, work : DOMAIN cat.works, copy : Works!Rows,
                                matches : SUBSET Remote]
             \/ /\ DOMAIN request[q] = {"kind", "todo"} /\ request[q].kind = "identify"
                /\ DOMAIN request[q].todo \in (SUBSET Files) \ {{}}
                /\ \A a \in DOMAIN request[q].todo : request[q].todo[a] \in Works!AssetRows
  <2>1. \/ request[q] = Works!Idle \/ Refreshes(request[q], Len(cat.works))
        \/ Identifies(request[q], Len(cat.works))
    BY DEF CatalogueInv, RequestsFit
  <2>2. CASE Refreshes(request[q], Len(cat.works))
    BY <1>1, <2>2 DEF Refreshes
  <2>3. CASE Identifies(request[q], Len(cat.works))
    BY <2>3 DEF Identifies, AssetRow, States, Works!AssetRows
  <2> QED
    BY <2>1, <2>2, <2>3
<1>6. Works!AssetStates
  BY DEF CatalogueInv, AssetsFit, StateFits, Works!AssetStates
<1>7. torn \subseteq Files /\ calls \in 0..MaxCalls
  BY DEF CatalogueInv
<1> QED
  BY <1>1, <1>2, <1>3, <1>4, <1>5, <1>6, <1>7 DEF Works!TypeOK

LEMMA RowsGrow ==
    ASSUME NEW n \in Nat, NEW m \in Nat, n <= m
    PROVE  AssetRow(n) \subseteq AssetRow(m)
BY DEF AssetRow

LEMMA AssetsGrow ==
    ASSUME NEW n \in Nat, NEW m \in Nat, n <= m, NEW rows, NEW changed, NEW more,
           changed \subseteq more, AssetsFit(rows, changed, n)
    PROVE  AssetsFit(rows, more, m)
BY RowsGrow DEF AssetsFit

LEMMA OneAsset ==
    ASSUME NEW n \in Nat, NEW rows, NEW changed, AssetsFit(rows, changed, n),
           NEW a \in Files, NEW x \in AssetRow(n), a \in changed \/ StateFits(x)
    PROVE  AssetsFit([rows EXCEPT ![a] = x], changed, n)
BY DEF AssetsFit

LEMMA RequestsGrow ==
    ASSUME NEW n \in Nat, NEW m \in Nat, n <= m, NEW rows, RequestsFit(rows, n)
    PROVE  RequestsFit(rows, m)
<1>1. AssetRow(n) \subseteq AssetRow(m)
  BY RowsGrow
<1>2. ASSUME NEW x, Identifies(x, n) PROVE Identifies(x, m)
  BY <1>1, <1>2 DEF Identifies
<1>3. ASSUME NEW x, Refreshes(x, n) PROVE Refreshes(x, m)
  <2>1. 1..n \subseteq 1..m
    OBVIOUS
  <2> QED
    BY <1>3, <2>1 DEF Refreshes
<1> QED
  BY <1>2, <1>3 DEF RequestsFit

LEMMA OneRequest ==
    ASSUME NEW n \in Nat, NEW rows, RequestsFit(rows, n), NEW q \in Requests, NEW x,
           x = Works!Idle \/ Refreshes(x, n) \/ Identifies(x, n)
    PROVE  RequestsFit([rows EXCEPT ![q] = x], n)
<1> PICK next : next = [rows EXCEPT ![q] = x]
  OBVIOUS
<1>1. rows = [p \in Requests |-> rows[p]]
  BY DEF RequestsFit
<1>2. next = [p \in Requests |-> IF p = q THEN x ELSE rows[p]]
  BY <1>1
<1>3. next = [p \in Requests |-> next[p]]
  BY <1>2
<1>4. ASSUME NEW p \in Requests
      PROVE  next[p] = Works!Idle \/ Refreshes(next[p], n) \/ Identifies(next[p], n)
  <2>1. rows[p] = Works!Idle \/ Refreshes(rows[p], n) \/ Identifies(rows[p], n)
    BY DEF RequestsFit
  <2>2. next[p] = x \/ next[p] = rows[p]
    BY <1>2
  <2> QED
    BY <2>1, <2>2
<1> QED
  BY <1>3, <1>4 DEF RequestsFit
LEMMA MarksFit ==
    ASSUME NEW rows \in [Works!Records -> Marks]
    PROVE  /\ \A found : Works!Saved(rows, found) \in [Works!Records -> Marks]
           /\ \A r : Works!Chosen(rows, r) \in [Works!Records -> Marks]
BY DEF Works!Saved, Works!Chosen, Marks

LEMMA OneCandidates ==
    ASSUME NEW rows, CandidatesFit(rows), NEW a \in Files, NEW x \in [Works!Records -> Marks]
    PROVE  CandidatesFit([rows EXCEPT ![a] = x])
BY DEF CandidatesFit

LEMMA IdentifiedFits ==
    ASSUME NEW n \in Nat, NEW w \in 1..n
    PROVE  Works!Identified(w) \in AssetRow(n) /\ StateFits(Works!Identified(w))
BY DEF AssetRow, States, StateFits, Works!Identified

(* Facts that each action starts from.                                     *)
LEMMA InvFacts ==
    ASSUME Works!CatalogueAssumption, CatalogueInv
    PROVE  /\ Sound(cat) /\ Len(cat.works) \in Nat /\ cat \in CatType
           /\ \A w \in 1..Len(cat.works) :
                cat.works[w] \in Works!Rows /\ Attributed(cat.works[w])
           /\ \A k \in Keys : cat.ids[k] \in 0..Len(cat.works)
           /\ \A a \in Files : /\ asset[a] \in AssetRow(Len(cat.works))
                               /\ asset[a].work \in 0..Len(cat.works)
                               /\ cand[a] \in [Works!Records -> Marks]
           /\ AssetsFit(asset, torn, Len(cat.works)) /\ CandidatesFit(cand)
           /\ RequestsFit(request, Len(cat.works)) /\ torn \subseteq Files
           /\ calls \in 0..MaxCalls /\ MaxCalls \in Nat
           /\ DOMAIN cat.works = 1..Len(cat.works)
<1>1. Sound(cat) /\ AssetsFit(asset, torn, Len(cat.works)) /\ CandidatesFit(cand)
  BY DEF CatalogueInv
<1>2. \A a \in Files : /\ asset[a] \in AssetRow(Len(cat.works))
                       /\ cand[a] \in [Works!Records -> Marks]
  BY <1>1 DEF AssetsFit, CandidatesFit
<1>3. \A a \in Files : asset[a].work \in 0..Len(cat.works)
  BY <1>2 DEF AssetRow
<1>4. /\ Len(cat.works) \in Nat /\ cat \in CatType
      /\ \A w \in 1..Len(cat.works) : cat.works[w] \in Works!Rows /\ Attributed(cat.works[w])
      /\ \A k \in Keys : cat.ids[k] \in Nat /\ cat.ids[k] <= Len(cat.works)
      /\ DOMAIN cat.works = 1..Len(cat.works)
  BY <1>1, FromSound, CatHas
<1>5. \A k \in Keys : cat.ids[k] \in 0..Len(cat.works)
  BY <1>4
<1> QED
  BY <1>1, <1>2, <1>3, <1>4, <1>5, CatalogueFacts DEF CatalogueInv

(* A step that leaves the requests alone, and one that asks nothing of the *)
(* works.                                                                  *)
LEMMA AtOnceFits ==
    ASSUME Works!CatalogueAssumption, CatalogueInv, Works!AtOnce, Extends(cat, cat'),
           AssetsFit(asset', torn, Len(cat'.works)), CandidatesFit(cand')
    PROVE  CatalogueInv'
<1>1. Sound(cat') /\ Len(cat.works) <= Len(cat'.works)
  BY DEF Extends
<1>2. Len(cat.works) \in Nat /\ Len(cat'.works) \in Nat
  BY <1>1, FromSound, InvFacts
<1>3. RequestsFit(request, Len(cat'.works))
  BY <1>1, <1>2, InvFacts, RequestsGrow
<1>4. request' = request /\ torn' = torn /\ calls' = calls + 1 /\ calls < MaxCalls
  BY DEF Works!AtOnce, Works!Called
<1>5. calls' \in 0..MaxCalls
  BY <1>4, InvFacts
<1> QED
  BY <1>1, <1>3, <1>4, <1>5, InvFacts DEF CatalogueInv

LEMMA SameWorks ==
    ASSUME Works!CatalogueAssumption, CatalogueInv, cat' = cat
    PROVE  CuratedStep /\ Extends(cat, cat')
BY InvFacts, Unchanged, ExtendsItself DEF CuratedStep

LEMMA ScanStep ==
    ASSUME Works!CatalogueAssumption, CatalogueInv, NEW a \in Files, Works!Scan(a)
    PROVE  CatalogueInv' /\ CuratedStep
<1>a. PICK w : w = IF asset[a].work # 0 THEN asset[a].work ELSE cat.ids[CodeOf[a]]
  OBVIOUS
<1>1. w \in 0..Len(cat.works) /\ (w = 0 => asset[a].work = 0)
  BY <1>a, InvFacts, CatalogueFacts, KeysOf
<1>2. Works!AtOnce
  BY DEF Works!Scan
<1>3. CASE a \in Confirmed
  <2>1. /\ cat' = Works!Catalogued(cat, w, a, FALSE) /\ cand' = cand
        /\ asset' = [asset EXCEPT ![a] = Works!Identified(Works!LocalWork(cat, w, a))]
    BY <1>3, <1>a DEF Works!Scan
  <2>2. /\ Extends(cat, cat') /\ Works!LocalWork(cat, w, a) \in 1..Len(cat'.works)
        /\ \A v \in 1..Len(cat.works) : Curates(cat.works[v], cat'.works[v])
    BY <1>1, <2>1, InvFacts, CataloguedCat
  <2>3. Len(cat'.works) \in Nat /\ Len(cat.works) <= Len(cat'.works)
    BY <2>2, FromSound DEF Extends
  <2>4. AssetsFit(asset, torn, Len(cat'.works))
    BY <2>3, InvFacts, AssetsGrow
  <2>5. AssetsFit(asset', torn, Len(cat'.works))
    BY <2>1, <2>2, <2>3, <2>4, IdentifiedFits, OneAsset
  <2> QED
    BY <1>2, <2>1, <2>2, <2>5, InvFacts, AtOnceFits DEF CuratedStep
<1>4. CASE a \notin Confirmed /\ w # 0
  <2>1. /\ cat' = Works!Catalogued(cat, w, a, ~Works!Verified(w))
        /\ asset' = [asset EXCEPT ![a] = Works!Identified(w)]
        /\ cand' = [cand EXCEPT ![a] = Works!Saved(cand[a], {a})]
    BY <1>4, <1>a DEF Works!Scan
  <2>2. /\ Extends(cat, cat')
        /\ \A v \in 1..Len(cat.works) : Curates(cat.works[v], cat'.works[v])
    BY <1>1, <2>1, InvFacts, CataloguedCat
  <2>3. Len(cat'.works) \in Nat /\ Len(cat.works) <= Len(cat'.works)
    BY <2>2, FromSound DEF Extends
  <2>4. AssetsFit(asset, torn, Len(cat'.works)) /\ w \in 1..Len(cat'.works)
    BY <1>1, <1>4, <2>3, InvFacts, AssetsGrow
  <2>5. AssetsFit(asset', torn, Len(cat'.works))
    BY <2>1, <2>3, <2>4, IdentifiedFits, OneAsset
  <2>6. CandidatesFit(cand')
    BY <2>1, InvFacts, MarksFit, OneCandidates
  <2> QED
    BY <1>2, <2>2, <2>5, <2>6, AtOnceFits DEF CuratedStep
<1>5. CASE a \notin Confirmed /\ w = 0
  <2>1. /\ cat' = cat /\ asset' = [asset EXCEPT ![a].state = "review"]
        /\ cand' = [cand EXCEPT ![a] = Works!Saved(cand[a], {a})]
    BY <1>5, <1>a DEF Works!Scan
  <2>a. PICK x : x = [asset[a] EXCEPT !.state = "review"]
    OBVIOUS
  <2>2. x \in AssetRow(Len(cat.works)) /\ StateFits(x)
    <3>1. asset[a] \in AssetRow(Len(cat.works)) /\ asset[a].work = 0
      BY <1>1, <1>5, InvFacts
    <3>2. x = [work |-> 0, state |-> "review"]
      BY <2>a, <3>1 DEF AssetRow
    <3> QED
      BY <3>2, InvFacts DEF AssetRow, States, StateFits
  <2>3. AssetsFit(asset', torn, Len(cat.works))
    BY <2>1, <2>2, <2>a, InvFacts, OneAsset
  <2>4. CandidatesFit(cand')
    BY <2>1, InvFacts, MarksFit, OneCandidates
  <2> QED
    BY <1>2, <2>1, <2>3, <2>4, SameWorks, AtOnceFits
<1> QED
  BY <1>3, <1>4, <1>5
LEMMA IgnoreStep ==
    ASSUME Works!CatalogueAssumption, CatalogueInv, NEW a \in Files, NEW byUser,
           Works!Ignore(a, byUser)
    PROVE  CatalogueInv' /\ CuratedStep
<1>1. /\ asset' = [asset EXCEPT ![a].state = "ignored"] /\ cat' = cat /\ cand' = cand
      /\ Works!AtOnce
  BY DEF Works!Ignore
<1>a. PICK x : x = [asset[a] EXCEPT !.state = "ignored"]
  OBVIOUS
<1>2. x \in AssetRow(Len(cat.works)) /\ StateFits(x)
  <2>1. asset[a] \in AssetRow(Len(cat.works))
    BY InvFacts
  <2>2. x = [work |-> asset[a].work, state |-> "ignored"] /\ asset[a].work \in 0..Len(cat.works)
    BY <1>a, <2>1 DEF AssetRow
  <2> QED
    BY <2>2 DEF AssetRow, States, StateFits
<1>3. AssetsFit(asset', torn, Len(cat.works))
  BY <1>1, <1>2, <1>a, InvFacts, OneAsset
<1> QED
  BY <1>1, <1>3, InvFacts, SameWorks, AtOnceFits

LEMMA AcceptStep ==
    ASSUME Works!CatalogueAssumption, CatalogueInv, NEW a \in Files, NEW r \in Works!Records,
           Works!Accept(a, r)
    PROVE  CatalogueInv' /\ CuratedStep
<1>1. /\ cat' = Works!Upserted(cat, r, TRUE) /\ Works!AtOnce
      /\ asset' = [asset EXCEPT ![a] = Works!Identified(cat'.ids[r])]
      /\ cand' = [cand EXCEPT ![a] = Works!Chosen(cand[a], r)]
  BY DEF Works!Accept
<1>2. /\ Extends(cat, cat') /\ cat'.ids[r] # 0
      /\ \A w \in 1..Len(cat.works) : Curates(cat.works[w], cat'.works[w])
  BY <1>1, InvFacts, UpsertedCat
<1>3. Len(cat'.works) \in Nat /\ Len(cat.works) <= Len(cat'.works) /\ Sound(cat')
  BY <1>2, FromSound DEF Extends
<1>4. cat'.ids[r] \in 1..Len(cat'.works)
  <2>1. r \in Keys
    BY KeysOf
  <2>2. cat'.ids[r] \in Nat /\ cat'.ids[r] <= Len(cat'.works)
    BY <1>3, <2>1, FromSound
  <2> QED
    BY <1>2, <1>3, <2>2
<1>5. AssetsFit(asset, torn, Len(cat'.works))
  BY <1>3, InvFacts, AssetsGrow
<1>6. AssetsFit(asset', torn, Len(cat'.works))
  BY <1>1, <1>3, <1>4, <1>5, IdentifiedFits, OneAsset
<1>7. CandidatesFit(cand')
  BY <1>1, InvFacts, MarksFit, OneCandidates
<1> QED
  BY <1>1, <1>2, <1>6, <1>7, AtOnceFits DEF CuratedStep

LEMMA ApplyActorStep ==
    ASSUME Works!CatalogueAssumption, CatalogueInv, NEW a \in Files, Works!ApplyActor(a)
    PROVE  CatalogueInv' /\ CuratedStep
<1>a. PICK w : w = asset[a].work
  OBVIOUS
<1>1. /\ cat' = Works!Catalogued(cat, w, a, TRUE) /\ cand' = cand /\ Works!AtOnce
      /\ asset' = [asset EXCEPT ![a] = Works!Identified(Works!LocalWork(cat, w, a))]
  BY <1>a DEF Works!ApplyActor
<1>2. w \in 0..Len(cat.works)
  BY <1>a, InvFacts
<1>3. /\ Extends(cat, cat') /\ Works!LocalWork(cat, w, a) \in 1..Len(cat'.works)
      /\ \A v \in 1..Len(cat.works) : Curates(cat.works[v], cat'.works[v])
  BY <1>1, <1>2, InvFacts, CataloguedCat
<1>4. Len(cat'.works) \in Nat /\ Len(cat.works) <= Len(cat'.works)
  BY <1>3, FromSound DEF Extends
<1>5. AssetsFit(asset, torn, Len(cat'.works))
  BY <1>4, InvFacts, AssetsGrow
<1>6. AssetsFit(asset', torn, Len(cat'.works))
  BY <1>1, <1>3, <1>4, <1>5, IdentifiedFits, OneAsset
<1> QED
  BY <1>1, <1>3, <1>6, InvFacts, AtOnceFits DEF CuratedStep

LEMMA UpsertStep ==
    ASSUME Works!CatalogueAssumption, CatalogueInv, NEW r \in Remote, NEW overwrite,
           Works!Upsert(r, overwrite)
    PROVE  CatalogueInv' /\ CuratedStep
<1>1. /\ cat' = Works!Upserted(cat, r, overwrite) /\ Works!AtOnce
      /\ asset' = asset /\ cand' = cand
  BY DEF Works!Upsert
<1>2. r \in Works!Records
  BY CatalogueFacts
<1>3. /\ Extends(cat, cat')
      /\ \A w \in 1..Len(cat.works) : Curates(cat.works[w], cat'.works[w])
  BY <1>1, <1>2, InvFacts, UpsertedCat
<1>4. Len(cat'.works) \in Nat /\ Len(cat.works) <= Len(cat'.works)
  BY <1>3, FromSound DEF Extends
<1>5. AssetsFit(asset, torn, Len(cat'.works))
  BY <1>4, InvFacts, AssetsGrow
<1> QED
  BY <1>1, <1>3, <1>5, InvFacts, AtOnceFits DEF CuratedStep

(* A change of one row by the user.                                        *)
LEMMA RowStep ==
    ASSUME Works!CatalogueAssumption, CatalogueInv, NEW w \in 1..Len(cat.works),
           NEW row \in Works!Rows, Attributed(row), Curates(cat.works[w], row),
           cat' = [cat EXCEPT !.works[w] = row], asset' = asset, cand' = cand, Works!AtOnce
    PROVE  CatalogueInv' /\ CuratedStep
<1>1. Replaced(cat, cat', w, row)
  BY InvFacts, RowReplaced
<1>2. Extends(cat, cat') /\ Len(cat'.works) = Len(cat.works)
  BY <1>1, InvFacts, SoundReplaced DEF Replaced
<1>3. ASSUME NEW v \in 1..Len(cat.works) PROVE Curates(cat.works[v], cat'.works[v])
  <2>1. CASE v = w
    BY <1>1, <2>1 DEF Replaced
  <2>2. CASE v # w
    <3>1. cat'.works[v] = cat.works[v]
      BY <1>1, <2>2 DEF Replaced
    <3> QED
      BY <3>1, InvFacts, Unchanged
  <2> QED
    BY <2>1, <2>2
<1>4. AssetsFit(asset', torn, Len(cat'.works)) /\ CandidatesFit(cand')
  BY <1>2, InvFacts
<1> QED
  BY <1>2, <1>3, <1>4, AtOnceFits DEF CuratedStep

LEMMA EditWorkStep ==
    ASSUME Works!CatalogueAssumption, CatalogueInv, NEW w \in 1..Len(cat.works),
           NEW field \in Works!Lockable, NEW lock, Works!EditWork(w, field, lock)
    PROVE  CatalogueInv' /\ CuratedStep
<1>a. PICK row : row = Works!Edited(cat.works[w], field, lock)
  OBVIOUS
<1>1. /\ cat' = [cat EXCEPT !.works[w] = row] /\ asset' = asset /\ cand' = cand
      /\ Works!AtOnce
  BY <1>a DEF Works!EditWork
<1>2. row \in Works!Rows /\ Attributed(row) /\ Curates(cat.works[w], row)
  BY <1>a, InvFacts, EditedRow
<1> QED
  BY <1>1, <1>2, RowStep

LEMMA SetLocksStep ==
    ASSUME Works!CatalogueAssumption, CatalogueInv, NEW w \in 1..Len(cat.works),
           NEW locks \in SUBSET Works!Lockable, Works!SetLocks(w, locks)
    PROVE  CatalogueInv' /\ CuratedStep
<1>a. PICK row : row = [cat.works[w] EXCEPT !.locks = locks]
  OBVIOUS
<1>1. /\ cat' = [cat EXCEPT !.works[w] = row] /\ asset' = asset /\ cand' = cand
      /\ Works!AtOnce
  BY <1>a DEF Works!SetLocks
<1>2. row \in Works!Rows /\ Attributed(row) /\ Curates(cat.works[w], row)
  <2>a. PICK old : old = cat.works[w]
    OBVIOUS
  <2>1. old \in Works!Rows /\ Attributed(old)
    BY <2>a, InvFacts
  <2>2. row = [old EXCEPT !.locks = locks]
    BY <1>a, <2>a
  <2> QED
    BY <2>1, <2>2, <2>a, RelockedRow
<1> QED
  BY <1>1, <1>2, RowStep
(* A step that only changes the files or one request.                      *)
LEMMA RequestFits ==
    ASSUME Works!CatalogueAssumption, CatalogueInv, cat' = cat, cand' = cand, torn' = torn,
           calls' = calls + 1, calls < MaxCalls, AssetsFit(asset', torn, Len(cat.works)),
           RequestsFit(request', Len(cat.works))
    PROVE  CatalogueInv' /\ CuratedStep
<1>1. calls' \in 0..MaxCalls
  BY InvFacts
<1> QED
  BY <1>1, InvFacts, SameWorks DEF CatalogueInv

LEMMA BeginIdentifyStep ==
    ASSUME Works!CatalogueAssumption, CatalogueInv, NEW q \in Requests,
           NEW targets \in SUBSET Files, Works!BeginIdentify(q, targets)
    PROVE  CatalogueInv' /\ CuratedStep
<1>a. PICK known : known = {a \in targets : cat.ids[CodeOf[a]] # 0}
  OBVIOUS
<1>b. PICK x : x = IF targets = known THEN Works!Idle
                   ELSE [kind |-> "identify", todo |-> [a \in targets \ known |-> asset[a]]]
  OBVIOUS
<1>1. /\ asset' = [a \in Files |-> IF a \in known THEN Works!Identified(cat.ids[CodeOf[a]])
                                   ELSE asset[a]]
      /\ request' = [request EXCEPT ![q] = x]
      /\ cat' = cat /\ cand' = cand /\ torn' = torn /\ calls' = calls + 1 /\ calls < MaxCalls
  BY <1>a, <1>b DEF Works!BeginIdentify, Works!Called
<1>2. \A a \in known : Works!Identified(cat.ids[CodeOf[a]]) \in AssetRow(Len(cat.works))
                       /\ StateFits(Works!Identified(cat.ids[CodeOf[a]]))
  <2>1. SUFFICES ASSUME NEW a \in known
                 PROVE  cat.ids[CodeOf[a]] \in 1..Len(cat.works)
    BY InvFacts, IdentifiedFits
  <2>2. CodeOf[a] \in Keys /\ cat.ids[CodeOf[a]] # 0
    BY <1>a, CatalogueFacts, KeysOf
  <2> QED
    BY <2>2, InvFacts
<1>3. AssetsFit(asset', torn, Len(cat.works))
  <2>1. \A a \in Files : asset[a] \in AssetRow(Len(cat.works))
    BY InvFacts
  <2>2. \A a \in Files \ torn : StateFits(asset[a])
    BY InvFacts DEF AssetsFit
  <2> QED
    BY <1>1, <1>2, <2>1, <2>2 DEF AssetsFit
<1>4. x = Works!Idle \/ Identifies(x, Len(cat.works))
  <2>1. CASE targets = known
    BY <1>b, <2>1
  <2>2. CASE targets # known
    <3>1. /\ DOMAIN x = {"kind", "todo"} /\ x.kind = "identify"
          /\ x.todo = [a \in targets \ known |-> asset[a]]
      BY <1>b, <2>2
    <3>2. targets \ known # {} /\ targets \ known \subseteq Files
      BY <1>a, <2>2
    <3>3. \A a \in targets \ known : asset[a] \in AssetRow(Len(cat.works))
      BY <3>2, InvFacts
    <3> QED
      BY <3>1, <3>2, <3>3 DEF Identifies
  <2> QED
    BY <2>1, <2>2
<1>5. RequestsFit(request', Len(cat.works))
  BY <1>1, <1>4, InvFacts, OneRequest
<1> QED
  BY <1>1, <1>3, <1>5, RequestFits

LEMMA BeginRefreshStep ==
    ASSUME Works!CatalogueAssumption, CatalogueInv, NEW q \in Requests,
           NEW w \in 1..Len(cat.works), Works!BeginRefresh(q, w)
    PROVE  CatalogueInv' /\ CuratedStep
<1>1. PICK matches \in Works!Hints(w) :
        request' = [request EXCEPT ![q] =
             [kind |-> "refresh", work |-> w, copy |-> cat.works[w], matches |-> matches]]
  BY DEF Works!BeginRefresh
<1>2. /\ cat' = cat /\ cand' = cand /\ torn' = torn /\ asset' = asset /\ calls' = calls + 1
      /\ calls < MaxCalls
  BY DEF Works!BeginRefresh, Works!Called
<1>3. matches \in SUBSET Remote
  <2>1. CASE {a \in Files : asset[a].work = w} # {}
    BY <1>1, <2>1 DEF Works!Hints
  <2>2. CASE {a \in Files : asset[a].work = w} = {} /\ cat.works[w].code # NoCode
    BY <1>1, <2>2 DEF Works!Hints
  <2>3. CASE {a \in Files : asset[a].work = w} = {} /\ cat.works[w].code = NoCode
    BY <1>1, <2>3 DEF Works!Hints
  <2> QED
    BY <2>1, <2>2, <2>3
<1>a. PICK x : x = [kind |-> "refresh", work |-> w, copy |-> cat.works[w], matches |-> matches]
  OBVIOUS
<1>4. Refreshes(x, Len(cat.works))
  <2>1. cat.works[w] \in Works!Rows /\ Attributed(cat.works[w])
    BY InvFacts
  <2> QED
    BY <1>3, <1>a, <2>1 DEF Refreshes
<1>5. RequestsFit(request', Len(cat.works))
  BY <1>1, <1>4, <1>a, InvFacts, OneRequest
<1> QED
  BY <1>2, <1>5, InvFacts, RequestFits

LEMMA ApplyRefreshStep ==
    ASSUME Works!CatalogueAssumption, CatalogueInv, NEW q \in Requests,
           request[q].kind = "refresh", NEW ranked \in Works!Orders(request[q].matches),
           Works!ApplyRefresh(q, ranked)
    PROVE  CatalogueInv' /\ CuratedStep
<1>1. Refreshes(request[q], Len(cat.works))
  <2>1. request[q] # Works!Idle
    BY DEF Works!Idle
  <2>2. ~Identifies(request[q], Len(cat.works))
    BY DEF Identifies
  <2> QED
    BY <2>1, <2>2, InvFacts DEF RequestsFit
<1>2. /\ request[q].work \in 1..Len(cat.works) /\ request[q].copy \in Works!Rows
      /\ Attributed(request[q].copy) /\ request[q].matches \subseteq Remote
  BY <1>1 DEF Refreshes
<1>3. ranked \in Seq(Remote)
  BY <1>2, OrdersSeq
<1>a. PICK w : w = request[q].work
  OBVIOUS
<1>b. PICK mem : mem = request[q].copy
  OBVIOUS
<1>4. PICK s \in Fresh(cat, w, mem) : cat' = s.cat
  BY <1>2, <1>3, <1>a, <1>b, InvFacts, RefreshRuns
<1>5. /\ Extends(cat, cat')
      /\ \A v \in 1..Len(cat.works) : v # w => Keeps(cat.works[v], cat'.works[v])
      /\ mem = cat.works[w] => Keeps(cat.works[w], cat'.works[w])
  BY <1>4 DEF Fresh
<1>6. CuratedStep
  <2>1. SUFFICES ASSUME NEW v \in 1..Len(cat.works), ~Works!Overtaken(v)
                 PROVE  Curates(cat.works[v], cat'.works[v])
    BY DEF CuratedStep
  <2>2. v = w => mem = cat.works[w]
    BY <2>1, <1>a, <1>b DEF Works!Overtaken
  <2>3. Keeps(cat.works[v], cat'.works[v])
    BY <1>5, <2>2
  <2> QED
    BY <2>3, InvFacts, ContinuesCurates DEF Keeps
<1>7. Len(cat'.works) \in Nat /\ Len(cat.works) <= Len(cat'.works) /\ Sound(cat')
  BY <1>5, FromSound DEF Extends
<1>8. /\ request' = [request EXCEPT ![q] = Works!Idle] /\ asset' = asset /\ cand' = cand
      /\ torn' = torn /\ calls' = calls
  BY DEF Works!ApplyRefresh
<1>9. RequestsFit(request', Len(cat'.works))
  <2>1. RequestsFit(request', Len(cat.works))
    BY <1>8, InvFacts, OneRequest
  <2> QED
    BY <1>7, <2>1, InvFacts, RequestsGrow
<1>10. AssetsFit(asset', torn, Len(cat'.works))
  BY <1>7, <1>8, InvFacts, AssetsGrow
<1> QED
  BY <1>6, <1>7, <1>8, <1>9, <1>10, InvFacts DEF CatalogueInv

LEMMA RestartStep ==
    ASSUME Works!CatalogueAssumption, CatalogueInv, Works!Restart
    PROVE  CatalogueInv' /\ CuratedStep
<1>a. PICK works : works = [w \in DOMAIN cat.works |-> Works!Repaired(cat.works[w])]
  OBVIOUS
<1>1. /\ cat' = [cat EXCEPT !.works = works] /\ request' = [q \in Requests |-> Works!Idle]
      /\ asset' = asset /\ cand' = cand /\ torn' = torn /\ calls' = calls + 1
      /\ calls < MaxCalls
  BY <1>a DEF Works!Restart, Works!Called
<1>2. /\ cat.works \in Seq(Works!Rows) /\ cat.ids \in [Keys -> Nat]
      /\ cat = [works |-> cat.works, ids |-> cat.ids] /\ Len(cat.works) \in Nat
      /\ DOMAIN cat.works = 1..Len(cat.works)
  BY InvFacts, CatHas
<1>3. ASSUME NEW w \in 1..Len(cat.works)
      PROVE  /\ works[w] \in Works!Rows /\ Attributed(works[w])
             /\ Curates(cat.works[w], works[w])
  <2>1. works[w] = Works!Repaired(cat.works[w])
    BY <1>a, <1>2
  <2> QED
    BY <2>1, InvFacts, RepairedRow
<1>4. works \in Seq(Works!Rows) /\ Len(works) = Len(cat.works)
  <2>1. works \in [1..Len(cat.works) -> Works!Rows]
    BY <1>a, <1>2, <1>3
  <2> QED
    BY <1>2, <2>1
<1>5. cat' = [works |-> works, ids |-> cat.ids]
  BY <1>1, <1>2
<1>6. cat' \in CatType /\ cat'.works = works /\ cat'.ids = cat.ids
  BY <1>2, <1>4, <1>5, CatMade
<1>7. Sound(cat')
  BY <1>3, <1>4, <1>6, InvFacts, FromSound DEF Sound
<1>8. CuratedStep
  BY <1>3, <1>6 DEF CuratedStep
<1>9. RequestsFit(request', Len(cat'.works))
  BY <1>1 DEF RequestsFit
<1>10. calls' \in 0..MaxCalls
  BY <1>1, InvFacts
<1>11. AssetsFit(asset', torn', Len(cat'.works)) /\ CandidatesFit(cand') /\ torn' \subseteq Files
  BY <1>1, <1>4, <1>6, InvFacts
<1> QED
  BY <1>7, <1>8, <1>9, <1>10, <1>11 DEF CatalogueInv
(* What a batch writes into the row of its file.                           *)
LEMMA WrittenAsset ==
    ASSUME NEW n \in Nat, NEW old \in AssetRow(n), NEW copy \in AssetRow(n),
           NEW new \in AssetRow(n),
           NEW x, x = [k \in DOMAIN old |-> IF new[k] = copy[k] THEN old[k] ELSE new[k]]
    PROVE  x \in AssetRow(n) /\ (copy = old => x = new)
<1>1. /\ DOMAIN old = {"work", "state"} /\ old.work \in 0..n /\ old.state \in States
      /\ DOMAIN new = {"work", "state"} /\ new.work \in 0..n /\ new.state \in States
      /\ old = [work |-> old.work, state |-> old.state]
      /\ new = [work |-> new.work, state |-> new.state]
  BY DEF AssetRow
<1>2. x["work"] \in 0..n /\ x["state"] \in States /\ DOMAIN x = {"work", "state"}
  BY <1>1
<1>3. x = [work |-> x.work, state |-> x.state]
  BY <1>2
<1>4. x \in AssetRow(n)
  BY <1>2, <1>3 DEF AssetRow
<1>5. ASSUME copy = old PROVE x = new
  <2>1. x["work"] = new.work /\ x["state"] = new.state
    BY <1>1, <1>5
  <2> QED
    BY <1>1, <1>3, <2>1
<1> QED
  BY <1>4, <1>5

LEMMA BatchAsset ==
    ASSUME NEW n \in Nat, NEW rows, NEW changed, AssetsFit(rows, changed, n), NEW a \in Files,
           NEW copy \in AssetRow(n), NEW new \in AssetRow(n), StateFits(new),
           NEW more, more = IF copy = rows[a] THEN changed ELSE changed \cup {a},
           NEW x, x = [k \in DOMAIN rows[a] |-> IF new[k] = copy[k] THEN rows[a][k] ELSE new[k]]
    PROVE  AssetsFit([rows EXCEPT ![a] = x], more, n)
<1>1. rows[a] \in AssetRow(n)
  BY DEF AssetsFit
<1>2. x \in AssetRow(n) /\ (copy = rows[a] => x = new)
  BY <1>1, WrittenAsset
<1>3. AssetsFit(rows, more, n)
  BY DEF AssetsFit
<1>4. a \in more \/ StateFits(x)
  BY <1>2
<1> QED
  BY <1>2, <1>3, <1>4, OneAsset

LEMMA ReviewedFits ==
    ASSUME NEW n \in Nat, NEW copy \in AssetRow(n), NEW ranked
    PROVE  Works!Reviewed(copy, ranked) \in AssetRow(n) /\ StateFits(Works!Reviewed(copy, ranked))
<1>1. copy.work \in 0..n
  BY DEF AssetRow
<1>2. CASE copy.work # 0
  <2>1. copy.work \in 1..n
    BY <1>1, <1>2
  <2> QED
    BY <1>2, <2>1, IdentifiedFits DEF Works!Reviewed
<1>3. CASE copy.work = 0
  BY <1>3 DEF Works!Reviewed, AssetRow, States, StateFits
<1> QED
  BY <1>2, <1>3

LEMMA ApplyBatchStep ==
    ASSUME Works!CatalogueAssumption, CatalogueInv, NEW q \in Requests,
           request[q].kind = "identify", NEW a \in DOMAIN request[q].todo,
           NEW ranked \in Works!Ranking(a), Works!ApplyBatch(q, a, ranked)
    PROVE  CatalogueInv' /\ CuratedStep
<1>1. Identifies(request[q], Len(cat.works))
  <2>1. request[q] # Works!Idle
    BY DEF Works!Idle
  <2>2. ~Refreshes(request[q], Len(cat.works))
    BY DEF Refreshes
  <2> QED
    BY <2>1, <2>2, InvFacts DEF RequestsFit
<1>a. PICK copy : copy = request[q].todo[a]
  OBVIOUS
<1>2. /\ a \in Files /\ copy \in AssetRow(Len(cat.works)) /\ a \in Works!Records
      /\ DOMAIN request[q].todo \subseteq Files
      /\ \A b \in DOMAIN request[q].todo : request[q].todo[b] \in AssetRow(Len(cat.works))
  BY <1>1, <1>a, CatalogueFacts DEF Identifies
<1>3. ranked \in Seq(Remote)
  <2>1. ranked \in Works!Orders(Remote)
    BY DEF Works!Ranking
  <2> QED
    BY <2>1, OrdersSeq
<1>b. PICK match : match = (ranked # <<>> /\ <<a, ranked[1]>> \in Matching)
  OBVIOUS
<1>c. PICK local : local = (~match /\ CodeOf[a] = NoCode /\ copy.work = 0 /\ cand[a][a] # "none")
  OBVIOUS
<1>d. PICK new : new = IF match \/ local
                       THEN Works!Identified(cat'.ids[IF match THEN ranked[1] ELSE a])
                       ELSE Works!Reviewed(copy, ranked)
  OBVIOUS
<1>e. PICK left : left = [b \in DOMAIN request[q].todo \ {a} |-> request[q].todo[b]]
  OBVIOUS
<1>f. PICK x : x = [k \in DOMAIN asset[a] |-> IF new[k] = copy[k] THEN asset[a][k] ELSE new[k]]
  OBVIOUS
<1>g. PICK next : next = IF left = Works!NoAssets THEN Works!Idle
                         ELSE [kind |-> "identify", todo |-> left]
  OBVIOUS
<1>h. PICK rows : rows = Works!Saved(cand[a], Works!ToSet(ranked))
  OBVIOUS
<1>i. PICK y : y = IF match THEN Works!BatchChosen(rows, a, ranked)
                   ELSE IF local THEN Works!Chosen(rows, a) ELSE rows
  OBVIOUS
<1>4. /\ cat' = IF match THEN Works!BatchMerged(cat, a, ranked)
                ELSE IF local THEN Works!Upserted(cat, a, TRUE) ELSE cat
      /\ asset' = [asset EXCEPT ![a] = x]
      /\ torn' = IF copy = asset[a] THEN torn ELSE torn \cup {a}
      /\ request' = [request EXCEPT ![q] = next]
      /\ calls' = calls
  BY <1>a, <1>b, <1>c, <1>d, <1>e, <1>f, <1>g DEF Works!ApplyBatch
<1>5. cand' = [cand EXCEPT ![a] = y]
  BY <1>a, <1>b, <1>c, <1>h, <1>i DEF Works!ApplyBatch
<1>6. y \in [Works!Records -> Marks]
  <2>1. rows \in [Works!Records -> Marks]
    BY <1>2, <1>h, InvFacts, MarksFit
  <2>2. \A r : Works!Chosen(rows, r) \in [Works!Records -> Marks]
    BY <2>1, MarksFit
  <2>3. Works!BatchChosen(rows, a, ranked) \in [Works!Records -> Marks]
    <3>1. Works!Chosen(rows, ranked[1]) \in [Works!Records -> Marks] /\ "accepted" \in Marks
      BY <2>2 DEF Marks
    <3> QED
      BY <3>1 DEF Works!BatchChosen
  <2> QED
    BY <1>i, <2>1, <2>2, <2>3
<1>7. /\ Extends(cat, cat')
      /\ \A w \in 1..Len(cat.works) : Curates(cat.works[w], cat'.works[w])
      /\ match => cat'.ids[ranked[1]] # 0
      /\ local => cat'.ids[a] # 0
  <2>1. CASE match
    <3>1. cat' = Works!BatchMerged(cat, a, ranked) /\ ranked # <<>> /\ ~local
      BY <1>4, <1>b, <1>c, <2>1
    <3> QED
      BY <1>3, <3>1, <2>1, InvFacts, BatchMergedCat
  <2>2. CASE ~match /\ local
    <3>1. cat' = Works!Upserted(cat, a, TRUE)
      BY <1>4, <2>2
    <3> QED
      BY <1>2, <3>1, <2>2, InvFacts, UpsertedCat
  <2>3. CASE ~match /\ ~local
    <3>1. cat' = cat
      BY <1>4, <2>3
    <3> QED
      BY <3>1, <2>3, InvFacts, Unchanged, ExtendsItself
  <2> QED
    BY <2>1, <2>2, <2>3
<1>8. Len(cat'.works) \in Nat /\ Len(cat.works) <= Len(cat'.works) /\ Sound(cat')
  BY <1>7, FromSound DEF Extends
<1>9. copy \in AssetRow(Len(cat'.works)) /\ AssetsFit(asset, torn, Len(cat'.works))
  BY <1>2, <1>8, InvFacts, RowsGrow, AssetsGrow
<1>10. new \in AssetRow(Len(cat'.works)) /\ StateFits(new)
  <2>1. CASE match \/ local
    <3>a. PICK r : r = IF match THEN ranked[1] ELSE a
      OBVIOUS
    <3>1. r \in Works!Records /\ cat'.ids[r] # 0
      <4>1. match => ranked[1] \in Remote
        <5>1. ranked # <<>> => ranked[1] \in Remote
          BY <1>3
        <5>2. match => ranked # <<>>
          BY <1>b, Zenon
        <5> QED
          BY <5>1, <5>2, Zenon
      <4> QED
        BY <1>2, <1>7, <2>1, <3>a, <4>1, CatalogueFacts
    <3>2. r \in Keys
      BY <3>1, KeysOf
    <3>3. cat'.ids[r] \in Nat /\ cat'.ids[r] <= Len(cat'.works)
      BY <1>8, <3>2, FromSound
    <3>4. cat'.ids[r] \in 1..Len(cat'.works)
      BY <1>8, <3>1, <3>3
    <3>5. new = Works!Identified(cat'.ids[r])
      BY <1>d, <2>1, <3>a
    <3> QED
      BY <1>8, <3>4, <3>5, IdentifiedFits
  <2>2. CASE ~(match \/ local)
    <3>1. new = Works!Reviewed(copy, ranked)
      BY <1>d, <2>2
    <3> QED
      BY <1>8, <1>9, <3>1, ReviewedFits
  <2> QED
    BY <2>1, <2>2
<1>11. AssetsFit(asset', torn', Len(cat'.works))
  <2>1. PICK more : more = IF copy = asset[a] THEN torn ELSE torn \cup {a}
    OBVIOUS
  <2>2. AssetsFit([asset EXCEPT ![a] = x], more, Len(cat'.works))
    BY <1>2, <1>8, <1>9, <1>10, <1>f, <2>1, BatchAsset
  <2> QED
    BY <1>4, <2>1, <2>2
<1>12. torn' \subseteq Files
  BY <1>2, <1>4, InvFacts
<1>13. CandidatesFit(cand')
  BY <1>2, <1>5, <1>6, InvFacts, OneCandidates
<1>14. next = Works!Idle \/ Identifies(next, Len(cat.works))
  <2>1. CASE left = Works!NoAssets
    BY <1>g, <2>1
  <2>2. CASE left # Works!NoAssets
    <3>1. DOMAIN next = {"kind", "todo"} /\ next.kind = "identify" /\ next.todo = left
      BY <1>g, <2>2
    <3>2. /\ DOMAIN left = DOMAIN request[q].todo \ {a}
          /\ \A b \in DOMAIN left : left[b] = request[q].todo[b]
      BY <1>e
    <3>3. DOMAIN left # {}
      <4> SUFFICES ASSUME DOMAIN left = {} PROVE FALSE
        OBVIOUS
      <4>1. left = [b \in {} |-> b]
        BY <1>e
      <4> QED
        BY <2>2, <4>1 DEF Works!NoAssets
    <3> QED
      BY <1>2, <3>1, <3>2, <3>3 DEF Identifies
  <2> QED
    BY <2>1, <2>2
<1>15. RequestsFit(request', Len(cat'.works))
  <2>1. RequestsFit(request', Len(cat.works))
    BY <1>4, <1>14, InvFacts, OneRequest
  <2> QED
    BY <1>8, <2>1, InvFacts, RequestsGrow
<1> QED
  BY <1>4, <1>7, <1>8, <1>11, <1>12, <1>13, <1>15, InvFacts DEF CatalogueInv, CuratedStep
-----------------------------------------------------------------------------
LEMMA InitFits ==
    ASSUME Works!CatalogueAssumption, Works!Init
    PROVE  CatalogueInv
<1>1. /\ cat = [works |-> <<>>, ids |-> [k \in Keys |-> 0]]
      /\ asset = [a \in Files |-> [work |-> 0, state |-> "absent"]]
      /\ cand = [a \in Files |-> [r \in Works!Records |-> "none"]]
      /\ request = [q \in Requests |-> Works!Idle]
      /\ torn = {} /\ calls = 0
  BY DEF Works!Init, Keys
<1>2. /\ cat.works = <<>> /\ cat.ids = [k \in Keys |-> 0] /\ Len(cat.works) = 0
      /\ cat \in CatType
  BY <1>1 DEF CatType
<1>3. Sound(cat)
  <2>1. NoCode \in Keys
    BY KeysOf
  <2> QED
    BY <1>2, <2>1 DEF Sound
<1>4. AssetsFit(asset, torn, Len(cat.works))
  BY <1>1, <1>2 DEF AssetsFit, AssetRow, States, StateFits
<1>5. CandidatesFit(cand) /\ RequestsFit(request, Len(cat.works))
  BY <1>1 DEF CandidatesFit, Marks, RequestsFit
<1> QED
  BY <1>1, <1>3, <1>4, <1>5, CatalogueFacts DEF CatalogueInv

LEMMA NextFits ==
    ASSUME Works!CatalogueAssumption, CatalogueInv, Works!Next
    PROVE  CatalogueInv' /\ CuratedStep
<1>1. CASE \E a \in Files :
             \/ Works!Scan(a) \/ Works!ApplyActor(a)
             \/ \E byUser \in BOOLEAN : Works!Ignore(a, byUser)
             \/ \E r \in Works!Records : Works!Accept(a, r)
  BY <1>1, ScanStep, ApplyActorStep, IgnoreStep, AcceptStep
<1>2. CASE \E r \in Remote, overwrite \in BOOLEAN : Works!Upsert(r, overwrite)
  BY <1>2, UpsertStep
<1>3. CASE \E w \in DOMAIN cat.works :
             \/ \E field \in Works!Lockable, lock \in BOOLEAN : Works!EditWork(w, field, lock)
             \/ \E locks \in SUBSET Works!Lockable : Works!SetLocks(w, locks)
             \/ \E q \in Requests : Works!BeginRefresh(q, w)
  <2>1. DOMAIN cat.works = 1..Len(cat.works)
    BY InvFacts
  <2> QED
    BY <1>3, <2>1, EditWorkStep, SetLocksStep, BeginRefreshStep
<1>4. CASE \E q \in Requests : Works!Proceed(q)
  <2>1. PICK q \in Requests : Works!Proceed(q)
    BY <1>4
  <2>2. CASE /\ request[q].kind = "identify"
             /\ \E a \in DOMAIN request[q].todo :
                  \E ranked \in Works!Ranking(a) : Works!ApplyBatch(q, a, ranked)
    BY <2>2, ApplyBatchStep
  <2>3. CASE /\ request[q].kind = "refresh"
             /\ \E ranked \in Works!Orders(request[q].matches) : Works!ApplyRefresh(q, ranked)
    BY <2>3, ApplyRefreshStep
  <2> QED
    BY <2>1, <2>2, <2>3 DEF Works!Proceed
<1>5. CASE \E q \in Requests : \E targets \in SUBSET Files : Works!BeginIdentify(q, targets)
  BY <1>5, BeginIdentifyStep
<1>6. CASE Works!Restart
  BY <1>6, RestartStep
<1> QED
  BY <1>1, <1>2, <1>3, <1>4, <1>5, <1>6 DEF Works!Next

LEMMA SameFits ==
    ASSUME Works!CatalogueAssumption, CatalogueInv, UNCHANGED Works!catalogueVars
    PROVE  CatalogueInv' /\ CuratedStep
<1>1. /\ cat' = cat /\ asset' = asset /\ cand' = cand /\ request' = request
      /\ torn' = torn /\ calls' = calls
  BY DEF Works!catalogueVars
<1> QED
  BY <1>1, SameWorks DEF CatalogueInv

LEMMA CuratedFrom ==
    ASSUME CatalogueInv, CuratedStep
    PROVE  \A w \in DOMAIN cat.works : Works!Overtaken(w) \/
             LET row == cat.works[w]
                 next == cat'.works[w]
             IN /\ \A field \in row.locks : next[field] \in {row[field], Works!User}
                /\ row.cast # Works!NoOne => next.cast # Works!NoOne
                /\ Works!AllRanked /\ Works!Sourced(row) /\ Works!Ranked(next.cast) =>
                     Rank[next.cast] <= Rank[row.cast]
<1>1. DOMAIN cat.works = 1..Len(cat.works)
  BY FromSound, CatHas DEF CatalogueInv
<1> QED
  BY <1>1 DEF CuratedStep, Curates

(* The catalogue's rows, identities and copies are what their types say.   *)
THEOREM CatalogueTypeCorrect ==
    ASSUME Works!CatalogueAssumption
    PROVE  Works!Spec => []Works!TypeOK
<1>1. Works!Init => CatalogueInv
  BY InitFits
<1>2. CatalogueInv /\ [Works!Next]_Works!catalogueVars => CatalogueInv'
  BY NextFits, SameFits
<1>3. CatalogueInv => Works!TypeOK
  BY InvImplies
<1> QED
  BY <1>1, <1>2, <1>3, PTL DEF Works!Spec

(* However scans, lookups, seeds, acceptances and restarts follow each      *)
(* other, a file is shown as identified just when it has a work, unless it  *)
(* was set aside or changed while a request held a copy of it.              *)
THEOREM FilesShownAsTheyAre ==
    ASSUME Works!CatalogueAssumption
    PROVE  Works!Spec => []Works!AssetStates
<1>1. Works!Init => CatalogueInv
  BY InitFits
<1>2. CatalogueInv /\ [Works!Next]_Works!catalogueVars => CatalogueInv'
  BY NextFits, SameFits
<1>3. CatalogueInv => Works!AssetStates
  BY InvImplies
<1> QED
  BY <1>1, <1>2, <1>3, PTL DEF Works!Spec

(* What the user locked changes only by an edit, a cast is never emptied,   *)
(* and that of a source does not give way to one of lower priority, but for *)
(* a refresh that holds an older copy of the work.                          *)
THEOREM CurationSurvives ==
    ASSUME Works!CatalogueAssumption
    PROVE  Works!Spec => Works!CuratedKept
<1>1. Works!Init => CatalogueInv
  BY InitFits
<1>2. CatalogueInv /\ [Works!Next]_Works!catalogueVars => CatalogueInv'
  BY NextFits, SameFits
<1>3. CatalogueInv /\ [Works!Next]_Works!catalogueVars
      => [\A w \in DOMAIN cat.works : Works!Overtaken(w) \/
             LET row == cat.works[w]
                 next == cat'.works[w]
             IN /\ \A field \in row.locks : next[field] \in {row[field], Works!User}
                /\ row.cast # Works!NoOne => next.cast # Works!NoOne
                /\ Works!AllRanked /\ Works!Sourced(row) /\ Works!Ranked(next.cast) =>
                     Rank[next.cast] <= Rank[row.cast]]_Works!catalogueVars
  BY NextFits, CuratedFrom
<1> QED
  BY <1>1, <1>2, <1>3, PTL DEF Works!Spec, Works!CuratedKept
=============================================================================
