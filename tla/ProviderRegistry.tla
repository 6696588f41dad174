--------------------------- MODULE ProviderRegistry ---------------------------
(***************************************************************************)
(* The registry through which every search of the metadata sources goes:   *)
(* call slots, the circuit breaker and the waits the sources ask for       *)
(* (providers/base.py), and the daily budget of forced rescrapes           *)
(* (services/rescrape_quota.py, refresh_work_metadata in api.py).          *)
(*                                                                         *)
(* The unit of time is the quarter of a second that a wait lasts at least. *)
(***************************************************************************)
EXTENDS Naturals

CONSTANTS
    Providers,
    Exempt,       \* _RESCRAPE_QUOTA_EXEMPT: sources without a budget
    Searches,     \* requests and jobs that search
    Slots,        \* max_concurrent_calls
    Threshold,    \* failure_threshold
    Cooldown,     \* cooldown_seconds
    Waits,        \* the waits a Retry-After may ask for
    DailyLimit,   \* rescrape_daily_quota
    MaxTime, MaxSearches, MaxDays, MaxRestarts   \* bounds

ProviderAssumption ==
    /\ Exempt \subseteq Providers
    /\ Slots \in Nat \ {0} /\ Threshold \in Nat \ {0}
    /\ Cooldown \in Nat /\ Waits \subseteq Nat /\ DailyLimit \in Nat
    /\ MaxTime \in Nat /\ MaxSearches \in Nat /\ MaxDays \in Nat /\ MaxRestarts \in Nat

VARIABLES
    now,       \* time.monotonic
    health,    \* _health: failures in a row and the end of the cooldown
    free,      \* _call_slots
    call,      \* of each search and source: idle, queued for a slot or running
    asked,     \* history: until when a source asked not to be called
    late,      \* history: sources that answered another call since they asked
    spent,     \* _day and _counts
    ledger,    \* the quota file
    day,
    made,      \* history: forced searches of a source begun today
    searched, reboots

registry == <<health, free, call, asked, late>>
quota == <<spent, ledger, made>>
providerVars == <<now, registry, quota, day, searched, reboots>>

NoHealth == [failures |-> 0, until |-> 0]
Idle == [p \in Providers |-> "idle"]
Zero == [p \in Providers |-> 0]
Later(s, t) == IF s < t THEN t ELSE s

Cooling(p) == health[p].until > now

-----------------------------------------------------------------------------
(* search                                                                  *)

(* The calls of one search are gathered: it ends with the last of them.    *)
Begin(s, eligible) ==
    /\ call[s] = Idle /\ searched < MaxSearches
    /\ searched' = searched + 1
    /\ call' = [call EXCEPT ![s] = [p \in Providers |->
                  IF p \in eligible /\ ~Cooling(p) THEN "queued" ELSE "idle"]]
Search(s, eligible) ==
    /\ Begin(s, eligible)
    /\ UNCHANGED <<now, health, free, asked, late, quota, day, reboots>>

MayTake(s, p) == call[s][p] = "queued" /\ free > 0
(* Mutant: a call that got its slot does not look at the cooldown again.   *)
TakeUnchecked(s, p) ==
    /\ MayTake(s, p)
    /\ call' = [call EXCEPT ![s][p] = "running"] /\ free' = free - 1
    /\ UNCHANGED <<now, health, asked, late, quota, day, searched, reboots>>
(* A slot comes free; the call may find that its source cools down by now. *)
Take(s, p) ==
    /\ MayTake(s, p)
    /\ \/ /\ Cooling(p)
          /\ call' = [call EXCEPT ![s][p] = "idle"] /\ UNCHANGED free
       \/ /\ ~Cooling(p)
          /\ call' = [call EXCEPT ![s][p] = "running"] /\ free' = free - 1
    /\ UNCHANGED <<now, health, asked, late, quota, day, searched, reboots>>

Returns(s, p) ==
    /\ call[s][p] = "running"
    /\ call' = [call EXCEPT ![s][p] = "idle"] /\ free' = free + 1
    /\ UNCHANGED <<now, quota, day, searched, reboots>>
(* An answer that comes while the source has asked to be left alone: it is *)
(* that of a call which was under way then, and it writes the health.      *)
AnswersLate(p) == late' = IF asked[p] > now THEN late \cup {p} ELSE late
Succeeds(s, p) ==
    /\ Returns(s, p)
    /\ health' = [health EXCEPT ![p] = NoHealth]
    /\ AnswersLate(p)
    /\ UNCHANGED asked
(* Blocked, no connection, network error or the deadline of the call.      *)
Fails(s, p) ==
    /\ Returns(s, p)
    /\ health' = [health EXCEPT ![p] =
                    [failures |-> @.failures + 1,
                     until |-> IF @.failures + 1 >= Threshold THEN now + Cooldown
                               ELSE @.until]]
    /\ AnswersLate(p)
    /\ UNCHANGED asked
(* A 429, or a 503 that says how long to wait.                             *)
RateLimited(s, p) ==
    /\ Returns(s, p)
    /\ \E wait \in Waits \cup {Cooldown} :
         /\ health' = [health EXCEPT ![p] = [failures |-> @.failures + 1,
                                             until |-> now + Later(1, wait)]]
         /\ asked' = IF wait \in Waits
                     THEN [asked EXCEPT ![p] = Later(@, now + wait)] ELSE asked
         /\ IF wait \in Waits /\ asked[p] <= now + wait
            THEN late' = late \ {p} ELSE AnswersLate(p)
(* Any other error says nothing of the source.                             *)
Errs(s, p) ==
    /\ Returns(s, p)
    /\ UNCHANGED <<health, asked, late>>

(* The user resets the health of one source or of all.                     *)
ClearCooldown(cleared) ==
    /\ health' = [p \in Providers |-> IF p \in cleared THEN NoHealth ELSE health[p]]
    /\ asked' = [p \in Providers |-> IF p \in cleared THEN 0 ELSE asked[p]]
    /\ late' = late \ cleared
    /\ UNCHANGED <<now, free, call, quota, day, searched, reboots>>

-----------------------------------------------------------------------------
(* A forced rescrape of one work                                           *)

Rolled == IF spent.day = day THEN spent.counts ELSE Zero
Affordable(eligible) == {p \in eligible \ Exempt : Rolled[p] < DailyLimit}
Charged(eligible) ==
    [day |-> day,
     counts |-> [p \in Providers |->
                   IF p \in Affordable(eligible) THEN Rolled[p] + 1 ELSE Rolled[p]]]
Refused(eligible) == Affordable(eligible) = {} /\ eligible \ Exempt # {}

Rescrape(s, eligible) ==
    LET allowed == Affordable(eligible) IN
    /\ ~Refused(eligible)
    /\ spent' = Charged(eligible)
    /\ ledger' = IF allowed = {} THEN ledger ELSE spent'
    /\ made' = [p \in Providers |-> IF p \in allowed THEN made[p] + 1 ELSE made[p]]
    /\ Begin(s, allowed \cup (eligible \cap Exempt))
    /\ UNCHANGED <<now, health, free, asked, late, day, reboots>>
(* Too many requests, or the file cannot be written: nothing is searched.  *)
RescrapeRefused(s, eligible) ==
    /\ call[s] = Idle
    /\ Refused(eligible) \/ Affordable(eligible) # {}
    /\ spent' = Charged(eligible)
    /\ UNCHANGED <<now, registry, ledger, made, day, searched, reboots>>

-----------------------------------------------------------------------------
Tick ==
    /\ now < MaxTime
    /\ now' = now + 1
    /\ UNCHANGED <<registry, quota, day, searched, reboots>>
Midnight ==
    /\ day < MaxDays
    /\ day' = day + 1 /\ made' = Zero
    /\ UNCHANGED <<now, registry, spent, ledger, searched, reboots>>

(* Mutant: the budget is not read back.                                    *)
LoadedAfresh == [day |-> day, counts |-> Zero]
Loaded == ledger
(* The health is not kept; the budget is.                                  *)
Restart ==
    /\ reboots < MaxRestarts
    /\ reboots' = reboots + 1
    /\ health' = [p \in Providers |-> NoHealth] /\ asked' = Zero /\ late' = {}
    /\ free' = Slots /\ call' = [s \in Searches |-> Idle]
    /\ spent' = Loaded
    /\ UNCHANGED <<now, ledger, made, day, searched>>

Init ==
    /\ now = 0
    /\ health = [p \in Providers |-> NoHealth] /\ asked = Zero /\ late = {}
    /\ free = Slots /\ call = [s \in Searches |-> Idle]
    /\ day = 0 /\ spent = [day |-> 0, counts |-> Zero]
    /\ ledger = spent /\ made = Zero
    /\ searched = 0 /\ reboots = 0

Call(s, p) ==
    Take(s, p) \/ Succeeds(s, p) \/ Fails(s, p) \/ RateLimited(s, p) \/ Errs(s, p)
Searching(s) ==
    \E eligible \in SUBSET Providers :
        Search(s, eligible) \/ Rescrape(s, eligible) \/ RescrapeRefused(s, eligible)
Next ==
    \/ \E s \in Searches : Searching(s) \/ \E p \in Providers : Call(s, p)
    \/ ClearCooldown(Providers) \/ \E p \in Providers : ClearCooldown({p})
    \/ Tick \/ Midnight \/ Restart
Spec == Init /\ [][Next]_providerVars

-----------------------------------------------------------------------------
Counts == [day : 0..MaxDays, counts : [Providers -> Nat]]
TypeOK ==
    /\ now \in 0..MaxTime
    /\ health \in [Providers -> [failures : Nat, until : Nat]]
    /\ free \in 0..Slots
    /\ call \in [Searches -> [Providers -> {"idle", "queued", "running"}]]
    /\ asked \in [Providers -> Nat] /\ late \subseteq Providers
    /\ spent \in Counts /\ ledger \in Counts
    /\ day \in 0..MaxDays /\ made \in [Providers -> Nat]
    /\ searched \in 0..MaxSearches /\ reboots \in 0..MaxRestarts

(* No call of a source starts before the time until which it last asked    *)
(* to be left alone, also not one that was queued for a slot meanwhile     *)
(* (docs/architecture.md:65-66: a 429 cools the source down for the wait   *)
(* it asks for, and queued calls look at the cooldown once they have a     *)
(* slot), unless the user reset its health or the process was restarted.   *)
CooldownHonoured ==
    [][\A s \in Searches, p \in Providers :
         call[s][p] # "running" /\ call'[s][p] = "running" => asked[p] <= now]_providerVars

(* That holds until the source answers a call which was already under way  *)
(* when it asked: whatever else happens, a call that was queued then does  *)
(* not start before the wait is over (base.py:325-331).  The answer of the *)
(* call under way replaces the wait (base.py:334, :371-379): the exception *)
(* ends when the source asks again for as long, or its health is reset.    *)
WaitsKept ==
    [][\A s \in Searches, p \in Providers :
         call[s][p] # "running" /\ call'[s][p] = "running"
           => asked[p] <= now \/ p \in late]_providerVars

(* No source is searched by force more often than its budget on any day:   *)
(* "restarts do not hand out a fresh budget".                              *)
BudgetKept == \A p \in Providers \ Exempt : made[p] <= DailyLimit
=============================================================================
