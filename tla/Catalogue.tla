------------------------------- MODULE Catalogue -------------------------------
(***************************************************************************)
(* How files become works: the scan of a file, the candidates the          *)
(* providers return for it, their acceptance by score or by the user, and  *)
(* the merge of a provider's record into a work, with its field locks and  *)
(* the priority of cast sources (db/repository.py, services/identify.py,   *)
(* services/scanner.py and the endpoints of api.py).  A request that       *)
(* awaits the providers goes on with the rows it loaded before.            *)
(***************************************************************************)
EXTENDS Naturals, Sequences, FiniteSets, SequencesExt

CONSTANTS
    Assets,      \* files; each also stands for the record built from its path
    Remote,      \* records of providers
    Codes, NoCode,
    CodeOf,      \* the code of each record; of an asset, the one in its name
    Casting,     \* records that name performers
    Rank,        \* _JAV_ACTOR_PROVIDER_PRIORITY, 0 for a provider not in it
    Matching,    \* pairs of an asset and a record scored at least 0.86
    Confirmed,   \* assets in a directory whose performer is confirmed
    Requests,    \* handlers that may await the providers at a time
    MaxCalls     \* bound: scans, requests and restarts

Records == Remote \cup Assets
NoOne == "none"
User == "user"
CatalogueAssumption ==
    /\ Assets \cap Remote = {} /\ {NoOne, User, NoCode} \cap Records = {}
    /\ CodeOf \in [Records -> Codes \cup {NoCode}] /\ NoCode \notin Codes
    /\ Casting \subseteq Records /\ Rank \in [Remote -> Nat]
    /\ Matching \subseteq Assets \X Remote
    /\ \A a \in Assets, r \in Remote :
         CodeOf[a] = CodeOf[r] /\ CodeOf[a] # NoCode => <<a, r>> \in Matching
    /\ \A a \in Confirmed : a \in Assets /\ CodeOf[a] = NoCode
    /\ \A a \in Assets : CodeOf[a] = NoCode => a \in Casting
    /\ MaxCalls \in Nat

VARIABLES
    cat,         \* the works and the identities that lead to them
    asset,       \* MediaAsset: work (0: none), state
    cand,        \* MatchCandidateRow.state of each asset's candidates
    request,     \* the handlers that await the providers, with their copies
    torn,        \* history: assets that changed under the copy of a request
    calls

catalogueVars == <<cat, asset, cand, request, torn, calls>>

Lockable == {"title", "cast"}
Idle == [kind |-> "idle"]
NoAssets == [a \in {} |-> a]

-----------------------------------------------------------------------------
(* One row of works                                                        *)

Named(r) == IF r \in Casting THEN r ELSE NoOne
(* A source is recorded for the cast even if the record names nobody.      *)
Created(r) ==
    [code |-> CodeOf[r], title |-> r, cast |-> Named(r), source |-> r,
     locks |-> {}, snaps |-> {}]

Ranked(s) == s \in Remote /\ Rank[s] > 0
(* Mutant: an authoritative source may clear the cast.                     *)
MergedCastWipes(row, r, overwrite) == [row EXCEPT !.cast = Named(r), !.source = r]
MergedCast(row, r, overwrite) ==
    LET filled == IF row.cast = NoOne THEN r ELSE row.cast IN
    CASE r \notin Casting -> row
      [] r \in Casting /\ row.source = User /\ ~overwrite -> [row EXCEPT !.cast = filled]
      [] r \in Casting /\ (row.source # User \/ overwrite) /\ ~Ranked(r) ->
           [row EXCEPT !.cast = IF overwrite THEN r ELSE filled,
                       !.source = IF overwrite \/ @ \in Assets THEN r ELSE @]
      [] r \in Casting /\ (row.source # User \/ overwrite) /\ Ranked(r) ->
           IF ~Ranked(row.source) \/ Rank[r] < Rank[row.source]
           THEN [row EXCEPT !.cast = r, !.source = r]
           ELSE IF Rank[r] = Rank[row.source] THEN [row EXCEPT !.cast = r] ELSE row

Unlocked(row, field) == field \notin row.locks
(* _merge_provider_record                                                  *)
Merged(row, r, overwrite) ==
    LET titled == IF overwrite /\ Unlocked(row, "title")
                  THEN [row EXCEPT !.title = r] ELSE row
        coded == IF CodeOf[r] # NoCode /\ (overwrite \/ row.code = NoCode)
                 THEN [titled EXCEPT !.code = CodeOf[r]] ELSE titled
    IN IF Unlocked(row, "cast") THEN MergedCast(coded, r, overwrite) ELSE coded
MergedLocal(row, a) ==
    IF row.cast = NoOne /\ Unlocked(row, "cast") THEN [row EXCEPT !.cast = Named(a)] ELSE row
ReplacedLocal(row, a) ==
    [row EXCEPT
        !.title = IF Unlocked(row, "title") THEN a ELSE @,
        !.code = CodeOf[a],
        !.cast = IF Unlocked(row, "cast") /\ a \in Casting THEN a ELSE @,
        !.source = IF Unlocked(row, "cast") /\ a \in Casting THEN a ELSE @]

(* update_work_fields                                                      *)
Edited(row, field, lock) ==
    LET changed == IF field = "title" THEN [row EXCEPT !.title = User]
                   ELSE [row EXCEPT !.cast = User, !.source = User]
    IN [changed EXCEPT !.locks = IF lock THEN @ \cup {field} ELSE @]

(* repair_jav_actor_sources                                                *)
Repaired(row) ==
    LET credits == {r \in row.snaps \cap Casting : Ranked(r)}
        best == CHOOSE r \in credits : \A s \in credits : Rank[r] <= Rank[s]
    IN IF credits = {} \/ ~Unlocked(row, "cast") THEN row
       ELSE [row EXCEPT !.cast = best, !.source = best]

(* What an UPDATE leaves of a row when the handler changed its copy from   *)
(* mem to new: only the columns that differ are written, the sources of    *)
(* all fields being one of them; snapshots are rows of their own.          *)
WrittenBack(row, mem, new) ==
    LET same(columns) == \A k \in columns : new[k] = mem[k] IN
    [k \in DOMAIN row |->
        CASE k = "snaps" -> row.snaps \cup new.snaps
          [] k = "source" -> IF same({"title", "code", "source"}) THEN row[k] ELSE new[k]
          [] OTHER -> IF same({k}) THEN row[k] ELSE new[k]]

-----------------------------------------------------------------------------
(* The catalogue                                                           *)

Resolve(c, r) == IF c.ids[r] # 0 THEN c.ids[r] ELSE c.ids[CodeOf[r]]
(* Identities that exist stay with their work.                             *)
Recorded(c, w, r) ==
    [c EXCEPT !.ids = [k \in DOMAIN @ |->
                         IF k \in {r, CodeOf[r]} \ {NoCode} /\ @[k] = 0 THEN w ELSE @[k]],
              !.works[w].snaps = @ \cup {r}]
Added(c, r) ==
    Recorded([c EXCEPT !.works = Append(@, Created(r))], Len(c.works) + 1, r)

(* upsert_provider_record and the first half of accept_candidate; the work *)
(* is found under the record's id afterwards.                              *)
Upserted(c, r, overwrite) ==
    LET w == Resolve(c, r) IN
    IF w = 0 THEN Added(c, r)
    ELSE Recorded([c EXCEPT !.works[w] = Merged(@, r, overwrite)], w, r)
(* catalog_asset, refresh_local_catalog_asset and queue_local_candidate:   *)
(* the asset keeps the work it has.                                        *)
LocalHome(c, w, a) == IF w # 0 THEN w ELSE Resolve(c, a)
LocalWork(c, w, a) == IF LocalHome(c, w, a) # 0 THEN LocalHome(c, w, a) ELSE Len(c.works) + 1
Catalogued(c, w, a, replace) ==
    LET h == LocalHome(c, w, a) IN
    IF h = 0 THEN Added(c, a)
    ELSE Recorded([c EXCEPT !.works[h] = IF w # 0 /\ replace THEN ReplacedLocal(@, a)
                                         ELSE MergedLocal(@, a)], h, a)
Verified(w) ==
    \/ cat.works[w].snaps \cap Remote # {}
    \/ \E a \in Assets, r \in Remote : asset[a].work = w /\ cand[a][r] = "accepted"

(* Candidates of one asset.                                                *)
Saved(rows, found) ==
    [r \in Records |-> IF r \in found /\ rows[r] = "none" THEN "pending" ELSE rows[r]]
Chosen(rows, r) ==
    [s \in Records |-> IF s = r THEN "accepted"
                       ELSE IF rows[s] = "pending" THEN "rejected" ELSE rows[s]]

-----------------------------------------------------------------------------
(* Scans and the user                                                      *)

Known(a) == asset[a].state # "absent"
Identified(w) == [work |-> w, state |-> "identified"]
Called == calls < MaxCalls /\ calls' = calls + 1
AtOnce == Called /\ UNCHANGED <<request, torn>>

(* _scan_asset                                                             *)
Scan(a) ==
    LET byCode == cat.ids[CodeOf[a]]
        w == IF asset[a].work # 0 THEN asset[a].work ELSE byCode
    IN
    /\ IF a \in Confirmed
       THEN /\ cat' = Catalogued(cat, w, a, FALSE)
            /\ asset' = [asset EXCEPT ![a] = Identified(LocalWork(cat, w, a))]
            /\ UNCHANGED cand
       ELSE /\ cand' = [cand EXCEPT ![a] = Saved(@, {a})]
            /\ IF w # 0
               THEN /\ cat' = Catalogued(cat, w, a, ~Verified(w))
                    /\ asset' = [asset EXCEPT ![a] = Identified(w)]
               ELSE /\ asset' = [asset EXCEPT ![a].state = "review"]
                    /\ UNCHANGED cat
    /\ AtOnce
(* A filter rule now matches the path, or the user sets the asset aside.   *)
Ignore(a, byUser) ==
    /\ Known(a) /\ (byUser => asset[a].state # "identified")
    /\ asset' = [asset EXCEPT ![a].state = "ignored"]
    /\ UNCHANGED <<cat, cand>> /\ AtOnce
(* accept_candidate, from the asset's page or the inbox.                   *)
Accept(a, r) ==
    /\ cand[a][r] # "none"
    /\ cat' = Upserted(cat, r, TRUE)
    /\ asset' = [asset EXCEPT ![a] = Identified(cat'.ids[r])]
    /\ cand' = [cand EXCEPT ![a] = Chosen(@, r)]
    /\ AtOnce
(* batch_apply_actor_inbox                                                 *)
ApplyActor(a) ==
    /\ Known(a) /\ CodeOf[a] = NoCode
    /\ asset[a].work # 0 => ~Verified(asset[a].work)
    /\ cat' = Catalogued(cat, asset[a].work, a, TRUE)
    /\ asset' = [asset EXCEPT ![a] = Identified(LocalWork(cat, asset[a].work, a))]
    /\ UNCHANGED cand /\ AtOnce
(* A lookup of the user's overwrites, a seed or an import fills in.        *)
Upsert(r, overwrite) ==
    /\ cat' = Upserted(cat, r, overwrite)
    /\ UNCHANGED <<asset, cand>> /\ AtOnce
EditWork(w, field, lock) ==
    /\ cat' = [cat EXCEPT !.works[w] = Edited(@, field, lock)]
    /\ UNCHANGED <<asset, cand>> /\ AtOnce
SetLocks(w, locks) ==
    /\ cat' = [cat EXCEPT !.works[w].locks = locks]
    /\ UNCHANGED <<asset, cand>> /\ AtOnce

-----------------------------------------------------------------------------
(* Requests that await the providers                                       *)

(* What the providers return, some of their records in some order, and for *)
(* an asset by score.                                                      *)
Orders(S) == {s \in UNION {[1..n -> S] : n \in 0..Cardinality(S)} : IsInjective(s)}
Ranking(a) ==
    {s \in Orders(Remote) : \A i, j \in DOMAIN s :
       i < j /\ <<a, s[j]>> \in Matching => <<a, s[i]>> \in Matching}

(* The identification of one asset, or a job over several, which copies    *)
(* all their rows first: codes the catalogue knows need no provider.       *)
BeginIdentify(q, targets) ==
    LET known == {a \in targets : cat.ids[CodeOf[a]] # 0}
    IN
    /\ request[q] = Idle /\ Called
    /\ targets # {} /\ \A a \in targets : Known(a)
    /\ Cardinality(targets) > 1 => \A a \in targets :
         asset[a].state # "ignored" /\ (CodeOf[a] = NoCode => cand[a][a] # "none")
    /\ asset' = [a \in Assets |-> IF a \in known THEN Identified(cat.ids[CodeOf[a]])
                                  ELSE asset[a]]
    /\ request' = [request EXCEPT ![q] =
         IF targets = known THEN Idle
         ELSE [kind |-> "identify", todo |-> [a \in targets \ known |-> asset[a]]]]
    /\ UNCHANGED <<cat, cand, torn>>

(* apply_batch: the best match is accepted and every other match of the    *)
(* same code merged into its work.                                         *)
BatchMerged(c, a, ranked) ==
    LET top == ranked[1]
        w == Upserted(c, top, TRUE).ids[top]
        Joins(r) == r # top /\ <<a, r>> \in Matching
                    /\ CodeOf[top] # NoCode /\ CodeOf[r] = CodeOf[top]
        Join(d, r) == IF Joins(r)
                      THEN Recorded([d EXCEPT !.works[w] = Merged(@, r, FALSE)], w, r) ELSE d
        joined[i \in 0..Len(ranked)] ==
            IF i = 0 THEN Upserted(c, top, TRUE) ELSE Join(joined[i - 1], ranked[i])
    IN joined[Len(ranked)]
BatchChosen(rows, a, ranked) ==
    LET top == ranked[1] IN
    [r \in Records |->
        IF r \in ToSet(ranked) /\ <<a, r>> \in Matching /\ CodeOf[top] # NoCode
             /\ CodeOf[r] = CodeOf[top]
        THEN "accepted" ELSE Chosen(rows, top)[r]]
(* save_candidates for an asset, as the request knows it.                  *)
(* Mutant: what has candidates is up for review, with a work or without.   *)
ReviewedAlways(copy, ranked) == [work |-> copy.work, state |-> "review"]
Reviewed(copy, ranked) ==
    IF copy.work # 0 THEN Identified(copy.work)
    ELSE [work |-> 0, state |-> IF ranked = <<>> THEN "error" ELSE "review"]
ApplyBatch(q, a, ranked) ==
    LET copy == request[q].todo[a]
        rows == Saved(cand[a], ToSet(ranked))
        match == ranked # <<>> /\ <<a, ranked[1]>> \in Matching
        local == ~match /\ CodeOf[a] = NoCode /\ copy.work = 0 /\ cand[a][a] # "none"
        new == IF match \/ local
               THEN Identified(cat'.ids[IF match THEN ranked[1] ELSE a])
               ELSE Reviewed(copy, ranked)
        left == [b \in DOMAIN request[q].todo \ {a} |-> request[q].todo[b]]
    IN
    /\ cat' = IF match THEN BatchMerged(cat, a, ranked)
              ELSE IF local THEN Upserted(cat, a, TRUE) ELSE cat
    /\ cand' = [cand EXCEPT ![a] = IF match THEN BatchChosen(rows, a, ranked)
                                   ELSE IF local THEN Chosen(rows, a) ELSE rows]
    /\ asset' = [asset EXCEPT ![a] =
         [k \in DOMAIN @ |-> IF new[k] = copy[k] THEN @[k] ELSE new[k]]]
    /\ torn' = IF copy = asset[a] THEN torn ELSE torn \cup {a}
    /\ request' = [request EXCEPT ![q] =
         IF left = NoAssets THEN Idle ELSE [kind |-> "identify", todo |-> left]]
    /\ UNCHANGED calls

(* refresh_work_metadata: the work is loaded before the providers are      *)
(* asked, and is the row that the merge sees.                              *)
Hints(w) ==
    LET files == {a \in Assets : asset[a].work = w}
        ofCode == {r \in Remote : CodeOf[r] = cat.works[w].code}
    IN IF files # {} THEN {{r \in Remote : <<a, r>> \in Matching} : a \in files}
       ELSE IF cat.works[w].code # NoCode THEN {ofCode} ELSE {}
BeginRefresh(q, w) ==
    /\ request[q] = Idle /\ Called
    /\ ~(Lockable \subseteq cat.works[w].locks)
    /\ \E matches \in Hints(w) :
         request' = [request EXCEPT ![q] =
             [kind |-> "refresh", work |-> w, copy |-> cat.works[w], matches |-> matches]]
    /\ UNCHANGED <<cat, asset, cand, torn>>
Refreshed(s, w, r) ==
    LET seen == Upserted([s.cat EXCEPT !.works[w] = s.copy], r, TRUE) IN
    [cat |-> [seen EXCEPT !.works[w] = WrittenBack(s.cat.works[w], s.copy, @)],
     copy |-> seen.works[w]]
ApplyRefresh(q, ranked) ==
    LET refreshed[i \in 0..Len(ranked)] ==
            IF i = 0 THEN [cat |-> cat, copy |-> request[q].copy]
            ELSE Refreshed(refreshed[i - 1], request[q].work, ranked[i])
    IN
    /\ cat' = refreshed[Len(ranked)].cat
    /\ request' = [request EXCEPT ![q] = Idle]
    /\ UNCHANGED <<asset, cand, torn, calls>>

(* Nothing in flight survives; the casts are repaired.                     *)
Restart ==
    /\ Called
    /\ request' = [q \in Requests |-> Idle]
    /\ cat' = [cat EXCEPT !.works = [w \in DOMAIN @ |-> Repaired(@[w])]]
    /\ UNCHANGED <<asset, cand, torn>>

-----------------------------------------------------------------------------
Init ==
    /\ cat = [works |-> <<>>, ids |-> [k \in Records \cup Codes \cup {NoCode} |-> 0]]
    /\ asset = [a \in Assets |-> [work |-> 0, state |-> "absent"]]
    /\ cand = [a \in Assets |-> [r \in Records |-> "none"]]
    /\ request = [q \in Requests |-> Idle]
    /\ torn = {} /\ calls = 0

Proceed(q) ==
    \/ /\ request[q].kind = "identify"
       /\ \E a \in DOMAIN request[q].todo : \E ranked \in Ranking(a) : ApplyBatch(q, a, ranked)
    \/ /\ request[q].kind = "refresh"
       /\ \E ranked \in Orders(request[q].matches) : ApplyRefresh(q, ranked)
Next ==
    \/ \E a \in Assets :
         \/ Scan(a) \/ ApplyActor(a)
         \/ \E byUser \in BOOLEAN : Ignore(a, byUser)
         \/ \E r \in Records : Accept(a, r)
    \/ \E r \in Remote, overwrite \in BOOLEAN : Upsert(r, overwrite)
    \/ \E w \in DOMAIN cat.works :
         \/ \E field \in Lockable, lock \in BOOLEAN : EditWork(w, field, lock)
         \/ \E locks \in SUBSET Lockable : SetLocks(w, locks)
         \/ \E q \in Requests : BeginRefresh(q, w)
    \/ \E q \in Requests :
         \/ Proceed(q) \/ \E targets \in SUBSET Assets : BeginIdentify(q, targets)
    \/ Restart
Spec == Init /\ [][Next]_catalogueVars

-----------------------------------------------------------------------------
Rows == [code : Codes \cup {NoCode}, title : Records \cup {User},
         cast : Records \cup {User, NoOne}, source : Records \cup {User},
         locks : SUBSET Lockable, snaps : SUBSET Records]
AssetRows == [work : 0..Len(cat.works),
              state : {"absent", "new", "review", "error", "identified", "ignored"}]
TypeOK ==
    /\ cat.works \in Seq(Rows)
    /\ cat.ids \in [Records \cup Codes \cup {NoCode} -> 0..Len(cat.works)]
    /\ cat.ids[NoCode] = 0
    /\ asset \in [Assets -> AssetRows]
    /\ cand \in [Assets -> [Records -> {"none", "pending", "accepted", "rejected"}]]
    /\ \A q \in Requests :
         \/ request[q] = Idle
         \/ request[q] \in [kind : {"refresh"}, work : DOMAIN cat.works, copy : Rows,
                            matches : SUBSET Remote]
         \/ /\ DOMAIN request[q] = {"kind", "todo"} /\ request[q].kind = "identify"
            /\ DOMAIN request[q].todo \in (SUBSET Assets) \ {{}}
            /\ \A a \in DOMAIN request[q].todo : request[q].todo[a] \in AssetRows
    /\ torn \subseteq Assets
    /\ calls \in 0..MaxCalls

(* An asset is shown as identified just when it has a work, unless it was  *)
(* set aside, or changed while a request held a copy of it.                *)
AssetStates ==
    \A a \in Assets \ torn :
        asset[a].state \in {"absent", "ignored"}
        \/ (asset[a].state = "identified" <=> asset[a].work # 0)

Overtaken(w) ==
    \E q \in Requests : request[q].kind = "refresh" /\ request[q].work = w
                        /\ request[q].copy # cat.works[w]
(* The cast is no better than the source that is recorded for it, which    *)
(* decides about the next one.                                             *)
Sourced(row) ==
    Ranked(row.cast) /\ Ranked(row.source) /\ Rank[row.source] <= Rank[row.cast]
AllRanked == \A r \in Remote \cap Casting : Ranked(r)
(* What was curated in a work survives every scan, lookup, seed, merge,    *)
(* acceptance and restart, but for a request that holds an older copy of   *)
(* it: a locked field changes only by an edit, a cast is never emptied,    *)
(* and the cast of a source never gives way to one of lower priority, if   *)
(* all sources have one and no such request wrote another source back.     *)
CuratedKept ==
    [][\A w \in DOMAIN cat.works : Overtaken(w) \/
         LET row == cat.works[w]
             next == cat'.works[w]
         IN /\ \A field \in row.locks : next[field] \in {row[field], User}
            /\ row.cast # NoOne => next.cast # NoOne
            /\ AllRanked /\ Sourced(row) /\ Ranked(next.cast) =>
                 Rank[next.cast] <= Rank[row.cast]
      ]_catalogueVars

(* "overwrite=True refreshes unlocked fields; field_locks stay protected   *)
(* in repository merge" (api.py:4664): nothing but an edit changes a field *)
(* that is locked.                                                         *)
LocksProtected ==
    [][\A w \in DOMAIN cat.works : \A field \in cat.works[w].locks :
         cat'.works[w][field] \in {cat.works[w][field], User}]_catalogueVars
=============================================================================
