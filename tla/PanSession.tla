----------------------------- MODULE PanSession ------------------------------
(***************************************************************************)
(* The 115 login of the process: the tokens of the one client, the stored  *)
(* credentials, refreshes whose token rotates, QR logins, imports, the     *)
(* rejection of a dead login, and the links the STRM relay caches under a  *)
(* fingerprint of the account (services/pan.py, pan_common.py,             *)
(* strm_relay.py).                                                         *)
(*                                                                         *)
(* A token stands for an access token and its refresh token.  Handlers on  *)
(* the loop interleave at their awaits; imports and disconnects run on     *)
(* threads of the pool, so the loop goes on between their two steps.       *)
(***************************************************************************)
EXTENDS Naturals, FiniteSets

CONSTANTS
    Accounts, NoAccount,
    Callers, Login, Relay,  \* coroutines that call 115; two special ones
    MaxTokens,    \* bound: tokens the service issues
    MaxResolves,  \* bound: links the relay resolves
    MaxRestarts   \* bound: restarts of the process

ASSUME PanAssumption ==
    /\ NoAccount \notin Accounts
    /\ Login \in Callers /\ Relay \in Callers /\ Login # Relay
    /\ MaxTokens \in Nat /\ MaxResolves \in Nat /\ MaxRestarts \in Nat

NoToken == 0
Rejected == MaxTokens + 1
Lost == MaxTokens + 2

VARIABLES
    minted, owner,   \* external: tokens issued so far, and for which account
    valid,           \* external: the tokens whose refresh 115 would accept
    bound, hooked,   \* the client: its token, whether on_tokens persists it
    stored,          \* credentials.json: token and user id
    authVersion,     \* _auth_version
    flight,          \* refreshes in flight, by the caller that started one
    call,            \* each caller: its step, the token it used, its fingerprint
    newLogin,        \* the token a QR login has exchanged
    thread,          \* an import or disconnect half done
    resolve,         \* the relay: what it reads, the fingerprint in its key
    links,           \* the relay's cached links: the key's account, the true
                     \* account, whether its resolve had strayed
    dead,            \* history: tokens 115 revoked, or whose successor was lost,
                     \* dropped or not saved
    loggedOut,       \* history: disconnected, no login under way, not crossed
    crossed,         \* history: an answer or a login changed the file while a
                     \* thread was half done; until the credentials are replaced
    strayed,         \* history: the relay's resolve met a change it cannot see
    resolves,        \* links resolved so far
    reboots

server == <<minted, owner, valid>>
client == <<bound, hooked>>
relayVars == <<resolve, links, resolves>>
panVars == <<server, client, stored, authVersion, flight, call, newLogin, thread,
             relayVars, dead, loggedOut, crossed, strayed, reboots>>

Tokens == 1..MaxTokens
NoCreds == [token |-> NoToken, id |-> NoAccount]
Idle == [step |-> "idle", used |-> NoToken, version |-> 0, id |-> NoAccount]
NoFlight == [step |-> "idle", used |-> NoToken, answer |-> NoToken]
NoThread == [step |-> "idle", creds |-> NoCreds]
NoResolve == [part |-> "idle", version |-> 0, id |-> NoAccount]

(* source_fingerprint: the account is what the stored user id says.        *)
Fingerprint == [version |-> authVersion, id |-> stored.id]
(* cache_key                                                               *)
Key == [version |-> resolve.version, id |-> resolve.id]

(* The client and the file may hold different logins: one is under way, a  *)
(* thread is half done, or something came between the halves of one.       *)
OutOfStep == newLogin # NoToken \/ thread.step # "idle" \/ crossed

(* The service issues a token.                                             *)
Issue(a) ==
    /\ minted < MaxTokens
    /\ minted' = minted + 1
    /\ owner' = [owner EXCEPT ![minted + 1] = a]

-----------------------------------------------------------------------------
(* Calls: _authed_json with its one refresh and one retry.  115 may find   *)
(* an access token expired whenever it is shown.                           *)

(* The relay notes its key before it asks for the pick code; one it knows  *)
(* or finds in a sidecar is not asked for.                                 *)
ResolveStarts ==
    /\ resolve.part = "idle" /\ stored.token # NoToken
    /\ resolves < MaxResolves /\ resolves' = resolves + 1
    /\ \E part \in {"pick", "download"} :
         resolve' = [part |-> part, version |-> Fingerprint.version,
                     id |-> Fingerprint.id]
    /\ UNCHANGED <<server, client, stored, authVersion, flight, call, newLogin,
                   thread, links, dead, loggedOut, crossed, reboots>>

(* An authorised request goes out; a read of the relay notes the           *)
(* fingerprint first (read_after_check).                                   *)
CallStarts(c) ==
    /\ c # Login /\ call[c].step = "idle" /\ bound # NoToken
    /\ c = Relay => resolve.part # "idle"
    /\ call' = [call EXCEPT ![c] = IF c = Relay
         THEN [step |-> "sent", used |-> bound,
               version |-> Fingerprint.version, id |-> Fingerprint.id]
         ELSE [Idle EXCEPT !.step = "sent", !.used = bound]]
    /\ UNCHANGED <<server, client, stored, authVersion, flight, newLogin,
                   thread, relayVars, dead, loggedOut, crossed, reboots>>

(* A download link that cannot be read is replaced by a play link, under   *)
(* the old key; any other failure ends the resolve.                        *)
AfterFailure == IF resolve.part = "download" THEN [resolve EXCEPT !.part = "play"]
                ELSE NoResolve
ReadEnds ==
    resolve' = IF call[Relay].step # "idle" /\ call'[Relay].step = "idle"
               THEN AfterFailure ELSE resolve
(* There is no token to read with.                                         *)
ReadRefused ==
    /\ resolve.part # "idle" /\ call[Relay].step = "idle" /\ bound = NoToken
    /\ resolve' = AfterFailure
    /\ UNCHANGED <<server, client, stored, authVersion, flight, call, newLogin,
                   thread, links, resolves, dead, loggedOut, crossed, reboots>>
(* RESOLVE_TIMEOUT_SECONDS; a refresh it waits on goes on without it.      *)
ResolveTimesOut ==
    /\ resolve.part # "idle"
    /\ resolve' = NoResolve
    /\ call' = [call EXCEPT ![Relay] = Idle]
    /\ UNCHANGED <<server, client, stored, authVersion, flight, newLogin,
                   thread, links, resolves, dead, loggedOut, crossed, reboots>>

(* Mutant: the result of a read is kept whatever happened meanwhile.       *)
SameSourceAlways(c) == TRUE
(* read_after_check *)
SameSource(c) == Fingerprint = [version |-> call[c].version, id |-> call[c].id]
(* The result of a read is dropped if the source has changed.  An empty    *)
(* answer is no failure of the read: the resolve goes on to the play link, *)
(* and ends without a pick code or a play link.                            *)
ReadDone(c) ==
    \/ ~SameSource(c) /\ resolve' = NoResolve /\ UNCHANGED links
    \/ /\ SameSource(c) /\ resolve.part = "pick"
       /\ resolve' = [resolve EXCEPT !.part = "download"]
       /\ UNCHANGED links
    \/ /\ SameSource(c) /\ resolve.part # "pick"
       /\ resolve' = NoResolve
       /\ links' = links \cup {[id |-> Key.id, account |-> owner[call[c].used],
                                strayed |-> strayed]}
    \/ SameSource(c) /\ resolve' = AfterFailure /\ UNCHANGED links
CallSucceeds(c) ==
    /\ c # Login /\ call[c].step \in {"sent", "again"}
    /\ call' = [call EXCEPT ![c] = Idle]
    /\ IF c = Relay THEN ReadDone(c) ELSE UNCHANGED <<resolve, links>>
    /\ UNCHANGED <<server, client, stored, authVersion, flight, newLogin,
                   thread, resolves, dead, loggedOut, crossed, reboots>>

EndOf(c) == IF c = Login THEN [Idle EXCEPT !.step = "failed"] ELSE Idle
Busy == {c \in Callers : flight[c].step # "idle"}
(* Mutant: every caller refreshes for itself.                              *)
MayJoinNone == FALSE
MayJoin == Busy # {}
(* Somebody has refreshed since this caller's token was rejected.          *)
RefreshedMeanwhile(c) == bound # NoToken /\ bound # call[c].used
(* A 401 on the first attempt: retry with a newer token, join the refresh  *)
(* in flight, or start one.                                                *)
CallUnauthorised(c) ==
    /\ call[c].step = "sent"
    /\ \/ /\ RefreshedMeanwhile(c)
          /\ call' = [call EXCEPT ![c].step = "again", ![c].used = bound]
          /\ UNCHANGED flight
       \/ /\ ~RefreshedMeanwhile(c) /\ MayJoin
          /\ call' = [call EXCEPT ![c].step = "joined", ![c].used = NoToken]
          /\ UNCHANGED flight
       \/ /\ ~RefreshedMeanwhile(c) /\ ~MayJoin /\ bound # NoToken
          /\ flight' = [flight EXCEPT ![c] = [step |-> "sent", used |-> bound,
                                              answer |-> NoToken]]
          /\ call' = [call EXCEPT ![c].step = "joined", ![c].used = NoToken]
       \/ /\ ~RefreshedMeanwhile(c) /\ ~MayJoin /\ bound = NoToken
          /\ call' = [call EXCEPT ![c] = EndOf(c)]
          /\ UNCHANGED flight
    /\ ReadEnds
    /\ UNCHANGED <<server, client, stored, authVersion, newLogin, thread,
                   links, resolves, dead, loggedOut, crossed, reboots>>
(* The second attempt is rejected too, or 115 cannot be reached.           *)
CallFails(c) ==
    /\ call[c].step \in {"sent", "again"}
    /\ call' = [call EXCEPT ![c] = EndOf(c)]
    /\ ReadEnds
    /\ UNCHANGED <<server, client, stored, authVersion, flight, newLogin,
                   thread, links, resolves, dead, loggedOut, crossed, reboots>>

-----------------------------------------------------------------------------
(* _refresh_once                                                           *)

(* 115 rotates the token or rejects it; the answer may be lost.            *)
RefreshDelivered(c) ==
    LET used == flight[c].used IN
    /\ flight[c].step = "sent"
    /\ \/ /\ used \in valid /\ Issue(owner[used])
          /\ valid' = (valid \ {used}) \cup {minted + 1}
          /\ \/ /\ flight' = [flight EXCEPT ![c].step = "answered",
                                            ![c].answer = minted + 1]
                /\ UNCHANGED dead
             \/ /\ flight' = [flight EXCEPT ![c].step = "answered",
                                            ![c].answer = Lost]
                /\ dead' = dead \cup {used}
       \/ /\ used \notin valid
          /\ flight' = [flight EXCEPT ![c].step = "answered", ![c].answer = Rejected]
          /\ UNCHANGED <<server, dead>>
    /\ UNCHANGED <<client, stored, authVersion, call, newLogin, thread,
                   relayVars, loggedOut, crossed, reboots>>

(* Those who wait on the refresh go on: with the client's token, or with   *)
(* the error.                                                              *)
Waiters(failed, token) ==
    [c \in Callers |->
       IF call[c].step # "joined" THEN call[c]
       ELSE IF failed \/ token = NoToken THEN EndOf(c)
       ELSE [call[c] EXCEPT !.step = "again", !.used = token]]

(* Mutant: the answer is used whatever the client holds by now.            *)
StillMineAlways(c) == TRUE
(* The client still holds the token that was sent.                         *)
StillMine(c) == bound = flight[c].used
(* The file changes while a thread is half done.                           *)
Crosses == crossed' = (crossed \/ (thread.step # "idle" /\ stored' # stored))
Rotated(c) ==
    LET new == flight[c].answer IN
    /\ flight[c].step = "answered" /\ new \in Tokens
    /\ IF StillMine(c)
       THEN /\ bound' = new
            /\ stored' = IF hooked THEN [stored EXCEPT !.token = new] ELSE stored
            /\ call' = Waiters(FALSE, new)
       ELSE /\ UNCHANGED <<bound, stored>>
            /\ call' = Waiters(FALSE, bound)
    /\ dead' = IF OutOfStep THEN dead \cup {flight[c].used} ELSE dead
    /\ flight' = [flight EXCEPT ![c] = NoFlight]
    /\ Crosses /\ ReadEnds
    /\ UNCHANGED <<server, hooked, authVersion, newLogin, thread, links,
                   resolves, loggedOut, reboots>>

(* A late rejection does not clear a newer login.                          *)
Clears(c) == stored.token \in {NoToken, flight[c].used}
RefreshRejected(c) ==
    /\ flight[c].step = "answered" /\ flight[c].answer = Rejected
    /\ bound' = IF StillMine(c) THEN NoToken ELSE bound
    /\ IF Clears(c) THEN stored' = NoCreds /\ authVersion' = authVersion + 1
       ELSE UNCHANGED <<stored, authVersion>>
    /\ call' = Waiters(TRUE, NoToken)
    /\ flight' = [flight EXCEPT ![c] = NoFlight]
    /\ Crosses /\ ReadEnds
    /\ UNCHANGED <<server, hooked, newLogin, thread, links, resolves, dead,
                   loggedOut, reboots>>
RefreshLost(c) ==
    /\ flight[c].step = "answered" /\ flight[c].answer = Lost
    /\ call' = Waiters(TRUE, NoToken)
    /\ flight' = [flight EXCEPT ![c] = NoFlight]
    /\ ReadEnds
    /\ UNCHANGED <<server, client, stored, authVersion, newLogin, thread,
                   links, resolves, dead, loggedOut, crossed, reboots>>

-----------------------------------------------------------------------------
(* Logins, imports, disconnects                                            *)

(* login_status: the code is exchanged, the client bound without a hook,   *)
(* and the user info asked for with the new token.                         *)
LoginExchanged(a) ==
    /\ call[Login].step = "idle"
    /\ Issue(a)
    /\ valid' = valid \cup {minted + 1}
    /\ bound' = minted + 1 /\ hooked' = FALSE
    /\ newLogin' = minted + 1
    /\ call' = [call EXCEPT ![Login] = [Idle EXCEPT !.step = "sent",
                                                    !.used = minted + 1]]
    /\ loggedOut' = FALSE
    /\ UNCHANGED <<stored, authVersion, flight, thread, relayVars, dead,
                   crossed, reboots>>
(* The user info was another login's: the client was bound to that one     *)
(* when the request went out again.                                        *)
ForeignInfo ==
    call[Login].step # "failed" /\ owner[call[Login].used] # owner[newLogin]
(* Mutant: the client is not given its hook back.                          *)
LoginSavedUnhooked ==
    /\ call[Login].step \in {"sent", "again", "failed"}
    /\ stored' = [token |-> newLogin, id |-> NoAccount]
    /\ bound' = newLogin /\ newLogin' = NoToken
    /\ call' = [call EXCEPT ![Login] = Idle]
    /\ crossed' = (thread.step # "idle" \/ ForeignInfo)
    /\ UNCHANGED <<server, hooked, authVersion, flight, thread, relayVars,
                   dead, loggedOut, reboots>>
(* The user info arrives or has failed: the exchanged token is stored and  *)
(* bound again.                                                            *)
LoginSaved ==
    /\ call[Login].step \in {"sent", "again", "failed"}
    /\ stored' = [token |-> newLogin,
                  id |-> IF call[Login].step = "failed" THEN NoAccount
                         ELSE owner[call[Login].used]]
    /\ bound' = newLogin /\ hooked' = TRUE
    /\ newLogin' = NoToken
    /\ call' = [call EXCEPT ![Login] = Idle]
    /\ crossed' = (thread.step # "idle" \/ ForeignInfo)
    /\ UNCHANGED <<server, authVersion, flight, thread, relayVars, dead,
                   loggedOut, reboots>>

(* import_tokens saves the file, then binds the client.                    *)
Import(a) ==
    /\ thread.step = "idle"
    /\ Issue(a)
    /\ valid' = valid \cup {minted + 1}
    /\ \E id \in {a, NoAccount} :
         LET creds == [token |-> minted + 1, id |-> id] IN
         /\ stored' = creds
         /\ thread' = [step |-> "import", creds |-> creds]
    /\ loggedOut' = FALSE /\ crossed' = FALSE
    /\ UNCHANGED <<client, authVersion, flight, call, newLogin, relayVars,
                   dead, reboots>>
(* disconnect clears the file, then the client, and bumps the version.     *)
Disconnect ==
    /\ thread.step = "idle" /\ stored.token # NoToken
    /\ stored' = NoCreds
    /\ thread' = [step |-> "disconnect", creds |-> NoCreds]
    /\ crossed' = FALSE
    /\ UNCHANGED <<server, client, authVersion, flight, call, newLogin,
                   relayVars, dead, loggedOut, reboots>>
ThreadEnds ==
    /\ thread.step # "idle"
    /\ bound' = thread.creds.token /\ hooked' = (bound' # NoToken)
    /\ authVersion' = IF thread.step = "disconnect" THEN authVersion + 1
                      ELSE authVersion
    /\ loggedOut' = (thread.step = "disconnect" /\ newLogin = NoToken /\ ~crossed)
    /\ thread' = NoThread
    /\ UNCHANGED <<server, stored, flight, call, newLogin, relayVars, dead,
                   crossed, reboots>>

-----------------------------------------------------------------------------
(* The service and the process                                             *)

(* The user revokes a login, or a newer one elsewhere supersedes it.       *)
Revoke(t) ==
    /\ t \in valid /\ t \in {bound, stored.token}
    /\ valid' = valid \ {t}
    /\ dead' = dead \cup {t}
    /\ UNCHANGED <<minted, owner, client, stored, authVersion, flight, call,
                   newLogin, thread, relayVars, loggedOut, crossed, reboots>>

(* The tokens come from the file; a rotation on its way is lost.           *)
Reboot ==
    /\ reboots < MaxRestarts
    /\ reboots' = reboots + 1
    /\ dead' = dead \cup {flight[c].used :
                          c \in {d \in Callers : flight[d].answer \in Tokens}}
    /\ bound' = stored.token /\ hooked' = TRUE
    /\ authVersion' = 1
    /\ flight' = [c \in Callers |-> NoFlight] /\ call' = [c \in Callers |-> Idle]
    /\ newLogin' = NoToken /\ thread' = NoThread
    /\ resolve' = NoResolve /\ links' = {}
    /\ UNCHANGED <<server, stored, resolves, loggedOut, crossed>>

-----------------------------------------------------------------------------
Init ==
    /\ minted = 0 /\ owner = [t \in Tokens |-> NoAccount]
    /\ valid = {}
    /\ bound = NoToken /\ hooked = TRUE /\ stored = NoCreds
    /\ authVersion = 1
    /\ flight = [c \in Callers |-> NoFlight] /\ call = [c \in Callers |-> Idle]
    /\ newLogin = NoToken /\ thread = NoThread
    /\ resolve = NoResolve /\ links = {}
    /\ dead = {} /\ loggedOut = FALSE /\ crossed = FALSE /\ strayed = FALSE
    /\ resolves = 0 /\ reboots = 0

Steps ==
    \/ \E c \in Callers :
         \/ CallStarts(c) \/ CallSucceeds(c) \/ CallUnauthorised(c)
         \/ CallFails(c) \/ RefreshDelivered(c) \/ Rotated(c)
         \/ RefreshRejected(c) \/ RefreshLost(c)
    \/ \E a \in Accounts : LoginExchanged(a) \/ Import(a)
    \/ ResolveStarts \/ ReadRefused \/ ResolveTimesOut
    \/ LoginSaved \/ Disconnect \/ ThreadEnds
    \/ \E t \in Tokens : Revoke(t)
    \/ Reboot

(* The history strayed: a request of the resolve goes out while client and *)
(* file are out of step; a read of it begins under another fingerprint     *)
(* than its key's; the fingerprint leaves the key's and comes back.        *)
Sends == call'[Relay].used \notin {call[Relay].used, NoToken}
Strays ==
    strayed' = /\ resolve'.part # "idle"
               /\ \/ strayed
                  \/ Sends /\ OutOfStep
                  \/ Sends /\ call[Relay].step = "idle" /\ Fingerprint # Key
                  \/ resolve.part # "idle" /\ Fingerprint # Key /\ Fingerprint' = Key
Next == Steps /\ Strays
Spec == Init /\ [][Next]_panVars

-----------------------------------------------------------------------------
Token == 0..MaxTokens
TypeOK ==
    /\ minted \in Token /\ owner \in [Tokens -> Accounts \cup {NoAccount}]
    /\ valid \subseteq Tokens
    /\ bound \in Token /\ hooked \in BOOLEAN
    /\ stored \in [token : Token, id : Accounts \cup {NoAccount}]
    /\ authVersion \in Nat
    /\ flight \in [Callers -> [step : {"idle", "sent", "answered"}, used : Token,
                               answer : 0..MaxTokens + 2]]
    /\ call \in [Callers -> [step : {"idle", "sent", "joined", "again", "failed"},
                             used : Token, version : Nat,
                             id : Accounts \cup {NoAccount}]]
    /\ newLogin \in Token
    /\ thread \in [step : {"idle", "import", "disconnect"},
                   creds : [token : Token, id : Accounts \cup {NoAccount}]]
    /\ resolve \in [part : {"idle", "pick", "download", "play"}, version : Nat,
                    id : Accounts \cup {NoAccount}]
    /\ links \subseteq [id : Accounts \cup {NoAccount},
                        account : Accounts \cup {NoAccount}, strayed : BOOLEAN]
    /\ dead \subseteq Tokens /\ loggedOut \in BOOLEAN
    /\ crossed \in BOOLEAN /\ strayed \in BOOLEAN
    /\ resolves \in 0..MaxResolves /\ reboots \in 0..MaxRestarts

(* 115 rejects a refresh only because it revoked the login, or an answer   *)
(* was lost, dropped or not saved, never because two callers sent one      *)
(* rotating token ("a second parallel refresh with the old one would be    *)
(* rejected").                                                             *)
NotSelfRejected ==
    \A c \in Callers : flight[c].answer = Rejected => flight[c].used \in dead

(* The stored login is one 115 still accepts, or its rotation is on its    *)
(* way here, or 115 itself ended it.  Excepted is a rotation that arrives  *)
(* while client and file are out of step, which may be dropped.            *)
LoginKept ==
    stored.token \in valid \cup dead \cup {NoToken} \cup
        {flight[c].used : c \in {d \in Callers : flight[d].answer \in Tokens}}

(* The answer to a refresh, good or bad, changes the stored login only if  *)
(* that is the one it was for ("never overwrite the newer ones", "a late   *)
(* rejection must not clear it"), also while a login is under way; an      *)
(* import or disconnect half done is not protected.                        *)
NewerLoginWins ==
    [][\A c \in Callers :
         flight[c].step = "answered" /\ flight'[c].step = "idle" /\ stored' # stored
         => stored.token = flight[c].used \/ crossed' \/ reboots' # reboots]_panVars

(* Once disconnected, no answer still on its way brings the login back,    *)
(* unless it arrived between the two steps of the disconnect.              *)
DisconnectSticks == loggedOut => stored.token = NoToken /\ bound = NoToken

(* A link is cached under the account it belongs to, whatever happens to   *)
(* the login during a read and between its attempts: a hit is never the    *)
(* link of another.  Excepted are the changes a resolve cannot see.        *)
LinksMatch ==
    \A l \in links : l.id # NoAccount /\ ~l.strayed => l.id = l.account
=============================================================================
