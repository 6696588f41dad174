-------------------------- MODULE PanSession_proofs ---------------------------
(***************************************************************************)
(* The five properties of the 115 login, for any number of callers,        *)
(* accounts, tokens, links and restarts, and for every interleaving of the *)
(* loop with imports and disconnects.                                      *)
(***************************************************************************)
EXTENDS PanSession, TLAPS

(* A call has a token while a request of it is on its way.                 *)
CallRec ==
    {r \in [step : {"idle", "sent", "joined", "again", "failed"}, used : Token,
            version : Nat, id : Accounts \cup {NoAccount}] :
       r.used = NoToken <=> r.step \notin {"sent", "again"}}
FlightRec == [step : {"idle", "sent", "answered"}, used : Token,
              answer : 0..MaxTokens + 2]
CredsRec == [token : Token, id : Accounts \cup {NoAccount}]
LinkRec == [id : Accounts \cup {NoAccount}, account : Accounts \cup {NoAccount},
            strayed : BOOLEAN]
ResolveRec == [part : {"idle", "pick", "download", "play"}, version : Nat,
               id : Accounts \cup {NoAccount}]

(* The types of what is not the relay's own.                               *)
CoreOK ==
    /\ minted \in Token /\ owner \in [Tokens -> Accounts \cup {NoAccount}]
    /\ valid \subseteq Tokens
    /\ bound \in Token /\ hooked \in BOOLEAN /\ stored \in CredsRec
    /\ authVersion \in Nat
    /\ flight \in [Callers -> FlightRec] /\ call \in [Callers -> CallRec]
    /\ newLogin \in Token
    /\ thread \in [step : {"idle", "import", "disconnect"}, creds : CredsRec]
    /\ dead \subseteq Tokens /\ loggedOut \in BOOLEAN /\ crossed \in BOOLEAN
    /\ reboots \in 0..MaxRestarts

(* A QR login under way has its token.                                     *)
LoginShape == newLogin = NoToken <=> call[Login].step = "idle"
(* A refresh in flight sent a token, and its answer comes once.            *)
FlightShape ==
    \A c \in Callers :
        /\ flight[c].step = "idle" => flight[c] = NoFlight
        /\ flight[c].step # "idle" => flight[c].used \in Tokens
        /\ flight[c].step = "sent" => flight[c].answer = NoToken
(* Callers join the refresh in flight.                                     *)
OneFlight ==
    \A c, d \in Callers :
        flight[c].step # "idle" /\ flight[d].step # "idle" => c = d
(* The client lacks its hook only during a QR login, or without a token.   *)
HookShape == hooked \/ newLogin # NoToken \/ bound = NoToken
ThreadShape ==
    /\ thread.step # "import" => thread.creds = NoCreds
    /\ thread.step = "import" => thread.creds.token # NoToken
    /\ stored.token = NoToken => stored = NoCreds
Shape ==
    /\ CoreOK /\ LoginShape /\ FlightShape /\ OneFlight /\ HookShape /\ ThreadShape

-----------------------------------------------------------------------------
(* Facts about the constants and about what waits on a refresh.            *)

LEMMA Constants ==
    /\ MaxTokens \in Nat /\ MaxRestarts \in Nat /\ Login \in Callers
    /\ Relay \in Callers /\ Login # Relay /\ NoAccount \notin Accounts
    /\ Tokens \subseteq Token /\ NoToken \in Token /\ NoToken \notin Tokens
    /\ \A t \in Token : t # NoToken => t \in Tokens
    /\ \A t \in Tokens : t # Rejected /\ t # Lost /\ t \in 0..MaxTokens + 2
    /\ {NoToken, Rejected, Lost} \subseteq 0..MaxTokens + 2
    /\ Rejected # NoToken /\ Lost # NoToken /\ Rejected # Lost
  BY PanAssumption DEF PanAssumption, Tokens, Token, NoToken, Rejected, Lost

LEMMA Records ==
    /\ Idle \in CallRec /\ NoFlight \in FlightRec /\ NoCreds \in CredsRec
    /\ NoThread \in [step : {"idle", "import", "disconnect"}, creds : CredsRec]
  BY Constants
  DEF Idle, NoFlight, NoCreds, NoThread, CallRec, FlightRec, CredsRec

(* What a token is issued with.                                            *)
LEMMA IssueTyped ==
    ASSUME CoreOK, NEW a \in Accounts \cup {NoAccount}, Issue(a)
    PROVE  /\ minted + 1 \in Tokens /\ minted' = minted + 1
           /\ owner' \in [Tokens -> Accounts \cup {NoAccount}]
           /\ owner'[minted + 1] = a
           /\ \A t \in Tokens : t # minted + 1 => owner'[t] = owner[t]
  BY Constants, SMTT(30) DEF CoreOK, Issue, Tokens, Token

LEMMA EndTyped ==
    ASSUME CoreOK, NEW c \in Callers
    PROVE  /\ EndOf(c) \in CallRec
           /\ EndOf(c).step = "idle" => c # Login /\ EndOf(c) = Idle
           /\ c = Login => EndOf(c).step = "failed"
           /\ EndOf(c).used = NoToken
  BY Constants, Records DEF CoreOK, EndOf, CallRec, Idle

(* A caller that waits goes on with the token or ends; the others stay.    *)
LEMMA WaiterFate ==
    ASSUME CoreOK, NEW failed \in BOOLEAN, NEW token \in Token,
           NEW c \in Callers
    PROVE  \/ /\ call[c].step # "joined"
              /\ Waiters(failed, token)[c] = call[c]
           \/ /\ call[c].step = "joined"
              /\ Waiters(failed, token)[c] = EndOf(c)
           \/ /\ call[c].step = "joined" /\ ~failed /\ token # NoToken
              /\ Waiters(failed, token)[c] =
                   [call[c] EXCEPT !.step = "again", !.used = token]
  BY DEF Waiters

LEMMA WaitersTyped ==
    ASSUME CoreOK, NEW failed \in BOOLEAN, NEW token \in Token
    PROVE  Waiters(failed, token) \in [Callers -> CallRec]
<1>1. ASSUME NEW c \in Callers
      PROVE  Waiters(failed, token)[c] \in CallRec
  <2> DEFINE w == Waiters(failed, token)[c]
             again == [call[c] EXCEPT !.step = "again", !.used = token]
  <2>1. call[c] \in CallRec /\ EndOf(c) \in CallRec
    BY EndTyped DEF CoreOK
  <2>2. CASE token = NoToken
    BY <2>1, <2>2 DEF Waiters, w
  <2>3. ASSUME token # NoToken
        PROVE  w \in CallRec
    <3>1. again \in CallRec
      BY <2>1, <2>3 DEF CallRec
    <3>2. w = call[c] \/ w = EndOf(c) \/ w = again
      BY WaiterFate, ZenonT(30)
    <3> HIDE DEF w, again
    <3> QED
      BY <2>1, <3>1, <3>2
  <2> QED
    BY <2>2, <2>3 DEF w
<1>2. Waiters(failed, token) = [c \in Callers |-> Waiters(failed, token)[c]]
  BY DEF Waiters
<1> QED
  BY <1>1, <1>2

LEMMA WaitersLogin ==
    ASSUME CoreOK, NEW failed \in BOOLEAN, NEW token \in Token
    PROVE  Waiters(failed, token)[Login].step = "idle" <=> call[Login].step = "idle"
<1>1. call[Login] \in CallRec /\ Login \in Callers
  BY Constants DEF CoreOK
<1>2. [call[Login] EXCEPT !.step = "again", !.used = token].step = "again"
  BY <1>1 DEF CallRec
<1>3. EndOf(Login).step = "failed"
  BY <1>1, EndTyped
<1>4. CASE call[Login].step # "joined"
  BY <1>1, <1>4, WaiterFate, ZenonT(30)
<1>5. CASE call[Login].step = "joined"
  <2>1. Waiters(failed, token)[Login]
          \in {EndOf(Login), [call[Login] EXCEPT !.step = "again", !.used = token]}
    BY <1>1, <1>5, WaiterFate
  <2> QED
    BY <1>2, <1>3, <1>5, <2>1
<1> QED
  BY <1>4, <1>5

-----------------------------------------------------------------------------
(* The shape is kept by every step, whatever the constants.                *)

FlightOK == FlightShape /\ OneFlight
OthersOK == LoginShape /\ HookShape /\ ThreadShape

LEMMA FlightKept ==
    ASSUME FlightOK, UNCHANGED flight
    PROVE  FlightOK'
  BY DEF FlightOK, FlightShape, OneFlight

(* One caller's refresh starts, is answered or ends.                       *)
LEMMA FlightMoves ==
    ASSUME FlightOK, flight \in [Callers -> FlightRec],
           NEW c \in Callers, NEW f \in FlightRec,
           flight' = [flight EXCEPT ![c] = f],
           f.step = "idle" => f = NoFlight,
           f.step # "idle" => f.used \in Tokens,
           f.step = "sent" => f.answer = NoToken,
           flight[c].step # "idle" \/ Busy = {} \/ f.step = "idle"
    PROVE  FlightOK'
<1>1. \A d \in Callers : flight'[d] = IF d = c THEN f ELSE flight[d]
  OBVIOUS
<1>2. FlightShape'
  BY <1>1 DEF FlightOK, FlightShape
<1>3. OneFlight'
  BY <1>1 DEF FlightOK, OneFlight, Busy
<1> QED
  BY <1>2, <1>3 DEF FlightOK

LEMMA StartsShape ==
    ASSUME Shape, NEW c \in Callers, CallStarts(c)
    PROVE  Shape'
<1>1. CoreOK'
  BY Constants DEF Shape, CoreOK, CallStarts, Idle, Fingerprint, server, client, CallRec,
     CredsRec
<1>2. FlightOK'
  BY FlightKept DEF Shape, FlightOK, CallStarts
<1>3. OthersOK'
  BY DEF Shape, CallStarts, OthersOK, LoginShape, HookShape, ThreadShape, client, CoreOK
<1> QED
  BY <1>1, <1>2, <1>3 DEF Shape, FlightOK, OthersOK

LEMMA SucceedsShape ==
    ASSUME Shape, NEW c \in Callers, CallSucceeds(c)
    PROVE  Shape'
<1>1. CoreOK'
  BY Constants, Records DEF Shape, CoreOK, CallSucceeds, server, client
<1>2. FlightOK'
  BY FlightKept DEF Shape, FlightOK, CallSucceeds
<1>3. OthersOK'
  BY DEF Shape, CallSucceeds, OthersOK, LoginShape, HookShape, ThreadShape, client, CoreOK
<1> QED
  BY <1>1, <1>2, <1>3 DEF Shape, FlightOK, OthersOK

Retried(c) == [call[c] EXCEPT !.step = "again", !.used = bound]
Joined(c) == [call[c] EXCEPT !.step = "joined", !.used = NoToken]
FlightStarted(c) == [step |-> "sent", used |-> bound, answer |-> NoToken]

(* A rejected call goes on with a newer token, waits on a refresh, which   *)
(* it may have started, or ends.                                           *)
LEMMA UnauthorisedFate ==
    ASSUME CoreOK, NEW c \in Callers, CallUnauthorised(c)
    PROVE  /\ call[c].step = "sent"
           /\ \/ /\ call' = [call EXCEPT ![c] = Retried(c)]
                 /\ bound # NoToken /\ UNCHANGED flight
              \/ call' = [call EXCEPT ![c] = EndOf(c)] /\ UNCHANGED flight
              \/ /\ call' = [call EXCEPT ![c] = Joined(c)]
                 /\ \/ UNCHANGED flight
                    \/ /\ flight' = [flight EXCEPT ![c] = FlightStarted(c)]
                       /\ Busy = {} /\ bound # NoToken /\ bound = call[c].used
<1>1. call \in [Callers -> CallRec]
  BY DEF CoreOK
<1>2. call[c] \in CallRec
  BY <1>1
<1>3. CASE /\ RefreshedMeanwhile(c)
           /\ call' = [call EXCEPT ![c].step = "again", ![c].used = bound]
           /\ UNCHANGED flight
  BY <1>1, <1>2, <1>3 DEF CallUnauthorised, RefreshedMeanwhile, Retried, CallRec
<1>4. CASE call' = [call EXCEPT ![c].step = "joined", ![c].used = NoToken]
  <2>1. call' = [call EXCEPT ![c] = Joined(c)]
    BY <1>4 DEF Joined
  <2>2. CASE UNCHANGED flight
    BY <2>1, <2>2 DEF CallUnauthorised
  <2>3. CASE /\ ~RefreshedMeanwhile(c) /\ ~MayJoin /\ bound # NoToken
             /\ flight' = [flight EXCEPT ![c] = FlightStarted(c)]
    BY <2>1, <2>3 DEF CallUnauthorised, RefreshedMeanwhile, MayJoin
  <2> QED
    BY <1>4, <2>2, <2>3 DEF CallUnauthorised, FlightStarted
<1>5. CASE call' = [call EXCEPT ![c] = EndOf(c)] /\ UNCHANGED flight
  BY <1>5 DEF CallUnauthorised
<1> QED
  BY <1>3, <1>4, <1>5 DEF CallUnauthorised

LEMMA UnauthorisedShape ==
    ASSUME Shape, NEW c \in Callers, CallUnauthorised(c)
    PROVE  Shape'
<1>1. CoreOK /\ call \in [Callers -> CallRec] /\ flight \in [Callers -> FlightRec]
  BY DEF Shape, CoreOK
<1>2. call[c] \in CallRec /\ bound \in Token /\ call[c].step = "sent"
  BY <1>1, UnauthorisedFate DEF CoreOK
<1>3. /\ bound # NoToken => Retried(c) \in CallRec
      /\ Joined(c) \in CallRec /\ EndOf(c) \in CallRec
      /\ Retried(c).step # "idle" /\ Joined(c).step # "idle"
      /\ EndOf(c).step = "idle" => c # Login
  BY <1>1, <1>2, EndTyped DEF Retried, Joined, CallRec
<1>4. PICK r \in {Retried(c), Joined(c), EndOf(c)} :
        call' = [call EXCEPT ![c] = r] /\ r \in CallRec
  BY <1>1, <1>3, UnauthorisedFate
<1>5. call' \in [Callers -> CallRec]
  BY <1>1, <1>3, <1>4
<1>6. call'[Login].step = "idle" <=> call[Login].step = "idle"
  BY <1>1, <1>2, <1>3, <1>4, Constants
<1>7. FlightStarted(c) \in FlightRec
  BY <1>2, Constants DEF FlightStarted, FlightRec
<1>8. flight' \in [Callers -> FlightRec]
  BY <1>1, <1>7, UnauthorisedFate
<1>9. FlightOK'
  <2>1. CASE UNCHANGED flight
    BY <2>1, FlightKept DEF Shape, FlightOK
  <2>2. CASE /\ flight' = [flight EXCEPT ![c] = FlightStarted(c)]
             /\ Busy = {} /\ bound # NoToken
    <3>1. bound \in Tokens
      BY <1>2, <2>2, Constants
    <3> QED
      BY <1>1, <1>7, <2>2, <3>1, FlightMoves DEF Shape, FlightOK, FlightStarted
  <2> QED
    BY <1>1, <2>1, <2>2, UnauthorisedFate
<1>10. CoreOK'
  BY <1>1, <1>5, <1>8 DEF CallUnauthorised, CoreOK, CallRec, FlightRec,
     server, client
<1>11. OthersOK'
  BY <1>6 DEF Shape, CallUnauthorised, OthersOK, LoginShape, HookShape, ThreadShape,
     client
<1> QED
  BY <1>9, <1>10, <1>11 DEF Shape, FlightOK, OthersOK

LEMMA FailsShape ==
    ASSUME Shape, NEW c \in Callers, CallFails(c)
    PROVE  Shape'
<1>1. CoreOK'
  BY Constants, EndTyped DEF Shape, CoreOK, CallFails, CallRec, server, client
<1>2. FlightOK'
  BY FlightKept DEF Shape, FlightOK, CallFails
<1>3. OthersOK'
  BY EndTyped DEF Shape, CallFails, OthersOK, LoginShape, HookShape, ThreadShape, client, CoreOK
<1> QED
  BY <1>1, <1>2, <1>3 DEF Shape, FlightOK, OthersOK

(* What ends a refresh: nobody waits on it any more.                       *)
LEMMA FlightEnds ==
    ASSUME Shape, NEW c \in Callers, flight' = [flight EXCEPT ![c] = NoFlight]
    PROVE  FlightOK' /\ flight' \in [Callers -> FlightRec]
<1>1. flight \in [Callers -> FlightRec] /\ NoFlight \in FlightRec
  BY Records DEF Shape, CoreOK
<1>2. NoFlight.step = "idle"
  BY DEF NoFlight
<1> QED
  BY <1>1, <1>2, FlightMoves DEF Shape, FlightOK

LEMMA LostShape ==
    ASSUME Shape, NEW c \in Callers, RefreshLost(c)
    PROVE  Shape'
<1>1. FlightOK' /\ flight' \in [Callers -> FlightRec]
  BY FlightEnds DEF RefreshLost
<1>2. call' \in [Callers -> CallRec]
  BY WaitersTyped, Constants DEF RefreshLost, Shape
<1>3. CoreOK'
  BY <1>1, <1>2 DEF Shape, RefreshLost, CoreOK, CallRec, FlightRec,
     server, client
<1>4. OthersOK'
  BY WaitersLogin, Constants
  DEF Shape, RefreshLost, OthersOK, LoginShape, HookShape, ThreadShape, client
<1> QED
  BY <1>1, <1>3, <1>4 DEF Shape, FlightOK, OthersOK

LEMMA RejectedShape ==
    ASSUME Shape, NEW c \in Callers, RefreshRejected(c)
    PROVE  Shape'
<1>1. FlightOK' /\ flight' \in [Callers -> FlightRec]
  BY FlightEnds DEF RefreshRejected
<1>2. call' \in [Callers -> CallRec]
  BY WaitersTyped, Constants DEF RefreshRejected, Shape
<1>3. /\ stored' \in CredsRec /\ bound' \in Token /\ authVersion' \in Nat
      /\ stored'.token = NoToken => stored' = NoCreds
      /\ bound' = bound \/ bound' = NoToken
  BY Records, Constants DEF Shape, CoreOK, ThreadShape, RefreshRejected
<1>4. CoreOK'
  BY <1>1, <1>2, <1>3 DEF Shape, RefreshRejected, CoreOK, Crosses, server
<1>5. OthersOK'
  BY <1>3, WaitersLogin, Constants
  DEF Shape, RefreshRejected, OthersOK, LoginShape, HookShape, ThreadShape
<1> QED
  BY <1>1, <1>4, <1>5 DEF Shape, FlightOK, OthersOK

LEMMA RotatedShape ==
    ASSUME Shape, NEW c \in Callers, Rotated(c)
    PROVE  Shape'
<1>1. FlightOK' /\ flight' \in [Callers -> FlightRec]
  BY FlightEnds DEF Rotated
<1>2. /\ flight[c].answer \in Tokens /\ flight[c].answer \in Token
      /\ flight[c].used \in Tokens /\ bound \in Token /\ stored \in CredsRec
  BY Constants DEF Rotated, Shape, CoreOK, FlightShape
<1>3. call' = Waiters(FALSE, flight[c].answer) \/ call' = Waiters(FALSE, bound)
  BY DEF Rotated
<1>4. call' \in [Callers -> CallRec]
  BY <1>2, <1>3, WaitersTyped DEF Shape
<1>5. call'[Login].step = "idle" <=> call[Login].step = "idle"
  <2>1. CASE call' = Waiters(FALSE, flight[c].answer)
    BY <1>2, <2>1, WaitersLogin DEF Shape
  <2>2. CASE call' = Waiters(FALSE, bound)
    BY <1>2, <2>2, WaitersLogin DEF Shape
  <2> QED
    BY <1>3, <2>1, <2>2
<1>6. /\ stored' \in CredsRec /\ bound' \in Token
      /\ stored'.token = NoToken => stored' = NoCreds
      /\ bound' = bound \/ bound = flight[c].used
  BY <1>2, Constants DEF Shape, ThreadShape, Rotated, StillMine, CredsRec
<1>7. dead' \subseteq Tokens
  BY <1>2 DEF Shape, CoreOK, Rotated
<1>8. CoreOK'
  BY <1>1, <1>4, <1>6, <1>7 DEF Shape, Rotated, CoreOK, Crosses, server
<1>9. OthersOK'
  BY <1>2, <1>5, <1>6, Constants
  DEF Shape, Rotated, OthersOK, LoginShape, HookShape, ThreadShape
<1> QED
  BY <1>1, <1>8, <1>9 DEF Shape, FlightOK, OthersOK

LEMMA DeliveredShape ==
    ASSUME Shape, NEW c \in Callers, RefreshDelivered(c)
    PROVE  Shape'
<1>1. flight \in [Callers -> FlightRec] /\ flight[c].step = "sent"
  BY DEF Shape, CoreOK, RefreshDelivered
<1>2. flight[c].used \in Tokens /\ flight[c] \in FlightRec
  BY <1>1 DEF Shape, FlightShape
<1>3. /\ minted' \in Token /\ owner' \in [Tokens -> Accounts \cup {NoAccount}]
      /\ valid' \subseteq Tokens /\ dead' \subseteq Tokens
  <2>1. CASE UNCHANGED <<server, dead>>
    BY <2>1 DEF Shape, CoreOK, server
  <2>2. CASE /\ flight[c].used \in valid /\ Issue(owner[flight[c].used])
             /\ valid' = (valid \ {flight[c].used}) \cup {minted + 1}
             /\ UNCHANGED dead \/ dead' = dead \cup {flight[c].used}
    <3>1. owner[flight[c].used] \in Accounts \cup {NoAccount}
      BY <1>2 DEF Shape, CoreOK
    <3> QED
      BY <1>2, <2>2, <3>1, IssueTyped, Constants DEF Shape, CoreOK
  <2> QED
    BY <2>1, <2>2 DEF RefreshDelivered
<1>4. PICK n \in 0..MaxTokens + 2 :
         flight' = [flight EXCEPT ![c].step = "answered", ![c].answer = n]
  <2>1. minted + 1 \in 0..MaxTokens + 2
    BY Constants DEF Shape, CoreOK, Token
  <2> QED
    BY <2>1, Constants DEF RefreshDelivered
<1> DEFINE f == [flight[c] EXCEPT !.step = "answered", !.answer = n]
<1>5. flight' = [flight EXCEPT ![c] = f] /\ f \in FlightRec
  BY <1>1, <1>2, <1>4 DEF FlightRec
<1>6. f.step = "answered" /\ f.used = flight[c].used
  BY <1>2 DEF FlightRec
<1>7. FlightOK' /\ flight' \in [Callers -> FlightRec]
  BY <1>1, <1>2, <1>5, <1>6, FlightMoves DEF Shape, FlightOK
<1>8. CoreOK'
  BY <1>3, <1>7 DEF Shape, RefreshDelivered, CoreOK, CallRec, FlightRec, client
<1>9. OthersOK'
  BY DEF Shape, RefreshDelivered, OthersOK, LoginShape, HookShape, ThreadShape, client
<1> QED
  BY <1>7, <1>8, <1>9 DEF Shape, FlightOK, OthersOK

LEMMA ExchangedShape ==
    ASSUME Shape, NEW a \in Accounts, LoginExchanged(a)
    PROVE  Shape'
<1>1. call \in [Callers -> CallRec]
  BY DEF Shape, CoreOK
<1>2. /\ minted + 1 \in Tokens /\ minted' = minted + 1
      /\ owner' \in [Tokens -> Accounts \cup {NoAccount}]
  BY IssueTyped DEF Shape, LoginExchanged
<1>3. [Idle EXCEPT !.step = "sent", !.used = minted + 1] \in CallRec
  BY <1>2, Constants DEF Idle, CallRec
<1>4. call' \in [Callers -> CallRec] /\ call'[Login].step = "sent"
  BY <1>1, <1>3, Constants DEF LoginExchanged, Idle
<1>5. newLogin' = minted + 1 /\ bound' = minted + 1
  BY DEF LoginExchanged
<1>6. CoreOK'
  BY <1>2, <1>4, <1>5, Constants, ZenonT(60)
  DEF Shape, LoginExchanged, CoreOK, CallRec, FlightRec
<1>7. FlightOK'
  BY FlightKept DEF Shape, FlightOK, LoginExchanged
<1>8. newLogin' # NoToken
  BY <1>2, <1>5, Constants
<1>9. OthersOK'
  BY <1>4, <1>8
  DEF Shape, LoginExchanged, OthersOK, LoginShape, HookShape, ThreadShape
<1> QED
  BY <1>6, <1>7, <1>9 DEF Shape, FlightOK, OthersOK

LEMMA SavedShape ==
    ASSUME Shape, LoginSaved
    PROVE  Shape'
<1>1. newLogin \in Tokens
  BY Constants DEF Shape, LoginShape, CoreOK, LoginSaved
<1>2. stored' \in CredsRec /\ stored'.token = newLogin
  <2>1. call[Login].step # "failed" => call[Login].used \in Tokens
    BY Constants DEF Shape, CoreOK, LoginSaved, CallRec
  <2> QED
    BY <1>1, <2>1, Constants DEF Shape, CoreOK, LoginSaved, CredsRec
<1>3. call' \in [Callers -> CallRec] /\ call'[Login].step = "idle"
  BY Records, Constants DEF Shape, CoreOK, LoginSaved, Idle
<1>4. CoreOK'
  BY <1>1, <1>2, <1>3, Constants
  DEF Shape, LoginSaved, CoreOK, CallRec, CredsRec, server
<1>5. FlightOK'
  BY FlightKept DEF Shape, FlightOK, LoginSaved
<1>6. stored'.token # NoToken
  BY <1>1, <1>2, Constants
<1>7. OthersOK'
  BY <1>3, <1>6 DEF Shape, LoginSaved, OthersOK, LoginShape, HookShape, ThreadShape
<1> QED
  BY <1>4, <1>5, <1>7 DEF Shape, FlightOK, OthersOK

LEMMA ImportShape ==
    ASSUME Shape, NEW a \in Accounts, Import(a)
    PROVE  Shape'
<1>1. /\ minted + 1 \in Tokens /\ minted' = minted + 1
      /\ owner' \in [Tokens -> Accounts \cup {NoAccount}]
  BY IssueTyped DEF Shape, Import
<1>2. PICK id \in {a, NoAccount} :
        /\ stored' = [token |-> minted + 1, id |-> id]
        /\ thread' = [step |-> "import", creds |-> [token |-> minted + 1, id |-> id]]
  BY DEF Import
<1>3. stored' \in CredsRec
  BY <1>1, <1>2, Constants DEF CredsRec
<1>4. thread' \in [step : {"idle", "import", "disconnect"}, creds : CredsRec]
  BY <1>2, <1>3
<1>5. CoreOK'
  BY <1>1, <1>3, <1>4, Constants
  DEF Shape, Import, CoreOK, CallRec, FlightRec, CredsRec, client
<1>6. FlightOK'
  BY FlightKept DEF Shape, FlightOK, Import
<1>7. OthersOK'
  BY <1>1, <1>2, Constants
  DEF Shape, Import, OthersOK, LoginShape, HookShape, ThreadShape, client
<1> QED
  BY <1>5, <1>6, <1>7 DEF Shape, FlightOK, OthersOK

LEMMA DisconnectShape ==
    ASSUME Shape, Disconnect
    PROVE  Shape'
<1>1. CoreOK'
  BY Records DEF Shape, Disconnect, CoreOK, server, client, CredsRec
<1>2. FlightOK'
  BY FlightKept DEF Shape, FlightOK, Disconnect
<1>3. OthersOK'
  BY DEF Shape, Disconnect, OthersOK, LoginShape, HookShape, ThreadShape, client, NoCreds
<1> QED
  BY <1>1, <1>2, <1>3 DEF Shape, FlightOK, OthersOK

LEMMA ThreadEndsShape ==
    ASSUME Shape, ThreadEnds
    PROVE  Shape'
<1>1. CoreOK'
  BY Records DEF Shape, ThreadEnds, CoreOK, server, CredsRec
<1>2. FlightOK'
  BY FlightKept DEF Shape, FlightOK, ThreadEnds
<1>3. OthersOK'
  BY DEF Shape, ThreadEnds, OthersOK, LoginShape, HookShape, ThreadShape, NoThread
<1> QED
  BY <1>1, <1>2, <1>3 DEF Shape, FlightOK, OthersOK

LEMMA ServiceShape ==
    ASSUME Shape, NEW t \in Tokens, Revoke(t)
    PROVE  Shape'
<1>1. CoreOK'
  BY DEF Shape, Revoke, CoreOK, client
<1>2. FlightOK'
  BY FlightKept DEF Shape, FlightOK, Revoke
<1>3. OthersOK'
  BY DEF Shape, Revoke, OthersOK, LoginShape, HookShape, ThreadShape, client
<1> QED
  BY <1>1, <1>2, <1>3 DEF Shape, FlightOK, OthersOK

LEMMA ResolveStepsShape ==
    ASSUME Shape, ResolveStarts \/ ReadRefused \/ ResolveTimesOut
    PROVE  Shape'
<1>1. CoreOK'
  BY Constants, Records
  DEF Shape, CoreOK, ResolveStarts, ReadRefused, ResolveTimesOut, server, client
<1>2. FlightOK'
  BY FlightKept DEF Shape, FlightOK, ResolveStarts, ReadRefused, ResolveTimesOut
<1>3. OthersOK'
  BY Constants
  DEF Shape, CoreOK, ResolveStarts, ReadRefused, ResolveTimesOut, OthersOK, LoginShape,
      HookShape, ThreadShape, client
<1> QED
  BY <1>1, <1>2, <1>3 DEF Shape, FlightOK, OthersOK

LEMMA RebootShape ==
    ASSUME Shape, Reboot
    PROVE  Shape'
<1>1. dead' \subseteq Tokens
  <2>1. {flight[c].used : c \in {d \in Callers :
            flight[d].answer \in Tokens}} \subseteq Tokens
    BY Constants DEF Shape, FlightShape, NoFlight
  <2> QED
    BY <2>1 DEF Shape, CoreOK, Reboot
<1>2. /\ flight' \in [Callers -> FlightRec] /\ call' \in [Callers -> CallRec]
      /\ thread' \in [step : {"idle", "import", "disconnect"}, creds : CredsRec]
      /\ newLogin' \in Token
  BY Records, Constants DEF Reboot
<1>3. reboots' \in 0..MaxRestarts /\ bound' \in Token /\ authVersion' \in Nat
  BY Constants DEF Shape, CoreOK, Reboot, CredsRec
<1>4. CoreOK'
  BY <1>1, <1>2, <1>3
  DEF Shape, Reboot, CoreOK, CallRec, FlightRec, CredsRec, server
<1>5. FlightOK'
  BY DEF Reboot, FlightOK, FlightShape, OneFlight, NoFlight
<1>6. OthersOK'
  BY Constants
  DEF Shape, Reboot, OthersOK, LoginShape, HookShape, ThreadShape, Idle, NoThread
<1> QED
  BY <1>4, <1>5, <1>6 DEF Shape, FlightOK, OthersOK

LEMMA ShapeInitially == Init => Shape
<1> SUFFICES ASSUME Init PROVE Shape
  OBVIOUS
<1>1. CoreOK
  <2>1. /\ flight \in [Callers -> FlightRec] /\ call \in [Callers -> CallRec]
        /\ owner \in [Tokens -> Accounts \cup {NoAccount}] /\ stored \in CredsRec
        /\ thread \in [step : {"idle", "import", "disconnect"}, creds : CredsRec]
    BY Records DEF Init
  <2>2. /\ minted \in Token /\ bound \in Token /\ newLogin \in Token
        /\ reboots \in 0..MaxRestarts
    BY Constants DEF Init, Token, NoToken
  <2> QED
    BY <2>1, <2>2 DEF Init, CoreOK
<1>2. FlightOK
  BY DEF Init, FlightOK, FlightShape, OneFlight, NoFlight
<1>3. OthersOK
  BY Constants DEF Init, OthersOK, LoginShape, HookShape, ThreadShape, Idle, NoThread
<1> QED
  BY <1>1, <1>2, <1>3 DEF Shape, FlightOK, OthersOK

LEMMA ShapeInductive == Shape /\ [Next]_panVars => Shape'
<1> SUFFICES ASSUME Shape, [Next]_panVars PROVE Shape'
  OBVIOUS
<1>1. ASSUME NEW c \in Callers,
             CallStarts(c) \/ CallSucceeds(c) \/ CallUnauthorised(c) \/ CallFails(c)
      PROVE  Shape'
  BY <1>1, StartsShape, SucceedsShape, UnauthorisedShape, FailsShape
<1>2. ASSUME NEW c \in Callers,
             RefreshDelivered(c) \/ Rotated(c) \/ RefreshRejected(c) \/ RefreshLost(c)
      PROVE  Shape'
  BY <1>2, DeliveredShape, RotatedShape, RejectedShape, LostShape
<1>3. CASE Steps
  BY <1>1, <1>2, <1>3, ExchangedShape, ImportShape, SavedShape, DisconnectShape,
     ThreadEndsShape, ResolveStepsShape, ServiceShape, RebootShape DEF Steps
<1>4. CASE UNCHANGED panVars
  <2>1. FlightOK'
    BY <1>4, FlightKept DEF Shape, FlightOK, panVars
  <2>2. CoreOK' /\ OthersOK'
    BY <1>4 DEF Shape, CoreOK, OthersOK, LoginShape, HookShape, ThreadShape, panVars,
       server, client
  <2> QED
    BY <2>1, <2>2 DEF Shape, FlightOK, OthersOK
<1> QED
  BY <1>3, <1>4 DEF Next

-----------------------------------------------------------------------------
(* What the relay carries across its reads keeps its type.                 *)

RelayOK ==
    /\ resolve \in ResolveRec /\ links \subseteq LinkRec /\ strayed \in BOOLEAN
    /\ resolves \in 0..MaxResolves

LEMMA FailureTyped ==
    ASSUME RelayOK
    PROVE  AfterFailure \in ResolveRec /\ NoResolve \in ResolveRec
  BY DEF RelayOK, AfterFailure, NoResolve, ResolveRec

LEMMA ReadDoneTyped ==
    ASSUME Shape, RelayOK, CallSucceeds(Relay)
    PROVE  resolve' \in ResolveRec /\ links' \subseteq LinkRec
<1>1. call[Relay].used \in Tokens
  BY Constants DEF Shape, CoreOK, CallRec, CallSucceeds
<1>2. [id |-> Key.id, account |-> owner[call[Relay].used], strayed |-> strayed]
        \in LinkRec
  BY <1>1 DEF Shape, CoreOK, RelayOK, ResolveRec, LinkRec, Key
<1>3. [resolve EXCEPT !.part = "download"] \in ResolveRec
  BY DEF RelayOK, ResolveRec
<1> QED
  BY <1>2, <1>3, FailureTyped DEF CallSucceeds, ReadDone, RelayOK

(* How a step may move the resolve under way.                              *)
LEMMA RelayMoves ==
    ASSUME [Next]_panVars
    PROVE  \/ UNCHANGED <<resolve, links, resolves>>
           \/ /\ resolve' \in {resolve, AfterFailure, NoResolve}
              /\ UNCHANGED <<links, resolves>>
           \/ /\ resolve' = NoResolve /\ links' = {} /\ UNCHANGED resolves
           \/ ResolveStarts
           \/ CallSucceeds(Relay) /\ UNCHANGED resolves
<1>1. ASSUME NEW c \in Callers, CallSucceeds(c)
      PROVE  \/ UNCHANGED <<resolve, links, resolves>>
             \/ CallSucceeds(Relay) /\ UNCHANGED resolves
  BY <1>1 DEF CallSucceeds
<1>2. ASSUME NEW c \in Callers,
             \/ CallUnauthorised(c) \/ CallFails(c) \/ Rotated(c)
             \/ RefreshRejected(c) \/ RefreshLost(c)
      PROVE  /\ resolve' \in {resolve, AfterFailure, NoResolve}
             /\ UNCHANGED <<links, resolves>>
  BY <1>2 DEF CallUnauthorised, CallFails, Rotated, RefreshRejected, RefreshLost,
     ReadEnds
<1>3. ReadRefused \/ ResolveTimesOut =>
        /\ resolve' \in {resolve, AfterFailure, NoResolve}
        /\ UNCHANGED <<links, resolves>>
  BY DEF ReadRefused, ResolveTimesOut
<1>4. Reboot => resolve' = NoResolve /\ links' = {} /\ UNCHANGED resolves
  BY DEF Reboot
<1>5. ASSUME NEW c \in Callers, CallStarts(c) \/ RefreshDelivered(c)
      PROVE  UNCHANGED <<resolve, links, resolves>>
  BY <1>5 DEF CallStarts, RefreshDelivered, relayVars
<1>6. ASSUME NEW a \in Accounts, LoginExchanged(a) \/ Import(a)
      PROVE  UNCHANGED <<resolve, links, resolves>>
  BY <1>6 DEF LoginExchanged, Import, relayVars
<1>7. ASSUME NEW t \in Tokens, Revoke(t)
      PROVE  UNCHANGED <<resolve, links, resolves>>
  BY <1>7 DEF Revoke, relayVars
<1>8. LoginSaved \/ Disconnect \/ ThreadEnds \/ UNCHANGED panVars =>
        UNCHANGED <<resolve, links, resolves>>
  BY DEF LoginSaved, Disconnect, ThreadEnds, panVars, relayVars
<1> QED
  BY <1>1, <1>2, <1>3, <1>4, <1>5, <1>6, <1>7, <1>8 DEF Next, Steps

LEMMA RelayTyped ==
    ASSUME Shape, RelayOK, [Next]_panVars
    PROVE  RelayOK'
<1>1. strayed' \in BOOLEAN
  BY DEF Next, Strays, RelayOK, panVars
<1>2. CASE ResolveStarts
  <2>1. resolve' \in ResolveRec
    BY <1>2 DEF ResolveStarts, Fingerprint, ResolveRec, Shape, CoreOK, CredsRec
  <2>2. resolves' \in 0..MaxResolves /\ UNCHANGED links
    BY <1>2, PanAssumption DEF ResolveStarts, RelayOK, PanAssumption
  <2> QED
    BY <1>1, <2>1, <2>2 DEF RelayOK
<1>3. CASE CallSucceeds(Relay) /\ UNCHANGED resolves
  BY <1>1, <1>3, ReadDoneTyped DEF RelayOK
<1>4. CASE /\ resolve' \in {resolve, AfterFailure, NoResolve}
           /\ UNCHANGED <<links, resolves>>
  BY <1>1, <1>4, FailureTyped DEF RelayOK
<1>5. CASE resolve' = NoResolve /\ links' = {} /\ UNCHANGED resolves
  BY <1>1, <1>5, FailureTyped DEF RelayOK
<1> QED
  BY <1>2, <1>3, <1>4, <1>5, RelayMoves

Typed == Shape /\ RelayOK
LEMMA TypedInductive == Typed /\ [Next]_panVars => Typed'
  BY ShapeInductive, RelayTyped DEF Typed
LEMMA TypedInitially == Init => Typed
<1> SUFFICES ASSUME Init PROVE Typed
  OBVIOUS
<1>1. NoResolve \in ResolveRec /\ 0 \in 0..MaxResolves
  BY PanAssumption DEF PanAssumption, NoResolve, ResolveRec
<1> QED
  BY <1>1, ShapeInitially DEF Init, Typed, RelayOK

LEMMA TypedTypeOK == Typed => TypeOK
  BY DEF Typed, Shape, CoreOK, RelayOK, TypeOK, CallRec, FlightRec, CredsRec, LinkRec,
     ResolveRec

(* Logins, refreshes, imports, disconnects, reads of the relay and         *)
(* restarts keep the types of the tokens, the credentials, the calls and   *)
(* the links, however they interleave.                                     *)
THEOREM TypeCorrect == Spec => []TypeOK
  BY TypedInitially, TypedInductive, TypedTypeOK, PTL DEF Spec

-----------------------------------------------------------------------------
(* While nothing crosses an import or disconnect, the client and the       *)
(* stored login move together, outside a QR login.                         *)

HalfDone == thread.step # "idle" /\ ~crossed => stored = thread.creds
InStep ==
    thread.step = "idle" /\ ~crossed /\ (hooked \/ newLogin = NoToken)
    => bound = stored.token
LogoutShape == loggedOut => newLogin = NoToken
Sync == HalfDone /\ InStep /\ LogoutShape /\ DisconnectSticks

session == <<bound, hooked, stored, newLogin, thread, loggedOut, crossed>>
LEMMA SyncKept ==
    ASSUME Sync, UNCHANGED session
    PROVE  Sync'
  BY DEF Sync, HalfDone, InStep, LogoutShape, DisconnectSticks, session

(* The steps that touch neither the client nor the stored login.           *)
Aside(c) ==
    \/ CallStarts(c) \/ CallSucceeds(c) \/ CallUnauthorised(c) \/ CallFails(c)
    \/ RefreshDelivered(c) \/ RefreshLost(c)
RelayAside == ResolveStarts \/ ReadRefused \/ ResolveTimesOut
LEMMA AsideKeepsSession ==
    ASSUME NEW c \in Callers, Aside(c)
    PROVE  UNCHANGED session
  BY DEF Aside, session, CallStarts, CallSucceeds, CallUnauthorised, CallFails,
     RefreshDelivered, RefreshLost, client
LEMMA RelayAsideKeepsSession ==
    ASSUME RelayAside
    PROVE  UNCHANGED session
  BY DEF RelayAside, session, ResolveStarts, ReadRefused, ResolveTimesOut, client

LEMMA RotatedInSync ==
    ASSUME Shape, Sync, NEW c \in Callers, Rotated(c)
    PROVE  Sync'
<1>1. flight[c].used \in Tokens /\ flight[c].used # NoToken /\ stored \in CredsRec
  BY Constants DEF Rotated, Shape, CoreOK, FlightShape
<1>2. CASE StillMine(c)
  <2>1. ~loggedOut /\ UNCHANGED <<hooked, newLogin, thread, loggedOut>>
    BY <1>1, <1>2 DEF Rotated, StillMine, Sync, DisconnectSticks
  <2>2. bound # NoToken /\ (newLogin = NoToken => hooked)
    BY <1>1, <1>2 DEF StillMine, Shape, HookShape
  <2>3. hooked => bound' = stored'.token
    BY <1>1, <1>2 DEF Rotated, CredsRec
  <2>4. thread.step # "idle" /\ ~crossed' => stored' = stored
    BY DEF Rotated, Crosses
  <2>5. ~crossed' => ~crossed
    BY DEF Rotated, Crosses
  <2> QED
    BY <2>1, <2>2, <2>3, <2>4, <2>5
    DEF Sync, HalfDone, InStep, LogoutShape, DisconnectSticks
<1>3. CASE ~StillMine(c)
  BY <1>3 DEF Rotated, Crosses, Sync, HalfDone, InStep, LogoutShape, DisconnectSticks
<1> QED
  BY <1>2, <1>3

LEMMA RejectedInSync ==
    ASSUME Shape, Sync, NEW c \in Callers, RefreshRejected(c)
    PROVE  Sync'
<1>1. flight[c].used # NoToken
  BY Constants DEF RefreshRejected, Shape, FlightShape
<1>2. UNCHANGED <<hooked, newLogin, thread, loggedOut>>
  BY DEF RefreshRejected
<1>3. ~crossed' => ~crossed /\ (thread.step # "idle" => stored' = stored)
  BY DEF RefreshRejected, Crosses
<1>4. bound = stored.token => bound' = stored'.token
  <2>1. stored.token = NoToken => stored = NoCreds
    BY DEF Shape, ThreadShape
  <2> QED
    BY <1>1, <2>1 DEF RefreshRejected, StillMine, Clears, NoCreds
<1>5. loggedOut => bound' = NoToken /\ stored'.token = NoToken
  BY DEF Sync, DisconnectSticks, RefreshRejected, NoCreds
<1> QED
  BY <1>2, <1>3, <1>4, <1>5
  DEF Sync, HalfDone, InStep, LogoutShape, DisconnectSticks

LEMMA ThreadEndsInSync ==
    ASSUME Shape, Sync, ThreadEnds
    PROVE  Sync'
<1>1. /\ thread.step # "idle" /\ thread'.step = "idle"
      /\ bound' = thread.creds.token /\ UNCHANGED <<stored, newLogin, crossed>>
  BY DEF ThreadEnds, NoThread
<1>2. loggedOut' => thread.step = "disconnect" /\ newLogin = NoToken /\ ~crossed
  BY DEF ThreadEnds
<1>3. HalfDone' /\ InStep'
  BY <1>1 DEF Sync, HalfDone, InStep
<1>4. LogoutShape' /\ DisconnectSticks'
  BY <1>1, <1>2 DEF Sync, HalfDone, Shape, ThreadShape, NoCreds, LogoutShape,
     DisconnectSticks
<1> QED
  BY <1>3, <1>4 DEF Sync

LEMMA SyncInductive ==
    ASSUME Shape, Sync, [Next]_panVars
    PROVE  Sync'
<1>1. ASSUME NEW c \in Callers, Aside(c)
      PROVE  Sync'
  BY <1>1, AsideKeepsSession, SyncKept
<1>2. CASE RelayAside
  BY <1>2, RelayAsideKeepsSession, SyncKept
<1>3. ASSUME NEW a \in Accounts, LoginExchanged(a)
      PROVE  Sync'
  <2>1. newLogin' # NoToken
    BY <1>3, IssueTyped, Constants DEF LoginExchanged, Shape
  <2> QED
    BY <1>3, <2>1
    DEF LoginExchanged, Sync, HalfDone, InStep, LogoutShape, DisconnectSticks
<1>4. ASSUME NEW a \in Accounts, Import(a)
      PROVE  Sync'
  BY <1>4 DEF Import, client, Sync, HalfDone, InStep, LogoutShape, DisconnectSticks
<1>5. CASE LoginSaved
  BY <1>5
  DEF LoginSaved, Shape, LoginShape, Sync, HalfDone, InStep, LogoutShape,
      DisconnectSticks
<1>6. CASE Disconnect
  BY <1>6
  DEF Disconnect, client, Sync, HalfDone, InStep, LogoutShape, DisconnectSticks, NoCreds
<1>7. ASSUME NEW t \in Tokens, Revoke(t)
      PROVE  Sync'
  BY <1>7, SyncKept DEF Revoke, client, session
<1>8. CASE Reboot
  BY <1>8
  DEF Reboot, NoThread, Sync, HalfDone, InStep, LogoutShape, DisconnectSticks
<1>9. CASE UNCHANGED panVars
  BY <1>9, SyncKept DEF panVars, client, session
<1> QED
  BY <1>1, <1>2, <1>3, <1>4, <1>5, <1>6, <1>7, <1>8, <1>9, RotatedInSync,
     RejectedInSync, ThreadEndsInSync DEF Next, Steps, Aside, RelayAside

LEMMA SyncInitially == Init => Sync
  BY DEF Init, Sync, HalfDone, InStep, LogoutShape, DisconnectSticks, NoCreds, NoThread

LEMMA SyncAlways == Spec => [](Shape /\ Sync)
<1>1. Shape /\ Sync /\ [Next]_panVars => (Shape /\ Sync)'
  BY ShapeInductive, SyncInductive
<1> QED
  BY <1>1, ShapeInitially, SyncInitially, PTL DEF Spec

(* Once disconnected, no answer still on its way brings the login back.    *)
THEOREM DisconnectIsFinal == Spec => []DisconnectSticks
<1>1. Sync => DisconnectSticks
  BY DEF Sync
<1> QED
  BY <1>1, SyncAlways, PTL

(* The answer to a refresh changes the stored login only if that is the    *)
(* one it was for, so that a newer login or import survives a late answer. *)
LEMMA AnswersRespectNewer ==
    ASSUME Shape, Sync, [Next]_panVars, NEW c \in Callers,
           flight[c].step = "answered", flight'[c].step = "idle", stored' # stored
    PROVE  stored.token = flight[c].used \/ crossed' \/ reboots' # reboots
<1>1. flight' # flight /\ flight \in [Callers -> FlightRec]
  BY DEF Shape, CoreOK
<1>2. CASE Reboot
  BY <1>2 DEF Reboot
<1>3. ASSUME NEW d \in Callers, Rotated(d) \/ RefreshRejected(d)
      PROVE  stored.token = flight[c].used \/ crossed'
  <2>1. flight' = [flight EXCEPT ![d] = NoFlight]
    BY <1>3 DEF Rotated, RefreshRejected
  <2>2. d = c
    BY <1>1, <2>1
  <2>3. CASE Rotated(c)
    <3>1. StillMine(c) /\ hooked
      BY <2>3 DEF Rotated
    <3>2. ~crossed' => thread.step = "idle" /\ ~crossed
      BY <2>3 DEF Rotated, Crosses
    <3> QED
      BY <3>1, <3>2 DEF Sync, InStep, StillMine
  <2>4. CASE RefreshRejected(c)
    <3>1. Clears(c) /\ stored' = NoCreds
      BY <2>4 DEF RefreshRejected
    <3>2. stored.token # NoToken
      BY <3>1 DEF Shape, ThreadShape
    <3> QED
      BY <3>1, <3>2 DEF Clears
  <2> QED
    BY <1>3, <2>2, <2>3, <2>4
<1>4. ASSUME NEW d \in Callers, Aside(d)
      PROVE  FALSE
  BY <1>4, AsideKeepsSession DEF session
<1>5. ~RelayAside
  BY RelayAsideKeepsSession DEF session
<1>6. /\ \A a \in Accounts : ~LoginExchanged(a) /\ ~Import(a)
      /\ ~LoginSaved /\ ~Disconnect /\ ~ThreadEnds /\ ~UNCHANGED panVars
      /\ \A t \in Tokens : ~Revoke(t)
  BY <1>1 DEF LoginExchanged, Import, LoginSaved, Disconnect, ThreadEnds, Revoke, panVars
<1> QED
  BY <1>2, <1>3, <1>4, <1>5, <1>6 DEF Next, Steps, Aside, RelayAside

(* The answer to a refresh, good or bad, touches the stored login only if  *)
(* that is the login it was for, or the answer comes while an import or    *)
(* disconnect is half done.                                                *)
THEOREM NewerLoginIsKept == Spec => NewerLoginWins
<1>1. Shape /\ Sync /\ [Next]_panVars =>
        [\A c \in Callers :
         flight[c].step = "answered" /\ flight'[c].step = "idle" /\ stored' # stored
         => stored.token = flight[c].used \/ crossed' \/ reboots' # reboots]_panVars
  BY AnswersRespectNewer
<1> QED
  BY <1>1, SyncAlways, PTL DEF Spec, NewerLoginWins

-----------------------------------------------------------------------------
(* What the client, the file, a QR login and a thread hold is good at the  *)
(* service, excused, or being rotated by the one refresh in flight.        *)

Kept(t) ==
    \/ t \in valid \/ t \in dead
    \/ \E c \in Callers : flight[c].answer \in Tokens /\ flight[c].used = t
Held == {bound, stored.token, newLogin, thread.creds.token}
HeldKept == \A t \in Held : t = NoToken \/ Kept(t)
Usable(f) ==
    /\ f.step = "sent" => f.used \in valid \cup dead
    /\ f.answer \in Tokens => f.answer \in valid \cup dead
    /\ f.answer \in {Rejected, Lost} => f.used \in dead
FlightsUsable == \A c \in Callers : Usable(flight[c])
Keep == HeldKept /\ FlightsUsable

(* While one refresh is in flight, the others are idle.                    *)
LEMMA OthersIdle ==
    ASSUME Shape, NEW c \in Callers, flight[c].step # "idle", NEW d \in Callers, d # c
    PROVE  flight[d] = NoFlight /\ flight[d].answer \notin Tokens
  BY Constants DEF Shape, OneFlight, FlightShape, NoFlight

LEMMA NoFlightUsable == Usable(NoFlight)
  BY Constants DEF Usable, NoFlight

(* What 115 does to a refresh that reaches it.                             *)
LEMMA Delivery ==
    ASSUME Shape, FlightsUsable, NEW c \in Callers, RefreshDelivered(c)
    PROVE  /\ flight[c].step = "sent" /\ flight'[c].used = flight[c].used
           /\ flight'[c].step = "answered"
           /\ valid \ {flight[c].used} \subseteq valid' /\ dead \subseteq dead'
           /\ \/ flight'[c].answer \in Tokens /\ flight'[c].answer \in valid'
              \/ flight'[c].answer \in {Lost, Rejected} /\ flight[c].used \in dead'
<1>1. /\ flight \in [Callers -> FlightRec] /\ flight[c] \in FlightRec
      /\ flight[c].step = "sent"
  BY DEF Shape, CoreOK, RefreshDelivered
<1>2. PICK n \in 0..MaxTokens + 2 :
        /\ flight' = [flight EXCEPT ![c].step = "answered", ![c].answer = n]
        /\ \/ /\ n = minted + 1 /\ minted + 1 \in Tokens /\ UNCHANGED dead
              /\ valid' = (valid \ {flight[c].used}) \cup {minted + 1}
           \/ /\ n = Lost /\ dead' = dead \cup {flight[c].used}
              /\ valid' = (valid \ {flight[c].used}) \cup {minted + 1}
           \/ /\ n = Rejected /\ flight[c].used \notin valid
              /\ UNCHANGED <<server, dead>>
  <2>1. CASE flight[c].used \in valid /\ Issue(owner[flight[c].used])
    <3>1. owner[flight[c].used] \in Accounts \cup {NoAccount}
      BY <2>1 DEF Shape, CoreOK
    <3>2. minted + 1 \in Tokens
      BY <2>1, <3>1, IssueTyped DEF Shape
    <3> QED
      BY <2>1, <3>2, Constants DEF RefreshDelivered
  <2>2. CASE flight[c].used \notin valid
    BY <2>2, Constants DEF RefreshDelivered
  <2> QED
    BY <2>1, <2>2 DEF RefreshDelivered
<1>3. /\ flight'[c].used = flight[c].used /\ flight'[c].answer = n
      /\ flight'[c].step = "answered"
  BY <1>1, <1>2 DEF FlightRec
<1>4. n = Rejected => flight[c].used \in dead
  BY <1>1, <1>2, Constants DEF FlightsUsable, Usable
<1> QED
  BY <1>1, <1>2, <1>3, <1>4 DEF server

(* A token in use leaves what is good only by being rotated.               *)
LEMMA KeptGoesOn ==
    ASSUME Shape, FlightsUsable, [Next]_panVars, NEW t, Kept(t),
           \A c \in Callers : Rotated(c) => t # flight[c].used
    PROVE  Kept(t)'
<1>1. CASE /\ UNCHANGED flight /\ valid \subseteq valid' \cup dead'
           /\ dead \subseteq dead'
  BY <1>1 DEF Kept
<1>2. ASSUME NEW c \in Callers, CallUnauthorised(c)
      PROVE  Kept(t)'
  <2>1. UNCHANGED <<valid, dead>>
    BY <1>2 DEF CallUnauthorised, server
  <2>2. CASE UNCHANGED flight
    BY <1>1, <2>1, <2>2
  <2>3. CASE Busy = {}
    <3>1. \A d \in Callers : flight[d].answer \notin Tokens
      BY <2>3, Constants DEF Busy, Shape, FlightShape, NoFlight
    <3> QED
      BY <2>1, <3>1 DEF Kept
  <2> QED
    BY <1>2, <2>2, <2>3, UnauthorisedFate DEF Shape
<1>3. ASSUME NEW c \in Callers, RefreshDelivered(c)
      PROVE  Kept(t)'
  <2>1. \A d \in Callers : flight[d].answer \notin Tokens
    BY <1>3, Delivery, OthersIdle, Constants DEF Shape, FlightShape
  <2> QED
    BY <1>3, <2>1, Delivery DEF Kept
<1>4. ASSUME NEW c \in Callers, Rotated(c) \/ RefreshRejected(c) \/ RefreshLost(c)
      PROVE  Kept(t)'
  <2>1. /\ flight' = [flight EXCEPT ![c] = NoFlight]
        /\ valid' = valid /\ dead \subseteq dead'
    BY <1>4 DEF Rotated, RefreshRejected, RefreshLost, server
  <2>2. \A d \in Callers : d # c => flight'[d] = flight[d]
    BY <2>1 DEF Shape, CoreOK
  <2>3. flight[c].answer \notin Tokens \/ t # flight[c].used
    BY <1>4, Constants DEF RefreshRejected, RefreshLost
  <2> QED
    BY <2>1, <2>2, <2>3 DEF Kept
<1>5. CASE Reboot
  BY <1>5 DEF Reboot, Kept, server
<1>6. ASSUME NEW t0 \in Tokens, Revoke(t0)
      PROVE  Kept(t)'
  BY <1>1, <1>6 DEF Revoke
<1>7. ASSUME NEW a \in Accounts, LoginExchanged(a) \/ Import(a)
      PROVE  Kept(t)'
  BY <1>1, <1>7 DEF LoginExchanged, Import
<1>8. ASSUME NEW c \in Callers, CallStarts(c) \/ CallSucceeds(c) \/ CallFails(c)
      PROVE  Kept(t)'
  BY <1>1, <1>8 DEF CallStarts, CallSucceeds, CallFails, server
<1>9. RelayAside \/ LoginSaved \/ Disconnect \/ ThreadEnds \/ UNCHANGED panVars =>
        Kept(t)'
  BY <1>1 DEF RelayAside, ResolveStarts, ReadRefused, ResolveTimesOut, LoginSaved,
     Disconnect, ThreadEnds, panVars, server
<1> QED
  BY <1>2, <1>3, <1>4, <1>5, <1>6, <1>7, <1>8, <1>9 DEF Next, Steps, RelayAside

LEMMA RotatedKeepsHeld ==
    ASSUME Shape, Sync, Keep, NEW c \in Callers, Rotated(c)
    PROVE  HeldKept'
<1>1. PICK new \in Tokens, used \in Tokens :
        /\ flight[c].answer = new /\ flight[c].used = used
        /\ used # NoToken /\ new \in valid \cup dead
  BY Constants
  DEF Rotated, Shape, CoreOK, FlightShape, Keep, FlightsUsable, Usable
<1>2. /\ stored \in CredsRec /\ UNCHANGED <<newLogin, thread, valid>>
      /\ dead \subseteq dead'
  BY DEF Rotated, Shape, CoreOK, server
<1>3. Kept(new)'
  BY <1>1, <1>2 DEF Kept
<1>4. \/ bound' = new /\ stored'.token \in {new, stored.token}
      \/ bound' = bound /\ stored' = stored
  BY <1>1, <1>2 DEF Rotated, CredsRec
<1>5. ASSUME NEW t, Kept(t), t # used
      PROVE  Kept(t)'
  <2>1. flight' = [flight EXCEPT ![c] = NoFlight]
    BY DEF Rotated
  <2>2. \A d \in Callers : d # c => flight'[d] = flight[d]
    BY <2>1 DEF Shape, CoreOK
  <2> QED
    BY <1>1, <1>2, <1>5, <2>2 DEF Kept
<1>6. CASE OutOfStep
  <2>1. Kept(used)'
    BY <1>1, <1>6 DEF Rotated, Kept
  <2>2. \A t \in Held' : t = new \/ t \in Held
    BY <1>2, <1>4 DEF Held
  <2> QED
    BY <1>3, <1>5, <2>1, <2>2 DEF Keep, HeldKept
<1>7. CASE ~OutOfStep
  <2>1. /\ newLogin = NoToken /\ thread.creds.token = NoToken
        /\ bound = stored.token
    BY <1>7 DEF OutOfStep, Sync, InStep, Shape, ThreadShape, NoCreds
  <2>2. \A t \in Held' : t = NoToken \/ t = new \/ (t \in Held /\ t # used)
    <3>1. CASE StillMine(c)
      <4>1. hooked
        BY <1>1, <2>1, <3>1 DEF StillMine, Shape, HookShape
      <4>2. bound' = new /\ stored'.token = new
        BY <1>1, <1>2, <3>1, <4>1 DEF Rotated, CredsRec
      <4> QED
        BY <1>2, <2>1, <4>2 DEF Held
    <3>2. CASE ~StillMine(c)
      <4>1. bound' = bound /\ stored' = stored /\ bound # used
        BY <1>1, <3>2 DEF Rotated, StillMine
      <4> QED
        BY <1>2, <2>1, <4>1 DEF Held
    <3> QED
      BY <3>1, <3>2
  <2> QED
    BY <1>3, <1>5, <2>2 DEF Keep, HeldKept
<1> QED
  BY <1>6, <1>7

(* A step puts nothing in the hands of the session but what is there, or   *)
(* a token 115 has just issued.                                            *)
LEMMA HeldMoves ==
    ASSUME Shape, [Next]_panVars, \A c \in Callers : ~Rotated(c), NEW t \in Held'
    PROVE  t = NoToken \/ t \in Held \/ t \in valid'
<1>1. CASE UNCHANGED <<bound, stored, newLogin, thread>>
  BY <1>1 DEF Held
<1>2. ASSUME NEW c \in Callers, Aside(c)
      PROVE  UNCHANGED <<bound, stored, newLogin, thread>>
  BY <1>2, AsideKeepsSession DEF session
<1>3. RelayAside => UNCHANGED <<bound, stored, newLogin, thread>>
  BY RelayAsideKeepsSession DEF session
<1>4. ASSUME NEW c \in Callers, RefreshRejected(c)
      PROVE  t = NoToken \/ t \in Held
  BY <1>4 DEF RefreshRejected, Held, NoCreds
<1>5. ASSUME NEW a \in Accounts, LoginExchanged(a)
      PROVE  t \in Held \/ t \in valid'
  BY <1>5 DEF LoginExchanged, Held
<1>6. ASSUME NEW a \in Accounts, Import(a)
      PROVE  t \in Held \/ t \in valid'
  BY <1>6 DEF Import, Held, client
<1>7. LoginSaved => t = NoToken \/ t \in Held
  BY DEF LoginSaved, Held
<1>8. Disconnect \/ ThreadEnds \/ Reboot => t = NoToken \/ t \in Held
  BY DEF Disconnect, ThreadEnds, Reboot, Held, NoCreds, NoThread, client
<1>9. ASSUME NEW t0 \in Tokens, Revoke(t0)
      PROVE  UNCHANGED <<bound, stored, newLogin, thread>>
  BY <1>9 DEF Revoke, client
<1>10. UNCHANGED panVars => UNCHANGED <<bound, stored, newLogin, thread>>
  BY DEF panVars, client
<1> QED
  BY <1>1, <1>2, <1>3, <1>4, <1>5, <1>6, <1>7, <1>8, <1>9, <1>10
  DEF Next, Steps, Aside, RelayAside

LEMMA HeldStaysKept ==
    ASSUME Shape, Sync, Keep, [Next]_panVars
    PROVE  HeldKept'
<1>1. CASE \E c \in Callers : Rotated(c)
  BY <1>1, RotatedKeepsHeld
<1>2. CASE \A c \in Callers : ~Rotated(c)
  <2> SUFFICES ASSUME NEW t \in Held', t # NoToken PROVE Kept(t)'
    BY DEF HeldKept
  <2>1. CASE t \in Held
    <3>1. Kept(t)
      BY <2>1 DEF Keep, HeldKept
    <3> QED
      BY <1>2, <3>1, KeptGoesOn DEF Keep
  <2>2. CASE t \in valid'
    BY <2>2 DEF Kept
  <2> QED
    BY <1>2, <2>1, <2>2, HeldMoves
<1> QED
  BY <1>1, <1>2

LEMMA FlightsStayUsable ==
    ASSUME Shape, Keep, [Next]_panVars
    PROVE  FlightsUsable'
<1>1. CASE /\ UNCHANGED flight /\ valid \subseteq valid' \cup dead'
           /\ dead \subseteq dead'
  BY <1>1 DEF Keep, FlightsUsable, Usable
<1>2. ASSUME NEW c \in Callers, CallUnauthorised(c)
      PROVE  FlightsUsable'
  <2>1. UNCHANGED <<valid, dead>>
    BY <1>2 DEF CallUnauthorised, server
  <2>2. CASE UNCHANGED flight
    BY <1>1, <2>1, <2>2
  <2>3. CASE /\ flight' = [flight EXCEPT ![c] = FlightStarted(c)]
             /\ Busy = {} /\ bound # NoToken
    <3>1. \A d \in Callers : flight[d].answer \notin Tokens
      BY <2>3, Constants DEF Busy, Shape, FlightShape, NoFlight
    <3>2. bound \in valid \cup dead
      BY <2>3, <3>1 DEF Keep, HeldKept, Held, Kept
    <3>3. \A d \in Callers :
            flight'[d] = IF d = c THEN FlightStarted(c) ELSE flight[d]
      BY <2>3 DEF Shape, CoreOK
    <3>4. ASSUME NEW d \in Callers, d # c
          PROVE  Usable(flight[d])'
      BY <2>1, <3>3, <3>4 DEF Keep, FlightsUsable, Usable
    <3>5. Usable(flight[c])'
      BY <2>1, <3>2, <3>3, Constants DEF Usable, FlightStarted
    <3> QED
      BY <3>4, <3>5 DEF FlightsUsable
  <2> QED
    BY <1>2, <2>2, <2>3, UnauthorisedFate DEF Shape
<1>3. ASSUME NEW c \in Callers, RefreshDelivered(c)
      PROVE  FlightsUsable'
  <2>1. \A d \in Callers : d # c => flight'[d] = NoFlight
    BY <1>3, Delivery, OthersIdle DEF Keep, RefreshDelivered, Shape, CoreOK
  <2>2. Usable(flight[c])'
    BY <1>3, Delivery, Constants DEF Keep, Usable
  <2>3. ASSUME NEW d \in Callers, d # c
        PROVE  Usable(flight[d])'
    BY <2>1, <2>3, Constants DEF Usable, NoFlight
  <2> QED
    BY <2>2, <2>3 DEF FlightsUsable
<1>4. ASSUME NEW c \in Callers, Rotated(c) \/ RefreshRejected(c) \/ RefreshLost(c)
      PROVE  FlightsUsable'
  <2>1. /\ flight' = [flight EXCEPT ![c] = NoFlight]
        /\ valid' = valid /\ dead \subseteq dead'
    BY <1>4 DEF Rotated, RefreshRejected, RefreshLost, server
  <2>2. \A d \in Callers : flight'[d] \in {flight[d], NoFlight}
    BY <2>1 DEF Shape, CoreOK
  <2> QED
    BY <2>1, <2>2, Constants DEF Keep, FlightsUsable, Usable, NoFlight
<1>5. CASE Reboot
  BY <1>5, Constants DEF Reboot, FlightsUsable, Usable, NoFlight
<1>6. ASSUME NEW t0 \in Tokens, Revoke(t0)
      PROVE  FlightsUsable'
  BY <1>1, <1>6 DEF Revoke
<1>7. ASSUME NEW a \in Accounts, LoginExchanged(a) \/ Import(a)
      PROVE  FlightsUsable'
  BY <1>1, <1>7 DEF LoginExchanged, Import
<1>8. ASSUME NEW c \in Callers, CallStarts(c) \/ CallSucceeds(c) \/ CallFails(c)
      PROVE  FlightsUsable'
  BY <1>1, <1>8 DEF CallStarts, CallSucceeds, CallFails, server
<1>9. RelayAside \/ LoginSaved \/ Disconnect \/ ThreadEnds \/ UNCHANGED panVars =>
        FlightsUsable'
  BY <1>1 DEF RelayAside, ResolveStarts, ReadRefused, ResolveTimesOut, LoginSaved,
     Disconnect, ThreadEnds, panVars, server
<1> QED
  BY <1>2, <1>3, <1>4, <1>5, <1>6, <1>7, <1>8, <1>9 DEF Next, Steps, RelayAside

Standing == Shape /\ Sync /\ Keep
LEMMA StandingInductive == Standing /\ [Next]_panVars => Standing'
  BY ShapeInductive, SyncInductive, HeldStaysKept, FlightsStayUsable
  DEF Standing, Keep
LEMMA StandingInitially == Init => Standing
<1> SUFFICES ASSUME Init PROVE Standing
  OBVIOUS
<1>1. Keep
  BY Constants
  DEF Init, Keep, HeldKept, Held, FlightsUsable, Usable, NoFlight, NoCreds, NoThread
<1> QED
  BY <1>1, ShapeInitially, SyncInitially DEF Standing
LEMMA StandingAlways == Spec => []Standing
  BY StandingInitially, StandingInductive, PTL DEF Spec

(* A refresh is rejected only for a login 115 ended, or one whose          *)
(* rotation was lost or came while the session was out of step, never      *)
(* because two callers sent one rotating token.                            *)
THEOREM RefreshesAreSingle == Spec => []NotSelfRejected
<1>1. Standing => NotSelfRejected
  BY DEF Standing, Keep, FlightsUsable, Usable, NotSelfRejected
<1> QED
  BY <1>1, StandingAlways, PTL

(* The stored login is one 115 accepts, or one whose rotation is on its    *)
(* way, or was lost, or came while the session was out of step, or one     *)
(* 115 ended itself.                                                       *)
THEOREM LoginIsKept == Spec => []LoginKept
<1>1. Standing => LoginKept
  BY DEF Standing, Keep, HeldKept, Held, Kept, LoginKept
<1> QED
  BY <1>1, StandingAlways, PTL

-----------------------------------------------------------------------------
(* How a call may move in one step.                                        *)

Steady ==
    /\ thread' = thread /\ newLogin' = newLogin
    /\ thread.step = "idle" => crossed' = crossed
Again(c) == [call[c] EXCEPT !.step = "again", !.used = bound']
(* A call goes on with the token the client has after the step.            *)
GoesOn(c) ==
    call[c].step # "idle" /\ call'[c] = Again(c) /\ bound' # NoToken /\ Steady
CallMoves(c) ==
    \/ call'[c] \in {call[c], Idle, EndOf(c)}
    \/ call[c].step # "idle" /\ call'[c] = Joined(c)
    \/ c = Login /\ call'[c].used = bound'
    \/ CallStarts(c)
    \/ GoesOn(c)

(* One caller's call is replaced; the others stay.                         *)
LEMMA OneCallMoves ==
    ASSUME Shape, NEW c \in Callers, NEW d \in Callers, NEW r,
           call' = [call EXCEPT ![d] = r]
    PROVE  call'[c] = IF c = d THEN r ELSE call[c]
  BY DEF Shape, CoreOK

LEMMA UnauthorisedMoves ==
    ASSUME Shape, NEW c \in Callers, NEW d \in Callers, CallUnauthorised(d)
    PROVE  CallMoves(c)
<1>1. CASE c # d
  <2>1. \E r : call' = [call EXCEPT ![d] = r]
    BY UnauthorisedFate DEF Shape
  <2> QED
    BY <1>1, <2>1, OneCallMoves DEF CallMoves
<1>2. CASE c = d
  <2>1. /\ bound' = bound /\ Steady /\ call[c].step # "idle"
    BY <1>2 DEF CallUnauthorised, client, Steady
  <2>2. CASE call' = [call EXCEPT ![c] = Retried(c)] /\ bound # NoToken
    <3>1. call'[c] = Again(c)
      BY <2>1, <2>2, OneCallMoves DEF Retried, Again
    <3> QED
      BY <2>1, <2>2, <3>1 DEF CallMoves, GoesOn
  <2>3. CASE call' = [call EXCEPT ![c] = Joined(c)]
    BY <2>1, <2>3, OneCallMoves DEF CallMoves
  <2>4. CASE call' = [call EXCEPT ![c] = EndOf(c)]
    BY <2>4, OneCallMoves DEF CallMoves
  <2> QED
    BY <1>2, <2>2, <2>3, <2>4, UnauthorisedFate DEF Shape
<1> QED
  BY <1>1, <1>2

LEMMA RotationMoves ==
    ASSUME Shape, NEW c \in Callers, NEW d \in Callers, Rotated(d)
    PROVE  CallMoves(c)
<1>1. PICK t \in Token : t = bound' /\ call' = Waiters(FALSE, t)
  <2>1. flight[d].answer \in Token /\ bound \in Token
    BY Constants DEF Rotated, Shape, CoreOK
  <2> QED
    BY <2>1 DEF Rotated
<1>2. Steady
  BY DEF Rotated, Steady, Crosses, Shape, CoreOK
<1>3. \/ call'[c] = call[c] \/ call'[c] = EndOf(c)
      \/ /\ call[c].step = "joined" /\ t # NoToken
         /\ call'[c] = [call[c] EXCEPT !.step = "again", !.used = t]
  BY <1>1, WaiterFate, ZenonT(30) DEF Shape
<1> QED
  BY <1>1, <1>2, <1>3 DEF CallMoves, GoesOn, Again

LEMMA CallFate ==
    ASSUME Shape, [Next]_panVars, NEW c \in Callers
    PROVE  CallMoves(c)
<1>1. CASE UNCHANGED call
  BY <1>1 DEF CallMoves
<1>2. ASSUME NEW d \in Callers, CallStarts(d)
      PROVE  CallMoves(c)
  <2>1. CASE c = d
    BY <1>2, <2>1 DEF CallMoves
  <2>2. CASE c # d
    <3>1. \E r : call' = [call EXCEPT ![d] = r]
      BY <1>2 DEF CallStarts
    <3> QED
      BY <2>2, <3>1, OneCallMoves DEF CallMoves
  <2> QED
    BY <2>1, <2>2
<1>3. ASSUME NEW d \in Callers, CallSucceeds(d) \/ CallFails(d)
      PROVE  CallMoves(c)
  BY <1>3, OneCallMoves DEF CallSucceeds, CallFails, CallMoves
<1>4. ASSUME NEW d \in Callers, RefreshRejected(d) \/ RefreshLost(d)
      PROVE  CallMoves(c)
  <2>1. call' = Waiters(TRUE, NoToken)
    BY <1>4 DEF RefreshRejected, RefreshLost
  <2> QED
    BY <2>1, WaiterFate, Constants, ZenonT(30) DEF Shape, CallMoves
<1>5. ASSUME NEW a \in Accounts, LoginExchanged(a)
      PROVE  CallMoves(c)
  <2>1. /\ call' = [call EXCEPT ![Login] = [Idle EXCEPT !.step = "sent",
                                                        !.used = minted + 1]]
        /\ bound' = minted + 1
    BY <1>5 DEF LoginExchanged
  <2>2. [Idle EXCEPT !.step = "sent", !.used = minted + 1].used = minted + 1
    BY DEF Idle
  <2> QED
    BY <2>1, <2>2, OneCallMoves, Constants DEF CallMoves
<1>6. LoginSaved \/ ResolveTimesOut => CallMoves(c)
  BY OneCallMoves, Constants DEF LoginSaved, ResolveTimesOut, CallMoves
<1>7. Reboot => CallMoves(c)
  BY DEF Reboot, CallMoves
<1>8. ASSUME NEW d \in Callers, RefreshDelivered(d)
      PROVE  UNCHANGED call
  BY <1>8 DEF RefreshDelivered
<1>9. ASSUME NEW a \in Accounts, Import(a)
      PROVE  UNCHANGED call
  BY <1>9 DEF Import
<1>10. ASSUME NEW t \in Tokens, Revoke(t)
       PROVE  UNCHANGED call
  BY <1>10 DEF Revoke
<1>11. ResolveStarts \/ ReadRefused \/ Disconnect \/ ThreadEnds \/ UNCHANGED panVars =>
         UNCHANGED call
  BY DEF ResolveStarts, ReadRefused, Disconnect, ThreadEnds, panVars
<1> QED
  BY <1>1, <1>2, <1>3, <1>4, <1>5, <1>6, <1>7, <1>8, <1>9, <1>10, <1>11,
     UnauthorisedMoves, RotationMoves DEF Next, Steps

LEMMA CallUses ==
    ASSUME Shape, [Next]_panVars, NEW c \in Callers
    PROVE  call'[c].used \in {NoToken, call[c].used, bound'}
<1>1. call[c] \in CallRec /\ EndOf(c).used = NoToken
  BY EndTyped DEF Shape, CoreOK
<1>2. Again(c).used = bound' /\ Joined(c).used = NoToken /\ Idle.used = NoToken
  BY <1>1 DEF Again, Joined, Idle, CallRec
<1>3. CallStarts(c) => call'[c].used = bound'
  BY DEF CallStarts, client, Idle, Shape, CoreOK
<1> QED
  BY <1>1, <1>2, <1>3, CallFate DEF CallMoves, GoesOn

-----------------------------------------------------------------------------
(* Every token in use has been issued, so that a later one does not change *)
(* its owner.                                                              *)

IssuedSession ==
    /\ stored.token <= minted /\ bound <= minted /\ newLogin <= minted
    /\ thread.creds.token <= minted
IssuedCalls == \A c \in Callers : call[c].used <= minted
IssuedFlights ==
    \A c \in Callers : /\ flight[c].used <= minted
                       /\ flight[c].answer \in Tokens => flight[c].answer <= minted
Issued == IssuedSession /\ IssuedCalls /\ IssuedFlights

LEMMA MintedGrows ==
    ASSUME Shape, [Next]_panVars
    PROVE  minted \in Nat /\ minted' \in Nat /\ minted <= minted'
<1>1. Shape' /\ minted \in Nat /\ minted' \in Nat
  BY ShapeInductive, Constants DEF Shape, CoreOK, Token
<1>2. minted' = minted \/ minted' = minted + 1
  BY DEF Next, Steps, panVars, server, CallStarts, CallSucceeds, CallUnauthorised,
     CallFails, RefreshDelivered, Rotated, RefreshRejected, RefreshLost, ResolveStarts,
     ReadRefused, ResolveTimesOut, LoginExchanged, LoginSaved, Import, Disconnect,
     ThreadEnds, Revoke, Reboot, Issue
<1> QED
  BY <1>1, <1>2

LEMMA SessionIssued ==
    ASSUME Shape, Issued, [Next]_panVars
    PROVE  IssuedSession'
<1>1. /\ minted \in Nat /\ minted' \in Nat /\ minted <= minted'
      /\ bound \in Nat /\ stored.token \in Nat /\ newLogin \in Nat
      /\ thread.creds.token \in Nat
  BY MintedGrows, Constants DEF Shape, CoreOK, CredsRec, Token
<1>2. CASE UNCHANGED <<bound, stored, newLogin, thread>>
  BY <1>1, <1>2 DEF Issued, IssuedSession
<1>3. ASSUME NEW c \in Callers, Rotated(c)
      PROVE  IssuedSession'
  <2>1. flight[c].answer \in Nat /\ flight[c].answer <= minted
    BY <1>3, Constants DEF Rotated, Issued, IssuedFlights, Tokens
  <2>2. bound' \in {bound, flight[c].answer}
        /\ stored'.token \in {stored.token, flight[c].answer}
    BY <1>3 DEF Rotated, CredsRec, Shape, CoreOK
  <2> QED
    BY <1>1, <1>3, <2>1, <2>2 DEF Rotated, Issued, IssuedSession
<1>4. ASSUME NEW c \in Callers, RefreshRejected(c)
      PROVE  IssuedSession'
  BY <1>1, <1>4 DEF RefreshRejected, Issued, IssuedSession, NoCreds, NoToken
<1>5. ASSUME NEW a \in Accounts, LoginExchanged(a)
      PROVE  IssuedSession'
  BY <1>1, <1>5 DEF LoginExchanged, Issue, Issued, IssuedSession
<1>6. ASSUME NEW a \in Accounts, Import(a)
      PROVE  IssuedSession'
  <2>1. minted' = minted + 1 /\ stored'.token = minted + 1
        /\ thread'.creds.token = minted + 1
    BY <1>6 DEF Import, Issue
  <2> QED
    BY <1>1, <1>6, <2>1 DEF Import, Issued, IssuedSession, client
<1>7. CASE LoginSaved
  BY <1>1, <1>7 DEF LoginSaved, Issued, IssuedSession, NoToken
<1>8. CASE Disconnect
  BY <1>1, <1>8 DEF Disconnect, Issued, IssuedSession, NoCreds, NoToken, client
<1>9. CASE ThreadEnds
  BY <1>1, <1>9 DEF ThreadEnds, Issued, IssuedSession, NoThread, NoCreds, NoToken
<1>10. CASE Reboot
  BY <1>1, <1>10 DEF Reboot, Issued, IssuedSession, NoThread, NoCreds, NoToken
<1>11. ASSUME NEW c \in Callers, Aside(c)
       PROVE  IssuedSession'
  BY <1>2, <1>11, AsideKeepsSession DEF session
<1>12. RelayAside => IssuedSession'
  BY <1>2, RelayAsideKeepsSession DEF session
<1>13. ASSUME NEW t \in Tokens, Revoke(t)
       PROVE  IssuedSession'
  BY <1>2, <1>13 DEF Revoke, client
<1>14. UNCHANGED panVars => IssuedSession'
  BY <1>2 DEF panVars, client
<1> QED
  BY <1>3, <1>4, <1>5, <1>6, <1>7, <1>8, <1>9, <1>10, <1>11, <1>12, <1>13, <1>14
  DEF Next, Steps, Aside, RelayAside

LEMMA CallsIssued ==
    ASSUME Shape, Issued, [Next]_panVars, NEW c \in Callers
    PROVE  call'[c].used <= minted'
<1>1. /\ minted \in Nat /\ minted' \in Nat /\ minted <= minted'
      /\ call[c].used \in Nat /\ call[c].used <= minted /\ bound' <= minted'
  BY MintedGrows, SessionIssued, Constants
  DEF Shape, CoreOK, CallRec, Token, IssuedSession, Issued, IssuedCalls
<1>2. NoToken <= minted' /\ call[c].used <= minted'
  BY <1>1 DEF NoToken
<1> QED
  BY <1>1, <1>2, CallUses

LEMMA FlightsIssued ==
    ASSUME Shape, Issued, [Next]_panVars, NEW c \in Callers
    PROVE  /\ flight'[c].used <= minted'
           /\ flight'[c].answer \in Tokens => flight'[c].answer <= minted'
<1>1. /\ minted \in Nat /\ minted' \in Nat /\ minted <= minted' /\ 0 <= minted'
      /\ bound \in Nat /\ bound <= minted
      /\ flight \in [Callers -> FlightRec] /\ flight[c].used \in Nat
      /\ flight[c].answer \in Nat
  BY MintedGrows, Constants
  DEF Shape, CoreOK, Token, FlightRec, Issued, IssuedSession
<1>2. CASE flight'[c] = flight[c]
  BY <1>1, <1>2 DEF Issued, IssuedFlights
<1>3. CASE flight'[c] = NoFlight
  BY <1>1, <1>3, Constants DEF NoFlight, NoToken
<1>4. ASSUME NEW d \in Callers, CallUnauthorised(d)
      PROVE  flight'[c] = flight[c] \/ flight'[c] = FlightStarted(c)
  BY <1>1, <1>4, UnauthorisedFate DEF Shape, FlightStarted
<1>5. CASE flight'[c] = FlightStarted(c)
  BY <1>1, <1>5, Constants DEF FlightStarted
<1>6. ASSUME NEW d \in Callers, RefreshDelivered(d)
      PROVE  /\ flight'[c].used <= minted'
             /\ flight'[c].answer \in Tokens => flight'[c].answer <= minted'
  <2>1. CASE c # d
    BY <1>1, <1>2, <1>6, <2>1 DEF RefreshDelivered
  <2>2. CASE c = d
    <3>1. flight[c] \in FlightRec
      BY <1>1
    <3>2. flight'[c].used = flight[c].used
      BY <1>1, <1>6, <2>2, <3>1 DEF RefreshDelivered, FlightRec
    <3>3. CASE /\ minted' = minted + 1
               /\ flight' = [flight EXCEPT ![d].step = "answered", ![d].answer = minted + 1]
      <4>1. flight'[c].answer = minted + 1
        BY <1>1, <2>2, <3>1, <3>3 DEF FlightRec
      <4> QED
        BY <1>1, <3>2, <3>3, <4>1 DEF Issued, IssuedFlights
    <3>4. ASSUME NEW n \in {Lost, Rejected},
                 flight' = [flight EXCEPT ![d].step = "answered", ![d].answer = n]
          PROVE  flight'[c].used <= minted' /\ flight'[c].answer \notin Tokens
      <4>1. flight'[c].answer = n
        BY <1>1, <2>2, <3>1, <3>4 DEF FlightRec
      <4> QED
        BY <1>1, <3>2, <4>1, Constants DEF Issued, IssuedFlights
    <3> QED
      BY <1>6, <3>3, <3>4 DEF RefreshDelivered, Issue
  <2> QED
    BY <2>1, <2>2
<1>7. ASSUME NEW d \in Callers, Rotated(d) \/ RefreshRejected(d) \/ RefreshLost(d)
      PROVE  flight'[c] \in {flight[c], NoFlight}
  BY <1>1, <1>7 DEF Rotated, RefreshRejected, RefreshLost
<1>8. CASE Reboot
  BY <1>3, <1>8 DEF Reboot
<1>9. CASE UNCHANGED flight
  BY <1>2, <1>9
<1> QED
  BY <1>2, <1>3, <1>4, <1>5, <1>6, <1>7, <1>8, <1>9
  DEF Next, Steps, panVars, CallStarts, CallSucceeds, CallFails, ResolveStarts,
      ReadRefused, ResolveTimesOut, LoginExchanged, LoginSaved, Import, Disconnect,
      ThreadEnds, Revoke

LEMMA IssuedInductive == Shape /\ Issued /\ [Next]_panVars => Issued'
<1> SUFFICES ASSUME Shape, Issued, [Next]_panVars PROVE Issued'
  OBVIOUS
<1>1. IssuedCalls'
  BY CallsIssued DEF IssuedCalls
<1>2. IssuedFlights'
  BY FlightsIssued DEF IssuedFlights
<1> QED
  BY <1>1, <1>2, SessionIssued DEF Issued

LEMMA IssuedInitially == Init => Issued
<1> SUFFICES ASSUME Init PROVE Issued
  OBVIOUS
<1>1. 0 <= 0 /\ 0 \notin Tokens
  BY DEF Tokens
<1> QED
  BY <1>1
  DEF Init, Issued, IssuedSession, IssuedCalls, IssuedFlights, NoCreds, NoThread, Idle,
      NoFlight, NoToken
-----------------------------------------------------------------------------
(* Whose login each token is.                                              *)

AnswerOwned ==
    \A c \in Callers : flight[c].answer \in Tokens =>
        owner[flight[c].answer] = owner[flight[c].used]
(* The stored user id is that of the stored token.                         *)
StoredOwned ==
    ~crossed /\ stored.id # NoAccount =>
        stored.token # NoToken /\ owner[stored.token] = stored.id
(* A read belongs to a resolve, and began under the fingerprint of its key *)
(* unless the resolve has strayed; while the present fingerprint is that   *)
(* one, the read has a token of that account.                              *)
ReadShape ==
    call[Relay].step # "idle" =>
      /\ resolve.part # "idle"
      /\ ~strayed => [version |-> call[Relay].version, id |-> call[Relay].id] = Key
ReadOwned ==
    /\ ~strayed /\ call[Relay].step \in {"sent", "again"}
    /\ Fingerprint = Key /\ Key.id # NoAccount
    => owner[call[Relay].used] = Key.id
Own == AnswerOwned /\ StoredOwned /\ ReadShape /\ ReadOwned /\ LinksMatch
Owned == Shape /\ Issued /\ Sync /\ Own

LEMMA OwnersKept ==
    ASSUME Shape, [Next]_panVars
    PROVE  \A t \in Tokens : t <= minted => owner'[t] = owner[t]
<1>1. minted \in Nat
  BY Constants DEF Shape, CoreOK, Token
<1>2. CASE UNCHANGED owner
  BY <1>2
<1>3. ASSUME NEW a, owner' = [owner EXCEPT ![minted + 1] = a]
      PROVE  \A t \in Tokens : t <= minted => owner'[t] = owner[t]
  <2>1. \A t \in Tokens : t <= minted => t # minted + 1
    BY <1>1, Constants DEF Tokens
  <2> QED
    BY <1>3, <2>1 DEF Shape, CoreOK
<1>4. UNCHANGED owner \/ \E a : owner' = [owner EXCEPT ![minted + 1] = a]
  BY DEF Next, Steps, panVars, server, CallStarts, CallSucceeds, CallUnauthorised,
     CallFails, RefreshDelivered, Rotated, RefreshRejected, RefreshLost, ResolveStarts,
     ReadRefused, ResolveTimesOut, LoginExchanged, LoginSaved, Import, Disconnect,
     ThreadEnds, Revoke, Reboot, Issue
<1> QED
  BY <1>2, <1>3, <1>4

(* A token in use keeps its owner.                                         *)
LEMMA OwnersInUse ==
    ASSUME Shape, Issued, [Next]_panVars
    PROVE  /\ stored.token # NoToken => owner'[stored.token] = owner[stored.token]
           /\ \A c \in Callers :
                /\ call[c].used # NoToken => owner'[call[c].used] = owner[call[c].used]
                /\ flight[c].answer \in Tokens =>
                     /\ owner'[flight[c].used] = owner[flight[c].used]
                     /\ owner'[flight[c].answer] = owner[flight[c].answer]
<1>1. /\ stored.token \in Token
      /\ \A c \in Callers : call[c].used \in Token
      /\ \A c \in Callers : flight[c].answer \in Tokens => flight[c].used \in Tokens
  BY Constants DEF Shape, CoreOK, CallRec, CredsRec, FlightShape, NoFlight
<1> QED
  BY <1>1, OwnersKept, Constants DEF Issued, IssuedSession, IssuedCalls, IssuedFlights

(* A refresh is answered with a token of the same account.                 *)
LEMMA DeliveryOwned ==
    ASSUME Shape, NEW c \in Callers, RefreshDelivered(c), flight'[c].answer \in Tokens
    PROVE  owner'[flight'[c].answer] = owner'[flight'[c].used]
<1>1. /\ flight \in [Callers -> FlightRec] /\ flight[c] \in FlightRec
      /\ owner \in [Tokens -> Accounts \cup {NoAccount}]
      /\ flight[c].used \in Tokens
  BY DEF Shape, CoreOK, RefreshDelivered, FlightShape
<1>2. ASSUME NEW n, flight' = [flight EXCEPT ![c].step = "answered", ![c].answer = n]
      PROVE  flight'[c].answer = n /\ flight'[c].used = flight[c].used
  BY <1>1, <1>2 DEF FlightRec
<1>3. /\ flight'[c].used = flight[c].used /\ flight'[c].answer = minted + 1
      /\ owner' = [owner EXCEPT ![minted + 1] = owner[flight[c].used]]
  BY <1>2, Constants DEF RefreshDelivered, Issue
<1> QED
  BY <1>1, <1>3

LEMMA AnswersStayOwned ==
    ASSUME Owned, [Next]_panVars, NEW c \in Callers, flight'[c].answer \in Tokens
    PROVE  owner'[flight'[c].answer] = owner'[flight'[c].used]
<1>1. Shape /\ Issued /\ Own /\ flight \in [Callers -> FlightRec]
  BY DEF Owned, Shape, CoreOK
<1>2. CASE flight'[c] = flight[c]
  BY <1>1, <1>2, OwnersInUse DEF Own, AnswerOwned
<1>3. CASE flight'[c].answer = NoToken
  BY <1>3, Constants
<1>4. ASSUME NEW d \in Callers, CallUnauthorised(d)
      PROVE  flight'[c] = flight[c] \/ flight'[c].answer = NoToken
  <2>1. flight' = flight \/ flight' = [flight EXCEPT ![d] = FlightStarted(d)]
    BY <1>1, <1>4, UnauthorisedFate DEF Shape
  <2>2. FlightStarted(d).answer = NoToken
    BY DEF FlightStarted
  <2> QED
    BY <1>1, <2>1, <2>2
<1>5. ASSUME NEW d \in Callers, RefreshDelivered(d)
      PROVE  c = d \/ flight'[c] = flight[c]
  BY <1>1, <1>5 DEF RefreshDelivered
<1>6. ASSUME NEW d \in Callers, Rotated(d) \/ RefreshRejected(d) \/ RefreshLost(d)
      PROVE  flight'[c] = flight[c] \/ flight'[c].answer = NoToken
  <2>1. flight' = [flight EXCEPT ![d] = NoFlight]
    BY <1>6 DEF Rotated, RefreshRejected, RefreshLost
  <2> QED
    BY <1>1, <2>1 DEF NoFlight
<1>7. Reboot => flight'[c].answer = NoToken
  BY DEF Reboot, NoFlight
<1>8. CASE UNCHANGED flight
  BY <1>2, <1>8
<1> QED
  BY <1>1, <1>2, <1>3, <1>4, <1>5, <1>6, <1>7, <1>8, DeliveryOwned
  DEF Next, Steps, panVars, CallStarts, CallSucceeds, CallFails, ResolveStarts,
      ReadRefused, ResolveTimesOut, LoginExchanged, LoginSaved, Import, Disconnect,
      ThreadEnds, Revoke

LEMMA StoredStaysOwned ==
    ASSUME Owned, [Next]_panVars
    PROVE  StoredOwned'
<1> USE Constants
<1>1. Shape /\ Issued /\ Sync /\ StoredOwned /\ AnswerOwned
  BY DEF Owned, Own
<1>2. CASE UNCHANGED <<stored, crossed>>
  BY <1>1, <1>2, OwnersInUse DEF StoredOwned
<1>3. CASE stored' = NoCreds
  BY <1>3 DEF NoCreds, StoredOwned
<1>4. ASSUME NEW c \in Callers, Rotated(c), ~crossed', stored' # stored
      PROVE  stored'.id # NoAccount =>
               stored'.token # NoToken /\ owner'[stored'.token] = stored'.id
  <2>1. /\ StillMine(c) /\ hooked /\ thread.step = "idle" /\ ~crossed
        /\ flight[c].answer \in Tokens /\ UNCHANGED owner
        /\ stored' = [stored EXCEPT !.token = flight[c].answer]
    BY <1>4 DEF Rotated, Crosses, server
  <2>2. stored'.token = flight[c].answer /\ stored'.id = stored.id
    BY <1>1, <2>1 DEF Shape, CoreOK, CredsRec
  <2>3. stored.token = flight[c].used
    BY <1>1, <2>1 DEF Sync, InStep, StillMine
  <2> QED
    BY <1>1, <2>1, <2>2, <2>3 DEF AnswerOwned, StoredOwned
<1>5. ASSUME NEW c \in Callers, Rotated(c)
      PROVE  StoredOwned'
  <2>1. crossed' \/ ~crossed
    BY <1>5 DEF Rotated, Crosses
  <2>2. CASE stored' = stored
    BY <1>1, <2>1, <2>2, OwnersInUse DEF StoredOwned
  <2>3. CASE stored' # stored
    BY <1>4, <1>5, <2>3 DEF StoredOwned
  <2> QED
    BY <2>2, <2>3
<1>6. ASSUME NEW c \in Callers, RefreshRejected(c)
      PROVE  StoredOwned'
  <2>1. stored' = NoCreds \/ stored' = stored
    BY <1>6 DEF RefreshRejected
  <2>2. CASE stored' = stored
    <3>1. crossed \in BOOLEAN /\ crossed' = (crossed \/ FALSE)
      BY <1>1, <1>6, <2>2 DEF RefreshRejected, Crosses, Shape, CoreOK
    <3> QED
      BY <1>2, <2>2, <3>1
  <2> QED
    BY <1>3, <2>1, <2>2
<1>7. ASSUME NEW a \in Accounts, Import(a)
      PROVE  StoredOwned'
  <2>1. owner'[minted + 1] = a /\ minted + 1 \in Tokens
    BY <1>1, <1>7, IssueTyped DEF Shape, Import
  <2>2. stored'.token = minted + 1 /\ stored'.id \in {a, NoAccount}
    BY <1>7 DEF Import
  <2> QED
    BY <2>1, <2>2 DEF StoredOwned
<1>8. CASE LoginSaved
  <2>1. /\ stored'.token = newLogin /\ owner' = owner /\ newLogin # NoToken
        /\ \/ stored'.id = NoAccount
           \/ /\ call[Login].step # "failed"
              /\ stored'.id = owner[call[Login].used]
        /\ crossed' \/ ~ForeignInfo
    BY <1>1, <1>8 DEF LoginSaved, server, Shape, LoginShape
  <2> QED
    BY <2>1 DEF StoredOwned, ForeignInfo
<1>9. CASE Disconnect
  BY <1>3, <1>9 DEF Disconnect
<1>10. ASSUME NEW c \in Callers, Aside(c)
       PROVE  UNCHANGED <<stored, crossed>>
  BY <1>10, AsideKeepsSession DEF session
<1>11. RelayAside => UNCHANGED <<stored, crossed>>
  BY RelayAsideKeepsSession DEF session
<1>12. ASSUME NEW t \in Tokens, Revoke(t)
       PROVE  UNCHANGED <<stored, crossed>>
  BY <1>12 DEF Revoke
<1>13. ASSUME NEW a \in Accounts, LoginExchanged(a)
       PROVE  UNCHANGED <<stored, crossed>>
  BY <1>13 DEF LoginExchanged
<1>14. ThreadEnds \/ Reboot \/ UNCHANGED panVars => UNCHANGED <<stored, crossed>>
  BY DEF ThreadEnds, Reboot, panVars
<1> QED
  BY <1>2, <1>5, <1>6, <1>7, <1>8, <1>9, <1>10, <1>11, <1>12, <1>13, <1>14
  DEF Next, Steps, Aside, RelayAside

-----------------------------------------------------------------------------
(* The reads of the relay.                                                 *)

(* A read that is on its way after a step begins with it, or was on its    *)
(* way before, under the same fingerprint.                                 *)
LEMMA ReadFate ==
    ASSUME Shape, [Next]_panVars, call'[Relay].step # "idle"
    PROVE  \/ /\ CallStarts(Relay)
              /\ [version |-> call'[Relay].version, id |-> call'[Relay].id] = Fingerprint
           \/ /\ call[Relay].step # "idle"
              /\ call'[Relay].version = call[Relay].version
              /\ call'[Relay].id = call[Relay].id
<1>1. /\ call \in [Callers -> CallRec] /\ call[Relay] \in CallRec
      /\ Relay \in Callers /\ Relay # Login
  BY Constants DEF Shape, CoreOK
<1>2. call'[Relay] \notin {Idle, EndOf(Relay)}
  BY <1>1 DEF EndOf, Idle
<1>3. CASE CallStarts(Relay)
  BY <1>1, <1>3 DEF CallStarts, Fingerprint
<1>4. /\ Again(Relay).version = call[Relay].version /\ Again(Relay).id = call[Relay].id
      /\ Joined(Relay).version = call[Relay].version /\ Joined(Relay).id = call[Relay].id
  BY <1>1 DEF Again, Joined, CallRec
<1> QED
  BY <1>1, <1>2, <1>3, <1>4, CallFate DEF CallMoves, GoesOn

(* A request sent while client and file are in step carries the token the  *)
(* client has after the step, and leaves them in step.                     *)
LEMMA SendFate ==
    ASSUME Shape, [Next]_panVars, Sends, ~OutOfStep
    PROVE  call'[Relay].used = bound' /\ bound' # NoToken /\ ~OutOfStep'
<1>1. /\ call \in [Callers -> CallRec] /\ call[Relay] \in CallRec
      /\ Relay \in Callers /\ Relay # Login
  BY Constants DEF Shape, CoreOK
<1>2. /\ EndOf(Relay).used = NoToken /\ Idle.used = NoToken
      /\ Joined(Relay).used = NoToken /\ Again(Relay).used = bound'
  BY <1>1, EndTyped DEF Shape, Idle, Joined, Again, CallRec
<1>3. CallStarts(Relay) \/ GoesOn(Relay)
  BY <1>1, <1>2, CallFate DEF CallMoves, Sends
<1>4. CASE CallStarts(Relay)
  <2>1. call'[Relay].used = bound /\ bound' = bound /\ bound # NoToken
    BY <1>1, <1>4 DEF CallStarts, client
  <2> QED
    BY <1>4, <2>1 DEF CallStarts, OutOfStep
<1>5. CASE GoesOn(Relay)
  BY <1>2, <1>5 DEF GoesOn, Steady, OutOfStep
<1> QED
  BY <1>3, <1>4, <1>5

(* While a read goes on, so does its resolve, under the same key.          *)
LEMMA ResolveGoesOn ==
    ASSUME Shape, ReadShape, [Next]_panVars, call'[Relay].step # "idle"
    PROVE  resolve' = resolve /\ resolve.part # "idle"
<1>1. Relay \in Callers /\ call \in [Callers -> CallRec]
  BY Constants DEF Shape, CoreOK
<1>2. CASE CallStarts(Relay)
  BY <1>2 DEF CallStarts, relayVars
<1>3. CASE call[Relay].step # "idle"
  <2>1. resolve.part # "idle"
    BY <1>3 DEF ReadShape
  <2>2. ASSUME NEW c \in Callers,
               \/ CallUnauthorised(c) \/ CallFails(c) \/ Rotated(c)
               \/ RefreshRejected(c) \/ RefreshLost(c)
        PROVE  resolve' = resolve
    BY <2>2 DEF CallUnauthorised, CallFails, Rotated, RefreshRejected, RefreshLost,
       ReadEnds
  <2>3. ASSUME NEW c \in Callers, CallSucceeds(c)
        PROVE  resolve' = resolve
    BY <1>1, <2>3 DEF CallSucceeds, Idle
  <2>4. ASSUME NEW c \in Callers, CallStarts(c) \/ RefreshDelivered(c)
        PROVE  resolve' = resolve
    BY <2>4 DEF CallStarts, RefreshDelivered, relayVars
  <2>5. ASSUME NEW a \in Accounts, LoginExchanged(a) \/ Import(a)
        PROVE  resolve' = resolve
    BY <2>5 DEF LoginExchanged, Import, relayVars
  <2>6. ASSUME NEW t \in Tokens, Revoke(t)
        PROVE  resolve' = resolve
    BY <2>6 DEF Revoke, relayVars
  <2>7. LoginSaved \/ Disconnect \/ ThreadEnds \/ UNCHANGED panVars => resolve' = resolve
    BY DEF LoginSaved, Disconnect, ThreadEnds, panVars, relayVars
  <2>8. ~ResolveStarts /\ ~ReadRefused /\ ~ResolveTimesOut /\ ~Reboot
    BY <1>1, <1>3, <2>1 DEF ResolveStarts, ReadRefused, ResolveTimesOut, Reboot, Idle
  <2> QED
    BY <2>1, <2>2, <2>3, <2>4, <2>5, <2>6, <2>7, <2>8 DEF Next, Steps
<1> QED
  BY <1>2, <1>3, ReadFate

(* A resolve that has not strayed by the end of a step sent no request out *)
(* of step, began no read but under its key, and did not see its key's     *)
(* fingerprint come back.                                                  *)
LEMMA NotStrayed ==
    ASSUME [Next]_panVars, ~strayed', resolve' = resolve, resolve.part # "idle",
           strayed \in BOOLEAN
    PROVE  /\ ~strayed
           /\ Sends => ~OutOfStep
           /\ Sends /\ call[Relay].step = "idle" => Fingerprint = Key
           /\ Fingerprint' = Key => Fingerprint = Key
<1>1. CASE Next
  BY <1>1 DEF Next, Strays
<1>2. CASE UNCHANGED panVars
  <2>1. UNCHANGED <<strayed, call, authVersion, stored>>
    BY <1>2 DEF panVars
  <2> QED
    BY <2>1 DEF Sends, Fingerprint
<1> QED
  BY <1>1, <1>2

LEMMA ReadStaysShaped ==
    ASSUME Owned, RelayOK, [Next]_panVars
    PROVE  ReadShape'
<1>1. SUFFICES ASSUME call'[Relay].step # "idle"
               PROVE  /\ resolve'.part # "idle"
                      /\ ~strayed' => [version |-> call'[Relay].version,
                                       id |-> call'[Relay].id] = Key'
  BY DEF ReadShape, Key
<1>2. /\ Shape /\ ReadShape /\ call[Relay] \in CallRec /\ Relay \in Callers
      /\ call'[Relay] \in CallRec
  BY ShapeInductive, Constants DEF Owned, Own, Shape, CoreOK
<1>3. resolve' = resolve /\ resolve.part # "idle" /\ Key' = Key
  BY <1>1, <1>2, ResolveGoesOn DEF Key
<1>4. ASSUME ~strayed'
      PROVE  [version |-> call'[Relay].version, id |-> call'[Relay].id] = Key
  <2>1. CASE /\ CallStarts(Relay)
             /\ [version |-> call'[Relay].version, id |-> call'[Relay].id] = Fingerprint
    <3>1. call[Relay].step = "idle" /\ call'[Relay].step = "sent"
      BY <1>1, <1>2, <2>1 DEF CallStarts, Shape, CoreOK
    <3>2. Sends
      BY <1>2, <3>1 DEF Sends, CallRec
    <3> QED
      BY <1>3, <1>4, <2>1, <3>1, <3>2, NotStrayed DEF RelayOK
  <2>2. CASE /\ call[Relay].step # "idle"
             /\ call'[Relay].version = call[Relay].version
             /\ call'[Relay].id = call[Relay].id
    BY <1>2, <1>3, <1>4, <2>2, NotStrayed DEF ReadShape, RelayOK
  <2> QED
    BY <1>1, <1>2, <2>1, <2>2, ReadFate
<1> QED
  BY <1>3, <1>4

LEMMA ReadStaysOwned ==
    ASSUME Owned, RelayOK, [Next]_panVars
    PROVE  ReadOwned'
<1>1. SUFFICES ASSUME ~strayed', call'[Relay].step \in {"sent", "again"},
                      Fingerprint' = Key', Key'.id # NoAccount
               PROVE  owner'[call'[Relay].used] = Key'.id
  BY DEF ReadOwned, Key, Fingerprint
<1>2. /\ Shape /\ Issued /\ Sync /\ ReadShape /\ ReadOwned /\ Shape' /\ Sync'
      /\ StoredOwned' /\ Relay \in Callers
      /\ call[Relay] \in CallRec /\ call'[Relay] \in CallRec
  BY ShapeInductive, SyncInductive, StoredStaysOwned, Constants
  DEF Owned, Own, Shape, CoreOK
<1>3. resolve' = resolve /\ resolve.part # "idle" /\ Key' = Key
  BY <1>1, <1>2, ResolveGoesOn DEF Key
<1>4. ~strayed /\ (Sends => ~OutOfStep) /\ Fingerprint = Key
  BY <1>1, <1>3, NotStrayed DEF RelayOK
<1>5. call'[Relay].used # NoToken
  BY <1>1, <1>2 DEF CallRec
<1>6. CASE call'[Relay].used = call[Relay].used
  <2>1. call[Relay].step \in {"sent", "again"} /\ call[Relay].used # NoToken
    BY <1>2, <1>5, <1>6 DEF CallRec
  <2>2. owner[call[Relay].used] = Key.id
    BY <1>1, <1>2, <1>3, <1>4, <2>1 DEF ReadOwned
  <2> QED
    BY <1>2, <1>3, <1>6, <2>1, <2>2, OwnersInUse
<1>7. CASE call'[Relay].used # call[Relay].used
  <2>1. /\ call'[Relay].used = bound' /\ ~OutOfStep'
    BY <1>2, <1>4, <1>5, <1>7, SendFate DEF Sends
  <2>2. bound' = stored'.token /\ ~crossed'
    BY <1>2, <2>1 DEF OutOfStep, Sync, InStep
  <2>3. stored'.id = Key'.id
    BY <1>1 DEF Fingerprint, Key
  <2> QED
    BY <1>1, <1>2, <2>1, <2>2, <2>3 DEF StoredOwned
<1> QED
  BY <1>6, <1>7

LEMMA LinksStayOwn ==
    ASSUME Owned, RelayOK, [Next]_panVars
    PROVE  LinksMatch'
<1>1. LinksMatch /\ ReadShape /\ ReadOwned
  BY DEF Owned, Own
<1>2. CASE links' = links \/ links' = {}
  BY <1>1, <1>2 DEF LinksMatch
<1>3. CASE CallSucceeds(Relay) /\ links' # links
  <2>1. /\ SameSource(Relay) /\ call[Relay].step \in {"sent", "again"}
        /\ links' = links \cup {[id |-> Key.id, account |-> owner[call[Relay].used],
                                 strayed |-> strayed]}
    BY <1>3 DEF CallSucceeds, ReadDone
  <2>2. ASSUME Key.id # NoAccount, ~strayed
        PROVE  owner[call[Relay].used] = Key.id
    BY <1>1, <2>1, <2>2 DEF ReadShape, ReadOwned, SameSource
  <2> QED
    BY <1>1, <2>1, <2>2 DEF LinksMatch
<1> QED
  BY <1>2, <1>3, RelayMoves DEF ResolveStarts

LEMMA OwnedInductive == Owned /\ RelayOK /\ [Next]_panVars => (Owned /\ RelayOK)'
<1> SUFFICES ASSUME Owned, RelayOK, [Next]_panVars PROVE (Owned /\ RelayOK)'
  OBVIOUS
<1>1. Shape' /\ Issued' /\ Sync' /\ RelayOK'
  BY ShapeInductive, IssuedInductive, SyncInductive, RelayTyped DEF Owned
<1>2. AnswerOwned'
  BY AnswersStayOwned DEF AnswerOwned
<1>3. StoredOwned' /\ ReadShape' /\ ReadOwned' /\ LinksMatch'
  BY StoredStaysOwned, ReadStaysShaped, ReadStaysOwned, LinksStayOwn
<1> QED
  BY <1>1, <1>2, <1>3 DEF Owned, Own

LEMMA OwnedInitially == Init => Owned /\ RelayOK
<1> SUFFICES ASSUME Init PROVE Owned /\ RelayOK
  OBVIOUS
<1>1. Own
  BY Constants
  DEF Init, Own, AnswerOwned, StoredOwned, ReadShape, ReadOwned, LinksMatch, NoCreds,
      NoFlight, Idle
<1> QED
  BY <1>1, ShapeInitially, IssuedInitially, SyncInitially, TypedInitially
  DEF Owned, Typed

(* A link is cached under the account it belongs to, whatever logins,      *)
(* imports, disconnects and refreshes come during a read and between the   *)
(* attempts of a resolve, but for what a resolve cannot see.               *)
THEOREM LinksAreOwn == Spec => []LinksMatch
<1>1. Owned /\ RelayOK => LinksMatch
  BY DEF Owned, Own
<1> QED
  BY <1>1, OwnedInitially, OwnedInductive, PTL DEF Spec
=============================================================================
