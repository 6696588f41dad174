----------------------- MODULE OfflineRecovery_proofs -----------------------
(***************************************************************************)
(* For any number of rows, magnets, clients, requests and restarts, and    *)
(* with calls that overlap as they like: the rows and calls keep their     *)
(* types and every checkpoint stays consistent (IInv); and on every row    *)
(* that no late session has written over, the tries are bounded, a         *)
(* cancelled or replaced download is removed first, none is lost track of, *)
(* and a cancelled row stays cancelled.  The invariant of these five is    *)
(* Settled: a call that is not behind carries what its row holds           *)
(* (CallsCurrent, Waves), a row's status bounds its action and its tries   *)
(* (RowsSteady, RowsCapped), and whatever the service has is kept by some  *)
(* row or is in unrecorded (Kept).  A session that writes a row puts all   *)
(* others that hold it behind, so only its own row has to be looked at     *)
(* (WriteSettles).                                                         *)
(***************************************************************************)
EXTENDS OfflineRecovery, TLAPS

(* What a call carries across an await names a row that exists, and a      *)
(* magnet to submit.                                                       *)
WellFormed(rows, c) ==
    /\ c.pc \in {"removing", "removed"} =>
         /\ c.row \in Rows /\ rows[c.row].status # "none"
         /\ c.action \in {"cancel", "switch"}
    /\ c.pc \in {"submitting", "submitted", "refused"} =>
         /\ c.next \in Hashes
         /\ \/ c.action = "enqueue"
            \/ /\ c.action = "submit"
               /\ c.row \in Rows /\ rows[c.row].status # "none"
CallsWellFormed == \A a \in Actors : WellFormed(row, call[a])

(* The poll wave only handles rows that exist.                             *)
WaveCreated == \A r \in todo \cup finished : row[r].status # "none"

IInv == TypeOK /\ CallsWellFormed /\ CheckpointConsistent /\ WaveCreated

Sound(t) == t \in RowType /\ t.status # "none" /\ Consistent(t)

-----------------------------------------------------------------------------
(* The checkpoint transitions keep a row sound.                            *)

LEMMA SeedSound ==
    ASSUME NEW h \in Hashes
    PROVE  Sound(SeedRecovery(h))
  BY HashesAssumption
  DEF Sound, SeedRecovery, Consistent, Attempted, RowType, OptHash, Statuses, Steps

LEMMA TriedAreHashes ==
    ASSUME NEW t \in RowType
    PROVE  Attempted(t) \subseteq Hashes
<1>1. t.attempts \in Seq(Hashes)
  BY DEF RowType
<1>2. \A i \in 1..Len(t.attempts) : t.attempts[i] \in Hashes
  BY <1>1
<1> QED
  BY <1>2 DEF Attempted

LEMMA CancelSound ==
    ASSUME NEW t, Sound(t)
    PROVE  Sound(BeginCancel(t)) /\ Sound(Cancelled(t))
<1>1. t \in RowType /\ NoHash \notin Attempted(t)
  BY TriedAreHashes, HashesAssumption DEF Sound
<1> QED
  BY <1>1
  DEF Sound, BeginCancel, Cancelled, Consistent, Attempted, RowType, OptHash,
      Statuses, Steps

LEMMA FailedSound ==
    ASSUME NEW t, Sound(t)
    PROVE  /\ Sound(SubmitFailed(t)) /\ Sound(MissingNext(t)) /\ Sound(Exhaust(t))
           /\ Sound([t EXCEPT !.status = "failed"])
           /\ Sound([t EXCEPT !.status = "done"])
           /\ Sound([t EXCEPT !.action = "submit"])
<1>1. t \in RowType /\ NoHash \notin Attempted(t)
  BY TriedAreHashes, HashesAssumption DEF Sound
<1> QED
  BY <1>1, ZenonT(30)
  DEF Sound, SubmitFailed, MissingNext, Exhaust, Consistent, Attempted, RowType,
      OptHash, Statuses, Steps

LEMMA SubmitSound ==
    ASSUME NEW t, Sound(t), NEW h \in Hashes
    PROVE  Sound(AfterSubmit(t, h))
<1> DEFINE s == Append(t.attempts, h)
<1>1. /\ t.attempts \in Seq(Hashes) /\ s \in Seq(Hashes)
      /\ Len(s) = Len(t.attempts) + 1 /\ s[Len(s)] = h
  BY DEF Sound, RowType
<1>2. AfterSubmit(t, h) \in RowType
  BY <1>1 DEF Sound, AfterSubmit, RowType, OptHash, Statuses, Steps
<1>3. /\ AfterSubmit(t, h).attempts = s /\ AfterSubmit(t, h).hash = h
      /\ AfterSubmit(t, h).next = NoHash /\ AfterSubmit(t, h).action = ""
      /\ AfterSubmit(t, h).status = "running"
  BY DEF Sound, AfterSubmit, RowType
<1>4. \A i \in 1..Len(s) : s[i] \in Hashes
  BY <1>1
<1>5. Len(s) > 0
  BY <1>1
<1> QED
  BY <1>1, <1>2, <1>3, <1>4, <1>5, HashesAssumption
  DEF Sound, Consistent, Attempted

LEMMA SwitchSound ==
    ASSUME NEW r \in Rows, NEW t, Sound(t), t.attempts = row[r].attempts,
           NEW u \in BeginSwitch(r, t)
    PROVE  Sound(u)
<1>1. CASE u = Exhaust(t)
  BY <1>1, FailedSound
<1>2. CASE \E h \in Candidates(r) : u = QueueSwitch(t, h)
  <2>1. PICK h \in Candidates(r) : u = QueueSwitch(t, h)
    BY <1>2
  <2>2. h \in Hashes /\ h \notin Attempted(t)
    BY <2>1 DEF Candidates, Attempted
  <2> QED
    BY <2>1, <2>2, HashesAssumption
    DEF Sound, QueueSwitch, Consistent, Attempted, RowType, OptHash, Steps
<1> QED
  BY <1>1, <1>2 DEF BeginSwitch

-----------------------------------------------------------------------------
(* What an action leaves of the invariant when it rewrites one row and one *)
(* call.                                                                   *)

Grows == \A r \in Rows : row[r].status # "none" => row'[r].status # "none"
TableOK == row \in [Rows -> RowType] /\ CheckpointConsistent
CallsOK == call \in [Actors -> CallType] /\ CallsWellFormed

LEMMA RowWritten ==
    ASSUME IInv, NEW r \in Rows, NEW u, Sound(u), row' = [row EXCEPT ![r] = u]
    PROVE  TableOK' /\ Grows
<1>1. row \in [Rows -> RowType]
  BY DEF IInv, TypeOK
<1>2. \A q \in Rows : row'[q] = IF q = r THEN u ELSE row[q]
  BY <1>1
<1>3. row' \in [Rows -> RowType]
  BY <1>1, <1>2 DEF Sound
<1>4. ASSUME NEW q \in Rows, row'[q].status # "none"
      PROVE  Consistent(row'[q])
  <2>1. CASE q = r
    BY <2>1, <1>2 DEF Sound
  <2>2. CASE q # r
    <3>1. row'[q] = row[q]
      BY <2>2, <1>2
    <3>2. Created(q)
      BY <3>1, <1>4 DEF Created
    <3>3. Consistent(row[q])
      BY <3>2 DEF IInv, CheckpointConsistent
    <3> QED
      BY <3>1, <3>3
  <2> QED
    BY <2>1, <2>2
<1>5. CheckpointConsistent'
  BY <1>4 DEF CheckpointConsistent, Created, Consistent, Attempted
<1> QED
  BY <1>2, <1>3, <1>5 DEF TableOK, Grows, Sound

LEMMA RowsKept ==
    ASSUME IInv, UNCHANGED row
    PROVE  TableOK' /\ Grows
  BY DEF IInv, TypeOK, TableOK, Grows, CheckpointConsistent, Created, Consistent,
         Attempted

LEMMA CallWritten ==
    ASSUME IInv, Grows, NEW a \in Actors, NEW c \in CallType,
           WellFormed(row', c), call' = [call EXCEPT ![a] = c]
    PROVE  CallsOK'
<1>1. call \in [Actors -> CallType] /\ call' \in [Actors -> CallType]
  BY DEF IInv, TypeOK
<1>2. ASSUME NEW b \in Actors
      PROVE  WellFormed(row', call'[b])
  <2>1. WellFormed(row, call[b])
    BY DEF IInv, CallsWellFormed
  <2>2. call'[b] = IF b = a THEN c ELSE call[b]
    BY <1>1
  <2>3. WellFormed(row', call[b])
    BY <2>1 DEF WellFormed, Grows
  <2> QED
    BY <2>2, <2>3
<1> QED
  BY <1>1, <1>2 DEF CallsOK, CallsWellFormed

LEMMA CallsKept ==
    ASSUME IInv, Grows, UNCHANGED call
    PROVE  CallsOK'
  BY DEF IInv, TypeOK, Grows, CallsOK, CallsWellFormed, WellFormed

LEMMA IdleFine ==
    /\ Idle \in CallType
    /\ \A rows : WellFormed(rows, Idle)
    /\ \A label \in {"idle", "listed", "applying", "completing"} :
         PollerAt(label) \in CallType /\ \A rows : WellFormed(rows, PollerAt(label))
<1>1. MaxRows \in Nat /\ 0 \in 0..MaxRows
  BY BoundsAssumption
<1> QED
  BY <1>1 DEF Idle, PollerAt, CallType, WellFormed, OptHash, Steps

LEMMA SentFine ==
    ASSUME NEW r \in Rows, NEW t, Sound(t), NEW rows, rows[r].status # "none",
           NEW label \in {"removing", "submitting"},
           label = "removing" => t.action \in {"cancel", "switch"},
           label = "submitting" => t.action = "submit" /\ t.next # NoHash
    PROVE  Sent(r, t, label) \in CallType /\ WellFormed(rows, Sent(r, t, label))
<1>1. r \in 0..MaxRows
  BY BoundsAssumption DEF Rows
<1>2. t.action \in Steps /\ t.hash \in OptHash /\ t.next \in OptHash
  BY DEF Sound, RowType
<1> QED
  BY <1>1, <1>2 DEF Sent, CallType, WellFormed, OptHash

LEMMA AdvanceKeeps ==
    ASSUME IInv, NEW a \in Actors, NEW r \in Rows, NEW t, Sound(t),
           Advance(a, r, t)
    PROVE  TableOK' /\ CallsOK' /\ Grows
<1>1. t.status # "none" /\ row \in [Rows -> RowType]
  BY DEF Sound, IInv, TypeOK
<1>2. CASE /\ t.action \in {"cancel", "switch"}
           /\ row' = [row EXCEPT ![r] = t]
           /\ call' = [call EXCEPT ![a] = Sent(r, t, "removing")]
  <2>1. TableOK' /\ Grows
    BY <1>2, RowWritten
  <2>2. row'[r].status # "none"
    BY <1>1, <1>2
  <2>3. Sent(r, t, "removing") \in CallType /\ WellFormed(row', Sent(r, t, "removing"))
    BY <1>2, <2>2, SentFine
  <2> QED
    BY <1>2, <2>1, <2>3, CallWritten
<1>3. CASE /\ t.action = "submit" /\ t.next # NoHash
           /\ row' = [row EXCEPT ![r] = t]
           /\ call' = [call EXCEPT ![a] = Sent(r, t, "submitting")]
  <2>1. TableOK' /\ Grows
    BY <1>3, RowWritten
  <2>2. row'[r].status # "none"
    BY <1>1, <1>3
  <2>3. Sent(r, t, "submitting") \in CallType /\ WellFormed(row', Sent(r, t, "submitting"))
    BY <1>3, <2>2, SentFine
  <2> QED
    BY <1>3, <2>1, <2>3, CallWritten
<1>4. CASE /\ row' = [row EXCEPT ![r] = MissingNext(t)]
           /\ call' = [call EXCEPT ![a] = Idle]
  <2>1. TableOK' /\ Grows
    BY <1>4, RowWritten, FailedSound
  <2> QED
    BY <1>4, <2>1, IdleFine, CallWritten
<1>5. CASE /\ row' = [row EXCEPT ![r] = t]
           /\ call' = [call EXCEPT ![a] = Idle]
  <2>1. TableOK' /\ Grows
    BY <1>5, RowWritten
  <2> QED
    BY <1>5, <2>1, IdleFine, CallWritten
<1> QED
  BY <1>2, <1>3, <1>4, <1>5 DEF Advance

-----------------------------------------------------------------------------
(* Every action keeps the invariant.                                       *)

OthersOK ==
    /\ remote \in [Hashes -> RemoteStates] /\ seen \in [Hashes -> RemoteStates]
    /\ todo \subseteq Rows /\ finished \subseteq Rows
    /\ unrecorded \subseteq Hashes
    /\ requests \in 0..MaxRequests /\ enqueues \in 0..MaxEnqueues
    /\ crashes \in 0..MaxCrashes

OverlapsOK == behind \subseteq Actors \X Rows /\ overtaken \subseteq Rows

LEMMA Parts == IInv => OthersOK /\ OverlapsOK
  BY DEF IInv, TypeOK, OthersOK, OverlapsOK

LEMMA PartsNext ==
    ASSUME IInv, Grows, TableOK', CallsOK', OthersOK', OverlapsOK',
           todo' \cup finished' \subseteq todo \cup finished
    PROVE  IInv'
<1>1. WaveCreated'
  BY DEF IInv, WaveCreated, Grows, OthersOK
<1> QED
  BY <1>1 DEF IInv, TypeOK, TableOK, CallsOK, OthersOK, OverlapsOK

LEMMA RowSound ==
    ASSUME IInv, NEW r \in Rows, row[r].status # "none"
    PROVE  Sound(row[r])
  BY DEF IInv, TypeOK, CheckpointConsistent, Created, Sound

LEMMA ForgottenTyped ==
    ASSUME IInv, NEW r \in Rows, NEW t
    PROVE  Forgotten(r, t) \subseteq Hashes
<1>1. row[r].next \in OptHash
  BY DEF IInv, TypeOK, RowType
<1> QED
  BY <1>1 DEF Forgotten, OptHash

(* Who is behind on a row, and which rows were overtaken.                  *)
LEMMA RewritesTyped ==
    ASSUME IInv, NEW a \in Actors, NEW r \in Rows, Rewrites(a, r)
    PROVE  OverlapsOK'
<1>1. Others(a, r) \subseteq Actors \X Rows
  BY DEF Others
<1> QED
  BY <1>1, Parts DEF Rewrites, OverlapsOK

LEMMA OverlapsKept ==
    ASSUME IInv, Next
    PROVE  OverlapsOK'
<1>1. ASSUME NEW a \in Clients, UserRequest(a)
      PROVE  OverlapsOK'
  <2>1. a \in Actors
    BY DEF Actors
  <2>2. ASSUME NEW r \in Rows, RequestCancel(a, r) \/ RequestNext(a, r)
        PROVE  OverlapsOK'
    BY <2>1, <2>2, RewritesTyped DEF RequestCancel, RequestNext
  <2>3. ASSUME NEW h \in Hashes, RequestEnqueue(a, h)
        PROVE  OverlapsOK'
    BY <2>3, Parts DEF RequestEnqueue, OverlapsOK, overlaps
  <2> QED
    BY <1>1, <2>2, <2>3 DEF UserRequest
<1>2. ASSUME NEW a \in Actors, Answer(a)
      PROVE  OverlapsOK'
  BY <1>2, Parts
  DEF Answer, RemovalDone, RemovalRaised, SubmitAccepted, SubmitRefused, OverlapsOK,
      overlaps
<1>3. ASSUME NEW a \in Actors, Resume(a)
      PROVE  OverlapsOK'
  <2>1. WellFormed(row, call[a])
    BY DEF IInv, CallsWellFormed
  <2>2. CASE AfterRemoval(a) \/ RecordSwitch(a)
    <3>1. call[a].row \in Rows
      BY <2>1, <2>2 DEF AfterRemoval, RecordSwitch, At, WellFormed
    <3> QED
      BY <2>2, <3>1, RewritesTyped DEF AfterRemoval, RecordSwitch
  <2>3. CASE RecordRefusal(a)
    <3>1. CASE call[a].action = "enqueue"
      BY <2>3, <3>1, Parts DEF RecordRefusal, OverlapsOK, overlaps
    <3>2. CASE call[a].action # "enqueue"
      <4>1. call[a].row \in Rows
        BY <2>1, <2>3, <3>2 DEF RecordRefusal, At, WellFormed
      <4> QED
        BY <2>3, <3>2, <4>1, RewritesTyped DEF RecordRefusal
    <3> QED
      BY <3>1, <3>2
  <2>4. CASE RecordEnqueue(a)
    <3>1. PICK r \in Rows : /\ behind' = behind \cup Others(a, r)
                            /\ overtaken' = overtaken \ {r}
      BY <2>4 DEF RecordEnqueue, RowsWith, Unused
    <3>2. Others(a, r) \subseteq Actors \X Rows
      BY DEF Others
    <3> QED
      BY <3>1, <3>2, Parts DEF OverlapsOK
  <2> QED
    BY <1>3, <2>2, <2>3, <2>4 DEF Resume
<1>4. CASE PollStep
  <2>0. Poller \in Actors
    BY DEF Actors
  <2>1. CASE UNCHANGED overlaps
    BY <2>1, Parts DEF OverlapsOK, overlaps
  <2>2. ASSUME NEW r \in Rows, Rewrites(Poller, r)
        PROVE  OverlapsOK'
    BY <2>0, <2>2, RewritesTyped
  <2> QED
    BY <1>4, <2>1, <2>2
    DEF PollStep, PollList, PollFailed, PollApply, Complete, AdvancePending, PendingRows,
        overlaps
<1>5. CASE ApplyStep \/ \E h \in Hashes : RemoteEnds(h)
  BY <1>5, Parts DEF ApplyStep, ApplyRow, ApplyEnd, RemoteEnds, OverlapsOK, overlaps
<1>6. CASE Crash
  BY <1>6, Parts DEF Crash, OverlapsOK
<1> QED
  BY <1>1, <1>2, <1>3, <1>4, <1>5, <1>6 DEF Next

LEMMA RequestsKeep ==
    ASSUME IInv, OverlapsOK', NEW a \in Clients, UserRequest(a)
    PROVE  IInv'
<1>0. a \in Actors
  BY DEF Actors
<1>1. ASSUME NEW r \in Rows, RequestCancel(a, r)
      PROVE  IInv'
  <2>1. row[r].status # "none"
    BY <1>1 DEF RequestCancel, Cancellable
  <2>2. TableOK' /\ CallsOK' /\ Grows
    BY <1>0, <1>1, <2>1, RowSound, CancelSound, AdvanceKeeps DEF RequestCancel
  <2>3. OthersOK' /\ UNCHANGED <<todo, finished>>
    BY <1>1, Parts, BoundsAssumption, ForgottenTyped DEF RequestCancel, OthersOK, wave
  <2> QED
    BY <2>2, <2>3, PartsNext
<1>2. ASSUME NEW r \in Rows, RequestNext(a, r)
      PROVE  IInv'
  <2>1. PICK t \in BeginSwitch(r, row[r]) :
          Advance(a, r, t) /\ unrecorded' = unrecorded \cup Forgotten(r, t)
    BY <1>2 DEF RequestNext
  <2>2. row[r].status # "none"
    BY <1>2 DEF RequestNext, Cancellable
  <2>3. Sound(t)
    BY <2>1, <2>2, RowSound, SwitchSound
  <2>4. TableOK' /\ CallsOK' /\ Grows
    BY <1>0, <2>1, <2>3, AdvanceKeeps
  <2>5. /\ requests < MaxRequests /\ requests' = requests + 1
        /\ UNCHANGED <<remote, wave, enqueues, crashes>>
    BY <1>2 DEF RequestNext
  <2>6. OthersOK' /\ UNCHANGED <<todo, finished>>
    BY <2>1, <2>5, Parts, BoundsAssumption, ForgottenTyped DEF OthersOK, wave
  <2> QED
    BY <2>4, <2>6, PartsNext
<1>3. ASSUME NEW h \in Hashes, RequestEnqueue(a, h)
      PROVE  IInv'
  <2> DEFINE c == [pc |-> "submitting", row |-> 0, action |-> "enqueue",
                   hash |-> NoHash, next |-> h]
  <2>1. TableOK' /\ Grows
    BY <1>3, RowsKept DEF RequestEnqueue
  <2>2. c \in CallType /\ WellFormed(row', c)
    BY BoundsAssumption DEF CallType, WellFormed, OptHash
  <2>3. CallsOK'
    BY <1>0, <1>3, <2>1, <2>2, CallWritten DEF RequestEnqueue
  <2>4. OthersOK' /\ UNCHANGED <<todo, finished>>
    BY <1>3, Parts, BoundsAssumption DEF RequestEnqueue, OthersOK, wave
  <2> QED
    BY <2>1, <2>3, <2>4, PartsNext
<1> QED
  BY <1>1, <1>2, <1>3 DEF UserRequest

LEMMA AnswersKeep ==
    ASSUME IInv, OverlapsOK', NEW a \in Actors, Answer(a)
    PROVE  IInv'
<1>1. call[a] \in CallType /\ WellFormed(row, call[a])
  BY DEF IInv, TypeOK, CallsWellFormed
<1>2. UNCHANGED row
  BY DEF Answer, RemovalDone, RemovalRaised, SubmitAccepted, SubmitRefused
<1>3. TableOK' /\ Grows
  BY <1>2, RowsKept
<1>4. CallsOK'
  <2>1. CASE RemovalRaised(a)
    BY <1>3, <2>1, IdleFine, CallWritten DEF RemovalRaised, Return
  <2>2. ASSUME NEW label \in {"removed", "submitted", "refused"}, Reply(a, label),
               label = "removed" => call[a].pc = "removing",
               label # "removed" => call[a].pc = "submitting"
        PROVE  CallsOK'
    <3> DEFINE c == [call[a] EXCEPT !.pc = label]
    <3>1. call' = [call EXCEPT ![a] = c]
      BY <2>2, <1>1 DEF Reply
    <3>2. c \in CallType /\ WellFormed(row', c)
      BY <1>1, <1>2, <2>2 DEF CallType, WellFormed
    <3> QED
      BY <1>3, <3>1, <3>2, CallWritten
  <2> QED
    BY <2>1, <2>2 DEF Answer, RemovalDone, SubmitAccepted, SubmitRefused, At
<1>5. OthersOK' /\ UNCHANGED <<todo, finished>>
  <2>1. call[a].pc = "submitting" => call[a].next \in Hashes
    BY <1>1 DEF WellFormed
  <2>2. remote' \in [Hashes -> RemoteStates] /\ unrecorded' \subseteq Hashes
    BY <2>1, Parts
    DEF Answer, RemovalDone, RemovalRaised, SubmitAccepted, SubmitRefused, Starts, At,
        Removes, Unrecord, OthersOK, RemoteStates
  <2>3. UNCHANGED <<wave, bounds>>
    BY DEF Answer, RemovalDone, RemovalRaised, SubmitAccepted, SubmitRefused
  <2> QED
    BY <2>2, <2>3, Parts DEF OthersOK, wave, bounds
<1> QED
  BY <1>3, <1>4, <1>5, PartsNext

LEMMA ResumesKeep ==
    ASSUME IInv, OverlapsOK', NEW a \in Actors, Resume(a)
    PROVE  IInv'
<1>1. call[a] \in CallType /\ WellFormed(row, call[a])
  BY DEF IInv, TypeOK, CallsWellFormed
<1>2. row \in [Rows -> RowType]
  BY DEF IInv, TypeOK
<1>3. TableOK' /\ CallsOK' /\ Grows
  <2>1. CASE AfterRemoval(a)
    <3> DEFINE r == call[a].row
    <3>1. r \in Rows /\ row[r].status # "none"
      BY <2>1, <1>1 DEF AfterRemoval, WellFormed, At
    <3>2. Sound(row[r])
      BY <3>1, RowSound
    <3>3. CASE row' = [row EXCEPT ![r] = Cancelled(row[r])] /\ Return(a)
      <4>1. TableOK' /\ Grows
        BY <3>1, <3>2, <3>3, CancelSound, RowWritten
      <4> QED
        BY <3>3, <4>1, IdleFine, CallWritten DEF Return
    <3>4. CASE Advance(a, r, [row[r] EXCEPT !.action = "submit"])
      BY <3>1, <3>2, <3>4, FailedSound, AdvanceKeeps
    <3> QED
      BY <2>1, <3>3, <3>4 DEF AfterRemoval
  <2>2. CASE RecordSwitch(a)
    <3> DEFINE r == call[a].row
    <3>1. r \in Rows /\ row[r].status # "none" /\ call[a].next \in Hashes
      BY <2>2, <1>1 DEF RecordSwitch, WellFormed, At
    <3>2. Sound(AfterSubmit(row[r], call[a].next))
      BY <3>1, RowSound, SubmitSound
    <3>3. TableOK' /\ Grows
      BY <2>2, <3>1, <3>2, RowWritten DEF RecordSwitch
    <3> QED
      BY <2>2, <3>3, IdleFine, CallWritten DEF RecordSwitch, Return
  <2>3. CASE RecordRefusal(a)
    <3> DEFINE r == call[a].row
    <3>1. CASE call[a].action = "enqueue"
      <4>1. TableOK' /\ Grows
        BY <2>3, <3>1, RowsKept DEF RecordRefusal
      <4> QED
        BY <2>3, <4>1, IdleFine, CallWritten DEF RecordRefusal, Return
    <3>2. CASE call[a].action # "enqueue"
      <4>1. r \in Rows /\ row[r].status # "none"
        BY <2>3, <3>2, <1>1 DEF RecordRefusal, WellFormed, At
      <4>2. Sound(SubmitFailed(row[r]))
        BY <4>1, RowSound, FailedSound
      <4>3. TableOK' /\ Grows
        BY <2>3, <3>2, <4>1, <4>2, RowWritten DEF RecordRefusal
      <4> QED
        BY <2>3, <4>3, IdleFine, CallWritten DEF RecordRefusal, Return
    <3> QED
      BY <3>1, <3>2
  <2>4. CASE RecordEnqueue(a)
    <3>1. call[a].next \in Hashes
      BY <2>4, <1>1 DEF RecordEnqueue, WellFormed, At
    <3>2. PICK r \in Rows : row' = [row EXCEPT ![r] = SeedRecovery(call[a].next)]
      BY <2>4 DEF RecordEnqueue, RowsWith, Unused
    <3>3. TableOK' /\ Grows
      BY <3>1, <3>2, SeedSound, RowWritten
    <3> QED
      BY <2>4, <3>3, IdleFine, CallWritten DEF RecordEnqueue, Return
  <2> QED
    BY <2>1, <2>2, <2>3, <2>4 DEF Resume
<1>4. OthersOK' /\ UNCHANGED <<todo, finished>>
  <2>1. unrecorded' \subseteq Hashes
    <3>1. CASE RecordSwitch(a)
      <4> DEFINE r == call[a].row
                 left == {g \in {row[r].hash, row[r].next} \ {NoHash} :
                            remote[g] # "absent"}
      <4>1. r \in Rows
        BY <3>1, <1>1 DEF RecordSwitch, At, WellFormed
      <4>2. row[r].hash \in OptHash /\ row[r].next \in OptHash
        BY <4>1, <1>2 DEF RowType
      <4>3. left \subseteq Hashes
        BY <4>2 DEF OptHash
      <4>4. unrecorded' \subseteq unrecorded \cup left
        BY <3>1 DEF RecordSwitch
      <4> QED
        BY <4>3, <4>4, Parts DEF OthersOK
    <3>2. CASE RecordEnqueue(a)
      BY <3>2, Parts, ForgottenTyped DEF RecordEnqueue, OthersOK, RowsWith, Unused
    <3>3. CASE UNCHANGED unrecorded
      BY <3>3, Parts DEF OthersOK
    <3> QED
      BY <3>1, <3>2, <3>3 DEF Resume, AfterRemoval, RecordRefusal
  <2>2. UNCHANGED <<remote, wave, bounds>>
    BY DEF Resume, AfterRemoval, RecordSwitch, RecordRefusal, RecordEnqueue
  <2> QED
    BY <2>1, <2>2, Parts DEF OthersOK, wave, bounds
<1> QED
  BY <1>3, <1>4, PartsNext

LEMMA PollKeeps ==
    ASSUME IInv, OverlapsOK', PollStep
    PROVE  IInv'
<1>0. Poller \in Actors
  BY DEF Actors
<1>1. CASE PollList \/ PollFailed \/ PollApply
  <2>1. TableOK' /\ Grows
    BY <1>1, RowsKept DEF PollList, PollFailed, PollApply
  <2>2. CallsOK'
    BY <1>0, <1>1, <2>1, IdleFine, CallWritten
    DEF PollList, PollFailed, PollApply, Return
  <2>3. OthersOK'
    BY <1>1, Parts
    DEF PollList, PollFailed, PollApply, OthersOK, bounds, NothingSeen, RemoteStates
  <2>4. WaveCreated'
    BY <1>1 DEF PollList, PollFailed, PollApply, IInv, WaveCreated
  <2> QED
    BY <2>1, <2>2, <2>3, <2>4 DEF IInv, TypeOK, TableOK, CallsOK, OthersOK, OverlapsOK
<1>2. ASSUME NEW r \in Rows, Complete(r)
      PROVE  IInv'
  <2> DEFINE u == [row[r] EXCEPT !.status = "done"]
  <2>1. row \in [Rows -> RowType] /\ row[r].status # "none"
    BY <1>2 DEF Complete, IInv, TypeOK, WaveCreated
  <2>2. Sound(u) /\ row' = [row EXCEPT ![r] = u]
    BY <1>2, <2>1, RowSound, FailedSound DEF Complete
  <2>3. TableOK' /\ Grows
    BY <2>2, RowWritten
  <2>4. CallsOK'
    BY <1>2, <2>3, CallsKept DEF Complete
  <2>5. OthersOK' /\ todo' \cup finished' \subseteq todo \cup finished
    BY <1>2, Parts DEF Complete, OthersOK, bounds
  <2> QED
    BY <2>3, <2>4, <2>5, PartsNext
<1>3. CASE AdvancePending
  <2>1. OthersOK' /\ UNCHANGED <<todo, finished>>
    BY <1>3, Parts DEF AdvancePending, OthersOK, wave, bounds
  <2>2. ASSUME NEW r \in PendingRows, Advance(Poller, r, row[r])
        PROVE  TableOK' /\ CallsOK' /\ Grows
    <3>1. r \in Rows /\ row[r].status # "none"
      BY DEF PendingRows, Pending, Cancellable
    <3> QED
      BY <1>0, <2>2, <3>1, RowSound, AdvanceKeeps
  <2>3. ASSUME Return(Poller), UNCHANGED row
        PROVE  TableOK' /\ CallsOK' /\ Grows
    <3>1. TableOK' /\ Grows
      BY <2>3, RowsKept
    <3>2. CallsOK'
      BY <1>0, <2>3, <3>1, IdleFine, CallWritten DEF Return
    <3> QED
      BY <3>1, <3>2
  <2>4. \/ \E r \in PendingRows : Advance(Poller, r, row[r])
        \/ Return(Poller) /\ UNCHANGED row
    BY <1>3 DEF AdvancePending
  <2>5. TableOK' /\ CallsOK' /\ Grows
    BY <2>2, <2>3, <2>4
  <2> QED
    BY <2>1, <2>5, PartsNext
<1> QED
  BY <1>1, <1>2, <1>3 DEF PollStep

LEMMA ApplyKeeps ==
    ASSUME IInv, OverlapsOK', ApplyStep
    PROVE  IInv'
<1>0. Poller \in Actors
  BY DEF Actors
<1>1. ASSUME NEW r \in Rows, ApplyRow(r)
      PROVE  IInv'
  <2>1. row[r].status # "none" /\ row \in [Rows -> RowType]
    BY <1>1 DEF ApplyRow, IInv, TypeOK, WaveCreated
  <2>2. OthersOK' /\ todo' \cup finished' \subseteq todo \cup finished
    BY <1>1, Parts DEF ApplyRow, OthersOK, bounds
  <2>3. ASSUME NEW t, Sound(t), t.attempts = row[r].attempts,
               NEW u \in Observed(r, t)
        PROVE  Sound(u)
    BY <2>3, SwitchSound DEF Observed
  <2>4. ASSUME NEW t \in {row[r], [row[r] EXCEPT !.status = "failed"]},
               NEW u \in Observed(r, t), row' = [row EXCEPT ![r] = u]
        PROVE  TableOK' /\ Grows
    <3>1. CASE t = row[r]
      <4>1. Sound(t) /\ t.attempts = row[r].attempts
        BY <2>1, <3>1, RowSound
      <4> QED
        BY <2>3, <2>4, <4>1, RowWritten
    <3>2. CASE t = [row[r] EXCEPT !.status = "failed"]
      <4>1. Sound(t)
        BY <2>1, <3>2, RowSound, FailedSound
      <4>2. t.attempts = row[r].attempts
        BY <2>1, <3>2 DEF RowType
      <4> QED
        BY <2>3, <2>4, <4>1, <4>2, RowWritten
    <3> QED
      BY <3>1, <3>2
  <2>5. TableOK' /\ Grows
    <3>1. CASE UNCHANGED row
      BY <3>1, RowsKept
    <3>2. CASE \E t \in Observed(r, row[r]) : row' = [row EXCEPT ![r] = t]
      BY <2>4, <3>2
    <3>3. CASE \E t \in Observed(r, [row[r] EXCEPT !.status = "failed"]) :
                 row' = [row EXCEPT ![r] = t]
      BY <2>4, <3>3
    <3> QED
      BY <1>1, <3>1, <3>2, <3>3 DEF ApplyRow
  <2>6. CallsOK'
    BY <1>1, <2>5, CallsKept DEF ApplyRow
  <2> QED
    BY <2>2, <2>5, <2>6, PartsNext
<1>2. CASE ApplyEnd
  <2>1. TableOK' /\ Grows
    BY <1>2, RowsKept DEF ApplyEnd
  <2>2. CallsOK'
    BY <1>0, <1>2, <2>1, IdleFine, CallWritten DEF ApplyEnd
  <2>3. OthersOK' /\ UNCHANGED <<todo, finished>>
    BY <1>2, Parts DEF ApplyEnd, OthersOK, bounds, NothingSeen, RemoteStates
  <2> QED
    BY <2>1, <2>2, <2>3, PartsNext
<1> QED
  BY <1>1, <1>2 DEF ApplyStep

LEMMA OutsideKeeps ==
    ASSUME IInv, OverlapsOK', Crash \/ \E h \in Hashes : RemoteEnds(h)
    PROVE  IInv'
<1>1. TableOK' /\ Grows
  BY RowsKept DEF Crash, RemoteEnds
<1>2. CallsOK'
  <2>1. CASE Crash
    BY <2>1, IdleFine DEF Crash, CallsOK, CallsWellFormed
  <2>2. CASE UNCHANGED call
    BY <1>1, <2>2, CallsKept
  <2> QED
    BY <2>1, <2>2 DEF RemoteEnds
<1>3. OthersOK'
  <2>1. CASE Crash
    BY <2>1, Parts, BoundsAssumption
    DEF Crash, OthersOK, NothingSeen, RemoteStates
  <2>2. ASSUME NEW h \in Hashes, RemoteEnds(h)
        PROVE  OthersOK'
    BY <2>2, Parts DEF RemoteEnds, OthersOK, wave, bounds, RemoteStates
  <2> QED
    BY <2>1, <2>2
<1>4. todo' \cup finished' \subseteq todo \cup finished
  BY DEF Crash, RemoteEnds, wave
<1> QED
  BY <1>1, <1>2, <1>3, <1>4, PartsNext

-----------------------------------------------------------------------------
LEMMA Initially == Init => IInv
<1> SUFFICES ASSUME Init PROVE IInv
  OBVIOUS
<1>1. row \in [Rows -> RowType]
  <2>1. NoTask \in RowType
    BY DEF NoTask, RowType, OptHash, Statuses, Steps
  <2> QED
    BY <2>1 DEF Init
<1>2. call \in [Actors -> CallType] /\ CallsWellFormed
  BY IdleFine DEF Init, CallsWellFormed
<1>3. OthersOK /\ OverlapsOK
  BY BoundsAssumption DEF Init, OthersOK, OverlapsOK, NothingSeen, RemoteStates
<1>4. CheckpointConsistent /\ WaveCreated
  BY DEF Init, CheckpointConsistent, Created, NoTask, WaveCreated
<1> QED
  BY <1>1, <1>2, <1>3, <1>4 DEF IInv, TypeOK, OthersOK, OverlapsOK

LEMMA Inductive == IInv /\ [Next]_vars => IInv'
<1> SUFFICES ASSUME IInv, [Next]_vars PROVE IInv'
  OBVIOUS
<1>1. CASE Next
  BY <1>1, OverlapsKept, RequestsKeep, AnswersKeep, ResumesKeep, PollKeeps, ApplyKeeps,
     OutsideKeeps
  DEF Next
<1>2. CASE UNCHANGED vars
  <2>1. TableOK' /\ Grows
    BY <1>2, RowsKept DEF vars
  <2>2. CallsOK'
    BY <1>2, <2>1, CallsKept DEF vars
  <2>3. OthersOK' /\ OverlapsOK' /\ UNCHANGED <<todo, finished>>
    BY <1>2, Parts DEF vars, OthersOK, OverlapsOK
  <2> QED
    BY <2>1, <2>2, <2>3, PartsNext
<1> QED
  BY <1>1, <1>2

(* The rows, the remote list and the awaiting calls have their types in    *)
(* every reachable state, however calls overlap.                           *)
THEOREM TypeCorrect == Spec => []TypeOK
<1>1. IInv => TypeOK
  BY DEF IInv
<1> QED
  BY <1>1, Initially, Inductive, PTL DEF Spec

(* However cancel, next, enqueue, poll and restart overlap, a row's hash   *)
(* is the last magnet tried and the magnet it queues was never tried.      *)
THEOREM CheckpointsConsistent == Spec => []CheckpointConsistent
<1>1. IInv => CheckpointConsistent
  BY DEF IInv
<1> QED
  BY <1>1, Initially, Inductive, PTL DEF Spec

-----------------------------------------------------------------------------
(* What a call carries across its await is what its row holds, unless      *)
(* another session has written the row since (behind) or the call itself   *)
(* had gone on from a row written so (overtaken).                          *)

Live(t) == t.status \in {"running", "failed"}
Carries(a) ==
    /\ call[a].pc \in {"removing", "removed", "submitting", "submitted", "refused"}
    /\ call[a].action # "enqueue"
Fresh(a) == Carries(a) /\ <<a, call[a].row>> \notin behind
Current(a) ==
    LET c == call[a] IN
    /\ row[c.row].action = c.action /\ row[c.row].hash = c.hash
    /\ row[c.row].next = c.next
    /\ Cancellable(c.row) \/ c.row \in overtaken
CallsCurrent == \A a \in Actors : Fresh(a) => Current(a)

(* The wave applies a listing to running rows, and completes rows that     *)
(* still run unless another session has written them since.                *)
Waves ==
    /\ todo # {} => Applying
    /\ finished # {} => call[Poller].pc \in {"applying", "completing"}
    /\ todo \cap finished = {}
    /\ \A r \in todo : row[r].status = "running"
    /\ \A r \in finished : <<Poller, r>> \in behind \/ row[r].status = "running"

(* What a row's status and action say of the magnet it has queued.         *)
Steady(t) ==
    /\ t.status = "running" /\ t.action = "" => t.next = NoHash
    /\ t.action = "cancel" => t.next = NoHash
RowsSteady == \A r \in Rows : Steady(row[r])

Distinct(s) == \A i, j \in 1..Len(s) : i # j => s[i] # s[j]
Capped(t) ==
    /\ Distinct(t.attempts) /\ Len(t.attempts) <= MaxAttempts
    /\ t.next # NoHash => Len(t.attempts) < MaxAttempts
    /\ t.status = "cancelled" => t.next = NoHash
RowsCapped == \A r \in Rows \ overtaken : Capped(row[r])

(* A present magnet is in unrecorded or some row accounts for it: the row  *)
(* has it queued, or it is the row's own and the row has not seen it       *)
(* removed.  Of an overtaken row nothing more is known than the names.     *)
Dropped(q) == \E a \in Actors : Fresh(a) /\ call[a].pc = "removed" /\ call[a].row = q
Keeps(q, h) ==
    /\ Created(q)
    /\ \/ row[q].next = h
       \/ row[q].hash = h /\ q \in overtaken
       \/ /\ row[q].hash = h /\ row[q].status # "cancelled"
          /\ row[q].action # "submit" /\ ~Dropped(q)
Kept ==
    \A h \in Hashes : remote[h] # "absent" =>
        h \in unrecorded \/ \E q \in Rows : Keeps(q, h)

Settled == IInv /\ CallsCurrent /\ Waves /\ RowsSteady /\ RowsCapped /\ Kept

-----------------------------------------------------------------------------
(* A session of a that writes row r, and what the new content u has to     *)
(* say for the invariant to survive it.                                    *)

SessionWrite(a, r, u) ==
    /\ row' = [row EXCEPT ![r] = u]
    /\ Others(a, r) \subseteq behind' /\ behind \ {<<a, r>>} \subseteq behind'
    /\ overtaken \ {r} \subseteq overtaken'
    /\ \A b \in Actors \ {a} : call'[b] = call[b]
    /\ call'[a].pc # "removed"
    /\ UNCHANGED <<remote, todo>> /\ ~Applying
    /\ \/ UNCHANGED finished /\ (a = Poller => finished = {})
       \/ a = Poller /\ UNCHANGED call /\ finished' = finished \ {r}

Names(r, u, h) ==
    \/ u.next = h
    \/ u.hash = h /\ r \in overtaken'
    \/ u.hash = h /\ u.status # "cancelled" /\ u.action # "submit"
Settling(a, r, u) ==
    /\ u.status # "none" /\ Steady(u)
    /\ r \notin overtaken' => Capped(u)
    /\ Fresh(a)' => Current(a)'
    /\ \A h \in Hashes :
         remote[h] # "absent" /\ (h \in unrecorded \/ Keeps(r, h)) =>
             h \in unrecorded' \/ Names(r, u, h)

LEMMA CallTyped ==
    ASSUME IInv, NEW a \in Actors
    PROVE  /\ call[a] \in CallType /\ WellFormed(row, call[a])
           /\ Carries(a) => /\ call[a].row \in Rows
                            /\ row[call[a].row].status # "none"
                            /\ call[a].action \in {"cancel", "switch", "submit"}
<1>1. call[a] \in CallType /\ WellFormed(row, call[a])
  BY DEF IInv, TypeOK, CallsWellFormed
<1> QED
  BY <1>1 DEF Carries, WellFormed

(* Actors other than the writer that are still up to date have another row.*)
LEMMA OthersApart ==
    ASSUME IInv, NEW a \in Actors, NEW r \in Rows, NEW u, SessionWrite(a, r, u),
           NEW b \in Actors \ {a}, Fresh(b)'
    PROVE  Fresh(b) /\ call[b].row # r
<1>1. call'[b] = call[b] /\ Carries(b)
  BY DEF SessionWrite, Fresh, Carries
<1>2. ASSUME call[b].row = r
      PROVE  FALSE
  <2>1. <<b, r>> \in Others(a, r)
    BY <1>2 DEF Others, InHand
  <2> QED
    BY <1>1, <1>2, <2>1 DEF SessionWrite, Fresh
<1>3. <<b, call[b].row>> \notin behind' /\ <<b, call[b].row>> # <<a, r>>
  BY <1>1 DEF Fresh
<1>4. <<b, call[b].row>> \notin behind
  BY <1>3 DEF SessionWrite
<1> QED
  BY <1>1, <1>2, <1>4 DEF Fresh

LEMMA WriteSettles ==
    ASSUME Settled, IInv', NEW a \in Actors, NEW r \in Rows, NEW u,
           SessionWrite(a, r, u), Settling(a, r, u)
    PROVE  Settled'
<1>0. IInv
  BY DEF Settled
<1>1. \A q \in Rows : row'[q] = IF q = r THEN u ELSE row[q]
  BY <1>0 DEF SessionWrite, IInv, TypeOK
<1>2. CallsCurrent'
  <2>1. ASSUME NEW b \in Actors, Fresh(b)'
        PROVE  Current(b)'
    <3>1. CASE b = a
      BY <2>1, <3>1 DEF Settling
    <3>2. CASE b # a
      <4>1. Fresh(b) /\ call[b].row # r /\ call'[b] = call[b]
        BY <1>0, <2>1, <3>2, OthersApart DEF SessionWrite
      <4>2. call[b].row \in Rows
        BY <1>0, <4>1, CallTyped DEF Fresh
      <4>3. row'[call[b].row] = row[call[b].row]
        BY <1>1, <4>1, <4>2
      <4>4. Current(b)
        BY <4>1 DEF Settled, CallsCurrent
      <4>5. call[b].row \in overtaken => call[b].row \in overtaken'
        BY <4>1 DEF SessionWrite
      <4> QED
        BY <4>1, <4>3, <4>4, <4>5 DEF Current, Cancellable
    <3> QED
      BY <3>1, <3>2
  <2> QED
    BY <2>1 DEF CallsCurrent
<1>3. Waves'
  <2>1. todo = {} /\ todo' = {}
    BY DEF Settled, Waves, SessionWrite
  <2>2. CASE UNCHANGED finished /\ (a = Poller => finished = {})
    <3>1. CASE finished = {}
      BY <2>1, <2>2, <3>1 DEF Waves
    <3>2. CASE a # Poller
      <4>1. Poller \in Actors \ {a} /\ call'[Poller] = call[Poller]
        BY <3>2 DEF Actors, SessionWrite
      <4>2. ASSUME NEW q \in finished, <<Poller, q>> \notin behind'
            PROVE  row'[q].status = "running"
        <5>0. finished \subseteq Rows
          BY <1>0 DEF IInv, TypeOK
        <5>1. q # r
          BY <4>1, <4>2 DEF SessionWrite, Others, InHand
        <5>2. <<Poller, q>> \notin behind
          BY <4>2, <3>2 DEF SessionWrite
        <5> QED
          BY <1>1, <5>0, <5>1, <5>2 DEF Settled, Waves
      <4> QED
        BY <2>1, <2>2, <4>1, <4>2 DEF Settled, Waves
    <3> QED
      BY <2>2, <3>1, <3>2
  <2>3. CASE a = Poller /\ UNCHANGED call /\ finished' = finished \ {r}
    <3>1. ASSUME NEW q \in finished', <<Poller, q>> \notin behind'
          PROVE  row'[q].status = "running"
      <4>0. finished \subseteq Rows
        BY <1>0 DEF IInv, TypeOK
      <4>1. q # r /\ q \in finished
        BY <2>3, <3>1
      <4>2. <<Poller, q>> \notin behind
        BY <3>1, <4>1 DEF SessionWrite
      <4> QED
        BY <1>1, <4>0, <4>1, <4>2 DEF Settled, Waves
    <3> QED
      BY <2>1, <2>3, <3>1 DEF Settled, Waves
  <2> QED
    BY <2>2, <2>3 DEF SessionWrite
<1>4. RowsSteady' /\ RowsCapped'
  <2>1. RowsSteady'
    BY <1>1 DEF Settled, RowsSteady, Settling
  <2>2. ASSUME NEW q \in Rows \ overtaken'
        PROVE  Capped(row'[q])
    <3>1. CASE q = r
      BY <1>1, <2>2, <3>1 DEF Settling
    <3>2. CASE q # r
      <4>1. q \in Rows \ overtaken
        BY <2>2, <3>2 DEF SessionWrite
      <4> QED
        BY <1>1, <3>2, <4>1 DEF Settled, RowsCapped
    <3> QED
      BY <3>1, <3>2
  <2>3. RowsCapped'
    BY <2>2 DEF RowsCapped
  <2> QED
    BY <2>1, <2>3
<1>5. Kept'
  <2>1. ASSUME NEW q \in Rows, NEW b \in Actors, Fresh(b)', call'[b].pc = "removed",
               call'[b].row = q
        PROVE  Dropped(q) /\ q # r
    <3>1. b # a
      BY <2>1 DEF SessionWrite
    <3>2. Fresh(b) /\ call[b].row # r /\ call'[b] = call[b]
      BY <1>0, <2>1, <3>1, OthersApart DEF SessionWrite
    <3> QED
      BY <2>1, <3>2 DEF Dropped
  <2>2. ASSUME NEW h \in Hashes, NEW q \in Rows \ {r}, Keeps(q, h)
        PROVE  Keeps(q, h)'
    <3>1. row'[q] = row[q] /\ (q \in overtaken => q \in overtaken')
      BY <1>1, <2>2 DEF SessionWrite
    <3>2. Dropped(q)' => Dropped(q)
      BY <2>1 DEF Dropped
    <3> QED
      BY <2>2, <3>1, <3>2 DEF Keeps, Created
  <2>3. ASSUME NEW h \in Hashes, Names(r, u, h)
        PROVE  Keeps(r, h)'
    <3>1. row'[r] = u
      BY <1>1
    <3>2. ~Dropped(r)'
      BY <2>1 DEF Dropped
    <3> QED
      BY <2>3, <3>1, <3>2 DEF Keeps, Names, Settling, Created
  <2>4. ASSUME NEW h \in Hashes, remote'[h] # "absent"
        PROVE  h \in unrecorded' \/ \E q \in Rows : Keeps(q, h)'
    <3>1. remote[h] # "absent"
      BY <2>4 DEF SessionWrite
    <3>2. CASE h \in unrecorded \/ Keeps(r, h)
      BY <2>3, <3>1, <3>2 DEF Settling
    <3>3. CASE \E q \in Rows \ {r} : Keeps(q, h)
      BY <2>2, <3>3
    <3> QED
      BY <3>1, <3>2, <3>3 DEF Settled, Kept
  <2> QED
    BY <2>4 DEF Kept
<1> QED
  BY <1>2, <1>3, <1>4, <1>5 DEF Settled

-----------------------------------------------------------------------------
(* The transitions of a checkpoint keep it within the cap.                 *)

LEMMA CandidatesFresh ==
    ASSUME NEW r \in Rows, NEW h \in Candidates(r)
    PROVE  h \in Hashes /\ h \notin Attempted(row[r])
           /\ ~(Len(row[r].attempts) >= MaxAttempts)
<1>1. ~(Len(row[r].attempts) >= MaxAttempts)
  BY DEF Candidates
<1> QED
  BY <1>1 DEF Candidates

LEMMA Appended ==
    ASSUME NEW s \in Seq(Hashes), NEW h \in Hashes
    PROVE  /\ Len(Append(s, h)) = Len(s) + 1 /\ Len(s) \in Nat
           /\ \A i \in 1..Len(s) : Append(s, h)[i] = s[i]
           /\ Append(s, h)[Len(s) + 1] = h
  OBVIOUS

LEMMA SubmitCapped ==
    ASSUME NEW t \in RowType, Capped(t), Consistent(t), t.next # NoHash
    PROVE  Capped(AfterSubmit(t, t.next))
<1> DEFINE s == t.attempts
           u == AfterSubmit(t, t.next)
<1>1. s \in Seq(Hashes) /\ t.next \in Hashes /\ Len(s) < MaxAttempts /\ Distinct(s)
  BY DEF RowType, OptHash, Capped
<1>2. \A i \in 1..Len(s) : s[i] # t.next
  BY DEF Consistent, Attempted
<1>3. u.attempts = Append(s, t.next) /\ u.next = NoHash /\ u.status = "running"
  BY DEF AfterSubmit, RowType
<1> HIDE DEF s, u
<1>4. /\ Len(u.attempts) = Len(s) + 1 /\ Len(s) \in Nat
      /\ \A i \in 1..Len(s) : u.attempts[i] = s[i]
      /\ u.attempts[Len(s) + 1] = t.next
  <2>1. s \in Seq(Hashes) /\ t.next \in Hashes
    BY <1>1
  <2>2. /\ Len(Append(s, t.next)) = Len(s) + 1 /\ Len(s) \in Nat
        /\ \A i \in 1..Len(s) : Append(s, t.next)[i] = s[i]
        /\ Append(s, t.next)[Len(s) + 1] = t.next
    BY <2>1, Appended
  <2> QED
    BY <1>3, <2>2, ZenonT(30)
<1>5. Distinct(u.attempts)
  <2> SUFFICES ASSUME NEW i \in 1..(Len(s) + 1), NEW j \in 1..(Len(s) + 1), i # j
               PROVE  u.attempts[i] # u.attempts[j]
    BY <1>4 DEF Distinct
  <2>1. CASE i \in 1..Len(s) /\ j \in 1..Len(s)
    BY <1>1, <1>4, <2>1 DEF Distinct
  <2>2. CASE i = Len(s) + 1 /\ j \in 1..Len(s)
    BY <1>2, <1>4, <2>2 DEF s
  <2>3. CASE j = Len(s) + 1 /\ i \in 1..Len(s)
    BY <1>2, <1>4, <2>3 DEF s
  <2> QED
    BY <1>4, <2>1, <2>2, <2>3
<1>6. Len(u.attempts) <= MaxAttempts
  BY <1>1, <1>4, BoundsAssumption
<1> QED
  BY <1>3, <1>5, <1>6 DEF Capped, u

LEMMA SeedCapped ==
    ASSUME NEW h \in Hashes
    PROVE  Capped(SeedRecovery(h)) /\ Steady(SeedRecovery(h))
<1>1. Len(<<h>>) = 1
  OBVIOUS
<1> QED
  BY <1>1, BoundsAssumption DEF SeedRecovery, Capped, Distinct, Steady

LEMMA SwitchCapped ==
    ASSUME NEW r \in Rows, NEW t \in RowType, t.attempts = row[r].attempts,
           NEW u \in BeginSwitch(r, t)
    PROVE  /\ Steady(u) /\ u.hash = t.hash /\ u.action \in {"switch", ""}
           /\ u.status \in {t.status, "failed"}
           /\ u.next = NoHash \/ u.next \in Hashes
           /\ Capped(t) /\ t.status # "cancelled" => Capped(u)
<1>1. CASE u = Exhaust(t)
  BY <1>1 DEF Exhaust, RowType, Steady, Capped
<1>2. CASE \E h \in Candidates(r) : u = QueueSwitch(t, h)
  <2>1. PICK h \in Candidates(r) : u = QueueSwitch(t, h)
    BY <1>2
  <2>2. /\ u.attempts = t.attempts /\ u.next = h /\ u.status = t.status
        /\ u.action = "switch" /\ u.hash = t.hash
    BY <2>1 DEF QueueSwitch, RowType
  <2>3. h \in Hashes /\ ~(Len(t.attempts) >= MaxAttempts) /\ Len(t.attempts) \in Nat
    BY CandidatesFresh DEF RowType
  <2>4. Len(t.attempts) < MaxAttempts
    BY <2>3, BoundsAssumption
  <2> QED
    BY <2>2, <2>3, <2>4 DEF Steady, Capped
<1> QED
  BY <1>1, <1>2 DEF BeginSwitch

-----------------------------------------------------------------------------
(* The sessions of a request and of an answered call settle.               *)

LEMMA RewriteIs ==
    ASSUME NEW a \in Actors, NEW r \in Rows, Rewrites(a, r)
    PROVE  /\ Others(a, r) \subseteq behind' /\ behind \ {<<a, r>>} \subseteq behind'
           /\ overtaken \subseteq overtaken'
           /\ <<a, r>> \in behind => r \in overtaken'
<1>1. <<a, r>> \notin Others(a, r)
  BY DEF Others
<1> QED
  BY <1>1 DEF Rewrites

LEMMA PollerFree ==
    ASSUME Settled, NEW a \in Actors,
           call[a].pc \in {"idle", "removing", "removed", "submitting", "submitted",
                           "refused", "listed"}
    PROVE  a = Poller => finished = {}
  BY DEF Settled, Waves

LEMMA AdvanceSettles ==
    ASSUME Settled, IInv', NEW a \in Actors, NEW r \in Rows, NEW t \in RowType,
           Advance(a, r, t), Rewrites(a, r), ~Applying,
           UNCHANGED <<remote, todo, finished>>, a = Poller => finished = {},
           t.status # "none", Steady(t), r \notin overtaken' => Capped(t),
           Live(t) \/ r \in overtaken',
           \A h \in Hashes :
             remote[h] # "absent" /\ (h \in unrecorded \/ Keeps(r, h)) =>
                 h \in unrecorded' \/ Names(r, t, h)
    PROVE  Settled'
<1>0. row \in [Rows -> RowType] /\ call \in [Actors -> CallType]
  BY DEF Settled, IInv, TypeOK
<1>1. ASSUME NEW u, row' = [row EXCEPT ![r] = u],
             NEW c, call' = [call EXCEPT ![a] = c], c.pc # "removed"
      PROVE  SessionWrite(a, r, u) /\ row'[r] = u /\ call'[a] = c
  BY <1>0, <1>1, RewriteIs DEF SessionWrite
<1>2. ASSUME NEW label \in {"removing", "submitting"},
             row' = [row EXCEPT ![r] = t], call' = [call EXCEPT ![a] = Sent(r, t, label)]
      PROVE  Settled'
  <2>1. Sent(r, t, label).pc = label
    BY DEF Sent
  <2>2. SessionWrite(a, r, t) /\ row'[r] = t /\ call'[a] = Sent(r, t, label)
    BY <1>1, <1>2, <2>1
  <2>3. Current(a)'
    BY <2>2 DEF Current, Sent, Cancellable, Live
  <2>4. Settling(a, r, t)
    BY <2>3 DEF Settling
  <2> QED
    BY <2>2, <2>4, WriteSettles
<1>3. ASSUME NEW u \in {t, MissingNext(t)}, row' = [row EXCEPT ![r] = u],
             call' = [call EXCEPT ![a] = Idle], u = t \/ t.next = NoHash
      PROVE  Settled'
  <2>1. Idle.pc = "idle"
    BY DEF Idle
  <2>2. SessionWrite(a, r, u) /\ call'[a] = Idle
    BY <1>1, <1>3, <2>1
  <2>3. ~Fresh(a)'
    BY <2>1, <2>2 DEF Fresh, Carries
  <2>4. u # t => /\ u.next = t.next /\ u.hash = t.hash /\ u.attempts = t.attempts
                 /\ u.status = "failed" /\ u.action = ""
    BY <1>3 DEF MissingNext, SubmitFailed, RowType
  <2>5. u.status # "none" /\ Steady(u) /\ (r \notin overtaken' => Capped(u))
    BY <2>4 DEF Steady, Capped
  <2>6. \A h \in Hashes : Names(r, t, h) => Names(r, u, h)
    BY <2>4 DEF Names
  <2>7. Settling(a, r, u)
    BY <2>3, <2>5, <2>6 DEF Settling
  <2> QED
    BY <2>2, <2>7, WriteSettles
<1> QED
  BY <1>2, <1>3 DEF Advance

LEMMA AtStage ==
    ASSUME Settled, NEW a \in Actors,
           NEW label \in {"idle", "removed", "submitted", "refused"}, At(a, label)
    PROVE  ~Applying /\ (a = Poller => finished = {})
  BY PollerFree DEF At

LEMMA RequestsSettle ==
    ASSUME Settled, IInv', NEW a \in Clients, NEW r \in Rows,
           RequestCancel(a, r) \/ RequestNext(a, r)
    PROVE  Settled'
<1>0. a \in Actors /\ IInv /\ row[r] \in RowType /\ Sound(row[r])
      /\ row[r].status \in {"running", "failed"} /\ ~Applying /\ a # Poller
  BY RowSound, ActorsAssumption
  DEF Actors, RequestCancel, RequestNext, Cancellable, At, Settled, IInv, TypeOK
<1>1. Rewrites(a, r) /\ UNCHANGED <<remote, todo, finished>>
  BY DEF RequestCancel, RequestNext, wave
<1>2. r \notin overtaken' => Capped(row[r])
  BY <1>0, <1>1, RewriteIs DEF Settled, RowsCapped
<1>3. ASSUME NEW t, unrecorded' = unrecorded \cup Forgotten(r, t),
             t.hash = row[r].hash, t.status \in {"running", "failed"},
             t.action # "submit",
             NEW h \in Hashes, remote[h] # "absent", h \in unrecorded \/ Keeps(r, h)
      PROVE  h \in unrecorded' \/ Names(r, t, h)
  <2>1. CASE h \in unrecorded
    BY <1>3, <2>1
  <2>2. CASE h = row[r].next
    BY <1>3, <2>2, HashesAssumption DEF Forgotten, Names
  <2>3. CASE h = row[r].hash
    BY <1>3, <2>3 DEF Names
  <2> QED
    BY <1>3, <2>1, <2>2, <2>3 DEF Keeps
<1>4. CASE RequestCancel(a, r)
  <2> DEFINE t == BeginCancel(row[r])
  <2>1. Advance(a, r, t) /\ unrecorded' = unrecorded \cup Forgotten(r, t)
    BY <1>4 DEF RequestCancel
  <2>2. /\ t \in RowType /\ t.hash = row[r].hash /\ t.status = row[r].status
        /\ t.action = "cancel" /\ t.next = NoHash /\ t.attempts = row[r].attempts
    BY <1>0, CancelSound DEF BeginCancel, RowType, Sound
  <2> HIDE DEF t
  <2>3. Steady(t) /\ (r \notin overtaken' => Capped(t)) /\ Live(t)
    BY <1>0, <1>2, <2>2 DEF Steady, Capped, Live
  <2>4. \A h \in Hashes :
          remote[h] # "absent" /\ (h \in unrecorded \/ Keeps(r, h)) =>
              h \in unrecorded' \/ Names(r, t, h)
    BY <1>0, <1>3, <2>1, <2>2
  <2> QED
    BY <1>0, <1>1, <2>1, <2>2, <2>3, <2>4, AdvanceSettles
<1>5. CASE RequestNext(a, r)
  <2>1. PICK t \in BeginSwitch(r, row[r]) :
          Advance(a, r, t) /\ unrecorded' = unrecorded \cup Forgotten(r, t)
    BY <1>5 DEF RequestNext
  <2>2. /\ t \in RowType /\ t.hash = row[r].hash /\ t.action # "submit"
        /\ t.status \in {"running", "failed"} /\ Steady(t)
        /\ Capped(row[r]) => Capped(t)
    BY <1>0, SwitchCapped, SwitchSound DEF Sound
  <2>3. Live(t) /\ (r \notin overtaken' => Capped(t)) /\ t.status # "none"
    BY <1>2, <2>2 DEF Live
  <2>4. \A h \in Hashes :
          remote[h] # "absent" /\ (h \in unrecorded \/ Keeps(r, h)) =>
              h \in unrecorded' \/ Names(r, t, h)
    BY <1>3, <2>1, <2>2
  <2> QED
    BY <1>0, <1>1, <2>1, <2>2, <2>3, <2>4, AdvanceSettles
<1> QED
  BY <1>4, <1>5

LEMMA RemovedSettles ==
    ASSUME Settled, IInv', NEW a \in Actors, AfterRemoval(a)
    PROVE  Settled'
<1> DEFINE r == call[a].row
           t == [row[r] EXCEPT !.action = "submit"]
<1>0. IInv /\ call[a].pc = "removed" /\ ~Applying /\ (a = Poller => finished = {})
  BY AtStage DEF Settled, AfterRemoval, At
<1>1. /\ r \in Rows /\ row[r].status # "none" /\ row[r] \in RowType
      /\ Carries(a) /\ call \in [Actors -> CallType]
  BY <1>0, CallTyped DEF AfterRemoval, WellFormed, Carries, IInv, TypeOK
<1>2. Rewrites(a, r) /\ UNCHANGED <<remote, todo, finished, unrecorded>>
  BY DEF AfterRemoval, wave
<1>3. ASSUME r \notin overtaken'
      PROVE  Capped(row[r]) /\ Fresh(a) /\ Current(a) /\ Dropped(r) /\ r \notin overtaken
  <2>1. r \notin overtaken /\ <<a, r>> \notin behind
    BY <1>1, <1>2, <1>3, RewriteIs
  <2>2. Fresh(a)
    BY <1>1, <2>1 DEF Fresh
  <2> QED
    BY <1>0, <1>1, <2>1, <2>2 DEF Dropped, Settled, CallsCurrent, RowsCapped
<1>4. ASSUME NEW u, u.hash = row[r].hash, u.next = row[r].next,
             NEW h \in Hashes, h \in unrecorded \/ Keeps(r, h)
      PROVE  h \in unrecorded' \/ Names(r, u, h)
  <2>1. CASE r \in overtaken'
    BY <1>2, <1>4, <2>1 DEF Keeps, Names
  <2>2. CASE r \notin overtaken'
    BY <1>2, <1>3, <1>4, <2>2 DEF Keeps, Names
  <2> QED
    BY <2>1, <2>2
<1>5. CASE call[a].action = "cancel"
  <2> DEFINE u == Cancelled(row[r])
  <2>1. row' = [row EXCEPT ![r] = u] /\ call' = [call EXCEPT ![a] = Idle]
    BY <1>5 DEF AfterRemoval, Return
  <2>2. /\ u.hash = row[r].hash /\ u.next = row[r].next /\ u.status = "cancelled"
        /\ u.action = "" /\ u.attempts = row[r].attempts
    BY <1>1 DEF Cancelled, RowType
  <2> HIDE DEF u
  <2>3. call'[a].pc = "idle" /\ \A b \in Actors \ {a} : call'[b] = call[b]
    BY <1>1, <2>1 DEF Idle
  <2>4. SessionWrite(a, r, u)
    BY <1>0, <1>1, <1>2, <2>1, <2>3, RewriteIs DEF SessionWrite
  <2>5. Steady(u) /\ ~Fresh(a)'
    BY <2>2, <2>3 DEF Steady, Fresh, Carries
  <2>6. ASSUME r \notin overtaken'
        PROVE  Capped(u)
    <3>1. row[r].action = "cancel"
      BY <1>3, <1>5, <2>6 DEF Current
    <3>2. row[r].next = NoHash
      BY <1>1, <3>1 DEF Settled, RowsSteady, Steady
    <3> QED
      BY <1>3, <2>2, <2>6, <3>2 DEF Capped
  <2>7. \A h \in Hashes :
          h \in unrecorded \/ Keeps(r, h) => h \in unrecorded' \/ Names(r, u, h)
    BY <1>4, <2>2
  <2>8. Settling(a, r, u)
    BY <2>2, <2>5, <2>6, <2>7 DEF Settling
  <2> QED
    BY <1>1, <2>4, <2>8, WriteSettles
<1>6. CASE call[a].action = "switch"
  <2>1. Advance(a, r, t)
    BY <1>6 DEF AfterRemoval
  <2>2. /\ t \in RowType /\ t.hash = row[r].hash /\ t.next = row[r].next
        /\ t.status = row[r].status /\ t.action = "submit"
        /\ t.attempts = row[r].attempts
    BY <1>1 DEF RowType, Steps
  <2> HIDE DEF t
  <2>3. Steady(t) /\ (r \notin overtaken' => Capped(t))
    BY <1>3, <2>2 DEF Steady, Capped
  <2>4. Live(t) \/ r \in overtaken'
    BY <1>3, <2>2 DEF Current, Cancellable, Live
  <2>5. \A h \in Hashes :
          h \in unrecorded \/ Keeps(r, h) => h \in unrecorded' \/ Names(r, t, h)
    BY <1>4, <2>2
  <2> HIDE DEF r
  <2>6. t.status # "none"
    BY <1>1, <2>2
  <2> QED
    BY <1>0, <1>1, <1>2, <2>1, <2>2, <2>3, <2>4, <2>5, <2>6, AdvanceSettles
<1> QED
  BY <1>5, <1>6 DEF AfterRemoval

LEMMA SwitchSettles ==
    ASSUME Settled, IInv', NEW a \in Actors, RecordSwitch(a)
    PROVE  Settled'
<1> DEFINE r == call[a].row
           h == call[a].next
           u == AfterSubmit(row[r], h)
<1>0. /\ IInv /\ call[a].pc = "submitted" /\ call[a].action = "submit" /\ ~Applying
      /\ a = Poller => finished = {}
  BY AtStage DEF Settled, RecordSwitch, At
<1>1. /\ r \in Rows /\ row[r].status # "none" /\ row[r] \in RowType /\ h \in Hashes
      /\ Carries(a) /\ call \in [Actors -> CallType] /\ Consistent(row[r])
  BY <1>0, CallTyped, RowSound DEF WellFormed, Carries, IInv, TypeOK, Sound
<1>2. /\ Rewrites(a, r) /\ UNCHANGED <<remote, todo, finished>>
      /\ row' = [row EXCEPT ![r] = u] /\ call' = [call EXCEPT ![a] = Idle]
  BY DEF RecordSwitch, wave, Return
<1>3. ASSUME r \notin overtaken'
      PROVE  Capped(row[r]) /\ Current(a) /\ r \notin overtaken
  <2>1. r \notin overtaken /\ <<a, r>> \notin behind
    BY <1>1, <1>2, <1>3, RewriteIs
  <2>2. Fresh(a)
    BY <1>1, <2>1 DEF Fresh
  <2> QED
    BY <1>1, <2>1, <2>2 DEF Settled, CallsCurrent, RowsCapped
<1>4. u.hash = h /\ u.status = "running" /\ u.action = "" /\ u.next = NoHash
  BY <1>1 DEF AfterSubmit, RowType
<1>5. ASSUME r \notin overtaken'
      PROVE  Capped(u)
  <2>1. row[r].next = h /\ h # NoHash
    BY <1>1, <1>3, <1>5, HashesAssumption DEF Current
  <2> QED
    BY <1>1, <1>3, <1>5, <2>1, SubmitCapped
<1>6. ASSUME NEW g \in Hashes, remote[g] # "absent", g \in unrecorded \/ Keeps(r, g)
      PROVE  g \in unrecorded' \/ Names(r, u, g)
  <2>1. CASE g = h
    BY <1>4, <2>1 DEF Names
  <2>2. CASE g # h /\ g \in unrecorded
    BY <2>2 DEF RecordSwitch
  <2>3. CASE g # h /\ Keeps(r, g) /\ r \in overtaken'
    <3>1. g \in {row[r].hash, row[r].next} \ {NoHash}
      BY <2>3, HashesAssumption DEF Keeps
    <3> QED
      BY <1>6, <2>3, <3>1 DEF RecordSwitch
  <2>4. CASE g # h /\ Keeps(r, g) /\ r \notin overtaken'
    <3>1. row[r].next = h /\ row[r].action = "submit" /\ r \notin overtaken
      BY <1>0, <1>3, <2>4 DEF Current
    <3> QED
      BY <2>4, <3>1 DEF Keeps
  <2> QED
    BY <1>6, <2>1, <2>2, <2>3, <2>4
<1> HIDE DEF u, r, h
<1>7. call'[a].pc = "idle" /\ \A b \in Actors \ {a} : call'[b] = call[b]
  BY <1>1, <1>2 DEF Idle
<1>8. SessionWrite(a, r, u)
  BY <1>0, <1>1, <1>2, <1>7, RewriteIs DEF SessionWrite
<1>9. Settling(a, r, u)
  BY <1>4, <1>5, <1>6, <1>7 DEF Settling, Steady, Fresh, Carries
<1> QED
  BY <1>1, <1>8, <1>9, WriteSettles

LEMMA RefusalSettles ==
    ASSUME Settled, IInv', NEW a \in Actors, RecordRefusal(a),
           call[a].action # "enqueue"
    PROVE  Settled'
<1> DEFINE r == call[a].row
           u == SubmitFailed(row[r])
<1>0. IInv /\ call[a].pc = "refused" /\ ~Applying /\ (a = Poller => finished = {})
  BY AtStage DEF Settled, RecordRefusal, At
<1>1. r \in Rows /\ row[r] \in RowType /\ call \in [Actors -> CallType]
  BY <1>0, CallTyped DEF WellFormed, IInv, TypeOK
<1>2. /\ Rewrites(a, r) /\ UNCHANGED <<remote, todo, finished, unrecorded>>
      /\ row' = [row EXCEPT ![r] = u] /\ call' = [call EXCEPT ![a] = Idle]
  BY DEF RecordRefusal, wave, Return
<1>3. /\ u.hash = row[r].hash /\ u.status = "failed" /\ u.action = ""
      /\ u.next = row[r].next /\ u.attempts = row[r].attempts
  BY <1>1 DEF SubmitFailed, RowType
<1>4. r \notin overtaken' => Capped(row[r])
  BY <1>1, <1>2, RewriteIs DEF Settled, RowsCapped
<1> HIDE DEF u, r
<1>5. call'[a].pc = "idle" /\ \A b \in Actors \ {a} : call'[b] = call[b]
  BY <1>1, <1>2 DEF Idle
<1>6. SessionWrite(a, r, u)
  BY <1>0, <1>1, <1>2, <1>5, RewriteIs DEF SessionWrite
<1>7. Steady(u) /\ (r \notin overtaken' => Capped(u)) /\ ~Fresh(a)'
  BY <1>3, <1>4, <1>5 DEF Steady, Capped, Fresh, Carries
<1>8. \A h \in Hashes :
        h \in unrecorded \/ Keeps(r, h) => h \in unrecorded' \/ Names(r, u, h)
  BY <1>2, <1>3 DEF Keeps, Names
<1>9. Settling(a, r, u)
  BY <1>3, <1>7, <1>8 DEF Settling
<1> QED
  BY <1>1, <1>6, <1>9, WriteSettles

LEMMA EnqueueSettles ==
    ASSUME Settled, IInv', NEW a \in Actors, RecordEnqueue(a)
    PROVE  Settled'
<1> DEFINE h == call[a].next
           u == SeedRecovery(h)
<1>0. IInv /\ call[a].pc = "submitted" /\ ~Applying /\ (a = Poller => finished = {})
  BY AtStage DEF Settled, RecordEnqueue, At
<1>1. h \in Hashes /\ call \in [Actors -> CallType]
  BY <1>0, CallTyped DEF WellFormed, IInv, TypeOK
<1>2. PICK r \in Rows :
        /\ r \in RowsWith(h) \/ r \in Unused
        /\ row' = [row EXCEPT ![r] = u]
        /\ unrecorded' = (unrecorded \cup Forgotten(r, u)) \ {h}
        /\ behind' = behind \cup Others(a, r)
        /\ overtaken' = overtaken \ {r}
  BY DEF RecordEnqueue, RowsWith, Unused
<1>3. /\ UNCHANGED <<remote, todo, finished>> /\ call' = [call EXCEPT ![a] = Idle]
  BY DEF RecordEnqueue, wave, Return
<1>4. Steady(u) /\ Capped(u)
  BY <1>1, SeedCapped
<1>5. u.hash = h /\ u.status = "running" /\ u.action = "" /\ u.next = NoHash
  BY DEF SeedRecovery
<1>6. ASSUME NEW g \in Hashes, remote[g] # "absent", g \in unrecorded \/ Keeps(r, g)
      PROVE  g \in unrecorded' \/ Names(r, u, g)
  <2>1. CASE g = h
    BY <1>5, <2>1 DEF Names
  <2>2. CASE g # h /\ g \in unrecorded
    BY <1>2, <2>2
  <2>3. CASE g # h /\ Keeps(r, g)
    <3>1. row[r].hash # g
      BY <1>2, <2>3 DEF Keeps, RowsWith, Unused
    <3>2. row[r].next = g
      BY <2>3, <3>1 DEF Keeps
    <3>3. g \in Forgotten(r, u)
      BY <1>5, <1>6, <3>2, HashesAssumption DEF Forgotten
    <3> QED
      BY <1>2, <2>3, <3>3
  <2> QED
    BY <1>6, <2>1, <2>2, <2>3
<1> HIDE DEF u, h
<1>7. call'[a].pc = "idle" /\ \A b \in Actors \ {a} : call'[b] = call[b]
  BY <1>1, <1>3 DEF Idle
<1>8. SessionWrite(a, r, u)
  BY <1>0, <1>2, <1>3, <1>7 DEF SessionWrite
<1>9. Settling(a, r, u)
  BY <1>4, <1>5, <1>6, <1>7 DEF Settling, Fresh, Carries
<1> QED
  BY <1>8, <1>9, WriteSettles

-----------------------------------------------------------------------------
(* Steps that write no row, and the steps of the poll wave.                *)

LEMMA QuietSettles ==
    ASSUME Settled, IInv', UNCHANGED <<row, overtaken>>, Waves', NEW a \in Actors,
           \A b \in Actors \ {a} : call'[b] = call[b] /\ (Fresh(b)' => Fresh(b)),
           Fresh(a)' => Current(a)',
           call'[a].pc # "removed",
           \A h \in Hashes : remote'[h] # "absent" =>
             \/ h \in unrecorded'
             \/ remote[h] # "absent" /\ h \notin unrecorded
             \/ \E q \in Rows : Created(q) /\ row[q].next = h
    PROVE  Settled'
<1>1. CallsCurrent'
  <2>1. ASSUME NEW b \in Actors \ {a}, Fresh(b)'
        PROVE  Current(b)'
    <3>1. Current(b) /\ call'[b] = call[b]
      BY <2>1 DEF Settled, CallsCurrent
    <3> QED
      BY <3>1 DEF Current, Cancellable
  <2> QED
    BY <2>1 DEF CallsCurrent
<1>2. RowsSteady' /\ RowsCapped'
  BY DEF Settled, RowsSteady, RowsCapped
<1>3. ASSUME NEW q \in Rows, Dropped(q)'
      PROVE  Dropped(q)
  BY <1>3 DEF Dropped
<1>4. ASSUME NEW q \in Rows, NEW h \in Hashes, Keeps(q, h)
      PROVE  Keeps(q, h)'
  BY <1>3, <1>4 DEF Keeps, Created
<1>5. ASSUME NEW h \in Hashes, remote'[h] # "absent"
      PROVE  h \in unrecorded' \/ \E q \in Rows : Keeps(q, h)'
  <2>1. CASE remote[h] # "absent" /\ h \notin unrecorded
    BY <1>4, <2>1 DEF Settled, Kept
  <2>2. CASE \E q \in Rows : Created(q) /\ row[q].next = h
    BY <1>4, <2>2 DEF Keeps
  <2> QED
    BY <1>5, <2>1, <2>2
<1>6. Kept'
  BY <1>5 DEF Kept
<1> QED
  BY <1>1, <1>2, <1>6 DEF Settled

LEMMA WavesStay ==
    ASSUME Settled, UNCHANGED <<row, behind, todo, finished>>, ~Applying,
           call'[Poller] = call[Poller] \/ finished = {}
    PROVE  Waves'
<1>1. todo = {}
  BY DEF Settled, Waves
<1> QED
  BY <1>1 DEF Settled, Waves

LEMMA EnqueueRequested ==
    ASSUME Settled, IInv', NEW a \in Clients, NEW h \in Hashes, RequestEnqueue(a, h)
    PROVE  Settled'
<1>1. a \in Actors /\ a # Poller /\ call \in [Actors -> CallType]
  BY ActorsAssumption DEF Actors, Settled, IInv, TypeOK
<1>2. /\ UNCHANGED <<row, remote, behind, overtaken, unrecorded, todo, finished>>
      /\ ~Applying /\ call'[a].pc = "submitting" /\ call'[a].action = "enqueue"
      /\ \A b \in Actors \ {a} : call'[b] = call[b]
  BY <1>1 DEF RequestEnqueue, wave, overlaps, At
<1>3. Waves'
  <2>1. Poller \in Actors \ {a}
    BY <1>1 DEF Actors
  <2>2. call'[Poller] = call[Poller]
    BY <1>2, <2>1
  <2> QED
    BY <1>2, <2>2, WavesStay
<1>4. /\ ~Fresh(a)'
      /\ \A b \in Actors \ {a} : Fresh(b)' => Fresh(b)
  BY <1>2 DEF Fresh, Carries
<1> QED
  BY <1>1, <1>2, <1>3, <1>4, QuietSettles

LEMMA AnswersSettle ==
    ASSUME Settled, IInv', NEW a \in Actors, Answer(a)
    PROVE  Settled'
<1> DEFINE c == call[a]
<1>0. /\ call \in [Actors -> CallType] /\ remote \in [Hashes -> RemoteStates] /\ IInv
      /\ c.pc \in {"removing", "submitting"} /\ ~Applying
      /\ a = Poller => finished = {}
      /\ UNCHANGED <<row, overtaken, todo, finished>>
  BY PollerFree
  DEF Settled, IInv, TypeOK, Answer, RemovalDone, RemovalRaised, SubmitAccepted,
      SubmitRefused, At, wave, overlaps
<1>1. \A b \in Actors \ {a} : call'[b] = call[b]
  BY <1>0
  DEF Answer, RemovalDone, RemovalRaised, SubmitAccepted, SubmitRefused, Reply, Return
<1>2. Waves'
  <2>1. call'[Poller] = call[Poller] \/ finished = {}
    BY <1>0, <1>1 DEF Actors
  <2>2. todo = {}
    BY <1>0 DEF Settled, Waves
  <2>3. \A q \in finished : <<Poller, q>> \in behind => <<Poller, q>> \in behind'
    BY <1>0
    DEF Answer, RemovalDone, RemovalRaised, SubmitAccepted, SubmitRefused, overlaps
  <2> QED
    BY <1>0, <2>1, <2>2, <2>3 DEF Settled, Waves
<1>3. \A b \in Actors \ {a} : Fresh(b)' => Fresh(b)
  <2>1. ASSUME NEW b \in Actors \ {a}, Fresh(b)'
        PROVE  Fresh(b)
    <3>1. <<b, call[b].row>> \notin behind
      BY <1>1, <2>1
      DEF Fresh, Answer, RemovalDone, RemovalRaised, SubmitAccepted, SubmitRefused,
          overlaps
    <3> QED
      BY <1>1, <2>1, <3>1 DEF Fresh, Carries
  <2> QED
    BY <2>1
<1>4. ASSUME NEW label, Reply(a, label), UNCHANGED behind, Fresh(a)'
      PROVE  Fresh(a) /\ Current(a) /\ Current(a)'
  <2>1. call'[a] = [c EXCEPT !.pc = label]
    BY <1>0, <1>4 DEF Reply
  <2>2. /\ call'[a].row = c.row /\ call'[a].action = c.action
        /\ call'[a].hash = c.hash /\ call'[a].next = c.next
    BY <1>0, <2>1 DEF CallType
  <2>3. Fresh(a)
    BY <1>0, <1>4, <2>2 DEF Fresh, Carries
  <2>4. Current(a)
    BY <2>3 DEF Settled, CallsCurrent
  <2> QED
    BY <1>0, <2>2, <2>3, <2>4 DEF Current, Cancellable
<1>5. CASE RemovalDone(a)
  <2>1. /\ Reply(a, "removed") /\ UNCHANGED behind /\ Removes(c.hash)
        /\ call'[a].row = c.row
    BY <1>0, <1>5 DEF RemovalDone, overlaps, Reply, CallType
  <2>2. CallsCurrent'
    <3>1. ASSUME NEW b \in Actors \ {a}, Fresh(b)'
          PROVE  Current(b)'
      <4>1. Current(b) /\ call'[b] = call[b]
        BY <1>1, <1>3, <3>1 DEF Settled, CallsCurrent
      <4> QED
        BY <1>0, <4>1 DEF Current, Cancellable
    <3> QED
      BY <1>4, <2>1, <3>1 DEF CallsCurrent
  <2>3. RowsSteady' /\ RowsCapped'
    BY <1>0 DEF Settled, RowsSteady, RowsCapped
  <2>4. ASSUME NEW h \in Hashes, remote'[h] # "absent"
        PROVE  h \in unrecorded' \/ \E q \in Rows : Keeps(q, h)'
    <3>1. h # c.hash /\ remote[h] # "absent" /\ (h \in unrecorded => h \in unrecorded')
      BY <1>0, <2>1, <2>4 DEF Removes
    <3>2. ASSUME NEW q \in Rows, Keeps(q, h)
          PROVE  Keeps(q, h)'
      <4>1. CASE row[q].hash # h
        BY <1>0, <3>2, <4>1 DEF Keeps, Created
      <4>2. CASE row[q].hash = h
        <5>1. ASSUME NEW b \in Actors, Fresh(b)', call'[b].pc = "removed",
                     call'[b].row = q
              PROVE  Dropped(q)
          <6>1. CASE b = a
            <7>1. Current(a) /\ c.row = q
              BY <1>4, <2>1, <5>1, <6>1
            <7> QED
              BY <3>1, <4>2, <7>1 DEF Current
          <6>2. CASE b # a
            BY <1>1, <1>3, <5>1, <6>2 DEF Dropped
          <6> QED
            BY <6>1, <6>2
        <5>2. Dropped(q)' => Dropped(q)
          BY <5>1 DEF Dropped
        <5> QED
          BY <1>0, <3>2, <5>2 DEF Keeps, Created
      <4> QED
        BY <4>1, <4>2
    <3> QED
      BY <3>1, <3>2 DEF Settled, Kept
  <2>5. Kept'
    BY <2>4 DEF Kept
  <2> QED
    BY <1>2, <2>2, <2>3, <2>5 DEF Settled
<1>6. CASE RemovalRaised(a)
  <2>1. call'[a].pc = "idle" /\ ~Fresh(a)'
    BY <1>0, <1>6 DEF RemovalRaised, Return, Idle, Fresh, Carries
  <2>2. \A h \in Hashes : remote'[h] # "absent" =>
          remote[h] # "absent" /\ (h \in unrecorded => h \in unrecorded')
    BY <1>0, <1>6 DEF RemovalRaised, Removes
  <2> QED
    BY <1>0, <1>1, <1>2, <1>3, <2>1, <2>2, QuietSettles
<1>7. CASE SubmitAccepted(a) \/ SubmitRefused(a)
  <2>0. c.pc = "submitting" /\ UNCHANGED behind
    BY <1>7 DEF SubmitAccepted, SubmitRefused, At, overlaps
  <2>1. PICK label \in {"submitted", "refused"} : Reply(a, label)
    BY <1>7 DEF SubmitAccepted, SubmitRefused
  <2>2. call'[a].pc # "removed" /\ (Fresh(a)' => Current(a)')
    BY <1>0, <1>4, <2>0, <2>1 DEF Reply, CallType
  <2>3. c.next \in Hashes /\ (c.action = "enqueue" \/ Carries(a))
    BY <1>0, <2>0, CallTyped DEF WellFormed, Carries
  <2>4. ASSUME Carries(a), ~Late(a)
        PROVE  \E q \in Rows : Created(q) /\ row[q].next = c.next
    <3>1. Fresh(a) /\ c.row \in Rows /\ row[c.row].status # "none"
      BY <1>0, <2>4, CallTyped DEF Fresh, Late
    <3>2. row[c.row].next = c.next
      BY <3>1 DEF Settled, CallsCurrent, Current
    <3> QED
      BY <3>1, <3>2 DEF Created
  <2>5. ASSUME NEW h \in Hashes, remote'[h] # "absent"
        PROVE  \/ h \in unrecorded'
               \/ remote[h] # "absent" /\ h \notin unrecorded
               \/ \E q \in Rows : Created(q) /\ row[q].next = h
    <3>0. unrecorded \subseteq unrecorded'
      BY <1>7 DEF SubmitAccepted, SubmitRefused, Unrecord
    <3>1. CASE remote[h] # "absent"
      BY <3>0, <3>1
    <3>2. CASE remote[h] = "absent"
      <4>1. h = c.next /\ Unrecord(a, h)
        BY <1>0, <1>7, <2>5, <3>2 DEF SubmitAccepted, SubmitRefused, Starts
      <4>2. h \in unrecorded' \/ (Carries(a) /\ ~Late(a))
        BY <2>3, <4>1 DEF Unrecord
      <4> QED
        BY <2>4, <4>1, <4>2
    <3> QED
      BY <3>1, <3>2
  <2> HIDE DEF c
  <2> QED
    BY <1>0, <1>1, <1>2, <1>3, <2>2, <2>5, QuietSettles
<1> QED
  BY <1>5, <1>6, <1>7 DEF Answer

LEMMA RefusedEnqueue ==
    ASSUME Settled, IInv', NEW a \in Actors, RecordRefusal(a),
           call[a].action = "enqueue"
    PROVE  Settled'
<1>1. /\ call \in [Actors -> CallType] /\ ~Applying /\ (a = Poller => finished = {})
      /\ UNCHANGED <<row, remote, behind, overtaken, unrecorded, todo, finished>>
      /\ call' = [call EXCEPT ![a] = Idle]
  BY AtStage DEF Settled, IInv, TypeOK, RecordRefusal, wave, overlaps, Return
<1>2. call'[a].pc = "idle" /\ \A b \in Actors \ {a} : call'[b] = call[b]
  BY <1>1 DEF Idle
<1>3. Waves'
  BY <1>1, <1>2, WavesStay DEF Actors
<1>4. ~Fresh(a)' /\ \A b \in Actors \ {a} : Fresh(b)' => Fresh(b)
  BY <1>1, <1>2 DEF Fresh, Carries
<1> QED
  BY <1>1, <1>2, <1>3, <1>4, QuietSettles

LEMMA ResumesSettle ==
    ASSUME Settled, IInv', NEW a \in Actors, Resume(a)
    PROVE  Settled'
  BY RemovedSettles, SwitchSettles, RefusalSettles, RefusedEnqueue, EnqueueSettles
  DEF Resume

(* A step of the poller that moves the wave on.                            *)
LEMMA LabelSettles ==
    ASSUME Settled, IInv', Waves',
           NEW label \in {"idle", "listed", "applying", "completing"},
           call' = [call EXCEPT ![Poller] = PollerAt(label)],
           UNCHANGED <<row, remote, behind, overtaken, unrecorded>>
    PROVE  Settled'
<1>1. call \in [Actors -> CallType] /\ Poller \in Actors
  BY DEF Settled, IInv, TypeOK, Actors
<1>2. call'[Poller].pc = label /\ \A b \in Actors \ {Poller} : call'[b] = call[b]
  BY <1>1 DEF PollerAt, Idle
<1>3. ~Fresh(Poller)' /\ \A b \in Actors \ {Poller} : Fresh(b)' => Fresh(b)
  BY <1>2 DEF Fresh, Carries
<1> QED
  BY <1>1, <1>2, <1>3, QuietSettles

LEMMA CompletesSettle ==
    ASSUME Settled, IInv', NEW r \in Rows, Complete(r)
    PROVE  Settled'
<1> DEFINE u == [row[r] EXCEPT !.status = "done"]
<1>0. Poller \in Actors /\ row[r] \in RowType /\ row[r].status # "none"
  BY DEF Actors, Settled, IInv, TypeOK, Complete, WaveCreated
<1>1. /\ Rewrites(Poller, r) /\ UNCHANGED <<call, remote, todo, unrecorded>>
      /\ row' = [row EXCEPT ![r] = u] /\ finished' = finished \ {r}
      /\ call[Poller].pc = "completing"
  BY <1>0 DEF Complete
<1>2. /\ u.status = "done" /\ u.hash = row[r].hash /\ u.action = row[r].action
      /\ u.next = row[r].next /\ u.attempts = row[r].attempts
  BY <1>0 DEF RowType
<1> HIDE DEF u
<1>3. SessionWrite(Poller, r, u)
  BY <1>0, <1>1, RewriteIs DEF SessionWrite, Applying
<1>4. Steady(u)
  BY <1>2 DEF Settled, RowsSteady, Steady
<1>5. r \notin overtaken' => Capped(u)
  BY <1>0, <1>1, <1>2, RewriteIs DEF Settled, RowsCapped, Capped
<1>6. ~Fresh(Poller)'
  BY <1>1 DEF Fresh, Carries
<1>7. \A h \in Hashes :
        h \in unrecorded \/ Keeps(r, h) => h \in unrecorded' \/ Names(r, u, h)
  <2>1. r \in overtaken => r \in overtaken'
    BY <1>0, <1>1, RewriteIs
  <2> QED
    BY <1>1, <1>2, <2>1 DEF Keeps, Names
<1>8. Settling(Poller, r, u)
  BY <1>2, <1>4, <1>5, <1>6, <1>7 DEF Settling
<1> QED
  BY <1>0, <1>3, <1>8, WriteSettles

LEMMA PendingSettles ==
    ASSUME Settled, IInv', AdvancePending
    PROVE  Settled'
<1>0. /\ Poller \in Actors /\ call \in [Actors -> CallType] /\ finished = {}
      /\ row \in [Rows -> RowType] /\ todo = {} /\ call[Poller].pc = "completing"
      /\ UNCHANGED <<remote, todo, finished, unrecorded>>
  BY DEF Actors, Settled, IInv, TypeOK, AdvancePending, wave, Waves, Applying
<1>1. Waves'
  BY <1>0 DEF Waves
<1>2. ASSUME NEW c \in CallType, call' = [call EXCEPT ![Poller] = c], c.pc # "removed",
             UNCHANGED <<row, overlaps>>, Fresh(Poller)' => Current(Poller)'
      PROVE  Settled'
  <2>1. call'[Poller] = c /\ \A b \in Actors \ {Poller} : call'[b] = call[b]
    BY <1>0, <1>2
  <2>2. \A b \in Actors \ {Poller} : Fresh(b)' => Fresh(b)
    BY <1>2, <2>1 DEF Fresh, Carries, overlaps
  <2> QED
    BY <1>0, <1>1, <1>2, <2>1, <2>2, QuietSettles DEF overlaps
<1>3. CASE Return(Poller) /\ UNCHANGED <<row, overlaps>>
  <2>1. call' = [call EXCEPT ![Poller] = Idle] /\ call'[Poller] = Idle
    BY <1>0, <1>3 DEF Return
  <2>2. Idle.pc = "idle" /\ Idle \in CallType
    BY IdleFine DEF Idle
  <2>3. ~Fresh(Poller)'
    BY <2>1, <2>2 DEF Fresh, Carries
  <2> QED
    BY <1>2, <1>3, <2>1, <2>2, <2>3
<1>4. ASSUME NEW r \in PendingRows, Advance(Poller, r, row[r]),
             IF row' = row THEN UNCHANGED overlaps ELSE Rewrites(Poller, r)
      PROVE  Settled'
  <2>1. /\ r \in Rows /\ row[r] \in RowType /\ Live(row[r]) /\ row[r].status # "none"
        /\ row[r].action # "" /\ Steady(row[r])
    BY <1>0
    DEF PendingRows, Pending, Cancellable, Live, Settled, RowsSteady
  <2>2. CASE row' # row
    <3>1. Rewrites(Poller, r)
      BY <1>4, <2>2
    <3>2. r \notin overtaken' => Capped(row[r])
      BY <1>0, <2>1, <3>1, RewriteIs DEF Settled, RowsCapped
    <3>3. r \in overtaken => r \in overtaken'
      BY <1>0, <2>1, <3>1, RewriteIs
    <3>4. \A h \in Hashes :
            h \in unrecorded \/ Keeps(r, h) => h \in unrecorded' \/ Names(r, row[r], h)
      BY <1>0, <3>3 DEF Keeps, Names
    <3> QED
      BY <1>0, <1>4, <2>1, <3>1, <3>2, <3>4, AdvanceSettles DEF Applying
  <2>3. CASE row' = row
    <3>0. row[r] # MissingNext(row[r])
      <4>1. MissingNext(row[r]).action = ""
        BY <2>1 DEF MissingNext, SubmitFailed, RowType
      <4> QED
        BY <2>1, <4>1
    <3>1. row'[r] = row[r] /\ [row EXCEPT ![r] = MissingNext(row[r])] # row
      BY <1>0, <2>1, <2>3, <3>0
    <3>2. PICK label \in {"removing", "submitting"} :
            /\ call' = [call EXCEPT ![Poller] = Sent(r, row[r], label)]
            /\ label = "removing" => row[r].action \in {"cancel", "switch"}
            /\ label = "submitting" => row[r].action = "submit" /\ row[r].next # NoHash
      BY <1>4, <2>1, <2>3, <3>1 DEF Advance
    <3>3. Sound(row[r])
      BY <2>1, RowSound DEF Settled
    <3>4. Sent(r, row[r], label) \in CallType
      BY <2>1, <3>2, <3>3, SentFine
    <3>5. Sent(r, row[r], label).pc = label /\ call'[Poller] = Sent(r, row[r], label)
      BY <1>0, <3>2 DEF Sent
    <3>6. Current(Poller)'
      <4>1. /\ call'[Poller].row = r /\ call'[Poller].action = row[r].action
            /\ call'[Poller].hash = row[r].hash /\ call'[Poller].next = row[r].next
        BY <3>5 DEF Sent
      <4> QED
        BY <2>1, <2>3, <4>1 DEF Current, Cancellable, Live
    <3> QED
      BY <1>2, <1>4, <2>3, <3>2, <3>4, <3>5, <3>6
  <2> QED
    BY <2>2, <2>3
<1> QED
  BY <1>3, <1>4 DEF AdvancePending

LEMMA PollSettles ==
    ASSUME Settled, IInv', PollStep
    PROVE  Settled'
<1>0. Poller \in Actors /\ call \in [Actors -> CallType]
  BY DEF Actors, Settled, IInv, TypeOK
<1>1. CASE PollList \/ PollFailed \/ PollApply
  <2>0. call[Poller].pc \in {"idle", "listed"} /\ finished = {}
    BY <1>1, PollerFree, <1>0 DEF PollList, PollFailed, PollApply
  <2>1. PICK label \in {"idle", "listed", "applying"} :
          /\ call' = [call EXCEPT ![Poller] = PollerAt(label)]
          /\ label = "applying" => todo' = {r \in Rows : row[r].status = "running"}
          /\ label # "applying" => todo' = todo
    BY <1>1
    DEF PollList, PollFailed, PollApply, Return, PollerAt, Idle
  <2>2. UNCHANGED <<row, finished, behind, overtaken, unrecorded, remote>>
    BY <1>1 DEF PollList, PollFailed, PollApply, overlaps
  <2>3. call'[Poller].pc = label
    BY <1>0, <2>1 DEF PollerAt, Idle
  <2>4. Waves'
    <3>1. CASE label = "applying"
      BY <2>0, <2>1, <2>2, <2>3, <3>1 DEF Waves, Applying
    <3>2. CASE label # "applying"
      <4>1. todo = {}
        BY <2>0 DEF Settled, Waves, Applying
      <4> QED
        BY <2>0, <2>1, <2>2, <3>2, <4>1 DEF Waves
    <3> QED
      BY <3>1, <3>2
  <2> QED
    BY <2>1, <2>2, <2>4, LabelSettles
<1> QED
  BY <1>1, CompletesSettle, PendingSettles DEF PollStep

(* What the listing makes of a running row.                                *)
LEMMA ObservedIs ==
    ASSUME Settled, NEW r \in Rows, row[r].status = "running",
           NEW t \in {row[r], [row[r] EXCEPT !.status = "failed"]},
           NEW u \in Observed(r, t)
    PROVE  /\ u.hash = row[r].hash /\ u.status \in {"running", "failed"} /\ Steady(u)
           /\ Capped(row[r]) => Capped(u)
           /\ row[r].action # "" => u.action = row[r].action /\ u.next = row[r].next
           /\ row[r].action = "" => u.action # "submit" /\ row[r].next = NoHash
<1>1. row[r] \in RowType /\ Steady(row[r])
  BY DEF Settled, IInv, TypeOK, RowsSteady
<1>2. /\ t \in RowType /\ t.hash = row[r].hash /\ t.action = row[r].action
      /\ t.next = row[r].next /\ t.attempts = row[r].attempts
      /\ t.status \in {"running", "failed"}
  BY <1>1 DEF RowType, Statuses
<1>3. Steady(t) /\ (Capped(row[r]) => Capped(t))
  BY <1>1, <1>2 DEF Steady, Capped
<1>4. row[r].action = "" => row[r].next = NoHash
  BY <1>1 DEF Steady
<1>5. CASE u = t
  BY <1>2, <1>3, <1>4, <1>5
<1>6. CASE t.action = "" /\ u \in BeginSwitch(r, t)
  <2>1. /\ Steady(u) /\ u.hash = t.hash /\ u.action \in {"switch", ""}
        /\ u.status \in {t.status, "failed"}
        /\ Capped(t) => Capped(u)
    BY <1>2, <1>6, SwitchCapped
  <2> QED
    BY <1>2, <1>3, <1>4, <1>6, <2>1
<1> QED
  BY <1>5, <1>6 DEF Observed

LEMMA ApplySettles ==
    ASSUME Settled, IInv', ApplyStep
    PROVE  Settled'
<1>0. /\ Poller \in Actors /\ call \in [Actors -> CallType]
      /\ row \in [Rows -> RowType] /\ finished \subseteq Rows
  BY DEF Actors, Settled, IInv, TypeOK
<1>1. CASE ApplyEnd
  <2>1. /\ call' = [call EXCEPT ![Poller] = PollerAt("completing")]
        /\ UNCHANGED <<row, remote, todo, finished, behind, overtaken, unrecorded>>
        /\ todo = {}
    BY <1>1 DEF ApplyEnd, overlaps
  <2>2. call'[Poller].pc = "completing"
    BY <1>0, <2>1 DEF PollerAt, Idle
  <2>3. Waves'
    BY <2>1, <2>2 DEF Settled, Waves
  <2> QED
    BY <2>1, <2>3, LabelSettles
<1>2. ASSUME NEW r \in Rows, ApplyRow(r)
      PROVE  Settled'
  <2>0. /\ r \in todo /\ todo' = todo \ {r} /\ row[r].status = "running" /\ Applying
        /\ UNCHANGED <<remote, call, behind, overtaken, unrecorded>>
    BY <1>2 DEF ApplyRow, overlaps, Settled, Waves, Applying
  <2>1. CASE UNCHANGED row
    <3>1. finished' \subseteq finished \cup {r} /\ finished \subseteq finished'
      BY <1>2 DEF ApplyRow
    <3>2. Waves'
      BY <2>0, <2>1, <3>1 DEF Settled, Waves, Applying
    <3>3. call'[Poller].pc = "applying"
      BY <2>0 DEF Applying
    <3>4. ~Fresh(Poller)' /\ \A b \in Actors \ {Poller} : Fresh(b)' => Fresh(b)
      BY <2>0, <3>3 DEF Fresh, Carries
    <3> QED
      BY <1>0, <2>0, <2>1, <3>2, <3>3, <3>4, QuietSettles
  <2>2. ASSUME NEW t \in {row[r], [row[r] EXCEPT !.status = "failed"]},
               NEW u \in Observed(r, t), row' = [row EXCEPT ![r] = u],
               UNCHANGED finished
        PROVE  Settled'
    <3>1. /\ u.hash = row[r].hash /\ u.status \in {"running", "failed"} /\ Steady(u)
          /\ Capped(row[r]) => Capped(u)
          /\ row[r].action # "" => u.action = row[r].action /\ u.next = row[r].next
          /\ row[r].action = "" => u.action # "submit" /\ row[r].next = NoHash
      BY <2>0, <2>2, ObservedIs
    <3>2. \A q \in Rows : row'[q] = IF q = r THEN u ELSE row[q]
      BY <1>0, <2>2
    <3>3. CallsCurrent'
      <4>1. ASSUME NEW b \in Actors, Fresh(b)'
            PROVE  Current(b)'
        <5>1. Fresh(b) /\ Current(b) /\ call'[b] = call[b]
          BY <2>0, <4>1 DEF Fresh, Carries, Settled, CallsCurrent
        <5>2. call[b].row \in Rows /\ call[b].action # ""
          BY <5>1, CallTyped DEF Fresh, Settled
        <5>3. CASE call[b].row = r
          <6>1. u.action = row[r].action /\ u.next = row[r].next
            BY <3>1, <5>1, <5>2, <5>3 DEF Current
          <6> QED
            BY <3>1, <3>2, <5>1, <5>3, <6>1 DEF Current, Cancellable
        <5>4. CASE call[b].row # r
          BY <2>0, <3>2, <5>1, <5>2, <5>4 DEF Current, Cancellable
        <5> QED
          BY <5>3, <5>4
      <4> QED
        BY <4>1 DEF CallsCurrent
    <3>4. Waves'
      <4>1. ASSUME NEW q \in todo \cup finished, q # r
            PROVE  row'[q] = row[q]
        BY <3>2, <4>1, <1>0 DEF Settled, IInv, TypeOK
      <4>2. r \notin finished
        BY <2>0 DEF Settled, Waves
      <4> QED
        BY <2>0, <2>2, <4>1, <4>2 DEF Settled, Waves, Applying
    <3>5. RowsSteady' /\ RowsCapped'
      BY <2>0, <3>1, <3>2 DEF Settled, RowsSteady, RowsCapped
    <3>6. ASSUME NEW q \in Rows, NEW h \in Hashes, Keeps(q, h)
          PROVE  Keeps(q, h)'
      <4>1. Dropped(q)' <=> Dropped(q)
        BY <2>0 DEF Dropped, Fresh, Carries
      <4>2. CASE q # r
        BY <2>0, <3>2, <3>6, <4>1, <4>2 DEF Keeps, Created
      <4>3. CASE q = r
        <5>1. u.status # "none" /\ u.status # "cancelled"
          BY <3>1
        <5>2. row[r].next = h => u.next = h
          BY <3>1, HashesAssumption
        <5>3. row[r].action # "submit" => u.action # "submit"
          BY <3>1
        <5> QED
          BY <2>0, <3>1, <3>2, <3>6, <4>1, <4>3, <5>1, <5>2, <5>3 DEF Keeps, Created
      <4> QED
        BY <4>2, <4>3
    <3>7. Kept'
      BY <2>0, <3>6 DEF Settled, Kept
    <3> QED
      BY <3>3, <3>4, <3>5, <3>7 DEF Settled
  <2> QED
    BY <1>2, <2>1, <2>2 DEF ApplyRow
<1> QED
  BY <1>1, <1>2 DEF ApplyStep

LEMMA OutsideSettles ==
    ASSUME Settled, IInv', Crash \/ \E h \in Hashes : RemoteEnds(h)
    PROVE  Settled'
<1>0. Poller \in Actors /\ call \in [Actors -> CallType]
  BY DEF Actors, Settled, IInv, TypeOK
<1>1. CASE Crash
  <2>1. /\ \A a \in Actors : call'[a] = Idle
        /\ todo' = {} /\ finished' = {} /\ UNCHANGED <<row, remote, overtaken, unrecorded>>
    BY <1>1 DEF Crash
  <2>2. \A a \in Actors : ~Fresh(a)'
    <3>1. Idle.pc = "idle"
      BY DEF Idle
    <3>2. \A a \in Actors : call'[a].pc = "idle"
      BY <2>1, <3>1
    <3> QED
      BY <3>2 DEF Fresh, Carries
  <2>3. CallsCurrent' /\ Waves'
    BY <2>1, <2>2 DEF CallsCurrent, Waves
  <2>4. RowsSteady' /\ RowsCapped'
    BY <2>1 DEF Settled, RowsSteady, RowsCapped
  <2>5. \A q \in Rows : ~Dropped(q)'
    BY <2>2 DEF Dropped
  <2>6. \A q \in Rows, h \in Hashes : Keeps(q, h) => Keeps(q, h)'
    BY <2>1, <2>5 DEF Keeps, Created
  <2>7. Kept'
    BY <2>1, <2>6 DEF Settled, Kept
  <2> QED
    BY <2>3, <2>4, <2>7 DEF Settled
<1>2. ASSUME NEW h \in Hashes, RemoteEnds(h)
      PROVE  Settled'
  <2>1. /\ UNCHANGED <<row, call, todo, finished, behind, overtaken, unrecorded>>
        /\ \A g \in Hashes : remote'[g] # "absent" => remote[g] # "absent"
    BY <1>2 DEF RemoteEnds, wave, overlaps, Settled, IInv, TypeOK
  <2>2. Waves' /\ CallsCurrent' /\ RowsSteady' /\ RowsCapped'
    BY <2>1
    DEF Settled, Waves, CallsCurrent, RowsSteady, RowsCapped, Applying, Fresh, Carries,
        Current, Cancellable
  <2>3. \A q \in Rows, g \in Hashes : Keeps(q, g) => Keeps(q, g)'
    BY <2>1 DEF Keeps, Created, Dropped, Fresh, Carries
  <2>4. Kept'
    BY <2>1, <2>3 DEF Settled, Kept
  <2> QED
    BY <2>2, <2>4 DEF Settled
<1> QED
  BY <1>1, <1>2

-----------------------------------------------------------------------------
LEMMA SettledInitially == Init => Settled
<1> SUFFICES ASSUME Init PROVE Settled
  OBVIOUS
<1>1. IInv
  BY Initially
<1>2. \A a \in Actors : ~Fresh(a)
  BY DEF Init, Fresh, Carries, Idle
<1>3. CallsCurrent /\ Waves
  BY <1>2 DEF Init, CallsCurrent, Waves
<1>4. \A r \in Rows : row[r] = NoTask
  BY DEF Init
<1>5. Steady(NoTask) /\ Capped(NoTask)
  BY BoundsAssumption DEF NoTask, Steady, Capped, Distinct
<1>6. RowsSteady /\ RowsCapped
  BY <1>4, <1>5 DEF RowsSteady, RowsCapped
<1>7. Kept
  BY DEF Init, Kept, NothingSeen
<1> QED
  BY <1>1, <1>3, <1>6, <1>7 DEF Settled

LEMMA SettledInductive == Settled /\ [Next]_vars => Settled'
<1> SUFFICES ASSUME Settled, [Next]_vars PROVE Settled'
  OBVIOUS
<1>0. IInv'
  BY Inductive DEF Settled
<1>1. CASE Next
  BY <1>0, <1>1, RequestsSettle, EnqueueRequested, ResumesSettle, AnswersSettle,
     PollSettles, ApplySettles, OutsideSettles
  DEF Next, UserRequest
<1>2. CASE UNCHANGED vars
  <2>1. CallsCurrent' /\ Waves' /\ RowsSteady' /\ RowsCapped'
    BY <1>2
    DEF vars, Settled, CallsCurrent, Waves, RowsSteady, RowsCapped, Fresh, Carries,
        Current, Cancellable, Applying
  <2>2. \A q \in Rows, h \in Hashes : Keeps(q, h) => Keeps(q, h)'
    BY <1>2 DEF vars, Keeps, Created, Dropped, Fresh, Carries
  <2>3. Kept'
    BY <1>2, <2>2 DEF vars, Settled, Kept
  <2> QED
    BY <1>0, <2>1, <2>3 DEF Settled
<1> QED
  BY <1>1, <1>2

LEMMA SettledAlways == Spec => []Settled
<1>1. Settled /\ [Next]_vars => Settled'
  BY SettledInductive
<1> QED
  BY <1>1, SettledInitially, PTL DEF Spec

LEMMA CurrentIsHash ==
    ASSUME IInv, NEW r \in Rows, Created(r)
    PROVE  row[r].hash \in Hashes /\ row[r].hash # row[r].next
<1>1. row[r] \in RowType /\ Consistent(row[r])
  BY DEF IInv, TypeOK, CheckpointConsistent
<1>2. row[r].attempts \in Seq(Hashes) /\ Len(row[r].attempts) \in 1..Len(row[r].attempts)
  BY <1>1 DEF RowType, Consistent
<1>3. row[r].hash \in Attempted(row[r]) /\ row[r].hash \in Hashes
  BY <1>1, <1>2 DEF Consistent, Attempted
<1> QED
  BY <1>1, <1>3 DEF Consistent

(* What the service still has of a row's magnet is not the row's own, once *)
(* the row does not keep it.                                               *)
LEMMA NotItsOwn ==
    ASSUME Settled, NEW r \in Rows, Created(r), ~Keeps(r, row[r].hash)
    PROVE  remote[row[r].hash] = "absent" \/ HeldBeside(r, row[r].hash)
<1> DEFINE h == row[r].hash
<1>1. h \in Hashes
  BY CurrentIsHash DEF Settled
<1>2. remote[h] # "absent" => h \in unrecorded \/ \E q \in Rows \ {r} : Keeps(q, h)
  BY <1>1 DEF Settled, Kept
<1> HIDE DEF h
<1>3. remote[h] = "absent" \/ HeldBeside(r, h)
  BY <1>2 DEF HeldBeside, Keeps
<1> QED
  BY <1>3 DEF h

(* Failover tries at most MAX_MAGNET_ATTEMPTS magnets for a row and none   *)
(* of them twice, however requests, waves and restarts overlap, until a    *)
(* session writes the row over that had not seen what another one wrote.   *)
THEOREM TriesAreBounded == Spec => []AttemptsCapped
<1>1. Settled => AttemptsCapped
  BY DEF Settled, RowsCapped, Capped, Distinct, AttemptsCapped
<1> QED
  BY <1>1, SettledAlways, PTL

(* A download the service still has belongs to another row, or to a        *)
(* submission no row names, when the row it was made for is cancelled: the *)
(* row becomes cancelled only when the service has removed its magnet,     *)
(* unless the session that cancels it overtakes another one.               *)
THEOREM CancelRemoves == Spec => []CancelledIsRemoved
<1>1. ASSUME Settled, NEW r \in Rows \ overtaken, row[r].status = "cancelled"
      PROVE  remote[row[r].hash] = "absent" \/ HeldBeside(r, row[r].hash)
  <2>1. Created(r) /\ row[r].hash # row[r].next
    BY <1>1, CurrentIsHash DEF Settled, Created
  <2>2. ~Keeps(r, row[r].hash)
    BY <1>1, <2>1 DEF Keeps
  <2> QED
    BY <1>1, <2>1, <2>2, NotItsOwn
<1>2. Settled => CancelledIsRemoved
  BY <1>1 DEF CancelledIsRemoved
<1> QED
  BY <1>2, SettledAlways, PTL

(* Nothing runs at the service for this work that neither a row names nor  *)
(* the history knows: an enqueue that never returned, a magnet the user    *)
(* made a row forget, and what a late session submitted or wrote over.     *)
THEOREM NoStrayDownload == Spec => []DownloadsAccounted
<1>1. Settled => DownloadsAccounted
  BY DEF Settled, Kept, Keeps, DownloadsAccounted
<1> QED
  BY <1>1, SettledAlways, PTL

(* A session that goes on with what a call carried finds its row running   *)
(* or failed, or overtakes whoever wrote it since.                         *)
LEMMA LiveOrOvertaken ==
    ASSUME Settled, NEW a \in Actors, Carries(a), Rewrites(a, call[a].row)
    PROVE  Live(row[call[a].row]) \/ call[a].row \in overtaken'
<1>1. call[a].row \in Rows
  BY CallTyped DEF Settled
<1>2. CASE Late(a)
  BY <1>1, <1>2, RewriteIs DEF Late
<1>3. CASE ~Late(a)
  <2>1. Current(a)
    BY <1>3 DEF Settled, CallsCurrent, Fresh, Late
  <2> QED
    BY <1>1, <2>1, RewriteIs DEF Current, Cancellable, Live
<1> QED
  BY <1>2, <1>3

(* A cancelled row is revived by nothing but a submission of its magnet by *)
(* the user: a call or a wave that started before and holds it still is    *)
(* one that another session has overtaken.                                 *)
THEOREM CancelIsKept == Spec => CancelSticks
<1> DEFINE Revives(r) == \E a \in Actors : /\ call[a].pc = "submitted"
                                          /\ call[a].action = "enqueue"
                                          /\ call[a].next = row[r].hash
<1>1. ASSUME Settled, [Next]_vars, NEW r \in Rows, row[r].status = "cancelled"
      PROVE  row'[r].status = "cancelled" \/ r \in overtaken' \/ Revives(r)
  <2>0. row \in [Rows -> RowType] /\ Poller \in Actors
    BY <1>1 DEF Settled, IInv, TypeOK, Actors
  <2>1. ASSUME NEW q \in Rows, NEW u, row' = [row EXCEPT ![q] = u], q # r
        PROVE  row'[r].status = "cancelled"
    BY <1>1, <2>0, <2>1
  <2>2. ASSUME NEW q \in Rows, NEW u, row' = [row EXCEPT ![q] = u],
               Live(row[q]) \/ q \in overtaken'
        PROVE  row'[r].status = "cancelled" \/ r \in overtaken'
    BY <1>1, <2>1, <2>2 DEF Live
  <2>3. ASSUME NEW a \in Actors, NEW q \in Rows, NEW t, Advance(a, q, t),
               Live(row[q]) \/ q \in overtaken'
        PROVE  row'[r].status = "cancelled" \/ r \in overtaken'
    <3>1. PICK u : row' = [row EXCEPT ![q] = u]
      BY <2>3 DEF Advance
    <3> QED
      BY <2>2, <2>3, <3>1
  <2>4. ASSUME NEW a \in Clients, UserRequest(a)
        PROVE  row'[r].status = "cancelled" \/ r \in overtaken'
    <3>1. a \in Actors
      BY DEF Actors
    <3>2. ASSUME NEW q \in Rows, RequestCancel(a, q) \/ RequestNext(a, q)
          PROVE  row'[r].status = "cancelled" \/ r \in overtaken'
      <4>1. Live(row[q]) /\ \E t : Advance(a, q, t)
        BY <3>2 DEF RequestCancel, RequestNext, Cancellable, Live
      <4> QED
        BY <2>3, <3>1, <4>1
    <3> QED
      BY <1>1, <2>4, <3>2 DEF UserRequest, RequestEnqueue
  <2>5. ASSUME NEW a \in Actors, Resume(a)
        PROVE  row'[r].status = "cancelled" \/ r \in overtaken' \/ Revives(r)
    <3> DEFINE q == call[a].row
    <3>1. WellFormed(row, call[a])
      BY <1>1, CallTyped DEF Settled
    <3>2. CASE AfterRemoval(a)
      <4>1. Carries(a) /\ q \in Rows /\ Rewrites(a, q)
        BY <3>1, <3>2 DEF AfterRemoval, At, Carries, WellFormed
      <4>2. Live(row[q]) \/ q \in overtaken'
        BY <1>1, <4>1, LiveOrOvertaken
      <4>3. (\E u : row' = [row EXCEPT ![q] = u]) \/ \E t : Advance(a, q, t)
        BY <3>2 DEF AfterRemoval
      <4> QED
        BY <2>2, <2>3, <4>1, <4>2, <4>3
    <3>3. CASE RecordSwitch(a) \/ (RecordRefusal(a) /\ call[a].action # "enqueue")
      <4>1. Carries(a) /\ q \in Rows /\ Rewrites(a, q)
        BY <3>1, <3>3 DEF RecordSwitch, RecordRefusal, At, Carries, WellFormed
      <4>2. Live(row[q]) \/ q \in overtaken'
        BY <1>1, <4>1, LiveOrOvertaken
      <4>3. \E u : row' = [row EXCEPT ![q] = u]
        BY <3>3 DEF RecordSwitch, RecordRefusal
      <4> QED
        BY <2>2, <4>1, <4>2, <4>3
    <3>4. CASE RecordRefusal(a) /\ call[a].action = "enqueue"
      BY <1>1, <3>4 DEF RecordRefusal
    <3>5. CASE RecordEnqueue(a)
      <4>1. PICK p \in Rows : /\ p \in RowsWith(call[a].next) \/ p \in Unused
                              /\ \E u : row' = [row EXCEPT ![p] = u]
        BY <3>5 DEF RecordEnqueue, RowsWith, Unused
      <4>2. CASE p # r
        BY <2>1, <4>1, <4>2
      <4>3. CASE p = r
        <5>1. row[r].hash = call[a].next
          BY <1>1, <4>1, <4>3 DEF RowsWith, Unused, Created
        <5> QED
          BY <3>5, <5>1 DEF RecordEnqueue, At
      <4> QED
        BY <4>2, <4>3
    <3> QED
      BY <2>5, <3>2, <3>3, <3>4, <3>5 DEF Resume
  <2>6. CASE PollStep
    <3>1. CASE UNCHANGED row
      BY <1>1, <3>1
    <3>2. ASSUME NEW q \in Rows, Complete(q)
          PROVE  row'[r].status = "cancelled" \/ r \in overtaken'
      <4>1. Rewrites(Poller, q) /\ q \in finished
        BY <3>2 DEF Complete
      <4>2. row[q].status = "running" \/ q \in overtaken'
        BY <1>1, <2>0, <4>1, RewriteIs DEF Settled, Waves
      <4>3. row' = [row EXCEPT ![q] = [row[q] EXCEPT !.status = "done"]]
        BY <2>0, <3>2 DEF Complete
      <4> QED
        BY <2>2, <4>2, <4>3 DEF Live
    <3>3. ASSUME NEW q \in PendingRows, Advance(Poller, q, row[q])
          PROVE  row'[r].status = "cancelled" \/ r \in overtaken'
      <4>1. q \in Rows /\ Live(row[q])
        BY DEF PendingRows, Pending, Cancellable, Live
      <4> QED
        BY <2>0, <2>3, <3>3, <4>1
    <3> QED
      BY <2>6, <3>1, <3>2, <3>3
      DEF PollStep, PollList, PollFailed, PollApply, AdvancePending
  <2>7. CASE ApplyStep
    <3>1. CASE UNCHANGED row
      BY <1>1, <3>1
    <3>2. ASSUME NEW q \in Rows, ApplyRow(q), row' # row
          PROVE  row'[r].status = "cancelled" \/ r \in overtaken'
      <4>1. Live(row[q]) /\ \E u : row' = [row EXCEPT ![q] = u]
        BY <1>1, <3>2 DEF ApplyRow, Settled, Waves, Live
      <4> QED
        BY <2>2, <4>1
    <3> QED
      BY <2>7, <3>1, <3>2 DEF ApplyStep, ApplyEnd
  <2>8. CASE UNCHANGED row
    BY <1>1, <2>8
  <2>9. ASSUME NEW a \in Actors, Answer(a)
        PROVE  UNCHANGED row
    BY <2>9 DEF Answer, RemovalDone, RemovalRaised, SubmitAccepted, SubmitRefused
  <2> QED
    BY <1>1, <2>4, <2>5, <2>6, <2>7, <2>8, <2>9 DEF Next, RemoteEnds, Crash, vars
<1>2. Settled /\ [Next]_vars =>
        \A r \in Rows :
         row[r].status = "cancelled" =>
             \/ row'[r].status = "cancelled" \/ r \in overtaken'
             \/ \E a \in Actors : /\ call[a].pc = "submitted"
                                  /\ call[a].action = "enqueue"
                                  /\ call[a].next = row[r].hash
  BY <1>1
<1> QED
  BY <1>2, SettledAlways, PTL DEF CancelSticks, Spec

(* Only the second half of a removal and the poll wave submit a magnet in  *)
(* place of another one.                                                   *)
Replaces(a) ==
    \/ AfterRemoval(a) /\ call[a].action = "switch" /\ call'[a].row = call[a].row
    \/ \E r \in Rows :
         /\ row[r].action = "submit" /\ call'[a].row = r
         /\ row[r].status # "none"
         /\ r \in overtaken => r \in overtaken'

LEMMA PollerActs == Poller \in Actors
  BY DEF Actors

LEMMA NoStart ==
    ASSUME IInv, NEW a \in Actors, NEW b \in Actors, NEW c, call' = [call EXCEPT ![b] = c],
           c.pc # "submitting" \/ c.action # "submit"
    PROVE  ~StartsReplacement(a)
<1>1. call'[a] = IF a = b THEN c ELSE call[a]
  BY DEF IInv, TypeOK
<1> QED
  BY <1>1 DEF StartsReplacement

LEMMA AdvanceStart ==
    ASSUME IInv, NEW a \in Actors, NEW b \in Actors, NEW r \in Rows, NEW t,
           Advance(b, r, t), StartsReplacement(a)
    PROVE  a = b /\ t.action = "submit" /\ call'[a].row = r
<1>1. PICK c : /\ call' = [call EXCEPT ![b] = c]
               /\ \/ c = Idle
                  \/ c = Sent(r, t, "removing")
                  \/ c = Sent(r, t, "submitting") /\ t.action = "submit"
  BY DEF Advance
<1>2. Idle.pc = "idle" /\ Sent(r, t, "removing").pc = "removing"
      /\ Sent(r, t, "submitting").row = r
  BY DEF Idle, Sent
<1>3. c = Sent(r, t, "submitting") /\ t.action = "submit"
  BY <1>1, <1>2, NoStart
<1>4. call'[a] = IF a = b THEN c ELSE call[a]
  BY <1>1 DEF IInv, TypeOK
<1> QED
  BY <1>2, <1>3, <1>4 DEF StartsReplacement

LEMMA Starter ==
    ASSUME IInv, [Next]_vars, NEW a \in Actors, StartsReplacement(a)
    PROVE  Replaces(a)
<1>1. Idle.pc = "idle" /\ row \in [Rows -> RowType] /\ call \in [Actors -> CallType]
  BY DEF Idle, IInv, TypeOK
<1>2. ASSUME NEW b \in Actors, Return(b)
      PROVE  FALSE
  BY <1>1, <1>2, NoStart DEF Return
<1>3. ASSUME UNCHANGED call
      PROVE  FALSE
  BY <1>3 DEF StartsReplacement
<1>4. ASSUME NEW b \in Clients, UserRequest(b)
      PROVE  FALSE
  <2>1. b \in Actors
    BY DEF Actors
  <2>2. ASSUME NEW r \in Rows, RequestCancel(b, r)
        PROVE  FALSE
    <3>1. BeginCancel(row[r]).action = "cancel"
      BY <1>1 DEF BeginCancel, RowType
    <3> QED
      BY <2>1, <2>2, <3>1, AdvanceStart DEF RequestCancel
  <2>3. ASSUME NEW r \in Rows, RequestNext(b, r)
        PROVE  FALSE
    <3>1. PICK t \in BeginSwitch(r, row[r]) : Advance(b, r, t)
      BY <2>3 DEF RequestNext
    <3>2. t.action # "submit"
      BY <1>1, <3>1 DEF BeginSwitch, Exhaust, QueueSwitch, RowType
    <3> QED
      BY <2>1, <3>1, <3>2, AdvanceStart
  <2>4. ASSUME NEW h \in Hashes, RequestEnqueue(b, h)
        PROVE  FALSE
    <3> DEFINE c == [pc |-> "submitting", row |-> 0, action |-> "enqueue",
                     hash |-> NoHash, next |-> h]
    <3>1. call' = [call EXCEPT ![b] = c] /\ c.action # "submit"
      BY <2>4 DEF RequestEnqueue
    <3> HIDE DEF c
    <3> QED
      BY <2>1, <3>1, NoStart
  <2> QED
    BY <1>4, <2>2, <2>3, <2>4 DEF UserRequest
<1>5. ASSUME NEW b \in Actors, Answer(b)
      PROVE  FALSE
  <2>1. CASE Return(b)
    BY <1>2, <2>1
  <2>2. ASSUME NEW label \in {"removed", "submitted", "refused"}, Reply(b, label)
        PROVE  FALSE
    <3> DEFINE c == [call[b] EXCEPT !.pc = label]
    <3>1. call' = [call EXCEPT ![b] = c] /\ c.pc # "submitting"
      BY <1>1, <2>2 DEF Reply, CallType
    <3> HIDE DEF c
    <3> QED
      BY <3>1, NoStart
  <2> QED
    BY <1>5, <2>1, <2>2 DEF Answer, RemovalDone, RemovalRaised, SubmitAccepted, SubmitRefused
<1>6. ASSUME NEW b \in Actors, Resume(b)
      PROVE  Replaces(a)
  <2>1. AfterRemoval(b) /\ call[b].action = "switch"
        /\ Advance(b, call[b].row, [row[call[b].row] EXCEPT !.action = "submit"])
    BY <1>2, <1>6 DEF Resume, AfterRemoval, RecordSwitch, RecordRefusal, RecordEnqueue
  <2>2. call[b].row \in Rows
    BY <2>1 DEF AfterRemoval, At, IInv, CallsWellFormed, WellFormed
  <2>3. a = b /\ call'[a].row = call[b].row
    BY <2>1, <2>2, AdvanceStart
  <2> QED
    BY <2>1, <2>3 DEF Replaces
<1>7. CASE PollStep
  <2>1. \A label : PollerAt(label).action = ""
    BY DEF PollerAt, Idle
  <2>2. ~(PollList \/ PollApply)
    BY <2>1, NoStart, PollerActs DEF PollList, PollApply
  <2>3. ~PollFailed /\ \A r \in Rows : ~Complete(r)
    BY <1>2, <1>3, PollerActs DEF PollFailed, Complete
  <2>4. PICK r \in Rows : /\ Live(row[r]) /\ Advance(Poller, r, row[r])
                          /\ \/ UNCHANGED overlaps
                             \/ Rewrites(Poller, r)
    BY <1>2, <1>7, <2>2, <2>3, PollerActs
    DEF PollStep, AdvancePending, PendingRows, Pending, Cancellable, Live
  <2>5. row[r].action = "submit" /\ call'[a].row = r
    BY <2>4, PollerActs, AdvanceStart
  <2>6. r \in overtaken => r \in overtaken'
    BY <2>4 DEF Rewrites, overlaps
  <2> QED
    BY <2>4, <2>5, <2>6 DEF Replaces, Live
<1>8. ASSUME ApplyStep
      PROVE  FALSE
  <2>1. PollerAt("completing").action = ""
    BY DEF PollerAt, Idle
  <2>2. ~ApplyEnd
    BY <2>1, NoStart, PollerActs DEF ApplyEnd
  <2> QED
    BY <1>3, <1>8, <2>2 DEF ApplyStep, ApplyRow
<1>9. ASSUME Crash
      PROVE  FALSE
  BY <1>1, <1>9 DEF Crash, StartsReplacement
<1>10. (\E h \in Hashes : RemoteEnds(h)) \/ UNCHANGED vars => UNCHANGED call
  BY DEF RemoteEnds, vars
<1> QED
  BY <1>3, <1>4, <1>5, <1>6, <1>7, <1>8, <1>9, <1>10 DEF Next

(* The service has dropped the magnet a row leaves before its replacement  *)
(* is submitted, unless another row or a submission no row names has it or *)
(* the row was overtaken: also when the switch is taken up by a later wave *)
(* or after a restart.                                                     *)
THEOREM ReplacementWaits == Spec => PredecessorRemoved
<1>1. ASSUME Settled, [Next]_vars, NEW a \in Actors, StartsReplacement(a),
             call'[a].row \notin overtaken'
      PROVE  LET r == call'[a].row IN
             remote[row[r].hash] = "absent" \/ HeldBeside(r, row[r].hash)
  <2>1. CASE AfterRemoval(a) /\ call'[a].row = call[a].row
    <3> DEFINE r == call[a].row
    <3>1. call[a].pc = "removed" /\ WellFormed(row, call[a])
      BY <1>1, <2>1, CallTyped DEF AfterRemoval, At, Settled
    <3>2. Carries(a) /\ r \in Rows /\ Created(r) /\ Rewrites(a, r)
      BY <2>1, <3>1 DEF AfterRemoval, Carries, WellFormed, Created
    <3>3. <<a, r>> \notin behind /\ r \notin overtaken
      BY <1>1, <2>1, <3>2, RewriteIs
    <3>4. Dropped(r) /\ row[r].hash # row[r].next
      BY <1>1, <3>1, <3>2, <3>3, CurrentIsHash DEF Dropped, Fresh, Settled
    <3>5. ~Keeps(r, row[r].hash)
      BY <3>3, <3>4 DEF Keeps
    <3> QED
      BY <1>1, <2>1, <3>2, <3>5, NotItsOwn
  <2>2. ASSUME NEW r \in Rows, row[r].action = "submit", call'[a].row = r,
               row[r].status # "none", r \in overtaken => r \in overtaken'
        PROVE  remote[row[r].hash] = "absent" \/ HeldBeside(r, row[r].hash)
    <3>1. Created(r) /\ r \notin overtaken
      BY <1>1, <2>2 DEF Created
    <3>2. row[r].hash # row[r].next
      BY <1>1, <3>1, CurrentIsHash DEF Settled
    <3>3. ~Keeps(r, row[r].hash)
      BY <2>2, <3>1, <3>2 DEF Keeps
    <3> QED
      BY <1>1, <3>1, <3>3, NotItsOwn
  <2>3. CASE \E r \in Rows :
               /\ row[r].action = "submit" /\ call'[a].row = r
               /\ row[r].status # "none"
               /\ r \in overtaken => r \in overtaken'
    <3>1. PICK r \in Rows : /\ row[r].action = "submit" /\ call'[a].row = r
                            /\ row[r].status # "none"
                            /\ r \in overtaken => r \in overtaken'
      BY <2>3
    <3>2. remote[row[r].hash] = "absent" \/ HeldBeside(r, row[r].hash)
      BY <2>2, <3>1
    <3> QED
      BY <3>1, <3>2
  <2>4. Replaces(a)
    BY <1>1, Starter DEF Settled
  <2> QED
    BY <2>1, <2>3, <2>4 DEF Replaces
<1>2. Settled /\ [Next]_vars =>
        \A a \in Actors : StartsReplacement(a) =>
         LET r == call'[a].row IN
         \/ remote[row[r].hash] = "absent" \/ HeldBeside(r, row[r].hash)
         \/ r \in overtaken'
  BY <1>1
<1> QED
  BY <1>2, SettledAlways, PTL DEF PredecessorRemoved, Spec

=============================================================================
