----------------------- MODULE ObsoleteExports_proofs -----------------------
(***************************************************************************)
(* The queue of the obsolete exports, for any number of codes and restarts *)
(* and with scans and exports running at any time: its variables keep      *)
(* their types, and it loses no code but one marked while a drain runs.    *)
(***************************************************************************)
EXTENDS ObsoleteExports, TLAPS

SavedIsQueue == saved = codes

(* While a drain runs, what it has not dealt with is still to be checked,  *)
(* kept or being removed, or it was marked meanwhile.                      *)
DrainAccounts ==
    pc # "idle" => \A c \in owed :
        c \in pending \cup kept \cup interim \/ (pc = "remove" /\ c = current)

(* What is kept, still to be checked or at hand was queued.                *)
KeptAreQueued ==
    pc # "idle" =>
        /\ kept \subseteq codes /\ pending \subseteq codes
        /\ pc \in {"remove", "notify"} => current \in codes

OwedIsQueued == owed \subseteq codes

IInv == TypeOK /\ SavedIsQueue /\ DrainAccounts /\ KeptAreQueued /\ OwedIsQueued

-----------------------------------------------------------------------------
LEMMA TypeInductive == TypeOK /\ [Next]_vars => TypeOK'
<1> SUFFICES ASSUME TypeOK, [Next]_vars PROVE TypeOK'
  OBVIOUS
<1> USE ConstantsAssumption DEF marks
<1>1. ASSUME NEW c \in Codes, LoseWork(c) \/ GainWork(c) \/ Mark(c) \/ Export(c)
      PROVE  TypeOK'
  BY <1>1 DEF LoseWork, GainWork, Mark, Export, TypeOK, drain
<1>2. CASE DrainStarts
  BY <1>2 DEF DrainStarts, TypeOK
<1>3. ASSUME NEW c \in Codes, Check(c)
      PROVE  TypeOK'
  BY <1>3 DEF Check, TypeOK
<1>4. CASE Remove
  BY <1>4 DEF Remove, Keep, TypeOK
<1>5. CASE Notify
  BY <1>5 DEF Notify, Keep, TypeOK
<1>6. CASE DrainEnds
  BY <1>6 DEF DrainEnds, TypeOK
<1>7. CASE Restart
  BY <1>7 DEF Restart, TypeOK
<1>8. CASE UNCHANGED vars
  BY <1>8 DEF vars, drain, TypeOK
<1> QED
  BY <1>1, <1>2, <1>3, <1>4, <1>5, <1>6, <1>7, <1>8 DEF Next, Drain

LEMMA Initially == Init => IInv
  BY ConstantsAssumption
  DEF Init, IInv, TypeOK, SavedIsQueue, DrainAccounts, KeptAreQueued, OwedIsQueued

LEMMA Inductive == IInv /\ [Next]_vars => IInv'
<1> SUFFICES ASSUME IInv, [Next]_vars PROVE IInv'
  OBVIOUS
<1>1. TypeOK'
  BY TypeInductive DEF IInv
<1> SUFFICES (SavedIsQueue /\ DrainAccounts /\ KeptAreQueued /\ OwedIsQueued)'
  BY <1>1 DEF IInv
<1> USE DEF IInv, SavedIsQueue, DrainAccounts, KeptAreQueued, OwedIsQueued, marks
<1>2. ASSUME NEW c \in Codes, LoseWork(c) \/ GainWork(c) \/ Export(c)
      PROVE  (SavedIsQueue /\ DrainAccounts /\ KeptAreQueued /\ OwedIsQueued)'
  BY <1>2 DEF LoseWork, GainWork, Export, drain
<1>3. ASSUME NEW c \in Codes, Mark(c)
      PROVE  (SavedIsQueue /\ DrainAccounts /\ KeptAreQueued /\ OwedIsQueued)'
  BY <1>3 DEF Mark, drain
<1>4. CASE DrainStarts
  BY <1>4 DEF DrainStarts
<1>5. ASSUME NEW c \in Codes, Check(c)
      PROVE  (SavedIsQueue /\ DrainAccounts /\ KeptAreQueued /\ OwedIsQueued)'
  BY <1>5 DEF Check
<1>6. CASE Remove
  BY <1>6 DEF Remove, Keep
<1>7. CASE Notify
  BY <1>7 DEF Notify, Keep
<1>8. CASE DrainEnds
  BY <1>8 DEF DrainEnds
<1>9. CASE Restart
  BY <1>9 DEF Restart
<1>10. CASE UNCHANGED vars
  BY <1>10 DEF vars, drain
<1> QED
  BY <1>2, <1>3, <1>4, <1>5, <1>6, <1>7, <1>8, <1>9, <1>10 DEF Next, Drain

-----------------------------------------------------------------------------
(* The queue, its file and the locals of a drain keep their types, with    *)
(* scans and exports at any time.                                          *)
THEOREM TypeCorrect == Spec => []TypeOK
<1>1. Init => TypeOK
  BY Initially DEF IInv
<1> QED
  BY <1>1, TypeInductive, PTL DEF Spec

(* A code that is marked and not dealt with is in the state file, so that  *)
(* a restart finds it.                                                     *)
THEOREM OwedIsSaved == Spec => [](owed \subseteq saved)
<1>1. IInv => owed \subseteq saved
  BY DEF IInv, OwedIsQueued, SavedIsQueue
<1> QED
  BY <1>1, Initially, Inductive, PTL DEF Spec

-----------------------------------------------------------------------------
(* Every step of the queue is a step of a durable queue or changes nothing *)
(* of it.                                                                  *)
LEMMA StepRefines ==
    ASSUME IInv, [Next]_vars
    PROVE  [DQ!Next]_(DQ!queueVars)
<1> SUFFICES DQ!Next \/ UNCHANGED <<saved, owed, lost>>
  BY DEF DQ!queueVars
<1> USE DEF IInv, SavedIsQueue, TypeOK, marks
<1>1. ASSUME NEW c \in Codes, Mark(c)
      PROVE  DQ!Next
  <2>1. DQ!Owe({c}) /\ {c} \in SUBSET Codes
    BY <1>1 DEF Mark, DQ!Owe
  <2> QED
    BY <2>1 DEF DQ!Next
<1>2. ASSUME NEW c \in Codes, Check(c)
      PROVE  DQ!Next \/ UNCHANGED <<saved, owed, lost>>
  <2>1. DQ!Settle({c}) \/ UNCHANGED <<saved, owed, lost>>
    BY <1>2 DEF Check, DQ!Settle
  <2>2. {c} \in SUBSET Codes
    OBVIOUS
  <2> QED
    BY <2>1, <2>2 DEF DQ!Next
<1>3. CASE Remove
  <2>1. DQ!Settle({current}) \/ UNCHANGED <<saved, owed, lost>>
    BY <1>3 DEF Remove, DQ!Settle
  <2>2. {current} \in SUBSET Codes
    BY <1>3 DEF Remove
  <2> QED
    BY <2>1, <2>2 DEF DQ!Next
<1>4. CASE DrainEnds
  <2> DEFINE S == (owed \cap interim) \ kept
             done == (saved \ kept) \ S
  <2>1. done \cap owed = {}
    BY <1>4 DEF DrainEnds, DrainAccounts
  <2>2. kept \subseteq saved
    BY <1>4 DEF DrainEnds, KeptAreQueued
  <2>3. /\ saved' = kept /\ owed' = owed \ (interim \ kept)
        /\ lost' = lost \cup S
    BY <1>4 DEF DrainEnds
  <2>4. saved' = (saved \cup {}) \ (S \cup done) /\ owed' = (owed \cup {}) \ S
    BY <2>2, <2>3 DEF OwedIsQueued
  <2>5. DQ!GiveUp(S, {}, done)
    BY <2>1, <2>3, <2>4 DEF DQ!GiveUp
  <2>6. S \in SUBSET Codes /\ {} \in SUBSET Codes /\ done \in SUBSET Codes
    OBVIOUS
  <2> QED
    BY <2>5, <2>6 DEF DQ!Next
<1>5. ASSUME NEW c \in Codes, LoseWork(c) \/ GainWork(c) \/ Export(c)
      PROVE  UNCHANGED <<saved, owed, lost>>
  BY <1>5 DEF LoseWork, GainWork, Export
<1>6. CASE DrainStarts \/ Notify \/ Restart \/ UNCHANGED vars
  BY <1>6 DEF DrainStarts, Notify, Restart, vars
<1> QED
  BY <1>1, <1>2, <1>3, <1>4, <1>5, <1>6 DEF Next, Drain

(* The queue of the obsolete exports is a durable queue: what is marked    *)
(* stays in the state file until a drain deals with it, whatever fails,    *)
(* overlaps or is restarted, but for what is marked while a drain runs.    *)
THEOREM QueueImplemented == Spec => ImplementsQueue
<1>1. Init => DQ!Init
  BY DEF Init, DQ!Init
<1>2. IInv /\ [Next]_vars => [DQ!Next]_(DQ!queueVars)
  BY StepRefines
<1> QED
  BY <1>1, <1>2, Initially, Inductive, PTL DEF Spec, ImplementsQueue, DQ!Spec
=============================================================================
