--------------------------- MODULE Organize_proofs ----------------------------
(***************************************************************************)
(* For any number of assets, works, changes of the user's and failures: a  *)
(* file the user puts where a video was or goes is never lost, and an undo *)
(* without errors restores what the run found, if no file was touched.     *)
(*                                                                         *)
(* Shape says what a journal can hold and what lies where; it is inductive *)
(* by itself and implies that every write of the run and the undo goes to  *)
(* a free place, over a file of their own, or over one the user put there  *)
(* after they looked.  Right says that the disk is what the entries that   *)
(* stand make of the disk of before: an entry stands from when it is       *)
(* appended until the undo has dealt with it.                              *)
(***************************************************************************)
EXTENDS Organize, TLAPS

(* Contents of the user's that stand for a video.                          *)
Theirs == {Users(p) : p \in {"src", "dst"} \X Items}

(* What an entry of the journal can be.                                    *)
MediaEntry(e) ==
    \E i \in Items :
        /\ e.path = Dst(i)
        /\ \/ mode = "move" /\ e.action = "move_back" /\ e.original = Src(i)
           \/ /\ mode = "copy" /\ e.action = "delete_created" /\ e.original = Dst(i)
              /\ e.content \in {Media(i), Users(Src(i))}
NfoEntry(e) ==
    \E i \in Items :
        /\ e.path = <<"nfo", i>> /\ e.original = e.path
        /\ \/ e.action = "delete_created" /\ \E k \in Items : e.content = Written(k)
           \/ e.action = "restore_text" /\ e.content \notin Theirs /\ e.content # None
CleanupEntry(e) ==
    \/ e.action = "restore_trashed" /\ e.path = Trash /\ e.original = Junk
    \/ e.action = "recreate" /\ e.path = Junk
Fits(e) == MediaEntry(e) \/ NfoEntry(e) \/ CleanupEntry(e)
JournalFits == \A j \in 1..Len(journal) : Fits(journal[j])

(* Where the run and the undo are.                                         *)
StepShape ==
    /\ run.step \in {"item", "media", "nfo", "trash", "rmdir", "succeeded"} =>
         run.item \in Items
    /\ run.step \in {"stored", "undo", "undoing", "undone"} => run.item <= Len(journal)
    /\ run.step = "stored" => run.item = Len(journal)
    /\ run.step = "undoing" => run.item > 0
    /\ run.step = "undone" => run.item = 0
(* A place that was looked at is as it was seen, or the user was there.    *)
Vacant(p) == disk[p] = None \/ (p \in raced /\ disk[p] = Users(p))
LookedAt(e) ==
    \/ /\ e.action \in {"move_back", "restore_trashed"}
       /\ Vacant(e.original)
    \/ /\ e.action = "delete_created"
       /\ Vacant(e.path) \/ disk[e.path] = e.content
ActShape ==
    /\ run.step = "media" => Vacant(Dst(run.item))
    /\ run.step = "undoing" => LookedAt(Current)

(* What else the run and the undo write over is never a file of the user's. *)
DiskShape ==
    /\ \A i \in Items : disk[<<"nfo", i>>] \notin Theirs
    /\ disk[Junk] \in {None, Filtered, Partial} /\ disk[Trash] \in {None, Filtered, Partial}
    /\ mode = "copy" => \A i \in Items :
         /\ disk[Src(i)] \in {None, Media(i), Users(Src(i))}
         /\ Src(i) \in users => disk[Src(i)] = Users(Src(i))

Shape == TypeOK /\ StepShape /\ ActShape /\ JournalFits /\ DiskShape

-----------------------------------------------------------------------------
(* Places and contents are told apart.                                     *)

LEMMA PlacesIn ==
    ASSUME OrganizeAssumption, NEW i \in Items
    PROVE  /\ Src(i) \in Places /\ Dst(i) \in Places /\ Own(i) \in Places
           /\ Nfo(i) \in Places /\ <<"nfo", i>> \in Places
           /\ Nfo(i) = <<"nfo", WorkOf[i]>> /\ WorkOf[i] \in Items
BY DEF OrganizeAssumption, Src, Dst, Own, Nfo, Places
LEMMA CleanupPlacesIn == Junk \in Places /\ Trash \in Places
BY DEF Places
LEMMA ContentsIn ==
    ASSUME OrganizeAssumption, NEW i \in Items
    PROVE  Media(i) \in Contents /\ Written(i) \in Contents /\ Users(Src(i)) \in Contents
BY DEF OrganizeAssumption, Media, Written, Contents, Users, Src
LEMMA MoreContents ==
    /\ None \in Contents /\ Earlier \in Contents /\ Filtered \in Contents
    /\ Partial \in Contents
    /\ None # Earlier /\ None # Filtered /\ None # Partial
BY DEF Contents, None, Earlier, Filtered, Partial
LEMMA UsersIn ==
    ASSUME NEW p \in Places, p[1] \in {"src", "dst", "nfo"}
    PROVE  Users(p) \in Contents /\ Users(p) # None
BY DEF Places, Contents, Users, None, Junk, Trash
LEMMA NotTheirs ==
    /\ None \notin Theirs /\ Earlier \notin Theirs /\ Filtered \notin Theirs
    /\ Partial \notin Theirs
    /\ \A i \in Items : /\ Media(i) \notin Theirs /\ Written(i) \notin Theirs
                        /\ Users(<<"nfo", i>>) \notin Theirs
BY DEF Theirs, None, Earlier, Filtered, Partial, Media, Written, Users
LEMMA Apart ==
    /\ Junk # Trash
    /\ \A i \in Items :
        /\ Src(i) \notin {Junk, Trash} /\ Dst(i) \notin {Junk, Trash}
        /\ Own(i) \notin {Junk, Trash}
        /\ <<"nfo", i>> \notin {Junk, Trash}
        /\ \A k \in Items : /\ Src(i) # Dst(k) /\ Src(i) # Own(k) /\ Src(i) # <<"nfo", k>>
                            /\ Dst(i) # Own(k) /\ Dst(i) # <<"nfo", k>> /\ Own(i) # <<"nfo", k>>
                            /\ i # k => /\ Src(i) # Src(k) /\ Dst(i) # Dst(k) /\ Own(i) # Own(k)
                                        /\ <<"nfo", i>> # <<"nfo", k>>
BY DEF Src, Dst, Own, Junk, Trash
LEMMA ApartContents ==
    \A i \in Items : Media(i) # None /\ Written(i) # None /\ Users(Src(i)) # None
BY DEF Media, Written, Users, Src, None

-----------------------------------------------------------------------------
(* Types, steps and the journal.                                           *)

EntryType == [action : {"move_back", "delete_created", "restore_text",
                        "restore_trashed", "recreate"},
              path : Places, original : Places, content : Contents]

(* One more entry in the journal.                                          *)
LEMMA Recorded ==
    ASSUME journal \in Seq(EntryType), JournalFits, NEW e \in EntryType, Fits(e),
           journal' = Append(journal, e), UNCHANGED mode
    PROVE  journal' \in Seq(EntryType) /\ JournalFits'
<1>1. \A x : Fits(x)' <=> Fits(x)
  BY DEF Fits, MediaEntry, NfoEntry, CleanupEntry
<1> QED
  BY <1>1 DEF JournalFits
LEMMA RecordKept ==
    ASSUME journal \in Seq(EntryType), JournalFits, UNCHANGED <<journal, mode>>
    PROVE  journal' \in Seq(EntryType) /\ JournalFits'
BY DEF JournalFits, Fits, MediaEntry, NfoEntry, CleanupEntry

RunType == [step : {"item", "media", "nfo", "trash", "rmdir", "succeeded", "store",
                    "stored", "undo", "undoing", "undone"},
            item : Nat, conflict : BOOLEAN, errors : BOOLEAN]
FilesType ==
    /\ mode \in {"move", "copy"} /\ policy \in {"error", "skip", "replace"}
    /\ disk \in [Places -> Contents] /\ before \in [Places -> Contents]
    /\ sourceDir \in BOOLEAN
    /\ completed \subseteq Items /\ paths \in [Items -> Places]
    /\ users \subseteq Places /\ moved \subseteq Items /\ raced \subseteq users
    /\ unsaved \subseteq Places
    /\ changes \in 0..MaxChanges /\ failures \in 0..MaxFailures
LEMMA TypeParts == TypeOK <=> FilesType /\ run \in RunType /\ journal \in Seq(EntryType)
BY DEF TypeOK, FilesType, RunType, EntryType
LEMMA TypePartsNext ==
    TypeOK' <=> FilesType' /\ run' \in RunType /\ journal' \in Seq(EntryType)
BY DEF TypeOK, FilesType, RunType, EntryType

LEMMA NextItemFits ==
    ASSUME OrganizeAssumption, run \in RunType, run.item \in Items, NextItem
    PROVE  /\ run' \in RunType /\ run'.errors = run.errors
           /\ run'.step \in {"item", "store"} /\ run'.item \in Items
<1> DEFINE s == IF run.item = Assets THEN "store" ELSE "item"
           n == IF run.item = Assets THEN run.item ELSE run.item + 1
<1>0. s \in {"item", "store"}
  OBVIOUS
<1>1. n \in Items
  <2>1. CASE run.item = Assets
    BY <2>1
  <2>2. CASE run.item # Assets
    <3>1. Assets \in Nat /\ run.item \in 1..Assets
      BY DEF OrganizeAssumption, Items
    <3> QED
      BY <2>2, <3>1 DEF Items
  <2> QED
    BY <2>1, <2>2
<1>2. /\ run' \in [step : {"item", "store"}, item : {n}, conflict : {run.conflict},
                   errors : {run.errors}]
  BY DEF NextItem, RunType
<1> QED
  BY <1>0, <1>1, <1>2 DEF RunType, Items
LEMMA StepGoesOn ==
    ASSUME NEW s \in {"item", "media", "nfo", "trash", "rmdir", "succeeded", "store",
                      "stored", "undo", "undoing", "undone"},
           run \in RunType, ToStep(s)
    PROVE  /\ run' \in RunType /\ run'.errors = run.errors
           /\ run'.step = s /\ run'.item = run.item
BY DEF ToStep, RunType

LEMMA ItemBeginsShape == ASSUME OrganizeAssumption, Shape, ItemBegins PROVE Shape'
<1>0. run \in RunType /\ run.item \in Items
  BY TypeParts DEF Shape, StepShape, ItemBegins
<1>1. journal' \in Seq(EntryType) /\ JournalFits'
  BY TypeParts, RecordKept DEF Shape, ItemBegins
<1>2. FilesType' /\ DiskShape'
  BY TypeParts DEF Shape, FilesType, DiskShape, ItemBegins, history
<1>3. run' \in RunType /\ StepShape' /\ ActShape'
  <2>1. CASE Conflicts(run.item)
    BY <1>0, <2>1, NextItemFits DEF ItemBegins, StepShape, ActShape
  <2>2. CASE ~Conflicts(run.item)
    <3>1. run' = [run EXCEPT !.step = "media", !.conflict = Exists(Nfo(run.item))]
      BY <2>2 DEF ItemBegins
    <3>2. disk' = disk /\ ~Exists(Dst(run.item))
      BY <2>2 DEF ItemBegins, Conflicts
    <3>3. Exists(Nfo(run.item)) \in BOOLEAN
      BY DEF Exists
    <3> QED
      BY <1>0, <3>1, <3>2, <3>3 DEF RunType, StepShape, ActShape, Vacant, Exists, Dst
  <2> QED
    BY <2>1, <2>2
<1> QED
  BY <1>1, <1>2, <1>3, TypePartsNext DEF Shape

LEMMA MediaPlacedShape == ASSUME OrganizeAssumption, Shape, MediaPlaced PROVE Shape'
<1> DEFINE i == run.item
<1>0. i \in Items /\ Src(i) \in Places /\ Dst(i) \in Places /\ disk[Src(i)] \in Contents
  BY PlacesIn DEF Shape, StepShape, TypeOK, MediaPlaced
<1>1. journal' \in Seq(EntryType) /\ JournalFits'
  <2>1. CASE mode = "move"
    <3> DEFINE e == Entry("move_back", Dst(i), Src(i), disk[Src(i)])
    <3>1. e \in EntryType /\ Fits(e)
      BY <1>0, <2>1 DEF EntryType, Entry, Fits, MediaEntry
    <3>2. journal' = Append(journal, e)
      BY <2>1 DEF MediaPlaced
    <3> QED
      BY <3>1, <3>2, Recorded, TypeParts DEF Shape, MediaPlaced, OfRun
  <2>2. CASE mode # "move"
    <3> DEFINE e == Entry("delete_created", Dst(i), Dst(i), disk[Src(i)])
    <3>0. mode = "copy" /\ disk[Src(i)] \in {Media(i), Users(Src(i))}
      BY <1>0, <2>2 DEF MediaPlaced, Exists, Shape, DiskShape, TypeOK
    <3>1. e \in EntryType /\ Fits(e)
      BY <1>0, <3>0 DEF EntryType, Entry, Fits, MediaEntry
    <3>2. journal' = Append(journal, e)
      BY <2>2 DEF MediaPlaced
    <3> QED
      BY <3>1, <3>2, Recorded, TypeParts DEF Shape, MediaPlaced, OfRun
  <2> QED
    BY <2>1, <2>2
<1>2. FilesType'
  BY <1>0, TypeParts, MoreContents DEF Shape, FilesType, MediaPlaced, OfRun, history, Moved
<1>3. run' \in RunType /\ StepShape' /\ ActShape'
  BY <1>0, TypeParts, StepGoesOn DEF Shape, StepShape, ActShape, MediaPlaced
<1>4. DiskShape'
  <2>0. \A p \in Places : p \notin {Src(i), Dst(i)} => disk'[p] = disk[p]
    <3>1. \/ disk' = [disk EXCEPT ![Src(i)] = None, ![Dst(i)] = disk[Src(i)]]
          \/ disk' = [disk EXCEPT ![Dst(i)] = disk[Src(i)]]
      BY DEF MediaPlaced, Moved
    <3> QED
      BY <1>0, <3>1, TypeParts DEF Shape, FilesType
  <2>1. \A k \in Items : disk'[<<"nfo", k>>] = disk[<<"nfo", k>>]
    BY <1>0, <2>0, Apart, PlacesIn
  <2>2. disk'[Junk] = disk[Junk] /\ disk'[Trash] = disk[Trash]
    BY <1>0, <2>0, Apart, CleanupPlacesIn
  <2>3. ASSUME mode' = "copy", NEW k \in Items
        PROVE  mode = "copy" /\ disk'[Src(k)] = disk[Src(k)]
    <3>1. mode = "copy" /\ disk' = [disk EXCEPT ![Dst(i)] = disk[Src(i)]]
      BY <2>3 DEF MediaPlaced, OfRun
    <3> QED
      BY <1>0, <3>1, Apart, PlacesIn, TypeParts DEF Shape, FilesType
  <2> QED
    BY <2>1, <2>2, <2>3 DEF Shape, DiskShape, MediaPlaced, OfRun, history
<1> QED
  BY <1>1, <1>2, <1>3, <1>4, TypePartsNext DEF Shape

LEMMA SavedFits ==
    ASSUME OrganizeAssumption, Shape, NEW i \in Items, Exists(Nfo(i)), journal' = Saved(i),
           UNCHANGED mode
    PROVE  journal' \in Seq(EntryType) /\ JournalFits'
<1> DEFINE e == Entry("restore_text", Nfo(i), Nfo(i), disk[Nfo(i)])
<1>1. /\ WorkOf[i] \in Items /\ Nfo(i) = <<"nfo", WorkOf[i]>> /\ Nfo(i) \in Places
      /\ disk[Nfo(i)] \in Contents
  BY PlacesIn DEF Shape, TypeOK
<1>2. e \in EntryType /\ Fits(e)
  BY <1>1 DEF EntryType, Entry, Fits, NfoEntry, Shape, DiskShape, Exists
<1> QED
  BY <1>2, Recorded, TypeParts DEF Shape, Saved
LEMMA NfoWrittenShape == ASSUME OrganizeAssumption, Shape, NfoWritten PROVE Shape'
<1> DEFINE i == run.item
           N == <<"nfo", WorkOf[i]>>
<1>0. /\ i \in Items /\ WorkOf[i] \in Items /\ Nfo(i) = N /\ N \in Places /\ disk[N] \in Contents
      /\ Written(i) \in Contents /\ UNCHANGED mode
  BY PlacesIn, ContentsIn DEF Shape, StepShape, TypeOK, NfoWritten
<1>1. journal' \in Seq(EntryType) /\ JournalFits'
  <2>1. CASE journal' = journal
    BY <1>0, <2>1, RecordKept, TypeParts DEF Shape
  <2>2. CASE Exists(Nfo(i)) /\ journal' = Saved(i)
    BY <1>0, <2>2, SavedFits DEF Shape
  <2>3. CASE journal' = Append(journal, Entry("delete_created", Nfo(i), Nfo(i), Written(i)))
    <3> DEFINE e == Entry("delete_created", Nfo(i), Nfo(i), Written(i))
    <3>1. e \in EntryType /\ Fits(e)
      BY <1>0 DEF EntryType, Entry, Fits, NfoEntry
    <3> QED
      BY <1>0, <2>3, <3>1, Recorded, TypeParts DEF Shape
  <2> QED
    BY <2>1, <2>2, <2>3 DEF NfoWritten, BackedUp
<1>2. FilesType'
  <2>1. disk' \in [Places -> Contents]
    BY <1>0, TypeParts DEF Shape, FilesType, NfoWritten
  <2>2. unsaved' \subseteq Places
    <3>1. unsaved' = unsaved \/ unsaved' = unsaved \cup {N}
      BY <1>0 DEF NfoWritten
    <3> QED
      BY <1>0, <3>1, TypeParts DEF Shape, FilesType
  <2> QED
    BY <2>1, <2>2, TypeParts DEF Shape, FilesType, NfoWritten
<1>3. run' \in RunType /\ StepShape' /\ ActShape'
  BY <1>0, TypeParts, StepGoesOn DEF Shape, StepShape, ActShape, NfoWritten
<1>4. DiskShape'
  <2>1. disk' = disk \/ disk' = [disk EXCEPT ![N] = Written(i)]
    BY <1>0 DEF NfoWritten
  <2>2. \A k \in Items : disk'[Src(k)] = disk[Src(k)]
    BY <1>0, <2>1, Apart, PlacesIn, TypeParts DEF Shape, FilesType
  <2>3. disk'[Junk] = disk[Junk] /\ disk'[Trash] = disk[Trash]
    BY <1>0, <2>1, Apart, CleanupPlacesIn, TypeParts DEF Shape, FilesType
  <2>4. \A k \in Items : disk'[<<"nfo", k>>] \in {disk[<<"nfo", k>>], Written(i)}
    BY <1>0, <2>1, PlacesIn, TypeParts DEF Shape, FilesType
  <2>5. Written(i) \notin Theirs
    BY <1>0, NotTheirs
  <2> QED
    BY <2>2, <2>3, <2>4, <2>5 DEF Shape, DiskShape, NfoWritten
<1> QED
  BY <1>1, <1>2, <1>3, <1>4, TypePartsNext DEF Shape
LEMMA JunkTrashedShape == ASSUME OrganizeAssumption, Shape, JunkTrashed PROVE Shape'
<1>0. run.item \in Items /\ disk[Junk] \in Contents
  BY TypeParts, CleanupPlacesIn DEF Shape, StepShape, FilesType, JunkTrashed
<1>1. journal' \in Seq(EntryType) /\ JournalFits'
  <2>1. CASE ~Exists(Junk)
    BY <2>1, RecordKept, TypeParts DEF Shape, JunkTrashed, OfRun
  <2>2. CASE Exists(Junk)
    <3> DEFINE e == Entry("restore_trashed", Trash, Junk, disk[Junk])
    <3>1. e \in EntryType /\ Fits(e)
      BY <1>0, CleanupPlacesIn DEF EntryType, Entry, Fits, CleanupEntry
    <3>2. journal' = Append(journal, e)
      BY <2>2 DEF JunkTrashed
    <3> QED
      BY <3>1, <3>2, Recorded, TypeParts DEF Shape, JunkTrashed, OfRun
  <2> QED
    BY <2>1, <2>2
<1>2. disk' = disk \/ disk' = [disk EXCEPT ![Junk] = None, ![Trash] = disk[Junk]]
  BY DEF JunkTrashed, Moved
<1>3. FilesType'
  BY <1>0, <1>2, TypeParts, MoreContents DEF Shape, FilesType, JunkTrashed, OfRun, history
<1>4. run' \in RunType /\ StepShape' /\ ActShape'
  BY <1>0, TypeParts, StepGoesOn DEF Shape, StepShape, ActShape, JunkTrashed
<1>5. DiskShape'
  <2>1. \A k \in Items : /\ disk'[Src(k)] = disk[Src(k)]
                         /\ disk'[<<"nfo", k>>] = disk[<<"nfo", k>>]
    <3>1. \A p \in Places : p \notin {Junk, Trash} => disk'[p] = disk[p]
      BY <1>2, TypeParts DEF Shape, FilesType
    <3> QED
      BY <3>1, Apart, PlacesIn
  <2>2. disk'[Junk] \in {None, Filtered, Partial} /\ disk'[Trash] \in {None, Filtered, Partial}
    BY <1>2, CleanupPlacesIn, Apart, TypeParts DEF Shape, FilesType, DiskShape
  <2> QED
    BY <2>1, <2>2 DEF Shape, DiskShape, JunkTrashed, OfRun, history
<1> QED
  BY <1>1, <1>3, <1>4, <1>5, TypePartsNext DEF Shape

LEMMA DirectoryRemovedShape ==
    ASSUME OrganizeAssumption, Shape, DirectoryRemoved
    PROVE  Shape'
<1>0. run.item \in Items
  BY DEF Shape, StepShape, DirectoryRemoved
<1>1. journal' \in Seq(EntryType) /\ JournalFits'
  <2>1. CASE journal' = journal
    BY <2>1, RecordKept, TypeParts DEF Shape, DirectoryRemoved
  <2>2. CASE journal' = Append(journal, Entry("recreate", Junk, Junk, None))
    <3>1. /\ Entry("recreate", Junk, Junk, None) \in EntryType
          /\ Fits(Entry("recreate", Junk, Junk, None))
      BY CleanupPlacesIn, MoreContents DEF EntryType, Entry, Fits, CleanupEntry
    <3> QED
      BY <2>2, <3>1, Recorded, TypeParts DEF Shape, DirectoryRemoved
  <2> QED
    BY <2>1, <2>2 DEF DirectoryRemoved
<1>2. FilesType' /\ DiskShape'
  BY TypeParts DEF Shape, FilesType, DiskShape, DirectoryRemoved, history
<1>3. run' \in RunType /\ StepShape' /\ ActShape'
  BY <1>0, TypeParts, StepGoesOn DEF Shape, StepShape, ActShape, DirectoryRemoved
<1> QED
  BY <1>1, <1>2, <1>3, TypePartsNext DEF Shape

LEMMA ItemSucceedsShape ==
    ASSUME OrganizeAssumption, Shape, ItemSucceeds
    PROVE  Shape'
<1>0. run.item \in Items /\ run \in RunType
  BY TypeParts DEF Shape, StepShape, ItemSucceeds
<1>1. journal' \in Seq(EntryType) /\ JournalFits'
  BY RecordKept, TypeParts DEF Shape, ItemSucceeds, OfRun
<1>2. completed' \subseteq Items
  <2>1. completed \subseteq Items /\ WorkOf[run.item] \in Items
    BY <1>0, TypeParts, PlacesIn DEF Shape, FilesType
  <2> QED
    BY <2>1 DEF ItemSucceeds
<1>3. FilesType' /\ DiskShape'
  BY <1>2, TypeParts DEF Shape, FilesType, DiskShape, ItemSucceeds, history, OfRun
<1>4. run' \in RunType /\ StepShape' /\ ActShape'
  BY <1>0, NextItemFits DEF StepShape, ActShape, ItemSucceeds
<1> QED
  BY <1>1, <1>3, <1>4, TypePartsNext DEF Shape

(* What a failed item leaves behind.                                       *)
LEMMA ItemFailsLeaves ==
    ASSUME OrganizeAssumption, Shape, ItemFails
    PROVE  /\ run.item \in Items /\ run \in RunType
           /\ UNCHANGED <<mode, policy, sourceDir, history, changes, completed, paths>>
           /\ \/ UNCHANGED <<disk, journal>>
              \/ /\ run.step = "media" /\ UNCHANGED journal
                 /\ disk' = [disk EXCEPT ![Dst(run.item)] = Partial]
              \/ /\ run.step = "trash" /\ Exists(Junk) /\ UNCHANGED journal
                 /\ disk' = [disk EXCEPT ![Trash] = Partial]
              \/ /\ run.step = "nfo" /\ Exists(Nfo(run.item)) /\ journal' = Saved(run.item)
                 /\ UNCHANGED disk
BY TypeParts DEF Shape, StepShape, ItemFails, OfRun, history, LeavesPart
LEMMA ItemFailsShape ==
    ASSUME OrganizeAssumption, Shape, ItemFails
    PROVE  Shape'
<1>0. /\ run.item \in Items /\ run \in RunType /\ disk \in [Places -> Contents]
      /\ UNCHANGED <<mode, policy, sourceDir, history, changes, completed, paths>>
  BY ItemFailsLeaves, TypeParts DEF Shape, FilesType
<1>1. journal' \in Seq(EntryType) /\ JournalFits'
  <2>1. CASE UNCHANGED journal
    BY <1>0, <2>1, RecordKept, TypeParts DEF Shape
  <2>2. CASE Exists(Nfo(run.item)) /\ journal' = Saved(run.item)
    BY <1>0, <2>2, SavedFits
  <2> QED
    BY <2>1, <2>2, ItemFailsLeaves
<1>2. failures' \in 0..MaxFailures
  <2>1. CASE UNCHANGED failures
    BY <2>1, TypeParts DEF Shape, FilesType
  <2>2. CASE failures < MaxFailures /\ failures' = failures + 1
    <3>1. failures \in 0..MaxFailures /\ MaxFailures \in Nat
      BY TypeParts DEF Shape, FilesType, OrganizeAssumption
    <3> QED
      BY <2>2, <3>1
  <2> QED
    BY <2>1, <2>2 DEF ItemFails
<1>3. /\ disk' \in [Places -> Contents]
      /\ \A p \in Places : disk'[p] # disk[p] =>
           /\ p = Dst(run.item) \/ p = Trash
           /\ disk'[p] = Partial
  <2>1. CASE disk' = disk
    BY <1>0, <2>1
  <2>2. CASE \E p \in {Dst(run.item), Trash} : disk' = [disk EXCEPT ![p] = Partial]
    BY <1>0, <2>2, PlacesIn, CleanupPlacesIn, MoreContents
  <2> QED
    BY <2>1, <2>2, ItemFailsLeaves
<1>4. DiskShape'
  <2>1. ASSUME NEW k \in Items
        PROVE  disk'[Src(k)] = disk[Src(k)] /\ disk'[<<"nfo", k>>] = disk[<<"nfo", k>>]
    <3>1. /\ Src(k) \notin {Dst(run.item), Trash} /\ <<"nfo", k>> \notin {Dst(run.item), Trash}
          /\ Src(k) \in Places /\ <<"nfo", k>> \in Places
      BY <1>0, <2>1, Apart, PlacesIn
    <3> QED
      BY <1>3, <3>1
  <2>2. disk'[Junk] = disk[Junk] /\ disk'[Trash] \in {disk[Trash], Partial}
    BY <1>0, <1>3, Apart, CleanupPlacesIn
  <2> QED
    BY <1>0, <2>1, <2>2 DEF Shape, DiskShape, history
<1>5. FilesType'
  BY <1>0, <1>2, <1>3, TypeParts DEF Shape, FilesType, history
<1>6. run' \in RunType /\ StepShape' /\ ActShape'
  BY <1>0, NextItemFits DEF StepShape, ActShape, ItemFails
<1> QED
  BY <1>1, <1>4, <1>5, <1>6, TypePartsNext DEF Shape

LEMMA StoredShape ==
    ASSUME OrganizeAssumption, Shape, Stored \/ UndoBegins \/ UndoEnds
    PROVE  Shape'
<1>1. journal' \in Seq(EntryType) /\ JournalFits'
  BY RecordKept, TypeParts DEF Shape, Stored, UndoBegins, UndoEnds, OfRun
<1>2. FilesType' /\ DiskShape'
  BY TypeParts
  DEF Shape, FilesType, DiskShape, Stored, UndoBegins, UndoEnds, history, OfRun
<1>3. run' \in RunType /\ StepShape' /\ ActShape'
  <2>1. CASE Stored
    <3>1. run' = [run EXCEPT !.step = "stored", !.item = Len(journal)] /\ journal' = journal
      BY <2>1 DEF Stored
    <3>2. run \in RunType /\ Len(journal) \in Nat
      BY TypeParts DEF Shape
    <3>3. run' \in RunType /\ run'.step = "stored" /\ run'.item = Len(journal)
      BY <3>1, <3>2 DEF RunType
    <3> QED
      BY <3>1, <3>2, <3>3 DEF StepShape, ActShape
  <2>2. CASE UndoBegins \/ UndoEnds
    BY <2>2, TypeParts, StepGoesOn DEF Shape, StepShape, ActShape, UndoBegins, UndoEnds
  <2> QED
    BY <2>1, <2>2
<1> QED
  BY <1>1, <1>2, <1>3, TypePartsNext DEF Shape
(* The entry at hand of the undo.                                          *)
LEMMA AtHand ==
    ASSUME Shape, run.step \in {"undo", "undoing"}, run.item > 0
    PROVE  /\ run \in RunType /\ run.item \in 1..Len(journal) /\ run.item - 1 \in Nat
           /\ Current \in EntryType /\ Fits(Current)
<1>1. run \in RunType /\ journal \in Seq(EntryType) /\ run.item <= Len(journal)
  BY TypeParts DEF Shape, StepShape
<1>2. run.item \in Nat /\ run.item \in 1..Len(journal)
  BY <1>1 DEF RunType
<1> QED
  BY <1>1, <1>2 DEF Shape, JournalFits, Current

LEMMA UndoStepsBack ==
    ASSUME Shape, run.step \in {"undo", "undoing"}, run.item > 0,
           \/ PreviousEntry
           \/ run' = [run EXCEPT !.step = "undo", !.item = @ - 1, !.errors = TRUE],
           UNCHANGED journal
    PROVE  /\ run' \in RunType /\ run'.step = "undo" /\ run'.item = run.item - 1
           /\ StepShape' /\ ActShape'
<1>1. run \in RunType /\ run.item \in 1..Len(journal) /\ run.item - 1 \in Nat
  BY AtHand
<1>2. run' \in RunType /\ run'.step = "undo" /\ run'.item = run.item - 1
  BY <1>1 DEF RunType, PreviousEntry
<1> QED
  BY <1>1, <1>2 DEF StepShape, ActShape

(* The kinds of entries.                                                   *)
LEMMA EntryKinds ==
    ASSUME NEW e, Fits(e)
    PROVE  /\ e.action \in {"move_back", "delete_created", "restore_text", "restore_trashed",
                            "recreate"}
           /\ e.action = "move_back" =>
                mode = "move" /\ \E i \in Items : e.path = Dst(i) /\ e.original = Src(i)
           /\ e.action = "delete_created" =>
                /\ e.original = e.path
                /\ \/ /\ mode = "copy"
                      /\ \E i \in Items : /\ e.path = Dst(i)
                                          /\ e.content \in {Media(i), Users(Src(i))}
                   \/ \E i, k \in Items : e.path = <<"nfo", i>> /\ e.content = Written(k)
           /\ e.action = "restore_text" =>
                \E i \in Items : /\ e.path = <<"nfo", i>>
                                 /\ e.content \notin Theirs /\ e.content # None
           /\ e.action = "restore_trashed" => e.path = Trash /\ e.original = Junk
           /\ e.action = "recreate" => e.path = Junk
BY DEF Fits, MediaEntry, NfoEntry, CleanupEntry

LEMMA UndoLooksShape == ASSUME OrganizeAssumption, Shape, UndoLooks PROVE Shape'
<1>0. run \in RunType /\ Current \in EntryType /\ run.item > 0
  BY AtHand DEF UndoLooks
<1>1. journal' \in Seq(EntryType) /\ JournalFits'
  BY RecordKept, TypeParts DEF Shape, UndoLooks, OfRun
<1>2. FilesType' /\ DiskShape'
  BY TypeParts DEF Shape, FilesType, DiskShape, UndoLooks, history, OfRun
<1>3. run' \in RunType /\ StepShape' /\ ActShape'
  <2>1. CASE Applies(Current)
    <3>1. run' \in RunType /\ run'.step = "undoing" /\ run'.item = run.item
      BY <1>0, <2>1, StepGoesOn DEF UndoLooks
    <3>2. LookedAt(Current)
      BY <2>1 DEF UndoLooks, Applies, LookedAt, Vacant, Free, Exists
    <3>3. Current' = Current /\ UNCHANGED <<disk, raced, journal>>
      BY <3>1 DEF Current, UndoLooks, OfRun, history
    <3>4. LookedAt(Current)'
      BY <3>2, <3>3 DEF LookedAt, Vacant
    <3> QED
      BY <1>0, <3>1, <3>3, <3>4 DEF StepShape, ActShape, Shape, UndoLooks
  <2>2. CASE ~Applies(Current)
    BY <2>2, UndoStepsBack DEF UndoLooks
  <2> QED
    BY <2>1, <2>2
<1> QED
  BY <1>1, <1>2, <1>3, TypePartsNext DEF Shape

(* An undo moves a file to a place it has looked at, removes one it has    *)
(* looked at, or writes an NFO.                                            *)
LEMMA UndoDisk ==
    ASSUME OrganizeAssumption, Shape, UndoMoves \/ UndoDeletes \/ UndoWrites
    PROVE  \/ disk' = disk
           \/ /\ mode = "move"
              /\ \E i \in Items :
                   /\ Vacant(Src(i))
                   /\ disk' = [disk EXCEPT ![Dst(i)] = None, ![Src(i)] = disk[Dst(i)]]
           \/ /\ mode = "copy"
              /\ \E i \in Items : /\ Vacant(Dst(i)) \/ disk[Dst(i)] \in {Media(i), Users(Src(i))}
                                  /\ disk' = [disk EXCEPT ![Dst(i)] = None]
           \/ \E i \in Items, c \in Contents \ Theirs : disk' = [disk EXCEPT ![<<"nfo", i>>] = c]
           \/ disk' = [disk EXCEPT ![Trash] = None, ![Junk] = disk[Trash]]
<1>0. PICK e : e = Current
  OBVIOUS
<1>1. Fits(e) /\ e \in EntryType
  BY <1>0, AtHand DEF UndoMoves, UndoDeletes, UndoWrites, Shape, StepShape
<1>2. CASE UndoMoves
  <2>1. LookedAt(e) /\ e.action # "delete_created"
    BY <1>0, <1>2 DEF UndoMoves, Shape, ActShape
  <2>2. e.action \in {"move_back", "restore_trashed"} /\ Vacant(e.original)
    BY <2>1 DEF LookedAt
  <2>3. disk' = [disk EXCEPT ![e.path] = None, ![e.original] = disk[e.path]]
    BY <1>0, <1>2 DEF UndoMoves, Moved
  <2> QED
    BY <1>1, <2>2, <2>3, EntryKinds
<1>3. CASE UndoDeletes
  <2>1. LookedAt(e) /\ e.action = "delete_created" /\ disk' = [disk EXCEPT ![e.path] = None]
    BY <1>0, <1>3 DEF UndoDeletes, Shape, ActShape
  <2>2. Vacant(e.path) \/ disk[e.path] = e.content
    BY <2>1 DEF LookedAt
  <2>3. None \in Contents \ Theirs
    BY MoreContents, NotTheirs
  <2> QED
    BY <1>1, <2>1, <2>2, <2>3, EntryKinds
<1>4. CASE UndoWrites
  <2>1. CASE e.action = "recreate"
    BY <1>0, <1>4, <2>1 DEF UndoWrites
  <2>2. CASE e.action = "restore_text"
    <3>1. disk' = [disk EXCEPT ![e.path] = e.content] /\ e.content \in Contents
      BY <1>0, <1>1, <1>4, <2>2 DEF UndoWrites, EntryType
    <3> QED
      BY <1>1, <2>2, <3>1, EntryKinds
  <2> QED
    BY <1>0, <1>4, <2>1, <2>2 DEF UndoWrites
<1> QED
  BY <1>2, <1>3, <1>4

LEMMA UndoActsShape ==
    ASSUME OrganizeAssumption, Shape, UndoMoves \/ UndoDeletes \/ UndoWrites
    PROVE  Shape'
<1>1. journal' \in Seq(EntryType) /\ JournalFits'
  BY RecordKept, TypeParts DEF Shape, UndoMoves, UndoDeletes, UndoWrites, OfRun
<1>2. run' \in RunType /\ StepShape' /\ ActShape'
  BY UndoStepsBack DEF UndoMoves, UndoDeletes, UndoWrites, OfRun, Shape, StepShape
<1>3. sourceDir' \in BOOLEAN
  BY TypeParts DEF Shape, FilesType, UndoMoves, UndoDeletes, UndoWrites, OfRun
<1>4. paths' \in [Items -> Places]
  BY TypeParts, PlacesIn DEF Shape, FilesType, UndoMoves, UndoDeletes, UndoWrites, OfRun
<1>5. disk' \in [Places -> Contents] /\ DiskShape'
  <2>0. disk \in [Places -> Contents] /\ UNCHANGED <<mode, users>>
    BY TypeParts
    DEF Shape, FilesType, UndoMoves, UndoDeletes, UndoWrites, OfRun, history
  <2>1. CASE disk' = disk
    BY <2>0, <2>1 DEF Shape, DiskShape
  <2>2. CASE /\ mode = "move"
             /\ \E i \in Items : disk' = [disk EXCEPT ![Dst(i)] = None, ![Src(i)] = disk[Dst(i)]]
    <3>1. PICK i \in Items : disk' = [disk EXCEPT ![Dst(i)] = None, ![Src(i)] = disk[Dst(i)]]
      BY <2>2
    <3>2. disk' \in [Places -> Contents]
      BY <2>0, <3>1, PlacesIn, MoreContents
    <3>3. \A p \in Places : p \notin {Src(i), Dst(i)} => disk'[p] = disk[p]
      BY <2>0, <3>1
    <3>4. /\ disk'[Junk] = disk[Junk] /\ disk'[Trash] = disk[Trash]
          /\ \A k \in Items : disk'[<<"nfo", k>>] = disk[<<"nfo", k>>]
      BY <3>3, PlacesIn, CleanupPlacesIn, Apart
    <3> QED
      BY <2>0, <2>2, <3>2, <3>4 DEF Shape, DiskShape
  <2>3. CASE \E i \in Items : disk' = [disk EXCEPT ![Dst(i)] = None]
    <3>1. PICK i \in Items : disk' = [disk EXCEPT ![Dst(i)] = None]
      BY <2>3
    <3> QED
      BY <2>0, <3>1, PlacesIn, CleanupPlacesIn, Apart, MoreContents DEF Shape, DiskShape
  <2>4. CASE \E i \in Items, c \in Contents \ Theirs : disk' = [disk EXCEPT ![<<"nfo", i>>] = c]
    <3>1. PICK i \in Items, c \in Contents \ Theirs : disk' = [disk EXCEPT ![<<"nfo", i>>] = c]
      BY <2>4
    <3> QED
      BY <2>0, <3>1, PlacesIn, CleanupPlacesIn, Apart DEF Shape, DiskShape
  <2>5. CASE disk' = [disk EXCEPT ![Trash] = None, ![Junk] = disk[Trash]]
    BY <2>0, <2>5, PlacesIn, CleanupPlacesIn, Apart, MoreContents DEF Shape, DiskShape
  <2> QED
    BY <2>1, <2>2, <2>3, <2>4, <2>5, UndoDisk
<1>6. FilesType'
  BY <1>3, <1>4, <1>5, TypeParts
  DEF Shape, FilesType, UndoMoves, UndoDeletes, UndoWrites, OfRun, history
<1> QED
  BY <1>1, <1>2, <1>5, <1>6, TypePartsNext DEF Shape

(* What an entry that is not undone leaves behind.                         *)
LEMMA UndoStepFailsLeaves ==
    ASSUME OrganizeAssumption, Shape, UndoStepFails
    PROVE  \/ disk' = disk
           \/ \E p \in Places : /\ disk' = [disk EXCEPT ![p] = Partial]
                               /\ \/ mode = "move" /\ Vacant(p) /\ \E i \in Items : p = Src(i)
                                  \/ p = Junk
<1> SUFFICES ASSUME disk' # disk
             PROVE  \E p \in Places :
                      /\ disk' = [disk EXCEPT ![p] = Partial]
                      /\ \/ mode = "move" /\ Vacant(p) /\ \E i \in Items : p = Src(i)
                         \/ p = Junk
  OBVIOUS
<1>0. PICK e : e = Current
  OBVIOUS
<1>1. /\ run.step = "undoing" /\ e.action # "delete_created"
      /\ disk' = [disk EXCEPT ![e.original] = Partial]
  BY <1>0 DEF UndoStepFails, LeavesPart
<1>2. Fits(e) /\ e \in EntryType /\ LookedAt(e)
  BY <1>0, <1>1, AtHand DEF Shape, StepShape, ActShape
<1>3. e.action \in {"move_back", "restore_trashed"} /\ Vacant(e.original)
  BY <1>1, <1>2 DEF LookedAt
<1> QED
  BY <1>1, <1>2, <1>3, EntryKinds DEF EntryType
LEMMA UndoStepFailsShape == ASSUME OrganizeAssumption, Shape, UndoStepFails PROVE Shape'
<1>1. journal' \in Seq(EntryType) /\ JournalFits'
  BY RecordKept, TypeParts DEF Shape, UndoStepFails
<1>2. run' \in RunType /\ StepShape' /\ ActShape'
  BY UndoStepsBack DEF UndoStepFails, Shape, StepShape
<1>3. failures' \in 0..MaxFailures
  <2>1. failures \in 0..MaxFailures /\ MaxFailures \in Nat
    BY TypeParts DEF Shape, FilesType, OrganizeAssumption
  <2> QED
    BY <2>1 DEF UndoStepFails
<1>4. /\ disk \in [Places -> Contents] /\ sourceDir' \in BOOLEAN
      /\ UNCHANGED <<mode, policy, history, changes, completed, paths>>
  <2>1. sourceDir' = sourceDir \/ sourceDir' = TRUE
    BY DEF UndoStepFails
  <2>2. sourceDir \in BOOLEAN /\ disk \in [Places -> Contents]
    BY TypeParts DEF Shape, FilesType
  <2>3. sourceDir' \in BOOLEAN
    BY <2>1, <2>2
  <2> QED
    BY <2>2, <2>3 DEF UndoStepFails
<1>5. disk' \in [Places -> Contents] /\ DiskShape'
  <2>1. CASE disk' = disk
    BY <1>4, <2>1 DEF Shape, DiskShape, history
  <2>2. CASE mode = "move" /\ \E i \in Items : disk' = [disk EXCEPT ![Src(i)] = Partial]
    <3>1. PICK i \in Items : disk' = [disk EXCEPT ![Src(i)] = Partial]
      BY <2>2
    <3>2. Src(i) \in Places /\ \A p \in Places : p # Src(i) => disk'[p] = disk[p]
      BY <1>4, <3>1, PlacesIn
    <3>3. /\ disk'[Junk] = disk[Junk] /\ disk'[Trash] = disk[Trash]
          /\ \A k \in Items : disk'[<<"nfo", k>>] = disk[<<"nfo", k>>]
      BY <3>2, PlacesIn, CleanupPlacesIn, Apart
    <3> QED
      BY <1>4, <2>2, <3>1, <3>3, MoreContents DEF Shape, DiskShape
  <2>3. CASE disk' = [disk EXCEPT ![Junk] = Partial]
    BY <1>4, <2>3, PlacesIn, CleanupPlacesIn, Apart, MoreContents
    DEF Shape, DiskShape, history
  <2> QED
    BY <2>1, <2>2, <2>3, UndoStepFailsLeaves
<1>6. FilesType'
  BY <1>3, <1>4, <1>5, TypeParts DEF Shape, FilesType, history
<1> QED
  BY <1>1, <1>2, <1>5, <1>6, TypePartsNext DEF Shape

(* The places that are looked at before an act; the user's file there is   *)
(* remembered as one that came too late.                                   *)
LEMMA RiskIs ==
    ASSUME OrganizeAssumption, Shape
    PROVE  /\ run.step = "media" => AtRisk = {Dst(run.item)} /\ run.item \in Items
           /\ run.step = "undoing" =>
                /\ AtRisk = {Current.original} /\ run.item > 0
                /\ Current \in EntryType /\ Fits(Current)
<1>1. ASSUME run.step = "media" PROVE AtRisk = {Dst(run.item)} /\ run.item \in Items
  BY <1>1 DEF AtRisk, Shape, StepShape
<1>2. ASSUME run.step = "undoing"
      PROVE  /\ AtRisk = {Current.original} /\ run.item > 0
             /\ Current \in EntryType /\ Fits(Current)
  BY <1>2, AtHand DEF AtRisk, Shape, StepShape
<1> QED
  BY <1>1, <1>2
LEMMA UserWritesActs ==
    ASSUME OrganizeAssumption, Shape, NEW p \in Places, UserWrites(p)
    PROVE  ActShape'
<1>1. /\ disk' = [disk EXCEPT ![p] = Users(p)] /\ run' = run /\ journal' = journal
      /\ raced' = IF p \in AtRisk THEN raced \cup {p} ELSE raced \ {p}
      /\ disk \in [Places -> Contents] /\ Current' = Current
  BY TypeParts DEF UserWrites, Unchanged, Shape, FilesType, Current
<1>2. ASSUME NEW x \in AtRisk, Vacant(x) PROVE Vacant(x)'
  <2>1. CASE x = p
    BY <1>1, <1>2, <2>1 DEF Vacant
  <2>2. CASE x # p
    BY <1>1, <1>2, <2>2 DEF Vacant
  <2> QED
    BY <2>1, <2>2
<1>3. ASSUME run.step = "media" PROVE Vacant(Dst(run.item))'
  <2>0. PICK x : x = Dst(run.item)
    OBVIOUS
  <2>1. Vacant(x)'
    BY <1>2, <1>3, <2>0, RiskIs DEF Shape, ActShape
  <2> QED
    BY <1>1, <2>0, <2>1
<1>4. ASSUME run.step = "undoing" PROVE LookedAt(Current)'
  <2>0. PICK e : e = Current
    OBVIOUS
  <2>1. e.original \in AtRisk /\ Fits(e) /\ LookedAt(e)
    BY <1>4, <2>0, RiskIs DEF Shape, ActShape
  <2>2. CASE e.action \in {"move_back", "restore_trashed"} /\ Vacant(e.original)
    <3>1. Vacant(e.original)'
      BY <1>2, <2>1, <2>2
    <3> QED
      BY <1>1, <2>0, <2>2, <3>1 DEF LookedAt, Vacant
  <2>3. CASE e.action = "delete_created"
    <3>1. e.original = e.path
      BY <2>1, <2>3, EntryKinds
    <3>2. Vacant(e.path)' \/ disk'[e.path] = e.content
      <4>1. CASE p = e.path
        BY <1>1, <2>1, <3>1, <4>1 DEF Vacant
      <4>2. CASE p # e.path /\ Vacant(e.path)
        BY <1>2, <2>1, <3>1, <4>2
      <4>3. CASE p # e.path /\ disk[e.path] = e.content
        BY <1>1, <4>3
      <4> QED
        BY <2>1, <2>3, <4>1, <4>2, <4>3 DEF LookedAt
    <3> QED
      BY <1>1, <2>0, <2>3, <3>2 DEF LookedAt, Vacant
  <2> QED
    BY <2>1, <2>2, <2>3 DEF LookedAt
<1> QED
  BY <1>1, <1>3, <1>4 DEF ActShape
LEMMA UserMovesActs ==
    ASSUME OrganizeAssumption, Shape, NEW i \in Items, UserMoves(i)
    PROVE  ActShape'
<1>0. PICK p \in {Src(i), Dst(i)} : disk' = [disk EXCEPT ![p] = None, ![Own(i)] = disk[p]]
  BY DEF UserMoves, Moved
<1>1. /\ run' = run /\ journal' = journal /\ raced' = raced /\ Current' = Current
      /\ disk \in [Places -> Contents] /\ p \in Places /\ Own(i) \in Places
  BY TypeParts, PlacesIn DEF UserMoves, Unchanged, Shape, FilesType, Current
<1>2. ASSUME NEW x \in Places, x # Own(i)
      PROVE  /\ disk'[x] = disk[x] \/ disk'[x] = None
             /\ Vacant(x) => Vacant(x)'
  BY <1>0, <1>1, <1>2 DEF Vacant
<1>3. ASSUME run.step = "media" PROVE Vacant(Dst(run.item))'
  <2>0. PICK x : x = Dst(run.item)
    OBVIOUS
  <2>1. x \in Places /\ x # Own(i) /\ Vacant(x)
    BY <1>3, <2>0, RiskIs, PlacesIn, Apart DEF Shape, ActShape
  <2>2. Vacant(x)'
    BY <1>2, <2>1
  <2> QED
    BY <1>1, <2>0, <2>2
<1>4. ASSUME run.step = "undoing" PROVE LookedAt(Current)'
  <2>0. PICK e \in EntryType : e = Current /\ Fits(e) /\ LookedAt(e)
    BY <1>4, RiskIs DEF Shape, ActShape
  <2>1. e.path \in Places /\ e.original \in Places
    BY <2>0 DEF EntryType
  <2>2. CASE e.action \in {"move_back", "restore_trashed"} /\ Vacant(e.original)
    <3>1. e.original # Own(i)
      BY <2>0, <2>2, EntryKinds, Apart
    <3>2. Vacant(e.original)'
      BY <1>2, <2>1, <2>2, <3>1
    <3> QED
      BY <1>1, <2>0, <2>2, <3>2 DEF LookedAt, Vacant
  <2>3. CASE e.action = "delete_created"
    <3>1. e.path # Own(i)
      BY <2>0, <2>3, EntryKinds, Apart
    <3>2. Vacant(e.path)' \/ disk'[e.path] = e.content
      BY <1>2, <2>0, <2>1, <2>3, <3>1 DEF LookedAt, Vacant
    <3> QED
      BY <1>1, <2>0, <2>3, <3>2 DEF LookedAt, Vacant
  <2> QED
    BY <2>0, <2>2, <2>3 DEF LookedAt
<1> QED
  BY <1>1, <1>3, <1>4 DEF ActShape

LEMMA UserShape ==
    ASSUME OrganizeAssumption, Shape,
           \/ \E p \in Places : UserWrites(p)
           \/ \E i \in Items : UserMoves(i)
    PROVE  Shape'
<1>0. disk \in [Places -> Contents]
  BY TypeParts DEF Shape, FilesType
<1>1. journal' \in Seq(EntryType) /\ JournalFits'
  BY RecordKept, TypeParts DEF Shape, UserWrites, UserMoves, Unchanged
<1>2. changes' \in 0..MaxChanges
  <2>1. changes \in 0..MaxChanges /\ MaxChanges \in Nat
    BY TypeParts DEF Shape, FilesType, OrganizeAssumption
  <2> QED
    BY <2>1 DEF UserWrites, UserMoves, MayChange
<1>3. run' = run /\ UNCHANGED <<mode, journal>>
  BY DEF UserWrites, UserMoves, Unchanged
<1>4. run' \in RunType /\ StepShape' /\ ActShape'
  BY <1>3, TypeParts, UserWritesActs, UserMovesActs DEF Shape, StepShape
<1>5. CASE \E p \in Places : UserWrites(p)
  <2>1. PICK p \in Places : UserWrites(p)
    BY <1>5
  <2>2. /\ p[1] \in {"src", "dst", "nfo"} /\ (p[1] # "nfo" => disk[p] = None)
        /\ disk' = [disk EXCEPT ![p] = Users(p)] /\ users' = users \cup {p}
        /\ raced' \subseteq raced \cup {p}
        /\ UNCHANGED <<mode, policy, sourceDir, completed, paths, before, moved, unsaved,
                       failures>>
    BY <2>1 DEF UserWrites, Exists, Unchanged
  <2>3. FilesType'
    BY <1>0, <1>2, <2>2, UsersIn, TypeParts DEF Shape, FilesType
  <2>4. p # Junk /\ p # Trash
    BY <2>2 DEF Junk, Trash
  <2>5. \A k \in Items : disk'[<<"nfo", k>>] \notin Theirs
    BY <1>0, <2>2, NotTheirs, PlacesIn DEF Shape, DiskShape
  <2>6. ASSUME mode = "copy", NEW k \in Items
        PROVE  /\ disk'[Src(k)] \in {None, Media(k), Users(Src(k))}
               /\ Src(k) \in users' => disk'[Src(k)] = Users(Src(k))
    BY <1>0, <2>2, <2>6, PlacesIn DEF Shape, DiskShape
  <2>7. DiskShape'
    BY <1>0, <2>2, <2>4, <2>5, <2>6, CleanupPlacesIn DEF Shape, DiskShape
  <2> QED
    BY <1>1, <1>4, <2>3, <2>7, TypePartsNext DEF Shape
<1>6. CASE \E i \in Items : UserMoves(i)
  <2>1. PICK i \in Items : UserMoves(i)
    BY <1>6
  <2>2. PICK p \in {Src(i), Dst(i)} \ users :
           disk' = [disk EXCEPT ![p] = None, ![Own(i)] = disk[p]]
    BY <2>1 DEF UserMoves, Moved
  <2>3. /\ moved' = moved \cup {i}
        /\ UNCHANGED <<mode, policy, sourceDir, completed, paths, before, users, raced,
                       unsaved, failures>>
    BY <2>1 DEF UserMoves, Unchanged
  <2>4. FilesType'
    BY <1>0, <1>2, <2>2, <2>3, PlacesIn, MoreContents, TypeParts DEF Shape, FilesType
  <2>5. \A q \in Places : q \notin {p, Own(i)} => disk'[q] = disk[q]
    BY <1>0, <2>2
  <2>6. /\ disk'[Junk] = disk[Junk] /\ disk'[Trash] = disk[Trash]
        /\ \A k \in Items : disk'[<<"nfo", k>>] = disk[<<"nfo", k>>]
    BY <2>2, <2>5, Apart, PlacesIn, CleanupPlacesIn
  <2>7. ASSUME mode = "copy", NEW k \in Items
        PROVE  /\ disk'[Src(k)] \in {None, Media(k), Users(Src(k))}
               /\ Src(k) \in users => disk'[Src(k)] = Users(Src(k))
    <3>0. Src(k) # Own(i) /\ Src(k) \in Places /\ Own(i) \in Places /\ p # Own(i)
      BY <2>2, <2>7, Apart, PlacesIn
    <3>1. CASE p = Src(k)
      BY <1>0, <2>2, <3>0, <3>1
    <3>2. CASE p # Src(k)
      BY <2>5, <2>7, <3>0, <3>2 DEF Shape, DiskShape
    <3> QED
      BY <3>1, <3>2
  <2>8. DiskShape'
    BY <2>3, <2>6, <2>7 DEF Shape, DiskShape
  <2> QED
    BY <1>1, <1>4, <2>4, <2>8, TypePartsNext DEF Shape
<1> QED
  BY <1>5, <1>6

LEMMA ShapeInitially == ASSUME OrganizeAssumption, Init PROVE Shape
<1>1. PICK nfos \in SUBSET {Nfo(i) : i \in Items} :
        disk = [p \in Places |-> IF p[1] = "src" THEN Media(p[2])
                                 ELSE IF p \in nfos THEN Earlier
                                 ELSE IF p = Junk THEN Filtered ELSE None]
  BY DEF Init
<1>2. \A p \in Places : p[1] = "src" => p[2] \in Items
  BY DEF Places, Junk, Trash
<1>3. disk \in [Places -> Contents]
  BY <1>1, <1>2, ContentsIn, MoreContents
<1>4. FilesType /\ run \in RunType
  <2>1. paths \in [Items -> Places] /\ before \in [Places -> Contents]
    BY <1>3, PlacesIn DEF Init
  <2>2. changes \in 0..MaxChanges /\ failures \in 0..MaxFailures
    BY DEF Init, OrganizeAssumption
  <2> QED
    BY <1>3, <2>1, <2>2 DEF Init, FilesType, RunType
<1>5. journal \in Seq(EntryType) /\ JournalFits
  BY DEF Init, JournalFits
<1>6. StepShape
  BY DEF Init, StepShape, OrganizeAssumption, Items
<1>7. ActShape
  BY DEF Init, ActShape
<1>8. DiskShape
  <2>1. \A i \in Items : disk[<<"nfo", i>>] \in {Earlier, None, Filtered}
    BY <1>1, PlacesIn
  <2>2. \A i \in Items : disk[Src(i)] = Media(i)
    BY <1>1, PlacesIn DEF Src
  <2>3. disk[Junk] = Filtered
    <3>1. Junk \notin nfos
      BY Apart, PlacesIn
    <3> QED
      BY <1>1, <3>1, CleanupPlacesIn DEF Junk
  <2>4. disk[Trash] = None
    <3>1. Trash \notin nfos /\ Junk # Trash
      BY Apart, PlacesIn
    <3> QED
      BY <1>1, <3>1, CleanupPlacesIn DEF Trash
  <2> QED
    BY <2>1, <2>2, <2>3, <2>4, NotTheirs DEF DiskShape, Init
<1> QED
  BY <1>4, <1>5, <1>6, <1>7, <1>8, TypeParts DEF Shape

LEMMA ShapeInductive ==
    ASSUME OrganizeAssumption, Shape, [Next]_organizeVars
    PROVE  Shape'
<1>1. CASE UNCHANGED organizeVars
  BY <1>1 DEF organizeVars, history, Shape, TypeOK, StepShape, ActShape, Vacant, LookedAt,
              Current, JournalFits, Fits, MediaEntry, NfoEntry, CleanupEntry, DiskShape
<1> QED
  BY <1>1, ItemBeginsShape, MediaPlacedShape, NfoWrittenShape, JunkTrashedShape,
     DirectoryRemovedShape, ItemSucceedsShape, ItemFailsShape, StoredShape, UndoLooksShape,
     UndoActsShape, UndoStepFailsShape, UserShape DEF Next

(* Whatever fails and whatever the user does meanwhile, files, journal and *)
(* rows keep their types.                                                  *)
THEOREM TypeCorrect == ASSUME OrganizeAssumption PROVE Spec => []TypeOK
<1>1. Shape => TypeOK
  BY DEF Shape
<1> QED
  BY <1>1, ShapeInitially, ShapeInductive, PTL DEF Spec
-----------------------------------------------------------------------------
(* The user's files                                                        *)

LEMMA MovedToFree ==
    ASSUME disk \in [Places -> Contents], NEW from \in Places, NEW to \in Places,
           NEW c, c # None, disk[to] # c,
           disk' = [disk EXCEPT ![from] = None, ![to] = disk[from]],
           NEW q \in Places, disk[q] = c
    PROVE  \E r \in Places : disk'[r] = c
<1>1. CASE q = from
  BY <1>1
<1>2. CASE q # from
  BY <1>2
<1> QED
  BY <1>1, <1>2
LEMMA WrittenElsewhere ==
    ASSUME disk \in [Places -> Contents], NEW p \in Places, NEW d,
           disk' = [disk EXCEPT ![p] = d],
           NEW q \in Places, disk[p] # disk[q]
    PROVE  \E r \in Places : disk'[r] = disk[q]
BY q # p

UsersInPlaces == \A p \in users : p[1] # "nfo" => p \in {"src", "dst"} \X Items
Safe == {p \in users \ raced : p[1] # "nfo"}
LEMMA SafeIs ==
    ASSUME UsersInPlaces, NEW p \in Safe
    PROVE  /\ Users(p) \in Theirs /\ Users(p) # None
           /\ \A i \in Items : Users(p) = Users(Src(i)) => p = Src(i)
           /\ \A x : Vacant(x) /\ x \in {"src", "dst"} \X Items => disk[x] # Users(p)
<1>1. p \in {"src", "dst"} \X Items /\ p \notin raced
  BY DEF UsersInPlaces, Safe
<1>2. \A x \in {"src", "dst"} \X Items : Users(x) = Users(p) => x = p
  BY <1>1 DEF Users
<1>3. Users(p) \in Theirs /\ Users(p) # None
  BY <1>1 DEF Theirs, Users, None
<1>4. \A i \in Items : Src(i) \in {"src", "dst"} \X Items
  BY DEF Src
<1> QED
  BY <1>1, <1>2, <1>3, <1>4 DEF Vacant
LEMMA Videos ==
    \A i \in Items : /\ Src(i) \in {"src", "dst"} \X Items
                     /\ Dst(i) \in {"src", "dst"} \X Items
BY DEF Src, Dst

(* No step loses a file the user has put where a video was or goes, unless *)
(* he put it at a place the code had looked at.                            *)
LEMMA FilesStay ==
    ASSUME OrganizeAssumption, Shape, UsersInPlaces, Next,
           NEW p \in Safe, NEW q \in Places, disk[q] = Users(p)
    PROVE  \E r \in Places : disk'[r] = Users(p)
<1> DEFINE c == Users(p)
<1>0. /\ disk \in [Places -> Contents] /\ c \in Theirs
      /\ c # None /\ c # Filtered /\ c # Partial /\ \A i \in Items : c # Media(i)
      /\ \A i \in Items : Vacant(Src(i)) => disk[Src(i)] # c
      /\ \A i \in Items : Vacant(Dst(i)) => disk[Dst(i)] # c
  BY SafeIs, Videos, NotTheirs, TypeParts DEF Shape, FilesType
<1>1. CASE disk' = disk
  BY <1>1
<1>2. CASE MediaPlaced
  <2> DEFINE i == run.item
  <2>1. i \in Items /\ disk[Dst(i)] # c
    BY <1>0, <1>2 DEF Shape, StepShape, ActShape, MediaPlaced
  <2>2. CASE disk' = [disk EXCEPT ![Src(i)] = None, ![Dst(i)] = disk[Src(i)]]
    BY <1>0, <2>1, <2>2, MovedToFree, PlacesIn
  <2>3. CASE disk' = [disk EXCEPT ![Dst(i)] = disk[Src(i)]]
    BY <1>0, <2>1, <2>3, WrittenElsewhere, PlacesIn
  <2> QED
    BY <1>2, <2>2, <2>3 DEF MediaPlaced, Moved
<1>3. CASE NfoWritten
  <2>1. run.item \in Items
    BY <1>3 DEF Shape, StepShape, NfoWritten
  <2>2. Nfo(run.item) \in Places /\ disk[Nfo(run.item)] \notin Theirs
    BY <2>1, PlacesIn DEF Shape, DiskShape
  <2>3. disk' = disk \/ disk' = [disk EXCEPT ![Nfo(run.item)] = Written(run.item)]
    BY <1>3 DEF NfoWritten
  <2> QED
    BY <1>0, <1>1, <2>2, <2>3, WrittenElsewhere
<1>4. CASE JunkTrashed
  <2>1. disk' = disk \/ disk' = [disk EXCEPT ![Junk] = None, ![Trash] = disk[Junk]]
    BY <1>4 DEF JunkTrashed, Moved
  <2> QED
    BY <1>0, <1>1, <2>1, MovedToFree, CleanupPlacesIn DEF Shape, DiskShape
<1>5. CASE ItemFails
  <2>1. CASE /\ run.step = "media" /\ run.item \in Items
             /\ disk' = [disk EXCEPT ![Dst(run.item)] = Partial]
    <3>1. Dst(run.item) \in Places /\ disk[Dst(run.item)] # disk[q]
      BY <1>0, <2>1, PlacesIn DEF Shape, ActShape
    <3> QED
      BY <1>0, <2>1, <3>1, WrittenElsewhere
  <2>2. CASE disk' = [disk EXCEPT ![Trash] = Partial]
    <3>1. Trash \in Places /\ disk[Trash] # disk[q]
      BY <1>0, CleanupPlacesIn DEF Shape, DiskShape
    <3> QED
      BY <1>0, <2>2, <3>1, WrittenElsewhere
  <2> QED
    BY <1>1, <1>5, <2>1, <2>2, ItemFailsLeaves
<1>6. CASE UndoMoves \/ UndoDeletes \/ UndoWrites
  <2>1. CASE \E i \in Items :
               /\ Vacant(Src(i))
               /\ disk' = [disk EXCEPT ![Dst(i)] = None, ![Src(i)] = disk[Dst(i)]]
    <3>1. PICK i \in Items :
            /\ disk[Src(i)] # c
            /\ disk' = [disk EXCEPT ![Dst(i)] = None, ![Src(i)] = disk[Dst(i)]]
      BY <1>0, <2>1
    <3> QED
      BY <1>0, <3>1, MovedToFree, PlacesIn
  <2>2. CASE /\ mode = "copy"
             /\ \E i \in Items : /\ Vacant(Dst(i)) \/ disk[Dst(i)] \in {Media(i), Users(Src(i))}
                                 /\ disk' = [disk EXCEPT ![Dst(i)] = None]
    <3>1. PICK i \in Items : /\ Vacant(Dst(i)) \/ disk[Dst(i)] \in {Media(i), Users(Src(i))}
                            /\ disk' = [disk EXCEPT ![Dst(i)] = None]
      BY <2>2
    <3>2. CASE disk[Dst(i)] # c
      BY <1>0, <3>1, <3>2, WrittenElsewhere, PlacesIn
    <3>3. CASE disk[Dst(i)] = c
      <4>1. p = Src(i)
        BY <1>0, <3>1, <3>3, SafeIs
      <4>2. disk[Src(i)] = c
        BY <2>2, <4>1 DEF Safe, Shape, DiskShape
      <4>3. Src(i) # Dst(i) /\ Src(i) \in Places
        BY Apart, PlacesIn
      <4> QED
        BY <1>0, <3>1, <4>2, <4>3
    <3> QED
      BY <3>2, <3>3
  <2>3. CASE \E i \in Items, d \in Contents \ Theirs : disk' = [disk EXCEPT ![<<"nfo", i>>] = d]
    <3>1. PICK i \in Items, d \in Contents : disk' = [disk EXCEPT ![<<"nfo", i>>] = d]
      BY <2>3
    <3>2. <<"nfo", i>> \in Places /\ disk[<<"nfo", i>>] # disk[q]
      BY <1>0, PlacesIn DEF Shape, DiskShape
    <3> QED
      BY <1>0, <3>1, <3>2, WrittenElsewhere
  <2>4. CASE disk' = [disk EXCEPT ![Trash] = None, ![Junk] = disk[Trash]]
    <3>1. disk[Junk] # c
      BY <1>0 DEF Shape, DiskShape
    <3> QED
      BY <1>0, <2>4, <3>1, MovedToFree, CleanupPlacesIn
  <2> QED
    BY <1>1, <1>6, <2>1, <2>2, <2>3, <2>4, UndoDisk
<1>7. CASE UndoStepFails
  <2>1. CASE \E i \in Items : Vacant(Src(i)) /\ disk' = [disk EXCEPT ![Src(i)] = Partial]
    BY <1>0, <2>1, WrittenElsewhere, PlacesIn
  <2>2. CASE disk' = [disk EXCEPT ![Junk] = Partial]
    <3>1. Junk \in Places /\ disk[Junk] # disk[q]
      BY <1>0, CleanupPlacesIn DEF Shape, DiskShape
    <3> QED
      BY <1>0, <2>2, <3>1, WrittenElsewhere
  <2> QED
    BY <1>1, <1>7, <2>1, <2>2, UndoStepFailsLeaves
<1>8. CASE \E x \in Places : UserWrites(x)
  <2>1. PICK x \in Places : UserWrites(x)
    BY <1>8
  <2>2. /\ disk' = [disk EXCEPT ![x] = Users(x)]
        /\ x[1] = "nfo" \/ disk[x] = None
    BY <2>1 DEF UserWrites, Exists
  <2>3. x[1] = "nfo" => \E i \in Items : x = <<"nfo", i>>
    BY DEF Places, Junk, Trash
  <2>4. disk[x] # disk[q]
    BY <1>0, <2>2, <2>3 DEF Shape, DiskShape
  <2> QED
    BY <1>0, <2>2, <2>4, WrittenElsewhere
<1>9. CASE \E i \in Items : UserMoves(i)
  <2>1. PICK i \in Items : UserMoves(i)
    BY <1>9
  <2>2. PICK x \in {Src(i), Dst(i)} :
          disk' = [disk EXCEPT ![x] = None, ![Own(i)] = disk[x]]
    BY <2>1 DEF UserMoves, Moved
  <2>3. disk[Own(i)] = None /\ x \in Places
    BY <2>1, PlacesIn DEF UserMoves, Exists
  <2> QED
    BY <1>0, <2>2, <2>3, MovedToFree, PlacesIn
<1>10. CASE \/ ItemBegins \/ DirectoryRemoved \/ ItemSucceeds \/ Stored
            \/ UndoBegins \/ UndoLooks \/ UndoEnds
  BY <1>1, <1>10 DEF ItemBegins, DirectoryRemoved, ItemSucceeds, Stored, UndoBegins, UndoLooks,
                     UndoEnds
<1> QED
  BY <1>2, <1>3, <1>4, <1>5, <1>6, <1>7, <1>8, <1>9, <1>10 DEF Next

(* Only the user puts files of his own, and what he puts is there.         *)
LEMMA UsersGrow ==
    ASSUME Next
    PROVE  \/ users' = users /\ raced' = raced
           \/ \E p \in Places : /\ UserWrites(p) /\ p[1] \in {"src", "dst", "nfo"}
                                /\ users' = users \cup {p} /\ raced \ {p} \subseteq raced'
BY DEF Next, ItemBegins, MediaPlaced, NfoWritten, JunkTrashed, DirectoryRemoved, ItemSucceeds,
       ItemFails, Stored, UndoBegins, UndoLooks, UndoMoves, UndoDeletes, UndoWrites,
       UndoStepFails, UndoEnds, UserWrites, UserMoves, OfRun, history

(* A file the user puts where a video was or goes survives the run and the *)
(* undo, whatever fails, unless he put it at a place the code had already  *)
(* looked at and was about to overwrite or clear.                          *)
THEOREM UsersFilesSurvive == ASSUME OrganizeAssumption PROVE Spec => []UserFilesKept
<1> DEFINE I == Shape /\ UsersInPlaces /\ UserFilesKept
<1>1. Init => I
  BY ShapeInitially DEF Init, UsersInPlaces, UserFilesKept
<1>2. ASSUME I, Next PROVE UsersInPlaces' /\ UserFilesKept'
  <2>1. UsersInPlaces'
    <3>1. ASSUME NEW p \in Places, p[1] \in {"src", "dst", "nfo"}, p[1] # "nfo"
          PROVE  p \in {"src", "dst"} \X Items
      BY <3>1 DEF Places, Junk, Trash
    <3> QED
      BY <1>2, <3>1, UsersGrow DEF UsersInPlaces
  <2>2. ASSUME NEW p \in users' \ raced', p[1] # "nfo"
        PROVE  \E q \in Places : disk'[q] = Users(p)
    <3>1. CASE p \in users \ raced
      <4>1. PICK q \in Places : disk[q] = Users(p)
        BY <1>2, <2>2, <3>1 DEF UserFilesKept
      <4>2. p \in Safe
        BY <2>2, <3>1 DEF Safe
      <4> QED
        BY <1>2, <4>1, <4>2, FilesStay
    <3>2. CASE p \notin users \ raced
      <4>1. p \in Places /\ UserWrites(p)
        BY <1>2, <2>2, <3>2, UsersGrow
      <4>2. disk \in [Places -> Contents] /\ disk' = [disk EXCEPT ![p] = Users(p)]
        BY <1>2, <4>1, TypeParts DEF Shape, FilesType, UserWrites
      <4> QED
        BY <4>1, <4>2
    <3> QED
      BY <3>1, <3>2
  <2> QED
    BY <2>1, <2>2 DEF UserFilesKept
<1>3. I /\ [Next]_organizeVars => I'
  <2>1. ASSUME I, UNCHANGED organizeVars PROVE UsersInPlaces' /\ UserFilesKept'
    BY <2>1 DEF organizeVars, history, UsersInPlaces, UserFilesKept
  <2> QED
    BY <1>2, <2>1, ShapeInductive
<1>4. I => UserFilesKept
  OBVIOUS
<1> QED
  BY <1>1, <1>3, <1>4, PTL DEF Spec
-----------------------------------------------------------------------------
(* The round trip                                                          *)

(* The entries that are not undone yet, and what they say the disk is.     *)
Undoing == {"undo", "undoing", "undone"}
Standing == 1..IF run.step \in Undoing THEN run.item ELSE Len(journal)
Touched(p) == \E j \in Standing : journal[j].path = p
Between(j, k) == {l \in 1..(k - 1) : l > j}
Earliest(j) == \A k \in 1..(j - 1) : journal[k].path # journal[j].path
Latest(j) == \A k \in Standing : k > j => journal[k].path # journal[j].path

MediaRight ==
    \A i \in Items :
        IF Touched(Dst(i))
        THEN /\ disk[Dst(i)] = Media(i)
             /\ disk[Src(i)] = IF mode = "move" THEN None ELSE Media(i)
             /\ paths[i] = IF mode = "move" THEN Dst(i) ELSE Src(i)
        ELSE /\ disk[Src(i)] = Media(i) /\ disk[Dst(i)] \in {None, Partial}
             /\ paths[i] = Src(i)
(* The NFOs that were saved whenever they were overwritten.                *)
Nfos == {<<"nfo", i>> : i \in Items} \ unsaved
NfoRight ==
    /\ \A n \in Nfos : IF Touched(n) THEN disk[n] # None ELSE disk[n] = before[n]
    /\ \A j \in Standing :
         /\ journal[j].path \in Nfos /\ journal[j].action = "delete_created"
         /\ Latest(j)
         => disk[journal[j].path] = journal[j].content
CleanupRight ==
    /\ disk[Junk] = IF Touched(Trash) THEN None ELSE Filtered
    /\ IF Touched(Trash) THEN disk[Trash] = Filtered ELSE disk[Trash] \in {None, Partial}
    /\ ~sourceDir => Touched(Junk)
OwnRight == \A i \in Items : disk[Own(i)] = None
(* A video and the filtered file are moved once; the earliest entry of an  *)
(* NFO has its text of before, and the next one the text the run created   *)
(* it with.                                                                *)
EntryRight(j) ==
    /\ (\E i \in Items : journal[j].path = Dst(i)) \/ journal[j].path = Trash => Earliest(j)
    /\ \A i \in Items : journal[j].path = Dst(i) /\ journal[j].action = "delete_created" =>
         journal[j].content = Media(i)
    /\ journal[j].path \in Nfos =>
         /\ journal[j].action = "delete_created" =>
              Earliest(j) /\ before[journal[j].path] = None
         /\ journal[j].action = "restore_text" =>
              /\ Earliest(j) => journal[j].content = before[journal[j].path]
              /\ \A k \in 1..(j - 1) :
                   /\ journal[k].path = journal[j].path
                   /\ journal[k].action = "delete_created"
                   /\ \A l \in Between(k, j) : journal[l].path # journal[j].path
                   => journal[j].content = journal[k].content
EntriesRight == \A j \in Standing : EntryRight(j)
Right == MediaRight /\ NfoRight /\ CleanupRight /\ OwnRight /\ EntriesRight

Untouched == users = {} /\ moved = {} /\ ~run.errors
BeforeShape ==
    /\ \A i \in Items : /\ before[Src(i)] = Media(i) /\ before[Dst(i)] = None
                        /\ before[Own(i)] = None
    /\ before[Junk] = Filtered /\ before[Trash] = None
Undoable == Shape /\ BeforeShape /\ (Untouched => Right)
LEMMA RightKept ==
    ASSUME Right, Standing' = Standing,
           UNCHANGED <<mode, disk, sourceDir, journal, paths, before, unsaved>>
    PROVE  Right'
<1>1. \A p : Touched(p)' <=> Touched(p)
  BY DEF Touched
<1>2. EntriesRight'
  BY DEF Right, EntriesRight, EntryRight, Earliest, Nfos
<1>3. MediaRight' /\ NfoRight'
  BY <1>1 DEF Right, MediaRight, NfoRight, Nfos, Latest
<1>4. CleanupRight' /\ OwnRight'
  BY <1>1 DEF Right, CleanupRight, OwnRight
<1> QED
  BY <1>2, <1>3, <1>4 DEF Right

(* The run records one more entry.                                         *)
Records(e) ==
    /\ run.step \notin Undoing /\ run'.step \notin Undoing
    /\ journal' = Append(journal, e)
LEMMA OneMore ==
    ASSUME journal \in Seq(EntryType), NEW e \in EntryType, Records(e)
    PROVE  /\ \A p : Touched(p)' <=> Touched(p) \/ p = e.path
           /\ \E n \in Nat :
                /\ Standing' = Standing \cup {n} /\ Standing = 1..(n - 1)
                /\ journal'[n] = e /\ (Earliest(n)' <=> ~Touched(e.path))
           /\ \A j \in Standing : /\ journal'[j] = journal[j]
                                  /\ Earliest(j)' <=> Earliest(j)
                                  /\ Latest(j)' => Latest(j) /\ journal[j].path # e.path
<1>0. PICK n : n = Len(journal) + 1
  OBVIOUS
<1>1. /\ Len(journal) \in Nat /\ n \in Nat /\ Len(journal') = n /\ journal'[n] = e
      /\ \A j \in 1..Len(journal) : journal'[j] = journal[j]
  BY <1>0 DEF Records
<1>2. Standing = 1..Len(journal) /\ Standing' = 1..n
  BY <1>0, <1>1 DEF Records, Standing
<1>3. Standing' = Standing \cup {n} /\ Standing = 1..(n - 1) /\ n \notin Standing
  BY <1>0, <1>1, <1>2
<1>4. \A p : Touched(p)' <=> Touched(p) \/ p = e.path
  BY <1>1, <1>2, <1>3 DEF Touched
<1>5. Earliest(n)' <=> ~Touched(e.path)
  BY <1>1, <1>2, <1>3 DEF Earliest, Touched
<1>6. ASSUME NEW j \in Standing
      PROVE  /\ Earliest(j)' <=> Earliest(j)
             /\ Latest(j)' => Latest(j) /\ journal[j].path # e.path
  <2>1. /\ j \in 1..Len(journal) /\ n > j /\ n \in Standing'
        /\ \A k \in 1..(j - 1) : k \in 1..Len(journal)
    BY <1>0, <1>1, <1>2, <1>6
  <2>2. Earliest(j)' <=> Earliest(j)
    BY <1>1, <2>1 DEF Earliest
  <2>3. ASSUME Latest(j)' PROVE Latest(j) /\ journal[j].path # e.path
    BY <1>1, <1>2, <1>3, <2>1, <2>3 DEF Latest
  <2> QED
    BY <2>2, <2>3
<1> QED
  BY <1>1, <1>2, <1>3, <1>4, <1>5, <1>6

(* The undo has dealt with one entry.                                      *)
Back(e) ==
    /\ run.step \in {"undo", "undoing"} /\ run.item > 0 /\ e = Current
    /\ PreviousEntry
    /\ UNCHANGED <<mode, journal, before, unsaved>>
LEMMA OneLess ==
    ASSUME Shape, NEW e, Back(e)
    PROVE  /\ \A p : Touched(p) <=> Touched(p)' \/ p = e.path
           /\ run.item \in Nat /\ journal[run.item] = e
           /\ Standing = 1..run.item /\ Standing' = 1..(run.item - 1)
           /\ Earliest(run.item) <=> ~Touched(e.path)'
           /\ \A j \in Standing' : /\ Earliest(j)' <=> Earliest(j)
                                   /\ journal[j].path # e.path => (Latest(j)' => Latest(j))
           /\ Latest(run.item)
<1> DEFINE n == run.item
<1>1. n \in 1..Len(journal) /\ n - 1 \in Nat /\ run'.item = n - 1 /\ run'.step = "undo"
  BY AtHand, UndoStepsBack DEF Back
<1>2. journal' = journal /\ Standing = 1..n /\ Standing' = 1..(n - 1) /\ journal[n] = e
  BY <1>1 DEF Back, Standing, Undoing, Current
<1>3. Standing = Standing' \cup {n} /\ n \notin Standing' /\ n \in Nat
  BY <1>1, <1>2
<1>4. \A p : Touched(p) <=> Touched(p)' \/ p = e.path
  BY <1>2, <1>3 DEF Touched
<1>5. Earliest(n) <=> ~Touched(e.path)'
  BY <1>2 DEF Earliest, Touched
<1>6. \A j \in Standing' : /\ Earliest(j)' <=> Earliest(j)
                           /\ journal[j].path # e.path => (Latest(j)' => Latest(j))
  BY <1>2, <1>3 DEF Earliest, Latest
<1>7. Latest(n)
  <2>1. \A k \in 1..n : ~(k > n)
    BY <1>3
  <2> QED
    BY <1>2, <2>1 DEF Latest
<1> QED
  BY <1>2, <1>3, <1>4, <1>5, <1>6, <1>7

(* What an action of the run must say of its entry and of the disk.        *)
LEMMA EntryStays ==
    ASSUME NEW j \in Nat, EntryRight(j), Nfos' \subseteq Nfos, UNCHANGED before,
           \A k \in 1..j : journal'[k] = journal[k]
    PROVE  j > 0 => EntryRight(j)'
<1> SUFFICES ASSUME j > 0 PROVE EntryRight(j)'
  OBVIOUS
<1>1. /\ journal'[j] = journal[j] /\ \A k \in 1..(j - 1) : journal'[k] = journal[k]
      /\ \A k \in 1..(j - 1) : \A l \in Between(k, j) : journal'[l] = journal[l]
  BY DEF Between
<1>2. Earliest(j)' <=> Earliest(j)
  BY <1>1 DEF Earliest
<1> QED
  BY <1>1, <1>2 DEF EntryRight, Between
LEMMA EntriesStayRight ==
    ASSUME journal \in Seq(EntryType), EntriesRight, NfoRight, NEW e \in EntryType, Records(e),
           UNCHANGED before, Nfos' \subseteq Nfos,
           (\E i \in Items : e.path = Dst(i)) \/ e.path = Trash => ~Touched(e.path),
           \A i \in Items : e.path = Dst(i) /\ e.action = "delete_created" =>
             e.content = Media(i),
           e.path \in Nfos =>
             /\ e.action = "delete_created" => ~Touched(e.path) /\ before[e.path] = None
             /\ e.action = "restore_text" => e.content = disk[e.path]
    PROVE  EntriesRight'
<1>1. PICK n \in Nat : /\ Standing' = Standing \cup {n} /\ Standing = 1..(n - 1)
                      /\ journal'[n] = e /\ (Earliest(n)' <=> ~Touched(e.path))
  BY OneMore
<1>2. \A k \in 1..(n - 1) : k \in Standing /\ journal'[k] = journal[k]
  BY <1>1, OneMore
<1>3. EntryRight(n)'
  <2>1. ASSUME e.path \in Nfos, e.action = "restore_text"
        PROVE  /\ Earliest(n)' => e.content = before[e.path]
               /\ \A k \in 1..(n - 1) :
                    /\ journal'[k].path = e.path /\ journal'[k].action = "delete_created"
                    /\ \A l \in Between(k, n) : journal'[l].path # e.path
                    => e.content = journal'[k].content
    <3>1. e.content = disk[e.path]
      BY <2>1
    <3>2. Earliest(n)' => e.content = before[e.path]
      BY <1>1, <2>1, <3>1 DEF NfoRight
    <3>3. ASSUME NEW k \in 1..(n - 1),
                 journal'[k].path = e.path, journal'[k].action = "delete_created",
                 \A l \in Between(k, n) : journal'[l].path # e.path
          PROVE  e.content = journal'[k].content
      <4>1. k \in Standing /\ journal'[k] = journal[k]
        BY <1>2
      <4>2. ASSUME NEW l \in Standing, l > k PROVE journal[l].path # journal[k].path
        <5>1. l \in Between(k, n) /\ journal'[l] = journal[l]
          BY <1>1, <1>2, <4>2 DEF Between
        <5> QED
          BY <3>3, <4>1, <5>1
      <4>3. Latest(k)
        BY <4>2 DEF Latest
      <4> QED
        BY <2>1, <3>1, <3>3, <4>1, <4>3 DEF NfoRight
    <3> QED
      BY <3>2, <3>3
  <2>2. Earliest(n)' <=> ~Touched(e.path)
    BY <1>1
  <2> QED
    BY <1>1, <2>1, <2>2 DEF EntryRight
<1>4. ASSUME NEW j \in Standing PROVE EntryRight(j)'
  <2>1. /\ j \in Nat /\ j > 0 /\ \A k \in 1..j : k \in 1..(n - 1)
    BY <1>1, <1>4
  <2> QED
    BY <1>2, <1>4, <2>1, EntryStays DEF EntriesRight
<1> QED
  BY <1>1, <1>3, <1>4 DEF EntriesRight
LEMMA NfosRecorded ==
    ASSUME journal \in Seq(EntryType), NfoRight, NEW e \in EntryType, Records(e),
           UNCHANGED before, Nfos' \subseteq Nfos,
           \A p \in Nfos' : p # e.path => disk'[p] = disk[p],
           e.path \in Nfos' =>
             /\ disk'[e.path] # None
             /\ e.action = "delete_created" => disk'[e.path] = e.content
    PROVE  NfoRight'
<1>1. PICK n \in Nat : Standing' = Standing \cup {n} /\ journal'[n] = e
  BY OneMore
<1>2. ASSUME NEW p \in Nfos'
      PROVE  IF Touched(p)' THEN disk'[p] # None ELSE disk'[p] = before'[p]
  <2>1. Touched(p)' <=> Touched(p) \/ p = e.path
    BY OneMore
  <2> QED
    BY <1>2, <2>1 DEF NfoRight
<1>3. ASSUME NEW j \in Standing', journal'[j].path \in Nfos',
             journal'[j].action = "delete_created", Latest(j)'
      PROVE  disk'[journal'[j].path] = journal'[j].content
  <2>1. CASE j = n
    BY <1>1, <1>3, <2>1
  <2>2. CASE j \in Standing
    <3>1. journal'[j] = journal[j] /\ Latest(j) /\ journal[j].path # e.path
      BY <1>3, <2>2, OneMore
    <3> QED
      BY <1>3, <2>2, <3>1 DEF NfoRight
  <2> QED
    BY <1>1, <2>1, <2>2
<1> QED
  BY <1>2, <1>3 DEF NfoRight

LEMMA EntriesGoRight ==
    ASSUME Shape, NEW e, Back(e), EntriesRight
    PROVE  EntriesRight' /\ EntryRight(run.item)
<1>1. /\ run.item \in Nat /\ run.item \in Standing
      /\ \A j \in Standing' : j \in Standing /\ j \in Nat /\ j > 0
  <2>1. run.item > 0
    BY DEF Back
  <2> QED
    BY <2>1, OneLess
<1>2. Nfos' \subseteq Nfos /\ UNCHANGED <<before, journal>>
  BY DEF Back, Nfos
<1> QED
  BY <1>1, <1>2, EntryStays DEF EntriesRight
LEMMA NfosUndone ==
    ASSUME OrganizeAssumption, Shape, EntriesRight, NfoRight, NEW e, Back(e),
           \A p \in Nfos : p # e.path => disk'[p] = disk[p],
           e.path \in Nfos =>
             /\ e.action = "delete_created" => disk'[e.path] = None
             /\ e.action = "restore_text" => disk'[e.path] = e.content
    PROVE  NfoRight'
<1> DEFINE n == run.item
<1>1. /\ Fits(e) /\ EntryRight(n) /\ journal[n] = e /\ n \in Nat
      /\ UNCHANGED <<before, journal>> /\ Nfos' = Nfos /\ Standing' = 1..(n - 1)
  BY AtHand, OneLess, EntriesGoRight DEF Back, Nfos
<1>2. ASSUME e.path \in Nfos
      PROVE  \/ e.action = "delete_created"
             \/ e.action = "restore_text" /\ e.content # None
  <2>0. PICK k \in Items : e.path = <<"nfo", k>>
    BY <1>2 DEF Nfos
  <2>1. e.path # Trash /\ e.path # Junk /\ \A i \in Items : e.path # Dst(i)
    BY <2>0, Apart
  <2> QED
    BY <1>1, <2>1, EntryKinds
<1>3. ASSUME NEW p \in Nfos
      PROVE  IF Touched(p)' THEN disk'[p] # None ELSE disk'[p] = before[p]
  <2>1. CASE p # e.path
    <3>1. Touched(p)' <=> Touched(p)
      BY <2>1, OneLess
    <3> QED
      BY <1>3, <2>1, <3>1 DEF NfoRight
  <2>2. CASE p = e.path
    <3>1. Earliest(n) <=> ~Touched(e.path)'
      BY OneLess
    <3> QED
      BY <1>1, <1>2, <1>3, <2>2, <3>1 DEF EntryRight
  <2> QED
    BY <2>1, <2>2
<1>4. ASSUME NEW j \in Standing', journal[j].path \in Nfos,
             journal[j].action = "delete_created", Latest(j)'
      PROVE  disk'[journal[j].path] = journal[j].content
  <2>1. CASE journal[j].path # e.path
    <3>1. j \in Standing /\ Latest(j)
      BY <1>4, <2>1, OneLess
    <3> QED
      BY <1>4, <2>1, <3>1 DEF NfoRight
  <2>2. CASE journal[j].path = e.path
    <3>0. j \in 1..(n - 1)
      BY <1>1
    <3>1. ~Earliest(n)
      BY <1>1, <2>2, <3>0 DEF Earliest
    <3>2. e.action = "restore_text" /\ disk'[e.path] = e.content
      BY <1>1, <1>2, <1>4, <2>2, <3>1 DEF EntryRight
    <3>3. \A l \in Between(j, n) : journal[l].path # e.path
      BY <1>1, <1>4, <2>2 DEF Latest, Between
    <3>4. e.content = journal[j].content
      BY <1>1, <1>4, <2>2, <3>0, <3>2, <3>3 DEF EntryRight
    <3> QED
      BY <2>2, <3>2, <3>4
  <2> QED
    BY <2>1, <2>2
<1> QED
  BY <1>1, <1>3, <1>4 DEF NfoRight

LEMMA SameJournalRight ==
    ASSUME OrganizeAssumption, Shape, Right,
           \/ ItemBegins \/ ItemSucceeds \/ Stored \/ UndoBegins \/ UndoEnds
    PROVE  Right'
<1>1. /\ UNCHANGED <<mode, disk, sourceDir, journal, paths, before, unsaved>>
  BY DEF ItemBegins, ItemSucceeds, Stored, UndoBegins, UndoEnds, OfRun, history
<1>2. run \in RunType
  BY TypeParts DEF Shape
<1>3. CASE ItemBegins \/ ItemSucceeds
  <2>1. /\ run.step \notin Undoing /\ run'.step \notin Undoing
    <3>1. CASE ItemBegins /\ ~Conflicts(run.item)
      BY <1>2, <3>1 DEF ItemBegins, RunType, Undoing
    <3>2. CASE NextItem
      BY <1>2, <1>3, <3>2, NextItemFits
      DEF Shape, StepShape, ItemBegins, ItemSucceeds, Undoing
    <3> QED
      BY <1>3, <3>1, <3>2 DEF ItemBegins, ItemSucceeds
  <2> QED
    BY <1>1, <2>1, RightKept DEF Standing
<1>4. CASE Stored
  <2>1. run.step = "store" /\ run'.step = "stored"
    BY <1>2, <1>4 DEF Stored, RunType
  <2> QED
    BY <1>1, <2>1, RightKept DEF Standing, Undoing
<1>5. CASE UndoBegins
  <2>1. run.step = "stored" /\ run'.step = "undo" /\ run'.item = run.item
    BY <1>2, <1>5, StepGoesOn DEF UndoBegins
  <2> QED
    BY <1>1, <2>1, RightKept DEF Standing, Undoing, Shape, StepShape
<1>6. CASE UndoEnds
  <2>1. run.step = "undo" /\ run'.step = "undone" /\ run'.item = run.item
    BY <1>2, <1>6, StepGoesOn DEF UndoEnds
  <2> QED
    BY <1>1, <2>1, RightKept DEF Standing, Undoing
<1> QED
  BY <1>3, <1>4, <1>5, <1>6

LEMMA NfosShrink ==
    ASSUME NEW d, unsaved' = unsaved \/ unsaved' = unsaved \cup d
    PROVE  Nfos' \subseteq Nfos
BY DEF Nfos

LEMMA MediaPlacedRight ==
    ASSUME OrganizeAssumption, Shape, Right, raced = {}, MediaPlaced
    PROVE  Right'
<1> DEFINE i == run.item
           e == IF mode = "move" THEN Entry("move_back", Dst(i), Src(i), disk[Src(i)])
                ELSE Entry("delete_created", Dst(i), Dst(i), disk[Src(i)])
<1>1. /\ i \in Items /\ disk \in [Places -> Contents] /\ paths \in [Items -> Places]
      /\ run \in RunType /\ journal \in Seq(EntryType) /\ disk[Dst(i)] = None
  BY TypeParts DEF Shape, StepShape, ActShape, Vacant, FilesType, MediaPlaced
<1>2. Records(e) /\ e \in EntryType /\ e.path = Dst(i) /\ e.content = disk[Src(i)]
  <2>1. e \in EntryType /\ e.path = Dst(i) /\ e.content = disk[Src(i)]
    BY <1>1, PlacesIn DEF Entry, EntryType
  <2>2. run'.step = "nfo" /\ run.step = "media" /\ journal' = Append(journal, e)
    BY <1>1, StepGoesOn DEF MediaPlaced
  <2> QED
    BY <2>1, <2>2 DEF Records, Undoing
<1>3. ~Touched(Dst(i)) /\ disk[Src(i)] = Media(i) /\ paths[i] = Src(i)
  BY <1>1, ApartContents DEF Right, MediaRight
<1>4. \A p : Touched(p)' <=> Touched(p) \/ p = Dst(i)
  BY <1>1, <1>2, OneMore
<1>6. \/ disk' = [disk EXCEPT ![Src(i)] = None, ![Dst(i)] = Media(i)]
      \/ disk' = [disk EXCEPT ![Dst(i)] = Media(i)]
  BY <1>3 DEF MediaPlaced, Moved
<1>5. EntriesRight' /\ NfoRight'
  <2>1. e.path \notin Nfos /\ e.path # Trash
    BY <1>1, <1>2, Apart DEF Nfos
  <2>2. UNCHANGED <<before, unsaved>>
    BY DEF MediaPlaced, OfRun, history
  <2>3. Nfos' = Nfos
    BY <2>2 DEF Nfos
  <2>4. \A k \in Items : Dst(i) = Dst(k) => k = i
    BY <1>1, Apart
  <2>5. EntriesRight'
    BY <1>1, <1>2, <1>3, <2>1, <2>2, <2>3, <2>4, EntriesStayRight DEF Right
  <2>6. \A p \in Nfos : disk'[p] = disk[p]
    BY <1>1, <1>6, Apart, PlacesIn DEF Nfos
  <2>7. NfoRight'
    BY <1>1, <1>2, <2>1, <2>2, <2>3, <2>6, NfosRecorded DEF Right
  <2> QED
    BY <2>5, <2>7
<1>8. CleanupRight'
  <2>1. /\ disk'[Junk] = disk[Junk] /\ disk'[Trash] = disk[Trash]
        /\ Touched(Trash)' <=> Touched(Trash)
        /\ Touched(Junk)' <=> Touched(Junk)
    BY <1>1, <1>4, <1>6, Apart, CleanupPlacesIn
  <2> QED
    BY <2>1 DEF Right, CleanupRight, MediaPlaced, OfRun
<1>9. OwnRight'
  BY <1>1, <1>6, Apart, PlacesIn DEF Right, OwnRight
<1>10. ASSUME NEW k \in Items
       PROVE  IF Touched(Dst(k))'
              THEN /\ disk'[Dst(k)] = Media(k)
                   /\ disk'[Src(k)] = IF mode' = "move" THEN None ELSE Media(k)
                   /\ paths'[k] = IF mode' = "move" THEN Dst(k) ELSE Src(k)
              ELSE /\ disk'[Src(k)] = Media(k) /\ disk'[Dst(k)] \in {None, Partial}
                   /\ paths'[k] = Src(k)
  <2>1. CASE k = i
    <3>1. CASE mode = "move"
      <4>1. /\ disk' = [disk EXCEPT ![Src(i)] = None, ![Dst(i)] = Media(i)]
            /\ paths' = [paths EXCEPT ![i] = Dst(i)] /\ mode' = mode
        BY <1>3, <3>1 DEF MediaPlaced, Moved, OfRun
      <4> QED
        BY <1>1, <1>4, <2>1, <3>1, <4>1, Apart, PlacesIn
    <3>2. CASE mode # "move"
      <4>1. disk' = [disk EXCEPT ![Dst(i)] = Media(i)] /\ paths' = paths /\ mode' = mode
        BY <1>3, <3>2 DEF MediaPlaced, OfRun
      <4> QED
        BY <1>1, <1>3, <1>4, <2>1, <3>2, <4>1, Apart, PlacesIn
    <3> QED
      BY <3>1, <3>2
  <2>2. CASE k # i
    <3>0. Dst(k) # Dst(i)
      BY <1>1, <1>10, <2>2, Apart
    <3>1. Touched(Dst(k))' <=> Touched(Dst(k))
      BY <1>4, <3>0
    <3>3. disk'[Dst(k)] = disk[Dst(k)] /\ disk'[Src(k)] = disk[Src(k)]
      <4>1. /\ Dst(k) \in Places \ {Src(i), Dst(i)} /\ Src(k) \in Places \ {Src(i), Dst(i)}
            /\ Src(i) \in Places /\ Dst(i) \in Places
        BY <1>1, <1>10, <2>2, Apart, PlacesIn
      <4> QED
        BY <1>1, <1>6, <4>1
    <3>2. paths'[k] = paths[k] /\ mode' = mode
      BY <1>1, <2>2 DEF MediaPlaced, OfRun
    <3> QED
      BY <1>10, <3>1, <3>2, <3>3 DEF Right, MediaRight
  <2> QED
    BY <2>1, <2>2
<1> QED
  BY <1>5, <1>8, <1>9, <1>10 DEF Right, MediaRight

(* One entry for an NFO, with or without a new text in it.                 *)
LEMMA NfoEntryRight ==
    ASSUME OrganizeAssumption, Shape, Right, NEW w \in Items, NEW e \in EntryType,
           Records(e), e.path = <<"nfo", w>>, UNCHANGED <<mode, sourceDir, paths, before>>,
           \/ unsaved' = unsaved \/ unsaved' = unsaved \cup {<<"nfo", w>>},
           disk' \in [Places -> Contents], disk'[e.path] # None,
           \A p \in Places : p # e.path => disk'[p] = disk[p],
           \/ /\ e.action = "delete_created" /\ disk[e.path] = None
              /\ disk'[e.path] = e.content
           \/ e.action = "restore_text" /\ e.content = disk[e.path]
    PROVE  Right'
<1> DEFINE N == <<"nfo", w>>
<1>1. /\ disk \in [Places -> Contents] /\ journal \in Seq(EntryType) /\ N \in Places
      /\ N # Junk /\ N # Trash /\ \A k \in Items : N # Dst(k) /\ N # Src(k) /\ N # Own(k)
  BY TypeParts, PlacesIn, Apart DEF Shape, FilesType
<1>2. \A p : Touched(p)' <=> Touched(p) \/ p = N
  BY <1>1, OneMore
<1>3. Nfos' \subseteq Nfos
  BY NfosShrink
<1>4. N \in Nfos /\ Touched(N) => disk[N] # None
  BY DEF Right, NfoRight
<1>5. EntriesRight'
  <2>1. N \in Nfos /\ ~Touched(N) => before[N] = disk[N]
    BY DEF Right, NfoRight
  <2> QED
    BY <1>1, <1>3, <1>4, <2>1, EntriesStayRight DEF Right
<1>6. NfoRight'
  <2>1. \A p \in Nfos' : p # e.path => disk'[p] = disk[p]
    BY PlacesIn DEF Nfos
  <2> QED
    BY <1>1, <1>3, <2>1, NfosRecorded DEF Right
<1>7. MediaRight'
  <2>1. \A k \in Items : /\ disk'[Dst(k)] = disk[Dst(k)] /\ disk'[Src(k)] = disk[Src(k)]
                         /\ Touched(Dst(k))' <=> Touched(Dst(k))
    BY <1>1, <1>2, PlacesIn
  <2> QED
    BY <2>1 DEF Right, MediaRight
<1>8. CleanupRight'
  <2>1. /\ disk'[Junk] = disk[Junk] /\ disk'[Trash] = disk[Trash]
        /\ Touched(Trash)' <=> Touched(Trash)
        /\ Touched(Junk)' <=> Touched(Junk)
    BY <1>1, <1>2, CleanupPlacesIn
  <2> QED
    BY <2>1 DEF Right, CleanupRight
<1>9. OwnRight'
  BY <1>1, PlacesIn DEF Right, OwnRight
<1> QED
  BY <1>5, <1>6, <1>7, <1>8, <1>9 DEF Right
LEMMA NfoWrittenRight ==
    ASSUME OrganizeAssumption, Shape, Right, NfoWritten
    PROVE  Right'
<1> DEFINE i == run.item
<1>0. PICK w : w = WorkOf[i]
  OBVIOUS
<1> DEFINE N == <<"nfo", w>>
<1>1. /\ w \in Items /\ i \in Items /\ Nfo(i) = N /\ N \in Places
      /\ disk \in [Places -> Contents] /\ run \in RunType /\ journal \in Seq(EntryType)
      /\ Written(i) \in Contents /\ Written(i) # None
  BY <1>0, TypeParts, PlacesIn, ContentsIn, ApartContents
  DEF Shape, StepShape, FilesType, NfoWritten
<1>2. run.step \notin Undoing /\ run'.step \notin Undoing
  BY <1>1, StepGoesOn DEF NfoWritten, Undoing
<1>3. UNCHANGED <<mode, sourceDir, paths, before>>
  BY DEF NfoWritten
<1>4. CASE UNCHANGED <<disk, journal, unsaved>>
  BY <1>2, <1>3, <1>4, RightKept DEF Standing
<1>5. CASE /\ disk' = [disk EXCEPT ![N] = Written(i)]
           /\ Exists(N) /\ journal' = journal /\ unsaved' = unsaved \cup {N}
  <2>1. Standing' = Standing /\ Nfos' = Nfos \ {N}
    BY <1>2, <1>5 DEF Standing, Nfos
  <2>2. /\ \A p \in Places : p # N => disk'[p] = disk[p]
        /\ \A p : Touched(p)' <=> Touched(p)
    BY <1>1, <1>5, <2>1 DEF Touched
  <2>3. EntriesRight'
    BY <1>3, <1>5, <2>1 DEF Right, EntriesRight, EntryRight, Earliest
  <2>4. NfoRight'
    <3>1. \A p \in Nfos' : p \in Nfos /\ disk'[p] = disk[p]
      BY <2>1, <2>2, PlacesIn DEF Nfos
    <3>2. \A j : Latest(j)' <=> Latest(j)
      BY <1>5, <2>1 DEF Latest
    <3> QED
      BY <1>3, <1>5, <2>1, <2>2, <3>1, <3>2 DEF Right, NfoRight
  <2>5. MediaRight'
    <3>1. \A k \in Items : disk'[Dst(k)] = disk[Dst(k)] /\ disk'[Src(k)] = disk[Src(k)]
      BY <1>1, <2>2, Apart, PlacesIn
    <3> QED
      BY <1>3, <2>2, <3>1 DEF Right, MediaRight
  <2>6. CleanupRight' /\ OwnRight'
    <3>1. /\ disk'[Junk] = disk[Junk] /\ disk'[Trash] = disk[Trash]
          /\ \A k \in Items : disk'[Own(k)] = disk[Own(k)]
      BY <1>1, <2>2, Apart, PlacesIn, CleanupPlacesIn
    <3> QED
      BY <1>3, <2>2, <3>1 DEF Right, CleanupRight, OwnRight
  <2> QED
    BY <2>3, <2>4, <2>5, <2>6 DEF Right
<1>6. CASE /\ disk' = [disk EXCEPT ![N] = Written(i)] /\ unsaved' = unsaved
           /\ Exists(N) /\ journal' = Saved(i)
  <2> DEFINE e == Entry("restore_text", N, N, disk[N])
  <2>1. Records(e) /\ e \in EntryType
    BY <1>1, <1>2, <1>6 DEF Records, Saved, Entry, EntryType
  <2> QED
    BY <1>1, <1>3, <1>6, <2>1, NfoEntryRight DEF Entry
<1>7. CASE /\ disk' = [disk EXCEPT ![N] = Written(i)] /\ unsaved' = unsaved
           /\ ~Exists(N) /\ journal' = Append(journal, Entry("delete_created", N, N, Written(i)))
  <2> DEFINE e == Entry("delete_created", N, N, Written(i))
  <2>1. Records(e) /\ e \in EntryType
    BY <1>1, <1>2, <1>7 DEF Records, Entry, EntryType
  <2> QED
    BY <1>1, <1>3, <1>7, <2>1, NfoEntryRight DEF Entry, Exists
<1> QED
  BY <1>1, <1>4, <1>5, <1>6, <1>7 DEF NfoWritten, BackedUp

LEMMA ItemFailsRight ==
    ASSUME OrganizeAssumption, Shape, Right, raced = {}, ItemFails
    PROVE  Right'
<1> DEFINE i == run.item
<1>1. /\ i \in Items /\ run \in RunType /\ disk \in [Places -> Contents]
      /\ journal \in Seq(EntryType)
      /\ UNCHANGED <<mode, sourceDir, paths, before, unsaved>>
  BY ItemFailsLeaves, TypeParts DEF Shape, FilesType, history
<1>2. run.step \notin Undoing /\ run'.step \notin Undoing
  BY <1>1, NextItemFits DEF ItemFails, Undoing
<1>3. CASE UNCHANGED <<disk, journal>>
  BY <1>1, <1>2, <1>3, RightKept DEF Standing
<1>4. CASE /\ run.step = "nfo" /\ Exists(Nfo(i)) /\ journal' = Saved(i) /\ UNCHANGED disk
  <2>0. PICK w : w = WorkOf[i]
    OBVIOUS
  <2> DEFINE N == <<"nfo", w>>
             e == Entry("restore_text", N, N, disk[N])
  <2>1. w \in Items /\ Nfo(i) = N /\ N \in Places
    BY <1>1, <2>0, PlacesIn
  <2>2. Records(e) /\ e \in EntryType
    BY <1>1, <1>2, <1>4, <2>1 DEF Records, Saved, Entry, EntryType
  <2> QED
    BY <1>1, <1>4, <2>1, <2>2, NfoEntryRight DEF Entry, Exists
<1>5. ASSUME NEW p \in {Dst(i), Trash}, UNCHANGED journal, ~Touched(p),
             disk' = [disk EXCEPT ![p] = Partial]
      PROVE  Right'
  <2>1. Standing' = Standing /\ Nfos' = Nfos /\ p \in Places
    BY <1>1, <1>2, <1>5, PlacesIn, CleanupPlacesIn DEF Standing, Nfos
  <2>2. /\ \A q \in Places : q # p => disk'[q] = disk[q]
        /\ \A q : Touched(q)' <=> Touched(q)
        /\ disk'[p] = Partial
    BY <1>1, <1>5, <2>1 DEF Touched
  <2>3. EntriesRight'
    BY <1>1, <1>5, <2>1 DEF Right, EntriesRight, EntryRight, Earliest
  <2>4. NfoRight'
    <3>1. \A n \in Nfos : disk'[n] = disk[n]
      BY <1>1, <1>5, <2>2, Apart, PlacesIn DEF Nfos
    <3>2. \A j : Latest(j)' <=> Latest(j)
      BY <1>5, <2>1 DEF Latest
    <3> QED
      BY <1>1, <1>5, <2>1, <2>2, <3>1, <3>2 DEF Right, NfoRight
  <2>5. MediaRight'
    <3>1. \A k \in Items : disk'[Src(k)] = disk[Src(k)]
      BY <1>1, <1>5, <2>2, Apart, PlacesIn
    <3>2. \A k \in Items : disk'[Dst(k)] = disk[Dst(k)] \/ Dst(k) = p
      BY <2>2, PlacesIn
    <3> QED
      BY <1>1, <1>5, <2>2, <3>1, <3>2 DEF Right, MediaRight
  <2>6. CleanupRight' /\ OwnRight'
    <3>1. /\ disk'[Junk] = disk[Junk]
          /\ \A k \in Items : disk'[Own(k)] = disk[Own(k)]
      BY <1>1, <1>5, <2>2, Apart, PlacesIn, CleanupPlacesIn
    <3>2. disk'[Trash] = disk[Trash] \/ Trash = p
      BY <2>2, CleanupPlacesIn
    <3> QED
      BY <1>1, <1>5, <2>2, <3>1, <3>2 DEF Right, CleanupRight, OwnRight
  <2> QED
    BY <2>3, <2>4, <2>5, <2>6 DEF Right
<1>6. CASE /\ run.step = "media" /\ UNCHANGED journal
           /\ disk' = [disk EXCEPT ![Dst(i)] = Partial]
  <2>1. disk[Dst(i)] = None
    BY <1>6 DEF Shape, ActShape, Vacant
  <2>2. ~Touched(Dst(i))
    BY <1>1, <2>1, ApartContents DEF Right, MediaRight
  <2> QED
    BY <1>5, <1>6, <2>2
<1>7. CASE /\ Exists(Junk) /\ UNCHANGED journal
           /\ disk' = [disk EXCEPT ![Trash] = Partial]
  <2>1. ~Touched(Trash)
    BY <1>7 DEF Right, CleanupRight, Exists
  <2> QED
    BY <1>5, <1>7, <2>1
<1> QED
  BY <1>3, <1>4, <1>6, <1>7, ItemFailsLeaves

LEMMA JunkTrashedRight ==
    ASSUME OrganizeAssumption, Shape, Right, JunkTrashed
    PROVE  Right'
<1> DEFINE e == Entry("restore_trashed", Trash, Junk, disk[Junk])
<1>1. /\ disk \in [Places -> Contents] /\ run \in RunType /\ journal \in Seq(EntryType)
      /\ UNCHANGED <<mode, sourceDir, paths, before, unsaved>>
  BY TypeParts DEF Shape, FilesType, JunkTrashed, OfRun, history
<1>2. run.step \notin Undoing /\ run'.step \notin Undoing
  BY <1>1, StepGoesOn DEF JunkTrashed, Undoing
<1>3. CASE UNCHANGED <<disk, journal>>
  BY <1>1, <1>2, <1>3, RightKept DEF Standing
<1>4. CASE /\ Exists(Junk) /\ journal' = Append(journal, e)
           /\ disk' = [disk EXCEPT ![Junk] = None, ![Trash] = disk[Junk]]
  <2>1. Records(e) /\ e \in EntryType /\ e.path = Trash
    BY <1>1, <1>2, <1>4, CleanupPlacesIn DEF Entry, EntryType, Records
  <2>2. \A p : Touched(p)' <=> Touched(p) \/ p = Trash
    BY <1>1, <2>1, OneMore
  <2>3. ~Touched(Trash) /\ disk[Junk] = Filtered
    BY <1>4 DEF Right, CleanupRight, Exists
  <2>6. \A p \in Places : p \notin {Junk, Trash} => disk'[p] = disk[p]
    BY <1>1, <1>4, CleanupPlacesIn
  <2>4. EntriesRight' /\ NfoRight'
    <3>1. Trash \notin Nfos /\ Nfos' = Nfos /\ \A k \in Items : Trash # Dst(k)
      BY <1>1, Apart DEF Nfos
    <3>2. \A p \in Nfos : disk'[p] = disk[p]
      BY <2>6, Apart, PlacesIn DEF Nfos
    <3>3. EntriesRight'
      BY <1>1, <2>1, <2>3, <3>1, EntriesStayRight DEF Right
    <3>4. NfoRight'
      BY <1>1, <2>1, <3>1, <3>2, NfosRecorded DEF Right
    <3> QED
      BY <3>3, <3>4
  <2>5. CleanupRight'
    <3>1. disk'[Junk] = None /\ disk'[Trash] = Filtered /\ Touched(Trash)'
      BY <1>1, <1>4, <2>2, <2>3, CleanupPlacesIn, Apart
    <3>2. Touched(Junk) => Touched(Junk)'
      BY <2>2
    <3> QED
      BY <1>1, <3>1, <3>2 DEF Right, CleanupRight
  <2>7. MediaRight'
    <3>1. \A k \in Items : /\ disk'[Dst(k)] = disk[Dst(k)] /\ disk'[Src(k)] = disk[Src(k)]
                           /\ Touched(Dst(k))' <=> Touched(Dst(k))
      BY <2>2, <2>6, Apart, PlacesIn
    <3> QED
      BY <1>1, <3>1 DEF Right, MediaRight
  <2>9. OwnRight'
    BY <2>6, Apart, PlacesIn DEF Right, OwnRight
  <2> QED
    BY <2>4, <2>5, <2>7, <2>9 DEF Right
<1> QED
  BY <1>3, <1>4 DEF JunkTrashed, Moved

LEMMA DirectoryRemovedRight ==
    ASSUME OrganizeAssumption, Shape, Right, DirectoryRemoved
    PROVE  Right'
<1> DEFINE e == Entry("recreate", Junk, Junk, None)
<1>1. /\ disk' = disk /\ run \in RunType /\ journal \in Seq(EntryType)
      /\ UNCHANGED <<mode, paths, before, unsaved>>
  BY TypeParts DEF Shape, FilesType, DirectoryRemoved, history
<1>2. run.step \notin Undoing /\ run'.step \notin Undoing
  BY <1>1, StepGoesOn DEF DirectoryRemoved, Undoing
<1>3. CASE journal' = journal /\ sourceDir' = TRUE
  <2>1. Standing' = Standing
    BY <1>2, <1>3 DEF Standing
  <2>2. \A p : Touched(p)' <=> Touched(p)
    BY <1>3, <2>1 DEF Touched
  <2>3. EntriesRight'
    BY <1>1, <1>3, <2>1 DEF Right, EntriesRight, EntryRight, Earliest, Nfos
  <2>4. NfoRight'
    BY <1>1, <1>3, <2>1, <2>2 DEF Right, NfoRight, Nfos, Latest
  <2>5. MediaRight' /\ CleanupRight' /\ OwnRight'
    BY <1>1, <1>3, <2>2 DEF Right, MediaRight, CleanupRight, OwnRight
  <2> QED
    BY <2>3, <2>4, <2>5 DEF Right
<1>4. CASE journal' = Append(journal, e)
  <2>1. Records(e) /\ e \in EntryType /\ e.path = Junk
    BY <1>1, <1>2, <1>4, CleanupPlacesIn, MoreContents DEF Entry, EntryType, Records
  <2>2. \A p : Touched(p)' <=> Touched(p) \/ p = Junk
    BY <1>1, <2>1, OneMore
  <2>3. EntriesRight' /\ NfoRight'
    <3>1. Junk \notin Nfos /\ Nfos' = Nfos /\ Junk # Trash /\ \A k \in Items : Junk # Dst(k)
      BY <1>1, Apart DEF Nfos
    <3>3. EntriesRight'
      BY <1>1, <2>1, <3>1, EntriesStayRight DEF Right
    <3>4. NfoRight'
      BY <1>1, <2>1, <3>1, NfosRecorded DEF Right
    <3> QED
      BY <3>3, <3>4
  <2>4. MediaRight'
    <3>1. \A k \in Items : Touched(Dst(k))' <=> Touched(Dst(k))
      BY <2>2, Apart
    <3> QED
      BY <1>1, <3>1 DEF Right, MediaRight
  <2>5. CleanupRight' /\ OwnRight'
    <3>1. Touched(Junk)' /\ (Touched(Trash)' <=> Touched(Trash))
      BY <2>2, Apart
    <3> QED
      BY <1>1, <3>1 DEF Right, CleanupRight, OwnRight
  <2> QED
    BY <2>3, <2>4, <2>5 DEF Right
<1> QED
  BY <1>3, <1>4 DEF DirectoryRemoved

(* The undo has dealt with an entry of each kind.                          *)
LEMMA MediaBackRight ==
    ASSUME OrganizeAssumption, Shape, Right, NEW e, Back(e),
           NEW i \in Items, e.path = Dst(i),
           disk' = [disk EXCEPT ![Dst(i)] = None, ![Src(i)] = Media(i)],
           sourceDir' = TRUE \/ sourceDir' = sourceDir,
           \A k \in Items : paths'[k] = IF k = i THEN Src(i) ELSE paths[k]
    PROVE  Right'
<1>1. /\ disk \in [Places -> Contents] /\ UNCHANGED <<mode, before, unsaved>>
      /\ \A p : Touched(p) <=> Touched(p)' \/ p = e.path
  BY TypeParts, OneLess DEF Shape, FilesType, Back
<1>2. EntriesRight' /\ EntryRight(run.item)
  BY EntriesGoRight DEF Right
<1>3. ~Touched(Dst(i))'
  BY <1>2, OneLess DEF EntryRight
<1>4. \A p \in Places : p \notin {Src(i), Dst(i)} => disk'[p] = disk[p]
  BY <1>1
<1>5. ASSUME NEW k \in Items, k # i
      PROVE  /\ disk'[Dst(k)] = disk[Dst(k)] /\ disk'[Src(k)] = disk[Src(k)]
             /\ paths'[k] = paths[k] /\ (Touched(Dst(k))' <=> Touched(Dst(k)))
  <2>1. Dst(k) \notin {Src(i), Dst(i)} /\ Src(k) \notin {Src(i), Dst(i)}
    BY <1>5, Apart
  <2> QED
    BY <1>1, <1>4, <1>5, <2>1, PlacesIn
<1>6. disk'[Dst(i)] = None /\ disk'[Src(i)] = Media(i) /\ paths'[i] = Src(i)
  BY <1>1, Apart, PlacesIn
<1>7. MediaRight'
  BY <1>1, <1>3, <1>5, <1>6 DEF Right, MediaRight
<1>8. NfoRight'
  <2>1. \A p \in Nfos : p \in Places /\ p \notin {Src(i), Dst(i)}
    BY Apart, PlacesIn DEF Nfos
  <2> QED
    BY <1>4, <2>1, NfosUndone DEF Right
<1>9. CleanupRight' /\ OwnRight'
  <2>1. /\ disk'[Junk] = disk[Junk] /\ disk'[Trash] = disk[Trash]
        /\ (Touched(Trash)' <=> Touched(Trash)) /\ (Touched(Junk)' <=> Touched(Junk))
    BY <1>1, <1>4, Apart, CleanupPlacesIn
  <2>2. \A k \in Items : disk'[Own(k)] = disk[Own(k)]
    BY <1>4, Apart, PlacesIn
  <2> QED
    BY <2>1, <2>2 DEF Right, CleanupRight, OwnRight
<1> QED
  BY <1>2, <1>7, <1>8, <1>9 DEF Right
LEMMA NfoBackRight ==
    ASSUME OrganizeAssumption, Shape, Right, NEW e, Back(e),
           NEW w \in Items, e.path = <<"nfo", w>>,
           \A p \in Places : p # e.path => disk'[p] = disk[p],
           e.path \in Nfos =>
             /\ e.action = "delete_created" => disk'[e.path] = None
             /\ e.action = "restore_text" => disk'[e.path] = e.content,
           UNCHANGED <<sourceDir, paths>>
    PROVE  Right'
<1>1. /\ UNCHANGED <<mode, before, unsaved>>
      /\ \A p : Touched(p) <=> Touched(p)' \/ p = e.path
  BY OneLess DEF Back
<1>2. EntriesRight'
  BY EntriesGoRight DEF Right
<1>3. NfoRight'
  <2>1. \A p \in Nfos : p \in Places
    BY PlacesIn DEF Nfos
  <2> QED
    BY <2>1, NfosUndone DEF Right
<1>4. MediaRight'
  <2>1. \A k \in Items : /\ disk'[Dst(k)] = disk[Dst(k)] /\ disk'[Src(k)] = disk[Src(k)]
                         /\ Touched(Dst(k))' <=> Touched(Dst(k))
    BY <1>1, Apart, PlacesIn
  <2> QED
    BY <1>1, <2>1 DEF Right, MediaRight
<1>5. CleanupRight' /\ OwnRight'
  <2>1. /\ disk'[Junk] = disk[Junk] /\ disk'[Trash] = disk[Trash]
        /\ (Touched(Trash)' <=> Touched(Trash)) /\ (Touched(Junk)' <=> Touched(Junk))
    BY <1>1, Apart, CleanupPlacesIn
  <2>2. \A k \in Items : disk'[Own(k)] = disk[Own(k)]
    BY Apart, PlacesIn
  <2> QED
    BY <2>1, <2>2 DEF Right, CleanupRight, OwnRight
<1> QED
  BY <1>2, <1>3, <1>4, <1>5 DEF Right
LEMMA TrashBackRight ==
    ASSUME OrganizeAssumption, Shape, Right, NEW e, Back(e), e.path = Trash,
           disk' = [disk EXCEPT ![Trash] = None, ![Junk] = Filtered], sourceDir' = TRUE,
           \A k \in Items : paths'[k] = paths[k]
    PROVE  Right'
<1>1. /\ disk \in [Places -> Contents] /\ UNCHANGED <<mode, before, unsaved>>
      /\ \A p : Touched(p) <=> Touched(p)' \/ p = e.path
  BY TypeParts, OneLess DEF Shape, FilesType, Back
<1>2. EntriesRight' /\ EntryRight(run.item)
  BY EntriesGoRight DEF Right
<1>3. ~Touched(Trash)'
  BY <1>2, OneLess DEF EntryRight
<1>4. \A p \in Places :
        p \notin {Junk, Trash} => disk'[p] = disk[p] /\ (Touched(p)' <=> Touched(p))
  BY <1>1
<1>5. NfoRight'
  <2>1. ASSUME NEW p \in Nfos PROVE disk'[p] = disk[p]
    <3>1. PICK k \in Items : p = <<"nfo", k>>
      BY <2>1 DEF Nfos
    <3>2. p \in Places /\ p \notin {Junk, Trash}
      BY <3>1, Apart, PlacesIn
    <3> QED
      BY <1>4, <3>2
  <2>2. e.path \notin Nfos
    BY Apart DEF Nfos
  <2> QED
    BY <2>1, <2>2, NfosUndone DEF Right
<1>6. MediaRight'
  <2>1. \A k \in Items : /\ disk'[Dst(k)] = disk[Dst(k)] /\ disk'[Src(k)] = disk[Src(k)]
                         /\ Touched(Dst(k))' <=> Touched(Dst(k))
    BY <1>4, Apart, PlacesIn
  <2> QED
    BY <1>1, <2>1 DEF Right, MediaRight
<1>7. CleanupRight'
  <2>1. disk'[Junk] = Filtered /\ disk'[Trash] = None
    BY <1>1, CleanupPlacesIn, Apart
  <2> QED
    BY <1>3, <2>1 DEF CleanupRight
<1>8. OwnRight'
  BY <1>4, Apart, PlacesIn DEF Right, OwnRight
<1> QED
  BY <1>2, <1>5, <1>6, <1>7, <1>8 DEF Right
LEMMA DirectoryBackRight ==
    ASSUME OrganizeAssumption, Shape, Right, NEW e, Back(e), e.path = Junk,
           sourceDir' = TRUE, UNCHANGED <<disk, paths>>
    PROVE  Right'
<1>1. UNCHANGED mode /\ \A p : p # Junk => (Touched(p)' <=> Touched(p))
  BY OneLess DEF Back
<1>2. Junk \notin Nfos /\ Junk # Trash /\ \A k \in Items : Junk # Dst(k)
  BY Apart DEF Nfos
<1>3. EntriesRight' /\ NfoRight'
  BY <1>2, EntriesGoRight, NfosUndone DEF Right
<1>4. MediaRight' /\ CleanupRight' /\ OwnRight'
  BY <1>1, <1>2 DEF Right, MediaRight, CleanupRight, OwnRight
<1> QED
  BY <1>3, <1>4 DEF Right

(* What the places of an entry hold when the undo comes to it.             *)
LEMMA EntryStands ==
    ASSUME OrganizeAssumption, Shape, Right, run.step \in {"undo", "undoing"}, run.item > 0
    PROVE  /\ Current.action = "move_back" => \E i \in Items :
                /\ mode = "move" /\ Current.path = Dst(i) /\ Current.original = Src(i)
                /\ disk[Dst(i)] = Media(i) /\ disk[Src(i)] = None
           /\ Current.action = "delete_created" => \E i \in Items :
                \/ /\ Current.path = Dst(i) /\ Current.content = Media(i)
                   /\ disk[Dst(i)] = Media(i) /\ disk[Src(i)] = Media(i) /\ paths[i] = Src(i)
                \/ /\ Current.path = <<"nfo", i>>
                   /\ Current.path \in Nfos =>
                        disk[Current.path] = Current.content /\ Current.content # None
           /\ Current.action = "restore_trashed" =>
                /\ Current.path = Trash /\ Current.original = Junk
                /\ disk[Trash] = Filtered /\ disk[Junk] = None
<1> DEFINE n == run.item
<1>1. PICK e : e = Current
  OBVIOUS
<1>2. n \in Standing /\ journal[n] = e /\ Fits(e) /\ Touched(e.path) /\ Latest(n)
  <2>1. n \in Nat /\ n \in Standing /\ journal[n] = e /\ Standing = 1..n /\ Fits(e)
    BY <1>1, AtHand DEF Standing, Undoing, Current
  <2>2. Latest(n)
    <3>1. \A k \in 1..n : ~(k > n)
      BY <2>1
    <3> QED
      BY <2>1, <3>1 DEF Latest
  <2> QED
    BY <2>1, <2>2 DEF Touched
<1>3. EntryRight(n)
  BY <1>2 DEF Right, EntriesRight
<1>4. CASE e.action = "move_back"
  <2>1. PICK i \in Items : mode = "move" /\ e.path = Dst(i) /\ e.original = Src(i)
    BY <1>2, <1>4, EntryKinds
  <2>2. disk[Dst(i)] = Media(i) /\ disk[Src(i)] = None
    BY <1>2, <2>1 DEF Right, MediaRight
  <2> QED
    BY <1>1, <1>4, <2>1, <2>2
<1>5. CASE e.action = "delete_created"
  <2>1. CASE mode = "copy" /\ \E i \in Items : e.path = Dst(i)
    <3>1. PICK i \in Items : e.path = Dst(i)
      BY <2>1
    <3>2. e.content = Media(i)
      BY <1>2, <1>3, <1>5, <3>1 DEF EntryRight
    <3>3. disk[Dst(i)] = Media(i) /\ disk[Src(i)] = Media(i) /\ paths[i] = Src(i)
      BY <1>2, <2>1, <3>1 DEF Right, MediaRight
    <3> QED
      BY <1>1, <1>5, <3>1, <3>2, <3>3
  <2>2. CASE \E i, k \in Items : e.path = <<"nfo", i>> /\ e.content = Written(k)
    <3>1. PICK i, k \in Items : e.path = <<"nfo", i>> /\ e.content = Written(k)
      BY <2>2
    <3>2. e.path \in Nfos => disk[e.path] = e.content
      BY <1>2, <1>5 DEF Right, NfoRight
    <3> QED
      BY <1>1, <1>5, <3>1, <3>2, ApartContents
  <2> QED
    BY <1>2, <1>5, <2>1, <2>2, EntryKinds
<1>6. CASE e.action = "restore_trashed"
  <2>1. e.path = Trash /\ e.original = Junk
    BY <1>2, <1>6, EntryKinds
  <2> QED
    BY <1>1, <1>2, <1>6, <2>1 DEF Right, CleanupRight
<1> QED
  BY <1>1, <1>4, <1>5, <1>6

(* Only the entry of an NFO can be refused.                                *)
LEMMA UndoLooksRight == ASSUME OrganizeAssumption, Shape, Right, UndoLooks PROVE Right'
<1>1. PICK e : e = Current
  OBVIOUS
<1>2. /\ run.step = "undo" /\ run.item > 0 /\ run \in RunType
      /\ UNCHANGED <<mode, disk, sourceDir, journal, paths, before, unsaved>>
  BY AtHand DEF UndoLooks, OfRun, history
<1>3. CASE Applies(e)
  <2>1. run'.step = "undoing" /\ run'.item = run.item
    BY <1>1, <1>2, <1>3, StepGoesOn DEF UndoLooks
  <2> QED
    BY <1>2, <2>1, RightKept DEF Standing, Undoing
<1>4. CASE ~Applies(e)
  <2>1. Back(e)
    BY <1>1, <1>2, <1>4 DEF Back, UndoLooks
  <2>2. e.action \in {"move_back", "restore_trashed", "delete_created"}
    BY <1>1 DEF UndoLooks
  <2>3. e.action = "delete_created"
    BY <1>1, <1>2, <1>4, <2>2, EntryStands, ApartContents, MoreContents
    DEF Applies, Exists, Free
  <2>4. PICK i \in Items :
          \/ e.path = Dst(i) /\ e.content = Media(i) /\ disk[e.path] = Media(i)
          \/ /\ e.path = <<"nfo", i>>
             /\ e.path \in Nfos => disk[e.path] = e.content /\ e.content # None
    BY <1>1, <1>2, <2>3, EntryStands
  <2>5. e.path = <<"nfo", i>> /\ e.path \notin Nfos
    BY <1>4, <2>3, <2>4, ApartContents DEF Applies, Exists
  <2> QED
    BY <1>2, <2>1, <2>5, NfoBackRight
<1> QED
  BY <1>3, <1>4
LEMMA UndoMovesRight == ASSUME OrganizeAssumption, Shape, Right, UndoMoves PROVE Right'
<1>1. PICK e : e = Current
  OBVIOUS
<1>2. /\ Back(e) /\ run.step = "undoing" /\ run.item > 0 /\ sourceDir' = TRUE
      /\ disk' = [disk EXCEPT ![e.path] = None, ![e.original] = disk[e.path]]
      /\ paths' = [k \in Items |-> IF e.action = "move_back" /\ e.path = Dst(k) THEN Src(k)
                                   ELSE paths[k]]
  BY <1>1 DEF UndoMoves, Back, Shape, StepShape, history, Moved
<1>3. e.action \in {"move_back", "restore_trashed"}
  BY <1>1 DEF UndoMoves, Shape, ActShape, LookedAt
<1>4. CASE e.action = "move_back"
  <2>1. PICK i \in Items : /\ e.path = Dst(i) /\ e.original = Src(i)
                           /\ disk[Dst(i)] = Media(i)
    BY <1>1, <1>2, <1>4, EntryStands
  <2>2. \A k \in Items : paths'[k] = IF k = i THEN Src(i) ELSE paths[k]
    BY <1>2, <1>4, <2>1, Apart
  <2> QED
    BY <1>2, <2>1, <2>2, MediaBackRight
<1>5. CASE e.action = "restore_trashed"
  <2>1. e.path = Trash /\ e.original = Junk /\ disk[Trash] = Filtered
    BY <1>1, <1>2, <1>5, EntryStands
  <2>2. \A k \in Items : paths'[k] = paths[k]
    BY <1>2, <1>5
  <2> QED
    BY <1>2, <2>1, <2>2, TrashBackRight
<1> QED
  BY <1>3, <1>4, <1>5
LEMMA UndoDeletesRight == ASSUME OrganizeAssumption, Shape, Right, UndoDeletes PROVE Right'
<1>1. PICK e : e = Current
  OBVIOUS
<1>2. /\ Back(e) /\ run.step = "undoing" /\ run.item > 0 /\ e.action = "delete_created"
      /\ disk' = [disk EXCEPT ![e.path] = None] /\ UNCHANGED <<sourceDir, paths>>
      /\ disk \in [Places -> Contents]
  BY <1>1, TypeParts
  DEF UndoDeletes, Back, Shape, StepShape, FilesType, OfRun, history
<1>3. PICK i \in Items :
        \/ e.path = Dst(i) /\ disk[Src(i)] = Media(i) /\ paths[i] = Src(i)
        \/ e.path = <<"nfo", i>>
  BY <1>1, <1>2, EntryStands
<1>4. CASE e.path = Dst(i) /\ disk[Src(i)] = Media(i) /\ paths[i] = Src(i)
  <2>1. Src(i) # Dst(i) /\ Src(i) \in Places /\ Dst(i) \in Places
    BY Apart, PlacesIn
  <2>2. disk' = [disk EXCEPT ![Dst(i)] = None, ![Src(i)] = Media(i)]
    BY <1>2, <1>4, <2>1
  <2>3. \A k \in Items : paths'[k] = IF k = i THEN Src(i) ELSE paths[k]
    BY <1>2, <1>4
  <2> QED
    BY <1>2, <1>4, <2>2, <2>3, MediaBackRight
<1>5. CASE e.path = <<"nfo", i>>
  <2>1. e.path \in Places
    BY <1>5, PlacesIn
  <2> QED
    BY <1>2, <1>5, <2>1, NfoBackRight
<1> QED
  BY <1>3, <1>4, <1>5
LEMMA UndoWritesRight == ASSUME OrganizeAssumption, Shape, Right, UndoWrites PROVE Right'
<1>1. PICK e : e = Current
  OBVIOUS
<1>2. /\ Back(e) /\ Fits(e) /\ UNCHANGED paths /\ disk \in [Places -> Contents]
  BY <1>1, AtHand, TypeParts DEF UndoWrites, Back, Shape, FilesType, history
<1>3. CASE e.action = "recreate"
  <2>1. e.path = Junk
    BY <1>2, <1>3, EntryKinds
  <2> QED
    BY <1>1, <1>2, <1>3, <2>1, DirectoryBackRight DEF UndoWrites
<1>4. CASE e.action = "restore_text"
  <2>1. PICK w \in Items : e.path = <<"nfo", w>>
    BY <1>2, <1>4, EntryKinds
  <2>2. e.path \in Places
    BY <2>1, PlacesIn
  <2>3. disk' = [disk EXCEPT ![e.path] = e.content] /\ UNCHANGED sourceDir
    BY <1>1, <1>4 DEF UndoWrites
  <2> QED
    BY <1>2, <1>4, <2>1, <2>2, <2>3, NfoBackRight
<1> QED
  BY <1>1, <1>3, <1>4 DEF UndoWrites

LEMMA RightInitially == ASSUME OrganizeAssumption, Init PROVE BeforeShape /\ Right
<1>1. PICK nfos \in SUBSET {Nfo(i) : i \in Items} :
        disk = [p \in Places |-> IF p[1] = "src" THEN Media(p[2])
                                 ELSE IF p \in nfos THEN Earlier
                                 ELSE IF p = Junk THEN Filtered ELSE None]
  BY DEF Init
<1>2. ASSUME NEW i \in Items
      PROVE  disk[Src(i)] = Media(i) /\ disk[Dst(i)] = None /\ disk[Own(i)] = None
  <2>1. Dst(i) \notin nfos /\ Own(i) \notin nfos
    BY Apart, PlacesIn
  <2> QED
    BY <1>1, <2>1, Apart, PlacesIn DEF Src, Dst, Own
<1>3. disk[Junk] = Filtered /\ disk[Trash] = None
  <2>1. Junk \notin nfos /\ Trash \notin nfos /\ Junk # Trash
    BY Apart, PlacesIn
  <2> QED
    BY <1>1, <2>1, CleanupPlacesIn DEF Junk, Trash
<1>4. Standing = {} /\ before = disk
  BY DEF Init, Standing, Undoing
<1>5. \A p : ~Touched(p)
  BY <1>4 DEF Touched
<1>6. NfoRight /\ EntriesRight
  BY <1>4, <1>5 DEF NfoRight, EntriesRight
<1> QED
  BY <1>2, <1>3, <1>4, <1>5, <1>6
  DEF Init, BeforeShape, Right, MediaRight, CleanupRight, OwnRight

LEMMA UndoableInductive ==
    ASSUME OrganizeAssumption, Undoable, [Next]_organizeVars
    PROVE  Undoable'
<1>1. Shape'
  BY ShapeInductive DEF Undoable
<1>2. before' = before
  BY DEF Next, organizeVars, history, ItemBegins, MediaPlaced, NfoWritten, JunkTrashed,
         DirectoryRemoved, ItemSucceeds, ItemFails, Stored, UndoBegins, UndoLooks,
         UndoMoves, UndoDeletes, UndoWrites, UndoStepFails, UndoEnds, UserWrites, UserMoves, OfRun, Unchanged
<1>3. BeforeShape'
  BY <1>2 DEF Undoable, BeforeShape
<1>4. ASSUME Untouched' PROVE Right'
  <2>0. run \in RunType /\ raced \subseteq users
    BY TypeParts DEF Undoable, Shape, FilesType
  <2>1. CASE UNCHANGED organizeVars
    BY <1>4, <2>1, RightKept
    DEF Undoable, Untouched, Standing, organizeVars, history
  <2>2. CASE \/ ItemBegins \/ ItemSucceeds \/ Stored \/ UndoBegins \/ UndoEnds
    <3>1. users' = users /\ moved' = moved
      BY <2>2 DEF ItemBegins, ItemSucceeds, Stored, UndoBegins, UndoEnds, OfRun, history
    <3>2. run'.errors = run.errors
      <4>1. CASE ToStep("undo") \/ ToStep("undone")
        BY <2>0, <4>1, StepGoesOn
      <4>2. CASE NextItem
        BY <2>0, <4>2, NextItemFits, <2>2 DEF NextItem, RunType
      <4>3. CASE ItemBegins /\ ~Conflicts(run.item)
        BY <2>0, <4>3 DEF ItemBegins, RunType
      <4>4. CASE Stored
        BY <2>0, <4>4 DEF Stored, RunType
      <4> QED
        BY <2>2, <4>1, <4>2, <4>3, <4>4
        DEF ItemBegins, ItemSucceeds, UndoBegins, UndoEnds
    <3> QED
      BY <1>4, <2>2, <3>1, <3>2, SameJournalRight DEF Undoable, Untouched
  <2>3. CASE \/ MediaPlaced \/ NfoWritten \/ JunkTrashed \/ DirectoryRemoved
             \/ ItemFails
    <3>1. users' = users /\ moved' = moved
      BY <2>3 DEF MediaPlaced, NfoWritten, JunkTrashed, DirectoryRemoved, ItemFails, OfRun,
                  history
    <3>2. run'.errors = run.errors
      <4>1. CASE \E s \in {"nfo", "trash", "rmdir", "succeeded"} : ToStep(s)
        BY <2>0, <4>1, StepGoesOn
      <4>2. CASE NextItem
        BY <2>0, <4>2 DEF NextItem, RunType
      <4> QED
        BY <2>3, <4>1, <4>2
        DEF MediaPlaced, NfoWritten, JunkTrashed, DirectoryRemoved, ItemFails
    <3>3. Right /\ raced = {}
      BY <1>4, <2>0, <3>1, <3>2 DEF Undoable, Untouched
    <3> QED
      BY <2>3, <3>3, ItemFailsRight, MediaPlacedRight, NfoWrittenRight, JunkTrashedRight,
         DirectoryRemovedRight DEF Undoable
  <2>4. CASE UndoLooks \/ UndoMoves \/ UndoDeletes \/ UndoWrites
    <3>1. users' = users /\ moved' = moved
      BY <2>4 DEF UndoLooks, UndoMoves, UndoDeletes, UndoWrites, OfRun, history
    <3>2. run'.errors = run.errors
      BY <2>0, <2>4
      DEF UndoLooks, UndoMoves, UndoDeletes, UndoWrites, PreviousEntry, ToStep, RunType
    <3>3. Right
      BY <1>4, <3>1, <3>2 DEF Undoable, Untouched
    <3> QED
      BY <2>4, <3>3, UndoLooksRight, UndoMovesRight, UndoDeletesRight, UndoWritesRight
      DEF Undoable
  <2>5. CASE UndoStepFails
    <3>1. run'.errors
      BY <2>0, <2>5 DEF UndoStepFails, RunType
    <3> QED
      BY <1>4, <3>1 DEF Untouched
  <2>6. CASE (\E p \in Places : UserWrites(p)) \/ (\E i \in Items : UserMoves(i))
    <3>1. users' # {} \/ moved' # {}
      BY <2>6 DEF UserWrites, UserMoves
    <3> QED
      BY <1>4, <3>1 DEF Untouched
  <2> QED
    BY <2>1, <2>2, <2>3, <2>4, <2>5, <2>6 DEF Next
<1> QED
  BY <1>1, <1>3, <1>4 DEF Undoable

(* An undo that meets no error, after a run that may have failed anywhere, *)
(* restores files, directory and rows if nobody touched a file meanwhile;  *)
(* all but the texts of the NFOs the run could not back up, and the parts  *)
(* of files a failed move or copy left where there was nothing.            *)
THEOREM UndoRestores == ASSUME OrganizeAssumption PROVE Spec => []RoundTrip
<1>1. Init => Undoable
  BY ShapeInitially, RightInitially DEF Undoable
<1>2. Undoable /\ [Next]_organizeVars => Undoable'
  BY UndoableInductive
<1>3. Undoable => RoundTrip
  <2> SUFFICES ASSUME Undoable, run.step = "undone", Untouched
               PROVE  /\ \A p \in Places \ unsaved :
                           disk[p] = before[p] \/ (disk[p] = Partial /\ before[p] = None)
                      /\ sourceDir /\ \A i \in Items : paths[i] = Src(i)
    BY DEF RoundTrip, Untouched
  <2>1. /\ disk \in [Places -> Contents] /\ before \in [Places -> Contents]
        /\ sourceDir \in BOOLEAN
    BY TypeParts DEF Undoable, Shape, FilesType
  <2>2. Standing = {}
    BY DEF Undoable, Shape, StepShape, Standing, Undoing
  <2>3. \A p : ~Touched(p)
    BY <2>2 DEF Touched
  <2>4. Right /\ BeforeShape
    BY DEF Undoable
  <2>5. sourceDir /\ \A i \in Items : paths[i] = Src(i)
    BY <2>1, <2>3, <2>4 DEF Right, MediaRight, CleanupRight
  <2> DEFINE Kept(p) == disk[p] = before[p] \/ (disk[p] = Partial /\ before[p] = None)
  <2>6. \A i \in Items : /\ Kept(Src(i)) /\ Kept(Dst(i)) /\ Kept(Own(i))
                         /\ <<"nfo", i>> \notin unsaved => Kept(<<"nfo", i>>)
    BY <2>3, <2>4 DEF Right, MediaRight, NfoRight, Nfos, OwnRight, BeforeShape
  <2>7. Kept(Junk) /\ Kept(Trash)
    BY <2>3, <2>4 DEF Right, CleanupRight, BeforeShape
  <2>8. \A p \in Places : \/ p \in {Junk, Trash}
                          \/ \E i \in Items : p \in {Src(i), Dst(i), Own(i), <<"nfo", i>>}
    BY DEF Places, Src, Dst, Own
  <2>9. \A p \in Places \ unsaved : Kept(p)
    BY <2>6, <2>7, <2>8
  <2> QED
    BY <2>5, <2>9
<1> QED
  BY <1>1, <1>2, <1>3, PTL DEF Spec
=============================================================================
