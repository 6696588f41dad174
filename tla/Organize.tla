------------------------------- MODULE Organize --------------------------------
(***************************************************************************)
(* An organize run over the assets of a library and its undo               *)
(* (media/organizer.py, media/organize_journal.py and their endpoints in   *)
(* api.py): every item is checked, then its files are moved or copied, the *)
(* NFO of its work written, and after the last one what is left of the     *)
(* source directory cleaned up; a journal of reverse operations is stored  *)
(* at the end and replayed backwards by the undo.  The user may change     *)
(* files between any two steps, also between the look the code takes at a  *)
(* place and the move or the deletion that relies on it.                   *)
(***************************************************************************)
EXTENDS Naturals, Sequences

CONSTANTS
    Assets,       \* 1..Assets, in the order of the run
    WorkOf,       \* the work of each asset: its NFO is shared
    MaxChanges,   \* bound: files the user creates, edits or moves
    MaxFailures   \* bound: operations that raise

Items == 1..Assets
OrganizeAssumption ==
    /\ Assets \in Nat \ {0} /\ WorkOf \in [Items -> Items]
    /\ MaxChanges \in Nat /\ MaxFailures \in Nat

(* Places, and what lies there.                                            *)
Src(i) == <<"src", i>>
Dst(i) == <<"dst", i>>
Own(i) == <<"own", i>>     \* somewhere else, known to the user only
Nfo(i) == <<"nfo", WorkOf[i]>>
Junk == <<"junk", 0>>      \* a filtered file of the source directory
Trash == <<"trash", 0>>
Places == {"src", "dst", "own", "nfo"} \X Items \cup {Junk, Trash}
None == <<"none", 0>>
Media(i) == <<"media", i>>
Written(i) == <<"written", i>>        \* names the file, so no two are of one size
Earlier == <<"earlier", 0>>
Filtered == <<"filtered", 0>>
Partial == <<"partial", 0>>           \* what a move or a copy that fails leaves
Users(p) == <<"users", p[1], p[2]>>    \* of a size no other content has
Contents == ({"media", "written"} \X Items) \cup {None, Earlier, Filtered, Partial}
            \cup ({"users"} \X {"src", "dst", "nfo"} \X Items)

VARIABLES
    mode, policy,  \* OutputMode (move or copy), NfoPolicy
    disk,          \* the content of each place
    sourceDir,     \* the source directory exists
    run,           \* the run, then its undo: step, item, NFO conflict, undo errors
    completed,     \* works of which an item has succeeded
    journal,       \* reverse operations
    paths,         \* MediaAsset.path
    before,        \* history: the disk at the start
    users,         \* history: places the user put a file of his own
    moved,         \* history: assets whose file the user moved
    raced,         \* history: places he put it in after the code had looked there
    unsaved,       \* history: NFOs overwritten without a backup of their text
    changes, failures

history == <<before, users, moved, raced, unsaved>>
organizeVars == <<mode, policy, disk, sourceDir, run, completed, journal, paths,
                  history, changes, failures>>

Exists(p) == disk[p] # None
Entry(action, path, original, content) ==
    [action |-> action, path |-> path, original |-> original, content |-> content]
Moved(from, to) == [disk EXCEPT ![from] = None, ![to] = disk[from]]

-----------------------------------------------------------------------------
(* Organizer.execute, item after item                                      *)

Policy(i) == IF WorkOf[i] \in completed /\ policy = "error" THEN "skip" ELSE policy
Conflicts(i) == Exists(Dst(i)) \/ (Exists(Nfo(i)) /\ Policy(i) = "error")

ToStep(step) == run' = [run EXCEPT !.step = step]
NextItem == run' = [run EXCEPT !.step = IF run.item = Assets THEN "store" ELSE "item",
                               !.item = IF run.item = Assets THEN @ ELSE @ + 1]

ItemBegins ==
    LET i == run.item IN
    /\ run.step = "item"
    /\ IF Conflicts(i) THEN NextItem
       ELSE run' = [run EXCEPT !.step = "media", !.conflict = Exists(Nfo(i))]
    /\ UNCHANGED <<mode, policy, disk, sourceDir, completed, journal, paths, history,
                   changes, failures>>

OfRun == <<mode, policy, sourceDir, history, changes>>
(* What lies at the destination by then is overwritten.                    *)
MediaPlaced ==
    LET i == run.item IN
    /\ run.step = "media" /\ Exists(Src(i))
    /\ IF mode = "move"
       THEN /\ disk' = Moved(Src(i), Dst(i))
            /\ journal' = Append(journal, Entry("move_back", Dst(i), Src(i), disk[Src(i)]))
            /\ paths' = [paths EXCEPT ![i] = Dst(i)]
       ELSE /\ disk' = [disk EXCEPT ![Dst(i)] = disk[Src(i)]]
            /\ journal' = Append(journal,
                                 Entry("delete_created", Dst(i), Dst(i), disk[Src(i)]))
            /\ UNCHANGED paths
    /\ ToStep("nfo")
    /\ UNCHANGED <<OfRun, completed, failures>>
(* An NFO that is too large, cannot be read or is not UTF-8 is not saved,  *)
(* and overwritten all the same.                                           *)
Saved(i) == Append(journal, Entry("restore_text", Nfo(i), Nfo(i), disk[Nfo(i)]))
(* Mutant: what was there is not remembered.                               *)
BackedUpNever(i, saved) == journal
BackedUp(i, saved) ==
    IF ~Exists(Nfo(i))
    THEN Append(journal, Entry("delete_created", Nfo(i), Nfo(i), Written(i)))
    ELSE IF saved THEN Saved(i) ELSE journal
Skips(i) == run.conflict /\ Policy(i) = "skip"
NfoWritten ==
    LET i == run.item IN
    /\ run.step = "nfo"
    /\ \/ Skips(i) /\ UNCHANGED <<disk, journal, unsaved>>
       \/ /\ ~Skips(i)
          /\ disk' = [disk EXCEPT ![Nfo(i)] = Written(i)]
          /\ \E saved \in BOOLEAN :
               /\ journal' = BackedUp(i, saved)
               /\ unsaved' = IF Exists(Nfo(i)) /\ ~saved THEN unsaved \cup {Nfo(i)}
                             ELSE unsaved
    /\ ToStep(IF i = Assets /\ mode = "move" THEN "trash" ELSE "succeeded")
    /\ UNCHANGED <<mode, policy, sourceDir, before, users, moved, raced, changes,
                   completed, paths, failures>>
(* The cleanup rides on the last item.                                     *)
JunkTrashed ==
    /\ run.step = "trash"
    /\ IF Exists(Junk)
       THEN /\ disk' = Moved(Junk, Trash)
            /\ journal' = Append(journal, Entry("restore_trashed", Trash, Junk, disk[Junk]))
       ELSE UNCHANGED <<disk, journal>>
    /\ ToStep("rmdir")
    /\ UNCHANGED <<OfRun, completed, paths, failures>>
DirectoryRemoved ==
    LET empty == ~Exists(Junk) /\ \A i \in Items : ~Exists(Src(i)) IN
    /\ run.step = "rmdir"
    /\ sourceDir' = ~empty
    /\ journal' = IF empty THEN Append(journal, Entry("recreate", Junk, Junk, None))
                  ELSE journal
    /\ ToStep("succeeded")
    /\ UNCHANGED <<mode, policy, disk, completed, paths, history, changes, failures>>
ItemSucceeds ==
    /\ run.step = "succeeded"
    /\ completed' = completed \cup {WorkOf[run.item]}
    /\ NextItem
    /\ UNCHANGED <<OfRun, disk, journal, paths, failures>>
(* An operation raises: the item ends there and the next one is tried.  A  *)
(* move or copy may leave part of a file, of which the journal knows       *)
(* nothing, and an NFO that is not written may have been saved.            *)
LeavesPart(place) == disk' \in {disk, [disk EXCEPT ![place] = Partial]}
ItemFails ==
    LET i == run.item IN
    /\ \/ /\ failures < MaxFailures /\ failures' = failures + 1
          /\ \/ run.step = "media" /\ LeavesPart(Dst(i)) /\ UNCHANGED journal
             \/ /\ run.step = "nfo" /\ ~Skips(i)
                /\ UNCHANGED journal \/ (Exists(Nfo(i)) /\ journal' = Saved(i))
                /\ UNCHANGED disk
             \/ run.step = "trash" /\ Exists(Junk) /\ LeavesPart(Trash) /\ UNCHANGED journal
       \/ /\ run.step = "media" /\ ~Exists(Src(i))
          /\ UNCHANGED <<disk, journal, failures>>
    /\ NextItem
    /\ UNCHANGED <<OfRun, completed, paths>>

(* The journal and the new paths of the assets are committed.              *)
Stored ==
    /\ run.step = "store"
    /\ run' = [run EXCEPT !.step = "stored", !.item = Len(journal)]
    /\ UNCHANGED <<OfRun, disk, completed, journal, paths, failures>>

-----------------------------------------------------------------------------
(* undo_entries, not dry                                                   *)

Current == journal[run.item]
UndoBegins ==
    /\ run.step = "stored" /\ journal # <<>>
    /\ ToStep("undo")
    /\ UNCHANGED <<OfRun, disk, completed, journal, paths, failures>>

(* Mutant: a file that has taken the old place is overwritten.             *)
FreeAlways(p) == TRUE
Free(p) == ~Exists(p)
Applies(e) ==
    /\ Exists(e.path)
    /\ IF e.action = "delete_created" THEN disk[e.path] = e.content ELSE Free(e.original)
PreviousEntry == run' = [run EXCEPT !.step = "undo", !.item = @ - 1]

(* An entry that moves or deletes a file is passed over if its places do   *)
(* not look as the run left them.                                          *)
UndoLooks ==
    /\ run.step = "undo" /\ run.item > 0
    /\ Current.action \in {"move_back", "restore_trashed", "delete_created"}
    /\ IF Applies(Current) THEN ToStep("undoing") ELSE PreviousEntry
    /\ UNCHANGED <<OfRun, disk, completed, journal, paths, failures>>
(* It overwrites or deletes whatever is there by then.                     *)
UndoMoves ==
    LET e == Current IN
    /\ run.step = "undoing" /\ e.action # "delete_created" /\ Exists(e.path)
    /\ disk' = Moved(e.path, e.original)
    /\ sourceDir' = TRUE
    /\ paths' = [i \in Items |-> IF e.action = "move_back" /\ e.path = Dst(i) THEN Src(i)
                                 ELSE paths[i]]
    /\ PreviousEntry
    /\ UNCHANGED <<mode, policy, completed, journal, history, changes, failures>>
UndoDeletes ==
    /\ run.step = "undoing" /\ Current.action = "delete_created" /\ Exists(Current.path)
    /\ disk' = [disk EXCEPT ![Current.path] = None]
    /\ PreviousEntry
    /\ UNCHANGED <<OfRun, completed, journal, paths, failures>>
(* The old text is written without a look at what is there.                *)
UndoWrites ==
    LET e == Current IN
    /\ run.step = "undo" /\ run.item > 0 /\ e.action \in {"restore_text", "recreate"}
    /\ IF e.action = "recreate" THEN sourceDir' = TRUE /\ UNCHANGED disk
       ELSE disk' = [disk EXCEPT ![e.path] = e.content] /\ UNCHANGED sourceDir
    /\ PreviousEntry
    /\ UNCHANGED <<mode, policy, completed, journal, paths, history, changes, failures>>
(* A file that is gone, or cannot be moved, deleted or written, is         *)
(* reported and left; the directory it goes to may have been made, and     *)
(* part of it copied.                                                      *)
UndoStepFails ==
    /\ \/ run.step \in {"undo", "undoing"} /\ run.item > 0
          /\ failures < MaxFailures /\ failures' = failures + 1
       \/ run.step = "undoing" /\ ~Exists(Current.path) /\ UNCHANGED failures
    /\ \/ UNCHANGED <<disk, sourceDir>>
       \/ /\ run.step = "undoing" /\ Current.action # "delete_created"
          /\ sourceDir' = TRUE
          /\ \/ UNCHANGED disk
             \/ Exists(Current.path) /\ LeavesPart(Current.original)
    /\ run' = [run EXCEPT !.step = "undo", !.item = @ - 1, !.errors = TRUE]
    /\ UNCHANGED <<mode, policy, history, changes, completed, journal, paths>>
UndoEnds ==
    /\ run.step = "undo" /\ run.item = 0
    /\ ToStep("undone")
    /\ UNCHANGED <<OfRun, disk, completed, journal, paths, failures>>

-----------------------------------------------------------------------------
(* The user                                                                *)

MayChange == changes < MaxChanges /\ changes' = changes + 1
Unchanged == UNCHANGED <<mode, policy, sourceDir, run, completed, journal, paths, before,
                         unsaved, failures>>
(* The places the code has looked at and is about to overwrite or delete.  *)
AtRisk == CASE run.step = "media" -> {Dst(run.item)}
            [] run.step = "undoing" -> {Current.original}
            [] OTHER -> {}
(* A new file, or another version of one that holds no video.              *)
UserWrites(p) ==
    /\ MayChange
    /\ p[1] \in {"src", "dst", "nfo"} /\ (p[1] # "nfo" => ~Exists(p))
    /\ p[1] = "src" => sourceDir
    /\ disk' = [disk EXCEPT ![p] = Users(p)]
    /\ users' = users \cup {p}
    /\ raced' = IF p \in AtRisk THEN raced \cup {p} ELSE raced \ {p}
    /\ UNCHANGED moved
    /\ Unchanged
(* A file that is not his own is put elsewhere.                            *)
UserMoves(i) ==
    /\ MayChange /\ ~Exists(Own(i))
    /\ \E p \in {Src(i), Dst(i)} \ users : Exists(p) /\ disk' = Moved(p, Own(i))
    /\ moved' = moved \cup {i}
    /\ UNCHANGED <<users, raced>>
    /\ Unchanged

-----------------------------------------------------------------------------
Init ==
    /\ mode \in {"move", "copy"} /\ policy \in {"error", "skip", "replace"}
    /\ \E nfos \in SUBSET {Nfo(i) : i \in Items} :
         disk = [p \in Places |-> IF p[1] = "src" THEN Media(p[2])
                                  ELSE IF p \in nfos THEN Earlier
                                  ELSE IF p = Junk THEN Filtered ELSE None]
    /\ sourceDir = TRUE
    /\ run = [step |-> "item", item |-> 1, conflict |-> FALSE, errors |-> FALSE]
    /\ completed = {} /\ journal = <<>> /\ paths = [i \in Items |-> Src(i)]
    /\ before = disk /\ users = {} /\ moved = {} /\ raced = {} /\ unsaved = {}
    /\ changes = 0 /\ failures = 0

Next ==
    \/ ItemBegins \/ MediaPlaced \/ NfoWritten \/ JunkTrashed \/ DirectoryRemoved
    \/ ItemSucceeds \/ ItemFails \/ Stored
    \/ UndoBegins \/ UndoLooks \/ UndoMoves \/ UndoDeletes \/ UndoWrites \/ UndoStepFails
    \/ UndoEnds
    \/ (\E p \in Places : UserWrites(p)) \/ \E i \in Items : UserMoves(i)
Spec == Init /\ [][Next]_organizeVars

-----------------------------------------------------------------------------
TypeOK ==
    /\ mode \in {"move", "copy"} /\ policy \in {"error", "skip", "replace"}
    /\ disk \in [Places -> Contents] /\ before \in [Places -> Contents]
    /\ sourceDir \in BOOLEAN
    /\ run \in [step : {"item", "media", "nfo", "trash", "rmdir", "succeeded", "store",
                        "stored", "undo", "undoing", "undone"},
                item : Nat, conflict : BOOLEAN, errors : BOOLEAN]
    /\ completed \subseteq Items
    /\ journal \in Seq([action : {"move_back", "delete_created", "restore_text",
                                  "restore_trashed", "recreate"},
                        path : Places, original : Places, content : Contents])
    /\ paths \in [Items -> Places]
    /\ users \subseteq Places /\ moved \subseteq Items /\ raced \subseteq users
    /\ unsaved \subseteq Places
    /\ changes \in 0..MaxChanges /\ failures \in 0..MaxFailures

(* A run, complete or with items that failed half way, and an undo that    *)
(* meets no error leave the disk and the asset rows as they were, if       *)
(* nobody touched a file in between; but for the NFOs whose text was       *)
(* overwritten without a backup (before_overwrite() returns False and      *)
(* execute() writes) and the parts of files a failed move or copy of the   *)
(* run left where there was nothing.                                       *)
RoundTrip ==
    run.step = "undone" /\ ~run.errors /\ users = {} /\ moved = {} =>
        /\ \A p \in Places \ unsaved :
             disk[p] = before[p] \/ (disk[p] = Partial /\ before[p] = None)
        /\ sourceDir
        /\ \A i \in Items : paths[i] = Src(i)

(* A file the user has put where a video was or goes is never lost, unless *)
(* he put it there between the look of the run or the undo at that place   *)
(* and the move or deletion that follows it: the run stops at it and the   *)
(* undo leaves it or, if it lies where the run put a video, moves it.      *)
UserFilesKept ==
    \A p \in users \ raced : p[1] # "nfo" => \E q \in Places : disk[q] = Users(p)

(* "Undo refuses any step whose current filesystem state no longer matches *)
(* what the run left behind, so a user edit made after the run is never    *)
(* clobbered" (media/organize_journal.py:4-7).  The moves and deletions,   *)
(* which look before they act, are left out.                               *)
EditsKept ==
    [][run.step = "undo" =>
         \A p \in users : disk[p] = Users(p) =>
            \E q \in Places : disk'[q] = Users(p)]_organizeVars
=============================================================================
