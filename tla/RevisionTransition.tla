------------------------- MODULE RevisionTransition -------------------------
(***************************************************************************)
(* Applying the archive-first participant revision                         *)
(* (tools/m2/reopen_participant_revision.py apply): the old tuple is       *)
(* archived, the roadmap and three more documents are replaced, and only   *)
(* then are the stale report and Gate8 tree removed.  A run may be killed  *)
(* between any two of its system calls and started again; power may fail,  *)
(* and then a directory that was not fsynced may hold its older entries.   *)
(* Someone may edit the repository at any time, but not in the instant     *)
(* between the last look at a file and the call that replaces it.          *)
(***************************************************************************)
EXTENDS Naturals, FiniteSets

CONSTANTS GateFiles,                         \* archived files of the Gate8 tree
          MaxKills, MaxLosses, MaxEdits,     \* bounds on what happens from outside
          KillsAndLosses                     \* may both kinds meet in one history?

ASSUME Bounds == /\ IsFiniteSet(GateFiles) /\ GateFiles # {}
                 /\ MaxKills \in Nat /\ MaxLosses \in Nat /\ MaxEdits \in Nat
                 /\ KillsAndLosses \in BOOLEAN

VARIABLES disk,      \* the repository as a process sees it
          synced,    \* the directory entries that a power failure cannot undo
          pc,        \* the next step of the running apply, "idle" if none runs
          document,  \* the document a replacing run is at
          kills, losses, edits,
          destroyed  \* history: versions that a run deleted or replaced

vars == <<disk, synced, pc, document, kills, losses, edits, destroyed>>

(* The roadmap first: it is the authority.  Then the others in path order. *)
DocumentOrder == <<"roadmap", "decisions", "m2-plan", "m2-spec">>
Documents == {DocumentOrder[i] : i \in 1..4}

Versions == {"prior", "pending", "edited"}

Disk == [archived : BOOLEAN,                                 \* artifacts/history
         docs     : [Documents -> Versions],                 \* docs, with the stage
         stages   : SUBSET Documents,                        \*   files beside them
         report   : {"prior", "edited", "absent"},           \* reports
         place    : {"live", "tomb", "gone"},                \* artifacts
         files    : [GateFiles -> {"prior", "edited", "absent"}],
         foreign  : BOOLEAN]                                 \* an extra file in the tree

Steps == {"idle", "archive", "sync_archive", "recheck", "stage", "replace", "sync_document",
          "report", "sync_report", "rename", "sync_rename", "verify_tomb", "unlink",
          "sync_removal", "finish"}

Original == [archived |-> FALSE, docs |-> [d \in Documents |-> "prior"], stages |-> {},
             report |-> "prior", place |-> "live", files |-> [f \in GateFiles |-> "prior"],
             foreign |-> FALSE]

-----------------------------------------------------------------------------
(* _verify_live, before the roadmap changed and after.                     *)

VerifiedPrior(d) ==
    /\ d.place = "live" /\ ~d.foreign
    /\ \A f \in GateFiles : d.files[f] = "prior"
    /\ \A n \in Documents : d.docs[n] = "prior"
    /\ d.report = "prior"

MutantVerifiedPending(d) ==                        \* expects the report still to be there
    /\ ~d.foreign
    /\ \A f \in GateFiles : d.files[f] # "edited"
    /\ d.docs["roadmap"] = "pending"
    /\ \A n \in Documents : d.docs[n] # "edited"
    /\ d.report = "prior" \/ d.place # "live"

VerifiedPending(d) ==
    /\ ~d.foreign
    /\ \A f \in GateFiles : d.files[f] # "edited"
    /\ d.docs["roadmap"] = "pending"
    /\ \A n \in Documents : d.docs[n] # "edited"
    /\ d.report # "edited"

(* The checks of apply before its first write.                             *)
Admitted(d) ==
    /\ d.stages = {}
    /\ \/ d.docs["roadmap"] = "prior" /\ VerifiedPrior(d)
       \/ d.docs["roadmap"] = "pending" /\ d.archived /\ VerifiedPending(d)

(* A document is visited once: what changes behind the run is not seen.    *)
Outstanding(d, from) == {i \in from..4 : d.docs[DocumentOrder[i]] # "pending"}

Following(n) == 1 + CHOOSE i \in 1..4 : DocumentOrder[i] = n

(* Where a run goes once the documents before this one are in place.       *)
NextDocument(d, from) ==
    LET left == Outstanding(d, from)
        first == CHOOSE i \in left : \A j \in left : i <= j
    IN  IF left = {} THEN pc' = "report" /\ document' = "roadmap"
                     ELSE pc' = "stage" /\ document' = DocumentOrder[first]

World == <<kills, losses, edits>>

Goto(step) == pc' = step /\ UNCHANGED document

-----------------------------------------------------------------------------
Init == /\ disk = Original /\ synced = Original
        /\ pc = "idle" /\ document = "roadmap"
        /\ kills = 0 /\ losses = 0 /\ edits = 0
        /\ destroyed = {}

Start ==
    /\ pc = "idle"
    /\ Admitted(disk)
    /\ IF disk.docs["roadmap"] = "prior"
       THEN pc' = "archive" /\ document' = "roadmap"
       ELSE NextDocument(disk, 2)
    /\ UNCHANGED <<disk, synced, World, destroyed>>

MutantInstallArchive ==                            \* no fsync of the history directory
    /\ pc = "archive"
    /\ disk' = [disk EXCEPT !.archived = TRUE]
    /\ Goto("recheck")
    /\ UNCHANGED <<synced, World, destroyed>>

(* _install_archive: a private stage is filled, synced and verified, then  *)
(* renamed.  An archive already there is verified and used as it is.       *)
InstallArchive ==
    /\ pc = "archive"
    /\ disk' = [disk EXCEPT !.archived = TRUE]
    /\ Goto(IF disk.archived THEN "recheck" ELSE "sync_archive")
    /\ UNCHANGED <<synced, World, destroyed>>

SyncArchive ==
    /\ pc = "sync_archive"
    /\ synced' = [synced EXCEPT !.archived = disk.archived]
    /\ Goto("recheck")
    /\ UNCHANGED <<disk, World, destroyed>>

Recheck ==
    /\ pc = "recheck"
    /\ VerifiedPrior(disk)
    /\ Goto("stage")
    /\ UNCHANGED <<disk, synced, World, destroyed>>

-----------------------------------------------------------------------------
(* _replace_document.                                                      *)

StageDocument ==
    /\ pc = "stage"
    /\ disk.docs[document] = "prior"
    /\ document \notin disk.stages
    /\ disk' = [disk EXCEPT !.stages = @ \cup {document}]
    /\ Goto("replace")
    /\ UNCHANGED <<synced, World, destroyed>>

MutantReplaceDocument ==                           \* overwrites whatever is there
    /\ pc = "replace"
    /\ disk' = [disk EXCEPT !.stages = @ \ {document}, !.docs[document] = "pending"]
    /\ destroyed' = destroyed \cup {<<document, disk.docs[document]>>}
    /\ Goto("sync_document")
    /\ UNCHANGED <<synced, World>>

ReplaceDocument ==
    /\ pc = "replace"
    /\ disk.docs[document] = "prior"
    /\ disk' = [disk EXCEPT !.stages = @ \ {document}, !.docs[document] = "pending"]
    /\ destroyed' = destroyed \cup {<<document, disk.docs[document]>>}
    /\ Goto("sync_document")
    /\ UNCHANGED <<synced, World>>

MutantSyncDocument ==                              \* no fsync of docs/
    /\ pc = "sync_document"
    /\ NextDocument(disk, Following(document))
    /\ UNCHANGED <<disk, synced, World, destroyed>>

SyncDocument ==
    /\ pc = "sync_document"
    /\ synced' = [synced EXCEPT !.docs = disk.docs, !.stages = disk.stages]
    /\ NextDocument(disk, Following(document))
    /\ UNCHANGED <<disk, World, destroyed>>

-----------------------------------------------------------------------------
(* _remove_stale.                                                          *)

RemoveReport ==
    /\ pc = "report"
    /\ VerifiedPending(disk)
    /\ disk' = [disk EXCEPT !.report = "absent"]
    /\ destroyed' = IF disk.report = "absent" THEN destroyed
                    ELSE destroyed \cup {<<"report", disk.report>>}
    /\ Goto(IF disk.report = "absent" THEN "rename" ELSE "sync_report")
    /\ UNCHANGED <<synced, World>>

SyncReport ==
    /\ pc = "sync_report"
    /\ synced' = [synced EXCEPT !.report = disk.report]
    /\ Goto("rename")
    /\ UNCHANGED <<disk, World, destroyed>>

MutantRenameGate8 ==                               \* forgets a tombstone left by an earlier run
    /\ pc = "rename"
    /\ disk' = [disk EXCEPT !.place = IF @ = "live" THEN "tomb" ELSE @]
    /\ Goto(IF disk.place = "live" THEN "sync_rename" ELSE "finish")
    /\ UNCHANGED <<synced, World, destroyed>>

RenameGate8 ==
    /\ pc = "rename"
    /\ disk' = [disk EXCEPT !.place = IF @ = "live" THEN "tomb" ELSE @]
    /\ Goto(CASE disk.place = "live" -> "sync_rename"
              [] disk.place = "tomb" -> "verify_tomb"
              [] disk.place = "gone" -> "finish")
    /\ UNCHANGED <<synced, World, destroyed>>

SyncRename ==
    /\ pc = "sync_rename"
    /\ synced' = [synced EXCEPT !.place = disk.place]
    /\ Goto("verify_tomb")
    /\ UNCHANGED <<disk, World, destroyed>>

VerifyTomb ==
    /\ pc = "verify_tomb"
    /\ VerifiedPending(disk)
    /\ Goto("unlink")
    /\ UNCHANGED <<disk, synced, World, destroyed>>

(* Files go one by one, each compared with its archived row first.         *)
UnlinkFile ==
    /\ pc = "unlink"
    /\ \E f \in GateFiles :
          /\ disk.files[f] = "prior"
          /\ disk' = [disk EXCEPT !.files[f] = "absent"]
          /\ destroyed' = destroyed \cup {<<f, disk.files[f]>>}
    /\ UNCHANGED <<synced, pc, document, World>>

(* An rmdir fails on a directory that still holds a file.                  *)
RemoveDirectories ==
    /\ pc = "unlink"
    /\ \A f \in GateFiles : disk.files[f] = "absent"
    /\ ~disk.foreign
    /\ disk' = [disk EXCEPT !.place = "gone"]
    /\ Goto("sync_removal")
    /\ UNCHANGED <<synced, World, destroyed>>

SyncRemoval ==
    /\ pc = "sync_removal"
    /\ synced' = [synced EXCEPT !.place = disk.place, !.files = disk.files]
    /\ Goto("finish")
    /\ UNCHANGED <<disk, World, destroyed>>

Finish ==
    /\ pc = "finish"
    /\ VerifiedPending(disk)
    /\ Goto("idle")
    /\ UNCHANGED <<disk, synced, World, destroyed>>

(* A check inside the run fails: it raises, and nothing is put back.       *)
Refuse ==
    /\ \/ pc = "recheck" /\ ~VerifiedPrior(disk)
       \/ pc = "stage" /\ disk.docs[document] # "prior"
       \/ pc = "replace" /\ disk.docs[document] # "prior"
       \/ pc \in {"report", "verify_tomb", "finish"} /\ ~VerifiedPending(disk)
       \/ pc = "unlink" /\ (disk.foreign \/ \E f \in GateFiles : disk.files[f] = "edited")
    /\ Goto("idle")
    /\ UNCHANGED <<disk, synced, World, destroyed>>

Run == \/ Start \/ InstallArchive \/ SyncArchive \/ Recheck
       \/ StageDocument \/ ReplaceDocument \/ SyncDocument
       \/ RemoveReport \/ SyncReport \/ RenameGate8 \/ SyncRename \/ VerifyTomb
       \/ UnlinkFile \/ RemoveDirectories \/ SyncRemoval \/ Finish \/ Refuse

-----------------------------------------------------------------------------
(* From outside.                                                           *)

Kill ==
    /\ pc # "idle" /\ kills < MaxKills
    /\ KillsAndLosses \/ losses = 0
    /\ kills' = kills + 1
    /\ Goto("idle")
    /\ UNCHANGED <<disk, synced, losses, edits, destroyed>>

(* Each directory comes back as it is or as it was last synced; within the *)
(* tombstone, which is never synced, each file on its own.                 *)
PowerLoss ==
    /\ losses < MaxLosses
    /\ KillsAndLosses \/ kills = 0
    /\ \E history, docs, reports, artifacts \in {disk, synced} :
       \E reappearing \in SUBSET GateFiles :
          LET place == artifacts.place
          IN  disk' = [archived |-> history.archived,
                       docs     |-> docs.docs,
                       stages   |-> docs.stages,
                       report   |-> reports.report,
                       place    |-> place,
                       files    |-> [f \in GateFiles |->
                                       IF place # "gone" /\ f \in reappearing
                                       THEN synced.files[f] ELSE disk.files[f]],
                       foreign  |-> disk.foreign]
    /\ synced' = disk'
    /\ losses' = losses + 1
    /\ Goto("idle")
    /\ UNCHANGED <<kills, edits, destroyed>>

(* The stage file of an interrupted replacement is cleared by hand.        *)
ClearStage ==
    /\ pc = "idle" /\ disk.stages # {}
    /\ disk' = [disk EXCEPT !.stages = {}]
    /\ synced' = [synced EXCEPT !.stages = {}]
    /\ UNCHANGED <<pc, document, World, destroyed>>

EditDocument ==
    \E n \in Documents : /\ disk' = [disk EXCEPT !.docs[n] = "edited"]
                         /\ synced' = [synced EXCEPT !.docs[n] = "edited"]

EditReport ==
    /\ disk.report = "prior"
    /\ disk' = [disk EXCEPT !.report = "edited"]
    /\ synced' = [synced EXCEPT !.report = "edited"]

EditGate8 ==
    \E f \in {f \in GateFiles : disk.files[f] = "prior"} :
        /\ disk' = [disk EXCEPT !.files[f] = "edited"]
        /\ synced' = [synced EXCEPT !.files[f] = "edited"]

AddToGate8 ==
    /\ disk.place # "gone"
    /\ disk' = [disk EXCEPT !.foreign = TRUE]
    /\ synced' = [synced EXCEPT !.foreign = TRUE]

Edit ==
    /\ edits < MaxEdits
    /\ edits' = edits + 1
    /\ EditDocument \/ EditReport \/ EditGate8 \/ AddToGate8
    /\ UNCHANGED <<pc, document, kills, losses, destroyed>>

Outside == Kill \/ PowerLoss \/ ClearStage \/ Edit

Next == Run \/ Outside

Spec == Init /\ [][Next]_vars

(* The owner clears a left-over stage and runs the command again until it  *)
(* has nothing to do.                                                      *)
LiveSpec == Spec /\ WF_vars(Run) /\ WF_vars(ClearStage)

-----------------------------------------------------------------------------
TypeOK ==
    /\ disk \in Disk /\ synced \in Disk
    /\ pc \in Steps /\ document \in Documents
    /\ pc \in {"stage", "replace"} => disk.docs[document] # "pending"
    /\ kills \in 0..MaxKills /\ losses \in 0..MaxLosses /\ edits \in 0..MaxEdits
    /\ destroyed \subseteq (Documents \cup {"report"} \cup GateFiles) \X Versions

Complete(d) ==
    /\ \A n \in Documents : d.docs[n] = "pending"
    /\ d.report = "absent" /\ d.place = "gone"

(* The archive is there before the authority changes: no pending roadmap   *)
(* is ever read beside a missing archive.                                  *)
ArchiveBeforeAuthority == disk.docs["roadmap"] = "pending" => disk.archived

(* Stale outputs are touched only under the new authority: a repository    *)
(* whose roadmap still claims the old result has that result complete.     *)
OutputsUnderAuthority ==
    disk.docs["roadmap"] = "prior" =>
        /\ disk.report # "absent" /\ disk.place = "live"
        /\ \A f \in GateFiles : disk.files[f] # "absent"

(* Nothing that is not in the archive is ever deleted or overwritten.      *)
OnlyArchivedDestroyed ==
    /\ \A gone \in destroyed : gone[2] = "prior"
    /\ destroyed # {} => disk.archived

(* However a run was interrupted, the command accepts the repository it    *)
(* left, once the stage file is cleared: there is no state only a human    *)
(* can repair.                                                             *)
Resumable == pc = "idle" /\ edits = 0 /\ disk.stages = {} => Admitted(disk)

(* Interruptions end, and then the transition does, unless someone edited. *)
EventuallyComplete == <>[]Complete(disk) \/ <>(edits > 0)
=============================================================================
